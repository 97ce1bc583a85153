----------------------------- MODULE OaspiRxProofs -----------------------------
(***************************************************************************)
(* Proofs about OaspiRx: whatever chunks are lost, the frames given are    *)
(* whole, acceptable and in order, with times of the MACPHY in order; and  *)
(* each acceptable frame of which no chunk is lost is given, with its own. *)
(***************************************************************************)
EXTENDS OaspiRx, SequenceTheorems, TLAPS

-----------------------------------------------------------------------------
(* Parts of sequences *)

LEMMA TakeSeq ==
  ASSUME NEW S, NEW s \in Seq(S), NEW n \in 0..Len(s)
  PROVE  /\ Take(s, n) \in Seq(S) /\ Len(Take(s, n)) = n
         /\ \A i \in 1..n : Take(s, n)[i] = s[i]
<1>1. Len(s) \in Nat /\ \A i \in 1..n : s[i] \in S
  BY ElementOfSeq
<1>2. /\ SubSeq(s, 1, n) \in Seq(S)
      /\ Len(SubSeq(s, 1, n)) = IF 1 <= n THEN n - 1 + 1 ELSE 0
      /\ \A i \in 1..n - 1 + 1 : SubSeq(s, 1, n)[i] = s[1 + i - 1]
  BY <1>1, SubSeqProperties
<1> DEFINE t == SubSeq(s, 1, n)
<1> HIDE DEF t
<1>3. t \in Seq(S) /\ Len(t) = n /\ \A i \in 1..n : t[i] = s[i]
  BY <1>1, <1>2 DEF t
<1> QED BY <1>3 DEF t, Take

LEMMA DropSeq ==
  ASSUME NEW S, NEW s \in Seq(S), NEW n \in Nat
  PROVE  /\ Drop(s, n) \in Seq(S)
         /\ Len(Drop(s, n)) = IF n <= Len(s) THEN Len(s) - n ELSE 0
         /\ \A i \in 1..Len(s) - n : Drop(s, n)[i] = s[n + i]
<1>1. Len(s) \in Nat /\ n + 1 \in Int /\ \A i \in n + 1..Len(s) : s[i] \in S
  BY ElementOfSeq
<1>2. /\ SubSeq(s, n + 1, Len(s)) \in Seq(S)
      /\ Len(SubSeq(s, n + 1, Len(s))) = IF n + 1 <= Len(s) THEN Len(s) - (n + 1) + 1 ELSE 0
      /\ \A i \in 1..Len(s) - (n + 1) + 1 : SubSeq(s, n + 1, Len(s))[i] = s[n + 1 + i - 1]
  BY <1>1, SubSeqProperties
<1> DEFINE t == SubSeq(s, n + 1, Len(s))
<1> HIDE DEF t
<1>3. t \in Seq(S) /\ Len(t) = IF n <= Len(s) THEN Len(s) - n ELSE 0
  BY <1>1, <1>2 DEF t
<1>4. \A i \in 1..Len(s) - n : t[i] = s[n + i]
  BY <1>1, <1>2 DEF t
<1> QED BY <1>3, <1>4 DEF t, Drop

LEMMA Join ==
  ASSUME NEW S, NEW s \in Seq(S), NEW t \in Seq(S)
  PROVE  /\ s \o t \in Seq(S) /\ Len(s \o t) = Len(s) + Len(t)
         /\ \A i \in 1..Len(s) : (s \o t)[i] = s[i]
         /\ \A i \in 1..Len(t) : (s \o t)[Len(s) + i] = t[i]
<1> DEFINE u == s \o t
<1>1. /\ u \in Seq(S) /\ Len(u) = Len(s) + Len(t) /\ Len(s) \in Nat /\ Len(t) \in Nat
      /\ \A i \in 1..Len(s) + Len(t) : u[i] = IF i <= Len(s) THEN s[i] ELSE t[i - Len(s)]
  BY ConcatProperties
<1> HIDE DEF u
<1>2. \A i \in 1..Len(s) : u[i] = s[i]
  BY <1>1
<1>3. ASSUME NEW i \in 1..Len(t) PROVE u[Len(s) + i] = t[i]
  <2>1. /\ Len(s) + i \in 1..Len(s) + Len(t) /\ ~(Len(s) + i <= Len(s))
        /\ (Len(s) + i) - Len(s) = i
    BY <1>1
  <2> QED BY <1>1, <2>1, Zenon
<1> QED BY <1>1, <1>2, <1>3 DEF u

-----------------------------------------------------------------------------
(* Frames, units and eth_task's record *)

Parts == Nat \X Int \X Nat
Records == [buf : Seq(Parts), expect : BOOLEAN, good : BOOLEAN, ts : Int,
            given : Seq([frame : Nat, ts : Int])]
Frames == [size : SIZES, stamped : BOOLEAN, good : BOOLEAN, dropped : BOOLEAN]

\* The units of a timestamp, and unit j of frame f, which has n, counted from there.
Lead(stamped) == IF stamped THEN TS_UNITS ELSE 0
Unit(f, n, stamped, j) ==
  IF j <= Lead(stamped) THEN <<f, -j, n>> ELSE <<f, j - Lead(stamped), n>>
UnitsOf(f, n) == {f} \X Int \X {n}
Body(f, n, k) == [i \in 1..k |-> <<f, i, n>>]

\* rx holds units of no other frame than f, and no timestamp of a later one.
Holding(rx, f, n) ==
  /\ rx \in Records /\ rx.buf \in Seq(UnitsOf(f, n)) /\ Len(rx.buf) <= BUF /\ rx.ts \in -1..f

\* rx has received the first k units of frame f and lost nothing: the timestamp
\* is still coming, or it is kept if it is good and the frame is in the buffer.
Carried(rx, f, fr, k) ==
  \/ /\ rx.expect /\ fr.stamped /\ k < TS_UNITS /\ Len(rx.buf) = k
     /\ \A i \in 1..k : rx.buf[i] = Unit(f, fr.size, fr.stamped, i)
     /\ rx.good = fr.good /\ rx.ts = None
  \/ /\ ~rx.expect /\ k >= Lead(fr.stamped)
     /\ rx.buf = Body(f, fr.size, k - Lead(fr.stamped))
     /\ rx.ts = IF fr.stamped /\ fr.good THEN f ELSE None

LEMMA Leads ==
  ASSUME NEW stamped
  PROVE  Lead(stamped) \in 0..TS_UNITS /\ TS_UNITS \in Nat \ {0}
BY RxAssumption DEF RxAssumption, Lead

LEMMA FrameFields ==
  ASSUME NEW fr \in Frames
  PROVE  /\ fr.size \in Nat \ {0} /\ fr.stamped \in BOOLEAN /\ fr.good \in BOOLEAN
         /\ fr.dropped \in BOOLEAN
BY RxAssumption DEF RxAssumption, Frames

LEMMA UnitTypes ==
  ASSUME NEW f \in Nat, NEW n \in Nat
  PROVE  /\ UnitsOf(f, n) \subseteq Parts
         /\ \A stamped : \A j \in Int : Unit(f, n, stamped, j) \in UnitsOf(f, n)
         /\ \A u \in UnitsOf(f, n) : u[1] = f /\ u[3] = n
         /\ \A s \in Seq(UnitsOf(f, n)) : s \in Seq(Parts)
<1>1. UnitsOf(f, n) \subseteq Parts
  BY DEF UnitsOf, Parts
<1>2. ASSUME NEW stamped, NEW j \in Int PROVE Unit(f, n, stamped, j) \in UnitsOf(f, n)
  <2>1. Lead(stamped) \in Int
    BY Leads
  <2> QED BY <2>1 DEF Unit, UnitsOf
<1>3. \A u \in UnitsOf(f, n) : u[1] = f /\ u[3] = n
  BY DEF UnitsOf
<1>4. \A s \in Seq(UnitsOf(f, n)) : s \in Seq(Parts)
  BY <1>1, SeqMonotonic
<1> QED BY <1>1, <1>2, <1>3, <1>4

LEMMA BodyIs ==
  ASSUME NEW f \in Nat, NEW n \in Nat, NEW k \in Nat
  PROVE  /\ Body(f, n, k) \in Seq(UnitsOf(f, n)) /\ Len(Body(f, n, k)) = k
         /\ \A i \in 1..k : Body(f, n, k)[i] = <<f, i, n>>
<1>1. \A i \in 1..k : <<f, i, n>> \in UnitsOf(f, n)
  BY DEF UnitsOf
<1>2. /\ Body(f, n, k) \in Seq(UnitsOf(f, n)) /\ Len(Body(f, n, k)) = k
      /\ \A i \in 1..k : Body(f, n, k)[i] = <<f, i, n>>
  BY <1>1 DEF Body
<1> QED BY <1>2

LEMMA BodyOnly ==
  ASSUME NEW f \in Nat, NEW n \in Nat, NEW k \in Nat, NEW s \in Seq(UnitsOf(f, n)),
         Len(s) = k, \A i \in 1..k : s[i] = <<f, i, n>>
  PROVE  s = Body(f, n, k)
<1>1. /\ Body(f, n, k) \in Seq(UnitsOf(f, n)) /\ Len(Body(f, n, k)) = k
      /\ \A i \in 1..k : Body(f, n, k)[i] = <<f, i, n>>
  BY BodyIs
<1> QED BY <1>1, SeqEqual

LEMMA DroppedFields ==
  ASSUME NEW rx \in Records
  PROVE  /\ Dropped(rx) \in Records /\ Dropped(rx).buf = <<>>
         /\ Dropped(rx).expect = rx.expect /\ Dropped(rx).good = rx.good
         /\ Dropped(rx).ts = rx.ts /\ Dropped(rx).given = rx.given
<1>1. <<>> \in Seq(Parts)
  OBVIOUS
<1> QED BY <1>1 DEF Dropped, Records

LEMMA ResetFields ==
  ASSUME NEW rx \in Records, NEW c, c.rtsa \in BOOLEAN, c.rtsp \in BOOLEAN
  PROVE  LET r == Dropped(ts_reset(rx, c))
         IN  /\ r \in Records /\ r.buf = <<>> /\ r.expect = c.rtsa /\ r.good = c.rtsp
             /\ r.ts = None /\ r.given = rx.given
<1> DEFINE r == ts_reset(rx, c)
<1>1. /\ r \in Records /\ r.expect = c.rtsa /\ r.good = c.rtsp
      /\ r.ts = None /\ r.given = rx.given
  <2>1. None \in Int
    BY DEF None
  <2> QED BY <2>1 DEF ts_reset, Records
<1> HIDE DEF r
<1>2. /\ Dropped(r) \in Records /\ Dropped(r).buf = <<>>
      /\ Dropped(r).expect = r.expect /\ Dropped(r).good = r.good
      /\ Dropped(r).ts = r.ts /\ Dropped(r).given = r.given
  BY <1>1, DroppedFields
<1> QED BY <1>1, <1>2 DEF r

-----------------------------------------------------------------------------
(* What add_rx_buffer makes of the units of a chunk *)

\* The units are appended, and a timestamp that is complete is taken off.
Fed(rx, units) == take_timestamp([rx EXCEPT !.buf = @ \o units])

LEMMA AddIs ==
  ASSUME NEW rx, NEW units
  PROVE  /\ add_rx_buffer(rx, units, FALSE, FALSE) =
              IF too_long(rx, units) THEN Dropped(rx) ELSE Fed(rx, units)
         /\ add_rx_buffer(rx, units, FALSE, TRUE) =
              IF too_long(rx, units) THEN Dropped(rx) ELSE finish(Fed(rx, units))
         /\ \A end \in BOOLEAN : add_rx_buffer(rx, units, TRUE, end) =
                                 add_rx_buffer(Dropped(rx), units, FALSE, end)
BY Zenon DEF add_rx_buffer, Fed

\* Units of a frame are read as its time or a wrong one, as its own if they are
\* its timestamp.
LEMMA TimeIs ==
  ASSUME NEW s \in Seq(Parts), Len(s) >= TS_UNITS
  PROVE  LET t == time_in(Take(s, TS_UNITS))
         IN  /\ t \in {Wrong, s[1][1]} /\ t \in Int
             /\ \A f, n : (\A i \in 1..TS_UNITS : s[i] = <<f, -i, n>>) => t = f
<1> DEFINE u == Take(s, TS_UNITS)
           g == u[1][1]
           m == u[1][3]
           t == time_in(u)
<1>1. TS_UNITS \in Nat \ {0} /\ Len(s) \in Nat
  BY Leads
<1>2. u \in Seq(Parts) /\ Len(u) = TS_UNITS /\ \A i \in 1..TS_UNITS : u[i] = s[i]
  <2>1. TS_UNITS \in 0..Len(s)
    BY <1>1
  <2> QED BY <2>1, TakeSeq
<1>3. t = IF u = [i \in 1..TS_UNITS |-> <<g, -i, m>>] THEN g ELSE Wrong
  BY DEF time_in
<1> HIDE DEF u, t
<1>4. 1 \in 1..TS_UNITS /\ 1 \in 1..Len(s)
  BY <1>1
<1>5. g = s[1][1] /\ m = s[1][3]
  BY <1>2, <1>4
<1>6. s[1][1] \in Nat
  <2>1. s[1] \in Parts
    BY <1>4, ElementOfSeq
  <2> QED BY <2>1 DEF Parts
<1>7. t \in {Wrong, s[1][1]} /\ t \in Int
  <2>1. Wrong \in Int
    BY DEF Wrong
  <2>2. t = s[1][1] \/ t = Wrong
    BY <1>3, <1>5, Zenon
  <2> QED BY <1>6, <2>1, <2>2
<1>8. ASSUME NEW f, NEW n, \A i \in 1..TS_UNITS : s[i] = <<f, -i, n>> PROVE t = f
  <2>1. s[1] = <<f, -1, n>>
    BY <1>4, <1>8
  <2>2. g = f /\ m = n
    BY <1>5, <2>1
  <2> DEFINE v == [i \in 1..TS_UNITS |-> <<f, -i, n>>]
             V == {f} \X Int \X {n}
  <2>3. v \in Seq(V) /\ Len(v) = TS_UNITS /\ \A i \in 1..TS_UNITS : v[i] = <<f, -i, n>>
    <3>1. v \in [1..TS_UNITS -> V]
      BY <1>1
    <3> QED BY <1>1, <3>1
  <2>4. u \in Seq(V)
    <3>1. ASSUME NEW i \in 1..TS_UNITS PROVE u[i] \in V
      <4>1. u[i] = <<f, -i, n>>
        BY <1>2, <1>8
      <4> QED BY <1>1, <4>1
    <3>2. u \in [1..TS_UNITS -> V]
      BY <1>1, <1>2, <3>1, LenProperties
    <3> QED BY <1>1, <3>2
  <2> HIDE DEF v, V
  <2>5. u = v
    BY <1>2, <1>8, <2>3, <2>4, SeqEqual
  <2> QED BY <1>3, <2>2, <2>5, Zenon DEF v
<1> QED BY <1>7, <1>8 DEF u, t

LEMMA FedFields ==
  ASSUME NEW rx \in Records, NEW units \in Seq(Parts)
  PROVE  LET r == Fed(rx, units)
             all == rx.buf \o units
         IN  /\ r \in Records /\ r.given = rx.given /\ r.good = rx.good
             /\ rx.expect /\ Len(all) >= TS_UNITS =>
                  /\ ~r.expect /\ r.buf = Drop(all, TS_UNITS)
                  /\ r.ts = IF rx.good THEN time_in(Take(all, TS_UNITS)) ELSE rx.ts
             /\ ~(rx.expect /\ Len(all) >= TS_UNITS) =>
                  r.expect = rx.expect /\ r.buf = all /\ r.ts = rx.ts
<1> DEFINE all == rx.buf \o units
           w == [rx EXCEPT !.buf = @ \o units]
           r == [w EXCEPT !.ts = IF w.good THEN time_in(Take(w.buf, TS_UNITS)) ELSE @,
                          !.buf = Drop(@, TS_UNITS), !.expect = FALSE]
<1>1. all \in Seq(Parts) /\ Len(all) \in Nat
  <2>1. rx.buf \in Seq(Parts)
    BY DEF Records
  <2> QED BY <2>1, Join
<1>2. /\ w \in Records /\ w.buf = all /\ w.expect = rx.expect /\ w.good = rx.good
      /\ w.ts = rx.ts /\ w.given = rx.given
  <2> HIDE DEF all
  <2>1. w = [rx EXCEPT !.buf = all]
    BY DEF all
  <2> HIDE DEF w
  <2> QED BY <1>1, <2>1 DEF Records
<1>3. Fed(rx, units) = IF w.expect /\ Len(w.buf) >= TS_UNITS THEN r ELSE w
  BY DEF Fed, take_timestamp
<1> HIDE DEF all, w
<1>4. ASSUME Len(all) >= TS_UNITS
      PROVE  /\ r \in Records /\ r.given = rx.given /\ r.good = rx.good
             /\ ~r.expect /\ r.buf = Drop(all, TS_UNITS)
             /\ r.ts = IF rx.good THEN time_in(Take(all, TS_UNITS)) ELSE rx.ts
  <2>1. Drop(all, TS_UNITS) \in Seq(Parts)
    <3>1. TS_UNITS \in Nat \ {0}
      BY Leads
    <3> QED BY <1>1, <3>1, DropSeq
  <2>2. time_in(Take(all, TS_UNITS)) \in Int
    BY <1>1, <1>4, TimeIs
  <2> DEFINE d == Drop(all, TS_UNITS)
             t == time_in(Take(all, TS_UNITS))
  <2>3. r = [w EXCEPT !.ts = IF w.good THEN t ELSE @, !.buf = d, !.expect = FALSE]
    BY <1>2
  <2>4. d \in Seq(Parts) /\ t \in Int
    BY <2>1, <2>2
  <2> HIDE DEF d, t, r
  <2>5. /\ r \in Records /\ r.given = rx.given /\ r.good = rx.good
        /\ ~r.expect /\ r.buf = d /\ r.ts = IF rx.good THEN t ELSE rx.ts
    BY <1>2, <2>3, <2>4 DEF Records
  <2> QED BY <2>5 DEF d, t
<1> HIDE DEF r
<1>5. CASE rx.expect /\ Len(all) >= TS_UNITS
  BY <1>2, <1>3, <1>4, <1>5, Zenon DEF all
<1>6. CASE ~(rx.expect /\ Len(all) >= TS_UNITS)
  BY <1>2, <1>3, <1>6, Zenon DEF all
<1> QED BY <1>5, <1>6, Zenon DEF all

LEMMA FinishFields ==
  ASSUME NEW rx \in Records, NEW f \in Nat, NEW n \in Nat, Holding(rx, f, n)
  PROVE  LET r == finish(rx)
         IN  /\ r \in Records /\ r.buf = <<>> /\ r.ts \in -1..f
             /\ \/ /\ Len(rx.buf) >= MIN_LEN /\ fcs_check(rx.buf)
                   /\ rx.buf[1][1] = f /\ rx.buf[1][3] = n
                   /\ r.given = Append(rx.given, [frame |-> f, ts |-> rx.ts]) /\ r.ts = None
                \/ /\ ~(Len(rx.buf) >= MIN_LEN /\ fcs_check(rx.buf))
                   /\ r.given = rx.given /\ r.ts = rx.ts
<1> DEFINE e == [frame |-> rx.buf[1][1], ts |-> rx.ts]
           d == Dropped(rx)
           r == [d EXCEPT !.given = Append(@, e), !.ts = None]
<1>1. d \in Records /\ d.buf = <<>> /\ d.ts = rx.ts /\ d.given = rx.given
      /\ rx.ts \in -1..f /\ rx.ts \in Int
  BY DroppedFields DEF Holding
<1>2. finish(rx) = IF Len(rx.buf) >= MIN_LEN /\ fcs_check(rx.buf) THEN r ELSE d
  BY DEF finish
<1> HIDE DEF d
<1>3. ASSUME fcs_check(rx.buf)
      PROVE  /\ rx.buf[1][1] = f /\ rx.buf[1][3] = n /\ e = [frame |-> f, ts |-> rx.ts]
             /\ r \in Records /\ r.buf = <<>> /\ r.ts = None /\ r.given = Append(rx.given, e)
  <2>1. rx.buf # <<>> /\ rx.buf \in Seq(UnitsOf(f, n))
    BY <1>3 DEF fcs_check, Holding
  <2>2. rx.buf[1] \in UnitsOf(f, n)
    <3>1. 1 \in 1..Len(rx.buf)
      BY <2>1
    <3> QED BY <2>1, <3>1, ElementOfSeq
  <2>3. rx.buf[1][1] = f /\ rx.buf[1][3] = n
    BY <2>2, UnitTypes
  <2>4. e \in [frame : Nat, ts : Int] /\ e = [frame |-> f, ts |-> rx.ts]
    BY <1>1, <2>3
  <2> HIDE DEF e
  <2>5. Append(d.given, e) \in Seq([frame : Nat, ts : Int])
    <3> DEFINE G == [frame : Nat, ts : Int]
    <3>1. d.given \in Seq(G)
      BY <1>1 DEF Records
    <3> HIDE DEF G
    <3>2. Append(d.given, e) \in Seq(G)
      BY <2>4, <3>1, AppendProperties DEF G
    <3> QED BY <3>2 DEF G
  <2> DEFINE a == Append(d.given, e)
  <2>6. r = [d EXCEPT !.given = a, !.ts = None]
    OBVIOUS
  <2>7. a \in Seq([frame : Nat, ts : Int])
    BY <2>5
  <2> HIDE DEF a, r
  <2>8. r \in Records /\ r.buf = <<>> /\ r.ts = None /\ r.given = a
    <3>1. None \in Int
      BY DEF None
    <3> QED BY <1>1, <2>6, <2>7, <3>1 DEF Records
  <2> QED BY <1>1, <2>3, <2>4, <2>8 DEF a
<1> HIDE DEF r, e
<1>4. CASE Len(rx.buf) >= MIN_LEN /\ fcs_check(rx.buf)
  <2>1. None \in -1..f
    BY DEF None
  <2> QED BY <1>2, <1>3, <1>4, <2>1
<1>5. CASE ~(Len(rx.buf) >= MIN_LEN /\ fcs_check(rx.buf))
  BY <1>1, <1>2, <1>5
<1> QED BY <1>4, <1>5

\* Units of the frame that is held leave it held.
LEMMA AddHolds ==
  ASSUME NEW f \in Nat, NEW n \in Nat, NEW rx, Holding(rx, f, n),
         NEW units \in Seq(UnitsOf(f, n))
  PROVE  /\ Holding(add_rx_buffer(rx, units, FALSE, FALSE), f, n)
         /\ add_rx_buffer(rx, units, FALSE, FALSE).given = rx.given
         /\ ~too_long(rx, units) => Holding(Fed(rx, units), f, n)
                                    /\ Fed(rx, units).given = rx.given
<1> DEFINE all == rx.buf \o units
           r == Fed(rx, units)
<1>1. /\ rx \in Records /\ rx.buf \in Seq(UnitsOf(f, n)) /\ units \in Seq(Parts)
      /\ rx.ts \in -1..f /\ Len(rx.buf) \in Nat /\ Len(units) \in Nat /\ BUF \in Nat
  BY UnitTypes, RxAssumption DEF Holding, RxAssumption
<1>2. CASE too_long(rx, units)
  <2> DEFINE d == Dropped(rx)
  <2>1. d \in Records /\ d.buf = <<>> /\ d.ts = rx.ts /\ d.given = rx.given
    BY <1>1, DroppedFields
  <2>2. add_rx_buffer(rx, units, FALSE, FALSE) = d
    BY <1>2, AddIs
  <2> HIDE DEF d
  <2>3. <<>> \in Seq(UnitsOf(f, n)) /\ Len(<<>>) <= BUF
    BY <1>1
  <2> QED BY <1>1, <1>2, <2>1, <2>2, <2>3 DEF Holding
<1>3. CASE ~too_long(rx, units)
  <2>1. /\ all \in Seq(UnitsOf(f, n)) /\ Len(all) = Len(rx.buf) + Len(units)
    BY <1>1, Join
  <2>2. Len(all) <= BUF /\ Len(all) \in Nat
    BY <1>1, <1>3, <2>1 DEF too_long
  <2>3. /\ r \in Records /\ r.given = rx.given
        /\ \/ /\ Len(all) >= TS_UNITS /\ r.buf = Drop(all, TS_UNITS)
              /\ r.ts \in {Wrong, all[1][1], rx.ts}
           \/ r.buf = all /\ r.ts = rx.ts
    <3>1. Len(all) >= TS_UNITS => time_in(Take(all, TS_UNITS)) \in {Wrong, all[1][1]}
      <4>1. all \in Seq(Parts)
        BY <1>1, <2>1, UnitTypes
      <4> QED BY <4>1, TimeIs
    <3> QED BY <1>1, <3>1, FedFields
  <2> HIDE DEF all, r
  <2>4. ASSUME Len(all) >= TS_UNITS, r.buf = Drop(all, TS_UNITS),
               r.ts \in {Wrong, all[1][1], rx.ts}
        PROVE  Holding(r, f, n)
    <3>1. TS_UNITS \in Nat \ {0}
      BY Leads
    <3>2. /\ Drop(all, TS_UNITS) \in Seq(UnitsOf(f, n))
          /\ Len(Drop(all, TS_UNITS)) = Len(all) - TS_UNITS
      BY <2>1, <2>4, <3>1, DropSeq
    <3>3. all[1][1] = f
      <4>1. 1 \in 1..Len(all)
        BY <2>2, <2>4, <3>1
      <4>2. all[1] \in UnitsOf(f, n)
        BY <2>1, <4>1, ElementOfSeq
      <4> QED BY <4>2, UnitTypes
    <3>4. r.ts \in -1..f
      <4>1. Wrong \in -1..f /\ f \in -1..f
        BY DEF Wrong
      <4> QED BY <1>1, <2>4, <3>3, <4>1
    <3>5. Len(r.buf) <= BUF
      BY <1>1, <2>2, <2>4, <3>1, <3>2
    <3> QED BY <2>3, <2>4, <3>2, <3>4, <3>5 DEF Holding
  <2>5. ASSUME r.buf = all, r.ts = rx.ts PROVE Holding(r, f, n)
    BY <1>1, <2>1, <2>2, <2>3, <2>5 DEF Holding
  <2>6. Holding(r, f, n)
    BY <2>3, <2>4, <2>5
  <2> QED BY <1>3, <2>3, <2>6, AddIs DEF r
<1> QED BY <1>2, <1>3

\* A buffer the units fit holds them after.
LEMMA FedHolds ==
  ASSUME NEW f \in Nat, NEW n \in Nat, NEW rx, Holding(rx, f, n),
         NEW units \in Seq(UnitsOf(f, n)), ~too_long(rx, units)
  PROVE  Holding(Fed(rx, units), f, n) /\ Fed(rx, units).given = rx.given
BY AddHolds

\* Units n of a frame that fits a buffer, in order, are never too many, and
\* leave what a receiver of the whole frame has.
LEMMA FedCarries ==
  ASSUME NEW f \in Nat, NEW fr \in Frames, fr.size <= BUF, NEW k \in Nat,
         NEW rx, Holding(rx, f, fr.size), Carried(rx, f, fr, k),
         NEW units \in Seq(UnitsOf(f, fr.size)), Len(units) <= CHUNK,
         k + Len(units) <= Lead(fr.stamped) + fr.size,
         \A i \in 1..Len(units) : units[i] = Unit(f, fr.size, fr.stamped, k + i)
  PROVE  /\ ~too_long(rx, units)
         /\ Carried(Fed(rx, units), f, fr, k + Len(units))
<1> DEFINE n == fr.size
           L == Lead(fr.stamped)
           m == Len(units)
           all == rx.buf \o units
           r == Fed(rx, units)
<1>1. /\ n \in Nat /\ L \in 0..TS_UNITS /\ TS_UNITS \in Nat \ {0} /\ m \in Nat
      /\ fr.stamped => L = TS_UNITS
      /\ ~fr.stamped => L = 0
      /\ CHUNK \in Nat /\ BUF \in Nat /\ BUF >= CHUNK + TS_UNITS - 1
      /\ fr.stamped \in BOOLEAN /\ fr.good \in BOOLEAN
  BY FrameFields, Leads, RxAssumption DEF RxAssumption, Lead
<1>2. /\ rx \in Records /\ rx.buf \in Seq(UnitsOf(f, n)) /\ units \in Seq(Parts)
      /\ Len(rx.buf) \in Nat
  <2>1. rx \in Records /\ rx.buf \in Seq(UnitsOf(f, n))
    BY DEF Holding
  <2>2. units \in Seq(Parts)
    BY <1>1, UnitTypes
  <2> QED BY <2>1, <2>2
<1>3. /\ all \in Seq(UnitsOf(f, n)) /\ Len(all) = Len(rx.buf) + m
      /\ \A i \in 1..Len(rx.buf) : all[i] = rx.buf[i]
      /\ \A i \in 1..m : all[Len(rx.buf) + i] = Unit(f, n, fr.stamped, k + i)
  <2>1. rx.buf \in Seq(UnitsOf(f, n)) /\ units \in Seq(UnitsOf(f, n))
    BY <1>2
  <2>2. /\ all \in Seq(UnitsOf(f, n)) /\ Len(all) = Len(rx.buf) + Len(units)
        /\ \A i \in 1..Len(rx.buf) : all[i] = rx.buf[i]
        /\ \A i \in 1..Len(units) : all[Len(rx.buf) + i] = units[i]
    BY <2>1, Join
  <2> HIDE DEF all
  <2>3. \A i \in 1..Len(units) : units[i] = Unit(f, n, fr.stamped, k + i)
    OBVIOUS
  <2> QED BY <2>2, <2>3, Zenon
<1>4. /\ r \in Records /\ r.good = rx.good
      /\ rx.expect /\ Len(all) >= TS_UNITS =>
           /\ ~r.expect /\ r.buf = Drop(all, TS_UNITS)
           /\ r.ts = IF rx.good THEN time_in(Take(all, TS_UNITS)) ELSE rx.ts
      /\ ~(rx.expect /\ Len(all) >= TS_UNITS) =>
           r.expect = rx.expect /\ r.buf = all /\ r.ts = rx.ts
  BY <1>2, FedFields
<1>5. too_long(rx, units) <=> Len(rx.buf) + m > BUF
  BY DEF too_long
<1> HIDE DEF n, L, m, all, r
<1>6. CASE /\ rx.expect /\ fr.stamped /\ k < TS_UNITS /\ Len(rx.buf) = k
           /\ \A i \in 1..k : rx.buf[i] = Unit(f, n, fr.stamped, i)
           /\ rx.good = fr.good /\ rx.ts = None
  <2>1. L = TS_UNITS /\ Len(all) = k + m
    BY <1>1, <1>3, <1>6
  <2>2. ~(k + m > BUF)
    BY <1>1, <1>6 DEF m
  <2>3. CASE k + m < TS_UNITS
    <3>1. ~(Len(all) >= TS_UNITS)
      BY <1>1, <2>1, <2>3
    <3>2. r.expect = rx.expect /\ r.buf = all /\ r.ts = rx.ts
      BY <1>4, <3>1
    <3>3. \A i \in 1..k + m : all[i] = Unit(f, n, fr.stamped, i)
      <4> TAKE i \in 1..k + m
      <4>1. i \in 1..k \/ (i - k \in 1..m /\ k + (i - k) = i)
        BY <1>1
      <4>2. CASE i \in 1..k
        BY <1>3, <1>6, <4>2
      <4>3. CASE i - k \in 1..m /\ k + (i - k) = i
        BY <1>3, <1>6, <4>3
      <4> QED BY <4>1, <4>2, <4>3
    <3>4. Carried(r, f, fr, k + m)
      <4> DEFINE j == k + m
      <4>1. /\ r.expect /\ fr.stamped /\ j < TS_UNITS /\ Len(r.buf) = j
            /\ \A i \in 1..j : r.buf[i] = Unit(f, n, fr.stamped, i)
            /\ r.good = fr.good /\ r.ts = None
        BY <1>4, <1>6, <2>1, <2>3, <3>2, <3>3
      <4> HIDE DEF j
      <4>2. Carried(r, f, fr, j)
        BY <4>1, Zenon DEF Carried, n
      <4> QED BY <4>2 DEF j
    <3> QED BY <1>5, <1>6, <2>2, <3>4 DEF r, m
  <2>4. CASE k + m >= TS_UNITS
    <3>1. /\ ~r.expect /\ r.buf = Drop(all, TS_UNITS)
          /\ r.ts = IF fr.good THEN time_in(Take(all, TS_UNITS)) ELSE None
      BY <1>4, <1>6, <2>1, <2>4
    <3>2. time_in(Take(all, TS_UNITS)) = f
      <4>1. all \in Seq(Parts) /\ Len(all) >= TS_UNITS
        BY <1>1, <1>3, <2>1, <2>4, UnitTypes
      <4>2. \A i \in 1..TS_UNITS : all[i] = <<f, -i, n>>
        <5> TAKE i \in 1..TS_UNITS
        <5>1. i \in 1..k \/ (i - k \in 1..m /\ k + (i - k) = i)
          BY <1>1, <1>6, <2>1, <2>4
        <5>2. all[i] = Unit(f, n, fr.stamped, i)
          <6>1. CASE i \in 1..k
            BY <1>3, <1>6, <6>1
          <6>2. CASE i - k \in 1..m /\ k + (i - k) = i
            BY <1>3, <1>6, <6>2
          <6> QED BY <5>1, <6>1, <6>2
        <5>3. i <= L
          BY <1>1, <2>1
        <5> QED BY <5>2, <5>3 DEF Unit, L
      <4>3. \A g, q : (\A i \in 1..TS_UNITS : all[i] = <<g, -i, q>>) =>
                      time_in(Take(all, TS_UNITS)) = g
        BY <4>1, TimeIs
      <4> QED BY <4>2, <4>3, Zenon
    <3>3. /\ Drop(all, TS_UNITS) \in Seq(UnitsOf(f, n))
          /\ Len(Drop(all, TS_UNITS)) = (k + m) - TS_UNITS
          /\ \A i \in 1..(k + m) - TS_UNITS : Drop(all, TS_UNITS)[i] = all[TS_UNITS + i]
      <4> DEFINE d == Drop(all, TS_UNITS)
      <4>1. TS_UNITS <= Len(all) /\ TS_UNITS \in Nat
        BY <1>1, <2>1, <2>4
      <4>2. /\ d \in Seq(UnitsOf(f, n))
            /\ Len(d) = IF TS_UNITS <= Len(all) THEN Len(all) - TS_UNITS ELSE 0
            /\ \A i \in 1..Len(all) - TS_UNITS : d[i] = all[TS_UNITS + i]
        BY <1>3, <4>1, DropSeq
      <4> HIDE DEF d
      <4>3. /\ d \in Seq(UnitsOf(f, n)) /\ Len(d) = (k + m) - TS_UNITS
            /\ \A i \in 1..(k + m) - TS_UNITS : d[i] = all[TS_UNITS + i]
        BY <2>1, <4>1, <4>2
      <4> QED BY <4>3 DEF d
    <3>4. \A i \in 1..(k + m) - TS_UNITS : all[TS_UNITS + i] = <<f, i, n>>
      <4> TAKE i \in 1..(k + m) - TS_UNITS
      <4>1. TS_UNITS - k + i \in 1..m /\ k + (TS_UNITS - k + i) = TS_UNITS + i
        BY <1>1, <1>6
      <4>2. all[TS_UNITS + i] = Unit(f, n, fr.stamped, TS_UNITS + i)
        BY <1>3, <1>6, <4>1
      <4>3. ~(TS_UNITS + i <= L) /\ (TS_UNITS + i) - L = i
        BY <1>1, <2>1
      <4> QED BY <4>2, <4>3 DEF Unit, L
    <3>5. (k + m) - TS_UNITS \in Nat
      BY <1>1, <2>4
    <3>6. Drop(all, TS_UNITS) = Body(f, n, (k + m) - TS_UNITS)
      <4> DEFINE j == (k + m) - TS_UNITS
                 d == Drop(all, TS_UNITS)
      <4>1. j \in Nat /\ d \in Seq(UnitsOf(f, n)) /\ Len(d) = j /\ n \in Nat
            /\ \A i \in 1..j : d[i] = <<f, i, n>>
        BY <1>1, <3>3, <3>4, <3>5
      <4> HIDE DEF j, d
      <4>2. d = Body(f, n, j)
        BY <4>1, BodyOnly, Zenon
      <4> QED BY <4>2 DEF j, d
    <3>7. Carried(r, f, fr, k + m)
      <4>1. k + m >= L /\ r.buf = Body(f, n, (k + m) - L)
        BY <2>1, <2>4, <3>1, <3>6
      <4>2. r.ts = IF fr.stamped /\ fr.good THEN f ELSE None
        BY <1>6, <3>1, <3>2
      <4> DEFINE j == k + m
      <4>3. j >= L /\ r.buf = Body(f, n, j - L) /\ ~r.expect
        BY <3>1, <4>1
      <4> HIDE DEF j
      <4>4. Carried(r, f, fr, j)
        BY <4>2, <4>3, Zenon DEF Carried, L, n
      <4> QED BY <4>4 DEF j
    <3> QED BY <1>5, <1>6, <2>2, <3>7 DEF r, m
  <2> QED BY <1>1, <2>3, <2>4
<1>7. CASE /\ ~rx.expect /\ k >= L /\ rx.buf = Body(f, n, k - L)
           /\ rx.ts = IF fr.stamped /\ fr.good THEN f ELSE None
  <2>1. k - L \in Nat
    BY <1>1, <1>7
  <2>2. Len(rx.buf) = k - L /\ \A i \in 1..k - L : rx.buf[i] = <<f, i, n>>
    <3> DEFINE j == k - L
    <3>1. j \in Nat /\ n \in Nat /\ rx.buf = Body(f, n, j)
      BY <1>1, <1>7, <2>1
    <3> HIDE DEF j
    <3>2. f \in Nat /\ n \in Nat /\ j \in Nat
      BY <3>1
    <3>3. Len(Body(f, n, j)) = j /\ \A i \in 1..j : Body(f, n, j)[i] = <<f, i, n>>
      BY <3>2, BodyIs, Zenon
    <3> QED BY <3>1, <3>3 DEF j
  <2>3. r.expect = rx.expect /\ r.buf = all /\ r.ts = rx.ts
    <3>1. ~(rx.expect /\ Len(all) >= TS_UNITS)
      BY <1>7, Zenon
    <3> QED BY <1>4, <3>1, Zenon
  <2>4. Len(all) = (k + m) - L /\ (k + m) - L \in Nat
    <3>1. Len(all) = (k - L) + m
      BY <1>3, <2>2
    <3>2. k \in Nat /\ L \in Nat /\ m \in Nat /\ k - L \in Nat
      BY <1>1, <2>1
    <3> QED BY <3>1, <3>2
  <2>5. \A i \in 1..(k + m) - L : all[i] = <<f, i, n>>
    <3> TAKE i \in 1..(k + m) - L
    <3>1. CASE i <= k - L
      <4>1. i \in 1..k - L
        BY <1>1, <2>1, <3>1
      <4> QED BY <1>3, <2>2, <4>1
    <3>2. CASE i > k - L
      <4>1. i - (k - L) \in 1..m /\ (k - L) + (i - (k - L)) = i
            /\ k + (i - (k - L)) = L + i
        BY <1>1, <1>7, <3>2
      <4>2. all[i] = Unit(f, n, fr.stamped, L + i)
        BY <1>3, <2>2, <4>1
      <4>3. ~(L + i <= L) /\ (L + i) - L = i
        BY <1>1
      <4> QED BY <4>2, <4>3 DEF Unit, L
    <3> QED BY <2>1, <3>1, <3>2
  <2>6. all = Body(f, n, (k + m) - L)
    <3> DEFINE j == (k + m) - L
    <3>1. j \in Nat /\ all \in Seq(UnitsOf(f, n)) /\ Len(all) = j /\ n \in Nat
          /\ \A i \in 1..j : all[i] = <<f, i, n>>
      BY <1>1, <1>3, <2>4, <2>5
    <3> HIDE DEF j
    <3>2. all = Body(f, n, j)
      BY <3>1, BodyOnly, Zenon
    <3> QED BY <3>2 DEF j
  <2>7. ~(Len(rx.buf) + m > BUF)
    BY <1>1, <1>7, <2>2 DEF m, n, L
  <2>8. k + m >= L
    BY <1>1, <1>7
  <2>9. Carried(r, f, fr, k + m)
    <3> DEFINE j == k + m
    <3>1. j >= L /\ r.buf = Body(f, n, j - L) /\ ~r.expect
          /\ r.ts = IF fr.stamped /\ fr.good THEN f ELSE None
      BY <1>7, <2>3, <2>6, <2>8
    <3> HIDE DEF j
    <3>2. Carried(r, f, fr, j)
      BY <3>1, Zenon DEF Carried, L, n
    <3> QED BY <3>2 DEF j
  <2> QED BY <1>5, <2>7, <2>9 DEF r, m
<1> QED BY <1>6, <1>7 DEF Carried, n, L

\* r has an empty buffer, and has given nothing since rx or frame f, if it is
\* neither too short nor too long.
Emptied(r, rx, f, n) ==
  /\ r \in Records /\ r.buf = <<>> /\ r.ts \in -1..f
  /\ \/ r.given = rx.given
     \/ /\ n \in MIN_LEN..BUF
        /\ \E t \in Int : r.given = Append(rx.given, [frame |-> f, ts |-> t])

\* So it is at the end of a frame that is held.
LEMMA EndHolds ==
  ASSUME NEW f \in Nat, NEW n \in Nat, NEW rx, Holding(rx, f, n),
         NEW units \in Seq(UnitsOf(f, n))
  PROVE  Emptied(add_rx_buffer(rx, units, FALSE, TRUE), rx, f, n)
<1>1. CASE too_long(rx, units)
  <2> DEFINE d == Dropped(rx)
  <2>1. rx \in Records /\ rx.ts \in -1..f
    BY DEF Holding
  <2>2. d \in Records /\ d.buf = <<>> /\ d.ts = rx.ts /\ d.given = rx.given
    BY <2>1, DroppedFields
  <2>3. add_rx_buffer(rx, units, FALSE, TRUE) = d
    BY <1>1, AddIs
  <2> HIDE DEF d
  <2> QED BY <2>1, <2>2, <2>3 DEF Emptied
<1>2. CASE ~too_long(rx, units)
  <2> DEFINE q == Fed(rx, units)
             r == finish(q)
  <2>1. Holding(q, f, n) /\ q.given = rx.given
    BY <1>2, AddHolds
  <2>2. add_rx_buffer(rx, units, FALSE, TRUE) = r
    BY <1>2, AddIs
  <2> HIDE DEF q
  <2>3. q \in Records /\ Len(q.buf) <= BUF /\ q.ts \in Int
    BY <2>1 DEF Holding
  <2>4. /\ r \in Records /\ r.buf = <<>> /\ r.ts \in -1..f
        /\ \/ /\ Len(q.buf) >= MIN_LEN /\ fcs_check(q.buf)
              /\ q.buf[1][1] = f /\ q.buf[1][3] = n
              /\ r.given = Append(q.given, [frame |-> f, ts |-> q.ts])
           \/ r.given = q.given
    BY <2>1, <2>3, FinishFields
  <2> HIDE DEF r
  <2>5. ASSUME fcs_check(q.buf), Len(q.buf) >= MIN_LEN, q.buf[1][1] = f, q.buf[1][3] = n
        PROVE  n \in MIN_LEN..BUF
    <3>1. q.buf = Body(f, n, n)
      BY <2>5 DEF fcs_check, Body
    <3>2. Len(Body(f, n, n)) = n
      BY BodyIs
    <3> QED BY <2>3, <2>5, <3>1, <3>2, RxAssumption DEF RxAssumption
  <2> QED BY <2>1, <2>2, <2>3, <2>4, <2>5 DEF Emptied
<1> QED BY <1>1, <1>2

\* A frame carried to its end is given, if it may be, with its own timestamp.
LEMMA EndCarries ==
  ASSUME NEW f \in Nat, NEW fr \in Frames, fr.size \in MIN_LEN..BUF, NEW k \in Nat,
         NEW rx, Holding(rx, f, fr.size), Carried(rx, f, fr, k),
         NEW units \in Seq(UnitsOf(f, fr.size)), Len(units) <= CHUNK,
         k + Len(units) = Lead(fr.stamped) + fr.size,
         \A i \in 1..Len(units) : units[i] = Unit(f, fr.size, fr.stamped, k + i)
  PROVE  add_rx_buffer(rx, units, FALSE, TRUE).given =
           Append(rx.given, [frame |-> f, ts |-> IF fr.stamped /\ fr.good THEN f ELSE None])
<1> DEFINE n == fr.size
           q == Fed(rx, units)
           t == IF fr.stamped /\ fr.good THEN f ELSE None
<1>1. n \in Nat \ {0} /\ n >= MIN_LEN /\ n <= BUF /\ Lead(fr.stamped) \in Nat
      /\ (fr.stamped => Lead(fr.stamped) = TS_UNITS)
  BY FrameFields, Leads, RxAssumption DEF RxAssumption, Lead
<1>2. ~too_long(rx, units) /\ Carried(q, f, fr, k + Len(units))
  <2>1. Len(units) \in Nat /\ k + Len(units) <= Lead(fr.stamped) + fr.size
    BY <1>1
  <2> QED BY <1>1, <2>1, FedCarries
<1>3. Holding(q, f, n) /\ q.given = rx.given
  <2>1. /\ n \in Nat /\ Holding(rx, f, n) /\ units \in Seq(UnitsOf(f, n))
        /\ ~too_long(rx, units)
    BY <1>1, <1>2
  <2> HIDE DEF n
  <2> QED BY <2>1, FedHolds DEF q
<1>4. add_rx_buffer(rx, units, FALSE, TRUE) = finish(q)
  BY <1>2, AddIs
<1> HIDE DEF q
<1>5. q.buf = Body(f, n, n) /\ q.ts = t
  <2>1. (k + Len(units)) - Lead(fr.stamped) = n /\ ~(fr.stamped /\ k + Len(units) < TS_UNITS)
    BY <1>1
  <2> QED BY <1>2, <2>1, Zenon DEF Carried
<1>6. Len(q.buf) = n /\ q.buf[1] = <<f, 1, n>>
  <2>1. n \in Nat /\ 1 \in 1..n
    BY <1>1
  <2>2. Len(Body(f, n, n)) = n /\ \A i \in 1..n : Body(f, n, n)[i] = <<f, i, n>>
    BY <2>1, BodyIs, Zenon
  <2> QED BY <1>5, <2>1, <2>2
<1>7. fcs_check(q.buf)
  <2>1. q.buf[1][1] = f /\ q.buf[1][3] = n
    BY <1>6
  <2>2. q.buf # <<>>
    BY <1>1, <1>6
  <2> QED BY <1>5, <2>1, <2>2, Zenon DEF fcs_check, Body
<1>8. finish(q).given = Append(q.given, [frame |-> f, ts |-> q.ts])
  <2>1. q \in Records
    BY <1>3 DEF Holding
  <2>2. Len(q.buf) >= MIN_LEN
    BY <1>1, <1>6
  <2>3. n \in Nat
    BY <1>1
  <2> QED BY <1>3, <1>7, <2>1, <2>2, <2>3, FinishFields
<1> QED BY <1>3, <1>4, <1>5, <1>8

-----------------------------------------------------------------------------
(* A chunk a frame ends in or starts in *)

\* What a frame f is given with: its own timestamp, if it is good.
Stamp(f, fr) == IF fr.stamped /\ fr.good THEN f ELSE None

\* r is what is left of rx when frame f has ended: an empty buffer, and the frame
\* given if it may be, which it is for certain if it was kept to the end.
Ends(r, rx, f, fr, fd, kept) ==
  /\ Emptied(r, rx, f, fr.size)
  /\ fd => r.given = rx.given
  /\ ~fd /\ fr.size \in MIN_LEN..BUF /\ kept =>
       r.given = Append(rx.given, [frame |-> f, ts |-> Stamp(f, fr)])

LEMMA DroppedEnds ==
  ASSUME NEW f \in Nat, NEW fr, NEW rx \in Records, rx.ts \in -1..f, NEW kept
  PROVE  Ends(Dropped(rx), rx, f, fr, TRUE, kept)
<1> DEFINE d == Dropped(rx)
<1>1. d \in Records /\ d.buf = <<>> /\ d.ts = rx.ts /\ d.given = rx.given
  BY DroppedFields
<1> HIDE DEF d
<1>2. Ends(d, rx, f, fr, TRUE, kept)
  BY <1>1, Zenon DEF Ends, Emptied
<1> QED BY <1>2 DEF d

\* The last units of frame f, which add_rx_buffer is told is at its end.
LEMMA EndUnits ==
  ASSUME NEW f \in Nat, NEW fr \in Frames, NEW k \in Nat, NEW rx, Holding(rx, f, fr.size),
         NEW units \in Seq(UnitsOf(f, fr.size)), Len(units) <= CHUNK,
         k + Len(units) = Lead(fr.stamped) + fr.size,
         \A i \in 1..Len(units) : units[i] = Unit(f, fr.size, fr.stamped, k + i)
  PROVE  Ends(add_rx_buffer(rx, units, FALSE, TRUE), rx, f, fr, FALSE, Carried(rx, f, fr, k))
<1> DEFINE r == add_rx_buffer(rx, units, FALSE, TRUE)
<1>1. fr.size \in Nat
  BY FrameFields
<1>2. Emptied(r, rx, f, fr.size)
  BY <1>1, EndHolds
<1>3. ASSUME fr.size \in MIN_LEN..BUF, Carried(rx, f, fr, k)
      PROVE  r.given = Append(rx.given, [frame |-> f, ts |-> Stamp(f, fr)])
  BY <1>3, EndCarries DEF Stamp
<1> HIDE DEF r
<1>4. Ends(r, rx, f, fr, FALSE, Carried(rx, f, fr, k))
  BY <1>2, <1>3, Zenon DEF Ends, Emptied
<1> QED BY <1>4 DEF r

LEMMA EndFrame ==
  ASSUME NEW f \in Nat, NEW fr \in Frames, NEW k \in Nat, NEW rx, Holding(rx, f, fr.size),
         NEW units \in Seq(UnitsOf(f, fr.size)), Len(units) <= CHUNK,
         k + Len(units) = Lead(fr.stamped) + fr.size,
         \A i \in 1..Len(units) : units[i] = Unit(f, fr.size, fr.stamped, k + i),
         NEW c, c.fd \in BOOLEAN, Take(c.data, c.ebo) = units
  PROVE  Ends(end_frame(rx, c), rx, f, fr, c.fd, Carried(rx, f, fr, k))
<1>1. CASE c.fd
  <2>1. end_frame(rx, c) = Dropped(rx)
    BY <1>1 DEF end_frame
  <2>2. rx \in Records /\ rx.ts \in -1..f
    BY DEF Holding
  <2>3. Ends(Dropped(rx), rx, f, fr, TRUE, Carried(rx, f, fr, k))
    BY <2>2, DroppedEnds
  <2>4. c.fd = TRUE
    BY <1>1
  <2> QED BY <2>1, <2>3, <2>4, Zenon
<1>2. CASE ~c.fd
  <2>1. end_frame(rx, c) = add_rx_buffer(rx, units, FALSE, TRUE)
    BY <1>2 DEF end_frame
  <2>2. c.fd = FALSE
    BY <1>2
  <2>3. Ends(add_rx_buffer(rx, units, FALSE, TRUE), rx, f, fr, FALSE, Carried(rx, f, fr, k))
    BY EndUnits
  <2> QED BY <2>1, <2>2, <2>3, Zenon
<1> QED BY <1>1, <1>2

\* What a start resets is what a receiver of none of the frame's units has.
LEMMA Begins ==
  ASSUME NEW f \in Nat, NEW fr \in Frames, NEW rx \in Records,
         NEW c, c.rtsa = fr.stamped, c.rtsp = fr.good
  PROVE  LET r == Dropped(ts_reset(rx, c))
         IN  Holding(r, f, fr.size) /\ Carried(r, f, fr, 0) /\ r.given = rx.given
<1> DEFINE r == Dropped(ts_reset(rx, c))
           n == fr.size
<1>1. /\ fr.stamped \in BOOLEAN /\ fr.good \in BOOLEAN /\ n \in Nat
      /\ TS_UNITS \in Nat \ {0} /\ BUF \in Nat
  BY FrameFields, Leads, RxAssumption DEF RxAssumption
<1>2. /\ r \in Records /\ r.buf = <<>> /\ r.expect = fr.stamped /\ r.good = fr.good
      /\ r.ts = None /\ r.given = rx.given
  BY <1>1, ResetFields
<1> HIDE DEF r, n
<1>3. Holding(r, f, n)
  <2>1. <<>> \in Seq(UnitsOf(f, n)) /\ Len(<<>>) <= BUF /\ None \in -1..f
    BY <1>1 DEF None
  <2> QED BY <1>2, <2>1 DEF Holding
<1>4. CASE fr.stamped
  <2>1. 0 < TS_UNITS /\ Len(r.buf) = 0
    BY <1>1, <1>2
  <2>2. \A i \in 1..0 : r.buf[i] = Unit(f, fr.size, fr.stamped, i)
    OBVIOUS
  <2>3. Carried(r, f, fr, 0)
    BY <1>2, <1>4, <2>1, <2>2, Zenon DEF Carried
  <2> QED BY <1>2, <1>3, <2>3 DEF r, n
<1>5. CASE ~fr.stamped
  <2>1. Lead(fr.stamped) = 0 /\ ~r.expect /\ r.ts = Stamp(f, fr)
    BY <1>2, <1>5 DEF Lead, Stamp
  <2>2. r.buf = Body(f, n, 0)
    <3>1. \A i \in 1..0 : r.buf[i] = <<f, i, n>>
      OBVIOUS
    <3>2. 0 \in Nat /\ n \in Nat /\ f \in Nat /\ r.buf \in Seq(UnitsOf(f, n)) /\ Len(r.buf) = 0
      BY <1>1, <1>2
    <3> QED BY <3>1, <3>2, BodyOnly, Zenon
  <2>3. 0 >= Lead(fr.stamped) /\ r.buf = Body(f, n, 0 - Lead(fr.stamped))
    BY <2>1, <2>2
  <2>4. Carried(r, f, fr, 0)
    BY <2>1, <2>3, Zenon DEF Carried, Stamp, n
  <2> QED BY <1>2, <1>3, <2>4 DEF r, n
<1> QED BY <1>1, <1>4, <1>5

LEMMA StartFrame ==
  ASSUME NEW f \in Nat, NEW fr \in Frames, NEW rx \in Records,
         NEW c, c.rtsa = fr.stamped, c.rtsp = fr.good,
         NEW units \in Seq(UnitsOf(f, fr.size)), Len(units) <= CHUNK,
         Len(units) <= Lead(fr.stamped) + fr.size,
         \A i \in 1..Len(units) : units[i] = Unit(f, fr.size, fr.stamped, i),
         Drop(c.data, c.swo) = units
  PROVE  LET r == start_frame(rx, c)
         IN  /\ Holding(r, f, fr.size) /\ r.given = rx.given
             /\ fr.size <= BUF => Carried(r, f, fr, Len(units))
<1> DEFINE b == Dropped(ts_reset(rx, c))
           r == add_rx_buffer(b, units, FALSE, FALSE)
<1>1. Holding(b, f, fr.size) /\ Carried(b, f, fr, 0) /\ b.given = rx.given
  BY Begins
<1>2. start_frame(rx, c) = r
  BY AddIs DEF start_frame
<1> HIDE DEF b
<1>3. fr.size \in Nat
  BY FrameFields
<1>4. Holding(r, f, fr.size) /\ r.given = b.given
  BY <1>1, <1>3, AddHolds
<1>5. ASSUME fr.size <= BUF PROVE Carried(r, f, fr, Len(units))
  <2>1. /\ 0 \in Nat /\ Len(units) \in Nat /\ 0 + Len(units) <= Lead(fr.stamped) + fr.size
        /\ \A i \in 1..Len(units) : units[i] = Unit(f, fr.size, fr.stamped, 0 + i)
    OBVIOUS
  <2>2. ~too_long(b, units) /\ Carried(Fed(b, units), f, fr, 0 + Len(units))
    BY <1>1, <1>5, <2>1, FedCarries
  <2>3. r = Fed(b, units)
    BY <2>2, AddIs, Zenon
  <2>4. 0 + Len(units) = Len(units)
    BY <2>1
  <2> QED BY <2>2, <2>3, <2>4
<1> QED BY <1>1, <1>2, <1>4, <1>5

LEMMA WholeFrame ==
  ASSUME NEW f \in Nat, NEW fr \in Frames, NEW rx \in Records, rx.ts \in -1..f,
         NEW c, c.rtsa = fr.stamped, c.rtsp = fr.good, c.fd \in BOOLEAN,
         NEW units \in Seq(UnitsOf(f, fr.size)), Len(units) <= CHUNK,
         Len(units) = Lead(fr.stamped) + fr.size,
         \A i \in 1..Len(units) : units[i] = Unit(f, fr.size, fr.stamped, i),
         Drop(Take(c.data, c.ebo), c.swo) = units
  PROVE  Ends(whole_frame(rx, c), rx, f, fr, c.fd, TRUE)
<1>1. CASE c.fd
  <2>1. whole_frame(rx, c) = Dropped(rx) /\ c.fd = TRUE
    BY <1>1 DEF whole_frame
  <2>2. Ends(Dropped(rx), rx, f, fr, TRUE, TRUE)
    BY DroppedEnds
  <2> QED BY <2>1, <2>2, Zenon
<1>2. CASE ~c.fd
  <2> DEFINE b == Dropped(ts_reset(rx, c))
             r == add_rx_buffer(b, units, FALSE, TRUE)
  <2>1. Holding(b, f, fr.size) /\ Carried(b, f, fr, 0) /\ b.given = rx.given
    BY Begins
  <2>2. whole_frame(rx, c) = r /\ c.fd = FALSE
    BY <1>2, AddIs DEF whole_frame
  <2> HIDE DEF b
  <2>3. /\ 0 \in Nat /\ 0 + Len(units) = Lead(fr.stamped) + fr.size
        /\ \A i \in 1..Len(units) : units[i] = Unit(f, fr.size, fr.stamped, 0 + i)
    OBVIOUS
  <2>4. Ends(r, b, f, fr, FALSE, Carried(b, f, fr, 0))
    BY <2>1, <2>3, EndUnits
  <2> HIDE DEF r
  <2>5. Ends(r, rx, f, fr, FALSE, TRUE)
    BY <2>1, <2>4, Zenon DEF Ends, Emptied
  <2> QED BY <2>2, <2>5, Zenon
<1> QED BY <1>1, <1>2

-----------------------------------------------------------------------------
(* Timestamps *)

GivenTypes == [frame : Nat, ts : Int]

\* The MACPHY's times that are given are none after its frame's, and increase; and
\* the one kept, if any, is that of a later frame than all that are given.
Stamped(rx) ==
  /\ \A g \in 1..Len(rx.given) : rx.given[g].ts <= rx.given[g].frame
  /\ rx.ts > None => \A g \in 1..Len(rx.given) : rx.given[g].frame < rx.ts
  /\ \A g, h \in 1..Len(rx.given) :
       g < h /\ rx.given[g].ts > None /\ rx.given[h].ts > None =>
         rx.given[g].ts < rx.given[h].ts

\* All that is given is of frames before f.
Before(rx, f) == \A g \in 1..Len(rx.given) : rx.given[g].frame < f

LEMMA KeepStamped ==
  ASSUME NEW rx, NEW r, NEW f, Stamped(rx), Before(rx, f),
         r.given = rx.given, r.ts \in {None, Wrong, rx.ts, f}
  PROVE  Stamped(r)
<1>1. CASE r.ts = None
  <2>1. ~(r.ts > None)
    BY <1>1 DEF None
  <2> QED BY <2>1, Zenon DEF Stamped
<1>2. CASE r.ts = rx.ts
  BY <1>2, Zenon DEF Stamped
<1>3. CASE r.ts = f
  BY <1>3, Zenon DEF Stamped, Before
<1>4. CASE r.ts = Wrong
  <2>1. ~(r.ts > None)
    BY <1>4 DEF Wrong, None
  <2> QED BY <2>1, Zenon DEF Stamped
<1> QED BY <1>1, <1>2, <1>3, <1>4

LEMMA GiveStamped ==
  ASSUME NEW q, NEW r, NEW f \in Nat, Stamped(q), Before(q, f),
         q.given \in Seq(GivenTypes), q.ts \in -1..f,
         r.given = Append(q.given, [frame |-> f, ts |-> q.ts]), r.ts = None
  PROVE  Stamped(r)
<1> DEFINE s == q.given
           t == q.ts
           x == [frame |-> f, ts |-> t]
           a == r.given
<1>1. x \in GivenTypes /\ x.frame = f /\ x.ts = t /\ t \in Int /\ t <= f
  BY DEF GivenTypes
<1>2. s \in Seq(GivenTypes) /\ a = Append(s, x)
  OBVIOUS
<1>3. /\ \A g \in 1..Len(s) : s[g].ts <= s[g].frame /\ s[g].frame < f
      /\ t > None => \A g \in 1..Len(s) : s[g].frame < t
      /\ \A g, h \in 1..Len(s) :
           g < h /\ s[g].ts > None /\ s[h].ts > None => s[g].ts < s[h].ts
  BY Zenon DEF Stamped, Before
<1> HIDE DEF s, t, x, a
<1>4. /\ Len(a) = Len(s) + 1 /\ \A g \in 1..Len(s) : a[g] = s[g]
      /\ a[Len(s) + 1] = x /\ Len(s) \in Nat
  BY <1>1, <1>2, AppendProperties
<1>5. \A g \in 1..Len(s) : s[g].ts \in Int /\ s[g].frame \in Nat
  <2> TAKE g \in 1..Len(s)
  <2>1. s[g] \in GivenTypes
    BY <1>2, ElementOfSeq
  <2> QED BY <2>1 DEF GivenTypes
<1>6. ASSUME NEW g \in 1..Len(a) PROVE g \in 1..Len(s) \/ g = Len(s) + 1
  BY <1>4
<1>7. ASSUME NEW g \in 1..Len(a) PROVE a[g].ts <= a[g].frame
  <2>1. CASE g \in 1..Len(s)
    BY <1>3, <1>4, <2>1
  <2>2. CASE g = Len(s) + 1
    BY <1>1, <1>4, <2>2
  <2> QED BY <1>6, <2>1, <2>2
<1>8. ASSUME NEW g \in 1..Len(a), NEW h \in 1..Len(a), g < h, a[g].ts > None, a[h].ts > None
      PROVE  a[g].ts < a[h].ts
  <2>1. g \in 1..Len(s)
    BY <1>4, <1>8
  <2>2. a[g] = s[g]
    BY <1>4, <2>1
  <2>3. CASE h \in 1..Len(s)
    <3>1. a[h] = s[h]
      BY <1>4, <2>3
    <3> QED BY <1>3, <1>8, <2>1, <2>2, <2>3, <3>1, Zenon
  <2>4. CASE h = Len(s) + 1
    <3>1. a[h].ts = t /\ t > None
      BY <1>1, <1>4, <1>8, <2>4
    <3>2. s[g].ts <= s[g].frame /\ s[g].frame < t
      BY <1>3, <2>1, <3>1
    <3>3. s[g].ts \in Int /\ s[g].frame \in Nat
      BY <1>5, <2>1
    <3>4. s[g].ts < t
      BY <1>1, <3>2, <3>3
    <3> QED BY <2>2, <3>1, <3>4
  <2> QED BY <1>6, <2>3, <2>4
<1>9. ~(r.ts > None)
  BY DEF None
<1> QED BY <1>7, <1>8, <1>9, Zenon DEF Stamped, a

\* What a frame fed in units has of a timestamp is its own, a wrong one, or as it was.
LEMMA FedStamp ==
  ASSUME NEW f \in Nat, NEW n \in Nat, NEW rx, Holding(rx, f, n),
         NEW units \in Seq(UnitsOf(f, n))
  PROVE  Fed(rx, units).ts \in {None, Wrong, rx.ts, f}
<1> DEFINE all == rx.buf \o units
           r == Fed(rx, units)
<1>1. rx \in Records /\ rx.buf \in Seq(UnitsOf(f, n)) /\ units \in Seq(Parts)
  BY UnitTypes DEF Holding
<1>2. all \in Seq(UnitsOf(f, n)) /\ all \in Seq(Parts)
  <2>1. all \in Seq(UnitsOf(f, n))
    BY <1>1, Join
  <2> HIDE DEF all
  <2> QED BY <2>1, UnitTypes
<1>3. r.ts = rx.ts \/ (Len(all) >= TS_UNITS /\ r.ts = time_in(Take(all, TS_UNITS)))
  BY <1>1, FedFields
<1> HIDE DEF all, r
<1>4. ASSUME Len(all) >= TS_UNITS PROVE time_in(Take(all, TS_UNITS)) \in {Wrong, f}
  <2>1. 1 \in 1..Len(all)
    <3>1. TS_UNITS \in Nat \ {0} /\ Len(all) \in Nat
      BY <1>2, Leads
    <3> QED BY <1>4, <3>1
  <2>2. all[1] \in UnitsOf(f, n)
    BY <1>2, <2>1, ElementOfSeq
  <2>3. all[1][1] = f
    BY <2>2, UnitTypes
  <2> QED BY <1>2, <1>4, <2>3, TimeIs
<1>5. r.ts \in {None, Wrong, rx.ts, f}
  BY <1>3, <1>4
<1> QED BY <1>5 DEF r

LEMMA AddStamped ==
  ASSUME NEW f \in Nat, NEW n \in Nat, NEW rx, Holding(rx, f, n),
         NEW units \in Seq(UnitsOf(f, n)), Stamped(rx), Before(rx, f)
  PROVE  /\ Stamped(add_rx_buffer(rx, units, FALSE, FALSE))
         /\ Stamped(add_rx_buffer(rx, units, FALSE, TRUE))
<1> DEFINE d == Dropped(rx)
           q == Fed(rx, units)
           r == finish(q)
<1>1. CASE too_long(rx, units)
  <2>1. rx \in Records
    BY DEF Holding
  <2>2. d.given = rx.given /\ d.ts = rx.ts
    BY <2>1, DroppedFields
  <2>3. /\ add_rx_buffer(rx, units, FALSE, FALSE) = d
        /\ add_rx_buffer(rx, units, FALSE, TRUE) = d
    BY <1>1, AddIs
  <2> HIDE DEF d
  <2>4. Stamped(d)
    BY <2>2, KeepStamped
  <2> QED BY <2>3, <2>4
<1>2. CASE ~too_long(rx, units)
  <2>1. Holding(q, f, n) /\ q.given = rx.given
    BY <1>2, FedHolds
  <2>2. q.ts \in {None, Wrong, rx.ts, f}
    BY FedStamp
  <2>3. /\ add_rx_buffer(rx, units, FALSE, FALSE) = q
        /\ add_rx_buffer(rx, units, FALSE, TRUE) = r
    BY <1>2, AddIs
  <2> HIDE DEF q
  <2>4. Stamped(q) /\ Before(q, f)
    <3>1. Stamped(q)
      BY <2>1, <2>2, KeepStamped
    <3> QED BY <2>1, <3>1, Zenon DEF Before
  <2>5. q \in Records /\ q.given \in Seq(GivenTypes) /\ q.ts \in -1..f
    BY <2>1 DEF Holding, Records, GivenTypes
  <2>6. \/ r.given = Append(q.given, [frame |-> f, ts |-> q.ts]) /\ r.ts = None
        \/ r.given = q.given /\ r.ts = q.ts
    BY <2>1, <2>5, FinishFields
  <2> HIDE DEF r
  <2>7. Stamped(r)
    <3>1. CASE r.given = Append(q.given, [frame |-> f, ts |-> q.ts]) /\ r.ts = None
      BY <2>4, <2>5, <3>1, GiveStamped
    <3>2. CASE r.given = q.given /\ r.ts = q.ts
      BY <2>4, <3>2, KeepStamped
    <3> QED BY <2>6, <3>1, <3>2
  <2> QED BY <2>3, <2>4, <2>7
<1> QED BY <1>1, <1>2

\* What a chunk that ends a frame, starts one or is all of one leaves of them.
LEMMA EndStamped ==
  ASSUME NEW f \in Nat, NEW n \in Nat, NEW rx, Holding(rx, f, n), Stamped(rx), Before(rx, f),
         NEW units \in Seq(UnitsOf(f, n)), NEW c, Take(c.data, c.ebo) = units
  PROVE  Stamped(end_frame(rx, c))
<1>1. CASE c.fd
  <2> DEFINE d == Dropped(rx)
  <2>1. rx \in Records
    BY DEF Holding
  <2>2. d.given = rx.given /\ d.ts = rx.ts
    BY <2>1, DroppedFields
  <2>3. end_frame(rx, c) = d
    BY <1>1 DEF end_frame
  <2> HIDE DEF d
  <2>4. Stamped(d)
    BY <2>2, KeepStamped
  <2> QED BY <2>3, <2>4
<1>2. CASE ~c.fd
  <2>1. end_frame(rx, c) = add_rx_buffer(rx, units, FALSE, TRUE)
    BY <1>2 DEF end_frame
  <2>2. Stamped(add_rx_buffer(rx, units, FALSE, TRUE))
    BY AddStamped
  <2> QED BY <2>1, <2>2
<1> QED BY <1>1, <1>2

LEMMA StartStamped ==
  ASSUME NEW f \in Nat, NEW fr \in Frames, NEW rx \in Records, Stamped(rx), Before(rx, f),
         NEW c, c.rtsa = fr.stamped, c.rtsp = fr.good,
         NEW units \in Seq(UnitsOf(f, fr.size))
  PROVE  /\ Drop(c.data, c.swo) = units => Stamped(start_frame(rx, c))
         /\ Drop(Take(c.data, c.ebo), c.swo) = units => Stamped(whole_frame(rx, c))
<1> DEFINE b == Dropped(ts_reset(rx, c))
           d == Dropped(rx)
<1>1. Holding(b, f, fr.size) /\ b.given = rx.given
  BY Begins
<1>2. b.ts = None
  <2>1. c.rtsa \in BOOLEAN /\ c.rtsp \in BOOLEAN
    BY FrameFields
  <2> QED BY <2>1, ResetFields
<1>3. d.given = rx.given /\ d.ts = rx.ts
  BY DroppedFields
<1>4. fr.size \in Nat
  BY FrameFields
<1>5. /\ start_frame(rx, c) = add_rx_buffer(b, Drop(c.data, c.swo), FALSE, FALSE)
      /\ ~c.fd => whole_frame(rx, c) =
                    add_rx_buffer(b, Drop(Take(c.data, c.ebo), c.swo), FALSE, TRUE)
      /\ c.fd => whole_frame(rx, c) = d
  BY AddIs DEF start_frame, whole_frame
<1> HIDE DEF b, d
<1>6. Stamped(b) /\ Before(b, f)
  <2>1. Stamped(b)
    BY <1>1, <1>2, KeepStamped
  <2> QED BY <1>1, <2>1, Zenon DEF Before
<1>7. /\ Stamped(add_rx_buffer(b, units, FALSE, FALSE))
      /\ Stamped(add_rx_buffer(b, units, FALSE, TRUE))
  BY <1>1, <1>4, <1>6, AddStamped
<1>8. Stamped(d)
  BY <1>3, KeepStamped
<1> QED BY <1>5, <1>7, <1>8

\* With frame f all that is given is of frames before the next.
LEMMA EndsBefore ==
  ASSUME NEW f \in Nat, NEW fr, NEW fd, NEW kept, NEW rx \in Records, NEW r,
         Ends(r, rx, f, fr, fd, kept), Before(rx, f), NEW k \in Nat, k > f
  PROVE  Before(r, k)
<1> DEFINE s == rx.given
<1>1. s \in Seq(GivenTypes) /\ \A g \in 1..Len(s) : s[g].frame < f
  BY DEF Records, GivenTypes, Before
<1>2. \A g \in 1..Len(s) : s[g].frame \in Nat
  <2> TAKE g \in 1..Len(s)
  <2>1. s[g] \in GivenTypes
    BY <1>1, ElementOfSeq
  <2> QED BY <2>1 DEF GivenTypes
<1>3. r.given = s \/ \E t \in Int : r.given = Append(s, [frame |-> f, ts |-> t])
  BY Zenon DEF Ends, Emptied
<1> HIDE DEF s
<1>4. CASE r.given = s
  BY <1>1, <1>2, <1>4 DEF Before
<1>5. ASSUME NEW t \in Int, r.given = Append(s, [frame |-> f, ts |-> t])
      PROVE  Before(r, k)
  <2> DEFINE x == [frame |-> f, ts |-> t]
             a == r.given
  <2>1. x \in GivenTypes /\ x.frame = f /\ a = Append(s, x)
    BY <1>5 DEF GivenTypes
  <2> HIDE DEF x, a
  <2>2. /\ Len(a) = Len(s) + 1 /\ \A g \in 1..Len(s) : a[g] = s[g]
        /\ a[Len(s) + 1] = x /\ Len(s) \in Nat
    BY <1>1, <2>1, AppendProperties
  <2>3. ASSUME NEW g \in 1..Len(a) PROVE a[g].frame < k
    <3>1. CASE g \in 1..Len(s)
      <4>1. a[g] = s[g] /\ s[g].frame < f /\ s[g].frame \in Nat
        BY <1>1, <1>2, <2>2, <3>1
      <4> QED BY <4>1
    <3>2. CASE g = Len(s) + 1
      BY <2>1, <2>2, <3>2
    <3> QED BY <2>2, <3>1, <3>2
  <2> QED BY <2>3 DEF Before, a
<1> QED BY <1>3, <1>4, <1>5

-----------------------------------------------------------------------------
(* What is in a chunk *)

LEMMA PadIs ==
  ASSUME NEW n \in Nat
  PROVE  Pad(n) \in Seq(Parts) /\ Len(Pad(n)) = n
<1>1. <<0, 0, 0>> \in Parts
  BY DEF Parts
<1>2. Pad(n) \in [1..n -> Parts]
  BY <1>1 DEF Pad
<1> QED BY <1>2

LEMMA ChunkKinds ==
  ASSUME NEW rx, NEW c, c.swo \in Nat, c.ebo \in Nat
  PROVE  /\ c.dv = FALSE /\ c.sv = FALSE /\ c.ev = FALSE => receive(rx, c) = rx
         /\ c.dv = TRUE /\ c.sv = FALSE /\ c.ev = FALSE =>
              receive(rx, c) = add_rx_buffer(rx, c.data, FALSE, FALSE)
         /\ c.dv = TRUE /\ c.sv = FALSE /\ c.ev = TRUE => receive(rx, c) = end_frame(rx, c)
         /\ c.dv = TRUE /\ c.sv = TRUE /\ c.ev = FALSE => receive(rx, c) = start_frame(rx, c)
         /\ c.dv = TRUE /\ c.sv = TRUE /\ c.ev = TRUE /\ c.swo < c.ebo =>
              receive(rx, c) = whole_frame(rx, c)
         /\ c.dv = TRUE /\ c.sv = TRUE /\ c.ev = TRUE /\ c.swo >= c.ebo =>
              receive(rx, c) = end_and_start(rx, c)
<1>1. ASSUME c.dv = FALSE, c.sv = FALSE, c.ev = FALSE PROVE receive(rx, c) = rx
  BY <1>1 DEF receive
<1>2. ASSUME c.dv = TRUE, c.sv = FALSE, c.ev = FALSE
      PROVE  receive(rx, c) = add_rx_buffer(rx, c.data, FALSE, FALSE)
  BY <1>2 DEF receive
<1>3. ASSUME c.dv = TRUE, c.sv = FALSE, c.ev = TRUE PROVE receive(rx, c) = end_frame(rx, c)
  BY <1>3 DEF receive
<1>4. ASSUME c.dv = TRUE, c.sv = TRUE, c.ev = FALSE PROVE receive(rx, c) = start_frame(rx, c)
  BY <1>4 DEF receive
<1>5. ASSUME c.dv = TRUE, c.sv = TRUE, c.ev = TRUE, c.swo < c.ebo
      PROVE  receive(rx, c) = whole_frame(rx, c)
  <2>1. ~(c.swo >= c.ebo)
    BY <1>5
  <2> QED BY <1>5, <2>1, Zenon DEF receive
<1>6. ASSUME c.dv = TRUE, c.sv = TRUE, c.ev = TRUE, c.swo >= c.ebo
      PROVE  receive(rx, c) = end_and_start(rx, c)
  <2>1. ~(c.swo < c.ebo)
    BY <1>6
  <2> QED BY <1>6, <2>1, Zenon DEF receive
<1> QED BY <1>1, <1>2, <1>3, <1>4, <1>5, <1>6, Zenon

\* The last units of a frame, then padding.
LEMMA EndLayout ==
  ASSUME NEW l \in Seq(Parts), NEW n \in Nat
  PROVE  Take(l \o Pad(n), Len(l)) = l
<1> DEFINE d == l \o Pad(n)
<1>1. Pad(n) \in Seq(Parts) /\ Len(Pad(n)) = n /\ Len(l) \in Nat
  BY PadIs
<1>2. d \in Seq(Parts) /\ Len(d) = Len(l) + n /\ \A i \in 1..Len(l) : d[i] = l[i]
  BY <1>1, Join
<1> HIDE DEF d
<1> DEFINE t == Take(d, Len(l))
<1>3. Len(l) \in 0..Len(d)
  BY <1>1, <1>2
<1>4. t \in Seq(Parts) /\ Len(t) = Len(l) /\ \A i \in 1..Len(l) : t[i] = d[i]
  BY <1>2, <1>3, TakeSeq
<1> HIDE DEF t
<1>5. t = l
  BY <1>2, <1>4, SeqEqual
<1> QED BY <1>5 DEF t, d

\* The last units of a frame, those of the next from swo on, and padding.
StartData(l, swo, units) == Take(l \o Pad(swo - Len(l)) \o units \o Pad(CHUNK), CHUNK)

LEMMA StartLayout ==
  ASSUME NEW l \in Seq(Parts), NEW swo \in Len(l)..CHUNK - 1, NEW units \in Seq(Parts)
  PROVE  /\ Take(StartData(l, swo, units), Len(l)) = l
         /\ Len(units) > CHUNK - swo =>
              Drop(StartData(l, swo, units), swo) = Take(units, CHUNK - swo)
         /\ Len(units) <= CHUNK - swo =>
              Drop(Take(StartData(l, swo, units), swo + Len(units)), swo) = units
<1> DEFINE m == Len(units)
           a == l \o Pad(swo - Len(l))
<1>1. CHUNK \in Nat /\ swo \in Nat /\ m \in Nat /\ Len(l) \in Nat /\ Len(l) <= swo /\ swo < CHUNK
      /\ swo - Len(l) \in Nat
  BY RxAssumption DEF RxAssumption
<1>2. Pad(swo - Len(l)) \in Seq(Parts) /\ Len(Pad(swo - Len(l))) = swo - Len(l)
      /\ Pad(CHUNK) \in Seq(Parts) /\ Len(Pad(CHUNK)) = CHUNK
  BY <1>1, PadIs
<1>3. a \in Seq(Parts) /\ Len(a) = swo /\ \A i \in 1..Len(l) : a[i] = l[i]
  <2> DEFINE p == Pad(swo - Len(l))
  <2>1. a \in Seq(Parts) /\ Len(a) = Len(l) + Len(p) /\ \A i \in 1..Len(l) : a[i] = l[i]
    BY <1>2, Join
  <2>2. Len(l) + Len(p) = swo
    BY <1>1, <1>2
  <2> QED BY <2>1, <2>2
<1> HIDE DEF a
<1> DEFINE b == a \o units
<1>4. /\ b \in Seq(Parts) /\ Len(b) = swo + m /\ \A i \in 1..swo : b[i] = a[i]
      /\ \A i \in 1..m : b[swo + i] = units[i]
  <2>1. /\ b \in Seq(Parts) /\ Len(b) = Len(a) + Len(units)
        /\ \A i \in 1..Len(a) : b[i] = a[i]
        /\ \A i \in 1..Len(units) : b[Len(a) + i] = units[i]
    <3>1. a \in Seq(Parts)
      BY <1>3
    <3> QED BY <3>1, Join
  <2> QED BY <1>3, <2>1
<1> HIDE DEF b
<1> DEFINE e == b \o Pad(CHUNK)
<1>5. e \in Seq(Parts) /\ Len(e) = swo + m + CHUNK /\ \A i \in 1..swo + m : e[i] = b[i]
  <2>1. e \in Seq(Parts) /\ Len(e) = Len(b) + Len(Pad(CHUNK)) /\ \A i \in 1..Len(b) : e[i] = b[i]
    <3>1. b \in Seq(Parts) /\ Pad(CHUNK) \in Seq(Parts)
      BY <1>2, <1>4
    <3> QED BY <3>1, Join
  <2> QED BY <1>2, <1>4, <2>1
<1> HIDE DEF e, m
<1> DEFINE d == Take(e, CHUNK)
<1>6. d \in Seq(Parts) /\ Len(d) = CHUNK /\ \A i \in 1..CHUNK : d[i] = e[i]
  <2>1. CHUNK \in 0..Len(e)
    BY <1>1, <1>5
  <2> QED BY <1>5, <2>1, TakeSeq
<1> HIDE DEF d
<1>7. \A i \in 1..Len(l) : d[i] = l[i]
  <2> TAKE i \in 1..Len(l)
  <2>1. i \in 1..swo /\ i \in 1..swo + m /\ i \in 1..CHUNK
    BY <1>1
  <2> QED BY <1>3, <1>4, <1>5, <1>6, <2>1
<1>8. \A i \in 1..m : i <= CHUNK - swo => d[swo + i] = units[i]
  <2> TAKE i \in 1..m
  <2> HAVE i <= CHUNK - swo
  <2>1. swo + i \in 1..swo + m /\ swo + i \in 1..CHUNK
    BY <1>1
  <2> QED BY <1>4, <1>5, <1>6, <2>1
<1>9. Take(d, Len(l)) = l
  <2> DEFINE t == Take(d, Len(l))
  <2>1. Len(l) \in 0..Len(d)
    BY <1>1, <1>6
  <2>2. t \in Seq(Parts) /\ Len(t) = Len(l) /\ \A i \in 1..Len(l) : t[i] = d[i]
    BY <1>6, <2>1, TakeSeq
  <2> HIDE DEF t
  <2>3. t = l
    BY <1>7, <2>2, SeqEqual
  <2> QED BY <2>3 DEF t
<1>10. ASSUME m > CHUNK - swo PROVE Drop(d, swo) = Take(units, CHUNK - swo)
  <2> DEFINE n == CHUNK - swo
             t == Drop(d, swo)
             u == Take(units, n)
  <2>1. n \in 0..m /\ n \in Nat
    BY <1>1, <1>10
  <2>2. t \in Seq(Parts) /\ Len(t) = n /\ \A i \in 1..n : t[i] = d[swo + i]
    <3>1. /\ t \in Seq(Parts) /\ Len(t) = IF swo <= Len(d) THEN Len(d) - swo ELSE 0
          /\ \A i \in 1..Len(d) - swo : t[i] = d[swo + i]
      <4>1. d \in Seq(Parts) /\ swo \in Nat
        BY <1>1, <1>6
      <4> QED BY <4>1, DropSeq
    <3> HIDE DEF t
    <3> QED BY <1>1, <1>6, <3>1
  <2>3. u \in Seq(Parts) /\ Len(u) = n /\ \A i \in 1..n : u[i] = units[i]
    <3>1. n \in 0..Len(units)
      BY <2>1 DEF m
    <3>2. units \in Seq(Parts)
      OBVIOUS
    <3> HIDE DEF t
    <3> QED BY <3>1, <3>2, TakeSeq, Zenon
  <2>4. \A i \in 1..n : d[swo + i] = units[i]
    <3> TAKE i \in 1..n
    <3>1. i \in 1..m /\ i <= CHUNK - swo
      BY <1>1, <2>1
    <3> QED BY <1>8, <3>1
  <2> HIDE DEF n, t, u
  <2>5. t = u
    BY <2>2, <2>3, <2>4, SeqEqual
  <2> QED BY <2>5 DEF t, u, n
<1>11. ASSUME m <= CHUNK - swo PROVE Drop(Take(d, swo + m), swo) = units
  <2> DEFINE n == swo + m
             t == Take(d, n)
             u == Drop(t, swo)
  <2>1. n \in 0..CHUNK /\ n - swo = m /\ n >= swo
    BY <1>1, <1>11
  <2>2. t \in Seq(Parts) /\ Len(t) = n /\ \A i \in 1..n : t[i] = d[i]
    BY <1>6, <2>1, TakeSeq
  <2> HIDE DEF t, n
  <2>3. u \in Seq(Parts) /\ Len(u) = m /\ \A i \in 1..m : u[i] = t[swo + i]
    BY <1>1, <2>1, <2>2, DropSeq
  <2> HIDE DEF u
  <2>4. \A i \in 1..m : u[i] = units[i]
    <3> TAKE i \in 1..m
    <3>1. swo + i \in 1..n /\ i <= CHUNK - swo
      BY <1>1, <1>11, <2>1
    <3> QED BY <1>8, <2>2, <2>3, <3>1
  <2>5. u = units
    BY <2>3, <2>4, SeqEqual DEF m
  <2> QED BY <2>5 DEF t, u, n
<1> QED BY <1>9, <1>10, <1>11 DEF StartData, m, a, b, d, e

-----------------------------------------------------------------------------
(* The inductive invariant *)

\* The units of a frame put in chunks before those of l, its last ones.
Done(fr, l) == (Lead(fr.stamped) + fr.size) - Len(l)

Types ==
  /\ sent \in Seq(Frames) /\ Len(sent) <= FRAMES /\ left \in Seq(Parts)
  /\ lossy \in BOOLEAN /\ errors \in 0..ERRORS /\ lost \subseteq 1..Len(sent)

\* l is not more than a frame f, and its last units.
LastUnits(l, f, fr) ==
  /\ Len(l) <= Lead(fr.stamped) + fr.size
  /\ \A i \in 1..Len(l) : l[i] = Unit(f, fr.size, fr.stamped, Done(fr, l) + i)

\* What is left to send is the end of the last frame.
LeftInv == left # <<>> => sent # <<>> /\ LastUnits(left, Len(sent), sent[Len(sent)])

\* The buffer has units of the frame under way and of no other; between frames,
\* and while a transfer that failed loses the starts of frames, it is empty.
BufInv ==
  /\ Rx \in Records /\ ts \in -1..Len(sent)
  /\ left = <<>> \/ lossy => buf = <<>>
  /\ left # <<>> => Holding(Rx, Len(sent), sent[Len(sent)].size)

\* Of a frame under way that fits and has lost no chunk, all is there.
CarriedInv ==
  left # <<>> /\ Len(sent) \notin lost /\ sent[Len(sent)].size <= BUF =>
    Carried(Rx, Len(sent), sent[Len(sent)], Done(sent[Len(sent)], left))

\* No more frames are given than have been sent.
Counted == \A g \in 1..Len(given) : g <= given[g].frame

\* Only a frame that lost a chunk can have been given with a timestamp of another.
KeptStamp == \A g \in 1..Len(given) :
               given[g].frame \notin lost => given[g].ts \in {None, given[g].frame}

\* What is kept and what is given go forward.
StampInv == Stamped(Rx)

RxInv ==
  /\ Types /\ LeftInv /\ BufInv /\ CarriedInv
  /\ Counted /\ GivenInOrder /\ WholeFrameGiven /\ KeptStamp /\ StampInv

\* What any step of the MACPHY does whose chunk is of the frames fs: they are the
\* one under way after it and any that ends in it; those ended before stay.
Moves(fs) ==
  /\ sent' \in Seq(Frames) /\ Len(sent') <= FRAMES /\ left' \in Seq(Parts)
  /\ Len(sent) <= Len(sent') /\ LeftInv'
  /\ fs \subseteq 1..Len(sent')
  /\ Ended \subseteq Ended' /\ \A f \in Ended : sent'[f] = sent[f]
  /\ Ended' \ Ended \subseteq fs
  /\ left' # <<>> => Len(sent') \in fs

LEMMA RxFields ==
  /\ Rx.buf = buf /\ Rx.expect = ts_expect /\ Rx.good = ts_good /\ Rx.ts = ts
  /\ Rx.given = given
  /\ Rx \in Records => /\ buf \in Seq(Parts) /\ ts_expect \in BOOLEAN /\ ts_good \in BOOLEAN
                       /\ ts \in Int /\ given \in Seq(GivenTypes)
BY DEF Rx, Records, GivenTypes

LEMMA Becomes ==
  ASSUME NEW rx \in Records, Become(rx)
  PROVE  Rx' = rx /\ buf' = rx.buf /\ ts' = rx.ts /\ given' = rx.given
<1>1. /\ buf' = rx.buf /\ ts_expect' = rx.expect /\ ts_good' = rx.good
      /\ ts' = rx.ts /\ given' = rx.given
  BY DEF Become
<1>2. rx = [buf |-> rx.buf, expect |-> rx.expect, good |-> rx.good,
            ts |-> rx.ts, given |-> rx.given]
  BY DEF Records
<1> QED BY <1>1, <1>2, Zenon DEF Rx

LEMMA EndedIs ==
  ASSUME sent \in Seq(Frames)
  PROVE  /\ left = <<>> => Ended = 1..Len(sent)
         /\ left # <<>> => Ended = 1..Len(sent) - 1
         /\ \E e \in Int : e <= Len(sent) /\ Ended = 1..e
<1>1. Len(sent) \in Nat
  OBVIOUS
<1>2. CASE left = <<>>
  BY <1>1, <1>2 DEF Ended
<1>3. CASE left # <<>>
  BY <1>1, <1>3 DEF Ended
<1> QED BY <1>2, <1>3

LEMMA UnitsIs ==
  ASSUME sent \in Seq(Frames), NEW fr \in Frames
  PROVE  /\ Units(fr.size, fr.stamped) \in Seq(UnitsOf(Len(sent) + 1, fr.size))
         /\ Len(Units(fr.size, fr.stamped)) = Lead(fr.stamped) + fr.size
         /\ \A i \in 1..Lead(fr.stamped) + fr.size :
              Units(fr.size, fr.stamped)[i] = Unit(Len(sent) + 1, fr.size, fr.stamped, i)
<1> DEFINE f == Len(sent) + 1
           n == fr.size
           U == UnitsOf(f, n)
           s == IF fr.stamped THEN [i \in 1..TS_UNITS |-> <<f, -i, n>>] ELSE <<>>
           b == [i \in 1..n |-> <<f, i, n>>]
           L == Lead(fr.stamped)
           u == s \o b
<1>1. f \in Nat /\ n \in Nat /\ L \in Nat /\ TS_UNITS \in Nat /\ fr.stamped \in BOOLEAN
  BY FrameFields, Leads
<1>2. Units(n, fr.stamped) = u
  BY DEF Units
<1> HIDE DEF f, n
<1>3. b \in Seq(U) /\ Len(b) = n /\ \A i \in 1..n : b[i] = <<f, i, n>>
  BY <1>1, BodyIs DEF Body
<1>4. s \in Seq(U) /\ Len(s) = L /\ \A i \in 1..L : s[i] = <<f, -i, n>>
  <2>1. CASE fr.stamped
    <3>1. \A i \in 1..TS_UNITS : <<f, -i, n>> \in U
      BY <1>1 DEF UnitsOf
    <3>2. s = [i \in 1..TS_UNITS |-> <<f, -i, n>>] /\ L = TS_UNITS
      BY <2>1 DEF Lead
    <3> HIDE DEF s, U, L
    <3>3. s \in Seq(U) /\ Len(s) = TS_UNITS /\ \A i \in 1..TS_UNITS : s[i] = <<f, -i, n>>
      BY <1>1, <3>1, <3>2
    <3> QED BY <3>2, <3>3
  <2>2. CASE ~fr.stamped
    <3>1. s = <<>> /\ L = 0
      BY <2>2 DEF Lead
    <3> HIDE DEF s, U, L
    <3> QED BY <3>1
  <2> QED BY <2>1, <2>2
<1> HIDE DEF s, b, U
<1>5. /\ u \in Seq(U) /\ Len(u) = Len(s) + Len(b)
      /\ \A i \in 1..Len(s) : u[i] = s[i]
      /\ \A i \in 1..Len(b) : u[Len(s) + i] = b[i]
  <2>1. s \in Seq(U) /\ b \in Seq(U)
    BY <1>3, <1>4
  <2> QED BY <2>1, Join
<1> HIDE DEF u, L
<1>6. \A i \in 1..L + n : u[i] = Unit(f, n, fr.stamped, i)
  <2> TAKE i \in 1..L + n
  <2>1. CASE i <= L
    <3>1. i \in 1..L
      BY <1>1, <2>1
    <3> QED BY <1>4, <1>5, <2>1, <3>1 DEF Unit, L
  <2>2. CASE ~(i <= L)
    <3>1. i - L \in 1..n /\ L + (i - L) = i
      BY <1>1, <2>2
    <3>2. u[i] = <<f, i - L, n>>
      BY <1>3, <1>4, <1>5, <3>1
    <3> QED BY <2>2, <3>2 DEF Unit, L
  <2> QED BY <2>1, <2>2
<1>7. Len(u) = L + n
  BY <1>3, <1>4, <1>5
<1> QED BY <1>2, <1>5, <1>6, <1>7 DEF f, n, U, L

LEMMA FateIs ==
  ASSUME sent \in Seq(Frames), sent # <<>>, NEW fd \in BOOLEAN
  PROVE  LET c == Len(sent)
         IN  /\ c \in 1..Len(sent) /\ c \in Nat /\ sent[c] \in Frames
             /\ Fate(fd) \in Seq(Frames) /\ Len(Fate(fd)) = c
             /\ \A f \in 1..c - 1 : Fate(fd)[f] = sent[f]
             /\ Fate(fd)[c] = [sent[c] EXCEPT !.dropped = fd]
             /\ Fate(fd)[c].size = sent[c].size /\ Fate(fd)[c].stamped = sent[c].stamped
             /\ Fate(fd)[c].good = sent[c].good /\ Fate(fd)[c].dropped = fd
<1> DEFINE c == Len(sent)
           e == [sent[c] EXCEPT !.dropped = fd]
<1>1. c \in 1..Len(sent) /\ c \in Nat
  BY EmptySeq, LenProperties
<1>2. sent[c] \in Frames
  BY <1>1, ElementOfSeq
<1>3. e \in Frames /\ e.size = sent[c].size /\ e.stamped = sent[c].stamped
      /\ e.good = sent[c].good /\ e.dropped = fd
  BY <1>2 DEF Frames
<1>4. Fate(fd) = [sent EXCEPT ![c] = e]
  BY DEF Fate
<1> HIDE DEF e
<1>5. /\ Fate(fd) \in Seq(Frames) /\ Len(Fate(fd)) = c
      /\ \A f \in 1..c - 1 : Fate(fd)[f] = sent[f]
      /\ Fate(fd)[c] = e
  BY <1>1, <1>3, <1>4, ExceptSeq
<1> QED BY <1>1, <1>2, <1>3, <1>5 DEF e

-----------------------------------------------------------------------------
(* A chunk that is lost, and one that is processed *)

\* A chunk lost gives nothing, loses its frames and leaves no unit of them.
LEMMA LossStep ==
  ASSUME RxInv, NEW fs, Moves(fs), Rx' \in Records, buf' = <<>>, ts' = ts, given' = given,
         lossy' \in BOOLEAN, errors' \in 0..ERRORS, lost' = lost \cup fs
  PROVE  RxInv'
<1>1. /\ sent' \in Seq(Frames) /\ Len(sent') <= FRAMES /\ left' \in Seq(Parts)
      /\ Len(sent) <= Len(sent') /\ LeftInv'
      /\ fs \subseteq 1..Len(sent')
      /\ Ended \subseteq Ended' /\ \A f \in Ended : sent'[f] = sent[f]
      /\ Ended' \ Ended \subseteq fs
      /\ left' # <<>> => Len(sent') \in fs
  BY DEF Moves
<1>2. sent \in Seq(Frames) /\ Len(sent) \in Nat /\ Len(sent') \in Nat
  BY <1>1 DEF RxInv, Types
<1>3. Types'
  <2>1. lost \cup fs \subseteq 1..Len(sent')
    BY <1>1, <1>2 DEF RxInv, Types
  <2> QED BY <1>1, <2>1 DEF Types
<1>4. BufInv'
  <2>1. ts' \in -1..Len(sent')
    BY <1>1, <1>2 DEF RxInv, BufInv
  <2>2. ASSUME left' # <<>> PROVE Holding(Rx, Len(sent), sent[Len(sent)].size)'
    <3>1. Rx'.buf = <<>> /\ Rx'.ts = ts'
      BY DEF Rx
    <3>2. <<>> \in Seq(UnitsOf(Len(sent'), sent'[Len(sent')].size)) /\ Len(<<>>) <= BUF
      BY RxAssumption DEF RxAssumption
    <3> QED BY <2>1, <3>1, <3>2, Zenon DEF Holding
  <2> QED BY <2>1, <2>2 DEF BufInv
<1>5. CarriedInv'
  BY <1>1 DEF CarriedInv
<1>6. Counted'
  BY DEF RxInv, Counted
<1>7. ASSUME NEW f \in Ended PROVE Acceptable(f)' = Acceptable(f) /\ sent'[f] = sent[f]
  BY <1>1 DEF Acceptable
<1>8. GivenInOrder'
  BY <1>1, <1>7 DEF RxInv, GivenInOrder
<1>9. WholeFrameGiven'
  <2> SUFFICES ASSUME NEW f \in Ended' \ lost', Acceptable(f)'
               PROVE  \E g \in 1..Len(given') : given'[g] =
                        [frame |-> f, ts |-> IF sent'[f].stamped /\ sent'[f].good THEN f ELSE None]
    BY Zenon DEF WholeFrameGiven
  <2>1. f \in Ended \ lost
    BY <1>1
  <2>2. Acceptable(f) /\ sent'[f] = sent[f]
    BY <1>7, <2>1
  <2>3. PICK g \in 1..Len(given) : given[g] =
               [frame |-> f, ts |-> IF sent[f].stamped /\ sent[f].good THEN f ELSE None]
    BY <2>1, <2>2, Zenon DEF RxInv, WholeFrameGiven
  <2>4. g \in 1..Len(given') /\ given'[g] =
          [frame |-> f, ts |-> IF sent'[f].stamped /\ sent'[f].good THEN f ELSE None]
    BY <2>2, <2>3
  <2> QED BY <2>4
<1>10. KeptStamp'
  BY Zenon DEF RxInv, KeptStamp
<1>11. StampInv'
  <2>1. Rx.ts = ts /\ Rx.given = given /\ Rx'.ts = ts /\ Rx'.given = given
    BY Zenon DEF Rx
  <2> QED BY <2>1, Zenon DEF RxInv, StampInv, Stamped
<1> QED BY <1>1, <1>3, <1>4, <1>5, <1>6, <1>8, <1>9, <1>10, <1>11, Zenon DEF RxInv

\* One frame more, of those after the ended ones.
LEMMA GivenMore ==
  ASSUME NEW s \in Seq(GivenTypes), NEW e \in Int,
         \A g \in 1..Len(s) : s[g].frame \in 1..e /\ g <= s[g].frame,
         \A g \in 1..Len(s) - 1 : s[g].frame < s[g + 1].frame,
         NEW f \in Nat \ {0}, f > e, NEW t \in Int
  PROVE  LET r == Append(s, [frame |-> f, ts |-> t])
         IN  /\ \A g \in 1..Len(r) : g <= r[g].frame
             /\ \A g \in 1..Len(r) - 1 : r[g].frame < r[g + 1].frame
             /\ Len(r) = Len(s) + 1 /\ \A g \in 1..Len(s) : r[g] = s[g]
             /\ r[Len(s) + 1] = [frame |-> f, ts |-> t] /\ Len(s) \in Nat
<1> DEFINE x == [frame |-> f, ts |-> t]
           r == Append(s, x)
<1>1. x \in GivenTypes /\ x.frame = f
  BY DEF GivenTypes
<1> HIDE DEF x
<1>2. /\ Len(r) = Len(s) + 1 /\ \A g \in 1..Len(s) : r[g] = s[g]
      /\ r[Len(s) + 1] = x /\ Len(s) \in Nat
  BY <1>1, AppendProperties
<1> HIDE DEF r
<1>3. Len(s) < f
  <2>1. CASE Len(s) = 0
    BY <1>2, <2>1
  <2>2. CASE Len(s) # 0
    <3>1. Len(s) \in 1..Len(s)
      BY <1>2, <2>2
    <3>2. s[Len(s)].frame \in 1..e /\ Len(s) <= s[Len(s)].frame
      BY <3>1
    <3> QED BY <1>2, <3>2
  <2> QED BY <2>1, <2>2
<1>4. ASSUME NEW g \in 1..Len(r) PROVE g <= r[g].frame
  <2>1. CASE g \in 1..Len(s)
    BY <1>2, <2>1
  <2>2. CASE g = Len(s) + 1
    BY <1>1, <1>2, <1>3, <2>2
  <2> QED BY <1>2, <2>1, <2>2
<1>5. ASSUME NEW g \in 1..Len(r) - 1 PROVE r[g].frame < r[g + 1].frame
  <2>1. CASE g \in 1..Len(s) - 1
    <3>1. g \in 1..Len(s) /\ g + 1 \in 1..Len(s)
      BY <1>2, <2>1
    <3> QED BY <1>2, <2>1, <3>1
  <2>2. CASE g = Len(s)
    <3>1. g \in 1..Len(s) /\ r[g + 1] = x
      BY <1>2, <2>2
    <3>2. r[g] = s[g] /\ s[g].frame \in 1..e
      BY <1>2, <3>1
    <3> QED BY <1>1, <3>1, <3>2
  <2> QED BY <1>2, <2>1, <2>2
<1> QED BY <1>2, <1>4, <1>5 DEF r, x

\* A chunk processed gives nothing, or an acceptable frame that ends in it; and
\* gives it for certain, with its own timestamp, if no chunk of it is lost.
LEMMA GiveStep ==
  ASSUME RxInv, NEW fs, Moves(fs), BufInv', CarriedInv', StampInv',
         lossy' = FALSE, errors' = errors, lost' = lost,
         \/ given' = given
         \/ \E f \in Ended' \ Ended : \E t \in Int :
              Acceptable(f)' /\ given' = Append(given, [frame |-> f, ts |-> t]),
         \A f \in Ended' \ Ended : f \notin lost /\ Acceptable(f)' =>
              given' = Append(given, [frame |-> f, ts |-> Stamp(f, sent'[f])])
  PROVE  RxInv'
<1>1. /\ sent' \in Seq(Frames) /\ Len(sent') <= FRAMES /\ left' \in Seq(Parts)
      /\ Len(sent) <= Len(sent') /\ LeftInv'
      /\ Ended \subseteq Ended' /\ \A f \in Ended : sent'[f] = sent[f]
  BY DEF Moves
<1>2. /\ sent \in Seq(Frames) /\ Len(sent) \in Nat /\ Len(sent') \in Nat
      /\ given \in Seq(GivenTypes) /\ lost \subseteq 1..Len(sent)
  <2>1. given \in Seq(GivenTypes)
    BY RxFields DEF RxInv, BufInv
  <2> QED BY <1>1, <2>1 DEF RxInv, Types
<1>3. Types'
  <2>1. lost \subseteq 1..Len(sent')
    BY <1>1, <1>2
  <2> QED BY <1>1, <2>1 DEF Types, RxInv
<1>4. PICK e \in Int : e <= Len(sent) /\ Ended = 1..e
  BY <1>2, EndedIs
<1>5. Ended' \subseteq Nat \ {0}
  <2>1. \E m \in Int : Ended' = 1..m
    BY <1>2 DEF Ended
  <2> QED BY <2>1
<1>6. /\ \A g \in 1..Len(given) : given[g].frame \in 1..e /\ g <= given[g].frame
                                  /\ Acceptable(given[g].frame)
      /\ \A g \in 1..Len(given) - 1 : given[g].frame < given[g + 1].frame
  BY <1>4 DEF RxInv, GivenInOrder, Counted
<1>7. ASSUME NEW f \in Ended PROVE Acceptable(f)' = Acceptable(f) /\ sent'[f] = sent[f]
  BY <1>1 DEF Acceptable
<1>8. Counted' /\ GivenInOrder' /\ \A g \in 1..Len(given) : g \in 1..Len(given') /\ given'[g] = given[g]
  <2>1. CASE given' = given
    <3>1. GivenInOrder'
      BY <1>1, <1>7, <2>1 DEF RxInv, GivenInOrder
    <3> QED BY <2>1, <3>1 DEF RxInv, Counted
  <2>2. ASSUME NEW f \in Ended' \ Ended, NEW t \in Int,
               Acceptable(f)', given' = Append(given, [frame |-> f, ts |-> t])
        PROVE  /\ Counted' /\ GivenInOrder'
               /\ \A g \in 1..Len(given) : g \in 1..Len(given') /\ given'[g] = given[g]
    <3>1. f \in Nat \ {0} /\ f > e
      BY <1>4, <1>5
    <3>2. /\ \A g \in 1..Len(given') : g <= given'[g].frame
          /\ \A g \in 1..Len(given') - 1 : given'[g].frame < given'[g + 1].frame
          /\ Len(given') = Len(given) + 1 /\ \A g \in 1..Len(given) : given'[g] = given[g]
          /\ given'[Len(given) + 1] = [frame |-> f, ts |-> t] /\ Len(given) \in Nat
      <4>1. \A g \in 1..Len(given) : given[g].frame \in 1..e /\ g <= given[g].frame
        BY <1>6
      <4>2. \A g \in 1..Len(given) - 1 : given[g].frame < given[g + 1].frame
        BY <1>6
      <4>3. given \in Seq(GivenTypes)
        BY <1>2
      <4> DEFINE r == Append(given, [frame |-> f, ts |-> t])
      <4>4. /\ \A g \in 1..Len(r) : g <= r[g].frame
            /\ \A g \in 1..Len(r) - 1 : r[g].frame < r[g + 1].frame
            /\ Len(r) = Len(given) + 1 /\ \A g \in 1..Len(given) : r[g] = given[g]
            /\ r[Len(given) + 1] = [frame |-> f, ts |-> t] /\ Len(given) \in Nat
        BY <3>1, <4>1, <4>2, <4>3, GivenMore
      <4>5. given' = r
        BY <2>2
      <4> HIDE DEF r
      <4> QED BY <4>4, <4>5
    <3>3. ASSUME NEW g \in 1..Len(given')
          PROVE  (given[g].frame)' \in Ended' /\ Acceptable(given[g].frame)'
      <4>1. CASE g \in 1..Len(given)
        <5>1. given'[g] = given[g] /\ given[g].frame \in Ended /\ Acceptable(given[g].frame)
          BY <1>4, <1>6, <3>2, <4>1
        <5>2. Acceptable(given[g].frame)' = Acceptable(given[g].frame)
          BY <1>1, <5>1 DEF Acceptable
        <5>3. given'[g].frame = given[g].frame
          BY <5>1
        <5> QED BY <1>1, <5>1, <5>2, <5>3 DEF Acceptable
      <4>2. CASE g = Len(given) + 1
        <5>1. given'[g].frame = f
          BY <3>2, <4>2
        <5> QED BY <2>2, <5>1 DEF Acceptable
      <4> QED BY <3>2, <4>1, <4>2
    <3>4. GivenInOrder'
      BY <3>2, <3>3 DEF GivenInOrder
    <3>5. \A g \in 1..Len(given) : g \in 1..Len(given') /\ given'[g] = given[g]
      BY <3>2
    <3> QED BY <3>2, <3>4, <3>5 DEF Counted
  <2> QED BY <2>1, <2>2
<1>9. WholeFrameGiven'
  <2> SUFFICES ASSUME NEW f \in Ended' \ lost', Acceptable(f)'
               PROVE  \E g \in 1..Len(given') : given'[g] = [frame |-> f, ts |-> Stamp(f, sent'[f])]
    BY Zenon DEF WholeFrameGiven, Stamp
  <2>1. CASE f \in Ended
    <3>1. Acceptable(f) /\ sent'[f] = sent[f] /\ f \in Ended \ lost
      BY <1>7, <2>1
    <3>2. PICK g \in 1..Len(given) : given[g] = [frame |-> f, ts |-> Stamp(f, sent[f])]
      BY <3>1, Zenon DEF RxInv, WholeFrameGiven, Stamp
    <3> QED BY <1>8, <3>1, <3>2, Zenon
  <2>2. CASE f \notin Ended
    <3> DEFINE x == [frame |-> f, ts |-> Stamp(f, sent'[f])]
    <3>1. given' = Append(given, x)
      BY <2>2
    <3>2. x \in GivenTypes
      BY <1>5 DEF GivenTypes, Stamp, None
    <3> HIDE DEF x
    <3>3. Len(given') = Len(given) + 1 /\ given'[Len(given) + 1] = x /\ Len(given) \in Nat
      BY <1>2, <3>1, <3>2, AppendProperties
    <3>4. Len(given) + 1 \in 1..Len(given')
      BY <3>3
    <3> QED BY <3>3, <3>4, Zenon DEF x
  <2> QED BY <2>1, <2>2
<1>10. KeptStamp'
  <2>1. CASE given' = given
    BY <2>1 DEF RxInv, KeptStamp
  <2>2. ASSUME NEW f \in Ended' \ Ended, NEW t \in Int,
               Acceptable(f)', given' = Append(given, [frame |-> f, ts |-> t])
        PROVE  KeptStamp'
    <3> DEFINE x == [frame |-> f, ts |-> t]
    <3>1. x \in GivenTypes /\ x.frame = f /\ x.ts = t
      BY <1>5 DEF GivenTypes
    <3>2. f \notin lost => x.ts \in {None, f}
      <4> DEFINE y == [frame |-> f, ts |-> Stamp(f, sent'[f])]
      <4> SUFFICES ASSUME f \notin lost PROVE x.ts \in {None, f}
        OBVIOUS
      <4>1. given' = Append(given, x) /\ given' = Append(given, y)
        BY <2>2
      <4>2. y \in GivenTypes /\ y.ts \in {None, f}
        BY <1>5 DEF GivenTypes, Stamp, None
      <4> HIDE DEF x, y
      <4>3. Append(given, x)[Len(given) + 1] = x
        BY <1>2, <3>1, AppendProperties
      <4>4. Append(given, y)[Len(given) + 1] = y
        BY <1>2, <4>2, AppendProperties
      <4>5. x = y
        BY <4>1, <4>3, <4>4, Zenon
      <4> QED BY <4>2, <4>5
    <3>3. given' = Append(given, x)
      BY <2>2
    <3> HIDE DEF x
    <3>4. /\ Len(given') = Len(given) + 1 /\ given'[Len(given) + 1] = x
          /\ \A g \in 1..Len(given) : given'[g] = given[g]
          /\ Len(given) \in Nat
      BY <1>2, <3>1, <3>3, AppendProperties
    <3>5. ASSUME NEW g \in 1..Len(given'), (given[g].frame)' \notin lost'
          PROVE  (given[g].ts)' \in {None, (given[g].frame)'}
      <4>1. CASE g \in 1..Len(given)
        <5>1. given'[g] = given[g]
          BY <3>4, <4>1
        <5> QED BY <3>5, <4>1, <5>1 DEF RxInv, KeptStamp
      <4>2. CASE g = Len(given) + 1
        <5>1. given'[g] = x
          BY <3>4, <4>2
        <5> QED BY <3>1, <3>2, <3>5, <5>1
      <4> QED BY <3>4, <4>1, <4>2
    <3> QED BY <3>5, Zenon DEF KeptStamp
  <2> QED BY <2>1, <2>2
<1> QED BY <1>1, <1>3, <1>8, <1>9, <1>10, Zenon DEF RxInv

-----------------------------------------------------------------------------
(* Steps *)

\* What the callbacks are given, once the chunk of a step is processed.
Gives(g) ==
  /\ \/ g = given
     \/ \E f \in Ended' \ Ended : \E t \in Int :
          Acceptable(f)' /\ g = Append(given, [frame |-> f, ts |-> t])
  /\ \A f \in Ended' \ Ended : f \notin lost /\ Acceptable(f)' =>
       g = Append(given, [frame |-> f, ts |-> Stamp(f, sent'[f])])

\* The record r is what a step that moves the MACPHY on may leave.
Puts(r) ==
  /\ r \in Records /\ r.ts \in -1..Len(sent') /\ Gives(r.given) /\ Stamped(r)
  /\ left' = <<>> => r.buf = <<>>
  /\ left' # <<>> =>
       /\ Holding(r, Len(sent'), sent'[Len(sent')].size)
       /\ Len(sent') \notin lost /\ sent'[Len(sent')].size <= BUF =>
            Carried(r, Len(sent'), sent'[Len(sent')], Done(sent'[Len(sent')], left'))

\* Whether its chunk is processed or lost, such a step keeps the invariant.
LEMMA ProcessStep ==
  ASSUME RxInv, NEW fs, Moves(fs), NEW c, Puts(receive(Rx, c)), Process(c, fs)
  PROVE  RxInv'
<1> DEFINE r == receive(Rx, c)
<1>1. Rx \in Records /\ errors \in 0..ERRORS /\ ERRORS \in Nat /\ lossy \in BOOLEAN
  BY RxAssumption DEF RxAssumption, RxInv, BufInv, Types
<1>2. CASE Become(r) /\ lossy' = FALSE /\ UNCHANGED <<errors, lost>>
  <2> HIDE DEF r
  <2>1. /\ r \in Records /\ r.ts \in -1..Len(sent') /\ Gives(r.given) /\ Stamped(r)
        /\ left' = <<>> => r.buf = <<>>
        /\ left' # <<>> =>
             /\ Holding(r, Len(sent'), sent'[Len(sent')].size)
             /\ Len(sent') \notin lost /\ sent'[Len(sent')].size <= BUF =>
                  Carried(r, Len(sent'), sent'[Len(sent')], Done(sent'[Len(sent')], left'))
    BY DEF Puts, r
  <2>2. Rx' = r /\ buf' = r.buf /\ ts' = r.ts /\ given' = r.given
    BY <1>2, <2>1, Becomes
  <2>3. BufInv'
    BY <1>2, <2>1, <2>2, Zenon DEF BufInv
  <2>4. CarriedInv'
    BY <1>2, <2>1, <2>2, Zenon DEF CarriedInv
  <2>5. Gives(given')
    BY <2>1, <2>2
  <2>6. /\ \/ given' = given
           \/ \E f \in Ended' \ Ended : \E t \in Int :
                Acceptable(f)' /\ given' = Append(given, [frame |-> f, ts |-> t])
        /\ \A f \in Ended' \ Ended : f \notin lost /\ Acceptable(f)' =>
             given' = Append(given, [frame |-> f, ts |-> Stamp(f, sent'[f])])
    BY <2>5, Zenon DEF Gives
  <2>7. lossy' = FALSE /\ errors' = errors /\ lost' = lost
    BY <1>2
  <2>8. StampInv'
    BY <2>1, <2>2, Zenon DEF StampInv, Stamped
  <2> QED BY <2>3, <2>4, <2>6, <2>7, <2>8, GiveStep
<1>3. CASE /\ errors < ERRORS /\ errors' = errors + 1
           /\ \E good \in BOOLEAN : Become([Dropped(Rx) EXCEPT !.good = good])
           /\ lossy' = TRUE /\ lost' = lost \cup fs
  <2>0. PICK good \in BOOLEAN : Become([Dropped(Rx) EXCEPT !.good = good])
    BY <1>3
  <2> DEFINE e == Dropped(Rx)
             d == [e EXCEPT !.good = good]
  <2>1. d \in Records /\ d.buf = <<>> /\ d.ts = Rx.ts /\ d.given = Rx.given
    <3>1. e \in Records /\ e.buf = <<>> /\ e.ts = Rx.ts /\ e.given = Rx.given
      BY <1>1, DroppedFields
    <3> HIDE DEF e
    <3> QED BY <3>1 DEF Records
  <2>2. Become(d)
    BY <2>0
  <2> HIDE DEF d
  <2>3. Rx' = d /\ buf' = d.buf /\ ts' = d.ts /\ given' = d.given
    BY <2>1, <2>2, Becomes
  <2>4. Rx' \in Records /\ buf' = <<>> /\ ts' = ts /\ given' = given
    BY <2>1, <2>3, RxFields
  <2>5. lossy' \in BOOLEAN /\ errors' \in 0..ERRORS /\ lost' = lost \cup fs
    BY <1>1, <1>3
  <2> QED BY <2>4, <2>5, LossStep
<1>4. CASE lossy /\ lost' = lost \cup fs /\ UNCHANGED <<lossy, errors, taskVars>>
  <2>1. buf' = buf /\ ts' = ts /\ given' = given /\ Rx' = Rx /\ lossy' = lossy /\ errors' = errors
    BY <1>4 DEF taskVars, Rx
  <2>2. buf = <<>>
    BY <1>4 DEF RxInv, BufInv
  <2> QED BY <1>1, <1>4, <2>1, <2>2, LossStep
<1> QED BY <1>2, <1>3, <1>4, Zenon DEF Process

\* The end of a frame f, with which all that may have been given is f.
LEMMA EndsGives ==
  ASSUME NEW f, NEW fr, NEW fd, NEW kept, NEW r, Ends(r, Rx, f, fr, fd, kept),
         Ended' \ Ended = {f}, sent'[f].size = fr.size, sent'[f].stamped = fr.stamped,
         sent'[f].good = fr.good, sent'[f].dropped = fd,
         f \notin lost /\ fr.size \in MIN_LEN..BUF => kept
  PROVE  Gives(r.given)
<1>1. Acceptable(f)' <=> fr.size \in MIN_LEN..BUF /\ ~fd
  BY Zenon DEF Acceptable
<1>2. Stamp(f, sent'[f]) = Stamp(f, fr)
  BY DEF Stamp
<1>3. Rx.given = given
  BY RxFields
<1>4. \/ r.given = given
      \/ \E g \in Ended' \ Ended : \E t \in Int :
           Acceptable(g)' /\ r.given = Append(given, [frame |-> g, ts |-> t])
  <2>1. CASE r.given = given
    BY <2>1
  <2>2. CASE r.given # given
    <3>1. fr.size \in MIN_LEN..BUF /\ ~fd
          /\ \E t \in Int : r.given = Append(given, [frame |-> f, ts |-> t])
      BY <1>3, <2>2, Zenon DEF Ends, Emptied
    <3>2. Acceptable(f)' /\ f \in Ended' \ Ended
      BY <1>1, <3>1, Zenon
    <3> QED BY <3>1, <3>2, Zenon
  <2> QED BY <2>1, <2>2
<1>5. ASSUME NEW g \in Ended' \ Ended, g \notin lost, Acceptable(g)'
      PROVE  r.given = Append(given, [frame |-> g, ts |-> Stamp(g, sent'[g])])
  <2>1. g = f
    BY <1>5
  <2>2. fr.size \in MIN_LEN..BUF /\ ~fd /\ kept
    BY <1>1, <1>5, <2>1, Zenon DEF Acceptable
  <2>3. r.given = Append(given, [frame |-> f, ts |-> Stamp(f, fr)])
    BY <1>3, <2>2, Zenon DEF Ends
  <2> QED BY <1>2, <2>1, <2>3
<1> QED BY <1>4, <1>5, Zenon DEF Gives

LEMMA SeqOf ==
  ASSUME NEW S, NEW U, NEW s \in Seq(S), \A i \in 1..Len(s) : s[i] \in U
  PROVE  s \in Seq(U)
<1>1. s \in [1..Len(s) -> U] /\ Len(s) \in Nat
  BY LenProperties
<1> QED BY <1>1

\* The last units of a frame are put in a chunk from the first, and those left
\* are the last ones still.
LEMMA LastTaken ==
  ASSUME NEW f \in Nat, NEW fr \in Frames, NEW l \in Seq(Parts), LastUnits(l, f, fr),
         NEW n \in 0..Len(l)
  PROVE  /\ Done(fr, l) \in Nat /\ Done(fr, l) + n <= Lead(fr.stamped) + fr.size
         /\ Done(fr, l) + Len(l) = Lead(fr.stamped) + fr.size
         /\ Take(l, n) \in Seq(UnitsOf(f, fr.size)) /\ Len(Take(l, n)) = n
         /\ \A i \in 1..n : Take(l, n)[i] = Unit(f, fr.size, fr.stamped, Done(fr, l) + i)
         /\ Drop(l, n) \in Seq(Parts) /\ Len(Drop(l, n)) = Len(l) - n
         /\ LastUnits(Drop(l, n), f, fr)
         /\ Done(fr, Drop(l, n)) = Done(fr, l) + n
<1> DEFINE total == Lead(fr.stamped) + fr.size
           k == Done(fr, l)
           t == Take(l, n)
           d == Drop(l, n)
<1>1. /\ fr.size \in Nat /\ Lead(fr.stamped) \in Nat /\ total \in Nat
      /\ Len(l) \in Nat /\ n \in Nat /\ n <= Len(l)
  <2>1. fr.size \in Nat /\ Lead(fr.stamped) \in Nat
    BY FrameFields, Leads
  <2> QED BY <2>1
<1>2. k = total - Len(l) /\ Len(l) <= total
      /\ \A i \in 1..Len(l) : l[i] = Unit(f, fr.size, fr.stamped, k + i)
  BY DEF Done, LastUnits
<1>3. t \in Seq(Parts) /\ Len(t) = n /\ \A i \in 1..n : t[i] = l[i]
  BY TakeSeq
<1>4. d \in Seq(Parts) /\ Len(d) = Len(l) - n /\ \A i \in 1..Len(l) - n : d[i] = l[n + i]
  <2>1. /\ d \in Seq(Parts) /\ Len(d) = IF n <= Len(l) THEN Len(l) - n ELSE 0
        /\ \A i \in 1..Len(l) - n : d[i] = l[n + i]
    BY <1>1, DropSeq
  <2> HIDE DEF d
  <2> QED BY <1>1, <2>1
<1>5. Done(fr, d) = total - Len(d)
  BY DEF Done
<1> HIDE DEF total, k, t, d
<1>6. k \in Nat /\ k + n <= total /\ k + Len(l) = total /\ Len(d) <= total
      /\ Done(fr, d) = k + n
  BY <1>1, <1>2, <1>4, <1>5
<1>7. \A i \in 1..n : t[i] = Unit(f, fr.size, fr.stamped, k + i)
  <2> TAKE i \in 1..n
  <2>1. i \in 1..Len(l)
    BY <1>1
  <2>2. l[i] = Unit(f, fr.size, fr.stamped, k + i)
    BY <1>2, <2>1, Zenon
  <2> QED BY <1>3, <2>2
<1>8. t \in Seq(UnitsOf(f, fr.size))
  <2>1. \A i \in 1..Len(t) : t[i] \in UnitsOf(f, fr.size)
    <3> TAKE i \in 1..Len(t)
    <3>1. i \in 1..n /\ k + i \in Int
      BY <1>3, <1>6
    <3>2. Unit(f, fr.size, fr.stamped, k + i) \in UnitsOf(f, fr.size)
      <4> DEFINE j == k + i
      <4>1. fr.size \in Nat /\ j \in Int
        BY <1>1, <3>1
      <4> HIDE DEF j
      <4>2. Unit(f, fr.size, fr.stamped, j) \in UnitsOf(f, fr.size)
        BY <4>1, UnitTypes, Zenon
      <4> QED BY <4>2 DEF j
    <3> QED BY <1>7, <3>1, <3>2
  <2> QED BY <1>3, <2>1, SeqOf
<1>9. \A i \in 1..Len(d) : d[i] = Unit(f, fr.size, fr.stamped, Done(fr, d) + i)
  <2> TAKE i \in 1..Len(d)
  <2>1. n + i \in 1..Len(l) /\ i \in 1..Len(l) - n /\ k + (n + i) = (k + n) + i
    BY <1>1, <1>4, <1>6
  <2>2. d[i] = Unit(f, fr.size, fr.stamped, k + (n + i))
    BY <1>2, <1>4, <2>1
  <2> QED BY <1>6, <2>1, <2>2
<1>10. LastUnits(d, f, fr)
  BY <1>6, <1>9 DEF LastUnits, total
<1> QED BY <1>3, <1>4, <1>6, <1>7, <1>8, <1>10 DEF total, k, t, d

\* What is given is of frames before the next, and before the one under way.
LEMMA GivenBefore ==
  ASSUME RxInv
  PROVE  /\ Rx \in Records /\ Stamped(Rx) /\ Before(Rx, Len(sent) + 1)
         /\ left # <<>> => Before(Rx, Len(sent))
<1>1. sent \in Seq(Frames) /\ Len(sent) \in Nat
  BY DEF RxInv, Types
<1>2. Rx.given = given
  BY RxFields
<1>3. \A g \in 1..Len(given) : given[g].frame \in Ended
  BY DEF RxInv, GivenInOrder
<1>4. Ended \subseteq 1..Len(sent) /\ (left # <<>> => Ended = 1..Len(sent) - 1)
  BY <1>1, EndedIs
<1>5. \A g \in 1..Len(given) : given[g].frame < Len(sent) + 1
  <2> TAKE g \in 1..Len(given)
  <2>1. given[g].frame \in 1..Len(sent)
    BY <1>3, <1>4
  <2> QED BY <1>1, <2>1
<1>6. ASSUME left # <<>> PROVE \A g \in 1..Len(given) : given[g].frame < Len(sent)
  BY <1>1, <1>3, <1>4, <1>6
<1>7. Rx \in Records /\ Stamped(Rx)
  BY DEF RxInv, BufInv, StampInv
<1> QED BY <1>2, <1>5, <1>6, <1>7, Zenon DEF Before

LEMMA EmptyStep == RxInv /\ ChunkEmpty => RxInv'
<1> SUFFICES ASSUME RxInv, ChunkEmpty PROVE RxInv'
  OBVIOUS
<1> DEFINE fs == IF left = <<>> THEN {} ELSE {Len(sent)}
           data == Pad(CHUNK)
           c == WithData([Plain EXCEPT !.dv = FALSE], data)
<1>1. sent' = sent /\ left' = left /\ Process(c, fs)
  BY DEF ChunkEmpty, macVars
<1>2. sent \in Seq(Frames) /\ Len(sent) \in Nat /\ Len(sent) <= FRAMES /\ left \in Seq(Parts)
  BY DEF RxInv, Types
<1>3. Ended' = Ended /\ LeftInv'
  BY <1>1 DEF Ended, LeftInv, RxInv, LastUnits, Done
<1>4. Moves(fs)
  <2>1. left # <<>> => Len(sent) \in 1..Len(sent) /\ Len(sent) \in fs
    BY <1>2, EmptySeq DEF RxInv, LeftInv
  <2>2. fs \subseteq 1..Len(sent) /\ (left # <<>> => Len(sent) \in fs)
    BY <2>1
  <2> HIDE DEF fs
  <2> QED BY <1>1, <1>2, <1>3, <2>2 DEF Moves
<1>5. receive(Rx, c) = Rx
  <2> HIDE DEF data
  <2>1. c.dv = FALSE /\ c.sv = FALSE /\ c.ev = FALSE /\ c.swo \in Nat /\ c.ebo \in Nat
    BY DEF WithData, Plain
  <2> HIDE DEF c
  <2> QED BY <2>1, ChunkKinds
<1>6. Puts(Rx)
  <2>1. Rx \in Records /\ Rx.ts \in -1..Len(sent) /\ (left = <<>> => Rx.buf = <<>>)
    BY RxFields DEF RxInv, BufInv
  <2>2. Gives(Rx.given)
    <3>1. Rx.given = given /\ Ended' \ Ended = {}
      BY <1>3, RxFields
    <3> QED BY <3>1, Zenon DEF Gives
  <2>3. left # <<>> =>
          /\ Holding(Rx, Len(sent), sent[Len(sent)].size)
          /\ Len(sent) \notin lost /\ sent[Len(sent)].size <= BUF =>
               Carried(Rx, Len(sent), sent[Len(sent)], Done(sent[Len(sent)], left))
    BY Zenon DEF RxInv, BufInv, CarriedInv
  <2>4. Stamped(Rx)
    BY GivenBefore
  <2> QED BY <1>1, <2>1, <2>2, <2>3, <2>4, Zenon DEF Puts
<1> HIDE DEF c, fs
<1> QED BY <1>1, <1>4, <1>5, <1>6, ProcessStep, Zenon

LEMMA InsideStep == RxInv /\ ChunkInside => RxInv'
<1> SUFFICES ASSUME RxInv, ChunkInside PROVE RxInv'
  OBVIOUS
<1> DEFINE f == Len(sent)
           fr == sent[f]
           fs == {Len(sent)}
           data == Take(left, CHUNK)
           rest == Drop(left, CHUNK)
           c == WithData(Plain, data)
           k == Done(fr, left)
<1>1. sent' = sent /\ left' = rest /\ Process(c, fs) /\ Len(left) > CHUNK
  BY DEF ChunkInside
<1>2. /\ sent \in Seq(Frames) /\ Len(sent) \in Nat /\ Len(sent) <= FRAMES
      /\ left \in Seq(Parts) /\ Len(left) \in Nat /\ CHUNK \in Nat \ {0}
      /\ lost \subseteq 1..Len(sent)
  BY RxAssumption DEF RxInv, Types, RxAssumption
<1>3. left # <<>>
  BY <1>1, <1>2, EmptySeq
<1>4. sent # <<>> /\ LastUnits(left, f, fr) /\ f \in 1..Len(sent) /\ fr \in Frames
  <2>1. sent # <<>> /\ LastUnits(left, f, fr)
    BY <1>3 DEF RxInv, LeftInv
  <2>2. f \in 1..Len(sent)
    BY <1>2, <2>1, EmptySeq
  <2> QED BY <1>2, <2>1, <2>2, ElementOfSeq
<1> HIDE DEF fr
<1>5. /\ k \in Nat /\ k + CHUNK <= Lead(fr.stamped) + fr.size
      /\ data \in Seq(UnitsOf(f, fr.size)) /\ Len(data) = CHUNK
      /\ \A i \in 1..CHUNK : data[i] = Unit(f, fr.size, fr.stamped, k + i)
      /\ rest \in Seq(Parts) /\ Len(rest) = Len(left) - CHUNK
      /\ LastUnits(rest, f, fr) /\ Done(fr, rest) = k + CHUNK
  <2>1. f \in Nat /\ CHUNK \in 0..Len(left)
    BY <1>1, <1>2
  <2> HIDE DEF f
  <2> QED BY <1>2, <1>4, <2>1, LastTaken
<1> HIDE DEF data, rest, k
<1>6. rest # <<>>
  BY <1>1, <1>2, <1>5, EmptySeq
<1>7. Ended' = Ended
  <2>1. left' # <<>> /\ sent' = sent
    BY <1>1, <1>6
  <2> QED BY <1>3, <2>1, Zenon DEF Ended
<1>8. Moves(fs)
  <2>1. LeftInv'
    BY <1>1, <1>4, <1>5 DEF LeftInv, fr
  <2>2. Len(sent) <= Len(sent) /\ fs \subseteq 1..Len(sent) /\ Len(sent) \in fs
    BY <1>2, <1>4
  <2> HIDE DEF fs
  <2> QED BY <1>1, <1>2, <1>5, <1>7, <2>1, <2>2, Zenon DEF Moves
<1>9. receive(Rx, c) = add_rx_buffer(Rx, data, FALSE, FALSE)
  <2>1. c.dv = TRUE /\ c.sv = FALSE /\ c.ev = FALSE /\ c.swo \in Nat /\ c.ebo \in Nat
        /\ c.data = data
    BY DEF WithData, Plain
  <2> HIDE DEF c
  <2> QED BY <2>1, ChunkKinds
<1>10. Puts(add_rx_buffer(Rx, data, FALSE, FALSE))
  <2> DEFINE r == add_rx_buffer(Rx, data, FALSE, FALSE)
  <2>1. Holding(Rx, f, fr.size) /\ fr.size \in Nat
    <3>1. Holding(Rx, f, fr.size)
      BY <1>3, Zenon DEF RxInv, BufInv, fr
    <3>2. fr.size \in Nat
      BY <1>4, FrameFields
    <3> QED BY <3>1, <3>2
  <2>2. Holding(r, f, fr.size) /\ r.given = Rx.given
    <3>1. f \in Nat /\ data \in Seq(UnitsOf(f, fr.size))
      BY <1>2, <1>5
    <3> HIDE DEF f
    <3> QED BY <2>1, <3>1, AddHolds
  <2>3. Stamped(r)
    <3>1. f \in Nat /\ data \in Seq(UnitsOf(f, fr.size)) /\ Stamped(Rx) /\ Before(Rx, f)
      BY <1>2, <1>3, <1>5, GivenBefore
    <3> HIDE DEF f
    <3> QED BY <2>1, <3>1, AddStamped
  <2>4. ASSUME f \notin lost, fr.size <= BUF PROVE Carried(r, f, fr, Done(fr, rest))
    <3>1. Carried(Rx, f, fr, k)
      BY <1>3, <2>4 DEF RxInv, CarriedInv, fr, k
    <3>2. ~too_long(Rx, data) /\ Carried(Fed(Rx, data), f, fr, k + Len(data))
      <4>1. /\ Len(data) <= CHUNK /\ k + Len(data) <= Lead(fr.stamped) + fr.size
            /\ \A i \in 1..Len(data) : data[i] = Unit(f, fr.size, fr.stamped, k + i)
        BY <1>2, <1>5
      <4>2. f \in Nat /\ k \in Nat /\ data \in Seq(UnitsOf(f, fr.size))
        BY <1>2, <1>5
      <4> HIDE DEF f
      <4> QED BY <1>4, <2>1, <2>4, <3>1, <4>1, <4>2, FedCarries
    <3>3. r = Fed(Rx, data)
      BY <3>2, AddIs, Zenon
    <3> QED BY <1>5, <3>2, <3>3, Zenon
  <2> HIDE DEF r
  <2>5. Gives(r.given)
    <3>1. r.given = given /\ Ended' \ Ended = {}
      BY <1>7, <2>2, RxFields
    <3> QED BY <3>1, Zenon DEF Gives
  <2>6. r \in Records /\ r.ts \in -1..Len(sent')
    BY <1>1, <2>2 DEF Holding
  <2>7. Puts(r)
    BY <1>1, <1>6, <2>2, <2>4, <2>5, <2>6, <2>3, Zenon DEF Puts, fr, f
  <2> QED BY <2>7 DEF r
<1> HIDE DEF c, fs
<1> QED BY <1>1, <1>8, <1>9, <1>10, ProcessStep, Zenon

\* A chunk of what is left of a frame.
LEMMA EndLast ==
  ASSUME NEW f \in Nat, NEW fr \in Frames, NEW rx, Holding(rx, f, fr.size),
         NEW l \in Seq(UnitsOf(f, fr.size)), Len(l) <= CHUNK,
         LastUnits(l, f, fr), Done(fr, l) \in Nat,
         NEW c, c.fd \in BOOLEAN, Take(c.data, c.ebo) = l
  PROVE  Ends(end_frame(rx, c), rx, f, fr, c.fd, Carried(rx, f, fr, Done(fr, l)))
<1>1. /\ fr.size \in Nat /\ Lead(fr.stamped) \in Nat /\ Len(l) \in Nat
  BY FrameFields, Leads
<1>2. Done(fr, l) + Len(l) = Lead(fr.stamped) + fr.size
  BY <1>1 DEF Done
<1>3. \A i \in 1..Len(l) : l[i] = Unit(f, fr.size, fr.stamped, Done(fr, l) + i)
  BY Zenon DEF LastUnits
<1> DEFINE k == Done(fr, l)
<1> HIDE DEF k
<1>4. k \in Nat /\ k + Len(l) = Lead(fr.stamped) + fr.size
      /\ \A i \in 1..Len(l) : l[i] = Unit(f, fr.size, fr.stamped, k + i)
  BY <1>2, <1>3, Zenon DEF k
<1>5. Ends(end_frame(rx, c), rx, f, fr, c.fd, Carried(rx, f, fr, k))
  BY <1>4, EndFrame
<1> QED BY <1>5 DEF k

\* The last frame ends in the chunk.
LEMMA LastEnds ==
  ASSUME RxInv, left # <<>>, Len(left) <= CHUNK,
         NEW c, c.fd \in BOOLEAN, Take(c.data, c.ebo) = left
  PROVE  LET f == Len(sent)
             fr == sent[f]
             kept == Carried(Rx, f, fr, Done(fr, left))
         IN  /\ f \in Nat /\ fr \in Frames /\ sent # <<>>
             /\ Ends(end_frame(Rx, c), Rx, f, fr, c.fd, kept)
             /\ f \notin lost /\ fr.size \in MIN_LEN..BUF => kept
             /\ Stamped(end_frame(Rx, c)) /\ Before(end_frame(Rx, c), f + 1)
<1> DEFINE f == Len(sent)
           fr == sent[f]
           k == Done(fr, left)
<1>1. /\ sent \in Seq(Frames) /\ f \in Nat /\ left \in Seq(Parts) /\ Len(left) \in Nat
      /\ MIN_LEN \in Nat /\ BUF \in Nat
  BY RxAssumption DEF RxInv, Types, RxAssumption
<1>2. sent # <<>> /\ LastUnits(left, f, fr)
  BY DEF RxInv, LeftInv
<1>3. fr \in Frames
  <2>1. f \in 1..Len(sent)
    BY <1>1, <1>2, EmptySeq
  <2> QED BY <1>1, <2>1, ElementOfSeq
<1>4. Holding(Rx, f, fr.size)
  BY Zenon DEF RxInv, BufInv
<1>5. ASSUME f \notin lost, fr.size \in MIN_LEN..BUF PROVE Carried(Rx, f, fr, k)
  <2>1. fr.size <= BUF
    BY <1>1, <1>5
  <2> QED BY <1>5, <2>1, Zenon DEF RxInv, CarriedInv
<1> HIDE DEF f, fr
<1>6. /\ k \in Nat /\ k + Len(left) = Lead(fr.stamped) + fr.size
      /\ Take(left, Len(left)) \in Seq(UnitsOf(f, fr.size))
  <2>1. Len(left) \in 0..Len(left)
    BY <1>1
  <2>2. f \in Nat /\ left \in Seq(Parts)
    BY <1>1
  <2> QED BY <1>2, <1>3, <2>1, <2>2, LastTaken, Zenon
<1>7. /\ left \in Seq(UnitsOf(f, fr.size))
      /\ \A i \in 1..Len(left) : left[i] = Unit(f, fr.size, fr.stamped, k + i)
  <2>1. Take(left, Len(left)) = left
    <3>1. Len(left) \in 0..Len(left)
      BY <1>1
    <3> DEFINE t == Take(left, Len(left))
    <3>2. t \in Seq(Parts) /\ Len(t) = Len(left) /\ \A i \in 1..Len(left) : t[i] = left[i]
      BY <1>1, <3>1, TakeSeq
    <3> HIDE DEF t
    <3>3. t = left
      BY <1>1, <3>2, SeqEqual
    <3> QED BY <3>3 DEF t
  <2>2. \A i \in 1..Len(left) : left[i] = Unit(f, fr.size, fr.stamped, Done(fr, left) + i)
    BY <1>2, Zenon DEF LastUnits
  <2> QED BY <1>6, <2>1, <2>2, Zenon
<1> HIDE DEF k
<1>8. Ends(end_frame(Rx, c), Rx, f, fr, c.fd, Carried(Rx, f, fr, k))
  <2>1. f \in Nat /\ left \in Seq(UnitsOf(f, fr.size)) /\ LastUnits(left, f, fr)
        /\ Done(fr, left) \in Nat
    BY <1>1, <1>2, <1>6, <1>7, Zenon DEF k
  <2> QED BY <1>3, <1>4, <2>1, EndLast DEF k
<1>9. Stamped(end_frame(Rx, c)) /\ Before(end_frame(Rx, c), f + 1)
  <2> DEFINE r == end_frame(Rx, c)
             e == f + 1
             kept == Carried(Rx, f, fr, k)
  <2>1. Rx \in Records /\ Stamped(Rx) /\ Before(Rx, f)
    BY GivenBefore DEF f
  <2>2. fr.size \in Nat
    BY <1>3, FrameFields
  <2>3. Stamped(r)
    BY <1>1, <1>4, <1>7, <2>1, <2>2, EndStamped
  <2>4. Ends(r, Rx, f, fr, c.fd, kept) /\ e \in Nat /\ e > f
    BY <1>1, <1>8
  <2> HIDE DEF r, e, kept
  <2>5. Before(r, e)
    BY <1>1, <2>1, <2>4, EndsBefore
  <2> QED BY <2>3, <2>5 DEF r, e
<1> QED BY <1>1, <1>2, <1>3, <1>5, <1>8, <1>9, Zenon DEF f, fr, k

LEMMA EndingStep == RxInv /\ ChunkEnding => RxInv'
<1> SUFFICES ASSUME RxInv, ChunkEnding PROVE RxInv'
  OBVIOUS
<1> DEFINE f == Len(sent)
           fr == sent[f]
           fs == {Len(sent)}
           data == left \o Pad(CHUNK - Len(left))
           kept == Carried(Rx, f, fr, Done(fr, left))
<1>1. Len(left) \in 1..CHUNK /\ left' = <<>>
  BY DEF ChunkEnding
<1>2. PICK fd \in BOOLEAN :
        /\ sent' = Fate(fd)
        /\ Process(WithData([Plain EXCEPT !.ev = TRUE, !.ebo = Len(left), !.fd = fd], data), fs)
  BY DEF ChunkEnding
<1> DEFINE c == WithData([Plain EXCEPT !.ev = TRUE, !.ebo = Len(left), !.fd = fd], data)
<1>3. /\ sent \in Seq(Frames) /\ Len(sent) \in Nat /\ Len(sent) <= FRAMES
      /\ left \in Seq(Parts) /\ Len(left) \in Nat /\ CHUNK \in Nat
      /\ left # <<>> /\ Len(left) <= CHUNK /\ CHUNK - Len(left) \in Nat
  <2>1. left # <<>>
    BY <1>1, EmptySeq
  <2>2. sent \in Seq(Frames) /\ left \in Seq(Parts) /\ Len(sent) <= FRAMES /\ CHUNK \in Nat
    BY RxAssumption DEF RxInv, Types, RxAssumption
  <2> QED BY <1>1, <2>1, <2>2
<1>4. Take(data, Len(left)) = left
  BY <1>3, EndLayout
<1> HIDE DEF data
<1>5. /\ c.dv = TRUE /\ c.sv = FALSE /\ c.ev = TRUE /\ c.swo \in Nat /\ c.ebo = Len(left)
      /\ c.data = data /\ c.fd = fd
  BY DEF WithData, Plain
<1>6. Process(c, fs)
  BY <1>2
<1> HIDE DEF c
<1>7. receive(Rx, c) = end_frame(Rx, c)
  <2>1. c.ebo \in Nat
    BY <1>3, <1>5
  <2> QED BY <1>5, <2>1, ChunkKinds
<1>8. /\ f \in Nat /\ fr \in Frames /\ sent # <<>>
      /\ Ends(end_frame(Rx, c), Rx, f, fr, fd, kept)
      /\ f \notin lost /\ fr.size \in MIN_LEN..BUF => kept
      /\ Stamped(end_frame(Rx, c))
  <2>1. Take(c.data, c.ebo) = left /\ c.fd \in BOOLEAN
    BY <1>4, <1>5
  <2>2. /\ f \in Nat /\ fr \in Frames /\ sent # <<>>
        /\ Ends(end_frame(Rx, c), Rx, f, fr, c.fd, kept)
        /\ f \notin lost /\ fr.size \in MIN_LEN..BUF => kept
        /\ Stamped(end_frame(Rx, c))
    BY <1>3, <2>1, LastEnds
  <2> QED BY <1>5, <2>2, Zenon
<1> HIDE DEF kept
<1>9. /\ f \in 1..Len(sent) /\ sent' \in Seq(Frames) /\ Len(sent') = f
      /\ \A g \in 1..f - 1 : sent'[g] = sent[g]
      /\ sent'[f].size = fr.size /\ sent'[f].stamped = fr.stamped
      /\ sent'[f].good = fr.good /\ sent'[f].dropped = fd
  BY <1>2, <1>3, <1>8, FateIs
<1>10. Ended = 1..f - 1 /\ Ended' = 1..f
  <2>1. Ended = 1..f - 1
    BY <1>3, EndedIs
  <2>2. Ended' = 1..f
    BY <1>1, <1>9 DEF Ended
  <2> QED BY <2>1, <2>2
<1> HIDE DEF fr
<1>11. Ended' \ Ended = {f} /\ Ended \subseteq Ended' /\ \A g \in Ended : sent'[g] = sent[g]
  BY <1>8, <1>9, <1>10
<1>12. Moves(fs)
  <2>1. LeftInv'
    BY <1>1 DEF LeftInv
  <2>2. Len(sent) <= Len(sent') /\ fs \subseteq 1..Len(sent') /\ Len(sent') <= FRAMES
        /\ left' \in Seq(Parts)
    BY <1>1, <1>3, <1>9
  <2> QED BY <1>1, <1>9, <1>11, <2>1, <2>2, Zenon DEF Moves
<1>13. Puts(end_frame(Rx, c))
  <2> DEFINE r == end_frame(Rx, c)
  <2>1. Gives(r.given)
    BY <1>8, <1>9, <1>11, EndsGives, Zenon
  <2>2. r \in Records /\ r.ts \in -1..Len(sent') /\ r.buf = <<>> /\ Stamped(r)
    BY <1>8, <1>9, Zenon DEF Ends, Emptied
  <2> HIDE DEF r
  <2>3. Puts(r)
    BY <1>1, <2>1, <2>2, Zenon DEF Puts
  <2> QED BY <2>3 DEF r
<1> HIDE DEF fs
<1> QED BY <1>6, <1>7, <1>12, <1>13, ProcessStep, Zenon

\* The next frame is f, the one fr, and m of its units go in the chunk.
Started(fr, base, m, units, f) ==
  /\ sent' \in Seq(Frames) /\ Len(sent') = f /\ Len(sent') <= FRAMES /\ f \in Nat
  /\ sent'[f] = fr /\ \A g \in 1..Len(sent) : sent'[g] = base[g]
  /\ left' \in Seq(Parts) /\ LeftInv'
  /\ units \in Seq(UnitsOf(f, fr.size)) /\ Len(units) = Lead(fr.stamped) + fr.size
  /\ \A i \in 1..Len(units) : units[i] = Unit(f, fr.size, fr.stamped, i)
  /\ Len(units) <= m => left' = <<>>
  /\ Len(units) > m =>
       /\ left' # <<>> /\ Done(fr, left') = m
       /\ m <= Lead(fr.stamped) + fr.size
       /\ Take(units, m) \in Seq(UnitsOf(f, fr.size)) /\ Len(Take(units, m)) = m
       /\ \A i \in 1..m : Take(units, m)[i] = Unit(f, fr.size, fr.stamped, i)

LEMMA NextStarts ==
  ASSUME Types, Len(sent) < FRAMES, NEW fr \in Frames, NEW base \in Seq(Frames),
         Len(base) = Len(sent), sent' = Append(base, fr),
         NEW m \in 1..CHUNK, NEW units, units = Units(fr.size, fr.stamped),
         left' = Drop(units, m), NEW f, f = Len(sent) + 1
  PROVE  Started(fr, base, m, units, f)
<1> DEFINE total == Lead(fr.stamped) + fr.size
<1>1. /\ sent \in Seq(Frames) /\ Len(sent) \in Nat /\ f \in Nat /\ CHUNK \in Nat /\ m \in Nat \ {0}
      /\ fr.size \in Nat /\ Lead(fr.stamped) \in Nat /\ total \in Nat /\ FRAMES \in Nat
  <2>1. sent \in Seq(Frames) /\ Len(sent) \in Nat
    BY DEF Types
  <2>2. fr.size \in Nat /\ Lead(fr.stamped) \in Nat
    BY FrameFields, Leads
  <2>3. CHUNK \in Nat /\ FRAMES \in Nat
    BY RxAssumption DEF RxAssumption
  <2> QED BY <2>1, <2>2, <2>3
<1>2. /\ sent' \in Seq(Frames) /\ Len(sent') = f
      /\ sent'[f] = fr /\ \A g \in 1..Len(sent) : sent'[g] = base[g]
  <2>1. /\ Append(base, fr) \in Seq(Frames) /\ Len(Append(base, fr)) = Len(base) + 1
        /\ \A g \in 1..Len(base) : Append(base, fr)[g] = base[g]
        /\ Append(base, fr)[Len(base) + 1] = fr
    BY AppendProperties
  <2> QED BY <2>1
<1>3. Len(sent') <= FRAMES
  BY <1>1, <1>2
<1>4. /\ units \in Seq(UnitsOf(f, fr.size)) /\ Len(units) = total
      /\ \A i \in 1..total : units[i] = Unit(f, fr.size, fr.stamped, i)
  BY <1>1, UnitsIs
<1>5. units \in Seq(Parts)
  <2>1. \A g, n \in Nat : \A s \in Seq(UnitsOf(g, n)) : s \in Seq(Parts)
    BY UnitTypes
  <2> QED BY <1>1, <1>4, <2>1
<1>6. LastUnits(units, f, fr) /\ Done(fr, units) = 0
  <2>1. Done(fr, units) = 0
    BY <1>1, <1>4 DEF Done
  <2>2. \A i \in 1..Len(units) : units[i] = Unit(f, fr.size, fr.stamped, Done(fr, units) + i)
    <3> TAKE i \in 1..Len(units)
    <3>1. Done(fr, units) + i = i /\ i \in 1..total
      BY <1>4, <2>1
    <3> QED BY <1>4, <3>1
  <2> QED BY <1>1, <1>4, <2>1, <2>2 DEF LastUnits
<1> HIDE DEF total
<1>7. ASSUME Len(units) > m
      PROVE  /\ left' \in Seq(Parts) /\ LeftInv'
             /\ left' # <<>> /\ Done(fr, left') = m /\ m <= total
             /\ Take(units, m) \in Seq(UnitsOf(f, fr.size)) /\ Len(Take(units, m)) = m
             /\ \A i \in 1..m : Take(units, m)[i] = Unit(f, fr.size, fr.stamped, i)
  <2> DEFINE d == Drop(units, m)
             t == Take(units, m)
  <2>1. m \in 0..Len(units)
    BY <1>1, <1>4, <1>7
  <2>2. /\ d \in Seq(Parts) /\ Len(d) = Len(units) - m /\ LastUnits(d, f, fr)
        /\ Done(fr, d) = Done(fr, units) + m
        /\ t \in Seq(UnitsOf(f, fr.size)) /\ Len(t) = m
        /\ \A i \in 1..m : t[i] = Unit(f, fr.size, fr.stamped, Done(fr, units) + i)
    <3>1. f \in Nat /\ LastUnits(units, f, fr)
      BY <1>1, <1>6
    <3> QED BY <1>5, <2>1, <3>1, LastTaken
  <2>3. left' = d
    OBVIOUS
  <2> HIDE DEF d, t
  <2>4. d # <<>>
    BY <1>1, <1>4, <1>7, <2>2, EmptySeq
  <2>5. Done(fr, d) = m /\ m <= total
    BY <1>1, <1>4, <1>6, <1>7, <2>2
  <2>6. \A i \in 1..m : t[i] = Unit(f, fr.size, fr.stamped, i)
    <3> TAKE i \in 1..m
    <3>1. Done(fr, units) + i = i
      BY <1>6
    <3> QED BY <2>2, <3>1
  <2>7. LeftInv'
    <3>1. sent' # <<>>
      <4>1. sent' \in Seq(Frames) /\ Len(sent') # 0
        BY <1>1, <1>2
      <4> QED BY <4>1, EmptySeq
    <3> QED BY <1>2, <2>2, <2>3, <3>1, Zenon DEF LeftInv
  <2> QED BY <2>2, <2>3, <2>4, <2>5, <2>6, <2>7 DEF t
<1>8. ASSUME ~(Len(units) > m) PROVE left' = <<>> /\ left' \in Seq(Parts) /\ LeftInv'
  <2> DEFINE d == Drop(units, m)
  <2>1. d \in Seq(Parts) /\ Len(d) = IF m <= Len(units) THEN Len(units) - m ELSE 0
    BY <1>1, <1>5, DropSeq
  <2>2. left' = d
    OBVIOUS
  <2> HIDE DEF d
  <2>3. Len(d) = 0
    BY <1>1, <1>4, <1>8, <2>1
  <2>4. left' = <<>>
    BY <2>1, <2>2, <2>3, EmptySeq
  <2> QED BY <2>1, <2>2, <2>4 DEF LeftInv
<1>9. Len(units) <= m <=> ~(Len(units) > m)
  BY <1>1, <1>4
<1> QED BY <1>1, <1>2, <1>3, <1>4, <1>7, <1>8, <1>9, Zenon DEF total, Started

LEMMA StartPuts ==
  ASSUME NEW fr \in Frames, NEW base, NEW m \in 1..CHUNK, NEW units, NEW f,
         Started(fr, base, m, units, f), Len(units) > m,
         NEW rx \in Records, Gives(rx.given), Stamped(rx), Before(rx, f),
         NEW c, c.rtsa = fr.stamped, c.rtsp = fr.good, Drop(c.data, c.swo) = Take(units, m)
  PROVE  Puts(start_frame(rx, c))
<1> DEFINE r == start_frame(rx, c)
           t == Take(units, m)
<1>1. /\ f \in Nat /\ Len(sent') = f /\ sent'[f] = fr /\ left' # <<>> /\ Done(fr, left') = m
      /\ m <= Lead(fr.stamped) + fr.size
      /\ t \in Seq(UnitsOf(f, fr.size)) /\ Len(t) = m
      /\ \A i \in 1..m : t[i] = Unit(f, fr.size, fr.stamped, i)
  BY Zenon DEF Started
<1>2. m <= CHUNK
  BY RxAssumption DEF RxAssumption
<1> HIDE DEF t
<1>3. /\ Holding(r, f, fr.size) /\ r.given = rx.given
      /\ fr.size <= BUF => Carried(r, f, fr, Len(t))
  <2>1. Drop(c.data, c.swo) = t
    BY DEF t
  <2>2. /\ Len(t) <= CHUNK /\ Len(t) <= Lead(fr.stamped) + fr.size
        /\ \A i \in 1..Len(t) : t[i] = Unit(f, fr.size, fr.stamped, i)
    BY <1>1, <1>2
  <2> QED BY <1>1, <2>1, <2>2, StartFrame
<1>4. Stamped(r)
  <2>1. Drop(c.data, c.swo) = t
    BY DEF t
  <2> QED BY <1>1, <2>1, StartStamped
<1> HIDE DEF r
<1>5. r \in Records /\ r.ts \in -1..f
  BY <1>3, Zenon DEF Holding
<1>6. Gives(r.given)
  BY <1>3
<1>7. Puts(r)
  BY <1>1, <1>3, <1>5, <1>6, <1>4, Zenon DEF Puts
<1> QED BY <1>7 DEF r

LEMMA StartMoves ==
  ASSUME Len(sent) \in Nat, NEW fr, NEW base, NEW m, NEW units, NEW f, f = Len(sent) + 1,
         Started(fr, base, m, units, f),
         Ended \subseteq Ended', \A g \in Ended : sent'[g] = sent[g],
         NEW fs, fs \subseteq 1..f, f \in fs, Ended' \ Ended \subseteq fs
  PROVE  Moves(fs)
<1>1. /\ sent' \in Seq(Frames) /\ Len(sent') = f /\ Len(sent') <= FRAMES
      /\ left' \in Seq(Parts) /\ LeftInv'
  BY Zenon DEF Started
<1>2. Len(sent) <= Len(sent') /\ fs \subseteq 1..Len(sent') /\ Len(sent') \in fs
  BY <1>1
<1> QED BY <1>1, <1>2, Zenon DEF Moves

LEMMA StartingStep == RxInv /\ ChunkStarting => RxInv'
<1> SUFFICES ASSUME RxInv, ChunkStarting PROVE RxInv'
  OBVIOUS
<1>1. Len(sent) < FRAMES /\ Len(left) < CHUNK
  BY DEF ChunkStarting
<1>2. PICK n \in SIZES, stamped \in BOOLEAN, good \in BOOLEAN, fd \in BOOLEAN,
           swo \in Len(left)..CHUNK - 1 :
        LET units  == Units(n, stamped)
            before == left # <<>>
            fits   == Len(units) <= CHUNK - swo
            start  == [Plain EXCEPT !.sv = TRUE, !.swo = swo, !.rtsa = stamped, !.rtsp = good]
            end    == [start EXCEPT !.ev = TRUE, !.fd = fd,
                                    !.ebo = IF before THEN Len(left) ELSE swo + Len(units)]
            data   == left \o Pad(swo - Len(left)) \o units \o Pad(CHUNK)
            frame  == [size |-> n, stamped |-> stamped, good |-> good,
                       dropped |-> fits /\ fd]
        IN /\ ~(before /\ fits)
           /\ fd => before \/ fits
           /\ left' = Drop(units, CHUNK - swo)
           /\ sent' = Append(IF before THEN Fate(fd) ELSE sent, frame)
           /\ Process(WithData(IF before \/ fits THEN end ELSE start, Take(data, CHUNK)),
                      {Len(sent) + 1} \cup (IF before THEN {Len(sent)} ELSE {}))
  BY Zenon DEF ChunkStarting
<1> DEFINE f      == Len(sent)
           units  == Units(n, stamped)
           fits   == Len(units) <= CHUNK - swo
           data   == StartData(left, swo, units)
           frame  == [size |-> n, stamped |-> stamped, good |-> good, dropped |-> fits /\ fd]
           base   == IF left # <<>> THEN Fate(fd) ELSE sent
           m      == CHUNK - swo
           fs     == {f + 1} \cup (IF left # <<>> THEN {f} ELSE {})
           ebo    == IF left # <<>> THEN Len(left) ELSE swo + Len(units)
           start  == [Plain EXCEPT !.sv = TRUE, !.swo = swo, !.rtsa = stamped, !.rtsp = good]
           end    == [start EXCEPT !.ev = TRUE, !.fd = fd, !.ebo = ebo]
           c      == WithData(IF left # <<>> \/ fits THEN end ELSE start, data)
<1>3. /\ ~(left # <<>> /\ fits)
      /\ left' = Drop(units, CHUNK - swo)
      /\ sent' = Append(base, frame)
      /\ Process(c, fs)
  BY <1>2, Zenon DEF StartData
<1>4. /\ frame \in Frames /\ frame.size = n /\ frame.stamped = stamped /\ frame.good = good
      /\ frame.dropped = (fits /\ fd)
  BY DEF Frames
<1>5. /\ c.dv = TRUE /\ c.sv = TRUE /\ c.swo = swo /\ c.rtsa = stamped /\ c.rtsp = good
      /\ c.data = data
      /\ left # <<>> \/ fits => c.ev = TRUE /\ c.ebo = ebo /\ c.fd = fd
      /\ ~(left # <<>> \/ fits) => c.ev = FALSE /\ c.ebo = 0
  <2> HIDE DEF data, ebo, fits, f, units
  <2>1. CASE left # <<>> \/ fits
    <3>1. c = WithData(end, data)
      BY <2>1, Zenon
    <3> QED BY <2>1, <3>1 DEF WithData, Plain
  <2>2. CASE ~(left # <<>> \/ fits)
    <3>1. c = WithData(start, data)
      BY <2>2, Zenon
    <3> QED BY <2>2, <3>1 DEF WithData, Plain
  <2> QED BY <2>1, <2>2
<1>6. /\ sent \in Seq(Frames) /\ f \in Nat /\ left \in Seq(Parts) /\ Len(left) \in Nat
      /\ CHUNK \in Nat /\ swo \in Nat /\ Len(left) <= swo /\ m \in 1..CHUNK /\ swo < CHUNK
      /\ (left # <<>> => sent # <<>>) /\ Types /\ Len(left) <= CHUNK
  <2>1. sent \in Seq(Frames) /\ left \in Seq(Parts) /\ CHUNK \in Nat /\ Types
        /\ (left # <<>> => sent # <<>>)
    BY RxAssumption DEF RxInv, LeftInv, Types, RxAssumption
  <2>2. Len(left) \in Nat /\ f \in Nat
    BY <2>1
  <2> QED BY <2>1, <2>2
<1> HIDE DEF c, frame, start, end
<1>7. base \in Seq(Frames) /\ Len(base) = f
  <2>1. CASE left # <<>>
    BY <1>6, <2>1, FateIs
  <2>2. CASE left = <<>>
    BY <1>6, <2>2
  <2> QED BY <2>1, <2>2
<1> HIDE DEF base
<1>8. /\ Started(frame, base, m, units, f + 1)
      /\ Len(sent') = f + 1 /\ f + 1 \in Nat
      /\ units \in Seq(UnitsOf(f + 1, frame.size))
      /\ Len(units) = Lead(frame.stamped) + frame.size
  <2>1. units = Units(frame.size, frame.stamped)
    BY <1>4
  <2>2. left' = Drop(units, m) /\ sent' = Append(base, frame)
    BY <1>3
  <2> DEFINE k == f + 1
  <2>3. k = Len(sent) + 1 /\ m \in 1..CHUNK /\ frame \in Frames /\ base \in Seq(Frames)
        /\ Len(base) = Len(sent) /\ Types /\ Len(sent) < FRAMES
    BY <1>1, <1>4, <1>6, <1>7
  <2> HIDE DEF m, units, k
  <2>4. Started(frame, base, m, units, k)
    BY <2>1, <2>2, <2>3, NextStarts
  <2> QED BY <2>3, <2>4, Zenon DEF k, Started
<1>9. /\ Len(units) \in Nat /\ units \in Seq(Parts) /\ frame.size \in Nat \ {0}
      /\ Lead(frame.stamped) \in Nat
  <2>1. frame.size \in Nat \ {0} /\ Lead(frame.stamped) \in Nat
    BY <1>4, FrameFields, Leads
  <2>2. units \in Seq(Parts)
    <3> HIDE DEF units
    <3> DEFINE k == f + 1
    <3>1. k \in Nat /\ frame.size \in Nat /\ units \in Seq(UnitsOf(k, frame.size))
      BY <1>8, <2>1
    <3> HIDE DEF k
    <3> QED BY <3>1, UnitTypes
  <2> QED BY <2>1, <2>2
<1>10. /\ Take(data, Len(left)) = left
       /\ Len(units) > m => Drop(data, swo) = Take(units, m)
       /\ Len(units) <= m => Drop(Take(data, swo + Len(units)), swo) = units
  <2> HIDE DEF units
  <2> QED BY <1>6, <1>9, StartLayout
<1>11. /\ left # <<>> => Ended = 1..f - 1
       /\ left = <<>> => Ended = 1..f
       /\ left' # <<>> => Ended' = 1..f
       /\ left' = <<>> => Ended' = 1..f + 1
  <2>1. (left # <<>> => Ended = 1..f - 1) /\ (left = <<>> => Ended = 1..f)
    BY <1>6, EndedIs
  <2>2. Len(sent') = f + 1 /\ (f + 1) - 1 = f
    BY <1>6, <1>8
  <2>3. (left' # <<>> => Ended' = 1..f) /\ (left' = <<>> => Ended' = 1..f + 1)
    BY <2>2 DEF Ended
  <2> QED BY <2>1, <2>3
<1> DEFINE k == f + 1
<1>12. /\ k \in Nat /\ k = Len(sent) + 1 /\ Started(frame, base, m, units, k) /\ f = Len(sent)
       /\ fits <=> Len(units) <= m
       /\ Len(units) <= m <=> ~(Len(units) > m)
  <2>1. Started(frame, base, m, units, k)
    BY <1>8
  <2>2. k \in Nat /\ k = Len(sent) + 1
    BY <1>6
  <2>3. Len(units) <= m <=> ~(Len(units) > m)
    <3> HIDE DEF units
    <3> QED BY <1>6, <1>9
  <2> QED BY <2>1, <2>2, <2>3
<1>13. /\ sent'[k] = frame /\ \A g \in 1..f : sent'[g] = base[g]
       /\ Len(units) <= m => left' = <<>>
       /\ Len(units) > m => left' # <<>>
  BY <1>12, Zenon DEF Started
<1>14. Rx \in Records /\ Rx.ts \in -1..f /\ Rx.given = given
  BY RxFields DEF RxInv, BufInv
<1>15. Stamped(Rx) /\ Before(Rx, k)
  BY GivenBefore
<1> HIDE DEF data, k, units
<1>16. CASE left # <<>>
  <2> DEFINE r1 == end_frame(Rx, c)
             fr == sent[f]
             kept == Carried(Rx, f, fr, Done(fr, left))
  <2>1. ~fits /\ Len(units) > m /\ left' # <<>>
    BY <1>3, <1>12, <1>13, <1>16
  <2>2. c.ev = TRUE /\ c.ebo = Len(left) /\ c.fd = fd
    BY <1>5, <1>16
  <2>3. receive(Rx, c) = start_frame(r1, c)
    <3>1. c.swo \in Nat /\ c.ebo \in Nat /\ c.swo >= c.ebo
      BY <1>5, <1>6, <2>2
    <3> QED BY <1>5, <2>2, <3>1, ChunkKinds DEF end_and_start
  <2>4. /\ fr \in Frames /\ Ends(r1, Rx, f, fr, fd, kept)
        /\ f \notin lost /\ fr.size \in MIN_LEN..BUF => kept
        /\ Stamped(r1) /\ Before(r1, k)
    <3>1. Take(c.data, c.ebo) = left /\ c.fd \in BOOLEAN /\ Len(left) <= CHUNK
      BY <1>5, <1>6, <1>10, <2>2
    <3>2. /\ fr \in Frames /\ Ends(r1, Rx, f, fr, c.fd, kept)
          /\ f \notin lost /\ fr.size \in MIN_LEN..BUF => kept
          /\ Stamped(r1) /\ Before(r1, k)
      BY <1>16, <3>1, LastEnds DEF k
    <3> QED BY <2>2, <3>2, Zenon
  <2> HIDE DEF kept
  <2>5. /\ f \in 1..f
        /\ \A g \in 1..f - 1 : sent'[g] = sent[g]
        /\ sent'[f].size = fr.size /\ sent'[f].stamped = fr.stamped
        /\ sent'[f].good = fr.good /\ sent'[f].dropped = fd
    <3>1. base = Fate(fd)
      BY <1>16 DEF base
    <3>2. /\ f \in 1..f
          /\ \A g \in 1..f - 1 : Fate(fd)[g] = sent[g]
          /\ Fate(fd)[f].size = fr.size /\ Fate(fd)[f].stamped = fr.stamped
          /\ Fate(fd)[f].good = fr.good /\ Fate(fd)[f].dropped = fd
      BY <1>6, <1>16, FateIs
    <3>3. \A g \in 1..f : sent'[g] = Fate(fd)[g]
      BY <1>13, <3>1
    <3>4. \A g \in 1..f - 1 : g \in 1..f
      BY <1>6
    <3> QED BY <3>2, <3>3, <3>4, Zenon
  <2>6. Ended = 1..f - 1 /\ Ended' = 1..f
    BY <1>11, <1>16, <2>1
  <2>7. /\ Ended' \ Ended = {f} /\ Ended \subseteq Ended'
        /\ \A g \in Ended : sent'[g] = sent[g]
    BY <1>6, <2>5, <2>6
  <2>8. Gives(r1.given)
    BY <2>4, <2>5, <2>7, EndsGives, Zenon
  <2>9. r1 \in Records
    BY <2>4, Zenon DEF Ends, Emptied
  <2> HIDE DEF r1, fr
  <2>10. Puts(start_frame(r1, c))
    <3>1. c.rtsa = frame.stamped /\ c.rtsp = frame.good /\ Drop(c.data, c.swo) = Take(units, m)
      BY <1>4, <1>5, <1>10, <2>1
    <3>2. m \in 1..CHUNK
      BY <1>6
    <3> HIDE DEF m
    <3> QED BY <1>4, <1>12, <2>1, <2>4, <2>8, <2>9, <3>1, <3>2, StartPuts
  <2>11. Moves(fs)
    <3>1. fs = {k, f} /\ fs \subseteq 1..k /\ k \in fs /\ Ended' \ Ended \subseteq fs
      BY <1>6, <1>16, <2>5, <2>7 DEF k
    <3> HIDE DEF fs, m
    <3> QED BY <1>6, <1>12, <2>7, <3>1, StartMoves
  <2> HIDE DEF fs
  <2> QED BY <1>3, <2>3, <2>10, <2>11, ProcessStep, Zenon
<1>17. ASSUME left = <<>>
       PROVE  base = sent /\ fs = {k} /\ fs \subseteq 1..k /\ k \in fs
  BY <1>6, <1>17 DEF base, k
<1>18. CASE left = <<>> /\ fits
  <2> DEFINE r == whole_frame(Rx, c)
  <2>1. Len(units) <= m /\ left' = <<>>
    BY <1>12, <1>13, <1>18
  <2>2. c.ev = TRUE /\ c.ebo = swo + Len(units) /\ c.fd = fd /\ frame.dropped = fd
    BY <1>4, <1>5, <1>18
  <2>3. receive(Rx, c) = r
    <3>1. c.swo \in Nat /\ c.ebo \in Nat /\ c.swo < c.ebo
      <4>1. c.swo = swo /\ swo \in Nat /\ Len(units) \in Nat /\ Len(units) > 0
        BY <1>5, <1>6, <1>8, <1>9
      <4>2. c.ebo = swo + Len(units)
        BY <2>2
      <4> QED BY <4>1, <4>2
    <3> QED BY <1>5, <2>2, <3>1, ChunkKinds
  <2>4. Ends(r, Rx, k, frame, fd, TRUE)
    <3>1. Drop(Take(c.data, c.ebo), c.swo) = units
      BY <1>5, <1>10, <2>1, <2>2
    <3>2. Len(units) <= CHUNK /\ Rx.ts \in -1..k
      BY <1>6, <1>9, <1>14, <2>1 DEF k
    <3>3. c.rtsa = frame.stamped /\ c.rtsp = frame.good /\ c.fd \in BOOLEAN
      BY <1>4, <1>5, <2>2
    <3>4. /\ units \in Seq(UnitsOf(k, frame.size)) /\ Len(units) = Lead(frame.stamped) + frame.size
          /\ \A i \in 1..Len(units) : units[i] = Unit(k, frame.size, frame.stamped, i)
      BY <1>12, Zenon DEF Started
    <3>5. Ends(whole_frame(Rx, c), Rx, k, frame, c.fd, TRUE)
      BY <1>4, <1>12, <1>14, <3>1, <3>2, <3>3, <3>4, WholeFrame
    <3> QED BY <2>2, <3>5, Zenon
  <2>5. Ended = 1..f /\ Ended' = 1..k
    BY <1>11, <1>18, <2>1 DEF k
  <2>6. /\ Ended' \ Ended = {k} /\ Ended \subseteq Ended'
        /\ \A g \in Ended : sent'[g] = sent[g]
    BY <1>6, <1>13, <1>17, <1>18, <2>5 DEF k
  <2>7. Stamped(r)
    <3>1. Drop(Take(c.data, c.ebo), c.swo) = units
      BY <1>5, <1>10, <2>1, <2>2
    <3>2. c.rtsa = frame.stamped /\ c.rtsp = frame.good
      BY <1>4, <1>5
    <3>3. units \in Seq(UnitsOf(k, frame.size))
      BY <1>12, Zenon DEF Started
    <3> QED BY <1>4, <1>12, <1>14, <1>15, <3>1, <3>2, <3>3, StartStamped
  <2> HIDE DEF r
  <2>8. Puts(r)
    <3>1. Gives(r.given)
      BY <1>13, <2>2, <2>4, <2>6, EndsGives, Zenon
    <3>2. r \in Records /\ r.ts \in -1..k /\ r.buf = <<>>
      BY <2>4, Zenon DEF Ends, Emptied
    <3>3. Len(sent') = k
      BY <1>12, Zenon DEF Started
    <3> QED BY <2>1, <2>7, <3>1, <3>2, <3>3, Zenon DEF Puts
  <2>9. Moves(fs)
    <3>1. fs = {k} /\ fs \subseteq 1..k /\ k \in fs /\ Ended' \ Ended \subseteq fs
      BY <1>17, <1>18, <2>6
    <3> HIDE DEF fs, m
    <3> QED BY <1>6, <1>12, <2>6, <3>1, StartMoves
  <2> HIDE DEF fs
  <2> QED BY <1>3, <2>3, <2>8, <2>9, ProcessStep, Zenon
<1>19. CASE left = <<>> /\ ~fits
  <2>1. Len(units) > m /\ left' # <<>>
    BY <1>12, <1>13, <1>19
  <2>2. receive(Rx, c) = start_frame(Rx, c)
    <3>1. c.ev = FALSE /\ c.swo \in Nat /\ c.ebo \in Nat
      BY <1>5, <1>6, <1>19
    <3> QED BY <1>5, <3>1, ChunkKinds
  <2>3. Ended = 1..f /\ Ended' = 1..f
    BY <1>11, <1>19, <2>1
  <2>4. /\ Ended' \ Ended = {} /\ Ended \subseteq Ended'
        /\ \A g \in Ended : sent'[g] = sent[g]
    BY <1>13, <1>17, <1>19, <2>3
  <2>5. Gives(Rx.given)
    BY <1>14, <2>4, Zenon DEF Gives
  <2>6. Puts(start_frame(Rx, c))
    <3>1. c.rtsa = frame.stamped /\ c.rtsp = frame.good /\ Drop(c.data, c.swo) = Take(units, m)
      BY <1>4, <1>5, <1>10, <2>1
    <3>2. m \in 1..CHUNK
      BY <1>6
    <3> HIDE DEF m
    <3> QED BY <1>4, <1>12, <1>14, <1>15, <2>1, <2>5, <3>1, <3>2, StartPuts
  <2>7. Moves(fs)
    <3>1. fs = {k} /\ fs \subseteq 1..k /\ k \in fs /\ Ended' \ Ended \subseteq fs
      BY <1>17, <1>19, <2>4
    <3> HIDE DEF fs, m
    <3> QED BY <1>6, <1>12, <2>4, <3>1, StartMoves
  <2> HIDE DEF fs
  <2> QED BY <1>3, <2>2, <2>6, <2>7, ProcessStep, Zenon
<1> QED BY <1>16, <1>18, <1>19, Zenon

\* The end of a transfer, and a step that changes nothing, keep the rest.
LEMMA IdleStep == RxInv /\ (NextTransfer \/ UNCHANGED vars) => RxInv'
<1> SUFFICES ASSUME RxInv, NextTransfer \/ UNCHANGED vars PROVE RxInv'
  OBVIOUS
<1>1. /\ sent' = sent /\ left' = left /\ errors' = errors /\ lost' = lost /\ given' = given
      /\ buf' = buf /\ ts' = ts /\ Rx' = Rx
      /\ lossy' = lossy \/ lossy' = FALSE
  BY DEF NextTransfer, vars, macVars, taskVars, Rx
<1>2. Types' /\ LeftInv' /\ CarriedInv' /\ Counted' /\ BufInv'
  <2>1. Types'
    BY <1>1 DEF RxInv, Types
  <2>2. LeftInv' /\ CarriedInv' /\ Counted'
    BY <1>1 DEF RxInv, LeftInv, CarriedInv, Counted, Done, LastUnits
  <2>3. lossy' => lossy
    BY <1>1
  <2>4. BufInv'
    BY <1>1, <2>3, Zenon DEF RxInv, BufInv
  <2> QED BY <2>1, <2>2, <2>4
<1>3. GivenInOrder'
  BY <1>1 DEF RxInv, GivenInOrder, Ended, Acceptable
<1>4. WholeFrameGiven'
  BY <1>1 DEF RxInv, WholeFrameGiven, Ended, Acceptable
<1>5. KeptStamp'
  BY <1>1 DEF RxInv, KeptStamp
<1>6. StampInv'
  BY <1>1, Zenon DEF RxInv, StampInv, Stamped
<1> QED BY <1>2, <1>3, <1>4, <1>5, <1>6 DEF RxInv

LEMMA RxInit == Init => RxInv
<1> SUFFICES ASSUME Init PROVE RxInv
  OBVIOUS
<1>1. /\ sent = <<>> /\ left = <<>> /\ lossy = FALSE /\ errors = 0 /\ lost = {}
      /\ buf = <<>> /\ ts_expect = FALSE /\ ts_good = FALSE /\ ts = 0 /\ given = <<>>
  BY DEF Init, None
<1>2. Types
  <2>1. <<>> \in Seq(Frames) /\ <<>> \in Seq(Parts) /\ Len(<<>>) <= FRAMES /\ 0 \in 0..ERRORS
    BY RxAssumption DEF RxAssumption
  <2>2. FALSE \in BOOLEAN /\ {} \subseteq 1..Len(<<>>)
    OBVIOUS
  <2> QED BY <1>1, <2>1, <2>2, Zenon DEF Types
<1>3. LeftInv /\ CarriedInv
  BY <1>1 DEF LeftInv, CarriedInv
<1>4. BufInv
  <2>1. Rx = [buf |-> <<>>, expect |-> FALSE, good |-> FALSE, ts |-> 0, given |-> <<>>]
    BY <1>1 DEF Rx
  <2>2. <<>> \in Seq(Parts) /\ <<>> \in Seq([frame : Nat, ts : Int])
    OBVIOUS
  <2>3. Rx \in Records
    BY <2>1, <2>2 DEF Records
  <2>4. ts \in -1..Len(sent)
    BY <1>1
  <2> QED BY <1>1, <2>3, <2>4, Zenon DEF BufInv
<1>5. Counted /\ GivenInOrder /\ KeptStamp
  BY <1>1 DEF Counted, GivenInOrder, KeptStamp
<1>6. WholeFrameGiven
  <2>1. Ended = {}
    BY <1>1 DEF Ended
  <2> QED BY <2>1 DEF WholeFrameGiven
<1>7. StampInv
  <2>1. Rx.given = <<>> /\ Rx.ts = None
    BY <1>1, RxFields DEF None
  <2> QED BY <2>1 DEF StampInv, Stamped
<1> QED BY <1>2, <1>3, <1>4, <1>5, <1>6, <1>7 DEF RxInv

LEMMA RxAlways == Spec => []RxInv
<1>1. RxInv /\ [Next]_vars => RxInv'
  BY EmptyStep, InsideStep, EndingStep, StartingStep, IdleStep, Zenon DEF Next
<1> QED BY <1>1, RxInit, PTL DEF Spec

\* The buffer never holds more than its size, and no more frames are given than
\* have been sent, each under the number of a frame sent.
THEOREM TypeCorrect == Spec => []TypeOK
<1>1. RxInv => TypeOK
  <2> SUFFICES ASSUME RxInv PROVE TypeOK
    OBVIOUS
  <2>1. /\ sent \in Seq(Frames) /\ Len(sent) \in Nat /\ Len(sent) <= FRAMES
        /\ errors \in 0..ERRORS /\ lost \subseteq 1..Len(sent) /\ lossy \in BOOLEAN
    BY DEF RxInv, Types
  <2>2. /\ ts_expect \in BOOLEAN /\ ts_good \in BOOLEAN /\ given \in Seq(GivenTypes)
        /\ ts \in -1..Len(sent)
    BY RxFields DEF RxInv, BufInv
  <2>3. Len(buf) <= BUF
    <3>1. CASE left = <<>>
      <4>1. buf = <<>>
        BY <3>1 DEF RxInv, BufInv
      <4> QED BY <4>1, RxAssumption DEF RxAssumption
    <3>2. CASE left # <<>>
      <4>1. Len(Rx.buf) <= BUF
        BY <3>2, Zenon DEF RxInv, BufInv, Holding
      <4> QED BY <4>1, RxFields
    <3> QED BY <3>1, <3>2
  <2>4. Len(given) <= Len(sent)
    <3>1. Len(given) \in Nat
      BY <2>2
    <3>2. CASE Len(given) = 0
      BY <2>1, <3>2
    <3>3. CASE Len(given) # 0
      <4>1. Len(given) \in 1..Len(given)
        BY <3>1, <3>3
      <4>2. Len(given) <= given[Len(given)].frame /\ given[Len(given)].frame \in Ended
        BY <4>1 DEF RxInv, Counted, GivenInOrder
      <4>3. PICK e \in Int : e <= Len(sent) /\ Ended = 1..e
        BY <2>1, EndedIs
      <4> QED BY <2>1, <3>1, <4>2, <4>3
    <3> QED BY <3>2, <3>3
  <2>5. ts \in {None, Wrong} \cup 1..Len(sent)
    BY <2>1, <2>2 DEF None, Wrong
  <2> QED BY <2>1, <2>2, <2>3, <2>4, <2>5 DEF TypeOK
<1> QED BY <1>1, RxAlways, PTL

\* The callbacks are given whole frames that have ended, each at most once and in
\* the order they were sent, and none that MACPHY dropped or that is too short
\* or too long, whatever chunks before or inside them are lost.
THEOREM GivenCorrect == Spec => []GivenInOrder
<1>1. RxInv => GivenInOrder
  BY DEF RxInv
<1> QED BY <1>1, RxAlways, PTL

\* A frame that may be given and has lost no chunk of its own is given, with its
\* own timestamp if that is good and with none if it is not.
THEOREM WholeFrameCorrect == Spec => []WholeFrameGiven
<1>1. RxInv => WholeFrameGiven
  BY DEF RxInv
<1> QED BY <1>1, RxAlways, PTL

\* Whatever errors leave of frames dropped, a time the MACPHY sent is given with its
\* frame or a later one, and all of them given after it are later.  A time
\* read from the data of a frame, which errors can lead to as well, has no order.
THEOREM StampsCorrect == Spec => []StampsInOrder
<1>1. RxInv => StampsInOrder
  <2> SUFFICES ASSUME RxInv PROVE StampsInOrder
    OBVIOUS
  <2>1. Rx.given = given /\ Stamped(Rx)
    BY RxFields DEF RxInv, StampInv
  <2> QED BY <2>1, Zenon DEF Stamped, StampsInOrder
<1> QED BY <1>1, RxAlways, PTL

\* Chunks are lost only in a transfer that had an error.
Lossless == errors = 0 => ~lossy /\ lost = {}

LEMMA LosslessStep ==
  ASSUME errors \in Nat, Lossless, [Next]_vars
  PROVE  Lossless'
<1>1. ASSUME NEW c, NEW fs, Process(c, fs) PROVE Lossless'
  BY <1>1 DEF Process, Lossless
<1>2. CASE NextTransfer \/ UNCHANGED vars
  BY <1>2 DEF NextTransfer, vars, Lossless
<1>3. CASE ChunkEmpty \/ ChunkInside
  BY <1>1, <1>3 DEF ChunkEmpty, ChunkInside
<1>4. CASE ChunkEnding
  BY <1>1, <1>4 DEF ChunkEnding
<1>5. CASE ChunkStarting
  BY <1>1, <1>5 DEF ChunkStarting
<1> QED BY <1>2, <1>3, <1>4, <1>5 DEF Next

\* Where no chunk is in error a frame is never given with the timestamp of
\* another: only handle_error, which leaves rx_.pkt->timestamp as it is while the
\* start of the next frame is lost, can break this (oaspi_rx_timestamp).
THEOREM TimestampCorrect == ASSUME ERRORS = 0 PROVE Spec => []OwnTimestamp
<1>1. RxInv /\ Lossless => OwnTimestamp
  <2> SUFFICES ASSUME RxInv, Lossless PROVE OwnTimestamp
    OBVIOUS
  <2>1. errors = 0
    BY DEF RxInv, Types
  <2> QED BY <2>1 DEF Lossless, RxInv, KeptStamp, OwnTimestamp
<1>2. Init => Lossless
  BY DEF Init, Lossless
<1>3. RxInv /\ Lossless /\ [Next]_vars => Lossless'
  <2>1. RxInv => errors \in Nat
    BY DEF RxInv, Types
  <2> QED BY <2>1, LosslessStep
<1> QED BY <1>1, <1>2, <1>3, RxAlways, PTL DEF Spec

=============================================================================
