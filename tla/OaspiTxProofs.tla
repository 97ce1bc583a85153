----------------------------- MODULE OaspiTxProofs -----------------------------
(***************************************************************************)
(* Proofs about OaspiTx: every frame the MACPHY completes is one whole     *)
(* packet, in order, whatever is damaged or reset; on an intact bus the    *)
(* credits keep its buffer from overrunning; and while it is not reset     *)
(* either, no packet is lost.                                              *)
(***************************************************************************)
EXTENDS OaspiTx, QueueLemmas

Parts == Nat \X Nat
Chunks == {Empty} \cup [dv : {TRUE}, sv : BOOLEAN, ev : BOOLEAN, part : Parts]
Footers == [sync : BOOLEAN, exst : BOOLEAN, hdrb : BOOLEAN, damaged : BOOLEAN,
            txc : 0..BUFFER]

\* The first n chunks of packet p, and its chunk k as it goes over the bus.
Prefix(p, n) == [i \in 1..n |-> <<p, i>>]
Data(k) == [dv |-> TRUE, sv |-> k = 1, ev |-> k = size[pulled], part |-> <<pulled, k>>]

-----------------------------------------------------------------------------
(* The inductive invariant *)

Types ==
  /\ pulled \in 0..PACKETS /\ size \in Seq(1..PKT_CHUNKS) /\ Len(size) = pulled
  /\ pkt \in BOOLEAN /\ start \in BOOLEAN /\ init_good \in BOOLEAN
  /\ sync \in BOOLEAN /\ overrun \in BOOLEAN
  /\ idx \in 0..PKT_CHUNKS - 1 /\ free \in 0..BUFFER /\ used \in 0..BUFFER
  /\ out \in Seq(Chunks) /\ footers \in Seq(Footers)
  /\ frame \in Seq(Parts) /\ wire \in Seq(Seq(Parts))
  /\ errors \in Nat /\ resets \in Nat

\* A transfer and its footers exist only while the task is in them.
PcInv ==
  /\ pc \in {"loop", "xfer", "rx"}
  /\ pc # "xfer" => out = <<>>
  /\ pc = "loop" => footers = <<>>
  /\ pc = "xfer" => Len(out) + Len(footers) >= 1
  /\ Len(out) + Len(footers) <= MAX_CHUNKS
  /\ pkt => pulled > 0 /\ idx < size[pulled] /\ (start <=> idx = 0)

\* What the MACPHY is collecting is the beginning of a packet that is younger
\* than all it has completed; it collects nothing before it is configured.
FrameInv ==
  /\ ~sync => frame = <<>>
  /\ frame # <<>> =>
       \E p \in 1..pulled :
         /\ Len(frame) < size[p] /\ frame = Prefix(p, Len(frame))
         /\ \A f \in 1..Len(wire) : wire[f][1][1] < p
  /\ \A f \in 1..Len(wire) : wire[f][1][1] \in 1..pulled

\* The transfer under way holds the next d chunks of the last packet, of which
\* b went before; a frame that could be continued by them has just these b.
BusInv(b, d) ==
  /\ \A i \in 1..Len(out) : out[i] = IF i <= d THEN Data(b + i) ELSE Empty
  /\ d > 0 => pulled > 0 /\ b + d <= size[pulled]
  /\ pkt => b + d = idx
  /\ pkt \/ d > 0 =>
       /\ frame # <<>> /\ b > 0 => frame = Prefix(pulled, b)
       /\ \A f \in 1..Len(wire) : wire[f][1][1] < pulled

FramesInv ==
  /\ Types /\ PcInv /\ FrameInv /\ WholeFramesInOrder
  /\ \E b \in Nat : \E d \in 0..Len(out) : BusInv(b, d)

\* While nothing was damaged on the bus the data on its way and the credits fit
\* the room that is left, as long as the MACPHY keeps its configuration.
Credited ==
  /\ ~overrun
  /\ \A i \in 1..Len(footers) : ~footers[i].hdrb /\ ~footers[i].damaged
  /\ sync =>
       /\ \A i \in 1..Len(out) : out[i].dv => used + i <= BUFFER
       /\ footers # <<>> => footers[Len(footers)].txc + used <= BUFFER
       /\ pc # "xfer" /\ footers = <<>> /\ init_good => free + used <= BUFFER

CreditInv == errors = 0 => Credited

-----------------------------------------------------------------------------
(* Types and places *)

LEMMA EmptyApart == Empty.dv = FALSE /\ \A k : Data(k).dv = TRUE /\ Data(k) # Empty
<1>1. Empty.dv = FALSE
  BY DEF Empty
<1>2. ASSUME NEW k PROVE Data(k).dv = TRUE
  BY DEF Data
<1> QED BY <1>1, <1>2

\* What Fill computes: how much data the transfer carries.
LEMMA FillBounds ==
  ASSUME FramesInv, pc = "loop", NEW r \in rx_chunks
  PROVE  LET n == num_chunks(r)
             sent == Min2(n, tx_chunks)
         IN /\ n \in 1..MAX_CHUNKS
            /\ sent \in 0..n /\ sent <= free /\ sent <= tx_prefer
            /\ ~pkt => sent = 0
            /\ tx_prefer \in Nat /\ (pkt => tx_prefer = size[pulled] - idx /\ tx_prefer > 0)
<1> USE TxAssumption DEF TxAssumption
<1>1. /\ tx_prefer \in Nat
      /\ pkt => tx_prefer = size[pulled] - idx /\ tx_prefer > 0
      /\ ~pkt => tx_prefer = 0
  BY DEF tx_prefer, FramesInv, Types, PcInv
<1>2. tx_chunks \in Nat /\ tx_chunks <= free /\ tx_chunks <= tx_prefer
  BY <1>1 DEF tx_chunks, Min2, FramesInv, Types
<1>3. r \in Nat
  BY DEF rx_chunks
<1>4. num_chunks(r) \in 1..MAX_CHUNKS
  BY <1>2, <1>3 DEF num_chunks, Min2, Max2
<1>5. \A n \in 1..MAX_CHUNKS :
        Min2(n, tx_chunks) \in 0..n /\ Min2(n, tx_chunks) <= tx_chunks
  BY <1>2 DEF Min2
<1>6. free \in Nat
  BY DEF FramesInv, Types
<1>7. Min2(num_chunks(r), tx_chunks) \in 0..num_chunks(r)
      /\ Min2(num_chunks(r), tx_chunks) <= tx_chunks
  BY <1>4, <1>5
<1>8. /\ Min2(num_chunks(r), tx_chunks) <= free
      /\ Min2(num_chunks(r), tx_chunks) <= tx_prefer
      /\ ~pkt => Min2(num_chunks(r), tx_chunks) = 0
  BY <1>1, <1>2, <1>4, <1>6, <1>7
<1> QED BY <1>1, <1>4, <1>7, <1>8

LEMMA FillTypes ==
  ASSUME FramesInv, Fill PROVE Types' /\ PcInv'
<1> USE TxAssumption DEF TxAssumption
<1>1. PICK r \in rx_chunks :
        LET n == num_chunks(r)
            sent == Min2(n, tx_chunks)
            done == pkt /\ sent = tx_prefer
        IN /\ out' = [i \in 1..n |-> IF i <= sent THEN Chunk(i) ELSE Empty]
           /\ idx' = IF done THEN 0 ELSE idx + sent
           /\ start' = (start /\ sent = 0)
           /\ free' = free - sent
           /\ pkt' = (pkt /\ ~done)
  BY DEF Fill
<1> DEFINE n == num_chunks(r)
           sent == Min2(n, tx_chunks)
<1>2. /\ n \in 1..MAX_CHUNKS
      /\ sent \in 0..n /\ sent <= free /\ sent <= tx_prefer
      /\ ~pkt => sent = 0
      /\ tx_prefer \in Nat /\ (pkt => tx_prefer = size[pulled] - idx /\ tx_prefer > 0)
  BY FillBounds DEF Fill
<1>3. ASSUME NEW i \in 1..n, i <= sent PROVE Chunk(i) \in Chunks
  <2>1. pkt /\ pulled \in Nat /\ idx + i \in Nat
    BY <1>2, <1>3 DEF FramesInv, Types
  <2> QED BY <2>1 DEF Chunk, Chunks, Parts, FramesInv, Types
<1> HIDE DEF n, sent
<1>4. out' \in Seq(Chunks) /\ Len(out') = n
  <2>1. out' = [i \in 1..n |-> IF i <= sent THEN Chunk(i) ELSE Empty]
    BY <1>1 DEF n, sent
  <2>2. \A i \in 1..n : (IF i <= sent THEN Chunk(i) ELSE Empty) \in Chunks
    BY <1>3 DEF Chunks
  <2> QED BY <2>1, <2>2, <1>2
<1>5. /\ idx' = IF pkt /\ sent = tx_prefer THEN 0 ELSE idx + sent
      /\ start' = (start /\ sent = 0)
      /\ free' = free - sent
      /\ pkt' = (pkt /\ ~(pkt /\ sent = tx_prefer))
      /\ pc' = "xfer" /\ UNCHANGED <<pulled, size, init_good, footers, macVars>>
      /\ pc = "loop"
  BY <1>1 DEF n, sent, Fill
<1>6. Types'
  <2>1. free' \in 0..BUFFER /\ idx' \in 0..PKT_CHUNKS - 1
    BY <1>2, <1>5 DEF FramesInv, Types, PcInv
  <2>2. start' \in BOOLEAN /\ pkt' \in BOOLEAN
    BY <1>5
  <2> QED BY <2>1, <2>2, <1>4, <1>5 DEF FramesInv, Types, macVars
<1>7. PcInv'
  <2>1. footers' = <<>> /\ Len(out') + Len(footers') \in 1..MAX_CHUNKS
    <3>1. footers' = <<>>
      BY <1>5 DEF FramesInv, PcInv
    <3> QED BY <1>2, <1>4, <3>1
  <2>2. ASSUME pkt' PROVE pulled > 0 /\ idx' < size[pulled] /\ (start' <=> idx' = 0)
    <3>1. pkt /\ sent < tx_prefer /\ idx' = idx + sent
      <4>1. pkt /\ sent # tx_prefer /\ idx' = idx + sent
        BY <1>5, <2>2, Zenon
      <4>2. sent \in Nat /\ sent <= tx_prefer /\ tx_prefer \in Nat
        BY <1>2
      <4> QED BY <4>1, <4>2
    <3>2. (start' <=> start /\ sent = 0) /\ (start <=> idx = 0) /\ pulled > 0
      BY <1>5, <3>1 DEF FramesInv, PcInv
    <3>3. tx_prefer = size[pulled] - idx /\ sent \in Nat /\ idx \in Nat
          /\ size[pulled] \in Nat
      BY <1>2, <3>1, <3>2 DEF FramesInv, Types
    <3> QED BY <3>1, <3>2, <3>3
  <2> QED BY <1>5, <2>1, <2>2 DEF PcInv
<1> QED BY <1>6, <1>7

-----------------------------------------------------------------------------
(* One chunk over the bus *)

\* A packet's next chunk continues its beginning.
LEMMA PrefixAppend ==
  ASSUME NEW p \in Nat, NEW b \in Nat
  PROVE  /\ Append(Prefix(p, b), <<p, b + 1>>) = Prefix(p, b + 1)
         /\ Prefix(p, b) \in Seq(Parts) /\ Len(Prefix(p, b)) = b
         /\ Prefix(p, 0) = <<>>
         /\ b > 0 => Prefix(p, b)[1][1] = p
<1>1. \A n \in Nat : Prefix(p, n) \in Seq(Parts) /\ Len(Prefix(p, n)) = n
  BY DEF Prefix, Parts
<1>2. <<p, b + 1>> \in Parts
  BY DEF Parts
<1>3. Append(Prefix(p, b), <<p, b + 1>>) = Prefix(p, b + 1)
  <2> DEFINE s == Append(Prefix(p, b), <<p, b + 1>>)
  <2>1. s \in Seq(Parts) /\ Len(s) = b + 1
    BY <1>1, <1>2
  <2>2. \A i \in 1..(b + 1) : s[i] = Prefix(p, b + 1)[i]
    <3> TAKE i \in 1..(b + 1)
    <3>0. i <= b \/ i = b + 1
      OBVIOUS
    <3>1. CASE i <= b
      <4>1. s[i] = Prefix(p, b)[i]
        BY <1>1, <1>2, <3>1
      <4> QED BY <3>1, <4>1 DEF Prefix
    <3>2. CASE i = b + 1
      <4>1. s[i] = <<p, b + 1>>
        BY <1>1, <1>2, <3>2
      <4> QED BY <3>2, <4>1 DEF Prefix
    <3> HIDE DEF s
    <3> QED BY <3>0, <3>1, <3>2
  <2>3. Prefix(p, b + 1) \in Seq(Parts) /\ Len(Prefix(p, b + 1)) = b + 1
    BY <1>1
  <2> HIDE DEF s
  <2>4. s = Prefix(p, b + 1)
    BY <2>1, <2>2, <2>3
  <2> QED BY <2>4 DEF s
<1>4. Prefix(p, 0) = <<>>
  BY <1>1
<1>5. b > 0 => Prefix(p, b)[1][1] = p
  BY DEF Prefix
<1> QED BY <1>1, <1>3, <1>4, <1>5

\* What the MACPHY has after a chunk: nothing new, no frame, or one chunk more
\* of the packet under way.
Continues(b, d) ==
  /\ d > 0 /\ sync /\ used < BUFFER /\ used' = used + 1 /\ overrun' = overrun
  /\ b + 1 = size[pulled] => frame' = <<>> /\ wire' = Append(wire, Prefix(pulled, b + 1))
  /\ b + 1 # size[pulled] => frame' = Prefix(pulled, b + 1) /\ wire' = wire

LEMMA ExchangeCases ==
  ASSUME FramesInv, Exchange, NEW b \in Nat, NEW d \in 0..Len(out), BusInv(b, d)
  PROVE  \/ UNCHANGED <<used, frame, overrun, wire>> /\ (d = 0 \/ frame = <<>>)
         \/ /\ frame' = <<>> /\ UNCHANGED <<used, wire>>
            /\ overrun' # overrun => overrun' = TRUE /\ d > 0 /\ sync /\ used = BUFFER
         \/ Continues(b, d)
<1>1. out # <<>> /\ Head(out) = out[1] /\ 1 \in 1..Len(out)
  BY DEF Exchange, FramesInv, Types
<1>2. /\ d = 0 => Head(out) = Empty
      /\ d > 0 => Head(out) = Data(b + 1)
  BY <1>1 DEF BusInv
<1>3. pulled \in Nat /\ used \in 0..BUFFER /\ frame \in Seq(Parts)
  BY TxAssumption DEF TxAssumption, FramesInv, Types
<1>4. CASE ~sync
  BY <1>4 DEF Exchange, Ignore, FramesInv, FrameInv
<1>5. CASE frame' = <<>> /\ UNCHANGED <<used, overrun, wire>>
  BY <1>5
<1>6. CASE sync /\ Collect(Head(out)) /\ d = 0
  BY <1>2, <1>6 DEF Collect, Empty, Ignore
<1>7. CASE sync /\ Collect(Head(out)) /\ d > 0
  <2>1. Collect(Data(b + 1))
    BY <1>2, <1>7
  <2> DEFINE c == Data(b + 1)
             old == IF c.sv THEN <<>> ELSE frame
             f == Append(old, c.part)
  <2>2. /\ c.sv <=> b = 0
        /\ c.ev <=> b + 1 = size[pulled]
        /\ c.part = <<pulled, b + 1>> /\ c.dv
    <3>1. /\ c.sv = (b + 1 = 1)
          /\ c.ev = (b + 1 = size[pulled])
          /\ c.part = <<pulled, b + 1>> /\ c.dv
      BY Zenon DEF Data
    <3>2. b + 1 = 1 <=> b = 0
      OBVIOUS
    <3> QED BY <3>1, <3>2, Zenon
  <2>3. /\ ~c.sv /\ frame = <<>> => Ignore
        /\ c.sv \/ frame # <<>> =>
             IF used = BUFFER
               THEN overrun' = TRUE /\ frame' = <<>> /\ UNCHANGED <<used, wire>>
               ELSE /\ used' = used + 1 /\ UNCHANGED overrun
                    /\ frame' = IF c.ev THEN <<>> ELSE f
                    /\ wire' = IF c.ev THEN Append(wire, f) ELSE wire
    <3>1. c.dv
      BY DEF Data
    <3> HIDE DEF c
    <3>2. Collect(c)
      BY <2>1 DEF c
    <3> QED BY <3>1, <3>2, Zenon DEF Collect
  <2>4. CASE ~c.sv /\ frame = <<>>
    BY <2>3, <2>4 DEF Ignore
  <2>5. CASE c.sv \/ frame # <<>>
    <3> HIDE DEF c
    <3>1. old = Prefix(pulled, b)
      <4>1. b > 0 /\ frame # <<>> => frame = Prefix(pulled, b)
        BY <1>7 DEF BusInv
      <4>2. Prefix(pulled, 0) = <<>>
        BY <1>3, PrefixAppend
      <4> QED BY <2>2, <2>5, <4>1, <4>2
    <3>2. f = Prefix(pulled, b + 1)
      <4>1. Append(Prefix(pulled, b), <<pulled, b + 1>>) = Prefix(pulled, b + 1)
        BY <1>3, PrefixAppend
      <4> HIDE DEF old
      <4> QED BY <2>2, <3>1, <4>1, Zenon
    <3> HIDE DEF f, old
    <3>3. CASE used = BUFFER
      BY <1>7, <2>3, <2>5, <3>3
    <3>4. CASE used # BUFFER
      <4>1. used < BUFFER
        BY <1>3, <3>4, TxAssumption DEF TxAssumption
      <4> QED BY <1>7, <2>2, <2>3, <2>5, <3>2, <3>4, <4>1, Zenon DEF Continues
    <3> QED BY <3>3, <3>4
  <2> QED BY <2>4, <2>5
<1>8. \/ ~sync
      \/ sync /\ Collect(Head(out))
      \/ frame' = <<>> /\ UNCHANGED <<used, overrun, wire>>
  <2>1. PICK hdrb \in BOOLEAN : \E damaged \in BOOLEAN :
          IF ~sync THEN Ignore
          ELSE IF hdrb THEN frame' = <<>> /\ UNCHANGED <<used, overrun, wire>>
          ELSE Collect(Head(out))
    BY Zenon DEF Exchange
  <2>2. CASE sync /\ hdrb
    BY <2>1, <2>2
  <2>3. CASE sync /\ ~hdrb
    BY <2>1, <2>3
  <2> QED BY <2>2, <2>3, Zenon
<1>9. d = 0 \/ d > 0
  OBVIOUS
<1> QED BY <1>4, <1>5, <1>6, <1>7, <1>8, <1>9
\* The rest of the exchange: one chunk less to send, one footer more to read.
LEMMA ExchangeRest ==
  ASSUME FramesInv, Exchange
  PROVE  /\ out # <<>> /\ pc = "xfer" /\ pc' = "xfer"
         /\ out' = Tail(out) /\ out' \in Seq(Chunks) /\ Len(out') = Len(out) - 1
         /\ \A i \in 1..Len(out') : out'[i] = out[i + 1]
         /\ \E hdrb, damaged \in BOOLEAN :
              /\ errors' = errors + (IF hdrb THEN 1 ELSE 0) + (IF damaged THEN 1 ELSE 0)
              /\ errors' <= BIT_ERRORS /\ errors' \in Nat
              /\ footers' = Append(footers, [sync |-> sync, exst |-> overrun', hdrb |-> hdrb,
                                             damaged |-> damaged, txc |-> BUFFER - used'])
         /\ UNCHANGED <<taskVars, sync, resets>>
<1>1. out # <<>> /\ pc = "xfer" /\ pc' = "xfer" /\ out' = Tail(out)
      /\ UNCHANGED <<taskVars, sync, resets>>
  BY DEF Exchange
<1>2. PICK hdrb \in BOOLEAN, damaged \in BOOLEAN :
        /\ errors' = errors + (IF hdrb THEN 1 ELSE 0) + (IF damaged THEN 1 ELSE 0)
        /\ errors' <= BIT_ERRORS
        /\ footers' = Append(footers, [sync |-> sync, exst |-> overrun', hdrb |-> hdrb,
                                       damaged |-> damaged, txc |-> BUFFER - used'])
  BY Zenon DEF Exchange
<1>3. errors' \in Nat
  BY <1>2 DEF FramesInv, Types
<1>4. out' \in Seq(Chunks) /\ Len(out') = Len(out) - 1
      /\ \A i \in 1..Len(out') : out'[i] = out[i + 1]
  BY <1>1 DEF FramesInv, Types
<1> QED BY <1>1, <1>2, <1>3, <1>4, Zenon

LEMMA ExchangeTypes ==
  ASSUME FramesInv, Exchange PROVE Types' /\ PcInv'
<1> USE TxAssumption DEF TxAssumption
<1>1. PICK b \in Nat : \E d \in 0..Len(out) : BusInv(b, d)
  BY DEF FramesInv
<1>2. PICK d \in 0..Len(out) : BusInv(b, d)
  BY <1>1
<1>3. /\ used' \in 0..BUFFER /\ frame' \in Seq(Parts) /\ wire' \in Seq(Seq(Parts))
      /\ overrun' \in BOOLEAN
  <2>1. Prefix(pulled, b + 1) \in Seq(Parts)
    <3>1. pulled \in Nat /\ b + 1 \in Nat
      BY DEF FramesInv, Types
    <3> QED BY <3>1, PrefixAppend
  <2>2. CASE UNCHANGED <<used, frame, overrun, wire>>
    BY <2>2 DEF FramesInv, Types
  <2>3. CASE frame' = <<>> /\ UNCHANGED <<used, wire>> /\ (overrun' # overrun => overrun' = TRUE)
    <3>1. overrun' \in BOOLEAN
      BY <2>3 DEF FramesInv, Types
    <3> QED BY <2>3, <3>1 DEF FramesInv, Types
  <2>4. CASE Continues(b, d)
    <3>1. wire \in Seq(Seq(Parts)) /\ Append(wire, Prefix(pulled, b + 1)) \in Seq(Seq(Parts))
      BY <2>1, AppendQueue DEF FramesInv, Types
    <3>2. frame' \in Seq(Parts) /\ wire' \in Seq(Seq(Parts))
      <4>1. CASE b + 1 = size[pulled]
        <5>1. <<>> \in Seq(Parts)
          OBVIOUS
        <5> QED BY <2>4, <3>1, <4>1, <5>1, Zenon DEF Continues
      <4>2. CASE b + 1 # size[pulled]
        BY <2>1, <2>4, <3>1, <4>2 DEF Continues
      <4> QED BY <4>1, <4>2
    <3> QED BY <2>4, <3>2 DEF Continues, FramesInv, Types
  <2> QED BY <1>2, <2>2, <2>3, <2>4, ExchangeCases
<1>4. /\ footers' \in Seq(Footers) /\ Len(footers') = Len(footers) + 1
      /\ errors' \in Nat
  <2>1. PICK hdrb \in BOOLEAN, damaged \in BOOLEAN :
          /\ errors' \in Nat
          /\ footers' = Append(footers, [sync |-> sync, exst |-> overrun', hdrb |-> hdrb,
                                         damaged |-> damaged, txc |-> BUFFER - used'])
    BY ExchangeRest
  <2>0. BUFFER - used' \in 0..BUFFER
    <3>1. \A x \in 0..BUFFER : BUFFER - x \in 0..BUFFER
      OBVIOUS
    <3> QED BY <1>3, <3>1, Zenon
  <2> DEFINE f == [sync |-> sync, exst |-> overrun', hdrb |-> hdrb,
                   damaged |-> damaged, txc |-> BUFFER - used']
  <2>2. f \in Footers
    <3>1. sync \in BOOLEAN
      BY DEF FramesInv, Types
    <3> QED BY <1>3, <2>0, <3>1, Zenon DEF Footers
  <2> HIDE DEF f
  <2>3. footers' = Append(footers, f)
    BY <2>1 DEF f
  <2> QED BY <2>1, <2>2, <2>3 DEF FramesInv, Types
<1>5. /\ pc = "xfer" /\ pc' = "xfer" /\ out' \in Seq(Chunks) /\ Len(out') = Len(out) - 1
      /\ UNCHANGED <<taskVars, sync, resets>>
  BY ExchangeRest
<1>6. Types'
  <2>1. Types
    BY DEF FramesInv
  <2> QED BY <1>3, <1>4, <1>5, <2>1, Zenon DEF Types, taskVars
<1>7. PcInv'
  <2>1. Len(out) \in Nat /\ Len(footers) \in Nat
    BY DEF FramesInv, Types
  <2>2. Len(out') + Len(footers') = Len(out) + Len(footers)
    BY <1>4, <1>5, <2>1
  <2>3. PcInv
    BY DEF FramesInv
  <2>4. pkt' => pulled' > 0 /\ idx' < size'[pulled'] /\ (start' <=> idx' = 0)
    BY <1>5, <2>3, Zenon DEF PcInv, taskVars
  <2>5. Len(out) + Len(footers) >= 1 /\ Len(out) + Len(footers) <= MAX_CHUNKS
    BY <1>5, <2>3 DEF PcInv
  <2>6. /\ pc' \in {"loop", "xfer", "rx"}
        /\ pc' # "xfer" => out' = <<>>
        /\ pc' = "loop" => footers' = <<>>
    BY <1>5
  <2>7. Len(out') + Len(footers') >= 1 /\ Len(out') + Len(footers') <= MAX_CHUNKS
    BY <2>2, <2>5, Zenon
  <2> QED BY <2>4, <2>6, <2>7, Zenon DEF PcInv
<1> QED BY <1>6, <1>7

-----------------------------------------------------------------------------
(* Types and places under every step *)

LEMMA PullTypes ==
  ASSUME FramesInv, Pull PROVE Types' /\ PcInv'
<1> USE TxAssumption DEF TxAssumption
<1>1. PICK n \in 1..PKT_CHUNKS : size' = Append(size, n)
  BY DEF Pull, pull_next
<1>2. /\ size' \in Seq(1..PKT_CHUNKS) /\ Len(size') = pulled + 1 /\ size'[pulled + 1] = n
  BY <1>1 DEF FramesInv, Types
<1>3. /\ pulled' = pulled + 1 /\ pulled < PACKETS /\ pkt' = TRUE /\ idx' = 0 /\ start' = TRUE
      /\ UNCHANGED <<free, init_good, pc, out, footers, macVars>> /\ pc = "loop"
  BY DEF Pull, pull_next
<1>4. Types'
  BY <1>2, <1>3 DEF FramesInv, Types, macVars
<1>5. PcInv'
  BY <1>2, <1>3 DEF FramesInv, Types, PcInv
<1> QED BY <1>4, <1>5

\* What a footer may do to the task.
LEMMA FooterCases ==
  ASSUME FramesInv, ProcessFooter
  PROVE  /\ footers # <<>> /\ Head(footers) \in Footers /\ Head(footers) = footers[1] /\ pc = "rx"
         /\ UNCHANGED <<pulled, size, idx, start, pc, out, macVars>>
         /\ \/ /\ Head(footers).damaged /\ pkt' = FALSE
               /\ UNCHANGED <<free, init_good>> /\ footers' = <<>>
            \/ init_good' = FALSE /\ free' = 1 /\ pkt' = pkt /\ footers' = <<>>
            \/ /\ Head(footers).hdrb /\ pkt' = FALSE
               /\ UNCHANGED <<free, init_good>> /\ footers' = <<>>
            \/ /\ free' = Head(footers).txc /\ footers' = Tail(footers)
               /\ UNCHANGED <<pkt, init_good>> /\ Head(footers).sync
  BY DEF ProcessFooter, Footer, handle_error, handle_reset, FramesInv, Types

LEMMA FooterTypes ==
  ASSUME FramesInv, ProcessFooter PROVE Types' /\ PcInv'
<1> USE TxAssumption DEF TxAssumption
<1>1. /\ footers' \in Seq(Footers) /\ Len(footers') <= Len(footers)
      /\ free' \in 0..BUFFER /\ init_good' \in BOOLEAN /\ pkt' \in BOOLEAN
      /\ pkt' => pkt
      /\ UNCHANGED <<pulled, size, idx, start, pc, out, macVars>> /\ pc = "rx"
  <2>1. Head(footers).txc \in 0..BUFFER
    BY FooterCases, Zenon DEF Footers
  <2>2. footers \in Seq(Footers) /\ footers # <<>>
    BY FooterCases DEF FramesInv, Types
  <2>3. /\ Tail(footers) \in Seq(Footers) /\ Len(Tail(footers)) <= Len(footers)
        /\ <<>> \in Seq(Footers) /\ Len(<<>>) <= Len(footers)
    BY <2>2
  <2>4. free \in 0..BUFFER /\ 1 \in 0..BUFFER /\ init_good \in BOOLEAN /\ pkt \in BOOLEAN
    BY DEF FramesInv, Types
  <2>5. footers' \in Seq(Footers) /\ Len(footers') <= Len(footers)
    BY <2>3, FooterCases, Zenon
  <2>6. free' \in 0..BUFFER
    BY <2>1, <2>4, FooterCases, Zenon
  <2>7. init_good' \in BOOLEAN
    BY <2>4, FooterCases, Zenon
  <2>8. pkt' \in BOOLEAN /\ (pkt' => pkt)
    <3>1. pkt' = FALSE \/ pkt' = pkt
      BY FooterCases, Zenon
    <3>2. CASE pkt' = FALSE
      BY <3>2
    <3>3. CASE pkt' = pkt
      BY <2>4, <3>3, Zenon
    <3> QED BY <3>1, <3>2, <3>3
  <2> QED BY <2>5, <2>6, <2>7, <2>8, FooterCases, Zenon
<1>2. Types'
  BY <1>1 DEF FramesInv, Types, macVars
<1>3. PcInv'
  BY <1>1 DEF FramesInv, Types, PcInv
<1> QED BY <1>2, <1>3

LEMMA TypesStep ==
  ASSUME FramesInv, Next PROVE Types' /\ PcInv'
<1> USE TxAssumption DEF TxAssumption, Types, PcInv, taskVars, macVars
<1> Types /\ PcInv
  BY DEF FramesInv
<1>1. CASE InitMacphy
  <2>1. <<>> \in Seq(Parts) /\ 0 \in 0..BUFFER /\ {TRUE, FALSE} \subseteq BOOLEAN
    OBVIOUS
  <2>2. Types'
    BY <1>1, <2>1, Zenon DEF InitMacphy
  <2> QED BY <1>1, <2>2 DEF InitMacphy
<1>2. CASE TransferDone
  BY <1>2 DEF TransferDone
<1>3. CASE LoopAgain
  BY <1>3 DEF LoopAgain
<1>4. CASE MacphySends
  <2>1. used' \in 0..BUFFER
    BY <1>4 DEF MacphySends
  <2>2. Types'
    BY <1>4, <2>1, Zenon DEF MacphySends
  <2> QED BY <1>4, <2>2 DEF MacphySends
<1>5. CASE MacphyResets
  <2>1. <<>> \in Seq(Parts) /\ 0 \in 0..BUFFER /\ {TRUE, FALSE} \subseteq BOOLEAN
    OBVIOUS
  <2>2. resets' \in Nat
    BY <1>5 DEF MacphyResets
  <2>3. Types'
    BY <1>5, <2>1, <2>2, Zenon DEF MacphyResets
  <2> QED BY <1>5, <2>3 DEF MacphyResets
<1> HIDE DEF Types, PcInv
<1>6. CASE Pull
  BY <1>6, PullTypes
<1>7. CASE Fill
  BY <1>7, FillTypes
<1>8. CASE Exchange
  BY <1>8, ExchangeTypes
<1>9. CASE ProcessFooter
  BY <1>9, FooterTypes
<1> QED BY <1>1, <1>2, <1>3, <1>4, <1>5, <1>6, <1>7, <1>8, <1>9 DEF Next, Task

-----------------------------------------------------------------------------
(* Frames: each step keeps what is collected and completed in order *)

Frames == FrameInv /\ WholeFramesInOrder /\ \E b \in Nat : \E d \in 0..Len(out) : BusInv(b, d)

\* What a completed frame is, said without LET.
LEMMA WholeFrames ==
  WholeFramesInOrder <=>
    /\ \A f \in 1..Len(wire) : wire[f] = Prefix(wire[f][1][1], size[wire[f][1][1]])
    /\ \A f \in 1..Len(wire) - 1 : wire[f][1][1] < wire[f + 1][1][1]
  BY DEF WholeFramesInOrder, Prefix

\* Nothing is sent or received, and at most a frame or a packet is given up.
LEMMA QuietStep ==
  ASSUME FramesInv, UNCHANGED <<pulled, size, idx, out, wire>>, pkt' => pkt,
         frame' = frame \/ frame' = <<>>, ~sync' => frame' = <<>>
  PROVE  Frames'
<1>1. FrameInv'
  <2>1. ASSUME frame' # <<>>
        PROVE  \E p \in 1..pulled' :
                 /\ Len(frame') < size'[p] /\ frame' = Prefix(p, Len(frame'))
                 /\ \A f \in 1..Len(wire') : wire'[f][1][1] < p
    BY <2>1 DEF FramesInv, FrameInv, Prefix
  <2> QED BY <2>1 DEF FramesInv, FrameInv
<1>2. WholeFramesInOrder'
  BY DEF FramesInv, WholeFramesInOrder
<1>3. PICK b \in Nat : \E d \in 0..Len(out) : BusInv(b, d)
  BY DEF FramesInv
<1>4. PICK d \in 0..Len(out) : BusInv(b, d)
  BY <1>3
<1>5. BusInv(b, d)'
  BY <1>4 DEF BusInv, Data, Prefix
<1> QED BY <1>1, <1>2, <1>5 DEF Frames

LEMMA PullFrames ==
  ASSUME FramesInv, Pull PROVE Frames'
<1> USE TxAssumption DEF TxAssumption
<1>1. PICK n \in 1..PKT_CHUNKS : size' = Append(size, n)
  BY DEF Pull, pull_next
<1>2. /\ pulled \in Nat /\ pulled' = pulled + 1
      /\ \A p \in 1..pulled : size'[p] = size[p]
  <2>1. pulled \in Nat /\ size \in Seq(1..PKT_CHUNKS) /\ Len(size) = pulled
    BY DEF FramesInv, Types
  <2>2. pulled' = pulled + 1
    BY DEF Pull, pull_next
  <2> QED BY <1>1, <2>1, <2>2
<1>3. /\ idx' = 0 /\ out' = <<>> /\ UNCHANGED <<wire, frame, sync>>
  BY DEF Pull, pull_next, macVars, FramesInv, PcInv
<1>4. \A f \in 1..Len(wire) : wire[f][1][1] \in 1..pulled
  BY DEF FramesInv, FrameInv
<1>5. FrameInv'
  <2>1. ASSUME frame # <<>>
        PROVE  \E p \in 1..pulled' :
                 /\ Len(frame) < size'[p] /\ frame = Prefix(p, Len(frame))
                 /\ \A f \in 1..Len(wire) : wire[f][1][1] < p
    <3>1. PICK p \in 1..pulled :
            /\ Len(frame) < size[p] /\ frame = Prefix(p, Len(frame))
            /\ \A f \in 1..Len(wire) : wire[f][1][1] < p
      BY <2>1 DEF FramesInv, FrameInv
    <3>2. p \in 1..pulled' /\ size'[p] = size[p]
      BY <1>2
    <3> QED BY <3>1, <3>2
  <2>2. \A f \in 1..Len(wire) : wire[f][1][1] \in 1..pulled'
    BY <1>2, <1>4
  <2>3. ~sync => frame = <<>>
    BY DEF FramesInv, FrameInv
  <2> QED BY <1>3, <2>1, <2>2, <2>3 DEF FrameInv, Prefix
<1>6. WholeFramesInOrder'
  <2>1. /\ \A f \in 1..Len(wire) : wire[f] = Prefix(wire[f][1][1], size[wire[f][1][1]])
        /\ \A f \in 1..Len(wire) - 1 : wire[f][1][1] < wire[f + 1][1][1]
    BY WholeFrames DEF FramesInv
  <2>2. \A f \in 1..Len(wire) : size'[wire[f][1][1]] = size[wire[f][1][1]]
    BY <1>2, <1>4
  <2> QED BY <1>3, <2>1, <2>2 DEF WholeFramesInOrder, Prefix
<1>7. BusInv(0, 0)'
  <2>1. \A f \in 1..Len(wire) : wire[f][1][1] < pulled + 1
    BY <1>2, <1>4
  <2> QED BY <1>2, <1>3, <2>1 DEF BusInv
<1> QED BY <1>3, <1>5, <1>6, <1>7 DEF Frames


\* The transfer Fill makes goes on where the packet is, and if that is the last
\* of the packet it is freed.
LEMMA FillBus ==
  ASSUME FramesInv, Fill, NEW b \in Nat, BusInv(b, 0)
  PROVE  /\ FrameInv' /\ WholeFramesInOrder'
         /\ \E s \in 0..Len(out') :
              /\ BusInv(b, s)'
              /\ pkt' \/ s > 0 <=> pkt
              /\ ~pkt' /\ s > 0 => b + s = size[pulled]
<1> USE TxAssumption DEF TxAssumption
<1>1. PICK r \in rx_chunks :
        LET n == num_chunks(r)
            sent == Min2(n, tx_chunks)
            done == pkt /\ sent = tx_prefer
        IN /\ out' = [i \in 1..n |-> IF i <= sent THEN Chunk(i) ELSE Empty]
           /\ idx' = IF done THEN 0 ELSE idx + sent
           /\ pkt' = (pkt /\ ~done)
  BY DEF Fill
<1> DEFINE n == num_chunks(r)
           sent == Min2(n, tx_chunks)
<1>2. /\ n \in 1..MAX_CHUNKS
      /\ sent \in 0..n /\ sent <= tx_prefer
      /\ ~pkt => sent = 0
      /\ tx_prefer \in Nat /\ (pkt => tx_prefer = size[pulled] - idx /\ tx_prefer > 0)
  BY FillBounds DEF Fill
<1> HIDE DEF n, sent
<1>3. /\ out' = [i \in 1..n |-> IF i <= sent THEN Chunk(i) ELSE Empty]
      /\ idx' = IF pkt /\ sent = tx_prefer THEN 0 ELSE idx + sent
      /\ pkt' = (pkt /\ ~(pkt /\ sent = tx_prefer))
  BY <1>1 DEF n, sent
<1>4. Len(out') = n /\ \A i \in 1..n : out'[i] = IF i <= sent THEN Chunk(i) ELSE Empty
  <2>1. Len([i \in 1..n |-> IF i <= sent THEN Chunk(i) ELSE Empty]) = n
    BY <1>2
  <2> QED BY <1>3, <2>1
\* The same with a rigid name, so that the invariant of the next state can use it.
<1>5. PICK s \in 0..n :
         /\ s <= tx_prefer /\ (~pkt => s = 0)
         /\ idx' = IF pkt /\ s = tx_prefer THEN 0 ELSE idx + s
         /\ pkt' = (pkt /\ ~(pkt /\ s = tx_prefer))
         /\ \A i \in 1..n : out'[i] = IF i <= s THEN Chunk(i) ELSE Empty
  BY <1>2, <1>3, <1>4
<1>6. UNCHANGED <<pulled, size, wire, frame, sync>> /\ out = <<>>
  BY DEF Fill, macVars, FramesInv, PcInv
<1>7. FrameInv' /\ WholeFramesInOrder'
  BY <1>6 DEF FramesInv, FrameInv, WholeFramesInOrder, Prefix
<1>9. BusInv(b, 0)
  OBVIOUS
<1>10. CASE pkt
  <2>1. b = idx /\ idx \in Nat /\ pulled > 0 /\ (start <=> idx = 0)
    BY <1>9, <1>10 DEF BusInv, FramesInv, Types, PcInv
  <2>2. ASSUME NEW i \in 1..n, i <= s PROVE Chunk(i) = Data(b + i)
    <3>1. (start /\ i = 1) = (b + i = 1)
      BY <2>1
    <3> QED BY <2>1, <3>1, Zenon DEF Chunk, Data
  <2>3. b + s <= size[pulled]
    <3>1. size[pulled] \in Nat
      BY <2>1 DEF FramesInv, Types
    <3> QED BY <1>2, <1>10, <1>5, <2>1, <3>1
  <2>4. pkt' => b + s = idx'
    BY <1>5, <2>1, Zenon
  <2>5. /\ frame # <<>> /\ b > 0 => frame = Prefix(pulled, b)
        /\ \A f \in 1..Len(wire) : wire[f][1][1] < pulled
    BY <1>9, <1>10 DEF BusInv
  <2>6. BusInv(b, s)'
    <3>1. ASSUME NEW i \in 1..Len(out')
          PROVE  out'[i] = IF i <= s THEN Data(b + i)' ELSE Empty
      <4>1. Data(b + i)' = Data(b + i)
        BY <1>6 DEF Data
      <4>2. i \in 1..n /\ out'[i] = IF i <= s THEN Chunk(i) ELSE Empty
        BY <1>4, <1>5, <3>1
      <4> QED BY <2>2, <4>1, <4>2
    <3>2. s > 0 => pulled' > 0 /\ b + s <= size'[pulled']
      BY <1>6, <2>1, <2>3
    <3>3. /\ frame' # <<>> /\ b > 0 => frame' = Prefix(pulled', b)
          /\ \A f \in 1..Len(wire') : wire'[f][1][1] < pulled'
      BY <1>6, <2>5
    <3> QED BY <2>4, <3>1, <3>2, <3>3 DEF BusInv, Empty, Prefix
  <2>7. pkt' \/ s > 0
    <3>1. CASE s = tx_prefer
      BY <1>2, <1>10, <3>1
    <3>2. CASE s # tx_prefer
      BY <1>5, <1>10, <3>2, Zenon
    <3> QED BY <3>1, <3>2
  <2>8. ~pkt' => b + s = size[pulled]
    <3>1. ~pkt' => s = tx_prefer
      BY <1>5, <1>10, Zenon
    <3>2. size[pulled] \in Nat
      BY <2>1 DEF FramesInv, Types
    <3> QED BY <1>2, <1>10, <2>1, <3>1, <3>2
  <2> QED BY <1>4, <1>7, <1>10, <2>6, <2>7, <2>8
<1>11. CASE ~pkt
  <2>1. s = 0 /\ ~pkt'
    BY <1>5, <1>11
  <2>2. BusInv(b, 0)'
    BY <1>2, <1>4, <1>5, <2>1 DEF BusInv, Empty
  <2> QED BY <1>2, <1>4, <1>7, <1>11, <2>1, <2>2
<1> QED BY <1>10, <1>11

LEMMA FillFrames ==
  ASSUME FramesInv, Fill PROVE Frames'
<1>1. PICK b \in Nat : \E d \in 0..Len(out) : BusInv(b, d)
  BY DEF FramesInv
<1>2. out = <<>>
  BY DEF Fill, FramesInv, PcInv
<1>3. BusInv(b, 0)
  BY <1>1, <1>2
<1> QED BY <1>3, FillBus DEF Frames

\* The transfer after one chunk less, of which c went before and e are data.
LEMMA ExchangeBus ==
  ASSUME FramesInv, Exchange, NEW b \in Nat, NEW d \in 0..Len(out), BusInv(b, d),
         NEW c, c = IF d = 0 THEN b ELSE b + 1,
         NEW e, e = IF d = 0 THEN 0 ELSE d - 1
  PROVE  /\ FrameInv' /\ WholeFramesInOrder'
         /\ c \in Nat /\ e \in 0..Len(out') /\ BusInv(c, e)'
<1> USE TxAssumption DEF TxAssumption
<1>2. BusInv(b, d)
  OBVIOUS
<1>3. /\ UNCHANGED <<pulled, size, idx, pkt, sync>>
      /\ Len(out) \in Nat \ {0} /\ Len(out') = Len(out) - 1
      /\ \A i \in 1..Len(out') : out'[i] = out[i + 1]
      /\ pulled \in Nat
  <2>1. out # <<>> /\ out \in Seq(Chunks) /\ pulled \in Nat
    BY ExchangeRest DEF FramesInv, Types
  <2>2. Len(out) \in Nat \ {0}
    BY <2>1
  <2> QED BY <2>1, <2>2, ExchangeRest DEF taskVars
\* What is left of the transfer.
<1>4. c \in Nat /\ e \in 0..Len(out')
  BY <1>3
<1>5. /\ \A i \in 1..Len(out') : out'[i] = IF i <= e THEN Data(c + i)' ELSE Empty
      /\ e > 0 => pulled' > 0 /\ c + e <= size'[pulled']
      /\ pkt' => c + e = idx'
      /\ pkt' \/ e > 0 => pkt \/ d > 0
  <2>1. \A k : Data(k)' = Data(k)
    BY <1>3 DEF Data
  <2>2. ASSUME NEW i \in 1..Len(out')
        PROVE  out'[i] = IF i <= e THEN Data(c + i) ELSE Empty
    <3>1. i + 1 \in 1..Len(out) /\ out'[i] = out[i + 1]
      BY <1>3
    <3>2. out[i + 1] = IF i + 1 <= d THEN Data(b + (i + 1)) ELSE Empty
      BY <1>2, <3>1 DEF BusInv
    <3>3. CASE d = 0
      BY <3>1, <3>2, <3>3
    <3>4. CASE d > 0
      <4>1. b + (i + 1) = c + i /\ (i + 1 <= d <=> i <= e)
        BY <3>4
      <4> QED BY <3>1, <3>2, <4>1
    <3> QED BY <3>3, <3>4
  <2>3. e > 0 => pulled > 0 /\ c + e <= size[pulled]
    BY <1>2 DEF BusInv
  <2>4. pkt => c + e = idx
    BY <1>2 DEF BusInv
  <2>5. e > 0 => d > 0
    OBVIOUS
  <2> QED BY <1>3, <2>1, <2>2, <2>3, <2>4, <2>5
\* A packet that goes on was not completed before.
<1>6. pkt \/ d > 0 => /\ frame # <<>> /\ b > 0 => frame = Prefix(pulled, b)
                      /\ \A f \in 1..Len(wire) : wire[f][1][1] < pulled
  BY <1>2 DEF BusInv
<1>7. CASE UNCHANGED <<frame, wire>> /\ (d = 0 \/ frame = <<>>)
  <2>1. FrameInv' /\ WholeFramesInOrder'
    BY <1>3, <1>7 DEF FramesInv, FrameInv, WholeFramesInOrder, Prefix
  <2>2. pkt' \/ e > 0 =>
          /\ frame' # <<>> /\ c > 0 => frame' = Prefix(pulled', c)
          /\ \A f \in 1..Len(wire') : wire'[f][1][1] < pulled'
    BY <1>3, <1>5, <1>6, <1>7
  <2>3. BusInv(c, e)'
    BY <1>5, <2>2 DEF BusInv, Empty, Prefix
  <2> QED BY <1>4, <2>1, <2>3
<1>8. CASE frame' = <<>> /\ UNCHANGED wire
  <2>1. FrameInv' /\ WholeFramesInOrder'
    BY <1>3, <1>8 DEF FramesInv, FrameInv, WholeFramesInOrder, Prefix
  <2>2. pkt' \/ e > 0 =>
          /\ frame' # <<>> /\ c > 0 => frame' = Prefix(pulled', c)
          /\ \A f \in 1..Len(wire') : wire'[f][1][1] < pulled'
    BY <1>3, <1>5, <1>6, <1>8
  <2>3. BusInv(c, e)'
    BY <1>5, <2>2 DEF BusInv, Empty, Prefix
  <2> QED BY <1>4, <2>1, <2>3
<1>9. CASE Continues(b, d)
  <2>1. /\ d > 0 /\ c = b + 1 /\ e = d - 1 /\ pulled > 0 /\ b + d <= size[pulled]
        /\ size[pulled] \in Nat
    <3>1. d > 0
      BY <1>9 DEF Continues
    <3>2. pulled > 0 /\ b + d <= size[pulled]
      BY <1>2, <3>1 DEF BusInv
    <3>3. size[pulled] \in Nat
      BY <3>2 DEF FramesInv, Types
    <3> QED BY <3>1, <3>2, <3>3
  <2>2. \A f \in 1..Len(wire) : wire[f][1][1] < pulled
    BY <1>6, <2>1
  <2>3. Len(Prefix(pulled, b + 1)) = b + 1 /\ Prefix(pulled, b + 1)[1][1] = pulled
        /\ Prefix(pulled, b + 1) # <<>> /\ Prefix(pulled, b + 1) \in Seq(Parts)
    <3>1. b + 1 \in Nat /\ b + 1 > 0
      OBVIOUS
    <3>2. Len(Prefix(pulled, b + 1)) = b + 1 /\ Prefix(pulled, b + 1)[1][1] = pulled
          /\ Prefix(pulled, b + 1) \in Seq(Parts)
      BY <1>3, <3>1, PrefixAppend
    <3> QED BY <3>1, <3>2
  <2>4. CASE b + 1 # size[pulled]
    <3>1. frame' = Prefix(pulled, b + 1) /\ wire' = wire /\ sync
      BY <1>9, <2>4 DEF Continues
    <3>2. Len(frame') < size[pulled] /\ Len(frame') = b + 1
      BY <2>1, <2>3, <2>4, <3>1
    <3>3. FrameInv'
      <4>1. pulled \in 1..pulled' /\ Len(frame') < size'[pulled] /\ sync'
        BY <1>3, <1>9, <2>1, <3>1, <3>2 DEF Continues
      <4>2. frame' = Prefix(pulled, b + 1) /\ Len(frame') = b + 1
        BY <3>1, <3>2
      <4>3. \A f \in 1..Len(wire') : wire'[f][1][1] < pulled /\ wire'[f][1][1] \in 1..pulled'
        BY <1>3, <2>2, <3>1 DEF FramesInv, FrameInv
      <4>4. /\ sync' /\ frame' = [i \in 1..Len(frame') |-> <<pulled, i>>]
            /\ pulled \in 1..pulled' /\ Len(frame') < size'[pulled]
        BY <4>1, <4>2 DEF Prefix
      <4> QED BY <4>3, <4>4, Zenon DEF FrameInv, Prefix
    <3>4. WholeFramesInOrder'
      BY <1>3, <3>1 DEF FramesInv, WholeFramesInOrder
    <3>5. BusInv(c, e)'
      BY <1>3, <1>5, <2>1, <2>2, <3>1 DEF BusInv, Empty, Prefix
    <3> QED BY <1>4, <3>3, <3>4, <3>5
  <2>5. CASE b + 1 = size[pulled]
    <3> DEFINE w == Prefix(pulled, b + 1)
    <3>1. frame' = <<>> /\ wire' = Append(wire, w)
      BY <1>9, <2>5 DEF Continues
    <3>2. /\ w = Prefix(pulled, size[pulled]) /\ w[1][1] = pulled /\ w \in Seq(Parts)
      BY <2>3, <2>5
    <3> HIDE DEF w
    <3>3. /\ Len(wire) \in Nat /\ Len(wire') = Len(wire) + 1
          /\ \A f \in 1..Len(wire) : wire'[f] = wire[f]
          /\ wire'[Len(wire) + 1] = w
      <4>1. wire \in Seq(Seq(Parts))
        BY DEF FramesInv, Types
      <4> DEFINE S == Seq(Parts)
      <4> HIDE DEF S
      <4>2. wire \in Seq(S) /\ w \in S
        BY <3>2, <4>1 DEF S
      <4> QED BY <3>1, <4>2
    <3>4. FrameInv'
      <4>1. \A f \in 1..Len(wire') : wire'[f][1][1] \in 1..pulled
        <5>1. \A f \in 1..Len(wire) : wire[f][1][1] \in 1..pulled
          BY DEF FramesInv, FrameInv
        <5>2. \A f \in 1..Len(wire') : f \in 1..Len(wire) \/ f = Len(wire) + 1
          BY <3>3
        <5>3. pulled \in 1..pulled
          BY <1>3, <2>1
        <5> QED BY <3>2, <3>3, <5>1, <5>2, <5>3, Zenon
      <4> QED BY <1>3, <3>1, <4>1 DEF FrameInv
    <3>5. WholeFramesInOrder'
      <4>1. /\ \A f \in 1..Len(wire) : wire[f] = Prefix(wire[f][1][1], size[wire[f][1][1]])
            /\ \A f \in 1..Len(wire) - 1 : wire[f][1][1] < wire[f + 1][1][1]
        BY WholeFrames DEF FramesInv
      <4>2. ASSUME NEW f \in 1..Len(wire')
            PROVE  wire'[f] = Prefix(wire'[f][1][1], size[wire'[f][1][1]])
        <5>1. CASE f \in 1..Len(wire)
          BY <3>3, <4>1, <5>1
        <5>2. CASE f = Len(wire) + 1
          BY <3>2, <3>3, <5>2
        <5> QED BY <3>3, <5>1, <5>2
      <4>3. ASSUME NEW f \in 1..Len(wire') - 1
            PROVE  wire'[f][1][1] < wire'[f + 1][1][1]
        <5>1. CASE f + 1 \in 1..Len(wire)
          BY <3>3, <4>1, <5>1
        <5>2. CASE f = Len(wire)
          BY <2>2, <3>2, <3>3, <5>2
        <5> QED BY <3>3, <5>1, <5>2
      <4> QED BY <1>3, <4>2, <4>3 DEF WholeFramesInOrder, Prefix
    <3>6. e = 0 /\ ~pkt'
      <4>1. e = 0
        BY <2>1, <2>5
      <4>2. pkt => b + d = idx /\ idx < size[pulled] /\ idx \in Nat
        BY <1>2 DEF BusInv, FramesInv, Types, PcInv
      <4> QED BY <1>3, <2>1, <2>5, <4>1, <4>2
    <3>7. BusInv(c, e)'
      BY <1>5, <3>6 DEF BusInv, Empty
    <3> QED BY <1>4, <3>4, <3>5, <3>7
  <2> QED BY <2>4, <2>5
<1> QED BY <1>2, <1>7, <1>8, <1>9, ExchangeCases

LEMMA ExchangeFrames ==
  ASSUME FramesInv, Exchange PROVE Frames'
<1>1. PICK b \in Nat : \E d \in 0..Len(out) : BusInv(b, d)
  BY DEF FramesInv
<1>2. PICK d \in 0..Len(out) : BusInv(b, d)
  BY <1>1
<1>3. PICK c, e : c = (IF d = 0 THEN b ELSE b + 1) /\ e = (IF d = 0 THEN 0 ELSE d - 1)
  OBVIOUS
<1>4. /\ FrameInv' /\ WholeFramesInOrder'
      /\ c \in Nat /\ e \in 0..Len(out') /\ BusInv(c, e)'
  BY <1>2, <1>3, ExchangeBus
<1> QED BY <1>4 DEF Frames

LEMMA FramesStep ==
  ASSUME FramesInv, [Next]_vars PROVE FramesInv'
<1>1. CASE UNCHANGED vars
  <2>1. Types' /\ PcInv'
    BY <1>1 DEF vars, taskVars, macVars, FramesInv, Types, PcInv
  <2>2. Frames'
    BY <1>1, QuietStep DEF vars, taskVars, macVars, FramesInv, FrameInv
  <2> QED BY <2>1, <2>2 DEF Frames, FramesInv
<1>2. CASE Next
  <2>1. Types' /\ PcInv'
    BY <1>2, TypesStep
  <2>2. Frames'
    <3> USE DEF taskVars, macVars
    <3>1. CASE InitMacphy
      BY <3>1, QuietStep DEF InitMacphy
    <3>2. CASE TransferDone
      BY <3>2, QuietStep DEF TransferDone, FramesInv, FrameInv
    <3>3. CASE LoopAgain
      BY <3>3, QuietStep DEF LoopAgain, FramesInv, FrameInv
    <3>4. CASE MacphySends
      BY <3>4, QuietStep DEF MacphySends, FramesInv, FrameInv
    <3>5. CASE MacphyResets
      BY <3>5, QuietStep DEF MacphyResets
    <3>6. CASE Pull
      BY <3>6, PullFrames
    <3>7. CASE Fill
      BY <3>7, FillFrames
    <3>8. CASE Exchange
      BY <3>8, ExchangeFrames
    <3>9. CASE ProcessFooter
      <4>1. /\ UNCHANGED <<pulled, size, idx, out, wire, frame, sync>>
            /\ pkt' = FALSE \/ pkt' = pkt
        BY <3>9, FooterCases, Zenon
      <4>2. ~sync => frame = <<>>
        BY DEF FramesInv, FrameInv
      <4> QED BY <4>1, <4>2, QuietStep
    <3> QED BY <1>2, <3>1, <3>2, <3>3, <3>4, <3>5, <3>6, <3>7, <3>8, <3>9 DEF Next, Task
  <2> QED BY <2>1, <2>2 DEF Frames, FramesInv
<1> QED BY <1>1, <1>2

LEMMA FramesInit == Init => FramesInv
<1> SUFFICES ASSUME Init PROVE FramesInv
  OBVIOUS
<1> USE TxAssumption DEF TxAssumption, Init
<1>1. Types
  <2>1. /\ <<>> \in Seq(1..PKT_CHUNKS) /\ <<>> \in Seq(Chunks) /\ <<>> \in Seq(Footers)
        /\ <<>> \in Seq(Parts) /\ <<>> \in Seq(Seq(Parts)) /\ Len(<<>>) = 0
    OBVIOUS
  <2>2. /\ 0 \in 0..PACKETS /\ 0 \in 0..PKT_CHUNKS - 1 /\ 0 \in 0..BUFFER /\ 0 \in Nat
        /\ FALSE \in BOOLEAN
    OBVIOUS
  <2> QED BY <2>1, <2>2, Zenon DEF Types
<1>2. PcInv /\ FrameInv /\ WholeFramesInOrder
  BY DEF PcInv, FrameInv, WholeFramesInOrder
<1>3. BusInv(0, 0) /\ 0 \in 0..Len(out)
  BY DEF BusInv
<1> QED BY <1>1, <1>2, <1>3 DEF FramesInv

LEMMA FramesCorrect == Spec => []FramesInv
<1>1. FramesInv /\ [Next]_vars => FramesInv'
  BY FramesStep
<1> QED BY <1>1, FramesInit, PTL DEF Spec

\* Every variable keeps its type; in particular the MACPHY never collects as many
\* chunks as the longest packet has without completing it.
THEOREM TypeCorrect == Spec => []TypeOK
<1>1. FramesInv => TypeOK
  <2> SUFFICES ASSUME FramesInv PROVE TypeOK
    OBVIOUS
  <2> USE TxAssumption DEF TxAssumption
  <2>1. Len(frame) < PKT_CHUNKS
    <3>1. CASE frame = <<>>
      BY <3>1
    <3>2. CASE frame # <<>>
      <4>1. PICK p \in 1..pulled : Len(frame) < size[p]
        BY <3>2 DEF FramesInv, FrameInv
      <4> QED BY <4>1 DEF FramesInv, Types
    <3> QED BY <3>1, <3>2
  <2>2. Len(out) <= MAX_CHUNKS /\ Len(footers) <= MAX_CHUNKS
    BY DEF FramesInv, Types, PcInv
  <2>3. \A p \in 1..pulled : size[p] \in 1..PKT_CHUNKS
    BY DEF FramesInv, Types
  <2> QED BY <2>1, <2>2, <2>3 DEF TypeOK, FramesInv, Types, PcInv
<1> QED BY <1>1, FramesCorrect, PTL

\* Whatever is damaged or reset, the MACPHY completes only whole packets, each
\* once and in the order they were taken from tx_.reqs (fill_tx_chunk, handle_error).
THEOREM WholeFramesCorrect == Spec => []WholeFramesInOrder
  BY FramesCorrect, PTL DEF FramesInv
-----------------------------------------------------------------------------
(* Credits: on an intact bus the MACPHY's buffer never overruns *)

LEMMA FillCredit ==
  ASSUME FramesInv, Credited, Fill PROVE Credited'
<1> USE TxAssumption DEF TxAssumption
<1>1. PICK r \in rx_chunks :
        LET n == num_chunks(r)
            sent == Min2(n, tx_chunks)
        IN out' = [i \in 1..n |-> IF i <= sent THEN Chunk(i) ELSE Empty]
  BY DEF Fill
<1> DEFINE n == num_chunks(r)
           sent == Min2(n, tx_chunks)
<1>2. n \in 1..MAX_CHUNKS /\ sent \in 0..n /\ sent <= free
  BY FillBounds DEF Fill
<1> HIDE DEF n, sent
<1>3. out' = [i \in 1..n |-> IF i <= sent THEN Chunk(i) ELSE Empty]
  BY <1>1 DEF n, sent
<1>4. Len(out') = n /\ \A i \in 1..n : out'[i] = IF i <= sent THEN Chunk(i) ELSE Empty
  <2>1. Len([i \in 1..n |-> IF i <= sent THEN Chunk(i) ELSE Empty]) = n
    BY <1>2
  <2> QED BY <1>3, <2>1
<1>5. /\ UNCHANGED <<used, sync, errors, overrun, footers>>
      /\ pc = "loop" /\ init_good /\ footers = <<>> /\ pc' = "xfer"
  BY DEF Fill, macVars, FramesInv, PcInv
<1>6. sync => free + used <= BUFFER
  BY <1>5 DEF Credited
<1>7. ASSUME sync, NEW i \in 1..Len(out'), out'[i].dv PROVE used + i <= BUFFER
  <2>1. i <= sent
    BY <1>4, <1>7, EmptyApart
  <2>2. free \in Nat /\ used \in Nat /\ i \in Nat /\ sent \in Nat
    BY <1>2, <1>4, <1>7 DEF FramesInv, Types
  <2> QED BY <1>2, <1>6, <1>7, <2>1, <2>2
<1> QED BY <1>5, <1>7 DEF Credited

LEMMA ExchangeCredit ==
  ASSUME errors = 0, errors' = 0, FramesInv, Credited, Exchange PROVE Credited'
<1> USE TxAssumption DEF TxAssumption
<1>1. PICK b \in Nat : \E d \in 0..Len(out) : BusInv(b, d)
  BY DEF FramesInv
<1>2. PICK d \in 0..Len(out) : BusInv(b, d)
  BY <1>1
<1>3. /\ out # <<>> /\ pc' = "xfer" /\ sync' = sync /\ Len(out) \in Nat \ {0}
      /\ Len(out') = Len(out) - 1 /\ \A i \in 1..Len(out') : out'[i] = out[i + 1]
  <2>1. out # <<>> /\ out \in Seq(Chunks)
    BY ExchangeRest DEF FramesInv, Types
  <2> QED BY <2>1, ExchangeRest
<1>4. used \in 0..BUFFER /\ (d > 0 => out[1] = Data(b + 1) /\ out[1].dv)
  <2>1. used \in 0..BUFFER
    BY DEF FramesInv, Types
  <2>2. d > 0 => out[1] = Data(b + 1)
    BY <1>2, <1>3 DEF BusInv
  <2> QED BY <2>1, <2>2, EmptyApart
<1>5. sync /\ d > 0 => used + 1 <= BUFFER
  BY <1>3, <1>4 DEF Credited
\* The chunk finds room.
<1>6. ~overrun' /\ (used' = used \/ used' = used + 1) /\ used' \in 0..BUFFER
  <2>1. CASE UNCHANGED <<used, frame, overrun, wire>>
    BY <1>4, <2>1 DEF Credited
  <2>2. CASE /\ frame' = <<>> /\ UNCHANGED <<used, wire>>
             /\ overrun' # overrun => overrun' = TRUE /\ d > 0 /\ sync /\ used = BUFFER
    <3>1. ~(d > 0 /\ sync /\ used = BUFFER)
      BY <1>4, <1>5
    <3>2. overrun' = overrun
      BY <2>2, <3>1
    <3> QED BY <1>4, <2>2, <3>2 DEF Credited
  <2>3. CASE Continues(b, d)
    BY <1>4, <2>3 DEF Continues, Credited
  <2> QED BY <1>2, <2>1, <2>2, <2>3, ExchangeCases
<1>7. PICK hdrb \in BOOLEAN, damaged \in BOOLEAN :
        /\ errors' = errors + (IF hdrb THEN 1 ELSE 0) + (IF damaged THEN 1 ELSE 0)
        /\ errors' <= BIT_ERRORS
        /\ footers' = Append(footers, [sync |-> sync, exst |-> overrun', hdrb |-> hdrb,
                                       damaged |-> damaged, txc |-> BUFFER - used'])
  BY ExchangeRest
<1>8. errors' = 0 /\ ~hdrb /\ ~damaged
  <2>1. errors = 0 /\ errors' = 0
    OBVIOUS
  <2> QED BY <1>7, <2>1
<1> DEFINE f == [sync |-> sync, exst |-> overrun', hdrb |-> hdrb,
                 damaged |-> damaged, txc |-> BUFFER - used']
<1>9. ~f.hdrb /\ ~f.damaged /\ f.txc = BUFFER - used'
  BY <1>8
<1>10. footers' \in Seq(Footers) /\ footers \in Seq(Footers)
  BY ExchangeTypes DEF FramesInv, Types
<1> HIDE DEF f
<1>11. footers' = Append(footers, f)
  BY <1>7 DEF f
<1>12. /\ Len(footers) \in Nat /\ Len(footers') = Len(footers) + 1
       /\ \A i \in 1..Len(footers) : footers'[i] = footers[i]
       /\ footers'[Len(footers) + 1] = f
  BY <1>10, <1>11
<1>13. \A i \in 1..Len(footers') : ~footers'[i].hdrb /\ ~footers'[i].damaged
  <2>1. \A i \in 1..Len(footers) : ~footers[i].hdrb /\ ~footers[i].damaged
    BY DEF Credited
  <2>2. \A i \in 1..Len(footers') : i \in 1..Len(footers) \/ i = Len(footers) + 1
    BY <1>12
  <2> QED BY <1>9, <1>12, <2>1, <2>2
<1>14. footers'[Len(footers')].txc + used' <= BUFFER
  <2>1. \A x \in 0..BUFFER : (BUFFER - x) + x <= BUFFER
    OBVIOUS
  <2>2. (BUFFER - used') + used' <= BUFFER
    BY <1>6, <2>1, Zenon
  <2>3. footers'[Len(footers')].txc = BUFFER - used'
    BY <1>9, <1>12
  <2> QED BY <2>2, <2>3, Zenon
<1>15. ASSUME sync, NEW i \in 1..Len(out'), out'[i].dv PROVE used' + i <= BUFFER
  <2>1. i + 1 \in 1..Len(out) /\ out[i + 1].dv
    BY <1>3, <1>15
  <2>2. used + (i + 1) <= BUFFER
    BY <1>15, <2>1 DEF Credited
  <2>3. i \in Nat /\ used \in Nat
    BY <1>3, <1>4
  <2>4. used' + i <= used + (i + 1)
    <3>1. CASE used' = used
      BY <2>3, <3>1
    <3>2. CASE used' = used + 1
      BY <2>3, <3>2
    <3> QED BY <1>6, <3>1, <3>2
  <2>5. \A u \in 0..BUFFER : u + i <= used + (i + 1) => u + i <= BUFFER
    BY <2>2, <2>3
  <2> QED BY <1>6, <2>4, <2>5
<1> QED BY <1>3, <1>6, <1>8, <1>13, <1>14, <1>15 DEF Credited

LEMMA FooterCredit ==
  ASSUME FramesInv, Credited, ProcessFooter PROVE Credited'
<1>1. /\ footers # <<>> /\ footers \in Seq(Footers) /\ Len(footers) \in Nat \ {0}
      /\ Head(footers) = footers[1]
      /\ UNCHANGED <<pulled, size, idx, start, pc, out, macVars>>
  <2>1. footers # <<>> /\ footers \in Seq(Footers)
    BY FooterCases DEF FramesInv, Types
  <2> QED BY <2>1, FooterCases
<1>2. ~Head(footers).damaged /\ ~Head(footers).hdrb
  BY <1>1 DEF Credited
<1>3. CASE init_good' = FALSE /\ footers' = <<>>
  BY <1>1, <1>3 DEF Credited, macVars, FramesInv, PcInv
<1>4. CASE free' = Head(footers).txc /\ footers' = Tail(footers)
  <2>1. /\ Len(footers') = Len(footers) - 1
        /\ \A i \in 1..Len(footers') : footers'[i] = footers[i + 1]
    BY <1>1, <1>4
  <2>2. footers' = <<>> => Head(footers) = footers[Len(footers)]
    <3> DEFINE t == Tail(footers)
    <3>1. Len(t) = Len(footers) - 1
      BY <1>1
    <3> HIDE DEF t
    <3>2. t = <<>> => Len(footers) = 1
      <4>1. t = <<>> => Len(t) = 0
        OBVIOUS
      <4> QED BY <1>1, <3>1, <4>1
    <3>3. footers' = t
      BY <1>4 DEF t
    <3> QED BY <1>1, <3>2, <3>3
  <2>3. footers' # <<>> => footers'[Len(footers')] = footers[Len(footers)]
    <3>1. footers' \in Seq(Footers)
      BY <1>1, <1>4
    <3> QED BY <1>1, <2>1, <3>1
  <2>4. \A i \in 1..Len(footers') : ~footers'[i].hdrb /\ ~footers'[i].damaged
    BY <1>1, <2>1 DEF Credited
  <2> QED BY <1>1, <1>4, <2>2, <2>3, <2>4 DEF Credited, macVars
<1> QED BY <1>2, <1>3, <1>4, FooterCases

\* The count of the bit errors only grows.
LEMMA ErrorsGrow ==
  ASSUME FramesInv, [Next]_vars, errors' = 0 PROVE errors = 0
<1>1. CASE Exchange
  <2>1. PICK hdrb \in BOOLEAN, damaged \in BOOLEAN :
          errors' = errors + (IF hdrb THEN 1 ELSE 0) + (IF damaged THEN 1 ELSE 0)
    BY <1>1, ExchangeRest
  <2> QED BY <2>1 DEF FramesInv, Types
<1>2. CASE UNCHANGED errors
  BY <1>2
<1> QED BY <1>1, <1>2 DEF Next, Task, InitMacphy, Pull, pull_next, Fill, TransferDone,
           ProcessFooter, LoopAgain, MacphySends, MacphyResets, macVars, vars

\* Where none is allowed there is none.
LEMMA NoErrors ==
  ASSUME BIT_ERRORS = 0, FramesInv, errors = 0, [Next]_vars PROVE errors' = 0
<1>1. CASE Exchange
  <2>1. errors' \in Nat /\ errors' <= 0
    BY <1>1, ExchangeRest
  <2> QED BY <2>1
<1>2. CASE UNCHANGED errors
  BY <1>2
<1> QED BY <1>1, <1>2 DEF Next, Task, InitMacphy, Pull, pull_next, Fill, TransferDone,
           ProcessFooter, LoopAgain, MacphySends, MacphyResets, macVars, vars

LEMMA CreditStep ==
  ASSUME FramesInv, CreditInv, [Next]_vars PROVE CreditInv'
<1> SUFFICES ASSUME errors' = 0 PROVE Credited'
  BY DEF CreditInv
<1>0. errors = 0 /\ Credited
  BY ErrorsGrow DEF CreditInv
<1> USE <1>0, TxAssumption DEF TxAssumption, taskVars, macVars
<1>1. CASE UNCHANGED vars
  BY <1>1 DEF vars, Credited
<1>2. CASE InitMacphy
  BY <1>2 DEF InitMacphy, Credited, FramesInv, PcInv, Types
<1>3. CASE TransferDone
  BY <1>3 DEF TransferDone, Credited, FramesInv, PcInv
<1>4. CASE LoopAgain
  BY <1>4 DEF LoopAgain, Credited, FramesInv, PcInv
<1>5. CASE MacphySends
  <2>1. used \in Nat /\ used > 0 /\ used' = used - 1 /\ free \in Nat
    BY <1>5 DEF MacphySends, FramesInv, Types
  <2>2. /\ \A i \in 1..Len(out) : used + i <= BUFFER => used' + i <= BUFFER
        /\ free + used <= BUFFER => free + used' <= BUFFER
    BY <2>1
  <2>3. ASSUME footers # <<>>, footers[Len(footers)].txc + used <= BUFFER
        PROVE  footers[Len(footers)].txc + used' <= BUFFER
    <3>1. Len(footers) \in 1..Len(footers) /\ footers \in Seq(Footers)
      BY <2>3 DEF FramesInv, Types
    <3>2. footers[Len(footers)] \in Footers
      BY <3>1
    <3>3. footers[Len(footers)].txc \in 0..BUFFER
      BY <3>2, Zenon DEF Footers
    <3> QED BY <2>1, <2>3, <3>3
  <2> QED BY <1>5, <2>2, <2>3 DEF MacphySends, Credited
<1>6. CASE MacphyResets
  BY <1>6 DEF MacphyResets, Credited
<1>7. CASE Pull
  BY <1>7 DEF Pull, pull_next, Credited
<1>8. CASE Fill
  BY <1>8, FillCredit
<1>9. CASE Exchange
  BY <1>9, ExchangeCredit
<1>10. CASE ProcessFooter
  BY <1>10, FooterCredit
<1> QED BY <1>1, <1>2, <1>3, <1>4, <1>5, <1>6, <1>7, <1>8, <1>9, <1>10 DEF Next, Task

\* With no bit error on the bus, whatever is reset, a transfer carries no more data
\* than the last footer of the one before gave credits for, and no credit is given
\* twice: the MACPHY's buffer never overruns (tx_.free_chunks in task and
\* process_rx_chunk).
THEOREM CreditCorrect == ASSUME BIT_ERRORS = 0 PROVE Spec => []NeverOverrun
<1>1. Init => CreditInv
  BY DEF Init, CreditInv, Credited
<1>2. FramesInv /\ CreditInv /\ [Next]_vars => CreditInv'
  BY CreditStep
<1>3. Init => errors = 0
  BY DEF Init
<1>4. FramesInv /\ errors = 0 /\ [Next]_vars => (errors = 0)'
  BY NoErrors
<1>5. CreditInv /\ errors = 0 => NeverOverrun
  BY DEF CreditInv, Credited, NeverOverrun
<1> QED BY <1>1, <1>2, <1>3, <1>4, <1>5, FramesCorrect, PTL DEF Spec

-----------------------------------------------------------------------------
(* Losses: with the bus and the MACPHY intact every packet is sent *)

Intact == errors = 0 /\ resets = 0

\* The task and the MACPHY agree that it is configured, and so do the footers.
Linked ==
  /\ sync = init_good
  /\ pc # "loop" => init_good
  /\ \A i \in 1..Len(footers) : footers[i].sync /\ ~footers[i].exst

OnWire(p) == \E f \in 1..Len(wire) : wire[f][1][1] = p

\* The MACPHY has just the b chunks that went before; a packet that is freed
\* has its last chunk in the transfer; every packet before it is sent.
Kept(b, d) ==
  /\ pkt \/ d > 0 => frame = Prefix(pulled, b)
  /\ ~(pkt \/ d > 0) => frame = <<>>
  /\ ~pkt /\ d > 0 => b + d = size[pulled]
  /\ \A p \in 1..pulled : OnWire(p) \/ (p = pulled /\ (pkt \/ d > 0))

LossInv ==
  Intact => /\ Linked
            /\ \E b \in Nat : \E d \in 0..Len(out) : BusInv(b, d) /\ Kept(b, d)

\* A fault that has happened stays counted.
LEMMA IntactBefore ==
  ASSUME FramesInv, [Next]_vars, Intact' PROVE Intact
<1>1. errors = 0
  BY ErrorsGrow DEF Intact
<1>2. resets = 0
  <2>1. CASE MacphyResets
    BY <2>1 DEF MacphyResets, FramesInv, Types, Intact
  <2>2. CASE UNCHANGED resets
    BY <2>2 DEF Intact
  <2> QED BY <2>1, <2>2, ExchangeRest DEF Next, Task, InitMacphy, Pull, pull_next, Fill,
         TransferDone, ProcessFooter, LoopAgain, MacphySends, macVars, vars
<1> QED BY <1>1, <1>2 DEF Intact

\* Steps that send and free nothing.
LEMMA KeptStill ==
  ASSUME FramesInv, LossInv, Intact, Intact', Linked',
         UNCHANGED <<pulled, size, idx, out, wire, frame, pkt>>
  PROVE  LossInv'
<1>1. PICK b \in Nat : \E d \in 0..Len(out) : BusInv(b, d) /\ Kept(b, d)
  BY DEF LossInv
<1>2. PICK d \in 0..Len(out) : BusInv(b, d) /\ Kept(b, d)
  BY <1>1
<1>3. BusInv(b, d)'
  BY <1>2 DEF BusInv, Data, Prefix
<1>4. Kept(b, d)'
  BY <1>2 DEF Kept, OnWire, Prefix
<1> QED BY <1>2, <1>3, <1>4 DEF LossInv

LEMMA PullKept ==
  ASSUME FramesInv, LossInv, Intact, Pull PROVE LossInv'
<1> USE TxAssumption DEF TxAssumption
<1>1. PICK b \in Nat : \E d \in 0..Len(out) : BusInv(b, d) /\ Kept(b, d)
  BY DEF LossInv
<1>2. PICK d \in 0..Len(out) : BusInv(b, d) /\ Kept(b, d)
  BY <1>1
<1>3. /\ ~pkt /\ pkt' /\ out = <<>> /\ out' = <<>> /\ idx' = 0
      /\ pulled' = pulled + 1 /\ pulled \in Nat
      /\ UNCHANGED <<wire, frame, sync, init_good, pc, footers>>
  BY DEF Pull, pull_next, macVars, FramesInv, PcInv, Types
<1>4. frame = <<>> /\ \A p \in 1..pulled : OnWire(p)
  BY <1>2, <1>3 DEF Kept
<1>5. BusInv(0, 0)'
  <2>1. \A f \in 1..Len(wire) : wire[f][1][1] \in 1..pulled
    BY DEF FramesInv, FrameInv
  <2>2. \A f \in 1..Len(wire) : wire[f][1][1] < pulled + 1
    BY <1>3, <2>1
  <2> QED BY <1>3, <2>2 DEF BusInv
<1>6. Kept(0, 0)'
  <2>1. \A p : Prefix(p, 0) = <<>>
    BY DEF Prefix
  <2>2. \A p \in 1..pulled' : p \in 1..pulled \/ p = pulled'
    BY <1>3
  <2> QED BY <1>3, <1>4, <2>1, <2>2 DEF Kept, OnWire, Prefix
<1>7. Linked'
  BY <1>3 DEF LossInv, Linked
<1> QED BY <1>3, <1>5, <1>6, <1>7 DEF LossInv

LEMMA FillKept ==
  ASSUME FramesInv, LossInv, Intact, Fill PROVE LossInv'
<1>1. PICK b \in Nat : \E d \in 0..Len(out) : BusInv(b, d) /\ Kept(b, d)
  BY DEF LossInv
<1>2. out = <<>> /\ BusInv(b, 0) /\ Kept(b, 0)
  BY <1>1 DEF Fill, FramesInv, PcInv
<1>3. PICK s \in 0..Len(out') :
        /\ BusInv(b, s)'
        /\ pkt' \/ s > 0 <=> pkt
        /\ ~pkt' /\ s > 0 => b + s = size[pulled]
  BY <1>2, FillBus
<1>4. /\ UNCHANGED <<pulled, size, wire, frame, sync, footers>>
      /\ init_good /\ init_good' = init_good /\ pc' = "xfer"
  BY DEF Fill, macVars
<1>5. Kept(b, s)'
  BY <1>2, <1>3, <1>4 DEF Kept, OnWire, Prefix
<1>6. Linked'
  BY <1>4 DEF LossInv, Linked
<1> QED BY <1>3, <1>5, <1>6 DEF LossInv

\* A chunk of an intact packet finds its beginning and room.
LEMMA KeptContinues ==
  ASSUME FramesInv, NEW b \in Nat, NEW d \in 0..Len(out), BusInv(b, d), Kept(b, d),
         d > 0, sync, out # <<>>, Collect(Head(out)), overrun' = FALSE, overrun = FALSE
  PROVE  Continues(b, d)
<1> USE TxAssumption DEF TxAssumption
<1>1. pulled \in Nat /\ used \in 0..BUFFER /\ frame = Prefix(pulled, b)
  BY DEF FramesInv, Types, Kept
<1>2. Head(out) = Data(b + 1)
  <2>1. Head(out) = out[1] /\ 1 \in 1..Len(out)
    BY DEF FramesInv, Types
  <2> QED BY <2>1 DEF BusInv
<1> DEFINE c == Data(b + 1)
           old == IF c.sv THEN <<>> ELSE frame
           f == Append(old, c.part)
<1>3. /\ c.sv <=> b = 0
      /\ c.ev <=> b + 1 = size[pulled]
      /\ c.part = <<pulled, b + 1>> /\ c.dv
  <2>1. /\ c.sv = (b + 1 = 1)
        /\ c.ev = (b + 1 = size[pulled])
        /\ c.part = <<pulled, b + 1>> /\ c.dv
    BY Zenon DEF Data
  <2>2. b + 1 = 1 <=> b = 0
    OBVIOUS
  <2> QED BY <2>1, <2>2, Zenon
<1>4. Collect(c)
  BY <1>2
<1> HIDE DEF c
<1>5. c.sv \/ frame # <<>>
  <2>1. Len(Prefix(pulled, b)) = b
    BY <1>1, PrefixAppend
  <2>2. b > 0 => Prefix(pulled, b) # <<>>
    BY <2>1
  <2> QED BY <1>1, <1>3, <2>2
<1>6. /\ used # BUFFER /\ used' = used + 1 /\ UNCHANGED overrun
      /\ frame' = IF c.ev THEN <<>> ELSE f
      /\ wire' = IF c.ev THEN Append(wire, f) ELSE wire
  BY <1>3, <1>4, <1>5, Zenon DEF Collect
<1>7. f = Prefix(pulled, b + 1)
  <2>1. old = Prefix(pulled, b)
    <3>1. Prefix(pulled, 0) = <<>>
      BY <1>1, PrefixAppend
    <3> QED BY <1>1, <1>3, <3>1
  <2>2. Append(Prefix(pulled, b), <<pulled, b + 1>>) = Prefix(pulled, b + 1)
    BY <1>1, PrefixAppend
  <2> HIDE DEF old
  <2> QED BY <1>3, <2>1, <2>2
<1>8. used < BUFFER
  BY <1>1, <1>6
<1> HIDE DEF f
<1> QED BY <1>3, <1>6, <1>7, <1>8, Zenon DEF Continues

\* A chunk of an intact packet is collected, and the last one completes it.
LEMMA ExchangeKept ==
  ASSUME FramesInv, CreditInv, LossInv, Intact, Intact', Exchange PROVE LossInv'
<1> USE TxAssumption DEF TxAssumption
<1>1. PICK b \in Nat : \E d \in 0..Len(out) : BusInv(b, d) /\ Kept(b, d)
  BY DEF LossInv
<1>2. PICK d \in 0..Len(out) : BusInv(b, d) /\ Kept(b, d)
  BY <1>1
<1>3. PICK c, e : c = (IF d = 0 THEN b ELSE b + 1) /\ e = (IF d = 0 THEN 0 ELSE d - 1)
  OBVIOUS
<1>4. c \in Nat /\ e \in 0..Len(out') /\ BusInv(c, e)'
  BY <1>2, <1>3, ExchangeBus
<1>5. /\ UNCHANGED <<pulled, size, idx, pkt, sync, init_good>> /\ pc = "xfer" /\ pc' = "xfer"
      /\ pulled \in Nat /\ out # <<>> /\ out[1] = Head(out) /\ Len(out) \in Nat \ {0}
  BY ExchangeRest DEF FramesInv, Types, taskVars
<1>6. sync
  BY <1>5 DEF LossInv, Linked
<1>7. errors = 0 /\ errors' = 0 /\ overrun = FALSE /\ overrun' = FALSE
  <2>1. errors = 0 /\ errors' = 0
    BY DEF Intact
  <2>2. Credited
    BY <2>1 DEF CreditInv
  <2>3. Credited'
    BY <2>1, <2>2, ExchangeCredit
  <2>4. overrun \in BOOLEAN /\ overrun' \in BOOLEAN
    BY ExchangeTypes DEF FramesInv, Types
  <2> QED BY <2>1, <2>2, <2>3, <2>4 DEF Credited
<1>8. PICK hdrb \in BOOLEAN, damaged \in BOOLEAN :
        /\ errors' = errors + (IF hdrb THEN 1 ELSE 0) + (IF damaged THEN 1 ELSE 0)
        /\ IF hdrb THEN frame' = <<>> /\ UNCHANGED <<used, overrun, wire>>
                   ELSE Collect(Head(out))
        /\ footers' = Append(footers, [sync |-> sync, exst |-> overrun', hdrb |-> hdrb,
                                       damaged |-> damaged, txc |-> BUFFER - used'])
  BY <1>6, Zenon DEF Exchange
<1>9. Collect(Head(out))
  <2>1. ~hdrb
    BY <1>7, <1>8
  <2> QED BY <1>8, <2>1, Zenon
<1>10. Linked'
  <2> DEFINE f == [sync |-> sync, exst |-> overrun', hdrb |-> hdrb,
                   damaged |-> damaged, txc |-> BUFFER - used']
  <2>1. f.sync /\ ~f.exst
    BY <1>6, <1>7
  <2>2. footers' \in Seq(Footers) /\ footers \in Seq(Footers)
    BY ExchangeTypes DEF FramesInv, Types
  <2> HIDE DEF f
  <2>3. footers' = Append(footers, f)
    BY <1>8 DEF f
  <2>4. /\ Len(footers) \in Nat /\ Len(footers') = Len(footers) + 1
        /\ \A i \in 1..Len(footers) : footers'[i] = footers[i]
        /\ footers'[Len(footers) + 1] = f
    BY <2>2, <2>3
  <2>5. \A i \in 1..Len(footers') : i \in 1..Len(footers) \/ i = Len(footers) + 1
    BY <2>4
  <2>6. \A i \in 1..Len(footers') : footers'[i].sync /\ ~footers'[i].exst
    BY <2>1, <2>4, <2>5 DEF LossInv, Linked
  <2> QED BY <1>5, <2>6 DEF LossInv, Linked
<1>11. Kept(c, e)'
  <2>1. CASE d = 0
    <3>1. Head(out) = Empty
      BY <1>2, <1>5, <2>1 DEF BusInv
    <3>2. UNCHANGED <<frame, wire>>
      BY <1>9, <3>1, EmptyApart DEF Collect, Ignore
    <3>3. c = b /\ e = 0
      BY <1>3, <2>1
    <3> QED BY <1>2, <1>5, <2>1, <3>2, <3>3 DEF Kept, OnWire, Prefix
  <2>2. CASE d > 0
    <3>1. c = b + 1 /\ e = d - 1 /\ e \in Nat
      BY <1>3, <2>2
    <3>2. Continues(b, d)
      BY <1>2, <1>5, <1>6, <1>7, <1>9, <2>2, KeptContinues
    <3>3. /\ b + d <= size[pulled] /\ size[pulled] \in Nat /\ pulled \in Nat /\ pulled > 0
          /\ pkt => b + d = idx /\ idx < size[pulled] /\ idx \in Nat
          /\ ~pkt => b + d = size[pulled]
      <4>1. /\ b + d <= size[pulled] /\ pulled > 0
            /\ pkt => b + d = idx
            /\ ~pkt => b + d = size[pulled]
        BY <1>2, <2>2 DEF BusInv, Kept
      <4>2. pulled \in Nat /\ size[pulled] \in Nat
        BY <4>1 DEF FramesInv, Types
      <4>3. pkt => idx < size[pulled] /\ idx \in Nat
        BY DEF FramesInv, Types, PcInv
      <4> QED BY <4>1, <4>2, <4>3
    <3>4. CASE b + 1 = size[pulled]
      <4>1. frame' = <<>> /\ wire' = Append(wire, Prefix(pulled, b + 1))
        BY <3>2, <3>4 DEF Continues
      <4>2. ~(pkt' \/ e > 0)
        BY <1>5, <3>1, <3>3, <3>4
      <4> DEFINE w == Prefix(pulled, b + 1)
      <4>3. w \in Seq(Parts) /\ w[1][1] = pulled
        <5>1. b + 1 \in Nat /\ b + 1 > 0
          OBVIOUS
        <5> QED BY <1>5, <5>1, PrefixAppend
      <4>4. wire \in Seq(Seq(Parts))
        BY DEF FramesInv, Types
      <4> HIDE DEF w
      <4>5. /\ Len(wire') = Len(wire) + 1 /\ Len(wire) \in Nat
            /\ \A f \in 1..Len(wire) : wire'[f] = wire[f]
            /\ wire'[Len(wire) + 1] = w
        <5> DEFINE S == Seq(Parts)
        <5> HIDE DEF S
        <5>1. wire \in Seq(S) /\ w \in S /\ wire' = Append(wire, w)
          BY <4>1, <4>3, <4>4 DEF S, w
        <5> QED BY <5>1
      <4>6. \A p \in 1..pulled : OnWire(p)'
        <5> TAKE p \in 1..pulled
        <5>1. CASE p = pulled
          BY <4>3, <4>5, <5>1 DEF OnWire
        <5>2. CASE p # pulled
          <6>1. PICK f \in 1..Len(wire) : wire[f][1][1] = p
            BY <1>2, <5>2 DEF Kept, OnWire
          <6> QED BY <4>5, <6>1 DEF OnWire
        <5> QED BY <5>1, <5>2
      <4> QED BY <1>5, <4>1, <4>2, <4>6 DEF Kept
    <3>5. CASE b + 1 # size[pulled]
      <4>1. frame' = Prefix(pulled, c) /\ wire' = wire
        BY <3>1, <3>2, <3>5 DEF Continues
      <4>2. pkt' \/ e > 0
        BY <1>5, <3>1, <3>3, <3>5
      <4>3. ~pkt' /\ e > 0 => c + e = size'[pulled']
        BY <1>5, <3>1, <3>3
      <4>4. \A p \in 1..pulled' : OnWire(p)' \/ p = pulled'
        BY <1>2, <1>5, <4>1 DEF Kept, OnWire
      <4>5. frame' = Prefix(pulled, c)'
        BY <1>5, <4>1 DEF Prefix
      <4> QED BY <1>5, <4>2, <4>3, <4>4, <4>5 DEF Kept
    <3> QED BY <3>4, <3>5
  <2> QED BY <2>1, <2>2
<1> QED BY <1>4, <1>10, <1>11 DEF LossInv

\* With every footer sound, each one is taken for its credits.
LEMMA FooterKept ==
  ASSUME FramesInv, CreditInv, LossInv, Intact, Intact', ProcessFooter PROVE LossInv'
<1>1. /\ footers # <<>> /\ footers \in Seq(Footers)
      /\ UNCHANGED <<pulled, size, idx, start, pc, out, macVars>>
      /\ Footer(Head(footers))
  BY DEF ProcessFooter, FramesInv, Types
<1>2. Head(footers) = footers[1] /\ 1 \in 1..Len(footers)
  BY <1>1
<1>3. ~footers[1].damaged /\ ~footers[1].hdrb
  BY <1>2 DEF CreditInv, Credited, Intact
<1>4. footers[1].sync /\ ~footers[1].exst
  BY <1>2 DEF LossInv, Linked
<1>5. footers' = Tail(footers) /\ UNCHANGED <<pkt, init_good>>
  BY <1>1, <1>2, <1>3, <1>4, Zenon DEF Footer
<1>6. Linked'
  <2>1. /\ Len(footers') = Len(footers) - 1
        /\ \A i \in 1..Len(footers') : i + 1 \in 1..Len(footers)
                                       /\ footers'[i] = footers[i + 1]
    BY <1>1, <1>5
  <2>2. \A i \in 1..Len(footers') : footers'[i].sync /\ ~footers'[i].exst
    BY <2>1 DEF LossInv, Linked
  <2> QED BY <1>1, <1>5, <2>2 DEF LossInv, Linked, macVars
<1> QED BY <1>1, <1>5, <1>6, KeptStill DEF macVars

LEMMA LossStep ==
  ASSUME FramesInv, CreditInv, LossInv, [Next]_vars PROVE LossInv'
<1> SUFFICES ASSUME Intact' PROVE LossInv'
  BY DEF LossInv
<1>0. Intact /\ Linked
  BY IntactBefore DEF LossInv
<1> USE <1>0 DEF taskVars, macVars
<1>1. CASE UNCHANGED vars
  BY <1>1, KeptStill DEF vars, Linked
<1>2. CASE InitMacphy
  <2>1. ~sync /\ frame = <<>> /\ footers = <<>>
    BY <1>2 DEF InitMacphy, Linked, FramesInv, FrameInv, PcInv
  <2>2. footers' = <<>> /\ sync' = init_good'
    BY <1>2, <2>1 DEF InitMacphy
  <2>3. Linked'
    BY <1>2, <2>2 DEF InitMacphy, Linked
  <2> QED BY <1>2, <2>1, <2>3, KeptStill DEF InitMacphy
<1>3. CASE TransferDone
  <2>1. Linked'
    BY <1>3 DEF TransferDone, Linked
  <2> QED BY <1>3, <2>1, KeptStill DEF TransferDone
<1>4. CASE LoopAgain
  <2>1. Linked'
    BY <1>4 DEF LoopAgain, Linked
  <2> QED BY <1>4, <2>1, KeptStill DEF LoopAgain
<1>5. CASE MacphySends
  <2>1. Linked'
    BY <1>5 DEF MacphySends, Linked
  <2> QED BY <1>5, <2>1, KeptStill DEF MacphySends
<1>6. CASE MacphyResets
  BY <1>6 DEF MacphyResets, Intact, FramesInv, Types
<1>7. CASE Pull
  BY <1>7, PullKept
<1>8. CASE Fill
  BY <1>8, FillKept
<1>9. CASE Exchange
  BY <1>9, ExchangeKept
<1>10. CASE ProcessFooter
  BY <1>10, FooterKept
<1> QED BY <1>1, <1>2, <1>3, <1>4, <1>5, <1>6, <1>7, <1>8, <1>9, <1>10 DEF Next, Task

LEMMA LossInit == Init => LossInv
<1> SUFFICES ASSUME Init PROVE Linked /\ BusInv(0, 0) /\ Kept(0, 0) /\ 0 \in 0..Len(out)
  BY DEF LossInv
<1>1. Linked
  <2>1. sync = init_good /\ pc = "loop"
    BY Zenon DEF Init
  <2>2. Len(footers) = 0
    BY DEF Init
  <2> QED BY <2>1, <2>2 DEF Linked
<1>3. 0 \in 0..Len(out)
  BY DEF Init
<1>2. BusInv(0, 0)
  BY DEF Init, BusInv
<1> QED BY <1>1, <1>2, <1>3 DEF Init, Kept

\* The last chunk of a freed packet that is not sent is in the transfer.
LEMMA LossNothing == FramesInv /\ LossInv => NothingLost
<1> SUFFICES ASSUME FramesInv, LossInv, Intact, NEW p \in 1..pulled, ~OnWire(p)
             PROVE  \/ p = pulled /\ pkt
                    \/ \E i \in 1..Len(out) : out[i].dv /\ out[i].part = <<p, size[p]>>
  BY DEF NothingLost, Intact, OnWire
<1>1. PICK b \in Nat : \E d \in 0..Len(out) : BusInv(b, d) /\ Kept(b, d)
  BY DEF LossInv
<1>2. PICK d \in 0..Len(out) : BusInv(b, d) /\ Kept(b, d)
  BY <1>1
<1>3. p = pulled /\ (pkt \/ d > 0)
  BY <1>2 DEF Kept
<1>4. ASSUME ~pkt
      PROVE  \E i \in 1..Len(out) : out[i].dv /\ out[i].part = <<p, size[p]>>
  <2>1. d > 0 /\ b + d = size[pulled]
    BY <1>2, <1>3, <1>4 DEF Kept
  <2>2. Len(out) \in Nat
    BY DEF FramesInv, Types
  <2>3. d \in 1..Len(out) /\ d <= d
    BY <2>1, <2>2
  <2>4. out[d] = Data(b + d)
    BY <1>2, <2>3 DEF BusInv
  <2>5. Data(b + d).dv /\ Data(b + d).part = <<pulled, b + d>>
    BY Zenon DEF Data
  <2> QED BY <1>3, <2>1, <2>3, <2>4, <2>5
<1> QED BY <1>3, <1>4

\* While no bit is damaged and the MACPHY is not reset, a packet the task has
\* freed is sent or has its last chunk on the way: flow control and the split into
\* chunks lose nothing (fill_tx_chunk frees tx_.pkt before its chunks are sent).
THEOREM NothingLostCorrect == Spec => []NothingLost
<1>1. Init => CreditInv
  BY DEF Init, CreditInv, Credited
<1>2. FramesInv /\ CreditInv /\ [Next]_vars => CreditInv'
  BY CreditStep
<1>3. FramesInv /\ CreditInv /\ LossInv /\ [Next]_vars => LossInv'
  BY LossStep
<1> QED BY <1>1, <1>2, <1>3, LossInit, LossNothing, FramesCorrect, PTL DEF Spec
=============================================================================
