------------------------------- MODULE OaspiRx -------------------------------
(***************************************************************************)
(* How eth_task of nxp/lpc1549_oaspi puts received frames together from    *)
(* OASPI chunks (src/eth.cpp: add_rx_buffer and process_rx_chunk).         *)
(*                                                                         *)
(* Data is counted in units of four bytes, the unit of a start offset and  *)
(* of half a 64-bit timestamp.  A unit is <<f, i, n>>: unit i of frame f,  *)
(* which has n, or with -i unit i of the timestamp in front of it.  The    *)
(* FCS accepts exactly the units of one whole frame in order.              *)
(*                                                                         *)
(* The MACPHY is external.  It sends frames one after the other, each with *)
(* a timestamp or without, starting a frame in the chunk where the last    *)
(* one ends or in a later one, and may drop a frame at its end.  A chunk   *)
(* is processed, or is in error, and with it are lost the chunks after it  *)
(* in the same transfer.                                                   *)
(***************************************************************************)
EXTENDS Integers, Sequences

CONSTANTS
  FRAMES,     \* bound on the frames the MACPHY sends
  SIZES,      \* sizes of a frame, in units
  CHUNK,      \* units in a chunk
  TS_UNITS,   \* units of a timestamp: 2 if ts_time64, else 1
  BUF,        \* units a packet buffer holds
  MIN_LEN,    \* units of the shortest frame accepted
  ERRORS      \* bound on the chunks in error

ASSUME RxAssumption ==
  /\ FRAMES \in Nat /\ SIZES \subseteq Nat \ {0} /\ SIZES # {}
  /\ CHUNK \in Nat \ {0} /\ TS_UNITS \in {1, 2} /\ BUF \in Nat \ {0}
  /\ MIN_LEN \in Nat /\ ERRORS \in Nat
  /\ BUF >= CHUNK + TS_UNITS - 1

VARIABLES
  sent,       \* the frames the MACPHY has started: size, timestamp and fate
  left,       \* units of the last of them still to be put in chunks
  lossy,      \* the transfer under way has failed: its chunks are lost
  errors,     \* chunks in error so far
  lost,       \* frames with a chunk that was not processed
  buf,        \* rx_.pkt->buf_ up to rx_.len
  ts_expect,  \* rx_.ts_expect
  ts_good,    \* the units to be read as the timestamp match rx_.ts_parity
  ts,         \* rx_.pkt->timestamp: a frame's, none, or one read from other bytes
  given       \* the frames given to the callbacks, each with its timestamp

macVars == <<sent, left>>
taskVars == <<buf, ts_expect, ts_good, ts, given>>
vars == <<macVars, lossy, errors, lost, taskVars>>

None == 0
Wrong == -1

Init ==
  /\ sent = <<>> /\ left = <<>> /\ lossy = FALSE /\ errors = 0 /\ lost = {}
  /\ buf = <<>> /\ ts_expect = FALSE /\ ts_good = FALSE /\ ts = None
  /\ given = <<>>

Take(s, n) == SubSeq(s, 1, n)
Drop(s, n) == SubSeq(s, n + 1, Len(s))

-----------------------------------------------------------------------------
(* eth_task's variables, as a record that the steps of one chunk pass on *)

Rx == [buf |-> buf, expect |-> ts_expect, good |-> ts_good, ts |-> ts, given |-> given]

Become(rx) ==
  /\ buf' = rx.buf /\ ts_expect' = rx.expect /\ ts_good' = rx.good
  /\ ts' = rx.ts /\ given' = rx.given

Dropped(rx) == [rx EXCEPT !.buf = <<>>]

fcs_check(units) ==
  units # <<>> /\ LET f == units[1][1]
                      n == units[1][3]
                  IN units = [i \in 1..n |-> <<f, i, n>>]

\* What the start of a frame in chunk c resets.
ts_reset(rx, c) == [rx EXCEPT !.ts = None, !.expect = c.rtsa, !.good = c.rtsp]

\* The time units are read as: a frame's, if they are its timestamp; but after an
\* error, which leaves ts_expect set, they may be of the data of a frame.
time_in(units) ==
  LET f == units[1][1]
      n == units[1][3]
  IN IF units = [i \in 1..TS_UNITS |-> <<f, -i, n>>] THEN f ELSE Wrong

\* As soon as the buffer has the units of a timestamp they are taken off it, and
\* the time is kept if their parity is right.
take_timestamp(rx) ==
  IF rx.expect /\ Len(rx.buf) >= TS_UNITS
    THEN [rx EXCEPT !.ts = IF rx.good THEN time_in(Take(rx.buf, TS_UNITS)) ELSE @,
                    !.buf = Drop(@, TS_UNITS), !.expect = FALSE]
    ELSE rx

\* Mutant: pkt_alloc leaves the timestamp of the frame before in the new buffer.
finish_stale(rx) ==
  IF Len(rx.buf) >= MIN_LEN /\ fcs_check(rx.buf)
    THEN [Dropped(rx) EXCEPT !.given = Append(@, [frame |-> rx.buf[1][1], ts |-> rx.ts])]
    ELSE Dropped(rx)

\* The end of a frame: an intact one is given to the callbacks, and the next is
\* received in a new buffer.  One for want of which a frame is dropped
\* (EthBridge has that case) is always there.
finish(rx) ==
  IF Len(rx.buf) >= MIN_LEN /\ fcs_check(rx.buf)
    THEN [Dropped(rx) EXCEPT !.given = Append(@, [frame |-> rx.buf[1][1], ts |-> rx.ts]),
                             !.ts = None]
    ELSE Dropped(rx)

\* Mutant: only what is in the buffer already is compared with its size.
too_long_before(rx, units) == Len(rx.buf) > BUF

too_long(rx, units) == Len(rx.buf) + Len(units) > BUF

add_rx_buffer(rx, units, start, end) ==
  LET old == IF start THEN Dropped(rx) ELSE rx
      new == take_timestamp([old EXCEPT !.buf = @ \o units])
  IN IF too_long(old, units)
       THEN Dropped(old)                            \* too long, drop
       ELSE IF end THEN finish(new) ELSE new

\* Mutant: a frame the MACPHY dropped is taken as any other.
end_frame_undropped(rx, c) == add_rx_buffer(rx, Take(c.data, c.ebo), FALSE, TRUE)

\* The data of a chunk up to the end in it, of a frame MACPHY may have dropped;
\* from the start in it; and both when a frame starts after the end of another.
end_frame(rx, c) ==
  IF c.fd THEN Dropped(rx) ELSE add_rx_buffer(rx, Take(c.data, c.ebo), FALSE, TRUE)

start_frame(rx, c) == add_rx_buffer(ts_reset(rx, c), Drop(c.data, c.swo), TRUE, FALSE)

whole_frame(rx, c) ==
  IF c.fd THEN Dropped(rx)
          ELSE add_rx_buffer(ts_reset(rx, c), Drop(Take(c.data, c.ebo), c.swo), TRUE, TRUE)

\* Mutant: after the end of another frame a start resets no timestamp.
end_and_start_stale(rx, c) ==
  add_rx_buffer(end_frame(rx, c), Drop(c.data, c.swo), TRUE, FALSE)

end_and_start(rx, c) == start_frame(end_frame(rx, c), c)

receive(rx, c) ==
  CASE ~c.dv                           -> rx
    [] c.dv /\ ~c.sv /\ ~c.ev          -> add_rx_buffer(rx, c.data, FALSE, FALSE)
    [] c.sv /\ ~c.ev                   -> start_frame(rx, c)
    [] c.ev /\ ~c.sv                   -> end_frame(rx, c)
    [] c.sv /\ c.ev /\ c.swo < c.ebo   -> whole_frame(rx, c)
    [] c.sv /\ c.ev /\ c.swo >= c.ebo  -> end_and_start(rx, c)

\* The chunk c, of the frames fs, is processed; or is in error (handle_error,
\* handle_reset), and whether units of another place match the parity that is
\* kept is left to chance; or comes after one that was in the same transfer.
Process(c, fs) ==
  \/ /\ Become(receive(Rx, c))
     /\ lossy' = FALSE
     /\ UNCHANGED <<errors, lost>>
  \/ /\ errors < ERRORS /\ errors' = errors + 1
     /\ \E good \in BOOLEAN : Become([Dropped(Rx) EXCEPT !.good = good])
     /\ lossy' = TRUE
     /\ lost' = lost \cup fs
  \/ /\ lossy
     /\ lost' = lost \cup fs
     /\ UNCHANGED <<lossy, errors, taskVars>>

-----------------------------------------------------------------------------
(* The MACPHY *)

\* The units of the next frame, of n units, with a timestamp if stamped.
Units(n, stamped) ==
  LET f == Len(sent) + 1
  IN (IF stamped THEN [i \in 1..TS_UNITS |-> <<f, -i, n>>] ELSE <<>>)
       \o [i \in 1..n |-> <<f, i, n>>]

Pad(n) == [i \in 1..n |-> <<0, 0, 0>>]

Plain == [dv |-> TRUE, sv |-> FALSE, ev |-> FALSE, swo |-> 0, ebo |-> 0,
          fd |-> FALSE, rtsa |-> FALSE, rtsp |-> FALSE, data |-> <<>>]
WithData(c, units) == [c EXCEPT !.data = units]

\* Whether the frame that ends is dropped is known at its end.
Fate(fd) == [sent EXCEPT ![Len(sent)].dropped = fd]

\* A chunk without data, between frames or inside one.
ChunkEmpty ==
  /\ UNCHANGED macVars
  /\ Process(WithData([Plain EXCEPT !.dv = FALSE], Pad(CHUNK)),
             IF left = <<>> THEN {} ELSE {Len(sent)})

\* A chunk wholly inside a frame.
ChunkInside ==
  /\ Len(left) > CHUNK
  /\ left' = Drop(left, CHUNK)
  /\ UNCHANGED sent
  /\ Process(WithData(Plain, Take(left, CHUNK)), {Len(sent)})

\* A chunk a frame ends in and no other starts in.
ChunkEnding ==
  /\ Len(left) \in 1..CHUNK
  /\ left' = <<>>
  /\ \E fd \in BOOLEAN :
       /\ sent' = Fate(fd)
       /\ Process(WithData([Plain EXCEPT !.ev = TRUE, !.ebo = Len(left), !.fd = fd],
                           left \o Pad(CHUNK - Len(left))), {Len(sent)})

\* A chunk the next frame starts in, at swo: after the end of the frame before,
\* or alone, and then it may end in the chunk too.
ChunkStarting ==
  /\ Len(sent) < FRAMES /\ Len(left) < CHUNK
  /\ \E n \in SIZES, stamped, good, fd \in BOOLEAN, swo \in Len(left)..CHUNK - 1 :
       LET units  == Units(n, stamped)
           before == left # <<>>
           fits   == Len(units) <= CHUNK - swo
           start  == [Plain EXCEPT !.sv = TRUE, !.swo = swo, !.rtsa = stamped, !.rtsp = good]
           end    == [start EXCEPT !.ev = TRUE, !.fd = fd,
                                   !.ebo = IF before THEN Len(left) ELSE swo + Len(units)]
           data   == left \o Pad(swo - Len(left)) \o units \o Pad(CHUNK)
           frame  == [size |-> n, stamped |-> stamped, good |-> good,
                      dropped |-> fits /\ fd]
       IN /\ ~(before /\ fits)                      \* a chunk has one end
          /\ fd => before \/ fits
          /\ left' = Drop(units, CHUNK - swo)
          /\ sent' = Append(IF before THEN Fate(fd) ELSE sent, frame)
          /\ Process(WithData(IF before \/ fits THEN end ELSE start, Take(data, CHUNK)),
                     {Len(sent) + 1} \cup (IF before THEN {Len(sent)} ELSE {}))

\* The transfer that failed is over.
NextTransfer ==
  /\ lossy /\ lossy' = FALSE
  /\ UNCHANGED <<macVars, errors, lost, taskVars>>

Next == ChunkEmpty \/ ChunkInside \/ ChunkEnding \/ ChunkStarting \/ NextTransfer

Spec == Init /\ [][Next]_vars

-----------------------------------------------------------------------------
(* Properties *)

TypeOK ==
  /\ Len(sent) <= FRAMES /\ errors \in 0..ERRORS /\ lost \subseteq 1..Len(sent)
  /\ Len(buf) <= BUF
  /\ {lossy, ts_expect, ts_good} \subseteq BOOLEAN
  /\ ts \in {None, Wrong} \cup 1..Len(sent)
  /\ Len(given) <= Len(sent)

\* The frames that have ended.
Ended == 1..(IF left = <<>> THEN Len(sent) ELSE Len(sent) - 1)

Acceptable(f) == sent[f].size \in MIN_LEN..BUF /\ ~sent[f].dropped

\* Frames are given whole, in order and at most once, and none that MACPHY
\* dropped or that is too short or too long.
GivenInOrder ==
  /\ \A g \in 1..Len(given) : given[g].frame \in Ended /\ Acceptable(given[g].frame)
  /\ \A g \in 1..Len(given) - 1 : given[g].frame < given[g + 1].frame

\* However many chunks before it were lost, a frame all of whose chunks are
\* processed is given, with its own timestamp if it has a good one, else none.
WholeFrameGiven ==
  \A f \in Ended \ lost : Acceptable(f) =>
    \E g \in 1..Len(given) :
      given[g] = [frame |-> f, ts |-> IF sent[f].stamped /\ sent[f].good THEN f ELSE None]

\* An error can give a frame the timestamp of another (OwnTimestamp), and two can
\* give it a time read from the data of one (Wrong).  Of the times the MACPHY sent,
\* none is given with a frame before its own, twice, or after a later one.
StampsInOrder ==
  /\ \A g \in 1..Len(given) : given[g].ts <= given[g].frame
  /\ \A g, h \in 1..Len(given) :
       g < h /\ given[g].ts > None /\ given[h].ts > None => given[g].ts < given[h].ts

\* A frame is never given with the timestamp of another, which an error has
\* dropped: handle_error is to drop the packet, not all of it but its timestamp.
OwnTimestamp == \A g \in 1..Len(given) : given[g].ts \in {None, given[g].frame}
=============================================================================
