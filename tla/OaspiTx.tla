------------------------------- MODULE OaspiTx -------------------------------
(***************************************************************************)
(* How eth_task of nxp/lpc1549_oaspi cuts packets into OASPI chunks and    *)
(* keeps to the credits the MACPHY reports (src/eth.cpp: fill_tx_chunk,    *)
(* task and the footer checks of process_rx_chunk).                        *)
(*                                                                         *)
(* A transfer carries num_chunks chunks to the MACPHY and a footer back    *)
(* for each; the task looks at the footers only when the whole transfer    *)
(* is over, and stops at the first one in error.  Every footer reports the *)
(* chunks then free in the MACPHY's buffer.                                *)
(*                                                                         *)
(* The MACPHY is external.  It collects the chunks of a frame from a start *)
(* to an end, drops what does not follow a start, and loses the frame when *)
(* a header is damaged or its buffer is full.  A full buffer is a status   *)
(* configure() leaves unmasked, so footers report it until the next reset. *)
(***************************************************************************)
EXTENDS Naturals, Sequences, FiniteSets

CONSTANTS
  PACKETS,      \* packets that will be queued, numbered from 1
  PKT_CHUNKS,   \* chunks of the longest packet
  MAX_CHUNKS,   \* chunks in one SPI data transfer
  BUFFER,       \* chunks the MACPHY's transmit buffer holds
  RESETS,       \* bound on the spontaneous resets of the MACPHY
  BIT_ERRORS,   \* bound on the headers and footers damaged on the SPI bus
  MIN_LATENCY   \* CONFIG_ETH_MIN_LATENCY is defined

ASSUME TxAssumption ==
  /\ PACKETS \in Nat /\ PKT_CHUNKS \in Nat \ {0} /\ MAX_CHUNKS \in Nat \ {0}
  /\ BUFFER \in Nat \ {0} /\ RESETS \in Nat /\ BIT_ERRORS \in Nat
  /\ MIN_LATENCY \in BOOLEAN
  /\ MIN_LATENCY => MAX_CHUNKS >= PKT_CHUNKS /\ BUFFER >= PKT_CHUNKS

VARIABLES
  pulled,     \* packets taken from tx_.reqs so far; the last is tx_.pkt's
  size,       \* size[p]: chunks of the pulled packet p
  pkt,        \* tx_.pkt is not null
  idx,        \* tx_.idx, in chunks
  start,      \* tx_.start
  free,       \* tx_.free_chunks
  init_good,  \* task_.init_good
  pc,         \* where eth_task is: "loop", "xfer" or "rx"
  out,        \* tx_.chunks still to be transferred
  footers,    \* footers of rx_.chunks still to be processed
  used,       \* MACPHY: chunks in its transmit buffer
  frame,      \* MACPHY: the chunks of the frame it is collecting
  sync,       \* MACPHY: it is configured
  overrun,    \* MACPHY: a chunk found its buffer full
  wire,       \* the frames it has sent
  resets,     \* resets so far
  errors      \* bit errors so far

taskVars == <<pulled, size, pkt, idx, start, free, init_good>>
macVars == <<used, frame, sync, overrun, wire, resets, errors>>
vars == <<taskVars, pc, out, footers, macVars>>

Min2(a, b) == IF a < b THEN a ELSE b
Max2(a, b) == IF a > b THEN a ELSE b

Init ==
  /\ pulled = 0 /\ size = <<>> /\ pkt = FALSE /\ idx = 0 /\ start = FALSE
  /\ free = 0 /\ init_good = FALSE /\ pc = "loop"
  /\ out = <<>> /\ footers = <<>>
  /\ used = 0 /\ frame = <<>> /\ sync = FALSE /\ overrun = FALSE
  /\ wire = <<>> /\ resets = 0 /\ errors = 0

-----------------------------------------------------------------------------
(* eth_task *)

\* OASPI::reset resets and configures the MACPHY, or finds it dead.
InitMacphy ==
  /\ pc = "loop" /\ ~init_good
  /\ init_good' = TRUE
  /\ used' = 0 /\ frame' = <<>> /\ sync' = TRUE /\ overrun' = FALSE
  /\ UNCHANGED <<pulled, size, pkt, idx, start, free, pc, out, footers, wire,
                 resets, errors>>

\* The next packet, of any length, if one has been queued by now.
pull_next ==
  /\ pc = "loop" /\ init_good /\ ~pkt /\ pulled < PACKETS
  /\ pulled' = pulled + 1
  /\ \E n \in 1..PKT_CHUNKS : size' = Append(size, n)
  /\ pkt' = TRUE /\ idx' = 0
  /\ UNCHANGED <<free, init_good, pc, out, footers, macVars>>

\* Mutant: it is not marked as being at its start.
Pull_unstarted == pull_next /\ UNCHANGED start

Pull == pull_next /\ start' = TRUE

\* Chunks wanted, chunks given, and the length r received chunks allow for.
tx_prefer == IF pkt THEN size[pulled] - idx ELSE 0

\* Mutants: a packet is started whether it fits or not; one that just fits is not.
tx_chunks_uncredited == tx_prefer
tx_chunks_strict == IF free > tx_prefer THEN tx_prefer ELSE 0

tx_chunks == IF MIN_LATENCY
               THEN IF free >= tx_prefer THEN tx_prefer ELSE 0
               ELSE Min2(free, tx_prefer)

\* Mutants: no lower bound of one chunk; no upper bound of MAX_CHUNKS.
num_chunks_none(r) == Min2(Max2(tx_chunks, r), MAX_CHUNKS)
num_chunks_unbounded(r) == Max2(Max2(tx_chunks, r), 1)

num_chunks(r) == Min2(Max2(Max2(tx_chunks, r), 1), MAX_CHUNKS)

rx_chunks == IF MIN_LATENCY THEN {1} ELSE 0..MAX_CHUNKS

\* The chunks of one transfer: data until the credits or the packet end, then
\* empty ones.  The first chunk of a packet has SV, its last one EV.
Empty == [dv |-> FALSE]

\* Mutant: SV on the first chunk of every transfer.
Chunk_sv(i) == [dv |-> TRUE, sv |-> i = 1, ev |-> idx + i = size[pulled],
                part |-> <<pulled, idx + i>>]

Chunk(i) == [dv |-> TRUE, sv |-> start /\ i = 1, ev |-> idx + i = size[pulled],
             part |-> <<pulled, idx + i>>]

\* fill_tx_chunk for each chunk of the transfer; a packet cut to its end is
\* freed.
Fill ==
  /\ pc = "loop" /\ init_good
  /\ \E r \in rx_chunks :
       LET n == num_chunks(r)
           sent == Min2(n, tx_chunks)
           done == pkt /\ sent = tx_prefer
       IN /\ out' = [i \in 1..n |-> IF i <= sent THEN Chunk(i) ELSE Empty]
          /\ idx' = IF done THEN 0 ELSE idx + sent
          /\ start' = (start /\ sent = 0)
          /\ free' = free - sent
          /\ pkt' = (pkt /\ ~done)
  /\ pc' = "xfer"
  /\ UNCHANGED <<pulled, size, init_good, footers, macVars>>

\* The data transfer is over.
TransferDone ==
  /\ pc = "xfer" /\ out = <<>>
  /\ pc' = "rx"
  /\ UNCHANGED <<taskVars, out, footers, macVars>>

\* handle_error and handle_reset of process_rx_chunk.
handle_error == pkt' = FALSE /\ UNCHANGED <<free, init_good>>
handle_reset == init_good' = FALSE /\ free' = 1 /\ UNCHANGED pkt

\* process_rx_chunk on the footer f, which ends the transfer if in error.
Footer(f) ==
  IF f.damaged THEN handle_error /\ footers' = <<>>
  ELSE IF ~f.sync \/ f.exst THEN handle_reset /\ footers' = <<>>
  ELSE IF f.hdrb THEN handle_error /\ footers' = <<>>
  ELSE /\ free' = f.txc
       /\ footers' = Tail(footers)
       /\ UNCHANGED <<pkt, init_good>>

ProcessFooter ==
  /\ pc = "rx" /\ footers # <<>>
  /\ Footer(Head(footers))
  /\ UNCHANGED <<pulled, size, idx, start, pc, out, macVars>>

LoopAgain ==
  /\ pc = "rx" /\ footers = <<>>
  /\ pc' = "loop"
  /\ UNCHANGED <<taskVars, out, footers, macVars>>

-----------------------------------------------------------------------------
(* The MACPHY and the SPI bus *)

\* What the MACPHY does with the chunk c: its new buffer use, frame, overrun
\* and frames sent.
Ignore == UNCHANGED <<used, frame, overrun, wire>>

Collect(c) ==
  IF ~c.dv \/ (~c.sv /\ frame = <<>>) THEN Ignore
  ELSE IF used = BUFFER
    THEN overrun' = TRUE /\ frame' = <<>> /\ UNCHANGED <<used, wire>>
    ELSE LET f == Append(IF c.sv THEN <<>> ELSE frame, c.part)
         IN /\ used' = used + 1
            /\ frame' = IF c.ev THEN <<>> ELSE f
            /\ wire' = IF c.ev THEN Append(wire, f) ELSE wire
            /\ UNCHANGED overrun

\* One chunk over the bus, its header and the footer intact or not.
Exchange ==
  /\ pc = "xfer" /\ out # <<>>
  /\ out' = Tail(out)
  /\ \E hdrb, damaged \in BOOLEAN :
       /\ errors' = errors + (IF hdrb THEN 1 ELSE 0) + (IF damaged THEN 1 ELSE 0)
       /\ errors' <= BIT_ERRORS
       /\ IF ~sync THEN Ignore
          ELSE IF hdrb THEN frame' = <<>> /\ UNCHANGED <<used, overrun, wire>>
          ELSE Collect(Head(out))
       /\ footers' = Append(footers, [sync |-> sync, exst |-> overrun', hdrb |-> hdrb,
                                      damaged |-> damaged, txc |-> BUFFER - used'])
  /\ UNCHANGED <<taskVars, pc, sync, resets>>

\* A chunk leaves the buffer for the line.
MacphySends ==
  /\ used > 0
  /\ used' = used - 1
  /\ UNCHANGED <<taskVars, pc, out, footers, frame, sync, overrun, wire, resets, errors>>

\* The MACPHY loses its configuration and what it holds.
MacphyResets ==
  /\ sync /\ resets < RESETS
  /\ resets' = resets + 1
  /\ sync' = FALSE /\ used' = 0 /\ frame' = <<>> /\ overrun' = FALSE
  /\ UNCHANGED <<taskVars, pc, out, footers, wire, errors>>

Task == InitMacphy \/ Pull \/ Fill \/ Exchange \/ TransferDone \/ ProcessFooter \/ LoopAgain

Next == Task \/ MacphySends \/ MacphyResets

Spec == Init /\ [][Next]_vars

\* The task runs and its transfers end; the line takes what is buffered.
FairSpec == Spec /\ WF_vars(Task) /\ WF_vars(MacphySends)

-----------------------------------------------------------------------------
(* Properties *)

TypeOK ==
  /\ pulled \in 0..PACKETS /\ Len(size) = pulled
  /\ \A p \in 1..pulled : size[p] \in 1..PKT_CHUNKS
  /\ {pkt, start, init_good, sync, overrun} \subseteq BOOLEAN
  /\ idx \in 0..PKT_CHUNKS - 1 /\ free \in 0..BUFFER /\ used \in 0..BUFFER
  /\ pc \in {"loop", "xfer", "rx"}
  /\ Len(out) <= MAX_CHUNKS /\ Len(footers) <= MAX_CHUNKS
  /\ Len(frame) < PKT_CHUNKS

\* Whatever is lost or reset in between, a frame the MACPHY completes is one
\* packet from its first chunk to its last, never the end of one after the
\* start of another, and no packet goes out twice or after a later one.
WholeFramesInOrder ==
  /\ \A f \in 1..Len(wire) : LET p == wire[f][1][1] IN
       wire[f] = [i \in 1..size[p] |-> <<p, i>>]
  /\ \A f \in 1..Len(wire) - 1 : wire[f][1][1] < wire[f + 1][1][1]

\* Chunks are sent only on credit: the MACPHY's buffer never overruns.
NeverOverrun == ~overrun

\* While nothing on the bus or in the MACPHY has failed, a packet that is freed
\* is sent or in the transfer under way: flow control alone loses nothing.
NothingLost ==
  errors = 0 /\ resets = 0 =>
    \A p \in 1..pulled :
      \/ \E f \in 1..Len(wire) : wire[f][1][1] = p
      \/ p = pulled /\ pkt
      \/ \E i \in 1..Len(out) : out[i].dv /\ out[i].part = <<p, size[p]>>

\* A packet in progress is completed or dropped in the end: the task never
\* waits for credits it does not ask for.
PacketEnds == pkt ~> ~pkt
=============================================================================
