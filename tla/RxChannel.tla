------------------------------ MODULE RxChannel ------------------------------
(***************************************************************************)
(* What the bridge of nxp/lpc1549_oaspi promises the USB host about the    *)
(* frames it receives from the line, whatever the tasks, queues and        *)
(* buffers do: a frame offered to the host is taken, unless so many wait   *)
(* already that the host "doesn't query in time"; those taken reach the    *)
(* host in order, each exactly once.  EthBridge implements this module.    *)
(***************************************************************************)
EXTENDS Naturals, Sequences

CONSTANTS
  Packets,   \* buffers a frame may be in
  CAPACITY   \* frames the channel holds at most

VARIABLES
  q,         \* the frames on their way to the host, oldest first
  refused    \* the frame just received was not taken

vars == <<q, refused>>

TypeOK ==
  /\ q \in Seq(Packets) /\ Len(q) <= CAPACITY
  /\ refused \in BOOLEAN

Init == q = <<>> /\ refused = FALSE

\* Take a frame in a buffer the channel does not hold.
Take(p) ==
  /\ ~refused
  /\ Len(q) < CAPACITY
  /\ p \notin {q[i] : i \in DOMAIN q}
  /\ q' = Append(q, p)
  /\ UNCHANGED refused

\* Refuse it, which is only allowed when the channel is full, or one short of
\* that: the place of the frame being handed over cannot be used.
Refuse ==
  /\ ~refused
  /\ Len(q) >= CAPACITY - 1
  /\ refused' = TRUE
  /\ UNCHANGED q

\* The buffer of a refused frame is used for the next one.
Forget ==
  /\ refused
  /\ refused' = FALSE
  /\ UNCHANGED q

\* The oldest frame is copied into a block for the host.
Deliver ==
  /\ q # <<>>
  /\ q' = Tail(q)
  /\ UNCHANGED refused

Next == (\E p \in Packets : Take(p)) \/ Refuse \/ Forget \/ Deliver

Spec == Init /\ [][Next]_vars
=============================================================================
