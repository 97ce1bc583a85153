------------------------------ MODULE TxChannel ------------------------------
(***************************************************************************)
(* What the bridge of nxp/lpc1549_oaspi promises the USB host about the    *)
(* datagrams it sends, whatever the tasks, queues and buffers do: they are *)
(* taken one by one into a bounded channel, leave it in order, each at     *)
(* most once, and one that is refused is offered again when room may have  *)
(* appeared.  EthBridge implements this module.                            *)
(***************************************************************************)
EXTENDS Naturals, Sequences

CONSTANTS
  Packets,   \* buffers a datagram may be in
  CAPACITY   \* datagrams the channel holds

ASSUME CapacityAssumption == CAPACITY \in Nat \ {0}

VARIABLES
  q,         \* the datagrams in the channel, oldest first
  stalled,   \* the host's next datagram was refused
  due        \* the refused datagram is to be offered again

vars == <<q, stalled, due>>

TypeOK ==
  /\ q \in Seq(Packets) /\ Len(q) <= CAPACITY
  /\ stalled \in BOOLEAN /\ due \in BOOLEAN

Init == q = <<>> /\ stalled = FALSE /\ due = FALSE

\* Take a datagram in a buffer the channel does not hold.
Accept(p) ==
  /\ Len(q) < CAPACITY
  /\ p \notin {q[i] : i \in DOMAIN q}
  /\ q' = Append(q, p)
  /\ stalled' = FALSE

\* Refuse it, which is only allowed while a datagram is still in the channel:
\* its leaving is what makes the refused one due.
Refuse ==
  /\ q # <<>>
  /\ stalled' = TRUE
  /\ UNCHANGED q

HostSends == (Refuse \/ \E p \in Packets : Accept(p)) /\ UNCHANGED due

\* Mutant: the TX callback is not called when it leaves.
Leave_silent ==
  /\ q # <<>>
  /\ q' = Tail(q)
  /\ UNCHANGED <<stalled, due>>

\* The oldest datagram leaves, sent or dropped.
Leave ==
  /\ q # <<>>
  /\ q' = Tail(q)
  /\ due' = TRUE
  /\ UNCHANGED stalled

\* Offer a refused datagram again; more offers may already be due.
OfferAgain ==
  /\ due /\ due' \in BOOLEAN
  /\ IF stalled THEN Refuse \/ \E p \in Packets : Accept(p)
                ELSE UNCHANGED <<q, stalled>>

Next == HostSends \/ Leave \/ OfferAgain

Spec == Init /\ [][Next]_vars

\* The channel drains, and what is due happens.
FairSpec == Spec /\ WF_vars(Leave) /\ WF_vars(OfferAgain)

-----------------------------------------------------------------------------
\* The host is never stalled for good: its refused datagram is accepted.
StallEnds == stalled ~> ~stalled
=============================================================================
