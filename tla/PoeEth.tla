-------------------------------- MODULE PoeEth --------------------------------
(***************************************************************************)
(* The Ethernet driver of nxp/lpc1768_poe (eth.cpp): two rings of          *)
(* descriptors the driver shares with the MAC, network buffers that travel *)
(* between the rings and the TCP/IP stack, and the task that empties the   *)
(* receive ring when the interrupt notifies it.                            *)
(*   - The MAC fills receive slots at its produce index and sends transmit *)
(*     slots at its consume index, at any time.                            *)
(*   - eth_rx_task has the highest priority: the stack (IP task and        *)
(*     application) runs only while it is blocked.                         *)
(*   - The pool is the list of BufferAllocation_1: a buffer is taken from  *)
(*     its head and returned to its end.  A frame is a number, in the      *)
(*     order of arrival.                                                   *)
(***************************************************************************)
EXTENDS Naturals, Sequences, Functions

CONSTANTS
  NUM_BUFFERS,   \* network buffers
  NUM_TX_DESC, NUM_RX_DESC,
  EVENTS,        \* events of frames the IP task's queue has room for
  FRAMES         \* bound: frames that arrive

\* Two slots, so that a ring can hold a frame.  A buffer stays in a transmit
\* slot after it was sent, so the receive task can be sure of a new buffer
\* only if the rings cannot hold them all.
ASSUME RingAssumption ==
  /\ NUM_TX_DESC \in Nat \ {0, 1} /\ NUM_RX_DESC \in Nat \ {0, 1}
  /\ NUM_BUFFERS \in Nat /\ NUM_BUFFERS > NUM_TX_DESC + NUM_RX_DESC
  /\ EVENTS \in Nat \ {0} /\ FRAMES \in Nat

Buffers == 1 .. NUM_BUFFERS
NULL == 0   \* no buffer

VARIABLES
  content,   \* number of the frame in a buffer until the stack has it, or 0
  rx_desc, rx_bad,             \* receive slots: Packet, error in StatusInfo
  rx_produce, rx_consume, int, \* registers of the MAC
  rx_netdesc,                  \* the driver's record of receive slots
  notified, rpc, new_netdesc,  \* eth_rx_task
  tx_desc, tx_produce, tx_consume, tx_netdesc,
  free, ip_queue, stack,       \* free buffers, events, buffers of the stack
  frames                       \* frames that have arrived

macRx == <<content, rx_bad, rx_produce, int, frames>>
rxTask == <<rx_desc, rx_consume, rx_netdesc, rpc, new_netdesc>>
txVars == <<tx_desc, tx_produce, tx_consume, tx_netdesc>>
vars == <<macRx, rxTask, notified, txVars, free, ip_queue, stack>>

RxSlots == 0 .. NUM_RX_DESC - 1
TxSlots == 0 .. NUM_TX_DESC - 1

\* Chip_ENET_IncRXConsumeIndex, Chip_ENET_IncTXProduceIndex
IncIndex(i, n) == IF i + 1 > n - 1 THEN 0 ELSE i + 1

\* Chip_ENET_IsTxFull, Chip_ENET_IsRxEmpty
TxFull == tx_consume = IncIndex(tx_produce, NUM_TX_DESC)
RxEmpty == rx_produce = rx_consume
RxFull == rx_consume = IncIndex(rx_produce, NUM_RX_DESC)

\* How many slots after the oldest frame's a receive slot is.
RxPlace(i) == IF i >= rx_consume THEN i - rx_consume ELSE i + NUM_RX_DESC - rx_consume

\* eth_rx_task waits for a notification, or for a buffer.
RxBlocked == (rpc = "wait" /\ ~notified) \/ (rpc = "get" /\ free = <<>>)

TypeOK ==
  /\ content \in [Buffers -> 0 .. FRAMES]
  /\ rx_desc \in [RxSlots -> Buffers] /\ rx_bad \in [RxSlots -> BOOLEAN]
  /\ rx_produce \in RxSlots /\ rx_consume \in RxSlots
  /\ int \in BOOLEAN /\ notified \in BOOLEAN
  /\ rx_netdesc \in [RxSlots -> Buffers]
  /\ rpc \in {"wait", "test", "get", "send", "use"}
  /\ new_netdesc \in Buffers \cup {NULL}
  /\ new_netdesc # NULL <=> rpc \in {"send", "use"}
  /\ rpc \in {"get", "send", "use"} => ~RxEmpty /\ ~rx_bad[rx_consume]
  /\ tx_desc \in [TxSlots -> Buffers \cup {NULL}]
  /\ tx_netdesc \in [TxSlots -> Buffers \cup {NULL}]
  /\ tx_produce \in TxSlots /\ tx_consume \in TxSlots
  /\ free \in Seq(Buffers) /\ stack \subseteq Buffers
  /\ ip_queue \in Seq(Buffers) /\ Len(ip_queue) <= EVENTS
  /\ frames \in 0 .. FRAMES

-----------------------------------------------------------------------------
\* The MAC
\* A frame is stored in the slot at the produce index, intact or not.
MacReceive(bad) ==
  /\ frames < FRAMES /\ ~RxFull
  /\ frames' = frames + 1
  /\ content' = [content EXCEPT ![rx_desc[rx_produce]] = frames']
  /\ rx_bad' = [rx_bad EXCEPT ![rx_produce] = bad]
  /\ rx_produce' = IncIndex(rx_produce, NUM_RX_DESC)
  /\ int' = TRUE
  /\ UNCHANGED <<rxTask, notified, txVars, free, ip_queue, stack>>

\* A frame is lost because the ring is full (ENET_INT_RXOVERRUN).
MacOverrun ==
  /\ frames < FRAMES /\ RxFull
  /\ frames' = frames + 1 /\ int' = TRUE
  /\ UNCHANGED <<content, rx_bad, rx_produce, rxTask, notified, txVars, free,
                 ip_queue, stack>>

MacTransmit ==
  /\ tx_consume # tx_produce
  /\ tx_consume' = IncIndex(tx_consume, NUM_TX_DESC)
  /\ UNCHANGED <<macRx, rxTask, notified, tx_desc, tx_produce, tx_netdesc,
                 free, ip_queue, stack>>

\* Mutant: the status is cleared before it is read.
eth_isr_cleared ==
  /\ int
  /\ int' = FALSE
  /\ UNCHANGED <<content, rx_bad, rx_produce, frames, rxTask, notified,
                 txVars, free, ip_queue, stack>>

eth_isr ==
  /\ int
  /\ int' = FALSE /\ notified' = TRUE
  /\ UNCHANGED <<content, rx_bad, rx_produce, frames, rxTask, txVars, free,
                 ip_queue, stack>>

-----------------------------------------------------------------------------
\* eth_rx_task
RxWait ==
  /\ rpc = "wait" /\ notified
  /\ notified' = FALSE /\ rpc' = "test"
  /\ UNCHANGED <<macRx, rx_desc, rx_consume, rx_netdesc, new_netdesc, txVars,
                 free, ip_queue, stack>>

\* Mutant: the newest frame is looked at, not the oldest.
RxSlot_newest == (rx_produce + NUM_RX_DESC - 1) % NUM_RX_DESC

\* The slot a frame is taken from.
RxSlot == rx_consume

\* while (!IsRxEmpty): a damaged frame is dropped, its buffer stays.
RxTest ==
  /\ rpc = "test"
  /\ IF RxEmpty THEN rpc' = "wait" /\ UNCHANGED rx_consume
     ELSE IF rx_bad[RxSlot]
     THEN rx_consume' = IncIndex(rx_consume, NUM_RX_DESC) /\ UNCHANGED rpc
     ELSE rpc' = "get" /\ UNCHANGED rx_consume
  /\ UNCHANGED <<macRx, rx_desc, rx_netdesc, new_netdesc, notified, txVars,
                 free, ip_queue, stack>>

\* A new buffer is waited for.
RxGet ==
  /\ rpc = "get"
  /\ free # <<>> /\ new_netdesc' = Head(free) /\ free' = Tail(free)
  /\ rpc' = "send"
  /\ UNCHANGED <<macRx, rx_desc, rx_consume, rx_netdesc, notified, txVars,
                 ip_queue, stack>>

\* The old one goes to the IP task, or back to the pool when no endpoint
\* matches or the event queue is full.
RxSend ==
  /\ rpc = "send" /\ rpc' = "use"
  /\ \/ /\ Len(ip_queue) < EVENTS
        /\ ip_queue' = Append(ip_queue, rx_netdesc[RxSlot])
        /\ UNCHANGED free
        /\ UNCHANGED content
     \/ /\ free' = Append(free, rx_netdesc[RxSlot])
        /\ content' = [content EXCEPT ![rx_netdesc[RxSlot]] = 0]
        /\ UNCHANGED ip_queue
  /\ UNCHANGED <<rx_bad, rx_produce, int, frames, rx_desc, rx_consume,
                 rx_netdesc, new_netdesc, notified, txVars, stack>>

\* Mutant: the descriptor keeps the buffer that was given away.
UseNew_recorded ==
  /\ rx_netdesc' = [rx_netdesc EXCEPT ![rx_consume] = new_netdesc]
  /\ UNCHANGED rx_desc

\* The new buffer replaces the old one.
UseNew ==
  /\ rx_netdesc' = [rx_netdesc EXCEPT ![rx_consume] = new_netdesc]
  /\ rx_desc'    = [rx_desc EXCEPT ![rx_consume] = new_netdesc]

RxUse ==
  /\ rpc = "use" /\ rpc' = "test"
  /\ UseNew
  /\ new_netdesc' = NULL
  /\ rx_consume' = IncIndex(rx_consume, NUM_RX_DESC)
  /\ UNCHANGED <<macRx, notified, txVars, free, ip_queue, stack>>

-----------------------------------------------------------------------------
\* The stack, while eth_rx_task is blocked
\* The IP task takes the next event.
StackTake ==
  /\ RxBlocked /\ ip_queue # <<>>
  /\ stack' = stack \cup {Head(ip_queue)} /\ ip_queue' = Tail(ip_queue)
  /\ content' = [content EXCEPT ![Head(ip_queue)] = 0]
  /\ UNCHANGED <<rx_bad, rx_produce, int, frames, rxTask, notified, txVars,
                 free>>

\* It takes a buffer for a frame of its own, which is sent or released.
StackGet ==
  /\ RxBlocked /\ free # <<>>
  /\ stack' = stack \cup {Head(free)} /\ free' = Tail(free)
  /\ UNCHANGED <<macRx, rxTask, notified, txVars, ip_queue>>

StackRelease ==
  /\ RxBlocked
  /\ \E b \in stack : stack' = stack \ {b} /\ free' = Append(free, b)
  /\ UNCHANGED <<macRx, rxTask, notified, txVars, ip_queue>>

\* Mutant: the slot forgets what it held without releasing it.
ReleaseSent_kept == UNCHANGED free

\* What the slot at the produce index still holds of an earlier frame.
ReleaseSent ==
  LET sent == tx_netdesc[tx_produce]
  IN  free' = IF sent = NULL THEN free ELSE Append(free, sent)

\* Mutant: the buffer is not recorded, so it is released at once.
Recorded_none(b) == UNCHANGED tx_netdesc

\* The stack always gives the buffer away with the frame
\* (ipconfigZERO_COPY_TX_DRIVER).
Recorded(b) == tx_netdesc' = [tx_netdesc EXCEPT ![tx_produce] = b]

\* eth_pf_output: spins while the ring is full.
eth_pf_output ==
  /\ RxBlocked /\ ~TxFull
  /\ \E b \in stack :
       /\ tx_desc' = [tx_desc EXCEPT ![tx_produce] = b]
       /\ Recorded(b)
       /\ stack' = stack \ {b}
  /\ ReleaseSent
  /\ tx_produce' = IncIndex(tx_produce, NUM_TX_DESC)
  /\ UNCHANGED <<macRx, rxTask, notified, tx_consume, ip_queue>>

-----------------------------------------------------------------------------
\* eth_pf_init: every receive slot has a buffer; the transmit ring starts
\* with one empty frame, the erratum's workaround.
Init ==
  /\ content = [b \in Buffers |-> 0]
  /\ rx_desc = [i \in RxSlots |-> i + 1]
  /\ free = [k \in 1 .. NUM_BUFFERS - NUM_RX_DESC |-> NUM_RX_DESC + k]
  /\ rx_netdesc = rx_desc
  /\ rx_bad = [i \in RxSlots |-> FALSE]
  /\ rx_produce = 0 /\ rx_consume = 0 /\ int = FALSE
  /\ notified = FALSE /\ rpc = "wait" /\ new_netdesc = NULL
  /\ tx_desc = [i \in TxSlots |-> NULL] /\ tx_netdesc = tx_desc
  /\ tx_produce = 1 /\ tx_consume = 0
  /\ ip_queue = <<>> /\ stack = {} /\ frames = 0

Mac == (\E bad \in BOOLEAN : MacReceive(bad)) \/ MacOverrun \/ MacTransmit
RxTask == RxWait \/ RxTest \/ RxGet \/ RxSend \/ RxUse
Stack == StackTake \/ StackGet \/ StackRelease \/ eth_pf_output

Next == Mac \/ eth_isr \/ RxTask \/ Stack

Spec == Init /\ [][Next]_vars

\* The MAC sends, the interrupt is served, the task runs, and the stack
\* takes its events and parts with each buffer in the end.
FairSpec ==
  /\ Spec
  /\ WF_vars(MacTransmit) /\ WF_vars(eth_isr) /\ WF_vars(RxTask)
  /\ WF_vars(StackTake) /\ WF_vars(StackRelease \/ eth_pf_output)

-----------------------------------------------------------------------------
\* Properties.

\* Buffers of the rings.  The receive slot just given away is still recorded.
RxKept == RxSlots \ (IF rpc = "use" THEN {rx_consume} ELSE {})
RxHeld == {rx_netdesc[i] : i \in RxKept}
TxHeld == {tx_netdesc[i] : i \in TxSlots} \ {NULL}
NewHeld == {new_netdesc} \ {NULL}

\* Every buffer has one owner: the pool, the stack, the event queue, a ring or
\* eth_rx_task (eth.cpp:123, 136, 223).  None leaks, none is freed twice.
Ownership ==
  /\ Buffers = Range(free) \cup stack \cup Range(ip_queue) \cup RxHeld
               \cup TxHeld \cup NewHeld
  /\ Range(free) \cap (stack \cup Range(ip_queue) \cup RxHeld \cup TxHeld
                        \cup NewHeld) = {}
  /\ stack \cap (Range(ip_queue) \cup RxHeld \cup TxHeld \cup NewHeld) = {}
  /\ Range(ip_queue) \cap (RxHeld \cup TxHeld \cup NewHeld) = {}
  /\ RxHeld \cap (TxHeld \cup NewHeld) = {} /\ TxHeld \cap NewHeld = {}
  /\ IsInjective(free) /\ IsInjective(ip_queue)
  /\ \A i, j \in RxKept : rx_netdesc[i] = rx_netdesc[j] => i = j
  /\ \A i, j \in TxSlots :
       tx_netdesc[i] = tx_netdesc[j] => i = j \/ tx_netdesc[i] = NULL

\* The MAC writes only into buffers of the receive ring and sends only
\* buffers the transmit ring holds: nothing the stack or the pool owns
\* changes or leaves under it (eth.cpp:136, 222).
DmaOwnsBuffer ==
  [][/\ rx_produce' # rx_produce => rx_desc[rx_produce] \in RxHeld
     /\ tx_consume' # tx_consume => tx_desc[tx_consume] \in TxHeld \cup {NULL}]_vars

\* Slots of the frames the stack will still get.
RxWaiting == {i \in RxSlots : /\ RxPlace(i) < RxPlace(rx_produce) /\ ~rx_bad[i]
                              /\ rpc = "use" => i # rx_consume}

\* Frames reach the stack in the order of their arrival and unchanged: those
\* queued, and those still in the ring behind them (eth.cpp:107, 125).
InOrder ==
  /\ \A j, k \in DOMAIN ip_queue : j < k => content[ip_queue[j]] < content[ip_queue[k]]
  /\ \A k \in DOMAIN ip_queue, i \in RxWaiting :
       content[ip_queue[k]] < content[rx_netdesc[i]]
  /\ \A i, j \in RxWaiting :
       RxPlace(i) < RxPlace(j) => content[rx_netdesc[i]] < content[rx_netdesc[j]]

\* A frame in the ring has its interrupt pending, or its notification, or
\* eth_rx_task at work (eth.cpp:103, 105).
NoLostWakeup == rpc = "wait" /\ ~RxEmpty => int \/ notified

\* The receive ring is emptied in the end, although eth_rx_task waits for a
\* buffer without a timeout and sent buffers stay in their slots
\* (eth.cpp:113, 223).
RingEmptied == ~RxEmpty ~> RxEmpty
=============================================================================
