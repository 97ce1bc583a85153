----------------------------- MODULE PoeEthProofs -----------------------------
(* Theorems about PoeEth, for every number of buffers, slots and events. *)
EXTENDS PoeEth, QueueLemmas

-----------------------------------------------------------------------------
(* The inductive invariant: types, who owns which buffer, and descriptors    *)
(* that agree with the driver's record of them.                              *)

Aligned == rx_desc = rx_netdesc /\ tx_desc = tx_netdesc

IInv == TypeOK /\ Ownership /\ Aligned /\ NoLostWakeup

LEMMA SlotTypes ==
  /\ \A i \in RxSlots : IncIndex(i, NUM_RX_DESC) \in RxSlots
  /\ \A i \in TxSlots : IncIndex(i, NUM_TX_DESC) \in TxSlots
  /\ NULL \notin Buffers
  BY RingAssumption DEF RingAssumption, RxSlots, TxSlots, IncIndex, Buffers, NULL

-----------------------------------------------------------------------------
(* Types *)

LEMMA MacReceiveTypes ==
  ASSUME TypeOK, NEW bad \in BOOLEAN, MacReceive(bad) PROVE TypeOK'
<1> USE SlotTypes, RingAssumption DEF RingAssumption
<1>1. frames' \in 0 .. FRAMES
  BY DEF TypeOK, MacReceive
<1>2. content' \in [Buffers -> 0 .. FRAMES]
  BY <1>1 DEF TypeOK, MacReceive
<1>3. rx_bad' \in [RxSlots -> BOOLEAN] /\ rx_produce' \in RxSlots
  BY DEF TypeOK, MacReceive
<1>4. ~RxEmpty' /\ (~RxEmpty => rx_bad'[rx_consume] = rx_bad[rx_consume])
  BY DEF TypeOK, MacReceive, RxEmpty, RxFull, rxTask
<1> QED BY <1>1, <1>2, <1>3, <1>4 DEF TypeOK, MacReceive, rxTask, txVars

LEMMA TypeStep ==
  ASSUME TypeOK, Next PROVE TypeOK'
<1> USE SlotTypes, RingAssumption DEF RingAssumption, macRx, rxTask, txVars
<1>1. ASSUME NEW bad \in BOOLEAN, MacReceive(bad) PROVE TypeOK'
  BY <1>1, MacReceiveTypes
<1>2. CASE MacOverrun
  BY <1>2 DEF TypeOK, MacOverrun, RxEmpty
<1>3. CASE MacTransmit
  BY <1>3 DEF TypeOK, MacTransmit, RxEmpty
<1>4. CASE eth_isr
  BY <1>4 DEF TypeOK, eth_isr, RxEmpty
<1>5. CASE RxWait
  BY <1>5 DEF TypeOK, RxWait, RxEmpty
<1>6. CASE RxTest
  BY <1>6 DEF TypeOK, RxTest, RxSlot, RxEmpty
<1>7. CASE RxGet
  <2>1. Head(free) \in Buffers /\ Tail(free) \in Seq(Buffers)
    BY <1>7, TailQueue DEF TypeOK, RxGet
  <2> QED BY <1>7, <2>1 DEF TypeOK, RxGet, RxEmpty
<1>8. CASE RxSend
  <2>1. rx_netdesc[rx_consume] \in Buffers
    BY DEF TypeOK
  <2>2. free \in Seq(Buffers) /\ ip_queue \in Seq(Buffers) /\ Len(ip_queue) <= EVENTS
        /\ content \in [Buffers -> 0 .. FRAMES]
    BY DEF TypeOK
  <2>3. CASE /\ Len(ip_queue) < EVENTS
             /\ ip_queue' = Append(ip_queue, rx_netdesc[rx_consume])
             /\ UNCHANGED free /\ UNCHANGED content
    <3>1. ip_queue' \in Seq(Buffers) /\ Len(ip_queue') <= EVENTS
      BY <2>1, <2>2, <2>3, BoundedQueue
    <3> QED BY <1>8, <2>3, <3>1 DEF TypeOK, RxSend, RxEmpty
  <2>4. CASE /\ free' = Append(free, rx_netdesc[rx_consume])
             /\ content' = [content EXCEPT ![rx_netdesc[rx_consume]] = 0]
             /\ UNCHANGED ip_queue
    <3>1. free' \in Seq(Buffers)
      BY <2>1, <2>2, <2>4, AppendQueue
    <3>2. 0 \in 0 .. FRAMES
      OBVIOUS
    <3>3. content' \in [Buffers -> 0 .. FRAMES]
      BY <2>2, <2>4, <3>2, Zenon
    <3> QED BY <1>8, <2>4, <3>1, <3>3 DEF TypeOK, RxSend, RxEmpty
  <2> QED BY <1>8, <2>3, <2>4 DEF RxSend, RxSlot
<1>9. CASE RxUse
  <2>1. rx_netdesc' \in [RxSlots -> Buffers] /\ rx_desc' \in [RxSlots -> Buffers]
    BY <1>9 DEF TypeOK, RxUse, UseNew
  <2> QED BY <1>9, <2>1 DEF TypeOK, RxUse, RxEmpty
<1>10. CASE StackTake
  <2>1. Head(ip_queue) \in Buffers /\ Tail(ip_queue) \in Seq(Buffers)
        /\ Len(ip_queue') <= EVENTS
    BY <1>10, TailQueue, BoundedQueue DEF TypeOK, StackTake
  <2>2. content' \in [Buffers -> 0 .. FRAMES]
    BY <1>10, <2>1 DEF TypeOK, StackTake
  <2> QED BY <1>10, <2>1, <2>2 DEF TypeOK, StackTake, RxEmpty
<1>11. CASE StackGet
  <2>1. Head(free) \in Buffers /\ Tail(free) \in Seq(Buffers)
    BY <1>11, TailQueue DEF TypeOK, StackGet
  <2> QED BY <1>11, <2>1 DEF TypeOK, StackGet, RxEmpty
<1>12. CASE StackRelease
  <2>1. free' \in Seq(Buffers)
    BY <1>12, AppendQueue DEF TypeOK, StackRelease
  <2> QED BY <1>12, <2>1 DEF TypeOK, StackRelease, RxEmpty
<1>13. CASE eth_pf_output
  <2>1. free' \in Seq(Buffers)
    BY <1>13, AppendQueue DEF TypeOK, eth_pf_output, ReleaseSent
  <2>2. tx_desc' \in [TxSlots -> Buffers \cup {NULL}]
        /\ tx_netdesc' \in [TxSlots -> Buffers \cup {NULL}]
        /\ stack' \subseteq Buffers
    BY <1>13 DEF TypeOK, eth_pf_output, Recorded
  <2> QED BY <1>13, <2>1, <2>2 DEF TypeOK, eth_pf_output, RxEmpty
<1> QED BY <1>1, <1>2, <1>3, <1>4, <1>5, <1>6, <1>7, <1>8, <1>9, <1>10, <1>11, <1>12, <1>13
        DEF Next, Mac, RxTask, Stack

-----------------------------------------------------------------------------
(* Descriptors and wake-ups *)

LEMMA AlignedStep ==
  ASSUME Aligned, [Next]_vars PROVE Aligned'
  BY DEF Aligned, Next, Mac, RxTask, Stack, MacReceive, MacOverrun, MacTransmit, eth_isr,
     RxWait, RxTest, RxGet, RxSend, RxUse, UseNew, StackTake, StackGet, StackRelease,
     eth_pf_output, Recorded, vars, macRx, rxTask, txVars

\* eth_rx_task waits only after it found the ring empty, and what fills the
\* ring raises the interrupt.
LEMMA WakeupStep ==
  ASSUME NoLostWakeup, [Next]_vars PROVE NoLostWakeup'
  BY DEF NoLostWakeup, RxEmpty, Next, Mac, RxTask, Stack, MacReceive, MacOverrun,
     MacTransmit, eth_isr, RxWait, RxTest, RxGet, RxSend, RxUse, StackTake, StackGet,
     StackRelease, eth_pf_output, vars, macRx, rxTask, txVars

-----------------------------------------------------------------------------
(* Ownership *)

\* Nothing that owns buffers changes.
Still == UNCHANGED <<free, stack, ip_queue, rx_netdesc, new_netdesc, tx_netdesc, RxKept>>

LEMMA StillOwnership ==
  ASSUME Ownership, Still PROVE Ownership'
<1>1. RxHeld' = RxHeld /\ TxHeld' = TxHeld /\ NewHeld' = NewHeld
  BY DEF Still, RxHeld, TxHeld, NewHeld
<1> QED BY <1>1 DEF Ownership, Still

LEMMA StillSteps ==
  ASSUME TypeOK,
         \/ \E bad \in BOOLEAN : MacReceive(bad)
         \/ MacOverrun \/ MacTransmit \/ eth_isr \/ RxWait \/ RxTest \/ UNCHANGED vars
  PROVE  Still
  BY DEF Still, RxKept, MacReceive, MacOverrun, MacTransmit, eth_isr, RxWait, RxTest,
     vars, macRx, rxTask, txVars

\* Taking the first free buffer.
LEMMA GetFree ==
  ASSUME TypeOK, Ownership, free # <<>>, free' = Tail(free)
  PROVE  /\ Head(free) \in Buffers /\ Head(free) # NULL
         /\ Range(free) = Range(free') \cup {Head(free)}
         /\ IsInjective(free') /\ Head(free) \notin Range(free')
  BY TailQueue, SlotTypes DEF TypeOK, Ownership

LEMMA RxGetOwnership ==
  ASSUME TypeOK, Ownership, RxGet PROVE Ownership'
<1>1. NewHeld = {}
  BY DEF TypeOK, RxGet, NewHeld
<1>2. /\ Head(free) # NULL /\ Range(free) = Range(free') \cup {Head(free)}
      /\ IsInjective(free') /\ Head(free) \notin Range(free')
  BY GetFree DEF RxGet
<1>3. NewHeld' = {Head(free)}
  BY <1>2 DEF RxGet, NewHeld
<1>4. RxHeld' = RxHeld /\ TxHeld' = TxHeld /\ RxKept' = RxKept
  BY DEF RxGet, RxKept, RxHeld, TxHeld, txVars
<1>5. UNCHANGED <<stack, ip_queue, rx_netdesc, tx_netdesc>>
  BY DEF RxGet, txVars
<1> QED BY <1>1, <1>2, <1>3, <1>4, <1>5 DEF Ownership

LEMMA StackGetOwnership ==
  ASSUME TypeOK, Ownership, StackGet PROVE Ownership'
<1>1. /\ Head(free) # NULL /\ Range(free) = Range(free') \cup {Head(free)}
      /\ IsInjective(free') /\ Head(free) \notin Range(free')
  BY GetFree DEF StackGet
<1>2. RxHeld' = RxHeld /\ TxHeld' = TxHeld /\ RxKept' = RxKept /\ NewHeld' = NewHeld
  BY DEF StackGet, RxKept, RxHeld, TxHeld, NewHeld, rxTask, txVars
<1>3. UNCHANGED <<ip_queue, rx_netdesc, tx_netdesc>> /\ stack' = stack \cup {Head(free)}
  BY DEF StackGet, rxTask, txVars
<1> QED BY <1>1, <1>2, <1>3 DEF Ownership

\* The buffer of the slot leaves the ring for the queue or for the pool.
LEMMA RxSendOwnership ==
  ASSUME TypeOK, Ownership, RxSend PROVE Ownership'
<1> DEFINE b == rx_netdesc[rx_consume]
<1>1. b \in Buffers /\ rx_consume \in RxSlots /\ RxKept = RxSlots
      /\ RxKept' = RxSlots \ {rx_consume}
  BY DEF TypeOK, RxSend, RxKept
<1>2. UNCHANGED <<stack, rx_netdesc, new_netdesc, tx_netdesc>>
  BY DEF RxSend, txVars
<1>3. RxHeld = RxHeld' \cup {b} /\ b \notin RxHeld'
  BY <1>1, <1>2 DEF RxHeld, Ownership
<1>4. TxHeld' = TxHeld /\ NewHeld' = NewHeld
  BY <1>2 DEF TxHeld, NewHeld
<1>5. b \notin Range(free) /\ b \notin Range(ip_queue) /\ b \in RxHeld
  BY <1>3 DEF Ownership
<1>6. CASE ip_queue' = Append(ip_queue, b) /\ UNCHANGED free
  <2>1. Range(ip_queue') = Range(ip_queue) \cup {b} /\ IsInjective(ip_queue')
    BY <1>1, <1>5, <1>6, AppendQueue DEF TypeOK, Ownership
  <2> QED BY <1>1, <1>2, <1>3, <1>4, <1>5, <1>6, <2>1 DEF Ownership
<1>7. CASE free' = Append(free, b) /\ UNCHANGED ip_queue
  <2>1. Range(free') = Range(free) \cup {b} /\ IsInjective(free')
    BY <1>1, <1>5, <1>7, AppendQueue DEF TypeOK, Ownership
  <2> QED BY <1>1, <1>2, <1>3, <1>4, <1>5, <1>7, <2>1 DEF Ownership
<1> QED BY <1>6, <1>7 DEF RxSend, RxSlot

\* The new buffer enters the ring in its place.
LEMMA RxUseOwnership ==
  ASSUME TypeOK, Ownership, RxUse PROVE Ownership'
<1> DEFINE n == new_netdesc
<1>1. n \in Buffers /\ NewHeld = {n} /\ NewHeld' = {}
  BY DEF TypeOK, RxUse, NewHeld
<1>2. rx_consume \in RxSlots /\ RxKept = RxSlots \ {rx_consume} /\ RxKept' = RxSlots
  BY DEF TypeOK, RxUse, RxKept
<1>3. rx_netdesc' = [rx_netdesc EXCEPT ![rx_consume] = n]
      /\ rx_netdesc \in [RxSlots -> Buffers]
  BY DEF TypeOK, RxUse, UseNew
<1>4. RxHeld' = RxHeld \cup {n} /\ n \notin RxHeld
  BY <1>1, <1>2, <1>3 DEF RxHeld, Ownership
<1>5. \A i, j \in RxSlots : rx_netdesc'[i] = rx_netdesc'[j] => i = j
  <2>1. \A i \in RxKept : rx_netdesc'[i] = rx_netdesc[i] /\ rx_netdesc[i] \in RxHeld
    BY <1>2, <1>3 DEF RxHeld
  <2>2. rx_netdesc'[rx_consume] = n
    BY <1>2, <1>3
  <2> QED BY <1>2, <1>4, <2>1, <2>2 DEF Ownership
<1>6. UNCHANGED <<free, stack, ip_queue, tx_netdesc>> /\ TxHeld' = TxHeld
  BY DEF RxUse, txVars, TxHeld
<1> QED BY <1>1, <1>2, <1>4, <1>5, <1>6 DEF Ownership

LEMMA StackTakeOwnership ==
  ASSUME TypeOK, Ownership, StackTake PROVE Ownership'
<1>1. /\ Range(ip_queue) = Range(ip_queue') \cup {Head(ip_queue)}
      /\ IsInjective(ip_queue') /\ Head(ip_queue) \notin Range(ip_queue')
  BY TailQueue DEF StackTake, TypeOK, Ownership
<1>2. RxHeld' = RxHeld /\ TxHeld' = TxHeld /\ RxKept' = RxKept /\ NewHeld' = NewHeld
  BY DEF StackTake, RxKept, RxHeld, TxHeld, NewHeld, rxTask, txVars
<1>3. UNCHANGED <<free, rx_netdesc, tx_netdesc>> /\ stack' = stack \cup {Head(ip_queue)}
  BY DEF StackTake, rxTask, txVars
<1> QED BY <1>1, <1>2, <1>3 DEF Ownership

LEMMA StackReleaseOwnership ==
  ASSUME TypeOK, Ownership, StackRelease PROVE Ownership'
<1>1. PICK b \in stack : stack' = stack \ {b} /\ free' = Append(free, b)
  BY DEF StackRelease
<1>2. b \in Buffers /\ b \notin Range(free)
  BY DEF TypeOK, Ownership
<1>3. Range(free') = Range(free) \cup {b} /\ IsInjective(free')
  BY <1>1, <1>2, AppendQueue DEF TypeOK, Ownership
<1>4. RxHeld' = RxHeld /\ TxHeld' = TxHeld /\ RxKept' = RxKept /\ NewHeld' = NewHeld
  BY DEF StackRelease, RxKept, RxHeld, TxHeld, NewHeld, rxTask, txVars
<1>5. UNCHANGED <<ip_queue, rx_netdesc, tx_netdesc>>
  BY DEF StackRelease, rxTask, txVars
<1> QED BY <1>1, <1>2, <1>3, <1>4, <1>5 DEF Ownership

\* A buffer enters the transmit ring; the one sent before leaves its slot.
LEMMA OutputOwnership ==
  ASSUME TypeOK, Ownership, eth_pf_output PROVE Ownership'
<1> DEFINE sent == tx_netdesc[tx_produce]
<1>1. PICK b \in stack : stack' = stack \ {b}
        /\ tx_netdesc' = [tx_netdesc EXCEPT ![tx_produce] = b]
  BY DEF eth_pf_output, Recorded
<1>2. b \in Buffers /\ b # NULL /\ b \notin TxHeld /\ b \notin Range(free)
  BY SlotTypes DEF TypeOK, Ownership
<1>3. tx_produce \in TxSlots /\ sent \in Buffers \cup {NULL}
      /\ tx_netdesc \in [TxSlots -> Buffers \cup {NULL}]
  BY DEF TypeOK
<1>4. \A i \in TxSlots \ {tx_produce} :
        tx_netdesc'[i] = tx_netdesc[i] /\ (tx_netdesc[i] # NULL => tx_netdesc[i] \in TxHeld)
  BY <1>1, <1>3 DEF TxHeld
<1>5. tx_netdesc'[tx_produce] = b
  BY <1>1, <1>3
<1>6. \A i, j \in TxSlots : tx_netdesc'[i] = tx_netdesc'[j] => i = j \/ tx_netdesc'[i] = NULL
  BY <1>2, <1>3, <1>4, <1>5 DEF Ownership
<1>7. TxHeld' = (TxHeld \ {sent}) \cup {b}
  <2>1. \A x : x \in TxHeld' => x \in (TxHeld \ {sent}) \cup {b}
    BY <1>3, <1>4, <1>5 DEF TxHeld, Ownership
  <2>2. \A x : x \in (TxHeld \ {sent}) \cup {b} => x \in TxHeld'
    BY <1>2, <1>3, <1>4, <1>5 DEF TxHeld
  <2> QED BY <2>1, <2>2
<1>8. RxHeld' = RxHeld /\ RxKept' = RxKept /\ NewHeld' = NewHeld
      /\ UNCHANGED <<ip_queue, rx_netdesc>>
  BY DEF eth_pf_output, RxKept, RxHeld, NewHeld, rxTask
<1>9. CASE sent = NULL
  <2>1. free' = free /\ TxHeld' = TxHeld \cup {b}
    BY <1>7, <1>9 DEF eth_pf_output, ReleaseSent, TxHeld
  <2> QED BY <1>1, <1>2, <1>6, <1>8, <2>1 DEF Ownership
<1>10. CASE sent # NULL
  <2>1. free' = Append(free, sent) /\ sent \in Buffers
    BY <1>3, <1>10 DEF eth_pf_output, ReleaseSent
  <2>2. sent \in TxHeld
    BY <1>3, <1>10 DEF TxHeld
  <2>3. sent \notin Range(free)
    BY <2>2 DEF Ownership
  <2>4. Range(free') = Range(free) \cup {sent} /\ IsInjective(free')
    BY <2>1, <2>3, AppendQueue DEF TypeOK, Ownership
  <2> QED BY <1>1, <1>2, <1>6, <1>7, <1>8, <2>2, <2>4 DEF Ownership
<1> QED BY <1>9, <1>10

LEMMA OwnershipStep ==
  ASSUME TypeOK, Ownership, [Next]_vars PROVE Ownership'
  BY StillSteps, StillOwnership, RxGetOwnership, RxSendOwnership, RxUseOwnership,
     StackTakeOwnership, StackGetOwnership, StackReleaseOwnership, OutputOwnership
     DEF Next, Mac, RxTask, Stack

-----------------------------------------------------------------------------

LEMMA InitTypes == Init => TypeOK
<1> SUFFICES ASSUME Init PROVE TypeOK
  OBVIOUS
<1> USE RingAssumption DEF RingAssumption
<1>1. rx_desc \in [RxSlots -> Buffers] /\ rx_netdesc \in [RxSlots -> Buffers]
  BY DEF Init, RxSlots, Buffers
<1>2. free \in Seq(Buffers)
  <2>1. NUM_BUFFERS - NUM_RX_DESC \in Nat
        /\ \A k \in 1 .. NUM_BUFFERS - NUM_RX_DESC : NUM_RX_DESC + k \in Buffers
    BY DEF Buffers
  <2> QED BY <2>1 DEF Init
<1>3. tx_desc \in [TxSlots -> Buffers \cup {NULL}]
      /\ tx_netdesc \in [TxSlots -> Buffers \cup {NULL}]
  BY DEF Init
<1>4. content \in [Buffers -> 0 .. FRAMES] /\ frames \in 0 .. FRAMES
  BY DEF Init
<1>5. rx_produce \in RxSlots /\ rx_consume \in RxSlots
      /\ tx_produce \in TxSlots /\ tx_consume \in TxSlots
  BY DEF Init, RxSlots, TxSlots
<1>6. ip_queue \in Seq(Buffers) /\ Len(ip_queue) <= EVENTS /\ stack \subseteq Buffers
  BY DEF Init
<1>7. rx_bad \in [RxSlots -> BOOLEAN] /\ int \in BOOLEAN /\ notified \in BOOLEAN
  BY DEF Init
<1> QED BY <1>1, <1>2, <1>3, <1>4, <1>5, <1>6, <1>7, SlotTypes DEF Init, TypeOK

LEMMA InitOwnership == Init => Ownership
<1> SUFFICES ASSUME Init PROVE Ownership
  OBVIOUS
<1> USE RingAssumption DEF RingAssumption
<1>1. RxKept = RxSlots /\ RxHeld = 1 .. NUM_RX_DESC
  <2>1. RxKept = RxSlots /\ \A i \in RxSlots : rx_netdesc[i] = i + 1
    BY DEF Init, RxKept
  <2>2. \A b \in 1 .. NUM_RX_DESC : b - 1 \in RxSlots /\ rx_netdesc[b - 1] = b
    BY <2>1 DEF RxSlots
  <2>3. \A i \in RxSlots : i + 1 \in 1 .. NUM_RX_DESC
    BY DEF RxSlots
  <2>4. \A i \in RxSlots : rx_netdesc[i] \in 1 .. NUM_RX_DESC
    BY <2>1, <2>3, Zenon
  <2>5. RxHeld = {rx_netdesc[i] : i \in RxSlots}
    BY <2>1 DEF RxHeld
  <2>6. RxHeld \subseteq 1 .. NUM_RX_DESC
    BY <2>4, <2>5, Zenon
  <2>7. ASSUME NEW b \in 1 .. NUM_RX_DESC PROVE b \in RxHeld
    BY <2>2, <2>5, Zenon
  <2> QED BY <2>1, <2>6, <2>7
<1>2. Range(free) = NUM_RX_DESC + 1 .. NUM_BUFFERS /\ IsInjective(free)
  <2>1. DOMAIN free = 1 .. NUM_BUFFERS - NUM_RX_DESC
        /\ \A k \in DOMAIN free : free[k] = NUM_RX_DESC + k
    BY DEF Init
  <2>2. \A b \in NUM_RX_DESC + 1 .. NUM_BUFFERS :
          b - NUM_RX_DESC \in DOMAIN free /\ free[b - NUM_RX_DESC] = b
    BY <2>1
  <2>3. Range(free) = NUM_RX_DESC + 1 .. NUM_BUFFERS
    BY <2>1, <2>2 DEF Range
  <2> QED BY <2>1, <2>3 DEF IsInjective
<1>3. TxHeld = {} /\ NewHeld = {} /\ \A i \in TxSlots : tx_netdesc[i] = NULL
  BY DEF Init, TxHeld, NewHeld
<1>4. stack = {} /\ Range(ip_queue) = {} /\ IsInjective(ip_queue)
  BY EmptyQueue DEF Init
<1>5. \A i, j \in RxKept : rx_netdesc[i] = rx_netdesc[j] => i = j
  BY <1>1 DEF Init, RxSlots
<1> QED BY <1>1, <1>2, <1>3, <1>4, <1>5 DEF Ownership, Buffers

LEMMA IInvCorrect == Spec => []IInv
<1>1. Init => IInv
  BY InitTypes, InitOwnership DEF Init, IInv, Aligned, NoLostWakeup, RxEmpty
<1>2. TypeOK /\ UNCHANGED vars => TypeOK'
  BY DEF TypeOK, vars, macRx, rxTask, txVars, RxEmpty
<1>3. IInv /\ [Next]_vars => IInv'
  BY <1>2, TypeStep, OwnershipStep, AlignedStep, WakeupStep DEF IInv
<1> QED BY <1>1, <1>3, PTL DEF Spec

-----------------------------------------------------------------------------
(* The order of the frames *)

OrderInv == InOrder /\ \A b \in Buffers : content[b] <= frames

LEMMA Places ==
  ASSUME TypeOK
  PROVE  /\ \A i \in RxSlots : RxPlace(i) \in 0 .. NUM_RX_DESC - 1
         /\ \A i, j \in RxSlots : RxPlace(i) = RxPlace(j) => i = j
         /\ RxPlace(rx_consume) = 0
         /\ ~RxEmpty => 0 < RxPlace(rx_produce)
<1>1. rx_consume \in 0 .. NUM_RX_DESC - 1 /\ rx_produce \in 0 .. NUM_RX_DESC - 1
      /\ NUM_RX_DESC \in Nat
  BY RingAssumption DEF RingAssumption, TypeOK, RxSlots
<1> QED BY <1>1 DEF RxPlace, RxSlots, RxEmpty

\* The buffers of the frames on their way are all different.
LEMMA Apart ==
  ASSUME TypeOK, Ownership
  PROVE  /\ RxWaiting \subseteq RxKept
         /\ \A k \in DOMAIN ip_queue : ip_queue[k] \in Buffers
         /\ \A j, k \in DOMAIN ip_queue : ip_queue[j] = ip_queue[k] => j = k
         /\ \A k \in DOMAIN ip_queue, i \in RxKept : ip_queue[k] # rx_netdesc[i]
         /\ \A i, j \in RxKept : rx_netdesc[i] = rx_netdesc[j] => i = j
<1>1. RxWaiting \subseteq RxKept
  BY DEF RxWaiting, RxKept
<1>2. \A k \in DOMAIN ip_queue : ip_queue[k] \in Buffers /\ ip_queue[k] \in Range(ip_queue)
  BY DEF TypeOK, Range
<1>3. \A i \in RxKept : rx_netdesc[i] \in RxHeld
  BY DEF RxHeld
<1>4. \A k \in DOMAIN ip_queue, i \in RxKept : ip_queue[k] # rx_netdesc[i]
  BY <1>2, <1>3 DEF Ownership
<1>5. \A j, k \in DOMAIN ip_queue : ip_queue[j] = ip_queue[k] => j = k
  BY DEF Ownership, IsInjective
<1>6. \A i, j \in RxKept : rx_netdesc[i] = rx_netdesc[j] => i = j
  BY DEF Ownership
<1> QED BY <1>1, <1>2, <1>4, <1>5, <1>6

\* A step that changes no frame on its way, and at most takes slots away.
LEMMA OrderKept ==
  ASSUME InOrder, UNCHANGED ip_queue, RxWaiting' \subseteq RxWaiting,
         \A k \in DOMAIN ip_queue : content'[ip_queue[k]] = content[ip_queue[k]],
         \A i \in RxWaiting' : content'[rx_netdesc'[i]] = content[rx_netdesc[i]],
         \A i, j \in RxWaiting' : RxPlace(i)' < RxPlace(j)' => RxPlace(i) < RxPlace(j)
  PROVE  InOrder'
<1>1. \A j, k \in DOMAIN ip_queue' :
        j < k => content'[ip_queue'[j]] < content'[ip_queue'[k]]
  BY DEF InOrder
<1>2. \A k \in DOMAIN ip_queue', i \in RxWaiting' :
        content'[ip_queue'[k]] < content'[rx_netdesc'[i]]
  BY DEF InOrder
<1>3. \A i, j \in RxWaiting' :
        RxPlace(i)' < RxPlace(j)' => content'[rx_netdesc'[i]] < content'[rx_netdesc'[j]]
  BY DEF InOrder
<1> QED BY <1>1, <1>2, <1>3 DEF InOrder

\* The slots, and the frames in them, are left alone.
LEMMA StillOrder ==
  ASSUME OrderInv, UNCHANGED <<content, frames, ip_queue, rx_netdesc, rx_bad, rx_produce,
                               rx_consume>>,
         rpc' = "use" <=> rpc = "use"
  PROVE  OrderInv'
<1>1. RxWaiting' = RxWaiting /\ \A i : RxPlace(i)' = RxPlace(i)
  BY DEF RxWaiting, RxPlace
<1>2. InOrder'
  BY <1>1, OrderKept DEF OrderInv
<1> QED BY <1>2 DEF OrderInv

\* The new frame is behind all the others.
LEMMA ReceiveOrder ==
  ASSUME TypeOK, TypeOK', Ownership, Aligned, OrderInv, NEW bad \in BOOLEAN, MacReceive(bad)
  PROVE  OrderInv'
<1> DEFINE b == rx_netdesc[rx_produce]
<1>1. /\ frames' = frames + 1 /\ frames \in Nat /\ b \in Buffers /\ rx_produce \in RxSlots
      /\ content' = [content EXCEPT ![b] = frames'] /\ content \in [Buffers -> Nat]
      /\ rx_bad' = [rx_bad EXCEPT ![rx_produce] = bad] /\ rx_bad \in [RxSlots -> BOOLEAN]
      /\ UNCHANGED <<ip_queue, rx_netdesc, rx_consume, rpc>>
      /\ rx_netdesc \in [RxSlots -> Buffers]
  BY DEF MacReceive, TypeOK, Aligned, rxTask
<1>2. /\ \A i \in Buffers : i # b => content'[i] = content[i]
      /\ content'[b] = frames + 1
      /\ \A i \in Buffers : content[i] <= frames /\ content[i] \in Nat
  BY <1>1 DEF OrderInv
<1>3. \A i : RxPlace(i)' = RxPlace(i)
  BY <1>1 DEF RxPlace
<1>4. RxPlace(rx_produce)' = RxPlace(rx_produce) + 1
  <2>1. /\ rx_consume \in 0 .. NUM_RX_DESC - 1 /\ rx_produce \in 0 .. NUM_RX_DESC - 1
        /\ NUM_RX_DESC \in Nat
    BY RingAssumption DEF RingAssumption, TypeOK, RxSlots
  <2>2. /\ rx_produce' = IncIndex(rx_produce, NUM_RX_DESC)
        /\ rx_consume # IncIndex(rx_produce, NUM_RX_DESC)
    BY DEF MacReceive, RxFull
  <2>3. rx_consume' = rx_consume
    BY <1>1
  <2> QED BY <2>1, <2>2, <2>3 DEF RxPlace, IncIndex
<1>5. \A i \in RxWaiting' : i = rx_produce \/ i \in RxWaiting
  <2> SUFFICES ASSUME NEW i \in RxWaiting', i # rx_produce PROVE i \in RxWaiting
    OBVIOUS
  <2>1. i \in RxSlots /\ RxPlace(i) < RxPlace(rx_produce) + 1 /\ ~rx_bad'[i]
        /\ (rpc = "use" => i # rx_consume)
    BY <1>1, <1>3, <1>4 DEF RxWaiting
  <2>2. RxPlace(i) # RxPlace(rx_produce)
    BY <1>1, <2>1, Places
  <2>3. RxPlace(i) < RxPlace(rx_produce)
    BY <1>1, <2>1, <2>2, Places
  <2>4. ~rx_bad[i]
    BY <1>1, <2>1
  <2> QED BY <2>1, <2>3, <2>4 DEF RxWaiting
<1>6. rx_produce \in RxKept
  BY <1>1 DEF RxKept, TypeOK, RxEmpty
<1>7. \A k \in DOMAIN ip_queue : content'[ip_queue[k]] = content[ip_queue[k]]
                                 /\ content[ip_queue[k]] <= frames
  BY <1>2, <1>6, Apart
<1>8. \A i \in RxWaiting' :
        \/ i = rx_produce /\ content'[rx_netdesc'[i]] = frames + 1
        \/ /\ i \in RxWaiting /\ content'[rx_netdesc'[i]] = content[rx_netdesc[i]]
           /\ content[rx_netdesc[i]] <= frames /\ RxPlace(i) < RxPlace(rx_produce)
  <2> SUFFICES ASSUME NEW i \in RxWaiting', i # rx_produce
               PROVE  /\ i \in RxWaiting /\ content'[rx_netdesc'[i]] = content[rx_netdesc[i]]
                      /\ content[rx_netdesc[i]] <= frames /\ RxPlace(i) < RxPlace(rx_produce)
    BY <1>1, <1>2
  <2>1. i \in RxWaiting /\ i \in RxKept /\ i \in RxSlots /\ RxPlace(i) < RxPlace(rx_produce)
    BY <1>5, Apart DEF RxWaiting
  <2>2. rx_netdesc[i] # b /\ rx_netdesc[i] \in Buffers
    BY <1>1, <1>6, <2>1, Apart
  <2> QED BY <1>1, <1>2, <2>1, <2>2
<1>9. \A j, k \in DOMAIN ip_queue' :
        j < k => content'[ip_queue'[j]] < content'[ip_queue'[k]]
  BY <1>1, <1>7 DEF OrderInv, InOrder
<1>10. \A k \in DOMAIN ip_queue', i \in RxWaiting' :
         content'[ip_queue'[k]] < content'[rx_netdesc'[i]]
  <2> TAKE k \in DOMAIN ip_queue', i \in RxWaiting'
  <2>1. content'[ip_queue'[k]] = content[ip_queue[k]] /\ content[ip_queue[k]] <= frames
        /\ content[ip_queue[k]] \in Nat
    BY <1>1, <1>7, Apart
  <2>2. CASE content'[rx_netdesc'[i]] = frames + 1
    BY <1>1, <2>1, <2>2
  <2>3. CASE i \in RxWaiting /\ content'[rx_netdesc'[i]] = content[rx_netdesc[i]]
    BY <1>1, <2>1, <2>3 DEF OrderInv, InOrder
  <2> QED BY <1>8, <2>2, <2>3
<1>11. \A i, j \in RxWaiting' :
         RxPlace(i)' < RxPlace(j)' => content'[rx_netdesc'[i]] < content'[rx_netdesc'[j]]
  <2> SUFFICES ASSUME NEW i \in RxWaiting', NEW j \in RxWaiting', RxPlace(i) < RxPlace(j)
               PROVE  content'[rx_netdesc'[i]] < content'[rx_netdesc'[j]]
    BY <1>3
  <2>1. i \in RxSlots /\ j \in RxSlots /\ RxPlace(i) \in Nat /\ RxPlace(j) \in Nat
        /\ RxPlace(rx_produce) \in Nat /\ rx_netdesc[i] \in Buffers
    <3>1. i \in RxSlots /\ j \in RxSlots
      BY DEF RxWaiting
    <3> QED BY <1>1, <3>1, Places
  <2>2. i # rx_produce
    BY <1>8, <2>1
  <2>3. i \in RxWaiting /\ content'[rx_netdesc'[i]] = content[rx_netdesc[i]]
        /\ content[rx_netdesc[i]] <= frames
    BY <1>8, <2>2
  <2>4. CASE content'[rx_netdesc'[j]] = frames + 1
    BY <1>1, <1>2, <2>1, <2>3, <2>4
  <2>5. CASE j \in RxWaiting /\ content'[rx_netdesc'[j]] = content[rx_netdesc[j]]
    BY <2>3, <2>5 DEF OrderInv, InOrder
  <2> QED BY <1>8, <2>4, <2>5
<1>12. \A i \in Buffers : content'[i] <= frames'
  BY <1>1, <1>2
<1> QED BY <1>9, <1>10, <1>11, <1>12 DEF OrderInv, InOrder

\* The oldest frame goes to the end of the queue, or out of the order.
LEMMA SendOrder ==
  ASSUME TypeOK, Ownership, OrderInv, RxSend PROVE OrderInv'
<1> DEFINE b == rx_netdesc[rx_consume]
<1>1. /\ rpc = "send" /\ rpc' = "use" /\ rx_consume \in RxSlots /\ b \in Buffers
      /\ UNCHANGED <<frames, rx_netdesc, rx_bad, rx_produce, rx_consume>>
      /\ content \in [Buffers -> Nat] /\ frames \in Nat
      /\ ip_queue \in Seq(Buffers)
  BY DEF RxSend, TypeOK
<1>2. \A i : RxPlace(i)' = RxPlace(i)
  BY <1>1 DEF RxPlace
<1>3. RxKept = RxSlots
  BY <1>1 DEF RxKept
<1>4. /\ rx_consume \in RxWaiting
      /\ \A i \in RxWaiting : RxPlace(rx_consume) < RxPlace(i) \/ i = rx_consume
      /\ \A i \in RxWaiting : i # rx_consume => rx_netdesc[i] # b
  <2>1. rx_consume \in RxWaiting
    BY <1>1, Places DEF TypeOK, RxWaiting
  <2>2. \A i \in RxWaiting : RxPlace(i) \in Nat /\ (RxPlace(i) = 0 => i = rx_consume)
    BY <1>1, Places DEF RxWaiting
  <2>3. \A i \in RxWaiting : i # rx_consume => rx_netdesc[i] # b
    BY <1>1, <1>3, Apart
  <2> QED BY <2>1, <2>2, <2>3, Places
<1>5. RxWaiting' = RxWaiting \ {rx_consume}
  BY <1>1, <1>2 DEF RxWaiting
<1>6. CASE ip_queue' = Append(ip_queue, b) /\ UNCHANGED content
  <2>1. /\ DOMAIN ip_queue' = DOMAIN ip_queue \cup {Len(ip_queue) + 1}
        /\ \A k \in DOMAIN ip_queue : k \in Nat /\ k < Len(ip_queue) + 1
                                      /\ ip_queue'[k] = ip_queue[k]
        /\ ip_queue'[Len(ip_queue) + 1] = b /\ Len(ip_queue) \in Nat
    BY <1>1, <1>6, AppendPlaces
  <2>2. \A k \in DOMAIN ip_queue : content[ip_queue[k]] < content[b]
    BY <1>4 DEF OrderInv, InOrder
  <2>3. \A i \in RxWaiting' : content[b] < content[rx_netdesc[i]]
    BY <1>4, <1>5 DEF OrderInv, InOrder
  <2>4. \A j, k \in DOMAIN ip_queue' :
          j < k => content'[ip_queue'[j]] < content'[ip_queue'[k]]
    BY <1>6, <2>1, <2>2 DEF OrderInv, InOrder
  <2>5. \A k \in DOMAIN ip_queue', i \in RxWaiting' :
          content'[ip_queue'[k]] < content'[rx_netdesc'[i]]
    BY <1>1, <1>5, <1>6, <2>1, <2>3 DEF OrderInv, InOrder
  <2>6. \A i, j \in RxWaiting' :
          RxPlace(i)' < RxPlace(j)' => content'[rx_netdesc'[i]] < content'[rx_netdesc'[j]]
    BY <1>1, <1>2, <1>5, <1>6 DEF OrderInv, InOrder
  <2>7. \A i \in Buffers : content'[i] <= frames'
    BY <1>1, <1>6 DEF OrderInv
  <2> QED BY <2>4, <2>5, <2>6, <2>7 DEF OrderInv, InOrder
<1>7. CASE content' = [content EXCEPT ![b] = 0] /\ UNCHANGED ip_queue
  <2>1. \A k \in DOMAIN ip_queue : content'[ip_queue[k]] = content[ip_queue[k]]
    BY <1>1, <1>3, <1>7, Apart
  <2>2. \A i \in RxWaiting' : rx_netdesc[i] # b /\ rx_netdesc[i] \in Buffers
    BY <1>4, <1>5 DEF TypeOK, RxWaiting
  <2>3. \A i \in RxWaiting' : content'[rx_netdesc'[i]] = content[rx_netdesc[i]]
    BY <1>1, <1>7, <2>2
  <2>4. InOrder'
    BY <1>2, <1>5, <1>7, <2>1, <2>3, OrderKept DEF OrderInv
  <2>5. \A i \in Buffers : content'[i] <= frames'
    BY <1>1, <1>7 DEF OrderInv
  <2> QED BY <2>4, <2>5 DEF OrderInv
<1> QED BY <1>6, <1>7 DEF RxSend, RxSlot

\* The slot of the oldest frame is given back: the others move up.
LEMMA ConsumeOrder ==
  ASSUME TypeOK, OrderInv, ~RxEmpty, rx_consume' = IncIndex(rx_consume, NUM_RX_DESC),
         UNCHANGED <<content, frames, ip_queue, rx_bad, rx_produce>>,
         rpc = "use" \/ rx_bad[rx_consume], rpc' # "use",
         \A i \in RxSlots : i # rx_consume => rx_netdesc'[i] = rx_netdesc[i]
  PROVE  OrderInv'
<1>1. /\ rx_consume \in 0 .. NUM_RX_DESC - 1 /\ rx_produce \in 0 .. NUM_RX_DESC - 1
      /\ NUM_RX_DESC \in Nat /\ NUM_RX_DESC > 1
  BY RingAssumption DEF RingAssumption, TypeOK, RxSlots
<1>2. rx_consume' = IF rx_consume = NUM_RX_DESC - 1 THEN 0 ELSE rx_consume + 1
  BY <1>1 DEF IncIndex
<1>3. \A i \in RxSlots : i # rx_consume => RxPlace(i)' = RxPlace(i) - 1
  BY <1>1, <1>2 DEF RxPlace, RxSlots
<1>4. RxPlace(rx_consume) = 0
  BY Places
<1>5. ASSUME NEW i \in RxWaiting' PROVE i \in RxWaiting /\ i # rx_consume /\ i \in RxSlots
  <2>1. i \in RxSlots /\ RxPlace(i)' < RxPlace(rx_produce)' /\ ~rx_bad[i]
    BY DEF RxWaiting
  <2>2. rx_produce # rx_consume /\ rx_produce \in RxSlots
    BY DEF RxEmpty, TypeOK
  <2>3. RxPlace(rx_produce)' = RxPlace(rx_produce) - 1
        /\ RxPlace(rx_produce) \in 0 .. NUM_RX_DESC - 1
    <3>1. RxPlace(rx_produce)' = IF rx_produce' >= rx_consume' THEN rx_produce' - rx_consume'
                                 ELSE rx_produce' + NUM_RX_DESC - rx_consume'
      BY DEF RxPlace
    <3> QED BY <1>1, <1>2, <2>2, <3>1, Places DEF RxPlace
  <2>4. i # rx_consume
    <3> SUFFICES ASSUME i = rx_consume PROVE FALSE
      OBVIOUS
    <3>1. RxPlace(i)' = NUM_RX_DESC - 1
      BY <1>1, <1>2 DEF RxPlace
    <3> QED BY <1>1, <2>1, <2>3, <3>1
  <2>5. RxPlace(i) < RxPlace(rx_produce)
    BY <1>3, <2>1, <2>3, <2>4, Places
  <2> QED BY <2>1, <2>4, <2>5 DEF RxWaiting
<1>6. \A i, j \in RxWaiting' : RxPlace(i)' < RxPlace(j)' => RxPlace(i) < RxPlace(j)
  BY <1>3, <1>5, Places
<1>7. InOrder'
  BY <1>5, <1>6, OrderKept DEF OrderInv
<1> QED BY <1>7 DEF OrderInv

\* The stack takes the oldest frame of the queue.
LEMMA TakeOrder ==
  ASSUME TypeOK, Ownership, OrderInv, StackTake PROVE OrderInv'
<1> DEFINE b == Head(ip_queue)
<1>1. /\ ip_queue \in Seq(Buffers) /\ ip_queue # <<>> /\ ip_queue' = Tail(ip_queue)
      /\ content' = [content EXCEPT ![b] = 0] /\ content \in [Buffers -> Nat]
      /\ frames \in Nat
      /\ UNCHANGED <<frames, rx_netdesc, rx_bad, rx_produce, rx_consume, rpc>>
  BY DEF StackTake, TypeOK, rxTask
<1>2. RxWaiting' = RxWaiting /\ \A i : RxPlace(i)' = RxPlace(i)
  BY <1>1 DEF RxWaiting, RxPlace
<1>3. /\ 1 \in DOMAIN ip_queue /\ b = ip_queue[1]
      /\ \A k \in DOMAIN ip_queue' :
           k \in Nat \ {0} /\ k + 1 \in DOMAIN ip_queue /\ ip_queue'[k] = ip_queue[k + 1]
  BY <1>1, TailPlaces
<1>4. \A k \in DOMAIN ip_queue' :
        content'[ip_queue'[k]] = content[ip_queue[k + 1]]
  <2> TAKE k \in DOMAIN ip_queue'
  <2>1. k + 1 # 1 /\ k + 1 \in DOMAIN ip_queue
    BY <1>3
  <2>2. ip_queue[k + 1] # b /\ ip_queue[k + 1] \in Buffers
    BY <1>3, <2>1, Apart
  <2> QED BY <1>1, <1>3, <2>2
<1>5. \A i \in RxWaiting : content'[rx_netdesc'[i]] = content[rx_netdesc[i]]
  <2> TAKE i \in RxWaiting
  <2>1. rx_netdesc[i] # b /\ rx_netdesc[i] \in Buffers
    BY <1>3, Apart DEF TypeOK, RxWaiting
  <2> QED BY <1>1, <2>1
<1>6. \A j, k \in DOMAIN ip_queue' :
        j < k => content'[ip_queue'[j]] < content'[ip_queue'[k]]
  BY <1>3, <1>4 DEF OrderInv, InOrder
<1>7. \A k \in DOMAIN ip_queue', i \in RxWaiting' :
        content'[ip_queue'[k]] < content'[rx_netdesc'[i]]
  BY <1>2, <1>3, <1>4, <1>5 DEF OrderInv, InOrder
<1>8. \A i, j \in RxWaiting' :
        RxPlace(i)' < RxPlace(j)' => content'[rx_netdesc'[i]] < content'[rx_netdesc'[j]]
  BY <1>2, <1>5 DEF OrderInv, InOrder
<1>9. \A i \in Buffers : content'[i] <= frames'
  BY <1>1 DEF OrderInv
<1> QED BY <1>6, <1>7, <1>8, <1>9 DEF OrderInv, InOrder

LEMMA OrderStep ==
  ASSUME IInv, TypeOK', OrderInv, [Next]_vars PROVE OrderInv'
<1> USE DEF macRx, rxTask, txVars
<1>0. TypeOK /\ Ownership /\ Aligned
  BY DEF IInv
<1>1. ASSUME NEW bad \in BOOLEAN, MacReceive(bad) PROVE OrderInv'
  BY <1>0, <1>1, ReceiveOrder
<1>2. CASE MacOverrun
  <2>1. frames' = frames + 1 /\ frames \in Nat /\ content \in [Buffers -> Nat]
        /\ UNCHANGED <<content, ip_queue, rx_netdesc, rx_bad, rx_produce, rx_consume, rpc>>
    BY <1>0, <1>2 DEF MacOverrun, TypeOK
  <2>2. RxWaiting' = RxWaiting /\ \A i : RxPlace(i)' = RxPlace(i)
    BY <2>1 DEF RxWaiting, RxPlace
  <2>3. InOrder'
    BY <2>1, <2>2, OrderKept DEF OrderInv
  <2>4. \A i \in Buffers : content'[i] <= frames'
    BY <2>1 DEF OrderInv
  <2> QED BY <2>3, <2>4 DEF OrderInv
<1>3. CASE MacTransmit \/ eth_isr \/ RxWait \/ RxGet \/ StackGet \/ StackRelease
           \/ eth_pf_output \/ UNCHANGED vars
  <2>1. /\ UNCHANGED <<content, frames, ip_queue, rx_netdesc, rx_bad, rx_produce, rx_consume>>
        /\ rpc' = "use" <=> rpc = "use"
    BY <1>3 DEF MacTransmit, eth_isr, RxWait, RxGet, StackGet, StackRelease, eth_pf_output,
       vars
  <2> QED BY <2>1, StillOrder
<1>4. CASE RxTest
  <2>1. CASE UNCHANGED rx_consume
    <3>1. /\ UNCHANGED <<content, frames, ip_queue, rx_netdesc, rx_bad, rx_produce, rx_consume>>
          /\ rpc' # "use" /\ rpc # "use"
      BY <1>4, <2>1 DEF RxTest
    <3> QED BY <3>1, StillOrder
  <2>2. CASE rx_consume' # rx_consume
    BY <1>0, <1>4, <2>2, ConsumeOrder DEF RxTest, RxSlot
  <2> QED BY <2>1, <2>2
<1>5. CASE RxSend
  BY <1>0, <1>5, SendOrder
<1>6. CASE RxUse
  <2>1. \A i \in RxSlots : i # rx_consume => rx_netdesc'[i] = rx_netdesc[i]
    BY <1>0, <1>6 DEF RxUse, UseNew, TypeOK
  <2>2. ~RxEmpty
    BY <1>0, <1>6 DEF RxUse, TypeOK
  <2> QED BY <1>0, <1>6, <2>1, <2>2, ConsumeOrder DEF RxUse
<1>7. CASE StackTake
  BY <1>0, <1>7, TakeOrder
<1> QED BY <1>1, <1>2, <1>3, <1>4, <1>5, <1>6, <1>7 DEF Next, Mac, RxTask, Stack

\* Nothing is on its way at the start.
LEMMA InitOrder == Init => OrderInv
<1> SUFFICES ASSUME Init PROVE OrderInv
  OBVIOUS
<1>1. DOMAIN ip_queue = {}
  BY DEF Init
<1>2. RxWaiting = {}
  <2>1. TypeOK /\ rx_produce = rx_consume
    BY InitTypes DEF Init
  <2>2. \A i \in RxSlots : ~(RxPlace(i) < RxPlace(rx_produce))
    BY <2>1, Places
  <2> QED BY <2>2 DEF RxWaiting
<1>3. \A b \in Buffers : content[b] <= frames
  BY DEF Init
<1> QED BY <1>1, <1>2, <1>3 DEF OrderInv, InOrder

-----------------------------------------------------------------------------
(* Theorems *)

\* The driver's variables keep their types; a frame that is being handed over
\* is intact and still in the ring.
THEOREM TypeCorrect == Spec => []TypeOK
  BY IInvCorrect, PTL DEF IInv

\* Every network buffer has exactly one owner.
THEOREM OwnershipCorrect == Spec => []Ownership
  BY IInvCorrect, PTL DEF IInv

\* eth_rx_task never sleeps on a frame without a wake-up coming.
THEOREM WakeupCorrect == Spec => []NoLostWakeup
  BY IInvCorrect, PTL DEF IInv

\* Frames reach the stack in the order of their arrival, each in the buffer it
\* arrived in, while the MAC fills slots behind them (the loop of eth_rx_task).
THEOREM OrderCorrect == Spec => []InOrder
<1>1. IInv /\ IInv' /\ OrderInv /\ [Next]_vars => OrderInv'
  BY OrderStep DEF IInv
<1>2. OrderInv => InOrder
  BY DEF OrderInv
<1> QED BY <1>1, <1>2, InitOrder, IInvCorrect, PTL DEF Spec

\* The MAC writes into, and sends from, only buffers its rings own.
THEOREM DmaCorrect == Spec => DmaOwnsBuffer
<1>1. ASSUME IInv, [Next]_vars
      PROVE  /\ rx_produce' # rx_produce => rx_desc[rx_produce] \in RxHeld
             /\ tx_consume' # tx_consume => tx_desc[tx_consume] \in TxHeld \cup {NULL}
  <2>1. ASSUME rx_produce' # rx_produce PROVE rx_desc[rx_produce] \in RxHeld
    <3>1. \E bad \in BOOLEAN : MacReceive(bad)
      BY <1>1, <2>1 DEF Next, Mac, RxTask, Stack, MacOverrun, MacTransmit, eth_isr, RxWait,
         RxTest, RxGet, RxSend, RxUse, StackTake, StackGet, StackRelease, eth_pf_output,
         vars, macRx
    <3>2. rx_produce \in RxSlots /\ (rpc = "use" => rx_produce # rx_consume)
      BY <1>1 DEF IInv, TypeOK, RxEmpty
    <3> QED BY <1>1, <3>2 DEF IInv, Aligned, RxHeld, RxKept
  <2>2. tx_desc[tx_consume] \in TxHeld \cup {NULL}
    BY <1>1 DEF IInv, TypeOK, Aligned, TxHeld
  <2> QED BY <2>1, <2>2
<1>2. IInv /\ [Next]_vars =>
        [/\ rx_produce' # rx_produce => rx_desc[rx_produce] \in RxHeld
         /\ tx_consume' # tx_consume => tx_desc[tx_consume] \in TxHeld \cup {NULL}]_vars
  BY <1>1
<1> QED BY <1>2, IInvCorrect, PTL DEF Spec, DmaOwnsBuffer
=============================================================================
