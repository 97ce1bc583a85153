--------------------------- MODULE EthBridgeProofs ---------------------------
(* Theorems about EthBridge, for every pool, queue and transfer size. *)
EXTENDS EthBridge, QueueLemmas

-----------------------------------------------------------------------------
(* The inductive invariant: types, what holds at each place of eth_task's    *)
(* loop, and the one IN transfer under way.                                  *)

PcInv ==
  /\ epc \in {"rx", "txcb"} => num >= 1
  /\ rx_new # NULL <=> epc \in {"rxcb", "poke", "swap", "untaken"}
  /\ epc \in {"txcb", "errcb"} => tx_pkt = NULL

\* The controller is armed for, or has queued the end of, at most one IN
\* transfer, and only while a block is handed to it.
InInv ==
  /\ AtMostOnce(evq, "in")
  /\ "in" \in Range(evq) => "in" \notin armed /\ in_ntbs > 0
  /\ "in" \in armed => in_ntbs > 0

-----------------------------------------------------------------------------
(* Types *)

\* Deferring a call leaves a well-typed event queue.
LEMMA DeferTypes ==
  ASSUME BufferTypes, NEW e \in Events, Defer(e)
  PROVE  evq' \in Seq(Events) /\ Len(evq') <= EVQ_SIZE
  BY SizeAssumption, BoundedQueue DEF SizeAssumption, BufferTypes, Defer

\* So does taking an event.
LEMMA TakeEventTypes ==
  ASSUME BufferTypes, NEW e, TakeEvent(e)
  PROVE  evq' \in Seq(Events) /\ Len(evq') <= EVQ_SIZE
  BY SizeAssumption, BoundedQueue DEF SizeAssumption, BufferTypes, TakeEvent

\* And an interrupt, which may find the queue full.
LEMMA InterruptTypes ==
  ASSUME BufferTypes, NEW e \in Events, Interrupt(e)
  PROVE  evq' \in Seq(Events) /\ Len(evq') <= EVQ_SIZE
  <1>1. CASE Len(evq) < EVQ_SIZE /\ evq' = Append(evq, e)
    BY <1>1, SizeAssumption, BoundedQueue DEF SizeAssumption, BufferTypes
  <1>2. CASE evq' = evq
    BY <1>2 DEF BufferTypes
  <1> QED BY <1>1, <1>2 DEF Interrupt

\* And a step of either packet queue within its capacity.
LEMMA ReqsTypes ==
  ASSUME BufferTypes, NEW reqs \in {tx_reqs, usb_reqs}
  PROVE  /\ reqs # <<>> => /\ Head(reqs) \in Packets
                          /\ Tail(reqs) \in Seq(Packets) /\ Len(Tail(reqs)) <= REQ_SIZE
         /\ \A p \in Packets : Len(reqs) < REQ_SIZE =>
              Append(reqs, p) \in Seq(Packets) /\ Len(Append(reqs, p)) <= REQ_SIZE
  <1>1. reqs \in Seq(Packets) /\ Len(reqs) <= REQ_SIZE /\ REQ_SIZE \in Nat
    BY PoolAssumption DEF PoolAssumption, BufferTypes
  <1> QED BY <1>1, BoundedQueue, TailQueue

\* A datagram is queued only while there is room for it.
LEMMA RecvTypes ==
  ASSUME BufferTypes, recv_cb
  PROVE  /\ pool' \in SUBSET Packets
         /\ tx_reqs' \in Seq(Packets) /\ Len(tx_reqs') <= REQ_SIZE
         /\ armed' \in SUBSET Endpoints
  <1>1. CASE UNCHANGED <<pool, tx_reqs, armed>>
    BY <1>1 DEF BufferTypes
  <1>2. CASE /\ Len(tx_reqs) < REQ_SIZE
             /\ \E p \in pool : pool' = pool \ {p} /\ tx_reqs' = Append(tx_reqs, p)
             /\ armed' = armed \cup {"out"}
    <2>1. PICK p \in pool : pool' = pool \ {p} /\ tx_reqs' = Append(tx_reqs, p)
      BY <1>2
    <2>2. p \in Packets /\ pool' \in SUBSET Packets
      BY <2>1 DEF BufferTypes
    <2>3. tx_reqs' \in Seq(Packets) /\ Len(tx_reqs') <= REQ_SIZE
      BY <1>2, <2>1, <2>2, ReqsTypes
    <2>4. armed' \in SUBSET Endpoints
      BY <1>2 DEF BufferTypes, Endpoints
    <2> QED BY <2>2, <2>3, <2>4
  <1> QED BY <1>1, <1>2 DEF recv_cb

\* The steps of usb_task that do no more than take an event and arm endpoints
\* other than that of the IN transfers.
LEMMA OtherEvents ==
  ASSUME UsbDropDatagram \/ UsbPoke \/ UsbHid \/ UsbRequest \/ UsbSent
  PROVE  /\ \E e \in Events \ {"in", "renew"} : TakeEvent(e)
         /\ armed \subseteq armed' /\ armed' \subseteq armed \cup (Endpoints \ {"in"})
         /\ upc' \in Commands \/ TudReturns
         /\ UNCHANGED <<pool, tx_reqs, usb_reqs, notified, ethVars, usb_pkt, stalled, in_ntbs>>
  <1> USE DEF Events, Endpoints
  <1>1. CASE UsbDropDatagram \/ UsbPoke
    BY <1>1 DEF UsbDropDatagram, UsbPoke
  <1>2. CASE UsbHid
    <2>1. PICK ep \in Commands :
            TakeEvent(ep) /\ upc' = ep /\ armed' = armed \cup ({ep} \cap {"ctrl"})
      BY <1>2 DEF UsbHid
    <2> QED BY <1>2, <2>1 DEF UsbHid, Commands
  <1>3. CASE UsbRequest
    <2>1. PICK ep \in Commands, answer \in {{}, report_armed} :
            TakeEvent(ep) /\ armed' = armed \cup {ep} \cup answer
      BY <1>3 DEF UsbRequest
    <2> QED BY <1>3, <2>1 DEF UsbRequest, Commands, report_armed
  <1>4. CASE UsbSent
    <2>1. \/ TakeEvent("hid_in") /\ UNCHANGED armed
          \/ TakeEvent("notif") /\ armed' \in {armed, armed \cup {"notif"}}
      BY <1>4 DEF UsbSent
    <2> QED BY <1>4, <2>1 DEF UsbSent
  <1> QED BY <1>1, <1>2, <1>3, <1>4

LEMMA BufferTypesStep ==
  ASSUME BufferTypes, PcInv, InInv, [Next]_vars
  PROVE  BufferTypes'
  <1> USE PoolAssumption, SizeAssumption
      DEF PoolAssumption, SizeAssumption, BufferTypes, PcInv, Goto, EthPCs, usbVars, ethVars,
          Min2, Max2, pkt_free
  <1>1. CASE EthTake
    BY <1>1 DEF EthTake, LoopTop
  <1>2. CASE EthInit
    BY <1>2 DEF EthInit
  <1>3. CASE EthPull
    <2>1. tx_reqs # <<>> => /\ Head(tx_reqs) \in Packets
                            /\ Tail(tx_reqs) \in Seq(Packets) /\ Len(Tail(tx_reqs)) <= REQ_SIZE
      BY ReqsTypes
    <2>2. tx_reqs' = tx_reqs \/ (tx_reqs # <<>> /\ tx_reqs' = Tail(tx_reqs))
      BY <1>3 DEF EthPull
    <2>3. tx_reqs' \in Seq(Packets) /\ Len(tx_reqs') <= REQ_SIZE
      BY <2>1, <2>2
    <2>4. tx_pkt' \in Packets \cup {NULL} /\ tx_len' \in 0..PKT_CHUNKS
      BY <1>3, <2>1 DEF EthPull
    <2> QED BY <1>3, <2>3, <2>4 DEF EthPull
  <1>4. ASSUME NEW n \in 1..MAX_CHUNKS, EthFill(n)
        PROVE  BufferTypes'
    <2>1. tx_prefer \in 0..PKT_CHUNKS /\ tx_prefer <= tx_len
      BY DEF tx_prefer
    <2>2. tx_chunks \in Nat /\ tx_chunks <= tx_free /\ tx_chunks <= tx_prefer
      BY <2>1 DEF tx_chunks
    <2>3. tx_len' \in 0..PKT_CHUNKS /\ tx_free' \in 0..CREDITS
      <3> DEFINE fill == Min2(n, tx_chunks)
      <3>1. fill \in Nat /\ fill <= tx_free /\ fill <= tx_len
        BY <1>4, <2>1, <2>2 DEF Min2
      <3>2. tx_len' = tx_len - fill /\ tx_free' = tx_free - fill
        BY <1>4 DEF EthFill
      <3> HIDE DEF fill
      <3> QED BY <3>1, <3>2
    <2>4. pool' \in SUBSET Packets /\ tx_pkt' \in Packets \cup {NULL}
      BY <1>4, <2>1, <2>2 DEF EthFill
    <2>5. num' \in 0..MAX_CHUNKS /\ epc' \in EthPCs
      BY <1>4 DEF EthFill
    <2> QED BY <1>4, <2>3, <2>4, <2>5 DEF EthFill
  <1>5. CASE EthTxCallback
    <2>1. evq' \in Seq(Events) /\ Len(evq') <= EVQ_SIZE
      BY <1>5, DeferTypes DEF EthTxCallback, Events
    <2> QED BY <1>5, <2>1 DEF EthTxCallback
  <1>6. ASSUME NEW txc \in 0..CREDITS, NEW rca \in pending, RxQuiet(txc, rca)
        PROVE  BufferTypes'
    BY <1>6 DEF RxQuiet, ChunkDone
  <1>7. ASSUME NEW txc \in 0..CREDITS, NEW rca \in pending, RxFrame(txc, rca)
        PROVE  BufferTypes'
    BY <1>7 DEF RxFrame, ChunkDone
  <1>8. CASE EthRxCallback
    <2>1. \/ usb_reqs' = usb_reqs
          \/ Len(usb_reqs) < REQ_SIZE /\ usb_reqs' = Append(usb_reqs, rx_pkt)
      BY <1>8 DEF EthRxCallback
    <2>2. Len(usb_reqs) < REQ_SIZE =>
            Append(usb_reqs, rx_pkt) \in Seq(Packets) /\ Len(Append(usb_reqs, rx_pkt)) <= REQ_SIZE
      BY ReqsTypes
    <2>3. usb_reqs' \in Seq(Packets) /\ Len(usb_reqs') <= REQ_SIZE
      BY <2>1, <2>2
    <2> QED BY <1>8, <2>3 DEF EthRxCallback
  <1>9. CASE EthRxPoke
    <2>1. evq' \in Seq(Events) /\ Len(evq') <= EVQ_SIZE
      BY <1>9, DeferTypes DEF EthRxPoke, Events
    <2> QED BY <1>9, <2>1 DEF EthRxPoke
  <1>10. CASE EthRxSwap
    BY <1>10 DEF EthRxSwap, swap
  <1>11. CASE RxError
    BY <1>11 DEF RxError, handle_error
  <1>12. CASE RxReset
    BY <1>12 DEF RxReset
  <1>13. CASE EthEnd
    BY <1>13 DEF EthEnd, LoopTop
  <1>14. CASE UsbDatagram
    <2>1. evq' \in Seq(Events) /\ Len(evq') <= EVQ_SIZE
      BY <1>14, TakeEventTypes DEF UsbDatagram
    <2>2. /\ pool' \in SUBSET Packets /\ armed' \in SUBSET Endpoints
          /\ tx_reqs' \in Seq(Packets) /\ Len(tx_reqs') <= REQ_SIZE
      BY <1>14, RecvTypes DEF UsbDatagram
    <2> QED BY <1>14, <2>1, <2>2 DEF UsbDatagram, TudReturns
  <1>15. CASE UsbRenew
    <2>1. evq' \in Seq(Events) /\ Len(evq') <= EVQ_SIZE
      BY <1>15, TakeEventTypes DEF UsbRenew
    <2>2. recv_cb \/ UNCHANGED <<pool, tx_reqs, armed>>
      BY <1>15 DEF UsbRenew
    <2>3. /\ pool' \in SUBSET Packets /\ armed' \in SUBSET Endpoints
          /\ tx_reqs' \in Seq(Packets) /\ Len(tx_reqs') <= REQ_SIZE
      BY <2>2, RecvTypes
    <2> QED BY <1>15, <2>1, <2>3 DEF UsbRenew, TudReturns
  <1>16. CASE UsbDropDatagram \/ UsbPoke \/ UsbHid \/ UsbRequest \/ UsbSent
    <2>1. evq' \in Seq(Events) /\ Len(evq') <= EVQ_SIZE
      BY <1>16, OtherEvents, TakeEventTypes
    <2>2. armed' \in SUBSET Endpoints /\ upc' \in {"tud", "loop"} \cup Commands
      BY <1>16, OtherEvents DEF TudReturns
    <2>3. UNCHANGED <<pool, tx_reqs, usb_reqs, ethVars, usb_pkt, in_ntbs>>
      BY <1>16, OtherEvents
    <2> QED BY <2>1, <2>2, <2>3
  <1>17. CASE UsbInDone
    <2>1. evq' \in Seq(Events) /\ Len(evq') <= EVQ_SIZE
      BY <1>17, TakeEventTypes DEF UsbInDone
    <2>2. "in" \in Range(evq)
      BY <1>17, TailQueue DEF UsbInDone, TakeEvent
    <2>3. in_ntbs' \in 0..IN_NTBS
      BY <1>17, <2>2 DEF UsbInDone, InInv
    <2>4. upc' \in {"tud", "loop"} \cup Commands /\ armed' \in SUBSET Endpoints
      BY <1>17 DEF UsbInDone, TudReturns, Endpoints
    <2> QED BY <1>17, <2>1, <2>3, <2>4 DEF UsbInDone
  <1>18. CASE UsbHidDone
    <2>1. armed' \in SUBSET Endpoints
      BY <1>18 DEF UsbHidDone, Endpoints, report_armed
    <2> QED BY <1>18, <2>1 DEF UsbHidDone
  <1>19. CASE UsbLoop
    <2>1. usb_reqs # <<>> => /\ Head(usb_reqs) \in Packets
                             /\ Tail(usb_reqs) \in Seq(Packets) /\ Len(Tail(usb_reqs)) <= REQ_SIZE
      BY ReqsTypes
    <2>2. usb_reqs' = usb_reqs \/ (usb_reqs # <<>> /\ usb_reqs' = Tail(usb_reqs))
      BY <1>19 DEF UsbLoop, receives
    <2>3. usb_reqs' \in Seq(Packets) /\ Len(usb_reqs') <= REQ_SIZE
      BY <2>1, <2>2
    <2>4. next_pkt \in Packets \cup {NULL}
      BY <2>1 DEF next_pkt, receives
    <2>5. pool' \in SUBSET Packets /\ usb_pkt' \in Packets \cup {NULL}
      BY <1>19, <2>4 DEF UsbLoop
    <2>6. in_ntbs' \in 0..IN_NTBS
      BY <1>19 DEF UsbLoop
    <2>7. armed' \in SUBSET Endpoints
      BY <1>19 DEF UsbLoop, Endpoints
    <2> QED BY <1>19, <2>3, <2>5, <2>6, <2>7 DEF UsbLoop
  <1>20. ASSUME NEW ep \in Endpoints, HostTransfer(ep)
         PROVE  BufferTypes'
    <2>1. evq' \in Seq(Events) /\ Len(evq') <= EVQ_SIZE
      BY <1>20, InterruptTypes DEF HostTransfer, Events, Endpoints
    <2> QED BY <1>20, <2>1 DEF HostTransfer
  <1>21. CASE MacphyInterrupt
    BY <1>21 DEF MacphyInterrupt
  <1>22. CASE UNCHANGED vars
    BY <1>22 DEF vars
  <1> HIDE DEF BufferTypes
  <1> QED
    BY <1>1, <1>2, <1>3, <1>4, <1>5, <1>6, <1>7, <1>8, <1>9, <1>10, <1>11,
       <1>12, <1>13, <1>14, <1>15, <1>16, <1>17, <1>18, <1>19, <1>20, <1>21,
       <1>22 DEF Next, EthStep, UsbStep, Environment

\* usb_task and the environment leave eth_task's own variables alone.
LEMMA OthersKeepEth ==
  ASSUME UsbStep \/ Environment
  PROVE  UNCHANGED ethVars
  <1> USE DEF ethVars
  <1>1. CASE UsbStep
    BY <1>1 DEF UsbStep, UsbDatagram, UsbDropDatagram, UsbRenew, UsbPoke,
                UsbInDone, UsbHid, UsbRequest, UsbSent, UsbHidDone, UsbLoop
  <1>2. CASE Environment
    BY <1>2 DEF Environment, MacphyInterrupt, HostTransfer
  <1> QED BY <1>1, <1>2

LEMMA FlagTypesStep ==
  ASSUME FlagTypes, [Next]_vars
  PROVE  FlagTypes'
  <1> USE DEF FlagTypes, ethVars, usbVars
  <1>1. CASE EthTake \/ EthInit \/ EthPull \/ EthTxCallback
    BY <1>1 DEF EthTake, EthInit, EthPull, EthTxCallback
  <1>2. ASSUME NEW n \in 1..MAX_CHUNKS, EthFill(n)
        PROVE  FlagTypes'
    BY <1>2 DEF EthFill
  <1>3. ASSUME NEW txc \in 0..CREDITS, NEW rca \in pending,
               RxQuiet(txc, rca) \/ RxFrame(txc, rca)
        PROVE  FlagTypes'
    <2>1. rca = FALSE \/ rca = ("pending" \in MACPHY_USES)
      BY DEF pending
    <2>2. rca \in BOOLEAN
      <3>1. CASE "pending" \in MACPHY_USES
        <4>1. ("pending" \in MACPHY_USES) = TRUE BY <3>1
        <4> QED BY <2>1, <4>1
      <3>2. CASE "pending" \notin MACPHY_USES
        <4>1. ("pending" \in MACPHY_USES) = FALSE BY <3>2
        <4> QED BY <2>1, <4>1
      <3> QED BY <3>1, <3>2
    <2> QED BY <1>3, <2>2 DEF RxQuiet, RxFrame, ChunkDone
  <1>4. CASE EthRxCallback \/ EthRxPoke \/ EthRxSwap
    BY <1>4 DEF EthRxCallback, EthRxPoke, EthRxSwap, swap
  <1>5. CASE RxError \/ RxReset \/ EthEnd
    BY <1>5 DEF RxError, handle_error, RxReset, EthEnd
  <1>6. CASE UsbDatagram \/ UsbRenew
    BY <1>6 DEF UsbDatagram, UsbRenew, recv_cb
  <1>7. CASE UsbDropDatagram \/ UsbPoke \/ UsbInDone \/ UsbHid \/ UsbRequest \/ UsbSent
    BY <1>7 DEF UsbDropDatagram, UsbPoke, UsbInDone, UsbHid, UsbRequest, UsbSent
  <1>8. CASE UsbHidDone \/ UsbLoop
    BY <1>8 DEF UsbHidDone, UsbLoop
  <1>9. CASE Environment
    BY <1>9 DEF Environment, MacphyInterrupt, HostTransfer
  <1>10. CASE UNCHANGED vars
    BY <1>10 DEF vars
  <1> HIDE DEF FlagTypes
  <1> QED BY <1>1, <1>2, <1>3, <1>4, <1>5, <1>6, <1>7, <1>8, <1>9, <1>10
          DEF Next, EthStep, UsbStep

LEMMA PcInvStep ==
  ASSUME BufferTypes, PcInv, [Next]_vars
  PROVE  PcInv'
  <1> USE PoolAssumption DEF PoolAssumption, BufferTypes, PcInv, Goto
  <1>1. CASE EthTake \/ EthInit \/ EthEnd
    BY <1>1 DEF EthTake, EthInit, EthEnd, LoopTop
  <1>2. CASE EthPull \/ EthTxCallback
    BY <1>2 DEF EthPull, EthTxCallback
  <1>3. ASSUME NEW n \in 1..MAX_CHUNKS, EthFill(n)
        PROVE  PcInv'
    BY <1>3 DEF EthFill
  <1>4. ASSUME NEW txc \in 0..CREDITS, NEW rca \in pending, RxQuiet(txc, rca)
        PROVE  PcInv'
    BY <1>4 DEF RxQuiet, ChunkDone
  <1>5. ASSUME NEW txc \in 0..CREDITS, NEW rca \in pending, RxFrame(txc, rca)
        PROVE  PcInv'
    BY <1>5 DEF RxFrame, ChunkDone
  <1>6. CASE EthRxCallback \/ EthRxPoke
    BY <1>6 DEF EthRxCallback, EthRxPoke
  <1>7. CASE EthRxSwap
    BY <1>7 DEF EthRxSwap, swap
  <1>8. CASE RxError \/ RxReset
    BY <1>8 DEF RxError, handle_error, RxReset
  <1>9. CASE UNCHANGED ethVars
    BY <1>9 DEF ethVars
  <1> HIDE DEF PcInv
  <1> QED BY <1>1, <1>2, <1>3, <1>4, <1>5, <1>6, <1>7, <1>8, <1>9, OthersKeepEth
          DEF Next, EthStep, vars

\* Deferring a call changes nothing about the IN transfer.
LEMMA DeferInInv ==
  ASSUME BufferTypes, InInv, NEW e \in {"renew", "poke"}, Defer(e),
         UNCHANGED <<armed, in_ntbs>>
  PROVE  InInv'
  <1>1. evq \in Seq(Events) /\ e \in Events BY DEF BufferTypes, Events
  <1>2. evq' = Append(evq, e) BY DEF Defer
  <1>3. Range(evq') = Range(evq) \cup {e} /\ AtMostOnce(evq', "in")
    BY <1>1, <1>2, AppendQueue, OnceAppend DEF InInv
  <1> QED BY <1>3 DEF InInv

\* Nor does taking an event other than the end of one.
LEMMA TakeInInv ==
  ASSUME BufferTypes, InInv, NEW e \in Events \ {"in"}, TakeEvent(e),
         in_ntbs' = in_ntbs, armed' \cap {"in"} = armed \cap {"in"}
  PROVE  InInv'
  <1>1. evq \in Seq(Events) /\ evq # <<>> /\ evq' = Tail(evq)
    BY DEF BufferTypes, TakeEvent
  <1>2. Range(evq') \subseteq Range(evq) /\ AtMostOnce(evq', "in")
    BY <1>1, TailQueue, OnceTail DEF InInv
  <1> QED BY <1>2 DEF InInv

LEMMA InInvStep ==
  ASSUME BufferTypes, InInv, [Next]_vars
  PROVE  InInv'
  <1>1. CASE UNCHANGED <<evq, armed, in_ntbs>>
    BY <1>1 DEF InInv
  <1>2. CASE EthTxCallback \/ EthRxPoke
    BY <1>2, DeferInInv DEF EthTxCallback, EthRxPoke, usbVars
  <1>3. CASE UsbDatagram
    <2>1. armed' \cap {"in"} = armed \cap {"in"}
      BY <1>3 DEF UsbDatagram, recv_cb
    <2> QED BY <1>3, <2>1, TakeInInv DEF UsbDatagram, Events, Endpoints
  <1>4. CASE UsbRenew
    <2>1. armed' \cap {"in"} = armed \cap {"in"}
      BY <1>4 DEF UsbRenew, recv_cb
    <2> QED BY <1>4, <2>1, TakeInInv DEF UsbRenew, Events
  <1>5. CASE UsbDropDatagram \/ UsbPoke \/ UsbHid \/ UsbRequest \/ UsbSent
    <2>1. armed' \cap {"in"} = armed \cap {"in"} /\ UNCHANGED in_ntbs
      BY <1>5, OtherEvents
    <2>2. \E e \in Events \ {"in"} : TakeEvent(e)
      BY <1>5, OtherEvents
    <2> QED BY <2>1, <2>2, TakeInInv
  <1>6. CASE UsbInDone
    <2>1. evq \in Seq(Events) /\ evq # <<>> /\ evq' = Tail(evq) /\ Head(evq) = "in"
      BY <1>6 DEF UsbInDone, TakeEvent, BufferTypes
    <2>2. "in" \in Range(evq) /\ "in" \notin Range(evq') /\ AtMostOnce(evq', "in")
      BY <2>1, TailQueue, OnceTail DEF InInv
    <2> QED BY <1>6, <2>2 DEF UsbInDone, InInv
  <1>7. CASE UsbHidDone
    <2>1. armed' \cap {"in"} = armed \cap {"in"} /\ UNCHANGED <<evq, in_ntbs>>
      BY <1>7 DEF UsbHidDone, report_armed
    <2> QED BY <2>1 DEF InInv
  <1>8. CASE UsbLoop
    <2>1. in_ntbs \in Nat /\ UNCHANGED evq
      BY <1>8 DEF UsbLoop, BufferTypes
    <2>2. \/ UNCHANGED <<in_ntbs, armed>>
          \/ /\ in_ntbs' > 0
             /\ IF in_ntbs = 0 THEN armed' = armed \cup {"in"} ELSE armed' = armed
      BY <1>8 DEF UsbLoop
    <2> QED BY <2>1, <2>2 DEF InInv
  <1>9. ASSUME NEW ep \in Endpoints, HostTransfer(ep)
        PROVE  InInv'
    <2>1. evq \in Seq(Events) /\ ep \in Events /\ ep \in armed
      BY <1>9 DEF HostTransfer, BufferTypes, Events, Endpoints
    <2>2. CASE evq' = evq
      BY <1>9, <2>2 DEF HostTransfer, InInv
    <2>3. CASE evq' = Append(evq, ep)
      <3>1. Range(evq') = Range(evq) \cup {ep} /\ AtMostOnce(evq', "in")
        BY <2>1, <2>3, AppendQueue, OnceAppend DEF InInv
      <3> QED BY <1>9, <2>1, <3>1 DEF HostTransfer, InInv
    <2> QED BY <1>9, <2>2, <2>3 DEF HostTransfer, Interrupt
  <1>10. CASE EthStep /\ ~EthTxCallback /\ ~EthRxPoke
    <2>1. UNCHANGED <<evq, armed, in_ntbs>>
      BY <1>10 DEF EthStep, EthTake, EthInit, EthPull, EthFill, RxQuiet, RxFrame,
         EthRxCallback, EthRxSwap, swap, RxError, handle_error, RxReset, EthEnd, usbVars
    <2> QED BY <1>1, <2>1
  <1> QED BY <1>1, <1>2, <1>3, <1>4, <1>5, <1>6, <1>7, <1>8, <1>9, <1>10
          DEF Next, UsbStep, Environment, MacphyInterrupt, vars, usbVars

-----------------------------------------------------------------------------
(* Ownership of the buffers *)

\* A step that moves no buffer.
Still ==
  /\ UNCHANGED <<pool, tx_reqs, tx_pkt, usb_reqs, usb_pkt, rx_pkt, rx_new>>
  /\ epc \in {"poke", "swap"} <=> epc' \in {"poke", "swap"}

LEMMA StillOwnership ==
  ASSUME Ownership, Still
  PROVE  Ownership'
  <1>1. RxHeld' = RxHeld
    BY DEF RxHeld, Still
  <1>2. TxHeld' = TxHeld /\ HostHeld' = HostHeld
    BY DEF TxHeld, HostHeld, Still
  <1> QED BY <1>1, <1>2 DEF Ownership, Still

\* A datagram moves from the pool to the TX queue, or nowhere.
LEMMA RecvOwnership ==
  ASSUME BufferTypes, Ownership, recv_cb, UNCHANGED <<ethVars, usb_reqs, usb_pkt>>
  PROVE  Ownership'
  <1>1. CASE UNCHANGED <<pool, tx_reqs>>
    <2>1. Still BY <1>1 DEF Still, ethVars
    <2> QED BY <2>1, StillOwnership
  <1>2. ASSUME NEW p \in pool, pool' = pool \ {p}, tx_reqs' = Append(tx_reqs, p)
        PROVE  Ownership'
    <2>1. tx_reqs \in Seq(Packets) /\ p \in Packets
      BY DEF BufferTypes
    <2>2. p \notin TxHeld /\ p \notin RxHeld /\ p \notin HostHeld
      BY DEF Ownership
    <2>3. p \notin Range(tx_reqs) /\ p # tx_pkt
      BY <2>1, <2>2, PoolAssumption DEF TxHeld, PoolAssumption
    <2>4. /\ Range(tx_reqs') = Range(tx_reqs) \cup {p}
          /\ IsInjective(tx_reqs')
      BY <1>2, <2>1, <2>3, AppendQueue DEF Ownership
    <2>5. TxHeld' = TxHeld \cup {p} /\ tx_pkt' \notin Range(tx_reqs')
      BY <2>3, <2>4 DEF TxHeld, Ownership, ethVars
    <2>6. RxHeld' = RxHeld /\ HostHeld' = HostHeld
      BY DEF RxHeld, HostHeld, ethVars
    <2>7. UNCHANGED <<usb_reqs, usb_pkt, rx_new, rx_pkt>>
      BY DEF ethVars
    <2> QED BY <1>2, <2>2, <2>4, <2>5, <2>6, <2>7 DEF Ownership
  <1> QED BY <1>1, <1>2 DEF recv_cb

LEMMA OwnershipStep ==
  ASSUME BufferTypes, PcInv, Ownership, [Next]_vars
  PROVE  Ownership'
  <1> USE DEF ethVars, usbVars
  <1>1. CASE EthTake \/ EthInit \/ EthTxCallback \/ EthRxPoke
    <2>1. Still
      BY <1>1 DEF Still, EthTake, EthInit, EthTxCallback, EthRxPoke, Goto, LoopTop
    <2> QED BY <2>1, StillOwnership
  <1>2. CASE EthPull
    <2>1. CASE UNCHANGED <<tx_pkt, tx_reqs>>
      <3>1. Still BY <1>2, <2>1 DEF Still, EthPull, Goto
      <3> QED BY <3>1, StillOwnership
    <2>2. CASE /\ tx_pkt = NULL /\ tx_reqs # <<>>
               /\ tx_pkt' = Head(tx_reqs) /\ tx_reqs' = Tail(tx_reqs)
      <3>1. /\ Range(tx_reqs) = Range(tx_reqs') \cup {tx_pkt'}
            /\ IsInjective(tx_reqs') /\ tx_pkt' \notin Range(tx_reqs')
            /\ tx_pkt' \in Packets
        BY <2>2, TailQueue DEF BufferTypes, Ownership
      <3>2. TxHeld' = TxHeld
        BY <2>2, <3>1, PoolAssumption DEF TxHeld, PoolAssumption
      <3>3. RxHeld' = RxHeld /\ HostHeld' = HostHeld
        BY <1>2 DEF RxHeld, HostHeld, EthPull, Goto
      <3>4. UNCHANGED <<pool, usb_reqs, usb_pkt, rx_new, rx_pkt>>
        BY <1>2 DEF EthPull
      <3> QED BY <3>1, <3>2, <3>3, <3>4 DEF Ownership
    <2> QED BY <1>2, <2>1, <2>2 DEF EthPull
  <1>3. ASSUME UNCHANGED <<tx_reqs, usb_reqs, usb_pkt, rx_pkt, rx_new>>,
               tx_pkt # NULL, tx_pkt' = NULL, pool' = pool \cup {tx_pkt},
               epc \notin {"poke", "swap"}, epc' \notin {"poke", "swap"}
        PROVE  Ownership'
    <2>1. TxHeld = Range(tx_reqs) \cup {tx_pkt} /\ tx_pkt \notin Range(tx_reqs)
      BY <1>3 DEF TxHeld, Ownership
    <2>2. NULL \notin Range(tx_reqs)
      BY PoolAssumption DEF PoolAssumption, BufferTypes, Range
    <2>3. TxHeld' = TxHeld \ {tx_pkt} /\ tx_pkt \in TxHeld
      BY <1>3, <2>1 DEF TxHeld
    <2>4. RxHeld' = RxHeld /\ HostHeld' = HostHeld
      BY <1>3 DEF RxHeld, HostHeld
    <2> QED BY <1>3, <2>2, <2>3, <2>4 DEF Ownership
  <1>4. ASSUME NEW n \in 1..MAX_CHUNKS, EthFill(n)
        PROVE  Ownership'
    <2>1. CASE tx_pkt # NULL /\ tx_pkt' = NULL /\ pool' = pool \cup {tx_pkt}
      BY <1>3, <1>4, <2>1 DEF EthFill, Goto
    <2>2. CASE UNCHANGED <<pool, tx_pkt>>
      <3>1. Still BY <1>4, <2>2 DEF Still, EthFill, Goto
      <3> QED BY <3>1, StillOwnership
    <2> QED BY <1>4, <2>1, <2>2 DEF EthFill, pkt_free
  <1>5. ASSUME NEW txc \in 0..CREDITS, NEW rca \in pending, RxQuiet(txc, rca)
        PROVE  Ownership'
    <2>1. Still BY <1>5 DEF Still, RxQuiet, ChunkDone, Goto
    <2> QED BY <2>1, StillOwnership
  <1>6. ASSUME NEW txc \in 0..CREDITS, NEW rca \in pending, RxFrame(txc, rca)
        PROVE  Ownership'
    <2>1. PICK p \in pool : rx_new' = p /\ pool' = pool \ {p}
      BY <1>6 DEF RxFrame
    <2>2. epc = "rx" /\ epc' = "rxcb" /\ rx_new = NULL /\ p \in Packets /\ p # NULL
      BY <1>6, PoolAssumption DEF RxFrame, Goto, PcInv, BufferTypes, PoolAssumption
    <2>3. RxHeld = {rx_pkt} /\ RxHeld' = {rx_pkt, p} /\ UNCHANGED rx_pkt
      BY <1>6, <2>1, <2>2 DEF RxFrame, RxHeld
    <2>4. TxHeld' = TxHeld /\ HostHeld' = HostHeld
      BY <1>6 DEF RxFrame, TxHeld, HostHeld
    <2>5. p \notin TxHeld /\ p \notin RxHeld /\ p \notin HostHeld
      BY DEF Ownership
    <2>6. UNCHANGED <<tx_reqs, tx_pkt, usb_reqs, usb_pkt>>
      BY <1>6 DEF RxFrame
    <2> QED BY <2>1, <2>3, <2>4, <2>5, <2>6 DEF Ownership
  <1>7. CASE EthRxCallback
    <2>1. CASE UNCHANGED usb_reqs /\ epc' = "untaken"
      <3>1. Still BY <1>7, <2>1 DEF Still, EthRxCallback, Goto
      <3> QED BY <3>1, StillOwnership
    <2>2. CASE usb_reqs' = Append(usb_reqs, rx_pkt) /\ epc' = "poke"
      <3>1. epc = "rxcb" /\ UNCHANGED <<pool, tx_reqs, tx_pkt, usb_pkt, rx_pkt, rx_new>>
        BY <1>7 DEF EthRxCallback, Goto
      <3>2. rx_pkt \in Packets /\ rx_pkt # NULL /\ rx_new # NULL
        BY <3>1, PoolAssumption DEF BufferTypes, PoolAssumption, PcInv
      <3>3. RxHeld = {rx_pkt, rx_new} /\ RxHeld' = {rx_new}
        BY <2>2, <3>1, <3>2 DEF RxHeld
      <3>4. rx_pkt \notin Range(usb_reqs) /\ rx_pkt # usb_pkt
        BY <3>2, <3>3 DEF Ownership, HostHeld
      <3>5. Range(usb_reqs') = Range(usb_reqs) \cup {rx_pkt} /\ IsInjective(usb_reqs')
        BY <2>2, <3>2, <3>4, AppendQueue DEF BufferTypes, Ownership
      <3>6. HostHeld' = HostHeld \cup {rx_pkt} /\ usb_pkt' \notin Range(usb_reqs')
        BY <3>1, <3>4, <3>5 DEF HostHeld, Ownership
      <3>7. TxHeld' = TxHeld
        BY <3>1 DEF TxHeld
      <3> QED BY <3>1, <3>3, <3>5, <3>6, <3>7 DEF Ownership
    <2> QED BY <1>7, <2>1, <2>2 DEF EthRxCallback, Goto
  <1>8. CASE EthRxSwap
    <2>1. /\ rx_new \in Packets /\ rx_new # NULL
          /\ rx_pkt' = rx_new /\ rx_new' = NULL /\ epc' \notin {"poke", "swap"}
      BY <1>8 DEF EthRxSwap, swap, Goto, PcInv, BufferTypes
    <2>2. RxHeld' = {rx_new}
      BY <2>1 DEF RxHeld
    <2>3. TxHeld' = TxHeld /\ HostHeld' = HostHeld
          /\ UNCHANGED <<tx_reqs, tx_pkt, usb_reqs, usb_pkt>>
      BY <1>8 DEF EthRxSwap, swap, TxHeld, HostHeld
    <2>4. CASE epc = "swap" /\ UNCHANGED pool
      <3>1. RxHeld = {rx_new} BY <2>1, <2>4 DEF RxHeld
      <3> QED BY <2>1, <2>2, <2>3, <2>4, <3>1 DEF Ownership
    <2>5. CASE epc = "untaken" /\ pool' = pool \cup {rx_pkt}
      <3>1. RxHeld = {rx_pkt, rx_new} BY <2>1, <2>5 DEF RxHeld
      <3> QED BY <2>1, <2>2, <2>3, <2>5, <3>1 DEF Ownership
    <2> QED BY <1>8, <2>4, <2>5 DEF EthRxSwap, swap, Goto, pkt_free
  <1>9. CASE RxError
    <2>1. CASE tx_pkt = NULL
      <3>1. Still BY <1>9, <2>1 DEF Still, RxError, handle_error, Goto
      <3> QED BY <3>1, StillOwnership
    <2>2. CASE tx_pkt # NULL
      BY <1>3, <1>9, <2>2 DEF RxError, handle_error, Goto, pkt_free
    <2> QED BY <2>1, <2>2
  <1>10. CASE RxReset \/ EthEnd
    <2>1. Still BY <1>10 DEF Still, RxReset, EthEnd, LoopTop, Goto
    <2> QED BY <2>1, StillOwnership
  <1>11. CASE UsbDatagram
    BY <1>11, RecvOwnership DEF UsbDatagram
  <1>12. CASE UsbRenew
    <2>1. CASE recv_cb
      BY <1>12, <2>1, RecvOwnership DEF UsbRenew
    <2>2. CASE UNCHANGED <<pool, tx_reqs>>
      <3>1. Still BY <1>12, <2>2 DEF Still, UsbRenew
      <3> QED BY <3>1, StillOwnership
    <2> QED BY <1>12, <2>1, <2>2 DEF UsbRenew
  <1>13. CASE \/ UsbDropDatagram \/ UsbPoke \/ UsbInDone \/ UsbHid \/ UsbRequest
              \/ UsbSent \/ UsbHidDone
    <2>1. Still
      BY <1>13 DEF Still, UsbDropDatagram, UsbPoke, UsbInDone, UsbHid, UsbRequest, UsbSent, UsbHidDone
    <2> QED BY <2>1, StillOwnership
  <1>14. CASE UsbLoop
    <2>1. /\ UNCHANGED <<tx_reqs, tx_pkt, rx_pkt, rx_new, epc>>
          /\ TxHeld' = TxHeld /\ RxHeld' = RxHeld
      BY <1>14 DEF UsbLoop, TxHeld, RxHeld
    <2>2. usb_reqs # <<>> =>
            /\ Range(usb_reqs) = Range(Tail(usb_reqs)) \cup {Head(usb_reqs)}
            /\ IsInjective(Tail(usb_reqs)) /\ Head(usb_reqs) \notin Range(Tail(usb_reqs))
            /\ Head(usb_reqs) \in Packets
      BY TailQueue DEF BufferTypes, Ownership
    <2>3. NULL \notin Packets /\ NULL \notin Range(usb_reqs)
      BY PoolAssumption DEF PoolAssumption, BufferTypes, Range
    <2>4. /\ HostHeld = Range(usb_reqs') \cup ({next_pkt} \ {NULL})
          /\ next_pkt \notin Range(usb_reqs') /\ IsInjective(usb_reqs')
          /\ NULL \notin Range(usb_reqs')
      <3>1. CASE usb_pkt = NULL /\ usb_reqs # <<>>
        <4>1. next_pkt = Head(usb_reqs) /\ usb_reqs' = Tail(usb_reqs)
          BY <1>14, <3>1 DEF UsbLoop, next_pkt, receives
        <4> QED BY <2>2, <2>3, <3>1, <4>1 DEF HostHeld
      <3>2. CASE ~(usb_pkt = NULL /\ usb_reqs # <<>>)
        <4>1. next_pkt = usb_pkt /\ usb_reqs' = usb_reqs
          BY <1>14, <3>2 DEF UsbLoop, next_pkt, receives
        <4> QED BY <2>3, <4>1 DEF HostHeld, Ownership
      <3> QED BY <3>1, <3>2
    <2>5. CASE next_pkt # NULL /\ pool' = pool \cup {next_pkt} /\ usb_pkt' = NULL
      <3>1. HostHeld' = HostHeld \ {next_pkt} /\ next_pkt \in HostHeld
        BY <2>4, <2>5 DEF HostHeld
      <3> QED BY <2>1, <2>4, <2>5, <3>1 DEF Ownership
    <2>6. CASE usb_pkt' = next_pkt /\ UNCHANGED pool
      <3>1. HostHeld' = HostHeld
        BY <2>4, <2>6 DEF HostHeld
      <3> QED BY <2>1, <2>4, <2>6, <3>1 DEF Ownership
    <2> QED BY <1>14, <2>5, <2>6 DEF UsbLoop, pkt_free
  <1>15. CASE Environment
    <2>1. Still BY <1>15 DEF Still, Environment, MacphyInterrupt, HostTransfer
    <2> QED BY <2>1, StillOwnership
  <1>16. CASE UNCHANGED vars
    <2>1. Still BY <1>16 DEF Still, vars
    <2> QED BY <2>1, StillOwnership
  <1> QED BY <1>1, <1>2, <1>4, <1>5, <1>6, <1>7, <1>8, <1>9, <1>10, <1>11,
             <1>12, <1>13, <1>14, <1>15, <1>16 DEF Next, EthStep, UsbStep

-----------------------------------------------------------------------------
(* Wakeups *)

\* eth_task holds at most two buffers to receive in and the host's side at most
\* REQ_SIZE + 1, so an empty pool means that the TX side has the others.
LEMMA EmptyPool ==
  ASSUME BufferTypes, Ownership, pool = {}
  PROVE  TxHeld # {}
  <1>1. IsFiniteSet(Range(usb_reqs)) /\ Cardinality(Range(usb_reqs)) <= REQ_SIZE
    <2>1. usb_reqs \in Seq(Packets) /\ Len(usb_reqs) <= REQ_SIZE /\ REQ_SIZE \in Nat
      BY PoolAssumption DEF BufferTypes, PoolAssumption
    <2>2. IsFiniteSet(Range(usb_reqs)) /\ Cardinality(Range(usb_reqs)) <= Len(usb_reqs)
      BY <2>1, QueueCardinality
    <2>3. Cardinality(Range(usb_reqs)) \in Nat /\ Len(usb_reqs) \in Nat
      BY <2>1, <2>2, FS_CardinalityType
    <2> QED BY <2>1, <2>2, <2>3
  <1> DEFINE others == {usb_pkt, rx_pkt, rx_new}
  <1>2. IsFiniteSet(others) /\ Cardinality(others) <= 3
    <2>1. IsFiniteSet({}) /\ Cardinality({}) = 0
      BY FS_EmptySet
    <2>2. IsFiniteSet({rx_new}) /\ Cardinality({rx_new}) = 1
      BY FS_Singleton
    <2>3. /\ IsFiniteSet({rx_new} \cup {rx_pkt})
          /\ Cardinality({rx_new} \cup {rx_pkt}) \in {1, 2}
      BY <2>2, FS_AddElement
    <2>4. /\ IsFiniteSet(({rx_new} \cup {rx_pkt}) \cup {usb_pkt})
          /\ Cardinality(({rx_new} \cup {rx_pkt}) \cup {usb_pkt}) \in {1, 2, 3}
      BY <2>3, FS_AddElement
    <2>5. others = ({rx_new} \cup {rx_pkt}) \cup {usb_pkt}
      OBVIOUS
    <2> QED BY <2>4, <2>5
  <1> HIDE DEF others
  <1> DEFINE both == Range(usb_reqs) \cup others
  <1>3. IsFiniteSet(both) /\ Cardinality(both) <= REQ_SIZE + 3
    <2>1. /\ IsFiniteSet(both)
          /\ Cardinality(both) = Cardinality(Range(usb_reqs)) + Cardinality(others)
                                 - Cardinality(Range(usb_reqs) \cap others)
      BY <1>1, <1>2, FS_Union
    <2>2. IsFiniteSet(Range(usb_reqs) \cap others)
      BY <1>1, FS_Intersection
    <2>3. /\ Cardinality(Range(usb_reqs) \cap others) \in Nat
          /\ Cardinality(Range(usb_reqs)) \in Nat /\ Cardinality(others) \in Nat
          /\ REQ_SIZE \in Nat
      BY <1>1, <1>2, <2>2, FS_CardinalityType, PoolAssumption DEF PoolAssumption
    <2> QED BY <1>1, <1>2, <2>1, <2>3
  <1>4. ASSUME TxHeld = {} PROVE FALSE
    <2>1. Packets \subseteq both
      BY <1>4 DEF Ownership, RxHeld, HostHeld, both, others
    <2>2. Cardinality(Packets) <= Cardinality(both)
      BY <1>3, <2>1, FS_Subset
    <2>3. /\ Cardinality(Packets) \in Nat /\ Cardinality(both) \in Nat
          /\ REQ_SIZE \in Nat /\ Cardinality(Packets) >= REQ_SIZE + 4
      BY <1>3, FS_CardinalityType, PoolAssumption DEF PoolAssumption
    <2> QED BY <1>3, <2>2, <2>3
  <1> QED BY <1>4

\* tud_network_recv_cb refuses only while a packet is being sent.
LEMMA RefusedWhileSending ==
  ASSUME BufferTypes, Ownership, recv_cb, stalled', UNCHANGED ethVars
  PROVE  TxHeld' # {}
  <1>1. UNCHANGED <<tx_reqs, tx_pkt>> /\ (pool = {} \/ Len(tx_reqs) = REQ_SIZE)
    BY DEF recv_cb, ethVars
  <1>2. TxHeld' = TxHeld
    BY <1>1 DEF TxHeld
  <1>3. CASE pool = {}
    BY <1>2, <1>3, EmptyPool
  <1>4. CASE Len(tx_reqs) = REQ_SIZE
    <2>1. tx_reqs \in Seq(Packets) /\ tx_reqs # <<>>
      BY <1>4, PoolAssumption DEF BufferTypes, PoolAssumption
    <2>2. Head(tx_reqs) \in Range(tx_reqs)
      BY <2>1, TailQueue
    <2> QED BY <1>2, <2>2 DEF TxHeld
  <1> QED BY <1>1, <1>3, <1>4

\* A renew event stays queued until it is the one taken.
LEMMA RenewStays ==
  ASSUME BufferTypes, NEW e \in Events \ {"renew"}, TakeEvent(e), "renew" \in Range(evq)
  PROVE  "renew" \in Range(evq')
  <1>1. evq \in Seq(Events) /\ evq # <<>> /\ evq' = Tail(evq) /\ Head(evq) = e
    BY DEF BufferTypes, TakeEvent
  <1>2. Range(evq) = Range(evq') \cup {e}
    BY <1>1, TailQueue
  <1> QED BY <1>2

LEMMA StallStep ==
  ASSUME BufferTypes, Ownership, StallHasWakeup, [Next]_vars
  PROVE  StallHasWakeup'
  <1> USE DEF ethVars, usbVars
  <1>1. ASSUME UNCHANGED <<stalled, tx_pkt, tx_reqs>>,
               "renew" \in Range(evq) => "renew" \in Range(evq'),
               epc \notin {"txcb", "errcb"} \/ UNCHANGED epc
        PROVE  StallHasWakeup'
    BY <1>1 DEF StallHasWakeup, TxHeld
  <1>2. CASE EthTake \/ EthInit \/ EthRxCallback \/ EthRxSwap \/ RxReset \/ EthEnd
    <2>1. UNCHANGED <<stalled, tx_pkt, tx_reqs, evq>> /\ epc \notin {"txcb", "errcb"}
      BY <1>2 DEF EthTake, EthInit, EthRxCallback, EthRxSwap, swap, RxReset, EthEnd, Goto
    <2> QED BY <1>1, <2>1
  <1>3. CASE EthPull
    <2>1. epc = "pull" /\ UNCHANGED <<evq, stalled>>
      BY <1>3 DEF EthPull, Goto
    <2>2. CASE UNCHANGED <<tx_pkt, tx_reqs>>
      BY <1>1, <2>1, <2>2
    <2>3. CASE tx_reqs # <<>> /\ tx_pkt' = Head(tx_reqs)
      <3>1. tx_pkt' # NULL
        BY <2>3, TailQueue, PoolAssumption DEF BufferTypes, PoolAssumption
      <3> QED BY <3>1 DEF StallHasWakeup, TxHeld
    <2> QED BY <1>3, <2>2, <2>3 DEF EthPull
  <1>4. ASSUME NEW n \in 1..MAX_CHUNKS, EthFill(n)
        PROVE  StallHasWakeup'
    <2>1. CASE epc' = "txcb"
      BY <2>1 DEF StallHasWakeup
    <2>2. CASE epc' = "rx"
      <3>1. UNCHANGED <<stalled, tx_pkt, tx_reqs, evq>> /\ epc = "fill"
        BY <1>4, <2>2 DEF EthFill, Goto
      <3> QED BY <1>1, <3>1
    <2> QED BY <1>4, <2>1, <2>2 DEF EthFill, Goto
  <1>5. CASE EthTxCallback
    <2>1. "renew" \in Range(evq')
      <3>1. evq' = Append(evq, "renew") /\ evq \in Seq(Events) /\ "renew" \in Events
        BY <1>5 DEF EthTxCallback, Defer, BufferTypes, Events
      <3> QED BY <3>1, AppendQueue
    <2> QED BY <2>1 DEF StallHasWakeup
  <1>6. ASSUME NEW txc \in 0..CREDITS, NEW rca \in pending,
               RxQuiet(txc, rca) \/ RxFrame(txc, rca)
        PROVE  StallHasWakeup'
    <2>1. UNCHANGED <<stalled, tx_pkt, tx_reqs, evq>> /\ epc = "rx"
      BY <1>6 DEF RxQuiet, RxFrame, ChunkDone, Goto
    <2> QED BY <1>1, <2>1
  <1>7. CASE EthRxPoke
    <2>1. Range(evq') = Range(evq) \cup {"poke"}
      <3>1. evq' = Append(evq, "poke") /\ evq \in Seq(Events) /\ "poke" \in Events
        BY <1>7 DEF EthRxPoke, Defer, BufferTypes, Events
      <3> QED BY <3>1, AppendQueue
    <2>2. UNCHANGED <<stalled, tx_pkt, tx_reqs>> /\ epc = "poke"
      BY <1>7 DEF EthRxPoke, Goto
    <2> QED BY <1>1, <2>1, <2>2
  <1>8. CASE RxError
    <2>1. CASE tx_pkt = NULL
      <3>1. UNCHANGED <<stalled, tx_pkt, tx_reqs, evq>> /\ epc = "rx"
        BY <1>8, <2>1 DEF RxError, handle_error, Goto
      <3> QED BY <1>1, <3>1
    <2>2. CASE tx_pkt # NULL
      BY <1>8, <2>2 DEF RxError, handle_error, Goto, StallHasWakeup
    <2> QED BY <2>1, <2>2
  <1>9. CASE UsbDatagram \/ (UsbRenew /\ stalled)
    <2>1. recv_cb /\ UNCHANGED ethVars
      BY <1>9 DEF UsbDatagram, UsbRenew
    <2> QED BY <2>1, RefusedWhileSending DEF StallHasWakeup
  <1>10. CASE UsbRenew /\ ~stalled
    BY <1>10 DEF UsbRenew, StallHasWakeup
  <1>11. CASE UsbDropDatagram \/ UsbPoke \/ UsbInDone \/ UsbHid \/ UsbRequest \/ UsbSent
    <2>1. \E e \in Events \ {"renew"} : TakeEvent(e)
      BY <1>11, OtherEvents DEF UsbInDone, Events, Endpoints
    <2>2. "renew" \in Range(evq) => "renew" \in Range(evq')
      BY <2>1, RenewStays
    <2>3. UNCHANGED <<stalled, tx_pkt, tx_reqs, epc>>
      BY <1>11, OtherEvents DEF UsbInDone
    <2> QED BY <1>1, <2>2, <2>3
  <1>12. CASE UsbHidDone \/ UsbLoop \/ MacphyInterrupt
    <2>1. UNCHANGED <<stalled, tx_pkt, tx_reqs, evq, epc>>
      BY <1>12 DEF UsbHidDone, UsbLoop, MacphyInterrupt
    <2> QED BY <1>1, <2>1
  <1>13. ASSUME NEW ep \in Endpoints, HostTransfer(ep)
         PROVE  StallHasWakeup'
    <2>1. UNCHANGED <<stalled, tx_pkt, tx_reqs, epc>>
      BY <1>13 DEF HostTransfer
    <2>2. Range(evq) \subseteq Range(evq')
      BY <1>13, AppendQueue
         DEF HostTransfer, Interrupt, BufferTypes, Events, Endpoints
    <2> QED BY <1>1, <2>1, <2>2
  <1>14. CASE UNCHANGED vars
    BY <1>1, <1>14 DEF vars
  <1> HIDE DEF ethVars, usbVars
  <1> QED BY <1>2, <1>3, <1>4, <1>5, <1>6, <1>7, <1>8, <1>9, <1>10, <1>11,
             <1>12, <1>13, <1>14 DEF Next, EthStep, UsbStep, Environment

LEMMA NoLostWakeupStep ==
  ASSUME NoLostWakeup, [Next]_vars
  PROVE  NoLostWakeup'
  <1> USE DEF ethVars, usbVars
  <1>1. CASE epc' # "take"
    BY <1>1 DEF NoLostWakeup
  <1>2. CASE EthEnd
    BY <1>2 DEF EthEnd, Goto, NoLostWakeup, LoopTop
  <1>3. CASE EthStep /\ ~EthEnd
    <2>1. epc' # "take"
      BY <1>3 DEF EthStep, EthTake, EthInit, EthPull, EthFill, EthTxCallback, RxQuiet,
         RxFrame, EthRxCallback, EthRxPoke, EthRxSwap, swap, RxError, handle_error, RxReset, Goto, LoopTop
    <2> QED BY <1>1, <2>1
  <1>4. CASE (UsbStep \/ Environment) /\ UNCHANGED <<tx_reqs, notified>>
    BY <1>4, OthersKeepEth DEF NoLostWakeup
  <1>5. CASE (UsbStep \/ Environment) /\ notified'
    BY <1>5 DEF NoLostWakeup
  <1>6. CASE UsbStep
    <2>1. notified' \/ UNCHANGED <<tx_reqs, notified>>
      BY <1>6 DEF UsbStep, UsbDatagram, UsbDropDatagram, UsbRenew, recv_cb, UsbPoke,
         UsbInDone, UsbHid, UsbRequest, UsbSent, UsbHidDone, UsbLoop
    <2> QED BY <1>4, <1>5, <1>6, <2>1
  <1>7. CASE Environment
    <2>1. notified' \/ UNCHANGED <<tx_reqs, notified>>
      BY <1>7 DEF Environment, MacphyInterrupt, HostTransfer
    <2> QED BY <1>4, <1>5, <1>7, <2>1
  <1>8. CASE UNCHANGED vars
    BY <1>8 DEF vars, NoLostWakeup
  <1> QED BY <1>2, <1>3, <1>6, <1>7, <1>8 DEF Next

-----------------------------------------------------------------------------
(* The theorems *)

IInv ==
  /\ BufferTypes /\ FlagTypes /\ PcInv /\ InInv
  /\ Ownership /\ StallHasWakeup /\ NoLostWakeup

LEMMA InitIInv == Init => IInv
  <1> SUFFICES ASSUME Init PROVE IInv
    OBVIOUS
  <1>1. BufferTypes
    BY PoolAssumption, SizeAssumption
    DEF Init, BufferTypes, PoolAssumption, SizeAssumption, EthPCs, Endpoints
  <1>2. FlagTypes BY DEF Init, FlagTypes
  <1>3. PcInv BY DEF Init, PcInv
  <1>4. InInv
    BY SizeAssumption, EmptyQueue DEF Init, InInv, AtMostOnce, SizeAssumption
  <1>5. Ownership
    <2>1. TxHeld = {} /\ HostHeld = {} /\ RxHeld = {rx_pkt}
      BY EmptyQueue DEF Init, TxHeld, HostHeld, RxHeld
    <2> QED BY <2>1, EmptyQueue, PoolAssumption DEF Init, Ownership, PoolAssumption
  <1>6. StallHasWakeup /\ NoLostWakeup
    BY DEF Init, StallHasWakeup, NoLostWakeup
  <1> QED BY <1>1, <1>2, <1>3, <1>4, <1>5, <1>6 DEF IInv

LEMMA NextIInv == IInv /\ [Next]_vars => IInv'
  BY BufferTypesStep, FlagTypesStep, PcInvStep, InInvStep, OwnershipStep,
     StallStep, NoLostWakeupStep DEF IInv

LEMMA Invariance == Spec => []IInv
  BY InitIInv, NextIInv, PTL DEF Spec

\* Every variable keeps its type: in particular the two packet queues and
\* TinyUSB's event queue stay within their capacities, and tx_.len,
\* tx_.free_chunks and the count of IN blocks never go below zero.
THEOREM TypeCorrect == Spec => []TypeOK
  <1>1. IInv => TypeOK
    BY DEF IInv, TypeOK
  <1> QED BY <1>1, Invariance, PTL

\* No packet buffer is ever leaked, freed twice or used by two tasks: the pool,
\* the TX side, the RX side and the host's side always partition the buffers.
THEOREM OwnershipCorrect == Spec => []Ownership
  <1>1. IInv => Ownership
    BY DEF IInv
  <1> QED BY <1>1, Invariance, PTL

\* A datagram refused for want of a buffer or of room never lacks a wakeup, as
\* long as the pool has four buffers more than a queue.
THEOREM StallWakeupCorrect == Spec => []StallHasWakeup
  <1>1. IInv => StallHasWakeup
    BY DEF IInv
  <1> QED BY <1>1, Invariance, PTL

\* eth_task never waits for a notification with a packet it could start on.
THEOREM WakeupCorrect == Spec => []NoLostWakeup
  <1>1. IInv => NoLostWakeup
    BY DEF IInv
  <1> QED BY <1>1, Invariance, PTL

-----------------------------------------------------------------------------
(* EthBridge implements TxChannel, for every pool, queue and transfer size.  *)

\* What the channel holds is a queue of the datagrams of the TX side.
LEMMA SendingQueue ==
  ASSUME BufferTypes
  PROVE  /\ sending \in Seq(Packets)
         /\ Range(sending) = TxHeld
         /\ Len(sending) <= Len(tx_reqs) + 1
         /\ TxHeld # {} => sending # <<>>
  <1>1. tx_reqs \in Seq(Packets) /\ NULL \notin Packets /\ NULL \notin Range(tx_reqs)
    BY PoolAssumption DEF BufferTypes, PoolAssumption, Range
  <1>2. CASE tx_pkt = NULL
    <2>1. sending = tx_reqs /\ TxHeld = Range(tx_reqs)
      BY <1>2 DEF sending, TxHeld
    <2> QED BY <1>1, <2>1, EmptyQueue
  <1>3. CASE tx_pkt # NULL
    <2>1. /\ sending = <<tx_pkt>> \o tx_reqs /\ tx_pkt \in Packets
          /\ TxHeld = Range(tx_reqs) \cup {tx_pkt}
      BY <1>3 DEF sending, TxHeld, BufferTypes
    <2> QED BY <1>1, <2>1, FrontQueue
  <1> QED BY <1>2, <1>3

\* Steps that neither send, refuse nor offer.
LEMMA Stutter ==
  ASSUME UNCHANGED <<tx_reqs, tx_pkt, stalled, evq>>,
         epc \in {"txcb", "errcb"} <=> epc' \in {"txcb", "errcb"}
  PROVE  UNCHANGED Channel!vars
  BY DEF Channel!vars, sending, renewing

\* tud_network_recv_cb accepts a datagram or refuses it.
LEMMA RecvImplements ==
  ASSUME BufferTypes, Ownership, recv_cb, UNCHANGED <<ethVars, usb_reqs, usb_pkt>>
  PROVE  Channel!Refuse \/ \E p \in Packets : Channel!Accept(p)
  <1>1. CASE stalled' = TRUE /\ UNCHANGED <<pool, tx_reqs>>
    <2>1. UNCHANGED sending
      BY <1>1 DEF sending, ethVars
    <2>2. UNCHANGED TxHeld /\ TxHeld' # {}
      BY <1>1, RefusedWhileSending DEF TxHeld, ethVars
    <2>3. sending # <<>>
      BY <2>2, SendingQueue
    <2> QED BY <1>1, <2>1, <2>3 DEF Channel!Refuse
  <1>2. CASE /\ Len(tx_reqs) < REQ_SIZE /\ stalled' = FALSE
             /\ \E p \in pool : pool' = pool \ {p} /\ tx_reqs' = Append(tx_reqs, p)
    <2>1. PICK p \in pool : tx_reqs' = Append(tx_reqs, p)
      BY <1>2
    <2>2. p \in Packets /\ p \notin TxHeld
      BY DEF BufferTypes, Ownership
    <2>3. p \notin {sending[i] : i \in DOMAIN sending}
      BY <2>2, SendingQueue DEF Range
    <2>4. tx_reqs \in Seq(Packets) /\ UNCHANGED tx_pkt
      BY DEF BufferTypes, ethVars
    <2>5. sending' = Append(sending, p)
      <3>1. CASE tx_pkt = NULL
        BY <2>1, <2>4, <3>1 DEF sending
      <3>2. CASE tx_pkt # NULL
        <4>1. tx_pkt \in Packets BY <3>2 DEF BufferTypes
        <4> QED BY <2>1, <2>2, <2>4, <3>2, <4>1, FrontQueue DEF sending
      <3> QED BY <3>1, <3>2
    <2>6. Len(sending) < REQ_SIZE + 1
      <3>1. Len(sending) \in Nat /\ Len(sending) <= Len(tx_reqs) + 1
        BY SendingQueue
      <3>2. Len(tx_reqs) \in Nat /\ REQ_SIZE \in Nat
        BY <2>4, PoolAssumption DEF PoolAssumption
      <3> QED BY <1>2, <3>1, <3>2
    <2>7. Channel!Accept(p)
      BY <1>2, <2>3, <2>5, <2>6 DEF Channel!Accept
    <2> QED BY <2>2, <2>7
  <1> QED BY <1>1, <1>2 DEF recv_cb

\* The packet in progress leaves the channel and the TX callback is due.
LEMMA LeaveImplements ==
  ASSUME BufferTypes, tx_pkt # NULL, tx_pkt' = NULL, UNCHANGED <<tx_reqs, stalled>>,
         epc' \in {"txcb", "errcb"}
  PROVE  Channel!Leave
  <1>1. tx_pkt \in Packets /\ tx_reqs \in Seq(Packets)
    BY DEF BufferTypes
  <1>2. sending # <<>> /\ sending' = Tail(sending)
    BY <1>1, FrontQueue DEF sending
  <1>3. renewing' = TRUE
    BY DEF renewing
  <1> QED BY <1>2, <1>3 DEF Channel!Leave

LEMMA NextImplements ==
  ASSUME IInv, [Next]_vars
  PROVE  [Channel!Next]_(Channel!vars)
  <1> USE DEF IInv
  <1>1. CASE EthTake \/ EthInit \/ EthRxCallback \/ EthRxSwap \/ RxReset \/ EthEnd
    <2>1. /\ UNCHANGED <<stalled, tx_pkt, tx_reqs, evq>>
          /\ epc \notin {"txcb", "errcb"} /\ epc' \notin {"txcb", "errcb"}
      BY <1>1 DEF EthTake, EthInit, EthRxCallback, EthRxSwap, swap, RxReset, EthEnd, Goto,
                  LoopTop, usbVars
    <2> QED BY <2>1, Stutter
  <1>2. CASE EthPull
    <2>1. /\ epc = "pull" /\ epc' = "fill"
          /\ UNCHANGED <<evq, stalled>>
      BY <1>2 DEF EthPull, Goto, usbVars
    <2>2. CASE UNCHANGED <<tx_pkt, tx_reqs>>
      BY <2>1, <2>2, Stutter
    <2>3. CASE /\ tx_pkt = NULL /\ tx_reqs # <<>>
               /\ tx_pkt' = Head(tx_reqs) /\ tx_reqs' = Tail(tx_reqs)
      <3>1. tx_reqs \in Seq(Packets) /\ NULL \notin Packets
        BY PoolAssumption DEF BufferTypes, PoolAssumption
      <3>2. tx_pkt' # NULL /\ tx_reqs = <<tx_pkt'>> \o tx_reqs'
        BY <2>3, <3>1, TailQueue, SplitQueue
      <3>3. UNCHANGED sending
        BY <2>3, <3>2 DEF sending
      <3>4. UNCHANGED renewing
        BY <2>1 DEF renewing
      <3> QED BY <2>1, <3>3, <3>4 DEF Channel!vars
    <2> QED BY <1>2, <2>2, <2>3 DEF EthPull
  <1>3. ASSUME NEW n \in 1..MAX_CHUNKS, EthFill(n)
        PROVE  [Channel!Next]_(Channel!vars)
    <2>1. epc = "fill" /\ UNCHANGED <<tx_reqs, stalled, evq>>
      BY <1>3 DEF EthFill, Goto, usbVars
    <2>2. CASE tx_pkt # NULL /\ tx_pkt' = NULL /\ epc' = "txcb"
      BY <2>1, <2>2, LeaveImplements DEF Channel!Next
    <2>3. CASE UNCHANGED tx_pkt /\ epc' = "rx"
      BY <2>1, <2>3, Stutter
    <2> QED BY <1>3, <2>2, <2>3 DEF EthFill, Goto
  <1>4. CASE EthTxCallback
    <2>1. "renew" \in Range(evq')
      BY <1>4, AppendQueue DEF EthTxCallback, Defer, BufferTypes, Events
    <2>2. epc \in {"txcb", "errcb"} /\ UNCHANGED <<tx_pkt, tx_reqs, stalled>>
      BY <1>4 DEF EthTxCallback, Goto, usbVars
    <2> QED BY <2>1, <2>2 DEF Channel!vars, sending, renewing
  <1>5. ASSUME NEW txc \in 0..CREDITS, NEW rca \in pending,
               RxQuiet(txc, rca) \/ RxFrame(txc, rca)
        PROVE  [Channel!Next]_(Channel!vars)
    <2>1. /\ UNCHANGED <<stalled, tx_pkt, tx_reqs, evq>>
          /\ epc = "rx" /\ epc' \notin {"txcb", "errcb"}
      BY <1>5 DEF RxQuiet, RxFrame, ChunkDone, Goto, usbVars
    <2> QED BY <2>1, Stutter
  <1>6. CASE EthRxPoke
    <2>1. Range(evq') = Range(evq) \cup {"poke"}
      BY <1>6, AppendQueue DEF EthRxPoke, Defer, BufferTypes, Events
    <2>2. UNCHANGED <<stalled, tx_pkt, tx_reqs>> /\ epc = "poke" /\ epc' = "swap"
      BY <1>6 DEF EthRxPoke, Goto, usbVars
    <2> QED BY <2>1, <2>2 DEF Channel!vars, sending, renewing
  <1>7. CASE RxError
    <2>1. epc = "rx" /\ UNCHANGED <<tx_reqs, stalled, evq>>
      BY <1>7 DEF RxError, handle_error, Goto, usbVars
    <2>2. CASE tx_pkt = NULL
      BY <1>7, <2>1, <2>2, Stutter DEF RxError, handle_error, Goto
    <2>3. CASE tx_pkt # NULL
      BY <1>7, <2>1, <2>3, LeaveImplements DEF RxError, handle_error, Goto, Channel!Next
    <2> QED BY <2>2, <2>3
  <1>8. CASE UsbDatagram
    <2>1. Channel!Refuse \/ \E p \in Packets : Channel!Accept(p)
      BY <1>8, RecvImplements DEF UsbDatagram
    <2>2. /\ evq \in Seq(Events) /\ evq # <<>> /\ Head(evq) = "out"
          /\ evq' = Tail(evq) /\ UNCHANGED epc
      BY <1>8 DEF UsbDatagram, TakeEvent, BufferTypes, ethVars
    <2>3. UNCHANGED renewing
      BY <2>2, TailQueue DEF renewing
    <2> QED BY <2>1, <2>3 DEF Channel!Next, Channel!HostSends
  <1>9. CASE UsbRenew
    <2>1. /\ evq \in Seq(Events) /\ evq # <<>> /\ Head(evq) = "renew"
          /\ UNCHANGED <<tx_pkt>>
      BY <1>9 DEF UsbRenew, TakeEvent, BufferTypes, ethVars
    <2>2. renewing /\ renewing' \in BOOLEAN
      BY <2>1, TailQueue DEF renewing
    <2>3. stalled => Channel!Refuse \/ \E p \in Packets : Channel!Accept(p)
      BY <1>9, RecvImplements DEF UsbRenew
    <2>4. ~stalled => UNCHANGED <<sending, stalled>>
      BY <1>9, <2>1 DEF UsbRenew, sending
    <2> QED BY <2>2, <2>3, <2>4 DEF Channel!Next, Channel!OfferAgain
  <1>10. CASE UsbDropDatagram \/ UsbPoke \/ UsbInDone \/ UsbHid \/ UsbRequest \/ UsbSent
    <2>1. PICK e \in Events \ {"renew"} : TakeEvent(e)
      BY <1>10, OtherEvents DEF UsbInDone, Events, Endpoints
    <2>2. "renew" \in Range(evq) <=> "renew" \in Range(evq')
      BY <2>1, TailQueue DEF TakeEvent, BufferTypes
    <2>3. UNCHANGED <<stalled, tx_pkt, tx_reqs, epc>>
      BY <1>10, OtherEvents DEF UsbInDone, ethVars
    <2> QED BY <2>2, <2>3 DEF Channel!vars, sending, renewing
  <1>11. CASE UsbHidDone \/ UsbLoop \/ MacphyInterrupt
    <2>1. UNCHANGED <<stalled, tx_pkt, tx_reqs, evq, epc>>
      BY <1>11 DEF UsbHidDone, UsbLoop, MacphyInterrupt, ethVars, usbVars
    <2> QED BY <2>1, Stutter
  <1>12. ASSUME NEW ep \in Endpoints, HostTransfer(ep)
         PROVE  [Channel!Next]_(Channel!vars)
    <2>1. UNCHANGED <<stalled, tx_pkt, tx_reqs, epc>>
      BY <1>12 DEF HostTransfer, ethVars
    <2>2. "renew" \in Range(evq) <=> "renew" \in Range(evq')
      BY <1>12, AppendQueue
         DEF HostTransfer, Interrupt, BufferTypes, Events, Endpoints
    <2> QED BY <2>1, <2>2 DEF Channel!vars, sending, renewing
  <1>13. CASE UNCHANGED vars
    <2>1. UNCHANGED <<stalled, tx_pkt, tx_reqs, evq, epc>>
      BY <1>13 DEF vars, ethVars, usbVars
    <2> QED BY <2>1, Stutter
  <1> HIDE DEF IInv
  <1> QED BY <1>1, <1>2, <1>3, <1>4, <1>5, <1>6, <1>7, <1>8, <1>9, <1>10, <1>11,
             <1>12, <1>13 DEF Next, EthStep, UsbStep, Environment

\* The bridge implements the channel TxChannel specifies: the host's datagrams
\* leave in the order they were accepted, each once, and one is refused only
\* while another is still to leave.
THEOREM Refinement == Spec => ImplementsTxChannel
  <1>1. Init => Channel!Init
    BY EmptyQueue DEF Init, Channel!Init, sending, renewing
  <1>2. IInv /\ [Next]_vars => [Channel!Next]_(Channel!vars)
    BY NextImplements
  <1> QED BY <1>1, <1>2, Invariance, PTL DEF Spec, ImplementsTxChannel, Channel!Spec

-----------------------------------------------------------------------------
(* EthBridge implements RxChannel, for every pool, queue and transfer size.  *)

\* What waits for the host is a queue of the frames of its side.
LEMMA WaitingQueue ==
  ASSUME BufferTypes
  PROVE  /\ waiting \in Seq(Packets)
         /\ Range(waiting) = HostHeld
         /\ Len(usb_reqs) <= Len(waiting) /\ Len(waiting) <= Len(usb_reqs) + 1
  <1>1. /\ usb_reqs \in Seq(Packets) /\ Len(usb_reqs) \in Nat
        /\ NULL \notin Packets /\ NULL \notin Range(usb_reqs)
    BY PoolAssumption DEF BufferTypes, PoolAssumption, Range
  <1>2. CASE usb_pkt = NULL
    <2>1. waiting = usb_reqs /\ HostHeld = Range(usb_reqs)
      BY <1>2 DEF waiting, HostHeld
    <2> QED BY <1>1, <2>1
  <1>3. CASE usb_pkt # NULL
    <2>1. /\ waiting = <<usb_pkt>> \o usb_reqs /\ usb_pkt \in Packets
          /\ HostHeld = Range(usb_reqs) \cup {usb_pkt}
      BY <1>3 DEF waiting, HostHeld, BufferTypes
    <2> QED BY <1>1, <2>1, FrontQueue
  <1> QED BY <1>2, <1>3

\* Steps that neither take, refuse, forget nor deliver a frame.
LEMMA RxStutter ==
  ASSUME UNCHANGED <<usb_reqs, usb_pkt>>, epc = "untaken" <=> epc' = "untaken"
  PROVE  UNCHANGED ToHost!vars
  <1>1. UNCHANGED waiting
    BY DEF waiting
  <1> QED BY <1>1 DEF ToHost!vars

\* usb_eth_rx_cb takes a frame or refuses it.
LEMMA RxCallbackImplements ==
  ASSUME BufferTypes, Ownership, EthRxCallback
  PROVE  ToHost!Refuse \/ \E p \in Packets : ToHost!Take(p)
  <1>1. /\ usb_reqs \in Seq(Packets) /\ Len(usb_reqs) \in Nat /\ Len(usb_reqs) <= REQ_SIZE
        /\ rx_pkt \in Packets /\ REQ_SIZE \in Nat
    BY PoolAssumption DEF BufferTypes, PoolAssumption
  <1>2. epc = "rxcb" /\ UNCHANGED usb_pkt
    BY DEF EthRxCallback, Goto, usbVars
  <1>3. /\ Len(waiting) \in Nat
        /\ Len(usb_reqs) <= Len(waiting) /\ Len(waiting) <= Len(usb_reqs) + 1
    BY WaitingQueue
  <1>4. CASE Len(usb_reqs) < REQ_SIZE
    <2>1. usb_reqs' = Append(usb_reqs, rx_pkt) /\ epc' = "poke"
      BY <1>4 DEF EthRxCallback, Goto
    <2>2. waiting' = Append(waiting, rx_pkt)
      <3>1. CASE usb_pkt = NULL
        BY <1>2, <2>1, <3>1 DEF waiting
      <3>2. CASE usb_pkt # NULL
        <4>1. usb_pkt \in Packets BY <3>2 DEF BufferTypes
        <4> QED BY <1>1, <1>2, <2>1, <3>2, <4>1, FrontQueue DEF waiting
      <3> QED BY <3>1, <3>2
    <2>3. rx_pkt \notin {waiting[i] : i \in DOMAIN waiting}
      <3>1. rx_pkt \notin HostHeld
        BY <1>2 DEF Ownership, RxHeld
      <3> QED BY <3>1, WaitingQueue DEF Range
    <2>4. Len(waiting) < REQ_SIZE + 1
      BY <1>1, <1>3, <1>4
    <2>5. ToHost!Take(rx_pkt)
      BY <1>2, <2>1, <2>2, <2>3, <2>4 DEF ToHost!Take
    <2> QED BY <1>1, <2>5
  <1>5. CASE ~(Len(usb_reqs) < REQ_SIZE)
    <2>1. UNCHANGED usb_reqs /\ epc' = "untaken"
      BY <1>5 DEF EthRxCallback, Goto
    <2>2. UNCHANGED waiting
      BY <1>2, <2>1 DEF waiting
    <2>3. Len(waiting) >= (REQ_SIZE + 1) - 1
      BY <1>1, <1>3, <1>5
    <2> QED BY <1>2, <2>1, <2>2, <2>3 DEF ToHost!Refuse
  <1> QED BY <1>4, <1>5

\* usb_task hands the oldest frame to TinyUSB, or only takes it in hand.
LEMMA LoopImplements ==
  ASSUME BufferTypes, UsbLoop
  PROVE  ToHost!Deliver \/ UNCHANGED ToHost!vars
  <1>1. usb_reqs \in Seq(Packets) /\ NULL \notin Packets /\ UNCHANGED epc
    BY PoolAssumption DEF BufferTypes, PoolAssumption, UsbLoop, ethVars
  <1>2. next_pkt # NULL =>
          /\ next_pkt \in Packets
          /\ waiting = <<next_pkt>> \o usb_reqs' /\ usb_reqs' \in Seq(Packets)
    <2>1. CASE receives
      <3>1. /\ usb_pkt = NULL /\ usb_reqs # <<>>
            /\ next_pkt = Head(usb_reqs) /\ usb_reqs' = Tail(usb_reqs)
        BY <2>1 DEF UsbLoop, next_pkt, receives
      <3>2. usb_reqs = <<Head(usb_reqs)>> \o Tail(usb_reqs)
        BY <1>1, <3>1, SplitQueue
      <3>3. Head(usb_reqs) \in Packets /\ Tail(usb_reqs) \in Seq(Packets)
        BY <1>1, <3>1, TailQueue
      <3> QED BY <3>1, <3>2, <3>3 DEF waiting
    <2>2. CASE ~receives
      <3>1. next_pkt = usb_pkt /\ usb_reqs' = usb_reqs
        BY <2>2 DEF UsbLoop, next_pkt
      <3> QED BY <1>1, <3>1 DEF waiting, BufferTypes
    <2> QED BY <2>1, <2>2
  <1>3. CASE next_pkt # NULL /\ usb_pkt' = NULL
    <2>1. waiting # <<>> /\ waiting' = Tail(waiting)
      BY <1>2, <1>3, FrontQueue DEF waiting
    <2> QED BY <1>1, <2>1 DEF ToHost!Deliver
  <1>4. CASE usb_pkt' = next_pkt
    <2>1. CASE next_pkt # NULL
      <3>1. UNCHANGED waiting
        BY <1>2, <1>4, <2>1 DEF waiting
      <3> QED BY <1>1, <3>1 DEF ToHost!vars
    <2>2. CASE next_pkt = NULL
      <3>1. ~receives
        BY <1>1, <2>2, TailQueue DEF next_pkt, receives
      <3>2. UNCHANGED <<usb_reqs, usb_pkt>>
        BY <1>4, <3>1 DEF UsbLoop, next_pkt
      <3> QED BY <1>1, <3>2, RxStutter
    <2> QED BY <2>1, <2>2
  <1> QED BY <1>3, <1>4 DEF UsbLoop

LEMMA RxNextImplements ==
  ASSUME IInv, [Next]_vars
  PROVE  [ToHost!Next]_(ToHost!vars)
  <1>1. BufferTypes /\ Ownership
    BY DEF IInv
  <1>2. CASE EthRxCallback
    BY <1>1, <1>2, RxCallbackImplements DEF ToHost!Next
  <1>3. CASE EthRxSwap
    <2>1. UNCHANGED <<usb_reqs, usb_pkt>>
      BY <1>3 DEF EthRxSwap, swap, usbVars
    <2>2. CASE epc = "swap" /\ epc' # "untaken"
      BY <2>1, <2>2, RxStutter
    <2>3. CASE epc = "untaken" /\ epc' # "untaken"
      <3>1. UNCHANGED waiting
        BY <2>1 DEF waiting
      <3> QED BY <2>3, <3>1 DEF ToHost!Next, ToHost!Forget
    <2> QED BY <1>3, <2>2, <2>3 DEF EthRxSwap, swap, Goto
  <1>4. CASE UsbLoop
    BY <1>1, <1>4, LoopImplements DEF ToHost!Next
  <1>5. CASE \/ EthTake \/ EthInit \/ EthPull \/ (\E n \in 1..MAX_CHUNKS : EthFill(n))
             \/ EthTxCallback
             \/ \E txc \in 0..CREDITS, rca \in pending : RxQuiet(txc, rca) \/ RxFrame(txc, rca)
             \/ EthRxPoke \/ RxError \/ RxReset \/ EthEnd
    <2>1. UNCHANGED <<usb_reqs, usb_pkt>> /\ epc # "untaken" /\ epc' # "untaken"
      BY <1>5
         DEF EthTake, EthInit, EthPull, EthFill, EthTxCallback, RxQuiet, RxFrame, ChunkDone,
             EthRxPoke, RxError, handle_error, RxReset, EthEnd, Goto, LoopTop, usbVars
    <2> QED BY <2>1, RxStutter
  <1>6. CASE \/ UsbDatagram \/ UsbDropDatagram \/ UsbRenew \/ UsbPoke \/ UsbInDone
             \/ UsbHid \/ UsbRequest \/ UsbSent \/ UsbHidDone \/ Environment \/ UNCHANGED vars
    <2>1. UNCHANGED <<usb_reqs, usb_pkt, epc>>
      BY <1>6
         DEF UsbDatagram, UsbDropDatagram, UsbRenew, UsbPoke, UsbInDone, UsbHid, UsbRequest,
             UsbSent, UsbHidDone, Environment, MacphyInterrupt, HostTransfer, ethVars, usbVars, vars
    <2> QED BY <2>1, RxStutter
  <1> QED BY <1>2, <1>3, <1>4, <1>5, <1>6 DEF Next, EthStep, UsbStep

\* The bridge implements the channel RxChannel specifies: the frames taken for
\* the host reach it in order, each exactly once, and one is refused only when
\* data_.reqs is full.
THEOREM RxRefinement == Spec => ImplementsRxChannel
  <1>1. Init => ToHost!Init
    BY DEF Init, ToHost!Init, waiting
  <1>2. IInv /\ [Next]_vars => [ToHost!Next]_(ToHost!vars)
    BY RxNextImplements
  <1> QED BY <1>1, <1>2, Invariance, PTL DEF Spec, ImplementsRxChannel, ToHost!Spec

-----------------------------------------------------------------------------
(* The event queue.  Its length is bounded by what can be in it together:    *)
(* one event of each endpoint in use, and the calls of eth_task.  While a    *)
(* register command keeps usb_task busy eth_task can only complete the       *)
(* packets that were queued before it and fill the room the host's queue had *)
(* then; but usb_task can go from one command to the next, and accept a      *)
(* datagram in between, with those calls still queued.                       *)

\* The endpoints in use, and the room that is enough.
Used == HOST_USES \cup {"in", "hid_in"}
EvqRoom == EVQ_SIZE >= (2 * REQ_SIZE + 3) + Cardinality(Used)

\* Each endpoint is armed or has its event queued or neither, never two of
\* them: the one datagram, IN transfer or output report there is.
Tickets ==
  /\ \A ep \in Endpoints : AtMostOnce(evq, ep) /\ (ep \in Range(evq) => ep \notin armed)
  /\ stalled => "out" \notin armed /\ "out" \notin Range(evq)
  /\ upc = "hid" => "hid" \notin armed /\ "hid" \notin Range(evq)

\* No other endpoint has one.
InUse ==
  /\ armed \subseteq Used /\ Range(evq) \cap Endpoints \subseteq Used
  /\ upc \in Commands => upc \in Used
  /\ stalled => "out" \in Used

\* When usb_task leaves tud_task(), there are no events of eth_task, which ran
\* only before.
CallsFirst == upc = "loop" => Range(evq) \subseteq Endpoints

\* Calls queued, calls the TX packets still owe, and calls that frames for the
\* host may still cause.
Transfers == Range(evq) \cap Endpoints
Calls == Len(evq) - Cardinality(Transfers)
TxBusy == tx_pkt # NULL \/ epc \in {"txcb", "errcb"}
ToRenew == IF TxBusy THEN Len(tx_reqs) + 1 ELSE Len(tx_reqs)
ToPoke == IF epc = "poke" THEN REQ_SIZE - Len(usb_reqs) + 1 ELSE REQ_SIZE - Len(usb_reqs)

\* A datagram that will be looked at before any of the calls.
OutFirst == \E i \in DOMAIN evq :
  evq[i] = "out" /\ \A j \in DOMAIN evq : j < i => evq[j] \in Endpoints

\* Only one datagram can have been accepted ahead of the calls: the next one
\* is queued behind them.
CountInv ==
  /\ Calls + ToRenew + ToPoke <= 2 * REQ_SIZE + 3
  /\ OutFirst => Calls + ToRenew + ToPoke <= 2 * REQ_SIZE + 2

\* A block handed to the controller completes.
InAlive == in_ntbs > 0 => "in" \in armed \/ "in" \in Range(evq)

LEMMA EndpointsFinite == IsFiniteSet(Endpoints)
  <1>1. IsFiniteSet({}) BY FS_EmptySet
  <1>2. IsFiniteSet({} \cup {"out"}) BY <1>1, FS_AddElement
  <1>3. IsFiniteSet({"out"} \cup {"in"}) BY <1>2, FS_AddElement
  <1>4. IsFiniteSet({"out", "in"} \cup {"hid"}) BY <1>3, FS_AddElement
  <1>5. IsFiniteSet({"out", "in", "hid"} \cup {"hid_in"}) BY <1>4, FS_AddElement
  <1>6. IsFiniteSet({"out", "in", "hid", "hid_in"} \cup {"ctrl"}) BY <1>5, FS_AddElement
  <1>7. IsFiniteSet({"out", "in", "hid", "hid_in", "ctrl"} \cup {"notif"})
    BY <1>6, FS_AddElement
  <1>8. Endpoints = {"out", "in", "hid", "hid_in", "ctrl"} \cup {"notif"}
    BY DEF Endpoints
  <1> QED BY <1>7, <1>8

\* What the proofs use of the types.
LEMMA CountTypes ==
  ASSUME BufferTypes
  PROVE  /\ evq \in Seq(Events) /\ Len(evq) \in Nat
         /\ IsFiniteSet(Transfers) /\ Cardinality(Transfers) \in Nat
         /\ Calls \in Nat /\ ToRenew \in Nat /\ ToPoke \in Nat
         /\ REQ_SIZE \in Nat \ {0} /\ EVQ_SIZE \in Nat
  <1>1. /\ evq \in Seq(Events) /\ Len(evq) \in Nat /\ REQ_SIZE \in Nat \ {0}
        /\ EVQ_SIZE \in Nat
        /\ Len(tx_reqs) \in Nat /\ Len(usb_reqs) \in Nat /\ Len(usb_reqs) <= REQ_SIZE
    BY PoolAssumption, SizeAssumption DEF BufferTypes, PoolAssumption, SizeAssumption
  <1>2. IsFiniteSet(Range(evq)) /\ Cardinality(Range(evq)) <= Len(evq)
    BY <1>1, QueueCardinality
  <1>3. /\ IsFiniteSet(Transfers) /\ Cardinality(Transfers) <= Cardinality(Range(evq))
        /\ Cardinality(Transfers) \in Nat /\ Cardinality(Range(evq)) \in Nat
    <2>1. Transfers \subseteq Range(evq)
      BY DEF Transfers
    <2> QED BY <1>2, <2>1, FS_Subset, FS_CardinalityType
  <1>4. Calls \in Nat
    BY <1>1, <1>2, <1>3 DEF Calls
  <1>5. Len(tx_reqs) + 1 \in Nat /\ REQ_SIZE - Len(usb_reqs) \in Nat
        /\ REQ_SIZE - Len(usb_reqs) + 1 \in Nat
    BY <1>1
  <1>6. ToRenew \in Nat /\ ToPoke \in Nat
    BY <1>1, <1>5 DEF ToRenew, ToPoke
  <1> QED BY <1>1, <1>3, <1>4, <1>6

CountsNat == Calls \in Nat /\ ToRenew \in Nat /\ ToPoke \in Nat

LEMMA CountNats == BufferTypes => CountsNat
  BY CountTypes DEF CountsNat

\* With only the events of the endpoints queued there are no calls, and what
\* the two packet queues owe is bounded by their sizes.
LEMMA NoCalls ==
  ASSUME BufferTypes, Tickets, Range(evq) \subseteq Endpoints
  PROVE  Calls = 0 /\ Calls + ToRenew + ToPoke <= 2 * REQ_SIZE + 2
  <1>1. IsInjective(evq)
    <2>1. \A i \in DOMAIN evq : evq[i] \in Endpoints
      BY DEF Range
    <2> QED BY <2>1 DEF AtMostOnce, IsInjective, Tickets
  <1>2. Cardinality(Range(evq)) = Len(evq)
    BY <1>1, DistinctQueue DEF BufferTypes
  <1>3. Transfers = Range(evq)
    BY DEF Transfers
  <1>4. Calls = 0
    BY <1>2, <1>3, CountTypes DEF Calls
  <1>5. /\ Len(tx_reqs) \in Nat /\ Len(tx_reqs) <= REQ_SIZE
        /\ Len(usb_reqs) \in Nat /\ Len(usb_reqs) <= REQ_SIZE
        /\ ToRenew \in Nat /\ ToPoke \in Nat /\ REQ_SIZE \in Nat
    BY CountTypes DEF BufferTypes
  <1>6. ToRenew <= REQ_SIZE + 1 /\ ToPoke <= REQ_SIZE + 1
    BY <1>5 DEF ToRenew, ToPoke
  <1> QED BY <1>4, <1>5, <1>6

FewOwed ==
  Tickets /\ Range(evq) \subseteq Endpoints => Calls + ToRenew + ToPoke <= 2 * REQ_SIZE + 2

LEMMA NoCallsOwed == BufferTypes => FewOwed
  BY NoCalls DEF FewOwed

\* Taking an event removes the first one.
LEMMA TakeTickets ==
  ASSUME BufferTypes, Tickets, NEW e \in Events, TakeEvent(e)
  PROVE  /\ evq \in Seq(Events) /\ evq # <<>> /\ e \in Range(evq)
         /\ Len(evq') = Len(evq) - 1
         /\ \A ep \in Endpoints : AtMostOnce(evq', ep)
         /\ Range(evq') \subseteq Range(evq) /\ Range(evq) = Range(evq') \cup {e}
         /\ e \in Endpoints => e \notin Range(evq')
  <1>1. evq \in Seq(Events) /\ evq # <<>> /\ evq' = Tail(evq) /\ Head(evq) = e
    BY DEF BufferTypes, TakeEvent
  <1>2. /\ Len(Tail(evq)) = Len(evq) - 1
        /\ e \in Range(evq) /\ Range(evq) = Range(Tail(evq)) \cup {e}
    BY <1>1, TailQueue
  <1>3. ASSUME NEW ep \in Endpoints
        PROVE  AtMostOnce(Tail(evq), ep) /\ (e = ep => ep \notin Range(Tail(evq)))
    BY <1>1, OnceTail DEF Tickets
  <1> QED BY <1>1, <1>2, <1>3

\* Deferring a call appends it.
LEMMA DeferTickets ==
  ASSUME BufferTypes, Tickets, NEW e \in {"renew", "poke"}, Defer(e)
  PROVE  /\ evq \in Seq(Events) /\ evq' = Append(evq, e)
         /\ Len(evq') = Len(evq) + 1
         /\ Range(evq') = Range(evq) \cup {e}
         /\ \A ep \in Endpoints : AtMostOnce(evq', ep)
  <1>1. evq \in Seq(Events) /\ evq' = Append(evq, e) /\ e \in Events
    BY DEF BufferTypes, Defer, Events
  <1>2. Len(Append(evq, e)) = Len(evq) + 1 /\ Range(Append(evq, e)) = Range(evq) \cup {e}
    BY <1>1, AppendQueue
  <1>3. ASSUME NEW ep \in Endpoints
        PROVE  AtMostOnce(Append(evq, e), ep)
    <2>1. e # ep BY DEF Endpoints
    <2> QED BY <1>1, <2>1, OnceAppend DEF Tickets
  <1> QED BY <1>1, <1>2, <1>3

\* With room for it the event of an endpoint is appended too, the first of its
\* kind, and the endpoint is no longer armed.
LEMMA TransferTickets ==
  ASSUME BufferTypes, Tickets, EvqHasRoom, NEW ep \in Endpoints, HostTransfer(ep)
  PROVE  /\ evq \in Seq(Events) /\ evq' = Append(evq, ep)
         /\ Len(evq') = Len(evq) + 1
         /\ Range(evq') = Range(evq) \cup {ep}
         /\ \A other \in Endpoints : AtMostOnce(evq', other)
         /\ ep \in armed /\ ep \notin Range(evq) /\ armed' = armed \ {ep}
  <1>1. evq \in Seq(Events) /\ evq' = Append(evq, ep) /\ ep \in Events
    BY DEF BufferTypes, HostTransfer, Interrupt, EvqHasRoom, Events, Endpoints
  <1>2. ep \in armed /\ ep \notin Range(evq) /\ armed' = armed \ {ep}
    BY DEF HostTransfer, Tickets
  <1>3. Len(Append(evq, ep)) = Len(evq) + 1 /\ Range(Append(evq, ep)) = Range(evq) \cup {ep}
    BY <1>1, AppendQueue
  <1>4. ASSUME NEW other \in Endpoints
        PROVE  AtMostOnce(Append(evq, ep), other)
    BY <1>1, <1>2, OnceAppend DEF Tickets
  <1> QED BY <1>1, <1>2, <1>3, <1>4

\* Only eth_task's events are counted as calls.
LEMMA TakeCalls ==
  ASSUME BufferTypes, BufferTypes', Tickets, NEW e \in Events, TakeEvent(e)
  PROVE  IF e \in Endpoints THEN Calls' = Calls ELSE Calls = Calls' + 1
  <1>1. Len(evq) \in Nat /\ Len(evq') = Len(evq) - 1
    BY CountTypes, TakeTickets
  <1>2. CASE e \in Endpoints
    <2>1. Transfers = Transfers' \cup {e} /\ e \notin Transfers'
      BY <1>2, TakeTickets DEF Transfers
    <2>2. IsFiniteSet(Transfers) /\ Transfers' = Transfers \ {e} /\ e \in Transfers
      BY <2>1, CountTypes
    <2>3. /\ Cardinality(Transfers) \in Nat
          /\ Cardinality(Transfers') = Cardinality(Transfers) - 1
      BY <2>2, FS_RemoveElement, FS_CardinalityType
    <2>4. Calls' = Calls
      BY <1>1, <2>3 DEF Calls
    <2> QED BY <1>2, <2>4
  <1>3. CASE e \notin Endpoints
    <2>1. Transfers' = Transfers
      BY <1>3, TakeTickets DEF Transfers
    <2>2. Cardinality(Transfers') = Cardinality(Transfers) /\ Cardinality(Transfers) \in Nat
      BY <2>1, CountTypes
    <2>3. Calls = Calls' + 1
      BY <1>1, <2>2 DEF Calls
    <2> QED BY <1>3, <2>3
  <1> QED BY <1>2, <1>3

LEMMA DeferCalls ==
  ASSUME BufferTypes, Tickets, NEW e \in {"renew", "poke"}, Defer(e)
  PROVE  Calls' = Calls + 1
  <1>1. Len(evq) \in Nat /\ Len(evq') = Len(evq) + 1
    BY CountTypes, DeferTickets
  <1>2. Transfers' = Transfers
    BY DeferTickets DEF Transfers, Endpoints
  <1>3. Cardinality(Transfers') = Cardinality(Transfers) /\ Cardinality(Transfers) \in Nat
    BY <1>2, CountTypes
  <1> QED BY <1>1, <1>3 DEF Calls

LEMMA TransferCalls ==
  ASSUME BufferTypes, Tickets, EvqHasRoom, NEW ep \in Endpoints, HostTransfer(ep)
  PROVE  Calls' = Calls
  <1>1. Len(evq) \in Nat /\ Len(evq') = Len(evq) + 1
    BY CountTypes, TransferTickets
  <1>2. Transfers' = Transfers \cup {ep} /\ ep \notin Transfers
    BY TransferTickets DEF Transfers
  <1>3. IsFiniteSet(Transfers) /\ Cardinality(Transfers) \in Nat
    BY CountTypes
  <1>4. Cardinality(Transfers') = Cardinality(Transfers) + 1
    BY <1>2, <1>3, FS_AddElement
  <1> QED BY <1>1, <1>3, <1>4 DEF Calls

\* A datagram that is first of all, once the event of another endpoint is
\* taken, was so before.
LEMMA OutFirstTake ==
  ASSUME BufferTypes, NEW e \in Endpoints, TakeEvent(e), OutFirst'
  PROVE  OutFirst
  <1>1. evq \in Seq(Events) /\ evq # <<>> /\ evq' = Tail(evq) /\ Head(evq) = e
    BY DEF BufferTypes, TakeEvent
  <1>2. PICK i \in DOMAIN Tail(evq) :
          /\ Tail(evq)[i] = "out"
          /\ \A j \in DOMAIN Tail(evq) : j < i => Tail(evq)[j] \in Endpoints
    BY <1>1 DEF OutFirst
  <1>3. /\ i \in Nat \ {0} /\ i + 1 \in DOMAIN evq /\ Tail(evq)[i] = evq[i + 1]
        /\ evq[1] = e
        /\ \A j \in DOMAIN evq :
             j = 1 \/ (j \in Nat /\ j - 1 \in DOMAIN Tail(evq) /\ Tail(evq)[j - 1] = evq[j])
    <2>1. /\ i \in Nat \ {0} /\ i + 1 \in DOMAIN evq /\ Tail(evq)[i] = evq[i + 1]
          /\ evq[1] = e
      BY <1>1, TailPlaces
    <2>2. \A j \in DOMAIN evq :
             j = 1 \/ (j \in Nat /\ j - 1 \in DOMAIN Tail(evq) /\ Tail(evq)[j - 1] = evq[j])
      BY <1>1
    <2> QED BY <2>1, <2>2
  <1>4. ASSUME NEW j \in DOMAIN evq, j < i + 1
        PROVE  evq[j] \in Endpoints
    <2>1. CASE j = 1
      BY <1>3, <2>1
    <2>2. CASE j # 1
      <3>1. j \in Nat /\ j - 1 \in DOMAIN Tail(evq) /\ Tail(evq)[j - 1] = evq[j]
        BY <1>3, <2>2
      <3>2. j - 1 < i
        BY <1>3, <1>4, <3>1
      <3> QED BY <1>2, <3>1, <3>2
    <2> QED BY <2>1, <2>2
  <1> QED BY <1>2, <1>3, <1>4 DEF OutFirst

\* And once an event is appended, unless that is the datagram and there are no
\* calls.
LEMMA OutFirstAppend ==
  ASSUME BufferTypes, NEW e \in Events, evq' = Append(evq, e), OutFirst'
  PROVE  OutFirst \/ (e = "out" /\ Range(evq) \subseteq Endpoints)
  <1>1. /\ evq \in Seq(Events)
        /\ DOMAIN evq' = DOMAIN evq \cup {Len(evq) + 1}
        /\ \A i \in DOMAIN evq : i \in Nat /\ i < Len(evq) + 1 /\ evq'[i] = evq[i]
        /\ evq'[Len(evq) + 1] = e
    BY AppendPlaces DEF BufferTypes
  <1>2. PICK i \in DOMAIN evq' :
          evq'[i] = "out" /\ \A j \in DOMAIN evq' : j < i => evq'[j] \in Endpoints
    BY DEF OutFirst
  <1>3. CASE i \in DOMAIN evq
    BY <1>1, <1>2, <1>3 DEF OutFirst
  <1>4. CASE i = Len(evq) + 1
    <2>1. \A j \in DOMAIN evq : evq[j] \in Endpoints
      BY <1>1, <1>2, <1>4
    <2> QED BY <1>1, <1>2, <1>4, <2>1 DEF Range
  <1> QED BY <1>1, <1>2, <1>3, <1>4

\* eth_task's steps other than the two that defer a call leave alone what is
\* between usb_task and the host.
LEMMA EthKeepsUsb ==
  ASSUME EthStep
  PROVE  /\ UNCHANGED <<upc, armed, stalled, in_ntbs, usb_pkt>>
         /\ UNCHANGED evq \/ EthTxCallback \/ EthRxPoke
  <1>1. UNCHANGED usbVars /\ (UNCHANGED evq \/ EthTxCallback \/ EthRxPoke)
    BY DEF EthStep, EthTake, EthInit, EthPull, EthFill, EthTxCallback, RxQuiet, RxFrame,
           EthRxCallback, EthRxPoke, EthRxSwap, swap, RxError, handle_error, RxReset, EthEnd
  <1> QED BY <1>1 DEF usbVars

LEMMA TicketsStep ==
  ASSUME BufferTypes, FlagTypes, InInv, Tickets, EvqHasRoom, [Next]_vars
  PROVE  Tickets'
  <1>1. CASE UNCHANGED <<evq, armed, stalled, upc>>
    BY <1>1 DEF Tickets, AtMostOnce
  <1>2. CASE EthTxCallback \/ EthRxPoke
    <2>1. PICK e \in {"renew", "poke"} : Defer(e)
      BY <1>2 DEF EthTxCallback, EthRxPoke
    <2>2. UNCHANGED <<upc, armed, stalled>>
      BY <1>2, EthKeepsUsb DEF EthStep
    <2>3. \A ep \in Endpoints : ep \in Range(evq') <=> ep \in Range(evq)
      BY <2>1, DeferTickets DEF Endpoints
    <2> QED BY <2>1, <2>2, <2>3, DeferTickets DEF Tickets, Endpoints
  <1>3. CASE EthStep
    BY <1>1, <1>2, <1>3, EthKeepsUsb
  <1>4. CASE UsbDatagram \/ UsbDropDatagram
    <2>1. TakeEvent("out") /\ upc' # "hid"
      BY <1>4 DEF UsbDatagram, UsbDropDatagram, TudReturns
    <2>2. "out" \notin Range(evq') /\ "out" \in Range(evq) /\ "out" \notin armed
      BY <2>1, TakeTickets DEF Tickets, Events, Endpoints
    <2>3. \/ stalled' = TRUE /\ UNCHANGED armed
          \/ (stalled' = FALSE \/ UNCHANGED stalled) /\ armed' = armed \cup {"out"}
      BY <1>4 DEF UsbDatagram, UsbDropDatagram, recv_cb
    <2>4. ~stalled
      BY <2>2 DEF Tickets
    <2>5. /\ Range(evq') \subseteq Range(evq) /\ \A ep \in Endpoints : AtMostOnce(evq', ep)
          /\ armed' \subseteq armed \cup {"out"}
      BY <2>1, <2>3, TakeTickets DEF Events, Endpoints
    <2>6. \A ep \in Endpoints : ep \in Range(evq') => ep \notin armed'
      BY <2>2, <2>5 DEF Tickets
    <2>7. stalled' => "out" \notin armed'
      BY <2>2, <2>3, <2>4
    <2> QED BY <2>1, <2>2, <2>5, <2>6, <2>7 DEF Tickets
  <1>5. CASE UsbRenew
    <2>1. TakeEvent("renew") /\ upc' # "hid"
      BY <1>5 DEF UsbRenew, TudReturns
    <2>2. \/ UNCHANGED <<stalled, armed>>
          \/ stalled /\ stalled' = TRUE /\ UNCHANGED armed
          \/ stalled /\ stalled' = FALSE /\ armed' = armed \cup {"out"}
      BY <1>5 DEF UsbRenew, recv_cb
    <2> QED BY <2>1, <2>2, TakeTickets DEF Tickets, Events
  <1>6. CASE UsbPoke
    BY <1>6, TakeTickets DEF UsbPoke, TudReturns, Tickets, Events
  <1>7. ASSUME NEW ep \in Endpoints \ {"out"}, TakeEvent(ep), UNCHANGED stalled,
               armed' \subseteq armed \cup {ep} \cup report_armed,
               upc' = "hid" => ep = "hid" /\ armed' = armed
        PROVE  Tickets'
    <2>1. /\ Range(evq') \subseteq Range(evq) /\ ep \notin Range(evq') /\ ep \in Range(evq)
          /\ \A other \in Endpoints : AtMostOnce(evq', other)
      BY <1>7, TakeTickets DEF Events
    <2>2. \A other \in Endpoints : other \in Range(evq') => other \notin armed'
      BY <1>7, <2>1 DEF Tickets, report_armed
    <2>3. stalled' => "out" \notin armed' /\ "out" \notin Range(evq')
      BY <1>7, <2>1 DEF Tickets, report_armed
    <2>4. upc' = "hid" => "hid" \notin armed' /\ "hid" \notin Range(evq')
      BY <1>7, <2>1 DEF Tickets
    <2> QED BY <2>1, <2>2, <2>3, <2>4 DEF Tickets
  <1>8. CASE UsbInDone
    <2>1. TakeEvent("in") /\ upc' # "hid" /\ UNCHANGED stalled
      BY <1>8 DEF UsbInDone, TudReturns
    <2>2. armed' \subseteq armed \cup {"in"}
      BY <1>8 DEF UsbInDone
    <2> QED BY <1>7, <2>1, <2>2 DEF Endpoints
  <1>9. CASE UsbHid
    <2>1. PICK ep \in Commands :
            TakeEvent(ep) /\ upc' = ep /\ armed' = armed \cup ({ep} \cap {"ctrl"})
      BY <1>9 DEF UsbHid
    <2>2. ep \in Endpoints \ {"out"} /\ UNCHANGED stalled
      BY <1>9 DEF UsbHid, Commands, Endpoints
    <2> QED BY <1>7, <2>1, <2>2
  <1>10. CASE UsbRequest
    <2>1. PICK ep \in Commands, answer \in {{}, report_armed} :
            TakeEvent(ep) /\ armed' = armed \cup {ep} \cup answer
      BY <1>10 DEF UsbRequest
    <2>2. ep \in Endpoints \ {"out"} /\ UNCHANGED stalled /\ upc' # "hid"
      BY <1>10 DEF UsbRequest, Commands, Endpoints, TudReturns
    <2> QED BY <1>7, <2>1, <2>2
  <1>11. CASE UsbSent
    <2>1. PICK ep \in {"hid_in", "notif"} :
            TakeEvent(ep) /\ armed' \subseteq armed \cup {ep}
      BY <1>11 DEF UsbSent
    <2>2. ep \in Endpoints \ {"out"} /\ UNCHANGED stalled /\ upc' # "hid"
      BY <1>11 DEF UsbSent, Endpoints, TudReturns
    <2> QED BY <1>7, <2>1, <2>2
  <1>12. CASE UsbHidDone
    <2>1. /\ upc \in Commands /\ upc' # "hid" /\ UNCHANGED <<evq, stalled>>
          /\ armed' = armed \cup ({upc} \cap {"hid"}) \cup report_armed
      BY <1>12 DEF UsbHidDone
    <2> QED BY <2>1 DEF Tickets, AtMostOnce, report_armed
  <1>13. CASE UsbLoop
    <2>1. upc' # "hid" /\ UNCHANGED <<evq, stalled>>
      BY <1>13 DEF UsbLoop
    <2>2. \/ armed' = armed
          \/ in_ntbs = 0 /\ armed' = armed \cup {"in"}
      BY <1>13 DEF UsbLoop
    <2> QED BY <2>1, <2>2 DEF Tickets, AtMostOnce, InInv
  <1>14. CASE MacphyInterrupt \/ UNCHANGED vars
    BY <1>1, <1>14 DEF MacphyInterrupt, vars, usbVars
  <1>15. ASSUME NEW ep \in Endpoints, HostTransfer(ep)
         PROVE  Tickets'
    <2>1. UNCHANGED <<stalled, upc>>
      BY <1>15 DEF HostTransfer
    <2> QED BY <1>15, <2>1, TransferTickets DEF Tickets
  <1> QED BY <1>3, <1>4, <1>5, <1>6, <1>8, <1>9, <1>10, <1>11, <1>12, <1>13, <1>14, <1>15
          DEF Next, UsbStep, Environment

LEMMA InUseStep ==
  ASSUME BufferTypes, Tickets, InUse, EvqHasRoom, [Next]_vars
  PROVE  InUse'
  <1>1. CASE UNCHANGED <<evq, armed, stalled, upc>>
    BY <1>1 DEF InUse
  <1>2. CASE EthTxCallback \/ EthRxPoke
    <2>1. PICK e \in {"renew", "poke"} : Defer(e)
      BY <1>2 DEF EthTxCallback, EthRxPoke
    <2>2. UNCHANGED <<upc, armed, stalled>>
      BY <1>2, EthKeepsUsb DEF EthStep
    <2>3. Range(evq') \cap Endpoints = Range(evq) \cap Endpoints
      BY <2>1, DeferTickets DEF Endpoints
    <2> QED BY <2>2, <2>3 DEF InUse
  <1>3. CASE EthStep
    BY <1>1, <1>2, <1>3, EthKeepsUsb
  <1>4. ASSUME NEW e \in Events, TakeEvent(e), UNCHANGED stalled \/ "out" \in Used,
               armed' \subseteq Used, upc' \in Commands => upc' \in Used
        PROVE  InUse'
    <2>1. Range(evq') \subseteq Range(evq)
      BY <1>4, TakeTickets
    <2> QED BY <1>4, <2>1 DEF InUse
  <1>5. ASSUME NEW ep \in Endpoints, TakeEvent(ep)
        PROVE  ep \in Used
    BY <1>5, TakeTickets DEF InUse, Events
  <1>6. report_armed \subseteq Used
    BY DEF report_armed, Used
  <1>7. CASE UsbDatagram \/ UsbDropDatagram
    <2>1. /\ TakeEvent("out") /\ upc' \notin Commands
          /\ armed' \subseteq armed \cup {"out"}
      BY <1>7 DEF UsbDatagram, UsbDropDatagram, TudReturns, recv_cb, Commands
    <2>2. "out" \in Used
      BY <1>5, <2>1 DEF Endpoints
    <2> QED BY <1>4, <2>1, <2>2 DEF InUse, Events, Endpoints
  <1>8. CASE UsbRenew
    <2>1. /\ TakeEvent("renew") /\ upc' \notin Commands
          /\ \/ UNCHANGED <<stalled, armed>>
             \/ stalled /\ armed' \subseteq armed \cup {"out"}
      BY <1>8 DEF UsbRenew, TudReturns, recv_cb, Commands
    <2> QED BY <1>4, <2>1 DEF InUse, Events
  <1>9. CASE UsbPoke
    <2>1. TakeEvent("poke") /\ upc' \notin Commands /\ UNCHANGED <<stalled, armed>>
      BY <1>9 DEF UsbPoke, TudReturns, Commands
    <2> QED BY <1>4, <2>1 DEF InUse, Events
  <1>10. ASSUME NEW ep \in Endpoints, TakeEvent(ep), UNCHANGED stalled,
                armed' \subseteq armed \cup {ep} \cup report_armed,
                upc' \in Commands => upc' = ep
         PROVE  InUse'
    <2>1. ep \in Used /\ ep \in Events
      BY <1>5, <1>10 DEF Events
    <2>2. armed' \subseteq Used
      BY <1>6, <1>10, <2>1 DEF InUse
    <2> QED BY <1>4, <1>10, <2>1, <2>2
  <1>11. CASE UsbInDone
    <2>1. TakeEvent("in") /\ upc' \notin Commands /\ UNCHANGED stalled
          /\ armed' \subseteq armed \cup {"in"}
      BY <1>11 DEF UsbInDone, TudReturns, Commands
    <2> QED BY <1>10, <2>1 DEF Endpoints
  <1>12. CASE UsbHid
    <2>1. PICK ep \in Commands :
            TakeEvent(ep) /\ upc' = ep /\ armed' = armed \cup ({ep} \cap {"ctrl"})
      BY <1>12 DEF UsbHid
    <2>2. ep \in Endpoints /\ UNCHANGED stalled
      BY <1>12 DEF UsbHid, Commands, Endpoints
    <2> QED BY <1>10, <2>1, <2>2
  <1>13. CASE UsbRequest
    <2>1. PICK ep \in Commands, answer \in {{}, report_armed} :
            TakeEvent(ep) /\ armed' = armed \cup {ep} \cup answer
      BY <1>13 DEF UsbRequest
    <2>2. ep \in Endpoints /\ UNCHANGED stalled /\ upc' \notin Commands
      BY <1>13 DEF UsbRequest, Commands, Endpoints, TudReturns
    <2> QED BY <1>10, <2>1, <2>2
  <1>14. CASE UsbSent
    <2>1. PICK ep \in {"hid_in", "notif"} :
            TakeEvent(ep) /\ armed' \subseteq armed \cup {ep}
      BY <1>14 DEF UsbSent
    <2>2. ep \in Endpoints /\ UNCHANGED stalled /\ upc' \notin Commands
      BY <1>14 DEF UsbSent, Endpoints, TudReturns, Commands
    <2> QED BY <1>10, <2>1, <2>2
  <1>15. CASE UsbHidDone
    <2>1. /\ upc \in Commands /\ upc' \notin Commands /\ UNCHANGED <<evq, stalled>>
          /\ armed' \subseteq armed \cup {upc} \cup report_armed
      BY <1>15 DEF UsbHidDone, Commands
    <2> QED BY <1>6, <2>1 DEF InUse
  <1>16. CASE UsbLoop
    <2>1. upc' \notin Commands /\ UNCHANGED <<evq, stalled>> /\ armed' \subseteq armed \cup {"in"}
      BY <1>16 DEF UsbLoop, Commands
    <2> QED BY <2>1 DEF InUse, Used
  <1>17. CASE MacphyInterrupt \/ UNCHANGED vars
    BY <1>1, <1>17 DEF MacphyInterrupt, vars, usbVars
  <1>18. ASSUME NEW ep \in Endpoints, HostTransfer(ep)
         PROVE  InUse'
    <2>1. UNCHANGED <<stalled, upc>>
      BY <1>18 DEF HostTransfer
    <2>2. Range(evq') = Range(evq) \cup {ep} /\ ep \in armed /\ armed' = armed \ {ep}
      BY <1>18, TransferTickets
    <2> QED BY <2>1, <2>2 DEF InUse
  <1> QED BY <1>3, <1>7, <1>8, <1>9, <1>11, <1>12, <1>13, <1>14, <1>15, <1>16, <1>17, <1>18
          DEF Next, UsbStep, Environment

LEMMA CallsFirstStep ==
  ASSUME BufferTypes, Tickets, CallsFirst, EvqHasRoom, [Next]_vars
  PROVE  CallsFirst'
  <1>1. CASE UNCHANGED <<evq, upc>>
    BY <1>1 DEF CallsFirst
  <1>2. CASE upc' # "loop"
    BY <1>2 DEF CallsFirst
  <1>3. CASE EthTxCallback \/ EthRxPoke
    <2>1. upc' # "loop"
      BY <1>3 DEF EthTxCallback, EthRxPoke, Goto, UsbBlocked, usbVars, Commands
    <2> QED BY <1>2, <2>1
  <1>4. CASE EthStep
    BY <1>1, <1>3, <1>4, EthKeepsUsb
  <1>5. CASE \/ UsbDatagram \/ UsbDropDatagram \/ UsbRenew \/ UsbPoke \/ UsbInDone
             \/ UsbHid \/ UsbRequest \/ UsbSent \/ UsbHidDone
    <2>1. CASE (\E e \in Events : TakeEvent(e)) /\ (upc' \in Commands \/ TudReturns)
      BY <2>1, EmptyQueue DEF TakeEvent, TudReturns, Commands, CallsFirst
    <2>2. CASE UsbHidDone
      BY <2>2, EmptyQueue DEF UsbHidDone, CallsFirst
    <2>3. CASE UsbDatagram \/ UsbRenew \/ UsbInDone
      BY <2>1, <2>3 DEF UsbDatagram, UsbRenew, UsbInDone, Events, Endpoints
    <2> QED BY <1>5, <2>1, <2>2, <2>3, OtherEvents
  <1>6. CASE UsbLoop
    BY <1>2, <1>6 DEF UsbLoop
  <1>7. ASSUME NEW ep \in Endpoints, HostTransfer(ep)
        PROVE  CallsFirst'
    <2>1. Range(evq') = Range(evq) \cup {ep} /\ UNCHANGED upc
      BY <1>7, TransferTickets DEF HostTransfer
    <2> QED BY <2>1 DEF CallsFirst
  <1>8. CASE MacphyInterrupt \/ UNCHANGED vars
    BY <1>1, <1>8 DEF MacphyInterrupt, vars, usbVars
  <1> QED BY <1>4, <1>5, <1>6, <1>7, <1>8 DEF Next, UsbStep, Environment

\* eth_task turns what the packets owe into calls, one for one, and makes no
\* new debt.
LEMMA EthCount ==
  ASSUME BufferTypes, BufferTypes', PcInv, Tickets, EthStep
  PROVE  Calls' + ToRenew' + ToPoke' <= Calls + ToRenew + ToPoke
  <1> DEFINE Owed == /\ Calls' = Calls
                     /\ ToRenew' <= ToRenew /\ ToPoke' <= ToPoke
  <1>1. /\ Calls \in Nat /\ ToRenew \in Nat /\ ToPoke \in Nat
        /\ Len(tx_reqs) \in Nat /\ Len(usb_reqs) \in Nat /\ REQ_SIZE \in Nat
        /\ tx_reqs \in Seq(Packets) /\ usb_reqs \in Seq(Packets)
        /\ Len(evq) \in Nat
        /\ Calls' \in Nat /\ ToRenew' \in Nat /\ ToPoke' \in Nat
    <2>1. CountsNat'
      BY CountNats, PTL
    <2>2. tx_reqs \in Seq(Packets) /\ usb_reqs \in Seq(Packets)
      BY DEF BufferTypes
    <2> QED BY <2>1, <2>2, CountTypes DEF CountsNat
  <1>nat. /\ Calls \in Nat /\ ToRenew \in Nat /\ ToPoke \in Nat
          /\ Calls' \in Nat /\ ToRenew' \in Nat /\ ToPoke' \in Nat
    BY <1>1
  <1>0. \A t1, r1, p1, t0, r0, p0 \in Nat :
          \/ t1 = t0 /\ r1 <= r0 /\ p1 <= p0
          \/ t1 = t0 + 1 /\ r0 = r1 + 1 /\ p1 = p0
          \/ t1 = t0 + 1 /\ r1 = r0 /\ p0 = p1 + 1
          => t1 + r1 + p1 <= t0 + r0 + p0
    OBVIOUS
  <1>2. CASE EthTxCallback
    <2>1. PICK e \in {"renew"} : Defer(e)
      BY <1>2 DEF EthTxCallback
    <2>3. /\ epc \in {"txcb", "errcb"} /\ epc' \in {"rx", "end"} /\ tx_pkt' = NULL
          /\ UNCHANGED <<tx_reqs, usb_reqs, armed>>
      BY <1>2 DEF EthTxCallback, Goto, PcInv, usbVars
    <2>4. TxBusy /\ ~TxBusy' /\ epc # "poke" /\ epc' # "poke"
      BY <2>3 DEF TxBusy
    <2>5. Calls' = Calls + 1
      BY <2>1, DeferCalls
    <2>6. ToRenew = ToRenew' + 1
      BY <1>1, <2>3, <2>4 DEF ToRenew
    <2>7. ToPoke' = ToPoke
      BY <2>3, <2>4 DEF ToPoke
    <2> QED BY <1>0, <1>nat, <2>5, <2>6, <2>7, Zenon
  <1>3. CASE EthRxPoke
    <2>1. PICK e \in {"poke"} : Defer(e)
      BY <1>3 DEF EthRxPoke
    <2>3. epc = "poke" /\ epc' = "swap" /\ UNCHANGED <<tx_reqs, tx_pkt, usb_reqs, armed>>
      BY <1>3 DEF EthRxPoke, Goto, usbVars
    <2>4. TxBusy' <=> TxBusy
      BY <2>3 DEF TxBusy
    <2>5. Calls' = Calls + 1
      BY <2>1, DeferCalls
    <2>6. ToRenew' = ToRenew
      BY <2>3, <2>4 DEF ToRenew
    <2>7. ToPoke = ToPoke' + 1
      BY <1>1, <2>3 DEF ToPoke
    <2> QED BY <1>0, <1>nat, <2>5, <2>6, <2>7, Zenon
  <1>4. ASSUME Owed
        PROVE  Calls' + ToRenew' + ToPoke' <= Calls + ToRenew + ToPoke
    BY <1>0, <1>nat, <1>4, Zenon
  <1>5. ASSUME UNCHANGED <<evq, armed, tx_reqs, usb_reqs>>, TxBusy' => TxBusy, epc' # "poke"
        PROVE  Owed
    <2>1. Calls' = Calls
      BY <1>5 DEF Calls, Transfers
    <2>2. ToRenew' <= ToRenew
      BY <1>1, <1>5 DEF ToRenew
    <2>3. ToPoke' <= ToPoke
      BY <1>1, <1>5 DEF ToPoke
    <2> QED BY <2>1, <2>2, <2>3
  <1>6. CASE EthTake \/ EthInit \/ EthRxSwap \/ RxReset \/ EthEnd
    <2>1. /\ UNCHANGED <<evq, armed, tx_reqs, tx_pkt, usb_reqs>>
          /\ epc' \notin {"txcb", "errcb", "poke"}
      BY <1>6 DEF EthTake, EthInit, EthRxSwap, swap, RxReset, EthEnd, LoopTop, Goto, usbVars
    <2>2. TxBusy' => TxBusy
      BY <2>1 DEF TxBusy
    <2> QED BY <1>4, <1>5, <2>1, <2>2
  <1>7. CASE EthPull
    <2>1. UNCHANGED <<evq, armed, usb_reqs>> /\ epc = "pull" /\ epc' = "fill"
      BY <1>7 DEF EthPull, Goto, usbVars
    <2>2. CASE UNCHANGED <<tx_pkt, tx_reqs>>
      <3>1. TxBusy' => TxBusy
        BY <2>1, <2>2 DEF TxBusy
      <3> QED BY <1>4, <1>5, <2>1, <2>2, <3>1
    <2>3. CASE tx_pkt = NULL /\ tx_reqs # <<>> /\ tx_reqs' = Tail(tx_reqs)
      <3>1. Len(Tail(tx_reqs)) = Len(tx_reqs) - 1
        BY <1>1, <2>3, TailQueue
      <3>2. Len(tx_reqs') = Len(tx_reqs) - 1
        BY <2>3, <3>1
      <3>3. ~TxBusy
        BY <2>1, <2>3 DEF TxBusy
      <3>4. ToRenew' <= ToRenew
        BY <1>1, <3>2, <3>3 DEF ToRenew
      <3>5. Calls' = Calls /\ ToPoke' = ToPoke
        BY <2>1 DEF Calls, Transfers, ToPoke
      <3>6. ToPoke' <= ToPoke
        BY <1>1, <2>1 DEF ToPoke
      <3> QED BY <1>4, <3>4, <3>5, <3>6
    <2> QED BY <1>7, <2>2, <2>3 DEF EthPull
  <1>8. ASSUME NEW n \in 1..MAX_CHUNKS, EthFill(n)
        PROVE  Owed
    <2>1. /\ UNCHANGED <<evq, armed, tx_reqs, usb_reqs>> /\ epc' # "poke"
          /\ tx_pkt # NULL \/ (UNCHANGED tx_pkt /\ epc' = "rx")
      BY <1>8 DEF EthFill, Goto, usbVars
    <2>2. TxBusy' => TxBusy
      BY <2>1 DEF TxBusy
    <2> QED BY <1>5, <2>1, <2>2
  <1>9. ASSUME NEW txc \in 0..CREDITS, NEW rca \in pending,
               RxQuiet(txc, rca) \/ RxFrame(txc, rca)
        PROVE  Owed
    <2>1. /\ UNCHANGED <<evq, armed, tx_reqs, tx_pkt, usb_reqs>>
          /\ epc' \notin {"txcb", "errcb", "poke"}
      BY <1>9 DEF RxQuiet, RxFrame, ChunkDone, Goto, usbVars
    <2>2. TxBusy' => TxBusy
      BY <2>1 DEF TxBusy
    <2> QED BY <1>5, <2>1, <2>2
  <1>10. CASE EthRxCallback
    <2>1. /\ UNCHANGED <<evq, armed, tx_reqs, tx_pkt>>
          /\ epc = "rxcb" /\ epc' \in {"poke", "untaken"}
      BY <1>10 DEF EthRxCallback, Goto, usbVars
    <2>2. TxBusy' => TxBusy
      BY <2>1 DEF TxBusy
    <2>3. CASE epc' = "untaken" /\ UNCHANGED usb_reqs
      BY <1>4, <1>5, <2>1, <2>2, <2>3
    <2>4. CASE epc' = "poke" /\ usb_reqs' = Append(usb_reqs, rx_pkt)
      <3>1. Len(Append(usb_reqs, rx_pkt)) = Len(usb_reqs) + 1
        BY <1>1, AppendQueue DEF BufferTypes
      <3>2. Len(usb_reqs') = Len(usb_reqs) + 1
        BY <2>4, <3>1
      <3>3. ToPoke' <= ToPoke
        BY <1>1, <2>1, <2>4, <3>2 DEF ToPoke
      <3>4. Calls' = Calls
        BY <2>1 DEF Calls, Transfers
      <3>5. ToRenew' <= ToRenew
        BY <1>1, <2>1, <2>2 DEF ToRenew
      <3> QED BY <1>4, <3>3, <3>4, <3>5
    <2> QED BY <1>10, <2>3, <2>4 DEF EthRxCallback, Goto
  <1>11. CASE RxError
    <2>1. /\ UNCHANGED <<evq, armed, tx_reqs, usb_reqs>> /\ epc' # "poke"
          /\ tx_pkt # NULL \/ (tx_pkt' = NULL /\ epc' = "end")
      BY <1>11 DEF RxError, handle_error, Goto, usbVars
    <2>2. TxBusy' => TxBusy
      BY <2>1 DEF TxBusy
    <2> QED BY <1>4, <1>5, <2>1, <2>2
  <1> HIDE DEF Owed
  <1> QED BY <1>2, <1>3, <1>4, <1>6, <1>7, <1>8, <1>9, <1>10, <1>11 DEF EthStep

LEMMA CountStep ==
  ASSUME BufferTypes, BufferTypes', PcInv, InInv, Tickets, Tickets', CallsFirst, CountInv,
         EvqHasRoom, [Next]_vars
  PROVE  CountInv'
  <1> DEFINE max == 2 * REQ_SIZE + 2
  <1>1. /\ Calls \in Nat /\ ToRenew \in Nat /\ ToPoke \in Nat
        /\ Calls' \in Nat /\ ToRenew' \in Nat /\ ToPoke' \in Nat
        /\ max \in Nat
    <2>1. CountsNat'
      BY CountNats, PTL
    <2>2. REQ_SIZE \in Nat
      BY CountTypes
    <2> QED BY <2>1, <2>2, CountTypes DEF CountsNat
  <1>2. /\ Calls + ToRenew + ToPoke <= max + 1
        /\ OutFirst => Calls + ToRenew + ToPoke <= max
    <2>1. REQ_SIZE \in Nat
      BY CountTypes
    <2> QED BY <1>1, <2>1 DEF CountInv
  <1>few. ASSUME Calls' + ToRenew' + ToPoke' <= max
          PROVE  CountInv'
    <2>1. REQ_SIZE \in Nat
      BY CountTypes
    <2>2. \A c, r, p \in Nat : c + r + p <= max => c + r + p <= 2 * REQ_SIZE + 3
      BY <2>1
    <2>3. Calls' + ToRenew' + ToPoke' <= 2 * REQ_SIZE + 3
      BY <1>1, <1>few, <2>2, Zenon
    <2> QED BY <1>few, <2>3 DEF CountInv
  <1>more. ASSUME Calls' + ToRenew' + ToPoke' <= max + 1, ~OutFirst'
           PROVE  CountInv'
    <2>1. REQ_SIZE \in Nat
      BY CountTypes
    <2>2. \A c, r, p \in Nat : c + r + p <= max + 1 => c + r + p <= 2 * REQ_SIZE + 3
      BY <2>1
    <2>3. Calls' + ToRenew' + ToPoke' <= 2 * REQ_SIZE + 3
      BY <1>1, <1>more, <2>2, Zenon
    <2> QED BY <1>more, <2>3 DEF CountInv
  <1> HIDE DEF max
  <1>same. ASSUME Calls' + ToRenew' + ToPoke' <= Calls + ToRenew + ToPoke, OutFirst' => OutFirst
           PROVE  CountInv'
    <2>1. \A c1, r1, p1, c0, r0, p0 \in Nat :
            c1 + r1 + p1 <= c0 + r0 + p0
              => /\ c0 + r0 + p0 <= max + 1 => c1 + r1 + p1 <= max + 1
                 /\ c0 + r0 + p0 <= max => c1 + r1 + p1 <= max
      BY <1>1
    <2>2. /\ Calls' + ToRenew' + ToPoke' <= max + 1
          /\ OutFirst' => Calls' + ToRenew' + ToPoke' <= max
      BY <1>1, <1>2, <1>same, <2>1, Zenon
    <2> QED BY <1>few, <1>more, <2>2
  <1>kept. ASSUME UNCHANGED <<tx_reqs, tx_pkt, epc, usb_reqs>>
           PROVE  ToRenew' = ToRenew /\ ToPoke' = ToPoke
    <2>1. TxBusy' <=> TxBusy
      BY <1>kept DEF TxBusy
    <2> QED BY <1>kept, <2>1 DEF ToRenew, ToPoke
  <1>quiet. ASSUME UNCHANGED <<tx_reqs, tx_pkt, epc, usb_reqs>>, Calls' = Calls,
                   OutFirst' => OutFirst
            PROVE  CountInv'
    <2>1. \A c, r, p \in Nat : c + r + p <= c + r + p
      OBVIOUS
    <2>2. Calls' + ToRenew' + ToPoke' <= Calls + ToRenew + ToPoke
      BY <1>1, <1>quiet, <1>kept, <2>1, Zenon
    <2> QED BY <1>same, <1>quiet, <2>2
  <1>3. CASE EthStep
    <2>1. Calls' + ToRenew' + ToPoke' <= Calls + ToRenew + ToPoke
      BY <1>3, EthCount
    <2>2. OutFirst' => OutFirst
      <3>1. CASE UNCHANGED evq
        BY <3>1 DEF OutFirst
      <3>2. CASE EthTxCallback \/ EthRxPoke
        <4>1. PICK e \in {"renew", "poke"} : Defer(e)
          BY <3>2 DEF EthTxCallback, EthRxPoke
        <4>2. evq' = Append(evq, e) /\ e \in Events /\ e # "out"
          BY <4>1 DEF Defer, Events
        <4> QED BY <4>2, OutFirstAppend
      <3> QED BY <1>3, <3>1, <3>2, EthKeepsUsb
    <2> QED BY <1>same, <2>1, <2>2
  <1>4. ASSUME NEW ep \in Endpoints, TakeEvent(ep),
               UNCHANGED <<tx_reqs, tx_pkt, epc, usb_reqs>>
        PROVE  CountInv'
    <2>1. ep \in Events
      BY DEF Events
    <2>2. Calls' = Calls
      BY <1>4, <2>1, TakeCalls
    <2>3. OutFirst' => OutFirst
      BY <1>4, OutFirstTake
    <2> QED BY <1>quiet, <1>4, <2>2, <2>3
  <1>5. ASSUME NEW e \in {"renew", "poke"}, TakeEvent(e),
               UNCHANGED <<tx_reqs, tx_pkt, epc, usb_reqs>>
        PROVE  CountInv'
    <2>1. e \in Events /\ e \notin Endpoints
      BY DEF Events, Endpoints
    <2>2. Calls = Calls' + 1
      BY <1>5, <2>1, TakeCalls
    <2>3. \A c1, c0, r, p \in Nat : c0 = c1 + 1 /\ c0 + r + p <= max + 1 => c1 + r + p <= max
      BY <1>1
    <2>4. Calls' + ToRenew' + ToPoke' <= max
      BY <1>1, <1>2, <1>5, <1>kept, <2>2, <2>3, Zenon
    <2> QED BY <1>few, <2>4
  <1>accept. ASSUME recv_cb, UNCHANGED <<ethVars, usb_reqs>>
             PROVE  \/ UNCHANGED <<tx_reqs, tx_pkt, epc, usb_reqs>>
                    \/ ToRenew' = ToRenew + 1 /\ ToPoke' = ToPoke
    <2>1. UNCHANGED <<tx_pkt, epc, usb_reqs>>
      BY <1>accept DEF ethVars
    <2>2. CASE UNCHANGED tx_reqs
      BY <2>1, <2>2
    <2>3. ASSUME NEW p \in pool, tx_reqs' = Append(tx_reqs, p)
          PROVE  ToRenew' = ToRenew + 1 /\ ToPoke' = ToPoke
      <3>1. tx_reqs \in Seq(Packets) /\ p \in Packets /\ Len(tx_reqs) \in Nat
        BY DEF BufferTypes
      <3>2. Len(tx_reqs') = Len(tx_reqs) + 1
        BY <2>3, <3>1, AppendQueue
      <3>3. TxBusy' <=> TxBusy
        BY <2>1 DEF TxBusy
      <3>4. ToRenew' = ToRenew + 1
        BY <3>1, <3>2, <3>3 DEF ToRenew
      <3> QED BY <2>1, <3>4 DEF ToPoke
    <2> QED BY <1>accept, <2>1, <2>2, <2>3 DEF recv_cb
  <1>6. CASE UsbDatagram
    <2>1. TakeEvent("out") /\ recv_cb /\ UNCHANGED <<ethVars, usb_reqs>>
      BY <1>6 DEF UsbDatagram
    <2>2. "out" \in Events /\ "out" \in Endpoints
      BY DEF Events, Endpoints
    <2>3. CASE UNCHANGED <<tx_reqs, tx_pkt, epc, usb_reqs>>
      BY <1>4, <2>1, <2>2, <2>3
    <2>4. CASE ToRenew' = ToRenew + 1 /\ ToPoke' = ToPoke
      <3>1. Calls' = Calls
        BY <2>1, <2>2, TakeCalls
      <3>2. OutFirst
        <4>1. evq \in Seq(Events) /\ evq # <<>> /\ Head(evq) = "out"
          BY <2>1 DEF TakeEvent, BufferTypes
        <4>2. 1 \in DOMAIN evq /\ evq[1] = "out" /\ \A j \in DOMAIN evq : ~(j < 1)
          BY <4>1
        <4> QED BY <4>2 DEF OutFirst
      <3>3. ~OutFirst'
        BY <2>1, <2>2, TakeTickets DEF OutFirst, Range
      <3>4. \A c1, c0, r1, r0, p1, p0 \in Nat :
              c1 = c0 /\ r1 = r0 + 1 /\ p1 = p0 /\ c0 + r0 + p0 <= max
                => c1 + r1 + p1 <= max + 1
        BY <1>1
      <3>5. Calls' + ToRenew' + ToPoke' <= max + 1
        BY <1>1, <1>2, <2>4, <3>1, <3>2, <3>4, Zenon
      <3> QED BY <1>more, <3>3, <3>5
    <2> QED BY <1>accept, <2>1, <2>3, <2>4
  <1>7. CASE UsbRenew
    <2>1. TakeEvent("renew") /\ UNCHANGED <<ethVars, usb_reqs>>
      BY <1>7 DEF UsbRenew
    <2>2. CASE UNCHANGED <<tx_reqs, tx_pkt, epc, usb_reqs>>
      BY <1>5, <2>1, <2>2
    <2>3. CASE stalled /\ ToRenew' = ToRenew + 1 /\ ToPoke' = ToPoke
      <3>1. "renew" \in Events /\ "renew" \notin Endpoints
        BY DEF Events, Endpoints
      <3>2. Calls = Calls' + 1
        BY <2>1, <3>1, TakeCalls
      <3>3. "out" \notin Range(evq')
        BY <2>1, <2>3, <3>1, TakeTickets DEF Tickets
      <3>4. ~OutFirst'
        BY <3>3 DEF OutFirst, Range
      <3>5. \A c1, c0, r1, r0, p1, p0 \in Nat :
              c0 = c1 + 1 /\ r1 = r0 + 1 /\ p1 = p0 /\ c0 + r0 + p0 <= max + 1
                => c1 + r1 + p1 <= max + 1
        BY <1>1
      <3>6. Calls' + ToRenew' + ToPoke' <= max + 1
        BY <1>1, <1>2, <2>3, <3>2, <3>5, Zenon
      <3> QED BY <1>more, <3>4, <3>6
    <2>4. UNCHANGED <<tx_reqs, tx_pkt, epc, usb_reqs>> \/ (stalled /\ recv_cb)
      BY <1>7 DEF UsbRenew, ethVars
    <2> QED BY <1>accept, <2>1, <2>2, <2>3, <2>4
  <1>8. CASE UsbPoke
    <2>1. TakeEvent("poke") /\ UNCHANGED <<tx_reqs, tx_pkt, epc, usb_reqs>>
      BY <1>8 DEF UsbPoke, ethVars
    <2> QED BY <1>5, <2>1
  <1>9. CASE UsbDropDatagram \/ UsbInDone \/ UsbHid \/ UsbRequest \/ UsbSent
    <2>1. \E ep \in Endpoints : TakeEvent(ep)
      BY <1>9 DEF UsbDropDatagram, UsbInDone, UsbHid, UsbRequest, UsbSent, Commands, Endpoints
    <2>2. UNCHANGED <<tx_reqs, tx_pkt, epc, usb_reqs>>
      BY <1>9 DEF UsbDropDatagram, UsbInDone, UsbHid, UsbRequest, UsbSent, ethVars
    <2> QED BY <1>4, <2>1, <2>2
  <1>10. CASE UsbHidDone \/ MacphyInterrupt \/ UNCHANGED vars
    <2>1. UNCHANGED <<tx_reqs, tx_pkt, epc, usb_reqs, evq>>
      BY <1>10 DEF UsbHidDone, MacphyInterrupt, vars, ethVars, usbVars
    <2>2. Calls' = Calls /\ (OutFirst' => OutFirst)
      BY <2>1 DEF Calls, Transfers, OutFirst
    <2> QED BY <1>quiet, <2>1, <2>2
  <1>11. CASE UsbLoop
    <2>1. upc = "loop" /\ UNCHANGED evq
      BY <1>11 DEF UsbLoop
    <2>2. Range(evq') \subseteq Endpoints
      BY <2>1 DEF CallsFirst
    <2>3. FewOwed'
      BY NoCallsOwed, PTL
    <2>4. Calls' + ToRenew' + ToPoke' <= max
      BY <2>2, <2>3 DEF max, FewOwed
    <2> QED BY <1>few, <2>4
  <1>12. ASSUME NEW ep \in Endpoints, HostTransfer(ep)
         PROVE  CountInv'
    <2>1. UNCHANGED <<tx_reqs, tx_pkt, epc, usb_reqs>> /\ Calls' = Calls
      BY <1>12, TransferCalls DEF HostTransfer, ethVars
    <2>2. evq' = Append(evq, ep) /\ ep \in Events
      BY <1>12, TransferTickets DEF Events
    <2>3. CASE OutFirst' => OutFirst
      BY <1>quiet, <2>1, <2>3
    <2>4. CASE Range(evq) \subseteq Endpoints
      <3>1. Calls + ToRenew + ToPoke <= max
        BY <2>4, NoCalls DEF max
      <3>2. Calls' + ToRenew' + ToPoke' <= max
        BY <1>kept, <2>1, <3>1
      <3> QED BY <1>few, <3>2
    <2> QED BY <2>2, <2>3, <2>4, OutFirstAppend
  <1> QED BY <1>3, <1>6, <1>7, <1>8, <1>9, <1>10, <1>11, <1>12
          DEF Next, UsbStep, Environment

\* As long as the events stay within the room there is for them.
LEMMA CountEnough ==
  ASSUME BufferTypes, Tickets, InUse, CountInv, EvqRoom
  PROVE  EvqHasRoom
  <1>1. /\ Calls \in Nat /\ ToRenew \in Nat /\ ToPoke \in Nat /\ Len(evq) \in Nat
        /\ IsFiniteSet(Transfers) /\ Cardinality(Transfers) \in Nat
        /\ REQ_SIZE \in Nat /\ EVQ_SIZE \in Nat
    BY CountTypes
  <1>2. Used \subseteq Endpoints /\ IsFiniteSet(Used) /\ Cardinality(Used) \in Nat
    <2>1. Used \subseteq Endpoints
      BY SizeAssumption DEF Used, Endpoints, SizeAssumption
    <2> QED BY <2>1, EndpointsFinite, FS_Subset, FS_CardinalityType
  <1>3. Transfers \subseteq Used
    BY DEF InUse, Transfers
  <1>4. Cardinality(Transfers) <= Cardinality(Used)
    BY <1>2, <1>3, FS_Subset
  <1>5. ASSUME NEW ep \in armed
        PROVE  Cardinality(Transfers) <= Cardinality(Used) - 1
    <2>1. ep \in Used /\ ep \notin Range(evq)
      BY <1>2 DEF InUse, Tickets
    <2>2. Transfers \subseteq Used \ {ep}
      BY <1>3, <2>1 DEF Transfers
    <2>3. IsFiniteSet(Used \ {ep}) /\ Cardinality(Used \ {ep}) = Cardinality(Used) - 1
      BY <1>2, <2>1, FS_RemoveElement
    <2> QED BY <2>2, <2>3, FS_Subset
  <1>6. Len(evq) = Calls + Cardinality(Transfers)
    BY <1>1 DEF Calls
  <1>7. /\ Calls + ToRenew + ToPoke <= 2 * REQ_SIZE + 3
        /\ EVQ_SIZE >= (2 * REQ_SIZE + 3) + Cardinality(Used)
    BY DEF CountInv, EvqRoom
  <1>8. CASE armed # {}
    <2>1. Cardinality(Transfers) <= Cardinality(Used) - 1
      BY <1>5, <1>8
    <2>2. Len(evq) < EVQ_SIZE
      BY <1>1, <1>2, <1>6, <1>7, <2>1
    <2> QED BY <2>2 DEF EvqHasRoom
  <1>9. CASE epc \in {"txcb", "errcb", "poke"}
    <2>1. ToRenew >= 1 \/ ToPoke >= 1
      <3>1. Len(tx_reqs) \in Nat /\ Len(usb_reqs) \in Nat /\ Len(usb_reqs) <= REQ_SIZE
        BY DEF BufferTypes
      <3>2. CASE epc = "poke"
        BY <1>1, <3>1, <3>2 DEF ToPoke
      <3>3. CASE epc \in {"txcb", "errcb"}
        <4>1. TxBusy
          BY <3>3 DEF TxBusy
        <4> QED BY <3>1, <4>1 DEF ToRenew
      <3> QED BY <1>9, <3>2, <3>3
    <2>2. Len(evq) < EVQ_SIZE
      BY <1>1, <1>2, <1>4, <1>6, <1>7, <2>1
    <2> QED BY <2>2 DEF EvqHasRoom
  <1> QED BY <1>8, <1>9 DEF EvqHasRoom

\* The end of an IN transfer is never lost.
LEMMA InAliveStep ==
  ASSUME BufferTypes, Tickets, InAlive, EvqHasRoom, [Next]_vars
  PROVE  InAlive'
  <1>1. CASE UNCHANGED <<evq, armed, in_ntbs>>
    BY <1>1 DEF InAlive
  <1>2. ASSUME UNCHANGED in_ntbs, "in" \in armed => "in" \in armed',
               "in" \in Range(evq) => "in" \in Range(evq')
        PROVE  InAlive'
    BY <1>2 DEF InAlive
  <1>3. CASE EthTxCallback \/ EthRxPoke
    <2>1. PICK e \in {"renew", "poke"} : Defer(e)
      BY <1>3 DEF EthTxCallback, EthRxPoke
    <2>2. "in" \in Range(evq) => "in" \in Range(evq')
      BY <2>1, DeferTickets
    <2>3. UNCHANGED <<armed, in_ntbs>>
      BY <1>3, EthKeepsUsb DEF EthStep
    <2> QED BY <1>2, <2>2, <2>3
  <1>4. CASE EthStep
    BY <1>1, <1>3, <1>4, EthKeepsUsb
  <1>5. CASE \/ UsbDatagram \/ UsbDropDatagram \/ UsbRenew \/ UsbPoke
             \/ UsbHid \/ UsbRequest \/ UsbSent
    <2>1. PICK e \in Events \ {"in"} : TakeEvent(e)
      BY <1>5, OtherEvents DEF UsbDatagram, UsbRenew, Events, Endpoints
    <2>2. "in" \in Range(evq) => "in" \in Range(evq')
      BY <2>1, TakeTickets
    <2>3. UNCHANGED in_ntbs /\ armed \subseteq armed'
      BY <1>5, OtherEvents DEF UsbDatagram, UsbRenew, recv_cb
    <2> QED BY <1>2, <2>2, <2>3
  <1>6. CASE UsbInDone
    BY <1>6 DEF UsbInDone, InAlive
  <1>7. CASE UsbHidDone
    BY <1>2, <1>7 DEF UsbHidDone
  <1>8. CASE UsbLoop
    <2>1. UNCHANGED evq
      BY <1>8 DEF UsbLoop
    <2>2. CASE UNCHANGED <<in_ntbs, armed>>
      BY <1>1, <2>1, <2>2
    <2>3. CASE armed' = IF in_ntbs = 0 THEN armed \cup {"in"} ELSE armed
      <3>1. CASE in_ntbs = 0
        BY <2>3, <3>1 DEF InAlive
      <3>2. CASE in_ntbs # 0
        <4>1. in_ntbs > 0
          BY <3>2 DEF BufferTypes
        <4> QED BY <2>1, <2>3, <3>2, <4>1 DEF InAlive
      <3> QED BY <3>1, <3>2
    <2> QED BY <1>8, <2>2, <2>3 DEF UsbLoop
  <1>9. ASSUME NEW ep \in Endpoints, HostTransfer(ep)
        PROVE  InAlive'
    <2>1. UNCHANGED in_ntbs
      BY <1>9 DEF HostTransfer
    <2> QED BY <1>9, <2>1, TransferTickets DEF InAlive
  <1>10. CASE MacphyInterrupt \/ UNCHANGED vars
    BY <1>1, <1>10 DEF MacphyInterrupt, vars, usbVars
  <1> QED BY <1>4, <1>5, <1>6, <1>7, <1>8, <1>9, <1>10 DEF Next, UsbStep, Environment

\* A frame for the host keeps something that makes usb_task look at it.
LEMMA FrameStep ==
  ASSUME BufferTypes, Tickets, EvqHasRoom, InAlive', FrameHasWakeup, [Next]_vars
  PROVE  FrameHasWakeup'
  <1>1. CASE evq' # <<>> \/ upc' # "tud" \/ epc' = "poke"
    BY <1>1 DEF FrameHasWakeup
  <1>2. CASE UNCHANGED <<evq, upc, armed, in_ntbs, usb_reqs, usb_pkt>>
             /\ (epc = "poke" => epc' = "poke")
    BY <1>2 DEF FrameHasWakeup, HostHeld
  <1>3. ASSUME NEW e \in Events, evq' = Append(evq, e)
        PROVE  evq' # <<>>
    <2>1. Append(evq, e) \in Seq(Events) /\ Len(Append(evq, e)) = Len(evq) + 1
          /\ Len(evq) \in Nat
      BY AppendQueue DEF BufferTypes
    <2>2. Append(evq, e) # <<>>
      BY <2>1
    <2> QED BY <1>3, <2>2
  <1>4. CASE EthTxCallback \/ EthRxPoke
    <2>1. PICK e \in {"renew", "poke"} : Defer(e)
      BY <1>4 DEF EthTxCallback, EthRxPoke
    <2> QED BY <1>1, <1>3, <2>1 DEF Defer, Events
  <1>5. CASE EthRxCallback
    <2>1. epc = "rxcb" /\ (epc' = "poke" \/ UNCHANGED usb_reqs)
      BY <1>5 DEF EthRxCallback, Goto
    <2>2. UNCHANGED <<evq, upc, armed, in_ntbs, usb_pkt>>
      BY <1>5 DEF EthRxCallback, usbVars
    <2> QED BY <1>1, <1>2, <2>1, <2>2
  <1>6. CASE EthStep /\ ~EthTxCallback /\ ~EthRxPoke /\ ~EthRxCallback
    <2>1. UNCHANGED usb_reqs /\ epc # "poke"
      BY <1>6 DEF EthStep, EthTake, EthInit, EthPull, EthFill, RxQuiet, RxFrame,
             EthRxSwap, swap, RxError, handle_error, RxReset, EthEnd, Goto
    <2> QED BY <1>2, <1>6, <2>1, EthKeepsUsb
  <1>7. CASE \/ UsbDatagram \/ UsbDropDatagram \/ UsbRenew \/ UsbPoke \/ UsbInDone
             \/ UsbHid \/ UsbRequest \/ UsbSent
    <2>1. PICK e \in Events : TakeEvent(e)
      BY <1>7, OtherEvents DEF UsbDatagram, UsbRenew, UsbInDone, Events, Endpoints
    <2>2. upc' \in Commands \/ TudReturns
      BY <1>7, OtherEvents DEF UsbDatagram, UsbRenew, UsbInDone
    <2> QED BY <1>1, <2>1, <2>2 DEF TakeEvent, TudReturns, Commands
  <1>8. CASE UsbHidDone
    BY <1>1, <1>8 DEF UsbHidDone
  <1>9. CASE UsbLoop
    <2>1. NULL \notin Packets /\ usb_reqs \in Seq(Packets)
      BY PoolAssumption DEF BufferTypes, PoolAssumption
    <2>2. CASE next_pkt = NULL /\ usb_pkt' = next_pkt
      <3>1. usb_pkt = NULL /\ usb_reqs = <<>> /\ usb_reqs' = usb_reqs
        BY <1>9, <2>1, <2>2, TailQueue DEF UsbLoop, next_pkt, receives
      <3> QED BY <2>2, <3>1, EmptyQueue DEF FrameHasWakeup, HostHeld
    <2>3. CASE in_ntbs' > 0
      <3>1. "in" \in armed' \/ "in" \in Range(evq')
        BY <2>3 DEF InAlive
      <3>2. "in" \in Range(evq') => evq' # <<>>
        BY EmptyQueue
      <3> QED BY <1>1, <2>3, <3>1, <3>2 DEF FrameHasWakeup
    <2>4. in_ntbs' > 0 \/ (next_pkt = NULL /\ usb_pkt' = next_pkt)
      BY <1>9 DEF UsbLoop
    <2> QED BY <2>2, <2>3, <2>4
  <1>10. ASSUME NEW ep \in Endpoints, HostTransfer(ep)
         PROVE  FrameHasWakeup'
    <2>1. evq' = Append(evq, ep) /\ ep \in Events
      BY <1>10, TransferTickets DEF Events, Endpoints
    <2> QED BY <1>1, <1>3, <2>1
  <1>11. CASE MacphyInterrupt \/ UNCHANGED vars
    BY <1>2, <1>11 DEF MacphyInterrupt, vars, ethVars, usbVars
  <1> QED BY <1>4, <1>5, <1>6, <1>7, <1>8, <1>9, <1>10, <1>11
          DEF Next, UsbStep, Environment

QueueInv == Tickets /\ InUse /\ CallsFirst /\ CountInv /\ InAlive /\ FrameHasWakeup

LEMMA InitQueueInv ==
  ASSUME Init
  PROVE  QueueInv
  <1>1. Tickets
    BY EmptyQueue DEF Init, Tickets, AtMostOnce
  <1>2. CallsFirst
    BY DEF Init, CallsFirst
  <1>3. CountInv
    <2>1. BufferTypes /\ Range(evq) \subseteq Endpoints
      BY InitIInv, EmptyQueue DEF IInv, Init
    <2>2. Calls + ToRenew + ToPoke <= 2 * REQ_SIZE + 2
      BY <1>1, <2>1, NoCalls
    <2>3. Calls \in Nat /\ ToRenew \in Nat /\ ToPoke \in Nat /\ REQ_SIZE \in Nat
      BY <2>1, CountTypes
    <2> QED BY <2>2, <2>3 DEF CountInv
  <1>4. InAlive /\ FrameHasWakeup
    BY EmptyQueue DEF Init, InAlive, FrameHasWakeup, HostHeld
  <1>5. InUse
    BY EmptyQueue DEF Init, InUse, Used, Commands
  <1> QED BY <1>1, <1>2, <1>3, <1>4, <1>5 DEF QueueInv

LEMMA QueueInvariance ==
  ASSUME EvqRoom
  PROVE  Spec => [](IInv /\ QueueInv /\ EvqHasRoom)
  <1>1. Init => IInv /\ QueueInv
    BY InitIInv, InitQueueInv
  <1>2. ASSUME IInv, QueueInv, [Next]_vars
        PROVE  IInv' /\ QueueInv'
    <2>1. IInv'
      BY <1>2, NextIInv
    <2>2. EvqHasRoom
      BY <1>2, CountEnough DEF IInv, QueueInv
    <2>3. Tickets'
      BY <1>2, <2>2, TicketsStep DEF IInv, QueueInv
    <2>4. CallsFirst'
      BY <1>2, <2>2, CallsFirstStep DEF IInv, QueueInv
    <2>5. CountInv'
      BY <1>2, <2>1, <2>2, <2>3, CountStep DEF IInv, QueueInv
    <2>6. InAlive'
      BY <1>2, <2>2, InAliveStep DEF IInv, QueueInv
    <2>7. FrameHasWakeup'
      BY <1>2, <2>2, <2>6, FrameStep DEF IInv, QueueInv
    <2>8. InUse'
      BY <1>2, <2>2, InUseStep DEF IInv, QueueInv
    <2> QED BY <2>1, <2>3, <2>4, <2>5, <2>6, <2>7, <2>8 DEF QueueInv
  <1>3. IInv /\ QueueInv /\ [Next]_vars => IInv' /\ QueueInv'
    BY <1>2
  <1>4. IInv /\ QueueInv => EvqHasRoom
    BY CountEnough DEF IInv, QueueInv
  <1> QED BY <1>1, <1>3, <1>4, PTL DEF Spec

\* While the bus stays active and control requests end before the next, TinyUSB's
\* event queue has room for every event and every deferred call, so that eth_task
\* never waits for it with the callbacks' lock held and no interrupt's event is
\* lost, if it is as long as the calls the two packet queues can owe, three more,
\* and one event per endpoint in use.
THEOREM EvqCorrect == ASSUME EvqRoom PROVE Spec => []EvqHasRoom
  BY QueueInvariance, PTL

\* And then a frame for the host always has something left to wake usb_task.
THEOREM FrameWakeupCorrect == ASSUME EvqRoom PROVE Spec => []FrameHasWakeup
  <1>1. QueueInv => FrameHasWakeup
    BY DEF QueueInv
  <1> QED BY <1>1, QueueInvariance, PTL
=============================================================================
