------------------------------ MODULE EthBridge ------------------------------
(***************************************************************************)
(* The packet path of the USB <-> 10BASE-T1 bridge, nxp/lpc1549_oaspi:     *)
(* the packet pool and the MACPHY task of src/eth.cpp composed with the    *)
(* USB task of src/usb.cpp, their two queues, the task notification, the   *)
(* TX and RX callbacks and the TinyUSB device event queue.                 *)
(*                                                                         *)
(* Scheduling.  FreeRTOS runs usb_task at configMAX_PRIORITIES - 1 and     *)
(* eth_task one below, on one core.  usb_task therefore handles an event   *)
(* without eth_task running in between, and eth_task takes a step only     *)
(* while usb_task is blocked: in tud_task() with no event queued, or       *)
(* inside a HID register command, whose SPI transfer and retry delay       *)
(* block.  Between any two steps of eth_task an interrupt can wake         *)
(* usb_task, so eth_task is split at every access to something shared.     *)
(*                                                                         *)
(* A packet is the identity of its buffer.  What a chunk carries is        *)
(* abstracted to what it does to the buffers: a TX packet is a number of   *)
(* chunks, and a received chunk is quiet, ends a good frame, is in error   *)
(* or reports a reset.  OaspiTx and OaspiRx model the chunks themselves.   *)
(*                                                                         *)
(* The bus stays configured and active, and the host lets a control        *)
(* request end before it sends another: TinyUSB's events are then the      *)
(* completions of the six endpoints and the deferred calls.  A reset,      *)
(* suspend or resume would be one more event each time the host does it.   *)
(***************************************************************************)
EXTENDS Naturals, Sequences, FiniteSets, Functions

CONSTANTS
  Packets,      \* data_.pool_items: the POOL_SIZE packet buffers
  NULL,         \* the null Packet pointer
  REQ_SIZE,     \* capacity of tx_.reqs and of the USB task's data_.reqs
  EVQ_SIZE,     \* capacity of TinyUSB's device event queue
  PKT_CHUNKS,   \* chunks of the longest packet
  MAX_CHUNKS,   \* chunks in one SPI data transfer
  CREDITS,      \* the largest TXC a footer reports
  IN_NTBS,      \* CFG_TUD_NCM_IN_NTB_N
  HOST_USES,    \* what may come first: "out", datagrams; "hid", register
                \* commands; "ctrl", requests on the control endpoint;
                \* "notif", the end of the link notification
  MACPHY_USES,  \* "pending": footers report chunks pending; "interrupt": its
                \* interrupt pin.  Both only cut the wait of eth_task short.
  MIN_LATENCY   \* CONFIG_ETH_MIN_LATENCY is defined

ASSUME PoolAssumption ==
  /\ IsFiniteSet(Packets)
  /\ NULL \notin Packets
  /\ REQ_SIZE \in Nat \ {0}
  /\ Cardinality(Packets) >= REQ_SIZE + 4

ASSUME SizeAssumption ==
  /\ EVQ_SIZE \in Nat \ {0}
  /\ PKT_CHUNKS \in Nat \ {0}
  /\ MAX_CHUNKS \in Nat \ {0}
  /\ CREDITS \in Nat \ {0}
  /\ IN_NTBS \in Nat \ {0}
  /\ HOST_USES \subseteq {"out", "hid", "ctrl", "notif"}
  /\ MACPHY_USES \subseteq {"pending", "interrupt"}
  /\ MIN_LATENCY \in BOOLEAN
  /\ MIN_LATENCY => MAX_CHUNKS >= PKT_CHUNKS

VARIABLES
  pool,       \* free buffers
  tx_reqs,    \* tx_.reqs, packets the host wants sent
  tx_pkt,     \* tx_.pkt, the packet being cut into chunks
  tx_len,     \* tx_.len in chunks, 0 when there is no packet
  tx_free,    \* tx_.free_chunks, the credits of the last footer
  rx_pkt,     \* rx_.pkt, the buffer receiving a frame
  rx_new,     \* the local rx_new of add_rx_buffer
  rx_pend,    \* rx_.pend_chunks # 0
  init_good,  \* task_.init_good
  error,      \* task_.error
  notified,   \* the configNOTIF_ETH notification value is nonzero
  num,        \* received chunks still to be processed of this transfer
  epc,        \* where eth_task is
  usb_reqs,   \* data_.reqs, packets for the host
  usb_pkt,    \* data_.pkt, the packet being handed to the host
  evq,        \* TinyUSB's event queue
  upc,        \* where usb_task is: "tud", "loop", or in a register command
              \* of the endpoint "hid" or "ctrl"
  stalled,    \* TinyUSB holds a datagram tud_network_recv_cb refused
  armed,      \* the endpoints whose transfer the host may complete
  in_ntbs     \* IN transfer blocks handed to the controller and not done

ethVars == <<tx_pkt, tx_len, tx_free, rx_pkt, rx_new, rx_pend, init_good,
             error, num, epc>>
usbVars == <<usb_pkt, upc, stalled, armed, in_ntbs>>
vars == <<pool, tx_reqs, usb_reqs, evq, notified, ethVars, usbVars>>

\* EP_NET_OUT, EP_NET_IN, EP_HID_OUT, EP_HID_IN, the control endpoint and
\* EP_NET_NOTIF.  A register command is an output report, which the host may
\* also send in a control request.
Endpoints == {"out", "in", "hid", "hid_in", "ctrl", "notif"}
Commands == {"hid", "ctrl"}
Events == {"renew", "poke"} \cup Endpoints
EthPCs == {"take", "init", "pull", "fill", "txcb", "rx", "rxcb", "poke",
           "swap", "untaken", "errcb", "end"}

Min2(a, b) == IF a < b THEN a ELSE b
Max2(a, b) == IF a > b THEN a ELSE b

-----------------------------------------------------------------------------
(* Scheduling and the FreeRTOS and TinyUSB services used. *)

\* usb_task is not ready to run, so eth_task is.
UsbBlocked == upc \in Commands \/ (upc = "tud" /\ evq = <<>>)

\* usbd_defer_func(f, arg, false): waits while the event queue is full.
Defer(e) == Len(evq) < EVQ_SIZE /\ evq' = Append(evq, e)

\* dcd_event_handler() in the USB interrupt, which loses an event there is no
\* room for.
Interrupt(e) == evq' = IF Len(evq) < EVQ_SIZE THEN Append(evq, e) ELSE evq

\* Eth::pkt_free and the buffers Eth::pkt_alloc(false) may return.
pkt_free(p) == pool' = pool \cup {p}

-----------------------------------------------------------------------------
Init ==
  /\ rx_pkt \in Packets           \* allocated by the Eth constructor
  /\ pool = Packets \ {rx_pkt}
  /\ tx_reqs = <<>> /\ usb_reqs = <<>> /\ evq = <<>>
  /\ tx_pkt = NULL /\ tx_len = 0 /\ tx_free = 0
  /\ rx_new = NULL /\ rx_pend = FALSE
  /\ init_good = FALSE /\ error = FALSE /\ notified = FALSE
  /\ num = 0 /\ epc = "init"
  /\ usb_pkt = NULL /\ upc = "tud" /\ stalled = FALSE
  /\ armed = HOST_USES /\ in_ntbs = 0

-----------------------------------------------------------------------------
(* eth_task *)

Goto(from, to) == UsbBlocked /\ epc = from /\ epc' = to

\* Round the loop again: the MACPHY is initialised first if need be.
LoopTop == IF init_good THEN "pull" ELSE "init"

\* The notification wait of the loop: a give, or the 100 ms timeout.
EthTake ==
  /\ Goto("take", LoopTop)
  /\ notified' = FALSE
  /\ UNCHANGED <<pool, tx_reqs, usb_reqs, evq, usbVars, tx_pkt, tx_len,
                 tx_free, rx_pkt, rx_new, rx_pend, init_good, error, num>>

\* OASPI::reset succeeds, or it failed and the loop goes round again.
EthInit ==
  /\ \/ Goto("init", "pull") /\ init_good' = TRUE /\ UNCHANGED error
     \/ Goto("init", "init") /\ error' = TRUE /\ UNCHANGED init_good
  /\ UNCHANGED <<pool, tx_reqs, usb_reqs, evq, notified, usbVars, tx_pkt,
                 tx_len, tx_free, rx_pkt, rx_new, rx_pend, num>>

\* Mutant: the next packet is pulled whether or not one is in progress.
EthPull_always ==
  /\ Goto("pull", "fill")
  /\ IF tx_reqs # <<>>
       THEN /\ tx_pkt' = Head(tx_reqs)
            /\ tx_reqs' = Tail(tx_reqs)
            /\ tx_len' \in 1..PKT_CHUNKS
       ELSE UNCHANGED <<tx_pkt, tx_reqs, tx_len>>
  /\ UNCHANGED <<pool, usb_reqs, evq, notified, usbVars, tx_free, rx_pkt,
                 rx_new, rx_pend, init_good, error, num>>

\* Start on the next queued packet, of any length, if none is in progress.
EthPull ==
  /\ Goto("pull", "fill")
  /\ IF tx_pkt = NULL /\ tx_reqs # <<>>
       THEN /\ tx_pkt' = Head(tx_reqs)
            /\ tx_reqs' = Tail(tx_reqs)
            /\ tx_len' \in 1..PKT_CHUNKS
       ELSE UNCHANGED <<tx_pkt, tx_reqs, tx_len>>
  /\ UNCHANGED <<pool, usb_reqs, evq, notified, usbVars, tx_free, rx_pkt,
                 rx_new, rx_pend, init_good, error, num>>

\* Chunks wanted for the packet in progress, chunks it gets in this
\* transfer, and the length of the transfer.
tx_prefer == IF tx_pkt = NULL THEN 0 ELSE tx_len

\* Mutant: the credits of the MACPHY are not looked at.
tx_chunks_uncredited == tx_prefer

tx_chunks == IF MIN_LATENCY
               THEN IF tx_free >= tx_prefer THEN tx_prefer ELSE 0
               ELSE Min2(tx_free, tx_prefer)
num_chunks(r) == Min2(Max2(Max2(tx_chunks, r), 1), MAX_CHUNKS)

\* One chunk, or what the last footer reported pending.
rx_chunks == IF MIN_LATENCY THEN {1} ELSE IF rx_pend THEN 1..MAX_CHUNKS ELSE {0}

\* Cut the transfer's n chunks from the packet.  Its last chunk frees it, and
\* the TX callbacks come after that.
EthFill(n) ==
  LET sent == Min2(n, tx_chunks)
      done == tx_pkt # NULL /\ sent = tx_len
  IN /\ \E r \in rx_chunks : n = num_chunks(r)
     /\ Goto("fill", IF done THEN "txcb" ELSE "rx")
     /\ num' = n
     /\ tx_len' = tx_len - sent
     /\ tx_free' = tx_free - sent
     /\ IF done THEN pkt_free(tx_pkt) /\ tx_pkt' = NULL
                ELSE UNCHANGED <<pool, tx_pkt>>
     /\ UNCHANGED <<tx_reqs, usb_reqs, evq, notified, usbVars, rx_pkt, rx_new,
                    rx_pend, init_good, error>>

\* usb_eth_tx_cb, from fill_tx_chunk or from handle_error.
EthTxCallback ==
  /\ \/ Goto("txcb", "rx")
     \/ Goto("errcb", "end")
  /\ Defer("renew")
  /\ UNCHANGED <<pool, tx_reqs, usb_reqs, notified, usbVars, tx_pkt, tx_len,
                 tx_free, rx_pkt, rx_new, rx_pend, init_good, error, num>>

\* The rest of process_rx_chunk for a chunk that passed its checks.
ChunkDone(txc, rca) ==
  /\ error' = FALSE
  /\ tx_free' = txc
  /\ rx_pend' = rca
  /\ num' = num - 1

\* What RCA # 0 may be in a footer.
pending == {FALSE, "pending" \in MACPHY_USES}

\* A good chunk that ends no frame, or ends one that is dropped.
RxQuiet(txc, rca) ==
  /\ Goto("rx", IF num = 1 THEN "end" ELSE "rx")
  /\ ChunkDone(txc, rca)
  /\ UNCHANGED <<pool, tx_reqs, usb_reqs, evq, notified, usbVars, tx_pkt,
                 tx_len, rx_pkt, rx_new, init_good>>

\* A good chunk that ends an intact frame while there is a buffer to replace
\* the one the frame is in.
RxFrame(txc, rca) ==
  /\ Goto("rx", "rxcb")
  /\ ChunkDone(txc, rca)
  /\ \E p \in pool : rx_new' = p /\ pool' = pool \ {p}
  /\ UNCHANGED <<tx_reqs, usb_reqs, evq, notified, usbVars, tx_pkt, tx_len,
                 rx_pkt, init_good>>

\* usb_eth_rx_cb: queue the frame for the host if there is room.
EthRxCallback ==
  /\ IF Len(usb_reqs) < REQ_SIZE
       THEN Goto("rxcb", "poke") /\ usb_reqs' = Append(usb_reqs, rx_pkt)
       ELSE Goto("rxcb", "untaken") /\ UNCHANGED usb_reqs
  /\ UNCHANGED <<pool, tx_reqs, evq, notified, usbVars, tx_pkt, tx_len,
                 tx_free, rx_pkt, rx_new, rx_pend, init_good, error, num>>

\* The empty deferred call that wakes usb_task; mutant: it is left out.
EthRxPoke_silent ==
  /\ Goto("poke", "swap")
  /\ UNCHANGED <<pool, tx_reqs, usb_reqs, evq, notified, usbVars, tx_pkt, tx_len,
                 tx_free, rx_pkt, rx_new, rx_pend, init_good, error, num>>

EthRxPoke ==
  /\ Goto("poke", "swap")
  /\ Defer("poke")
  /\ UNCHANGED <<pool, tx_reqs, usb_reqs, notified, usbVars, tx_pkt, tx_len,
                 tx_free, rx_pkt, rx_new, rx_pend, init_good, error, num>>

\* Receive the next frame in the new buffer.
swap(from) ==
  /\ Goto(from, IF num = 0 THEN "end" ELSE "rx")
  /\ rx_pkt' = rx_new
  /\ rx_new' = NULL
  /\ UNCHANGED <<tx_reqs, usb_reqs, evq, notified, usbVars, tx_pkt, tx_len,
                 tx_free, rx_pend, init_good, error, num>>

\* Mutant: the old buffer is freed whoever has it.
EthRxSwap_frees == (swap("swap") \/ swap("untaken")) /\ pkt_free(rx_pkt)

\* The old one belongs to the callback that took it, or is freed if none did.
EthRxSwap == \/ swap("swap") /\ UNCHANGED pool
             \/ swap("untaken") /\ pkt_free(rx_pkt)

\* handle_error: the packet in progress is dropped and its transfer ends.
handle_error(next) ==
  /\ Goto("rx", next)
  /\ error' = TRUE
  /\ num' = 0
  /\ tx_pkt' = NULL /\ tx_len' = 0
  /\ IF tx_pkt = NULL THEN UNCHANGED pool ELSE pkt_free(tx_pkt)
  /\ UNCHANGED <<tx_reqs, usb_reqs, evq, notified, usbVars, tx_free, rx_pkt,
                 rx_new, rx_pend, init_good>>

\* Mutants: the callbacks are not called for a dropped packet; they are called
\* even if there was no packet.
RxError_silent == handle_error("end")
RxError_calls == handle_error("errcb")

\* The callbacks follow if there was a packet.
RxError == handle_error(IF tx_pkt = NULL THEN "end" ELSE "errcb")

\* handle_reset: the MACPHY must be initialised again.
RxReset ==
  /\ Goto("rx", "end")
  /\ error' = TRUE
  /\ init_good' = FALSE
  /\ tx_free' = 1
  /\ num' = 0
  /\ UNCHANGED <<pool, tx_reqs, usb_reqs, evq, notified, usbVars, tx_pkt,
                 tx_len, rx_pkt, rx_new, rx_pend>>

\* The end of the loop body: wait only when neither direction has work.
EthEnd ==
  /\ Goto("end", IF /\ init_good /\ ~error
                    /\ tx_reqs = <<>>
                    /\ tx_pkt = NULL \/ tx_free = 0
                    /\ ~rx_pend
                   THEN "take" ELSE LoopTop)
  /\ UNCHANGED <<pool, tx_reqs, usb_reqs, evq, notified, usbVars, tx_pkt,
                 tx_len, tx_free, rx_pkt, rx_new, rx_pend, init_good, error, num>>

EthStep ==
  \/ EthTake \/ EthInit \/ EthPull
  \/ \E n \in 1..MAX_CHUNKS : EthFill(n)
  \/ EthTxCallback
  \/ \E txc \in 0..CREDITS, rca \in pending : RxQuiet(txc, rca) \/ RxFrame(txc, rca)
  \/ EthRxCallback \/ EthRxPoke \/ EthRxSwap
  \/ RxError \/ RxReset \/ EthEnd

-----------------------------------------------------------------------------
(* usb_task, and the host behind the USB interrupt *)

\* A transfer the controller was armed for completes.  "out" brings a
\* datagram, "in" took a block of datagrams, "hid" brings an output report,
\* "hid_in" took the answer to one, "ctrl" brings a stage of a control request
\* and "notif" took a notification.
HostTransfer(ep) ==
  /\ ep \in armed
  /\ armed' = armed \ {ep}
  /\ Interrupt(ep)
  /\ UNCHANGED <<pool, tx_reqs, usb_reqs, notified, ethVars, usb_pkt, upc,
                 stalled, in_ntbs>>

\* The MACPHY's interrupt pin.
MacphyInterrupt ==
  /\ "interrupt" \in MACPHY_USES /\ ~notified
  /\ notified' = TRUE
  /\ UNCHANGED <<pool, tx_reqs, usb_reqs, evq, ethVars, usbVars>>

\* tud_task() takes the next event, and returns when it was the last.
TakeEvent(e) ==
  /\ upc = "tud" /\ evq # <<>> /\ Head(evq) = e
  /\ evq' = Tail(evq)

TudReturns == upc' = IF Tail(evq) = <<>> THEN "loop" ELSE "tud"

\* Mutant: Eth::send does not notify eth_task.
recv_cb_silent ==
  \/ /\ Len(tx_reqs) < REQ_SIZE
     /\ \E p \in pool : pool' = pool \ {p} /\ tx_reqs' = Append(tx_reqs, p)
     /\ stalled' = FALSE
     /\ armed' = armed \cup {"out"}
     /\ UNCHANGED notified
  \/ /\ pool = {} \/ Len(tx_reqs) = REQ_SIZE
     /\ stalled' = TRUE
     /\ UNCHANGED <<pool, tx_reqs, notified, armed>>

\* tud_network_recv_cb on a datagram of legal size, with Eth::send in it: the
\* datagram is queued and the endpoint armed again, or refused and held.
recv_cb ==
  \/ /\ Len(tx_reqs) < REQ_SIZE
     /\ \E p \in pool : pool' = pool \ {p} /\ tx_reqs' = Append(tx_reqs, p)
     /\ notified' = TRUE
     /\ stalled' = FALSE
     /\ armed' = armed \cup {"out"}
  \/ /\ pool = {} \/ Len(tx_reqs) = REQ_SIZE
     /\ stalled' = TRUE
     /\ UNCHANGED <<pool, tx_reqs, notified, armed>>

UsbDatagram ==
  /\ TakeEvent("out") /\ TudReturns
  /\ recv_cb
  /\ UNCHANGED <<usb_reqs, ethVars, usb_pkt, in_ntbs>>

\* A datagram of illegal size is dropped.
UsbDropDatagram ==
  /\ TakeEvent("out") /\ TudReturns
  /\ armed' = armed \cup {"out"}
  /\ UNCHANGED <<pool, tx_reqs, usb_reqs, notified, ethVars, usb_pkt, stalled,
                 in_ntbs>>

\* usb_eth_tx_renew: TinyUSB offers the held datagram again.
UsbRenew ==
  /\ TakeEvent("renew") /\ TudReturns
  /\ IF stalled THEN recv_cb
                ELSE UNCHANGED <<pool, tx_reqs, notified, stalled, armed>>
  /\ UNCHANGED <<usb_reqs, ethVars, usb_pkt, in_ntbs>>

\* The empty deferred call of usb_eth_rx_cb.
UsbPoke ==
  /\ TakeEvent("poke") /\ TudReturns
  /\ UNCHANGED <<pool, tx_reqs, usb_reqs, notified, ethVars, usb_pkt, stalled,
                 armed, in_ntbs>>

\* A block is done; the next one handed over, if any, follows.
UsbInDone ==
  /\ TakeEvent("in") /\ TudReturns
  /\ in_ntbs' = in_ntbs - 1
  /\ armed' = IF in_ntbs' > 0 THEN armed \cup {"in"} ELSE armed
  /\ UNCHANGED <<pool, tx_reqs, usb_reqs, notified, ethVars, usb_pkt, stalled>>

\* tud_hid_set_report_cb retries its register access until the MACPHY answers.
\* A control request has ended before its report is looked at, so that the next
\* one may come meanwhile.
UsbHid ==
  /\ \E ep \in Commands :
       TakeEvent(ep) /\ upc' = ep /\ armed' = armed \cup ({ep} \cap {"ctrl"})
  /\ UNCHANGED <<pool, tx_reqs, usb_reqs, notified, ethVars, usb_pkt, stalled,
                 in_ntbs>>

\* What tud_hid_report arms: nothing while the report before is under way or
\* its completion is queued; the answer is then lost.
report_armed == {"hid_in"} \ Range(evq)

\* It answers, and TinyUSB arms the OUT endpoint again if it came by that.
UsbHidDone ==
  /\ upc \in Commands
  /\ upc' = IF evq = <<>> THEN "loop" ELSE "tud"
  /\ armed' = armed \cup ({upc} \cap {"hid"}) \cup report_armed
  /\ UNCHANGED <<pool, tx_reqs, usb_reqs, evq, notified, ethVars, usb_pkt,
                 stalled, in_ntbs>>

\* A report that is no register command, which is answered at once or, if it
\* is too short, not at all; and every other control request.
UsbRequest ==
  /\ \E ep \in Commands, answer \in {{}, report_armed} :
       TakeEvent(ep) /\ armed' = armed \cup {ep} \cup answer
  /\ TudReturns
  /\ UNCHANGED <<pool, tx_reqs, usb_reqs, notified, ethVars, usb_pkt, stalled,
                 in_ntbs>>

\* The host has taken the answer to a report, or a notification of the network
\* function, which may have a second to send.
UsbSent ==
  /\ \/ TakeEvent("hid_in") /\ UNCHANGED armed
     \/ TakeEvent("notif") /\ armed' \in {armed, armed \cup {"notif"}}
  /\ TudReturns
  /\ UNCHANGED <<pool, tx_reqs, usb_reqs, notified, ethVars, usb_pkt, stalled,
                 in_ntbs>>

\* The rest of usb_task's loop: take one frame off the queue and give it to
\* TinyUSB, whose tud_network_xmit_cb frees the buffer.  tud_network_can_xmit
\* can refuse only while a block is under way.
\* Mutant: a frame is taken off the queue while another is still in hand.
receives_always == usb_reqs # <<>>

\* xQueueReceive is called and finds a frame.
receives == usb_pkt = NULL /\ usb_reqs # <<>>
next_pkt == IF receives THEN Head(usb_reqs) ELSE usb_pkt

UsbLoop ==
  /\ upc = "loop" /\ upc' = "tud"
  /\ usb_reqs' = IF receives THEN Tail(usb_reqs) ELSE usb_reqs
  /\ \/ /\ next_pkt # NULL
        /\ pkt_free(next_pkt)
        /\ usb_pkt' = NULL
        /\ in_ntbs' \in {n \in 1..IN_NTBS : n = in_ntbs + 1 \/ (n = in_ntbs /\ n > 1)}
        /\ armed' = IF in_ntbs = 0 THEN armed \cup {"in"} ELSE armed
     \/ /\ next_pkt = NULL \/ in_ntbs > 0
        /\ usb_pkt' = next_pkt
        /\ UNCHANGED <<pool, in_ntbs, armed>>
  /\ UNCHANGED <<tx_reqs, evq, notified, ethVars, stalled>>

UsbStep ==
  \/ UsbDatagram \/ UsbDropDatagram \/ UsbRenew \/ UsbPoke \/ UsbInDone
  \/ UsbHid \/ UsbHidDone \/ UsbRequest \/ UsbSent \/ UsbLoop

Environment == MacphyInterrupt \/ \E ep \in Endpoints : HostTransfer(ep)

Next == EthStep \/ UsbStep \/ Environment

Spec == Init /\ [][Next]_vars

-----------------------------------------------------------------------------
(* Properties *)

BufferTypes ==
  /\ pool \in SUBSET Packets
  /\ tx_reqs \in Seq(Packets) /\ Len(tx_reqs) <= REQ_SIZE
  /\ usb_reqs \in Seq(Packets) /\ Len(usb_reqs) <= REQ_SIZE
  /\ evq \in Seq(Events) /\ Len(evq) <= EVQ_SIZE
  /\ tx_pkt \in Packets \cup {NULL} /\ usb_pkt \in Packets \cup {NULL}
  /\ rx_pkt \in Packets /\ rx_new \in Packets \cup {NULL}
  /\ tx_len \in 0..PKT_CHUNKS /\ tx_free \in 0..CREDITS
  /\ num \in 0..MAX_CHUNKS
  /\ epc \in EthPCs /\ upc \in {"tud", "loop"} \cup Commands
  /\ armed \in SUBSET Endpoints /\ in_ntbs \in 0..IN_NTBS

FlagTypes ==
  /\ rx_pend \in BOOLEAN /\ init_good \in BOOLEAN /\ error \in BOOLEAN
  /\ notified \in BOOLEAN /\ stalled \in BOOLEAN

TypeOK == BufferTypes /\ FlagTypes

\* Who holds which buffers.  Between the callback that takes a frame and the
\* swap, rx_.pkt still points to a buffer that is no longer eth_task's.
TxHeld   == Range(tx_reqs) \cup ({tx_pkt} \ {NULL})
HostHeld == Range(usb_reqs) \cup ({usb_pkt} \ {NULL})
RxHeld   == (IF epc \in {"poke", "swap"} THEN {} ELSE {rx_pkt}) \cup ({rx_new} \ {NULL})

\* Every buffer has exactly one owner at any time: the pool, the TX side, the
\* RX side or the side of the host; none is leaked, freed twice or used by two
\* tasks at once.  It is also why pkt_free's configASSERT never fires: the
\* pool queue never receives more buffers than it has slots.
Ownership ==
  /\ Packets = pool \cup TxHeld \cup RxHeld \cup HostHeld
  /\ pool \cap (TxHeld \cup RxHeld \cup HostHeld) = {}
  /\ TxHeld \cap (RxHeld \cup HostHeld) = {}
  /\ RxHeld \cap HostHeld = {}
  /\ IsInjective(tx_reqs) /\ tx_pkt \notin Range(tx_reqs)
  /\ IsInjective(usb_reqs) /\ usb_pkt \notin Range(usb_reqs)
  /\ rx_new # rx_pkt

\* While TinyUSB holds a refused datagram, something is left that will offer it
\* again: a packet whose completion calls usb_eth_tx_cb, that call itself, or
\* the deferred renew it queued.  usb.cpp refuses a datagram counting on it.
StallHasWakeup ==
  stalled => \/ TxHeld # {}
             \/ epc \in {"txcb", "errcb"}
             \/ "renew" \in Range(evq)

\* eth_task never goes to sleep on a packet it could have started: when it
\* waits with no notification pending, there is no packet queued, the MACPHY is
\* up, and a packet in progress has no credit left.
NoLostWakeup ==
  epc = "take" /\ ~notified =>
    /\ tx_reqs = <<>>
    /\ init_good /\ ~error
    /\ tx_pkt = NULL \/ tx_free = 0

\* A frame waiting for the host never waits for an event that is not coming:
\* usb_task has an event or its loop body to run, an IN transfer is under way,
\* or eth_task is about to defer the call that wakes usb_task.
FrameHasWakeup ==
  HostHeld # {} => \/ evq # <<>> \/ upc # "tud"
                   \/ in_ntbs > 0 /\ "in" \in armed
                   \/ epc = "poke"

\* Nothing ever finds TinyUSB's event queue full, however long a register
\* command keeps usb_task from emptying it: not eth_task, which calls
\* usbd_defer_func with the callbacks' lock held, nor an interrupt, whose event
\* would be lost.
EvqHasRoom ==
  armed # {} \/ epc \in {"txcb", "errcb", "poke"} => Len(evq) < EVQ_SIZE

-----------------------------------------------------------------------------
(* The abstract channels this module implements *)

\* What is in the channel, and whether a refused datagram will be offered again.
sending == IF tx_pkt = NULL THEN tx_reqs ELSE <<tx_pkt>> \o tx_reqs
renewing == epc \in {"txcb", "errcb"} \/ "renew" \in Range(evq)

Channel == INSTANCE TxChannel WITH
  CAPACITY <- REQ_SIZE + 1, q <- sending, due <- renewing

\* Datagrams of the host are sent in order, each at most once, and one is
\* refused only while another is still to complete; completion always leads to
\* the refused one being offered again.
ImplementsTxChannel == Channel!Spec

\* The frames taken for the host: the one in hand and those behind it.
waiting == IF usb_pkt = NULL THEN usb_reqs ELSE <<usb_pkt>> \o usb_reqs

ToHost == INSTANCE RxChannel WITH
  CAPACITY <- REQ_SIZE + 1, q <- waiting, refused <- (epc = "untaken")

\* Frames reach the host in the order they were received, each exactly once
\* if it was taken, and one is refused only when data_.reqs is full.
ImplementsRxChannel == ToHost!Spec
=============================================================================
