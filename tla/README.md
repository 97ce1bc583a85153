# Verification of miscboards

miscboards is a monorepo of small boards: firmware for microcontrollers, FPGA
gateware and host scripts. This directory holds TLA+ models of the parts with
real control logic, the TLC configurations that check them on small instances,
and TLAPS proofs for every value of the constants.

The core is **nxp/lpc1549_oaspi**, a USB to 10BASE-T1 Ethernet bridge: two
FreeRTOS tasks, two interrupts, the TinyUSB device stack, a packet pool, and an
Ethernet MACPHY behind an OPEN Alliance SPI ("OASPI") bus. It is the most
concurrent program in the repository and the one modelled first. Three other programs with
a protocol of their own follow: the keyboard's radio link, the Ethernet driver of the PoE board,
and the USB and BLE report senders of the Pico keyboard.

    tlc -workers 2 -config bridge_hid.cfg MCEthBridge     # any row of "Runs"
    tlapm EthBridgeProofs.tla                             # any module of "Theorems"

Paths below are relative to `src/`; `eth.cpp`, `usb.cpp`, ... without a path are
those of `nxp/lpc1549_oaspi/src/`.

## 1. Inventory

### lpc1549_oaspi (modelled)

| part | state | operations | talks to |
|---|---|---|---|
| packet pool (`eth.cpp`, static `data_`) | queue of free buffers, `POOL_SIZE` 8 | `pkt_alloc(wait)`, `pkt_free` (asserts there is room) | both tasks |
| `eth_task` (`Eth::task`) | `tx_` (`reqs`, `pkt`, `len`, `idx`, `start`, `free_chunks`), `rx_` (`pkt`, `len`, `pend_chunks`, `ts_*`), `task_` (`init_good`, `error`) | loop: wait, initialise the MACPHY, pull a packet, fill chunks, transfer, process footers, handle error / reset | callbacks into `usb.cpp` under `cb_lock_`; SPI |
| callbacks (`usb_eth_tx_cb`, `usb_eth_rx_cb`) | `data_.reqs` | TX: defer a renew; RX: queue the frame, defer an empty call | `usbd_defer_func` (blocks when TinyUSB's queue is full) |
| `usb_task` | `data_.pkt`, TinyUSB's event queue, endpoint states | `tud_task`, `tud_network_recv_cb`, `xmit_cb`, HID register commands | `Eth::send`, the pool, registers through `OASPI` |
| OASPI chunks (`fill_tx_chunk`, `process_rx_chunk`, `add_rx_buffer`) | credits, reassembly buffer, timestamp state | segmentation under flow control, reassembly, timestamps | MACPHY |
| control plane (`oaspi.cpp`, `spi.cpp`) | SPI lock, MDIO lock, `ts_time64_` | `reg_read/write`, MDIO c22/c45, `configure`, `reset` | DMA interrupt, both tasks |

**Hard behaviours.** A datagram TinyUSB holds after a refusal is offered again
only by somebody else's completion. A packet buffer changes owner between the
tasks inside a callback while the old pointer is still in use. A callback blocks
on a queue the other task empties, with a mutex held, while that task may be
retrying a register access for ever. `eth_task` decides to sleep from state that
another task changes. Flow control is read from footers, a whole transfer late.
The MACPHY resets or a footer is damaged in the middle of a packet.

**Correct means**: a buffer has one owner; nobody waits for something that is
not coming (the host, `eth_task`, `usb_task`, a callback); datagrams leave in order and at
most once; only whole packets reach the line, and never more chunks than the
MACPHY has room for; only whole frames reach the host, with their own timestamp.

### Other programs (modelled)

| part | state | operations | talks to |
|---|---|---|---|
| **samd/keyboard/sim**, `device.cpp` and `host.cpp` | last packet sent and accepted, current channel, socket | device: send a key until its acknowledgement arrives; host: scan for the device, then acknowledge until the next key arrives | each other, over a radio (`common.cpp`) that loses packets |
| **lpc1768_poe** (`eth.cpp`) | two descriptor rings and the driver's record of their buffers | `eth_isr`, `eth_rx_task`, `eth_pf_output` | the MAC's DMA, the FreeRTOS+TCP stack |
| **hid_minimal** (`usb.cpp`, `ble.cpp`) | waiter, stored report, connection handle | `report_send`, and the callbacks that answer it | TinyUSB, BTstack, the tasks that send |

**Hard behaviours.** Both radios hop to a channel named in a packet that may not have arrived, and
repeat themselves into sockets that keep old packets. The DMA reads and writes buffers
whose ownership a task changes by index arithmetic, with one notification for many
frames. An answer of a USB or BLE stack races the one-second timeout of the task that waits for it.

**Correct means**: keys are printed in order, at most once, and all of them in a session; a network
buffer has one owner and the hardware touches only those its rings hold; no frame waits for
an interrupt that came already; `send` returns, true only if the stack's callback came during the call;
reports reach the stack's other side in order.

### Other parts with logic (not modelled yet, section 7)

- **wch/rvice_adc** and its FPGA (**lattice/rvice_adc**): DMA restart against the sample
  interrupt, critical sections of the bit-banged flash, a sample FIFO.
  Correct: samples stay aligned with channels; interrupts come back on.
- **wch/mouse_jiggler**: a report waits for its completion without a timeout.
- **wch/solder_dispenser**, **microchip/avr/lightsaber**, **microchip/avr/word_watch**: state machines over
  an interrupt that shares multi-byte variables.
- **UARTs** (chivado, cyc1000), **attiny10_lin**, **nrf24_remote**, **psu_monitor**, **sleepManager**,
  **solarFRAM**: small receivers, debouncers and superloops.

Vendor SDKs, generated projects, board files and the Linux device
files hold no logic of this repository. `PROJECT.json` lists every component
and every hazard with its line; hazards of parts still to be modelled have no
property yet.

## 2. Modules

    TxChannel, RxChannel  <---- implements ----  EthBridge  ---- abstracts chunks of ---->  OaspiTx, OaspiRx
                                       |     \
                             MCEthBridge      EthBridgeProofs -- QueueLemmas
    OaspiTx -- OaspiTxProofs -- QueueLemmas
    OaspiRx -- OaspiRxProofs
    OaspiCtl -- OaspiCtlProofs          the registers under EthBridge's feet

    KeyChannel  <---- implements ----  KeyboardLink -- KeyboardLinkProofs -- QueueLemmas
    PoeEth -- PoeEthProofs -- QueueLemmas
    HidReport -- HidReportProofs

- **EthBridge**: the whole packet path, both tasks and what is between them.
- **TxChannel**: what the bridge promises the host about datagrams it sends; **RxChannel**: about
  the frames it receives.
- **OaspiTx**: segmentation and credits against a MACPHY with a bounded buffer.
- **OaspiRx**: reassembly, chunk by chunk, with timestamps.
- **OaspiCtl**: who reads and writes the MACPHY's registers, and how a reset is noticed.
- **KeyboardLink**: the radio protocol of the keyboard; **KeyChannel**: what it promises the typist.
- **PoeEth**: descriptor rings, DMA, the receive task and the stack.
- **HidReport**: a sender, its timeout and late answers, over USB and over BLE.
- **MCEthBridge**: the symmetry set for TLC.
- **QueueLemmas** and the modules ending in **Proofs**: lemmas and theorems.

`PROJECT.json` "map" gives, for each definition, the lines it models. In each module
a definition commented "Mutant" is not part of the model: it is a plausible
wrong version of the definition after it, kept to show that the property named
in `PROJECT.json` can tell the two apart.

### EthBridge

`epc` is where `eth_task` is. Its loop is split at every access to something
`usb_task` or an interrupt can touch:

| action | code |
|---|---|
| `EthTake` | the notification wait at the top of the loop (a give, or the 100 ms timeout) |
| `EthInit` | `OASPI::reset` when `!init_good` |
| `EthPull` | `xQueueReceive(tx_.reqs, ...)` when no packet is in progress |
| `EthFill` | sizing of the transfer and `fill_tx_chunk` for all its chunks |
| `EthTxCallback` | the callbacks of a packet that is done, or was dropped by `handle_error` |
| `RxQuiet`, `RxFrame`, `RxError`, `RxReset` | `process_rx_chunk` on one chunk |
| `EthRxCallback`, `EthRxPoke`, `EthRxSwap` | the RX callback in its three parts: queue, deferred call, and what `add_rx_buffer` does with the result |
| `EthEnd` | the condition that decides between sleeping and another round |

`upc` is where `usb_task` is. `tud_task` handles one event per step
(`UsbDatagram`, `UsbDropDatagram`, `UsbRenew`, `UsbPoke`, `UsbInDone`, `UsbHid`, `UsbRequest`, `UsbSent`) and
returns when the queue is empty; `UsbLoop` is the body of the loop after it.
`HostTransfer` and `MacphyInterrupt` are the interrupts. A register command (`UsbHid`, `UsbHidDone`) may come by the HID OUT
endpoint or in a request on the control endpoint; its answer arms the HID IN endpoint (`report_armed`), whose completion is an event
like any other (`UsbSent`), as is that of a link notification. `HOST_USES` says which of these a behaviour begins with.

*Scheduling.* `usb_task` has the highest priority, `eth_task` the one below, on
one core (`usb.cpp`, `eth.cpp` `xTaskCreateStatic`). `eth_task` therefore steps only while
`usb_task` is blocked (`UsbBlocked`): in `tud_task` with an empty event queue,
or in a HID register command, whose SPI transfer and retry delay block.

*External.* TinyUSB is modelled from its use: `recv_cb` returning true arms the
endpoint again, false holds the datagram until `tud_network_recv_renew`; a deferred call
waits for room in the event queue, an interrupt's event is lost without room; IN transfer
blocks are sent one at a time; a report is refused while the one before is under way. The bus stays configured and active, and the host
lets a control request end before it sends another: a reset, suspend or resume, or the SETUP of a request that cuts another short, would each be one
event more, as often as the host likes, and no bound on the queue could hold.

### OaspiTx

One transfer is `Fill`, one `Exchange` per chunk, `TransferDone`, then one
`ProcessFooter` per footer until one is in error. The MACPHY collects a frame from SV
to EV, drops what follows no start, reports free room in each footer, drains
to the line at any time, may reset, and may see a damaged header; a footer may
come back damaged. `configure()` masks its transmit protocol error and leaves the buffer overflow
unmasked, which is why a packet continued after a reset is silently dropped
while an overrun makes footers report an exception.

### OaspiRx

Data is counted in units of four bytes. A unit knows its frame and its place, so
that the FCS is "exactly the units of one frame in order". The MACPHY sends
frames with every alignment; a frame may start in the chunk the last one ended in, be dropped at
its end, be stamped or not, with right parity or not. The three outcomes of a chunk are in
`Process`: processed, in error, or lost after an error in the same transfer.
After an error `ts_expect` stays set with an empty buffer: `take_timestamp` then takes data of a frame for a timestamp, its parity
right or not by chance (`ts_good` is chosen anew by the error), and `time_in` gives `Wrong` for such a time.
`BUF >= CHUNK + TS_UNITS - 1` is the assumption under which a timestamp never counts
against the longest frame (1518 bytes against 64 + 8 in the code).

### OaspiCtl

`eth_task` is in `AssertReset`/`ReleaseReset` (`OASPI::reset`), in `configure()` at `step` of the part's
sequence `Steps`, or exchanging chunks (`Transfer`, which looks at SYNC and EXST of a footer). A register
command is one step, since `SPI::transceive` holds the bus for it; `RegWrite(ok, val)` says what a
command that is damaged on the way out or on the way back leaves in the chip. The several commands
of one kind in `configure()` (`settings`, the four Clause 45 writes) are one step each: what matters is
which can fail, and what has been written when one does. `usb_task`'s command is retried until it
succeeds; the application stands for callers of `ts_enable` and `mdio_c45_write`, which the
program offers and does not call itself.

### KeyboardLink

One process per side: `dpc` and `hpc` are the places in the loops of `device.cpp` and `host.cpp`.
`DeviceTune`/`HostTune` are the first `Radio::recv` after a send or on a new channel, which empties the socket;
`DeviceTake`/`HostTake` read one datagram, which another channel's reader would ignore; a datagram of its
channel ends the poll, answered or not. A packet is identified by its nonce, and the hash
of a packet is that nonce: `resp` names the packet answered. `HostAck`, three times, then `confirm` is
the sync loop; `HostSend` the run loop. A radio that loses packets is one whose listener was elsewhere
(the socket is emptied) or whose socket was full.

### PoeEth

The MAC moves its produce index of the receive ring and its consume index of the transmit ring at any time; the
driver moves the other two. `rpc` is where `eth_rx_task` is; it has the highest priority, so the stack's
actions need it blocked (`RxBlocked`). `rx_desc` and `tx_desc` are the addresses the DMA uses, `rx_netdesc` and
`tx_netdesc` the driver's record: the properties relate the two. The buffer that was sent stays in
its slot until the slot is used again, which is why the pool must be larger than both rings (21 against 6 here,
`RingAssumption`).

### HidReport

`usb.cpp` and `ble.cpp` share the shape of `report_send`; `kind` says which stack is under it. A section under
`data.lock` is one step. TinyUSB frees the endpoint before it calls the completion callback
(`TransferDone`, then `ReportComplete`), so a callback may belong to an older report than the waiter's: over USB true
means no more than "the stack completed a report during this call". Over BLE `CanSendNow` copies the report and the handle and wakes the
sender, under the lock; `HandOver` gives the copy to BTstack afterwards, without it, when the sender may have returned and the connection
be gone. True then means "this report was copied for sending", and neither that BTstack has it already nor that it takes it.
Likewise a report copied in time can be handed over after its call has returned, whatever the call returned:
`AnsweredOnceInside` is about the copying. That BTstack does not call its handler again before it has returned is
an assumption about BTstack; on it rests that reports stay in order (`ReportsInOrder`).

## 3. Runs

| run | properties | shows | distinct states |
|---|---|---|---|
| `bridge_hid` | `TypeOK` `Ownership` `StallHasWakeup` `FrameHasWakeup` `EvqHasRoom` | The bridge as shipped (`CONFIG_ETH_MIN_LATENCY`), both directions, blocking HID commands and their answers | 2.6 M |
| `bridge_partial` | `NoLostWakeup` `ImplementsTxChannel` `ImplementsRxChannel` | Without `CONFIG_ETH_MIN_LATENCY`: packets over several transfers, credits running out inside one, notifications and interrupts | 421 k |
| `tx_channel` | `StallEnds` | the abstract channel never stalls the host for good | 163 |
| `oaspi_tx` | `TypeOK` `WholeFramesInOrder` `PacketEnds` | split packets, a reset and a bit error anywhere | 70 k |
| `oaspi_tx_latency` | `NeverOverrun` `NothingLost` `PacketEnds` | whole packets per transfer, intact bus, a reset | 22 k |
| `oaspi_tx_credit` | `NeverOverrun` (violated) | stale credits after a damaged footer | - |
| `oaspi_rx` | `TypeOK` `GivenInOrder` `WholeFrameGiven` `StampsInOrder` | three frames, every alignment, two errors | 4.0 M |
| `oaspi_rx_timestamp` | `OwnTimestamp` (violated) | a dropped frame's timestamp kept for the next | - |
| `oaspi_ctl` | `TypeOK` `ResetIsNoticed` `MdioOwnAddress` `LinkRecovers` `HidEnds` | resets and damaged commands at any moment of `configure()`, with two other clients of the registers | 9 k |
| `keyboard_link` | `TypeOK` `ImplementsKeyChannel` `KeyPrinted` `DeviceAnswered` | a lossy radio, sockets with old packets, one restart of either side | 177 k |
| `poe_eth` | `TypeOK` `Ownership` `InOrder` `NoLostWakeup` `DmaOwnsBuffer` `RingEmptied` | both rings, damaged, dropped and lost frames, a stack that takes, keeps and sends buffers | 933 k |
| `hid_report` | `TypeOK` `WaiterIsSender` `TrueMeansAnswered` `ReportsInOrder` `AnsweredOnceInside` `SendEnds` | two senders, USB and BLE, answers late, once or never, reports handed over late, connection lost and back | 86 k |

Every run checks deadlock. Each property of a passing run has a mutant.

### Bounds, and why they are enough

- *Bridge*: `REQ_SIZE` 1 and five buffers, which is `REQ_SIZE + 4`, the smallest pool
  the proofs allow and exactly the relation of the code (4 and 8): the pool can be
  exhausted, both queues full, a datagram stalled, all at once. Buffers are
  interchangeable, so the symmetry is sound for these safety properties.
  `EVQ_SIZE` 8 with datagrams and HID commands (`HOST_USES` "out" and "hid"; "in" and "hid_in" follow from them): with 7 TLC finds `EvqHasRoom` violated.
  `EvqCorrect` proves the property from a size that is enough, and not shown to be the least (here it asks for 9): section 4.
  Requests on the control endpoint ("ctrl") make the run too large for TLC; the actions are the same, and the theorem covers them.
  `MACPHY_USES` is empty in `bridge_hid`: chunks pending and the interrupt pin only cut the waits of `eth_task` short, and `bridge_partial` has them, as it has
  notifications ("notif").
- `bridge_partial` gives packets of two chunks, transfers of one and two credits, so a
  packet is interrupted by a credit shortage, an error or a reset; HID commands
  are left to the other run.
- `tx_channel`: a channel of three and one buffer more than it holds, so that it fills.
- *OaspiTx*: a buffer as long as the longest packet, transfers shorter than it
  (`oaspi_tx`) or not (`oaspi_tx_latency`), one reset and one bit error anywhere.
- *OaspiRx*: chunks of 3 units, frames of 1, 4 and 6: a frame inside a chunk with
  others around it, one that just fits the buffer and a longer one, timestamps
  split over two chunks. Three frames let one be lost, one be joined wrongly and one follow. Two errors are what it takes to give a frame
  a time read from the data of another: one in the frame whose data is read, one that loses the start of the next.
- *OaspiCtl*: two resets and two calls of the application, so that a reset can hit `configure()`, its
  repetition, and the gap inside `ts_enable`; failed commands are not bounded. Both parts (ADIN1110, NCN26010).
- *KeyboardLink*: two channels (the same one again, or another), a socket of one datagram (the next is
  dropped, or an old one is in the way), three keys, one restart of either side, anywhere. Ten nonces are more than
  packets, sockets and memories can name at once; `HasFresh` would disable the actions, and be
  seen by `DeviceAnswered`, if they were not.
- *PoeEth*: six buffers for rings of two and three slots, one more than the rings can hold, as
  `RingAssumption` demands; four frames are more than the ring holds, so the ring fills, overruns and
  wraps; an event queue of one so that a frame is dropped for want of room.
- *HidReport*: two tasks contend for `rep_lock`, one gives up and the other meets its late answer; no call begins once three reports (`REPORTS`) have been attached, so that
  a copy can be handed over after two later reports were stored.

### Fairness

`TxChannel`: what is in the channel leaves, what is due is offered. `OaspiTx`: the
task runs and its transfers end (`WF(Task)`), the line takes what is buffered
(`WF(MacphySends)`); nothing forces a reset, an error or the arrival of a packet.
`EthBridge` has no fairness: the statements about waiting are safety properties ("the
wake-up is pending"), because its state space is too large for liveness with the
buffers told apart, and the host and MACPHY owe it nothing.
`OaspiCtl`: `eth_task` runs, and no command of `configure()` is damaged every single time it is sent
(strong fairness per step); the MACPHY comes out of reset. With a MACPHY that never answers neither
`LinkRecovers` nor `HidEnds` would hold, and the code does not claim it. `KeyboardLink`: both processes run, and a radio that keeps
being used meets its listener sooner or later (`FairRadio`): the host listens for 5 ms and the device
repeats within 2 ms and a little, so nothing locks them out of step. `PoeEth`: the MAC sends, the interrupt is
served, tasks run, and the stack gives back or sends each buffer in the end. `HidReport`: tasks run and
a FreeRTOS mutex reaches each waiter; nothing is assumed of the stacks, since the timeout must suffice.
`StallEnds` is shown of the abstract channel; that the fairness of the bridge implements
the channel's is not shown, and `RxChannel` has none.

## 4. Theorems

For every value of the constants the named assumptions allow (`PoolAssumption` and
`SizeAssumption`, `BoundAssumption`, `RingAssumption`, `TasksAssumption`, `LinkAssumption`, `TxAssumption`, `RxAssumption`):

| theorem | statement |
|---|---|
| `EthBridgeProofs!TypeCorrect` | `Spec => []TypeOK` |
| `EthBridgeProofs!OwnershipCorrect` | `Spec => []Ownership` |
| `EthBridgeProofs!StallWakeupCorrect` | `Spec => []StallHasWakeup` |
| `EthBridgeProofs!WakeupCorrect` | `Spec => []NoLostWakeup` |
| `EthBridgeProofs!Refinement`, `RxRefinement` | `Spec => ImplementsTxChannel`, `Spec => ImplementsRxChannel` |
| `EthBridgeProofs!EvqCorrect`, `FrameWakeupCorrect` | `EvqRoom` gives `Spec => []EvqHasRoom`, `[]FrameHasWakeup` |
| `OaspiTxProofs!TypeCorrect`, `WholeFramesCorrect` | `Spec => []TypeOK`, `[]WholeFramesInOrder` |
| `OaspiTxProofs!CreditCorrect` | `BIT_ERRORS = 0` gives `Spec => []NeverOverrun` |
| `OaspiTxProofs!NothingLostCorrect` | `Spec => []NothingLost` |
| `OaspiRxProofs!TypeCorrect`, `GivenCorrect`, `WholeFrameCorrect` | `Spec => []TypeOK`, `[]GivenInOrder`, `[]WholeFrameGiven` |
| `OaspiRxProofs!StampsCorrect` | `Spec => []StampsInOrder` |
| `OaspiRxProofs!TimestampCorrect` | `ERRORS = 0` gives `Spec => []OwnTimestamp` |
| `KeyboardLinkProofs!TypeCorrect`, `LinkRefinement` | `Spec => []TypeOK`, `Spec => ImplementsKeyChannel` |
| `OaspiCtlProofs!TypeCorrect`, `ResetNoticed`, `OwnAddress` | `Spec => []TypeOK`, `[]ResetIsNoticed`, `[]MdioOwnAddress` |
| `PoeEthProofs!TypeCorrect`, `OwnershipCorrect`, `OrderCorrect`, `WakeupCorrect`, `DmaCorrect` | `Spec => []TypeOK`, `[]Ownership`, `[]InOrder`, `[]NoLostWakeup`, `DmaOwnsBuffer` |
| `HidReportProofs!TypeCorrect`, `WaiterCorrect`, `AnswerCorrect`, `OrderCorrect`, `OnceCorrect` | `Spec => []TypeOK`, `[]WaiterIsSender`, `[]TrueMeansAnswered`, `[]ReportsInOrder`, `AnsweredOnceInside` |

*The argument for EthBridge.* The inductive invariant `IInv` joins the four properties with two
facts none of them states. `PcInv`: what the place of `eth_task` says of its
variables (`rx_new` is set exactly inside the RX callback; a transfer has a chunk
left while one is processed; no packet is in progress in a TX callback).
Without it `EthRxSwap` could put the null pointer into `rx_pkt`. `InInv`: at most one IN transfer
is armed or queued as an event, and only while a block is with the controller;
without it `UsbInDone` could take `in_ntbs` below zero. There is one lemma per
conjunct of `IInv` (`BufferTypesStep`, ..., `NoLostWakeupStep`), with one step per
action; the temporal step is one line.

`EmptyPool` is the lemma with content of its own: if no buffer is free, the TX side
holds one. It counts: the host side holds at most `REQ_SIZE + 1`
buffers and the receive side two, so `REQ_SIZE + 4` buffers cannot all be elsewhere. It
is why a datagram refused for want of a buffer has a completion coming, and it
is tight: `POOL_SIZE` 8 with `REQ_SIZE` 4 leaves nothing to spare, so a third
holder of received buffers or a longer queue would break it.

There are two refinements. TxChannel's queue is the packet in progress followed by `tx_.reqs`, and
"due" is a callback being called or a renew in the event queue; steps map
to `Accept`, `Refuse`, `Leave`, `OfferAgain` or a stutter. RxChannel's queue is the frame in hand (`data_.pkt`)
followed by `data_.reqs`, and "refused" is `add_rx_buffer` between a callback that did not take the frame and the
`pkt_free` that follows; taking a frame in hand is a stutter, giving it to TinyUSB is `Deliver`. That a frame taken is not in
the channel already is `Ownership`: the buffer being received into is nobody else's. A refusal proves that `data_.reqs` is full: the channel holds
`REQ_SIZE` frames, or one more if there is one in hand.

*The event queue.* `EvqHasRoom` is no invariant of one step: what bounds the queue is what can still come
while `usb_task` is inside a register command and takes nothing out. `QueueInv` counts it. `Tickets`: each endpoint is armed, or its event is queued,
never twice, and no datagram arrives while one is stalled; `InUse`: only the endpoints `Used` are, those of `HOST_USES`, the network's IN and the one that answers
commands. So they owe at most one event each. `CallsFirst`: `eth_task` runs only while `usb_task` is blocked, so when `usb_task` goes round its loop no
deferred call is queued. `CountInv`: the calls queued, the renews still owed (the packets that can complete) and the empty calls still owed (the room in
`data_.reqs`) together are at most `2 * REQ_SIZE + 3`. Each packet completed and each frame queued turns
one thing owed into one event; but `usb_task` can go straight from one command to the next with calls still queued, and
accept one datagram in between, one only because the next is queued behind the calls (`OutFirst`). Hence `EvqRoom`: `2 * REQ_SIZE + 3` calls and an event per endpoint in use.

For the code's `REQ_SIZE` 4 that is 11 calls. With all six endpoints it makes 17, one more than 16, TinyUSB's default, which the program's `tusb_config.h` leaves as it is; without a link notification under way (it is
sent when the host sets up the interface, and `usb.cpp` never reports a change of the link) it makes 16. The bound is what suffices; that a queue of 16 can fill up
is not claimed. What it leaves out is said under EthBridge: events of the bus, and control requests cut short. `FrameHasWakeup` needs
`EvqHasRoom`, since an event lost to a full queue is a wake-up lost: `InAlive` says that a block with the controller has its transfer armed or its completion queued.

`QueueLemmas` states what `Append`, `Head` and `Tail` do to the range, the length, the
injectivity and the multiplicity of a queue.

*OaspiCtl.* `ResetIsNoticed` is about the moment frames flow; inductive is what holds on the way there:
unless STATUS0.RESETC is set, everything `configure()` has written so far is still in the chip. `ts_enable`'s late write
is harmless because what it writes over CONFIG0 is either SYNC as configured, or SYNC=0, which the next footer shows.

*PoeEth.* Beside `TypeOK` and `Ownership` the invariant says that `rx_desc` names the buffer `rx_netdesc`
records, for every slot but the one just given away (until `RxUse`), and likewise for what is in
the transmit ring and not sent. `DmaOwnsBuffer` follows for each step. `InOrder` compares frames two by two: in the queue, in the queue and the ring,
in the ring. With it is inductive that no buffer holds a frame number not given out yet, so the frame that arrives is the youngest;
that it overwrites none of the others is `Ownership`.

*HidReport.* The invariant adds what a notification means: one that is pending when the sender waits was given by
the callback counted in `answers`, because `Clear` removed any older one after the waiter was attached, and the waiter is
gone once notified; over BLE that callback copied `data.report`, which is the waiter's as long as there is one. For the order: every report in the stack, copied or handed over is
one attached already, the copy and the report in the endpoint are younger than all handed over, and a new one younger than
the copy, so that `HandOver` may come as late as it likes.

*KeyboardLink.* The invariant: a packet of the device, wherever it is, that answers the host's last packet carries
the key typed last, which is not printed yet, and no host packet anywhere acknowledges the device's last one
(`Unacked`). In a session, either all that was typed is printed or the device is unacknowledged. The nonce of a new packet
names nothing else in either socket or memory, so every older packet is out of date the moment it is sent.

*OaspiTx.* `BusInv(b, d)` ties the two ends of a transfer together: it holds the next `d` chunks of the last packet, `b` chunks
went before, and a frame in the MACPHY that could be continued by them is exactly these `b`; `FrameInv` says that it belongs to a
packet younger than all completed ones. Of a dropped packet a beginning may stay in the MACPHY, which is harmless because the next chunk with
data has SV. For the credits, `CreditInv` counts data on its way and credits against the room left: before a transfer the
credits fit, in it chunk `i` finds room for `i` more, after it the last footer's credits fit. The proof uses that no footer
is damaged at the one place where it fails in the code (section 5, `oaspi_tx_credit`). `CreditInv` is conditional on `errors = 0`, so it also serves
`NothingLost`, whose `LossInv` says that while nothing has failed the MACPHY has exactly the `b` chunks that went before (not "or none", as in `BusInv`), that a
packet freed has its last chunk among the `d`, and that every packet before it is on the line; task, MACPHY and footers agree that
the MACPHY is configured. With that, a chunk of the transfer always finds its beginning and room, and every footer is taken for its credits.

*OaspiRx.* The invariant follows one frame, the one under way, through its chunks. `LeftInv`: what the MACPHY has still to send is its end.
`BufInv`: the buffer has units of this frame and of no other, and is empty between frames and after an error until the transfer is over, so that
units of two frames never come together. `CarriedInv`: if the frame fits and none of its chunks is lost, the buffer is exactly what
was sent of it, and its timestamp is still coming, with `ts_expect` and the parity set, or taken off and kept. `Carried` at the end of the frame is what the FCS accepts
(`EndCarries`); at a start it is what the resets leave (`Begins`), which is why nothing of the frames before matters. `RxAssumption` is used at one place, `FedCarries`: an incomplete timestamp
and a chunk behind it are never too long. Order needs no more than that a frame given is one that ended in this step (`GivenMore`).
The theorems hold for all frame and chunk sizes and both widths of a timestamp.
`KeptStamp` says what the finding of section 5 turns on: only a frame that lost a chunk can have been given another's timestamp. A frame that lost
none began by clearing it (`Begins`), so what is kept is its own or none. With `ERRORS = 0` no frame loses a chunk (`Lossless`), and
`TimestampCorrect` follows: the error is necessary.
`StampInv` says how far it can go: if the time kept is one the MACPHY sent, whichever frame's it is, it is of a later frame than all that are given, since a start
clears it, what is taken off is the time of the frame under way or `Wrong` (`FedStamp`), and giving a frame leaves none. So of the times the MACPHY sent none is
given twice or out of order (`StampsCorrect`); of `Wrong`, a time read from data, nothing is claimed, and two errors can put it between the others.
For a frame carried from its start the units taken off are exactly its timestamp's (`Carried`, `TimeIs`).

*Only model-checked*: all liveness, which is out of the prover's reach (there is no theorem of `WF` or `SF` formulas), and that the two findings of section 5 do happen. The two properties that fail have a theorem each of when they
hold: `NeverOverrun` with `BIT_ERRORS = 0`, `OwnTimestamp` with `ERRORS = 0`. Every invariant a passing run checks has its theorem.

## 5. Findings

- `oaspi_tx_credit`: `process_rx_chunk` keeps the credits of the footers before a damaged one. They
  were sampled while the same transfer was still filling the MACPHY's buffer, so
  the next packet can overrun it (`eth.cpp:160`, comment at 265).
- `oaspi_rx_timestamp`: `handle_error` drops the received packet by its length only; its timestamp stays and
  is given with the next frame if that frame's own start was lost in the
  same transfer (`eth.cpp:151`, comment at 138). With a second error the time given can also be one read from the data of the damaged frame. Timestamps are off in the shipped
  configuration.

## 6. Not modelled, and why

- Of the bridge: bus resets, suspends and resumes and control requests cut short (see EthBridge above), statistics, `timestamp_read`, callback removal and the destructors (never called),
  descriptors, the window between starting `usb_task` and adding its callbacks
  (`usb.cpp:173-176`), and a MACPHY that never answers a register command.
- Of the control plane: `ts_read`, Clause 22 accesses, `ts_time64_`, a host that writes the very registers `configure()`
  and MDIO use (the command exists for debugging; it could then undo anything).
- Of the keyboard: pairing, which the program skips (`key_valid` is true), and cryptography. A device that restarts during a
  host's session is not heard again until the host restarts, since the host goes on waiting for an answer to
  its last packet; nothing in the repository says otherwise, so the liveness properties exclude it.
  Keys typed before the host has synchronised are lost (`host.cpp:43` says to type some first).
- Of the PoE board: the PHY task and the link state, and the window in which the interrupt is enabled
  and the task it notifies is not created yet (`lpc1768_poe/src/eth.cpp:208`).
- Of the HID senders: LEDs, protocol mode, pairing, passkeys.
- Payload bytes, the FCS computation and header bit layout: abstracted to what the
  properties tell apart.
- The parts of section 1 not modelled yet.

The repository is for the largest part vendor headers, generated projects and board files: the share of its lines
that carries logic to model is small, and so is the share the map covers.

## 7. Plan

Done: EthBridge with TxChannel, RxChannel and its proofs, OaspiTx, OaspiRx, OaspiCtl, KeyboardLink with KeyChannel, PoeEth, HidReport.
Left, in order:

1. **RviceAdc**: samples against DMA restarts; critical-section nesting (`fpga.cpp:41`); the FIFO.
2. **SolderDispenser** (`motor.cpp:92`), **Lightsaber** (`font.c:283`, `extend.c:4`), **nrf24_remote** (`app.c:173`).
3. **Breadth**: WordWatch, Uart, then the small boards.

Proofs left: none of the invariants the runs check; those of the modules to come.
