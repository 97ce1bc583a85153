------------------------------- MODULE HidReport -------------------------------
(***************************************************************************)
(* raspberrypi/hid_minimal: how report_send hands a report to the USB or   *)
(* the BLE stack and waits for its answer.  A sender attaches itself as    *)
(* the waiter, asks the stack, and sleeps until the stack's callback wakes *)
(* it or one second has passed.  The callback runs in another task         *)
(* (usb_task, or BTstack's) and may be late: it may answer the request of  *)
(* a sender that has already given up.                                     *)
(*                                                                         *)
(* usb.cpp and ble.cpp have the same shape and separate data; kind says    *)
(* which of the two a behaviour is about.  A section under data.lock is    *)
(* one step, since nothing else looks at data inside it.  Over BLE the     *)
(* callback copies the report and wakes the sender in such a section, and  *)
(* hands the copy to BTstack only after it.                                *)
(*                                                                         *)
(* A report is its number, in the order rep_lock lets them in.             *)
(***************************************************************************)
EXTENDS Naturals, Sequences

CONSTANTS
  Tasks,    \* tasks that call send
  NULL,     \* no task
  REPORTS   \* bound: no call begins once this many reports have been attached

ASSUME TasksAssumption == NULL \notin Tasks /\ REPORTS \in Nat

VARIABLES
  kind,       \* "usb" or "ble"
  pc,         \* where each task is in report_send
  repLock,    \* holder of data.rep_lock
  waiter,     \* data.waiter
  notif,      \* task notifications pending
  ret,        \* what each task's last call returned
  report,     \* data.report: the last report attached
  mine,       \* the report of each task's last call
  answers,    \* history: times each task's last call was notified
  handed,     \* history: the reports the host or BTstack took, in order
  \* TinyUSB
  mounted,    \* the device may send: mounted and not suspended
  ep,         \* the report in the IN endpoint, or 0
  done,       \* a transfer has ended, its callback has not run
  \* BTstack
  handle,     \* data.handle is a connection
  canSend,    \* a CAN_SEND_NOW event is due
  copied,     \* the last report its handler copied
  live,       \* ... and whether the handle it copied is a connection
  handing     \* the handler is still to hand its copy to BTstack

senderVars == <<pc, repLock, ret, report, mine>>
usbVars    == <<mounted, ep, done>>
bleVars    == <<handle, canSend, copied, live, handing>>
vars == <<kind, senderVars, waiter, notif, answers, handed, usbVars, bleVars>>

\* Places between the attachment of the waiter and its removal.
Attached == {"clear", "request", "wait", "expired"}

TypeOK ==
  /\ kind \in {"usb", "ble"}
  /\ pc \in [Tasks -> {"idle", "lock", "attach", "release"} \cup Attached]
  /\ repLock \in Tasks \cup {NULL} /\ waiter \in Tasks \cup {NULL}
  /\ notif \in [Tasks -> BOOLEAN] /\ ret \in [Tasks -> BOOLEAN]
  /\ answers \in [Tasks -> Nat]
  /\ \A t \in Tasks : pc[t] \notin {"idle", "lock"} <=> repLock = t
  /\ report \in Nat /\ mine \in [Tasks -> Nat] /\ handed \in Seq(Nat)
  /\ ep \in Nat /\ copied \in Nat
  /\ mounted \in BOOLEAN /\ done \in BOOLEAN /\ handle \in BOOLEAN
  /\ canSend \in BOOLEAN /\ live \in BOOLEAN /\ handing \in BOOLEAN

Goto(t, place) == pc' = [pc EXCEPT ![t] = place]

-----------------------------------------------------------------------------
\* report_send

Call(t) ==
  /\ pc[t] = "idle" /\ report < REPORTS /\ Goto(t, "lock")
  /\ UNCHANGED <<kind, repLock, ret, report, mine, waiter, notif, answers,
                 handed, usbVars, bleVars>>

TakeRepLock(t) ==
  /\ pc[t] = "lock" /\ repLock = NULL
  /\ repLock' = t /\ Goto(t, "attach")
  /\ ret' = [ret EXCEPT ![t] = FALSE]
  /\ answers' = [answers EXCEPT ![t] = 0]
  /\ UNCHANGED <<kind, report, mine, waiter, notif, handed, usbVars, bleVars>>

\* Over BLE there must be a connection; the report is stored with the waiter.
Attach(t) ==
  /\ pc[t] = "attach"
  /\ IF kind = "usb" \/ handle
     THEN /\ Goto(t, "clear")
          /\ waiter' = t
          /\ report' = report + 1
          /\ mine' = [mine EXCEPT ![t] = report + 1]
     ELSE /\ Goto(t, "release")
          /\ UNCHANGED <<waiter, report, mine>>
  /\ UNCHANGED <<kind, repLock, ret, notif, answers, handed, usbVars, bleVars>>

\* Mutant: a notification left by an earlier call is not cleared.
Clear_none(t) ==
  /\ pc[t] = "clear" /\ Goto(t, "request")
  /\ UNCHANGED <<kind, repLock, ret, report, mine, waiter, notif, answers,
                 handed, usbVars, bleVars>>

\* "clear notif in case"
Clear(t) ==
  /\ pc[t] = "clear" /\ Goto(t, "request")
  /\ notif' = [notif EXCEPT ![t] = FALSE]
  /\ UNCHANGED <<kind, repLock, ret, report, mine, waiter, answers, handed,
                 usbVars, bleVars>>

\* tud_hid_report, which refuses while the endpoint is busy or the bus is not
\* ready, or hids_device_request_can_send_now_event, which finds no connection
\* when it is gone.  Neither result is looked at.
Request(t) ==
  /\ pc[t] = "request" /\ Goto(t, "wait")
  /\ ep' = IF kind = "usb" /\ mounted /\ ep = 0 THEN mine[t] ELSE ep
  /\ canSend' = (canSend \/ (kind = "ble" /\ handle))
  /\ UNCHANGED <<kind, repLock, ret, report, mine, waiter, notif, answers,
                 handed, mounted, done, handle, copied, live, handing>>

\* ulTaskNotifyTake returns the notification ...
Woken(t) ==
  /\ pc[t] = "wait" /\ notif[t] /\ Goto(t, "release")
  /\ notif' = [notif EXCEPT ![t] = FALSE]
  /\ ret' = [ret EXCEPT ![t] = TRUE]
  /\ UNCHANGED <<kind, repLock, report, mine, waiter, answers, handed, usbVars,
                 bleVars>>

\* ... or nothing after a second.
Expire(t) ==
  /\ pc[t] = "wait" /\ ~notif[t] /\ Goto(t, "expired")
  /\ UNCHANGED <<kind, repLock, ret, report, mine, waiter, notif, answers,
                 handed, usbVars, bleVars>>

\* Mutant: the waiter is not removed after a timeout.
Detach_none(t) ==
  /\ pc[t] = "expired" /\ Goto(t, "release")
  /\ UNCHANGED <<kind, repLock, ret, report, mine, waiter, notif, answers,
                 handed, usbVars, bleVars>>

Detach(t) ==
  /\ pc[t] = "expired" /\ Goto(t, "release")
  /\ waiter' = NULL
  /\ UNCHANGED <<kind, repLock, ret, report, mine, notif, answers, handed,
                 usbVars, bleVars>>

\* Mutant: the lock is not given back after a timeout.
Release_lost(t) ==
  /\ pc[t] = "release" /\ Goto(t, "idle")
  /\ repLock' = IF ret[t] THEN NULL ELSE repLock
  /\ UNCHANGED <<kind, ret, report, mine, waiter, notif, answers, handed,
                 usbVars, bleVars>>

Release(t) ==
  /\ pc[t] = "release" /\ Goto(t, "idle")
  /\ repLock' = NULL
  /\ UNCHANGED <<kind, ret, report, mine, waiter, notif, answers, handed,
                 usbVars, bleVars>>

Send(t) ==
  \/ TakeRepLock(t) \/ Attach(t) \/ Clear(t) \/ Request(t)
  \/ Woken(t) \/ Expire(t) \/ Detach(t) \/ Release(t)

-----------------------------------------------------------------------------
\* The callback notifies the waiter, if there is one, which is then none.
\* Mutant: the waiter stays.
AnswerWaiter_stays ==
  /\ IF waiter = NULL THEN UNCHANGED <<notif, answers>>
     ELSE /\ notif' = [notif EXCEPT ![waiter] = TRUE]
          /\ answers' = [answers EXCEPT ![waiter] = @ + 1]
  /\ UNCHANGED waiter

AnswerWaiter ==
  /\ IF waiter = NULL THEN UNCHANGED <<notif, answers>>
     ELSE /\ notif' = [notif EXCEPT ![waiter] = TRUE]
          /\ answers' = [answers EXCEPT ![waiter] = @ + 1]
  /\ waiter' = NULL

\* The host collects the report; tud_task frees the endpoint ...
TransferDone ==
  /\ ep # 0 /\ ~done
  /\ ep' = 0 /\ done' = TRUE
  /\ handed' = Append(handed, ep)
  /\ UNCHANGED <<kind, senderVars, waiter, notif, answers, mounted, bleVars>>

\* ... and then calls tud_hid_report_complete_cb.
ReportComplete ==
  /\ done /\ done' = FALSE
  /\ AnswerWaiter
  /\ UNCHANGED <<kind, senderVars, handed, mounted, ep, bleVars>>

\* A bus reset or a suspended bus: a report in the endpoint may be dropped.
BusDown ==
  /\ kind = "usb" /\ mounted /\ mounted' = FALSE /\ ep' \in {0, ep}
  /\ UNCHANGED <<kind, senderVars, waiter, notif, answers, handed, done, bleVars>>

BusUp ==
  /\ kind = "usb" /\ ~mounted /\ mounted' = TRUE
  /\ UNCHANGED <<kind, senderVars, waiter, notif, answers, handed, ep, done,
                 bleVars>>

\* HIDS_SUBEVENT_CAN_SEND_NOW under data.lock: the report and the handle,
\* which may be no connection any more, are copied for the waiter it notifies.
\* BTstack calls this handler again only when it has handed over its copy.
CanSendNow ==
  /\ canSend /\ canSend' = FALSE /\ ~handing
  /\ AnswerWaiter
  /\ IF waiter = NULL THEN UNCHANGED <<copied, live, handing>>
     ELSE copied' = report /\ live' = handle /\ handing' = TRUE
  /\ UNCHANGED <<kind, senderVars, handed, usbVars, handle>>

\* What becomes of report r: BTstack takes it, or fails to, which it must
\* without a connection, and nobody looks.
HandTo(r) == \/ live /\ handed' = Append(handed, r)
             \/ UNCHANGED handed

\* Mutant: the handler hands over data.report itself, not its copy.
HandOver_current ==
  /\ handing /\ handing' = FALSE
  /\ HandTo(report)
  /\ UNCHANGED <<kind, senderVars, waiter, notif, answers, usbVars, handle,
                 canSend, copied, live>>

\* The rest of the handler, without the lock: the sender it has notified may
\* have returned, and another may have attached its report.
HandOver ==
  /\ handing /\ handing' = FALSE
  /\ HandTo(copied)
  /\ UNCHANGED <<kind, senderVars, waiter, notif, answers, usbVars, handle,
                 canSend, copied, live>>

\* HCI_EVENT_DISCONNECTION_COMPLETE, SM_EVENT_PAIRING_COMPLETE and
\* SM_EVENT_REENCRYPTION_COMPLETE; the event asked for may still come.
ConnectionGone ==
  /\ kind = "ble" /\ handle /\ handle' = FALSE /\ canSend' \in {FALSE, canSend}
  /\ UNCHANGED <<kind, senderVars, waiter, notif, answers, handed, usbVars,
                 copied, live, handing>>

\* HIDS_SUBEVENT_INPUT_REPORT_ENABLE and its two boot protocol siblings
ReportEnable ==
  /\ kind = "ble" /\ ~handle /\ handle' = TRUE
  /\ UNCHANGED <<kind, senderVars, waiter, notif, answers, handed, usbVars,
                 canSend, copied, live, handing>>

Stack == \/ TransferDone \/ ReportComplete \/ BusDown \/ BusUp
         \/ CanSendNow \/ HandOver \/ ConnectionGone \/ ReportEnable

-----------------------------------------------------------------------------
Init ==
  /\ kind \in {"usb", "ble"}
  /\ pc = [t \in Tasks |-> "idle"] /\ repLock = NULL
  /\ waiter = NULL /\ notif = [t \in Tasks |-> FALSE]
  /\ ret = [t \in Tasks |-> FALSE] /\ answers = [t \in Tasks |-> 0]
  /\ report = 0 /\ mine = [t \in Tasks |-> 0] /\ handed = <<>>
  /\ mounted = FALSE /\ ep = 0 /\ done = FALSE
  /\ handle = FALSE /\ canSend = FALSE
  /\ copied = 0 /\ live = FALSE /\ handing = FALSE

Next == Stack \/ \E t \in Tasks : Call(t) \/ Send(t)

Spec == Init /\ [][Next]_vars

\* Every task runs, and a mutex of FreeRTOS is not taken from a waiting task
\* for ever.  Nothing is assumed of the stacks.
FairSpec ==
  /\ Spec
  /\ \A t \in Tasks : WF_vars(Send(t)) /\ SF_vars(TakeRepLock(t))

-----------------------------------------------------------------------------
\* Properties.

\* The waiter a callback may wake is inside report_send and holds rep_lock: a
\* callback that comes after the sender has given up finds no waiter, or a
\* later sender, never a task that is somewhere else (usb.cpp:86, ble.cpp:59).
WaiterIsSender ==
  waiter # NULL => repLock = waiter /\ pc[waiter] \in Attached

\* send returns true only when the stack's callback has notified this call,
\* once, never on a notification left over from a call that timed out
\* (usb.cpp:81).  Over BLE that callback has copied this very report; the copy
\* may be handed over after the call has returned, or fail to be.  Over USB it
\* may have come for an earlier report, which its sender had given up.
TrueMeansAnswered ==
  \A t \in Tasks : pc[t] = "release" /\ ret[t] =>
    answers[t] = 1 /\ (kind = "ble" => copied = mine[t])

\* A call is notified at most once, and only before it has detached, however
\* late the callback; and over BLE no report is copied for sending once its
\* sender has removed itself (ble.cpp:60).  One copied before may be sent later.
AnsweredOnceInside ==
  [][/\ \A t \in Tasks :
          answers'[t] > answers[t] => answers[t] = 0 /\ pc[t] \in Attached
     /\ copied' # copied =>
          \E t \in Tasks : pc[t] \in Attached /\ copied' = mine[t]]_vars

\* The host over USB, and BTstack, get each report at most once and in the
\* order they were attached, although the handler hands over its copy without
\* the lock (ble.cpp:213) while the next sender stores another report, and
\* callbacks come after timeouts.
ReportsInOrder ==
  \A i, j \in 1..Len(handed) : i < j => handed[i] < handed[j]

\* Every send returns, with the stack dead, the host gone or the bus suspended
\* (usb.cpp:83, ble.cpp:56): a sender leaves rep_lock for the next.
SendEnds == \A t \in Tasks : pc[t] = "lock" ~> pc[t] = "idle"
=============================================================================
