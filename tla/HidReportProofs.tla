--------------------------- MODULE HidReportProofs ---------------------------
(* Theorems about HidReport, for every set of tasks. *)
EXTENDS HidReport, TLAPS

-----------------------------------------------------------------------------
(* The inductive invariant.  A sender between attaching and detaching has    *)
(* been notified exactly if it is no longer the waiter, and a notification   *)
(* it finds after clearing is that one.  Over BLE its report has then been   *)
(* copied, and a copy to hand over is later than all handed over before it;  *)
(* over USB a report not yet requested is later than the endpoint's.         *)

AnswerInv ==
  \A t \in Tasks :
    /\ pc[t] = "attach" => answers[t] = 0
    /\ pc[t] \in Attached \cup {"attach"} => ~ret[t]
    /\ pc[t] \in Attached => answers[t] = IF waiter = t THEN 0 ELSE 1
    /\ pc[t] \in {"request", "wait"} /\ notif[t] => waiter # t

\* All reports the host or BTstack took come before report n.
Below(n) == \A i \in 1..Len(handed) : handed[i] < n

\* A report has been copied, or is in the endpoint, before it is handed over.
HandedInv ==
  /\ Below(report + 1)
  /\ ep <= report /\ (ep # 0 => kind = "usb" /\ Below(ep))
  /\ copied <= report /\ (kind = "ble" => Below(copied + 1))
  /\ (canSend => kind = "ble") /\ (done => kind = "usb")
  /\ handing => kind = "ble" /\ Below(copied)

\* The report of a sender that is attached is the last one, and has not been
\* requested over USB, or copied over BLE, before it is time.
SenderInv ==
  \A t \in Tasks :
    /\ pc[t] \in Attached => mine[t] = report
    /\ kind = "usb" /\ pc[t] \in {"clear", "request"} => ep < report /\ Below(report)
    /\ kind = "ble" /\ pc[t] \in Attached =>
         IF waiter = t THEN copied < report ELSE copied = report

IInv ==
  /\ TypeOK /\ WaiterIsSender /\ AnswerInv /\ TrueMeansAnswered
  /\ ReportsInOrder /\ HandedInv /\ SenderInv

\* What the stack does to the senders: it answers the waiter, or nothing.
Answer ==
  \/ UNCHANGED <<notif, answers, waiter>>
  \/ AnswerWaiter

LEMMA InitIInv == Init => IInv
<1> SUFFICES ASSUME Init PROVE IInv
  OBVIOUS
<1>1. \A t \in Tasks : pc[t] = "idle" /\ repLock # t
  BY TasksAssumption DEF Init, TasksAssumption
<1>2. TypeOK
  <2>1. handed \in Seq(Nat)
    BY DEF Init
  <2>2. report \in Nat /\ ep \in Nat /\ copied \in Nat /\ mine \in [Tasks -> Nat]
        /\ answers \in [Tasks -> Nat]
    BY DEF Init
  <2> QED BY <1>1, <2>1, <2>2 DEF Init, TypeOK, Attached
<1>3. Len(handed) = 0
  BY DEF Init
<1> QED BY <1>1, <1>2, <1>3 DEF Init, IInv, WaiterIsSender, AnswerInv, TrueMeansAnswered, Attached,
        ReportsInOrder, HandedInv, SenderInv, Below

\* Every action of the stack is an answer to the senders.
LEMMA StackAnswers ==
  ASSUME Stack PROVE Answer /\ UNCHANGED <<kind, senderVars>>
  BY DEF Stack, Answer, TransferDone, ReportComplete, BusDown, BusUp,
     CanSendNow, HandOver, ConnectionGone, ReportEnable, AnswerWaiter, senderVars, usbVars, bleVars

\* Types
LEMMA TypeStep ==
  ASSUME TypeOK, Next PROVE TypeOK'
<1> USE TasksAssumption DEF TasksAssumption
<1>1. CASE Stack
  <2>1. Answer /\ UNCHANGED <<kind, senderVars>>
    BY <1>1, StackAnswers
  <2>2. notif' \in [Tasks -> BOOLEAN] /\ answers' \in [Tasks -> Nat]
        /\ waiter' \in Tasks \cup {NULL}
    <3>1. notif \in [Tasks -> BOOLEAN] /\ answers \in [Tasks -> Nat]
          /\ waiter \in Tasks \cup {NULL}
      BY DEF TypeOK
    <3>2. CASE AnswerWaiter
      <4>1. waiter' = NULL
        BY <3>2 DEF AnswerWaiter
      <4>2. notif' = notif \/ notif' = [notif EXCEPT ![waiter] = TRUE]
        BY <3>2 DEF AnswerWaiter
      <4>3. answers' = answers \/ answers' = [answers EXCEPT ![waiter] = @ + 1]
        BY <3>2 DEF AnswerWaiter
      <4>4. notif' \in [Tasks -> BOOLEAN]
        BY <3>1, <4>2
      <4>5. answers' \in [Tasks -> Nat]
        BY <3>1, <4>3
      <4> QED BY <4>1, <4>4, <4>5
    <3> QED BY <2>1, <3>1, <3>2 DEF Answer
  <2>3. mounted' \in BOOLEAN /\ done' \in BOOLEAN /\ handle' \in BOOLEAN
        /\ canSend' \in BOOLEAN /\ live' \in BOOLEAN /\ handing' \in BOOLEAN
    BY <1>1 DEF TypeOK, Stack, TransferDone, ReportComplete, BusDown, BusUp,
       CanSendNow, HandOver, ConnectionGone, ReportEnable, usbVars, bleVars
  <2>4. ep' \in Nat /\ copied' \in Nat /\ handed' \in Seq(Nat)
    <3>1. ep \in Nat /\ copied \in Nat /\ report \in Nat /\ handed \in Seq(Nat)
      BY DEF TypeOK
    <3>2. ep' \in {0, ep} /\ copied' \in {copied, report}
      BY <1>1 DEF Stack, TransferDone, ReportComplete, BusDown, BusUp,
         CanSendNow, HandOver, ConnectionGone, ReportEnable, usbVars, bleVars
    <3>3. handed' \in {handed, Append(handed, ep), Append(handed, copied)}
      BY <1>1 DEF Stack, TransferDone, ReportComplete, BusDown, BusUp,
         CanSendNow, HandOver, HandTo, ConnectionGone, ReportEnable
    <3>4. Append(handed, ep) \in Seq(Nat) /\ Append(handed, copied) \in Seq(Nat)
      BY <3>1
    <3>5. handed' \in Seq(Nat)
      BY <3>1, <3>3, <3>4
    <3>6. ep' \in Nat /\ copied' \in Nat
      BY <3>1, <3>2
    <3> QED BY <3>5, <3>6
  <2> QED BY <2>1, <2>2, <2>3, <2>4 DEF TypeOK, senderVars
<1>2. ASSUME NEW t \in Tasks, Call(t) PROVE TypeOK'
  BY <1>2 DEF TypeOK, Call, Goto, Attached, usbVars, bleVars
<1>3. ASSUME NEW t \in Tasks, TakeRepLock(t) PROVE TypeOK'
  BY <1>3 DEF TypeOK, TakeRepLock, Goto, Attached, usbVars, bleVars
<1>4. ASSUME NEW t \in Tasks, Attach(t) PROVE TypeOK'
  <2>1. report \in Nat /\ mine \in [Tasks -> Nat]
    BY DEF TypeOK
  <2>2. report' \in Nat /\ mine' \in [Tasks -> Nat]
    BY <1>4, <2>1 DEF Attach
  <2>3. waiter' \in Tasks \cup {NULL} /\ repLock' = repLock
        /\ \E place \in {"clear", "release"} : pc' = [pc EXCEPT ![t] = place]
    BY <1>4 DEF TypeOK, Attach, Goto
  <2>4. pc' \in [Tasks -> {"idle", "lock", "attach", "release"} \cup Attached]
    BY <2>3 DEF TypeOK, Attached
  <2>5. repLock = t
    BY <1>4 DEF TypeOK, Attach
  <2>6. \A u \in Tasks : pc'[u] \notin {"idle", "lock"} <=> repLock' = u
    BY <2>3, <2>5 DEF TypeOK
  <2> QED BY <1>4, <2>2, <2>3, <2>4, <2>6 DEF TypeOK, Attach, usbVars, bleVars
<1>5. ASSUME NEW t \in Tasks, Clear(t) PROVE TypeOK'
  BY <1>5 DEF TypeOK, Clear, Goto, Attached, usbVars, bleVars
<1>6. ASSUME NEW t \in Tasks, Request(t) PROVE TypeOK'
  BY <1>6 DEF TypeOK, Request, Goto, Attached, usbVars, bleVars
<1>7. ASSUME NEW t \in Tasks, Woken(t) PROVE TypeOK'
  BY <1>7 DEF TypeOK, Woken, Goto, Attached, usbVars, bleVars
<1>8. ASSUME NEW t \in Tasks, Expire(t) PROVE TypeOK'
  BY <1>8 DEF TypeOK, Expire, Goto, Attached, usbVars, bleVars
<1>9. ASSUME NEW t \in Tasks, Detach(t) PROVE TypeOK'
  BY <1>9 DEF TypeOK, Detach, Goto, Attached, usbVars, bleVars
<1>10. ASSUME NEW t \in Tasks, Release(t) PROVE TypeOK'
  BY <1>10 DEF TypeOK, Release, Goto, Attached, usbVars, bleVars
<1> QED BY <1>1, <1>2, <1>3, <1>4, <1>5, <1>6, <1>7, <1>8, <1>9, <1>10 DEF Next, Send

-----------------------------------------------------------------------------
(* The senders and their notifications *)

\* The part of TrueMeansAnswered that counts notifications.
Notified == \A t \in Tasks : pc[t] = "release" /\ ret[t] => answers[t] = 1

Rest == WaiterIsSender /\ AnswerInv /\ Notified

LEMMA RestStep ==
  ASSUME IInv, Next PROVE Rest'
<1> Rest /\ TypeOK
  BY DEF IInv, Rest, Notified, TrueMeansAnswered
<1> USE TasksAssumption DEF TasksAssumption, TypeOK, Rest, WaiterIsSender, AnswerInv, Notified,
        Attached
<1>1. CASE Stack
  <2>1. Answer /\ UNCHANGED <<kind, senderVars>>
    BY <1>1, StackAnswers
  <2>2. CASE waiter = NULL
    BY <2>1, <2>2 DEF Answer, AnswerWaiter, senderVars
  <2>3. CASE UNCHANGED <<notif, answers, waiter>>
    BY <2>1, <2>3 DEF senderVars
  <2>4. CASE waiter # NULL /\ AnswerWaiter
    BY <2>1, <2>4 DEF AnswerWaiter, senderVars
  <2> QED BY <2>1, <2>2, <2>3, <2>4 DEF Answer
<1>2. ASSUME NEW t \in Tasks, Call(t) PROVE Rest'
  BY <1>2 DEF Call, Goto
<1>3. ASSUME NEW t \in Tasks, TakeRepLock(t) PROVE Rest'
  BY <1>3 DEF TakeRepLock, Goto
<1>4. ASSUME NEW t \in Tasks, Attach(t) PROVE Rest'
  BY <1>4 DEF Attach, Goto
<1>5. ASSUME NEW t \in Tasks, Clear(t) PROVE Rest'
  BY <1>5 DEF Clear, Goto
<1>6. ASSUME NEW t \in Tasks, Request(t) PROVE Rest'
  BY <1>6 DEF Request, Goto
<1>7. ASSUME NEW t \in Tasks, Woken(t) PROVE Rest'
  BY <1>7 DEF Woken, Goto
<1>8. ASSUME NEW t \in Tasks, Expire(t) PROVE Rest'
  BY <1>8 DEF Expire, Goto
<1>9. ASSUME NEW t \in Tasks, Detach(t) PROVE Rest'
  BY <1>9 DEF Detach, Goto
<1>10. ASSUME NEW t \in Tasks, Release(t) PROVE Rest'
  BY <1>10 DEF Release, Goto
<1> QED BY <1>1, <1>2, <1>3, <1>4, <1>5, <1>6, <1>7, <1>8, <1>9, <1>10 DEF Next, Send

-----------------------------------------------------------------------------
(* The reports *)

\* What is handed over after all that came before stays in order.
LEMMA AppendInOrder ==
  ASSUME handed \in Seq(Nat), NEW r \in Nat, Below(r), ReportsInOrder,
         handed' = Append(handed, r)
  PROVE  /\ ReportsInOrder'
         /\ \A n \in Nat : r < n => \A i \in 1..Len(handed') : handed'[i] < n
<1>1. /\ Len(handed') = Len(handed) + 1 /\ Len(handed) \in Nat
      /\ handed'[Len(handed) + 1] = r
      /\ \A i \in 1..Len(handed) : handed'[i] = handed[i] /\ handed[i] \in Nat
  OBVIOUS
<1>2. ASSUME NEW i \in 1..Len(handed'), NEW j \in 1..Len(handed'), i < j
      PROVE  handed'[i] < handed'[j]
  <2>1. i \in 1..Len(handed)
    BY <1>1, <1>2
  <2>2. CASE j = Len(handed) + 1
    BY <1>1, <2>1, <2>2 DEF Below
  <2>3. CASE j \in 1..Len(handed)
    BY <1>1, <1>2, <2>1, <2>3 DEF ReportsInOrder
  <2> QED BY <1>1, <2>2, <2>3
<1>3. \A n \in Nat : r < n => \A i \in 1..Len(handed') : handed'[i] < n
  BY <1>1 DEF Below
<1> QED BY <1>2, <1>3 DEF ReportsInOrder

\* The reports keep their order in a step that hands none over.
LEMMA SameHanded ==
  ASSUME UNCHANGED handed, ReportsInOrder
  PROVE  ReportsInOrder'
  BY DEF ReportsInOrder

\* A sender told TRUE over BLE has had its report copied.
Copied == \A t \in Tasks :
  kind = "ble" /\ pc[t] = "release" /\ ret[t] => copied = mine[t]

Reports == HandedInv /\ SenderInv /\ Copied

\* A step of the stack that neither hands a report over nor copies one.
LEMMA QuietStep ==
  ASSUME IInv, ReportComplete \/ BusDown \/ BusUp \/ ConnectionGone \/ ReportEnable
  PROVE  Reports'
<1> USE TasksAssumption DEF TasksAssumption, IInv, TypeOK, WaiterIsSender, TrueMeansAnswered, Attached,
        HandedInv, SenderInv, Copied, Reports, Below, senderVars, usbVars, bleVars
<1>1. CASE ReportComplete
  BY <1>1 DEF ReportComplete, AnswerWaiter
<1>2. CASE BusDown \/ BusUp
  BY <1>2 DEF BusDown, BusUp
<1>3. CASE ConnectionGone
  BY <1>3 DEF ConnectionGone
<1>4. CASE ReportEnable
  BY <1>4 DEF ReportEnable
<1> QED BY <1>1, <1>2, <1>3, <1>4

\* The host takes the report in the endpoint.
LEMMA TransferStep ==
  ASSUME IInv, TransferDone PROVE Reports' /\ ReportsInOrder'
<1> USE DEF IInv, TypeOK
<1>1. kind = "usb" /\ ep \in Nat /\ Below(ep) /\ ep <= report /\ report \in Nat
  BY DEF HandedInv, TransferDone
<1>2. /\ ReportsInOrder'
      /\ \A n \in Nat : ep < n => \A i \in 1..Len(handed') : handed'[i] < n
  BY <1>1, AppendInOrder DEF TransferDone
<1>3. report + 1 \in Nat /\ ep < report + 1 /\ report' = report
  BY <1>1 DEF TransferDone, senderVars
<1>4. Below(report + 1)'
  BY <1>2, <1>3 DEF Below
<1>5. ASSUME NEW t \in Tasks, pc[t] \in {"clear", "request"} PROVE Below(report)'
  BY <1>1, <1>2, <1>3, <1>5 DEF Below, SenderInv
<1> QED BY <1>1, <1>2, <1>3, <1>4, <1>5
     DEF TransferDone, Reports, HandedInv, SenderInv, Copied, TrueMeansAnswered, senderVars, bleVars

\* The handler copies the report of the waiter.
LEMMA CopyStep ==
  ASSUME IInv, CanSendNow PROVE Reports'
<1> USE TasksAssumption DEF TasksAssumption, IInv, TypeOK, WaiterIsSender, TrueMeansAnswered, Attached,
        HandedInv, SenderInv, Copied, Reports, CanSendNow, AnswerWaiter, senderVars, usbVars
<1>1. kind = "ble"
  OBVIOUS
<1>2. CASE waiter = NULL
  BY <1>1, <1>2 DEF Below
<1>3. CASE waiter # NULL
  <2>1. copied < report /\ repLock = waiter /\ pc[waiter] \in Attached
    BY <1>1, <1>3
  <2>2. Below(copied + 1) /\ Below(report + 1) /\ UNCHANGED <<handed, report>> /\ copied' = report
    BY <1>1, <1>3
  <2>3. Below(copied)' /\ Below(copied + 1)' /\ Below(report + 1)'
    BY <2>1, <2>2 DEF Below
  <2>4. SenderInv' /\ Copied'
    BY <1>1, <1>3, <2>1, <2>2
  <2> QED BY <1>1, <1>3, <2>2, <2>3, <2>4
<1> QED BY <1>2, <1>3

\* The handler hands its copy over.
LEMMA HandOverStep ==
  ASSUME IInv, HandOver PROVE Reports' /\ ReportsInOrder'
<1> USE DEF IInv, TypeOK
<1>1. kind = "ble" /\ copied \in Nat /\ Below(copied) /\ copied <= report /\ report \in Nat
      /\ ep = 0
  BY DEF HandedInv, HandOver
<1>2. CASE UNCHANGED handed
  BY <1>1, <1>2, SameHanded
     DEF HandOver, Reports, HandedInv, SenderInv, Copied, TrueMeansAnswered, Below, senderVars, usbVars
<1>3. CASE handed' = Append(handed, copied)
  <2>1. /\ ReportsInOrder'
        /\ \A n \in Nat : copied < n => \A i \in 1..Len(handed') : handed'[i] < n
    BY <1>1, <1>3, AppendInOrder
  <2>2. UNCHANGED <<report, copied>> /\ copied < copied + 1 /\ copied < report + 1
        /\ copied + 1 \in Nat /\ report + 1 \in Nat
    BY <1>1 DEF HandOver, senderVars
  <2>3. Below(report + 1)' /\ Below(copied + 1)'
    BY <2>1, <2>2 DEF Below
  <2> QED BY <1>1, <2>1, <2>2, <2>3
       DEF HandOver, Reports, HandedInv, SenderInv, Copied, TrueMeansAnswered, senderVars, usbVars
<1> QED BY <1>2, <1>3 DEF HandOver, HandTo

\* The steps of a sender.
LEMMA SenderStep ==
  ASSUME IInv, NEW t \in Tasks, Call(t) \/ Send(t) PROVE Reports' /\ UNCHANGED handed
<1> UNCHANGED <<kind, handed>> /\ handed \in Seq(Nat) /\ report \in Nat /\ ep \in Nat
    /\ copied \in Nat /\ pc \in [Tasks -> {"idle", "lock", "attach", "release"} \cup Attached]
    /\ ret \in [Tasks -> BOOLEAN] /\ mine \in [Tasks -> Nat]
  BY DEF IInv, TypeOK, Call, Send, TakeRepLock, Attach, Clear, Request, Woken, Expire, Detach, Release
<1>1. CASE UNCHANGED <<report, mine, usbVars, bleVars>>
  <2>1. HandedInv'
    BY <1>1 DEF IInv, HandedInv, Below, usbVars, bleVars
  <2> USE TasksAssumption DEF TasksAssumption, IInv, TypeOK, WaiterIsSender, AnswerInv, Attached,
          TrueMeansAnswered, SenderInv, Copied, Below, Goto, usbVars, bleVars
  <2>2. CASE Call(t)
    BY <1>1, <2>1, <2>2 DEF Call, Reports
  <2>3. CASE TakeRepLock(t)
    BY <1>1, <2>1, <2>3 DEF TakeRepLock, Reports
  <2>4. CASE Attach(t)
    BY <1>1, <2>1, <2>4 DEF Attach, Reports
  <2>5. CASE Clear(t) \/ Request(t)
    BY <1>1, <2>1, <2>5 DEF Clear, Request, Reports
  <2>6. CASE Woken(t)
    BY <1>1, <2>1, <2>6 DEF Woken, Reports
  <2>7. CASE Expire(t) \/ Detach(t) \/ Release(t)
    BY <1>1, <2>1, <2>7 DEF Expire, Detach, Release, Reports
  <2> QED BY <2>2, <2>3, <2>4, <2>5, <2>6, <2>7 DEF Send
<1>2. CASE Attach(t) /\ (kind = "usb" \/ handle)
  <2>1. report' = report + 1 /\ UNCHANGED <<ep, copied, handing, canSend, done>> /\ waiter' = t
        /\ mine' = [mine EXCEPT ![t] = report + 1] /\ pc' = [pc EXCEPT ![t] = "clear"]
        /\ UNCHANGED ret /\ repLock = t
    BY <1>2 DEF Attach, Goto, usbVars, bleVars, IInv, TypeOK
  <2>2. Below(report + 1) /\ ep <= report /\ copied <= report
    BY DEF IInv, HandedInv
  <2>3. Below(report)' /\ Below(report + 1)' /\ ep' < report' /\ copied' < report'
    BY <2>1, <2>2 DEF Below
  <2>4. HandedInv'
    BY <2>1, <2>3 DEF IInv, HandedInv, Below
  <2>5. \A u \in Tasks : u # t => pc[u] \in {"idle", "lock"}
    BY <2>1 DEF IInv, TypeOK
  <2>6. SenderInv' /\ Copied'
    BY <2>1, <2>3, <2>5 DEF SenderInv, Copied, Attached
  <2> QED BY <2>4, <2>6 DEF Reports
<1>3. CASE Request(t)
  <2>1. UNCHANGED <<report, mine, ret, waiter, copied, handing, done>> /\ repLock = t
        /\ ep' = (IF kind = "usb" /\ mounted /\ ep = 0 THEN mine[t] ELSE ep)
        /\ pc' = [pc EXCEPT ![t] = "wait"] /\ (canSend' => canSend \/ kind = "ble")
        /\ pc[t] = "request"
    BY <1>3 DEF Request, Goto, IInv, TypeOK
  <2>2. mine[t] = report /\ (kind = "usb" => Below(report))
    BY <2>1 DEF IInv, SenderInv, Attached
  <2>3. HandedInv'
    BY <2>1, <2>2 DEF IInv, HandedInv, Below
  <2>4. \A u \in Tasks : u # t => pc[u] \in {"idle", "lock"}
    BY <2>1 DEF IInv, TypeOK
  <2>5. SenderInv' /\ Copied'
    BY <2>1, <2>2, <2>4 DEF SenderInv, Copied, Attached, IInv
  <2> QED BY <2>3, <2>5 DEF Reports
<1> QED BY <1>1, <1>2, <1>3 DEF Call, Send, TakeRepLock, Attach, Clear, Request, Woken, Expire,
     Detach, Release, bleVars, usbVars

LEMMA ReportsStep ==
  ASSUME IInv, Next PROVE Reports' /\ ReportsInOrder'
<1>1. CASE TransferDone
  BY <1>1, TransferStep
<1>2. CASE HandOver
  BY <1>2, HandOverStep
<1>3. CASE CanSendNow
  <2>1. ReportsInOrder'
    BY <1>3, SameHanded DEF CanSendNow, IInv
  <2> QED BY <1>3, <2>1, CopyStep
<1>4. CASE ReportComplete \/ BusDown \/ BusUp \/ ConnectionGone \/ ReportEnable
  <2>1. ReportsInOrder'
    BY <1>4, SameHanded DEF IInv, ReportComplete, BusDown, BusUp, ConnectionGone, ReportEnable
  <2> QED BY <1>4, <2>1, QuietStep
<1>5. CASE \E t \in Tasks : Call(t) \/ Send(t)
  <2>1. Reports' /\ UNCHANGED handed
    BY <1>5, SenderStep
  <2> QED BY <2>1, SameHanded DEF IInv
<1> QED BY <1>1, <1>2, <1>3, <1>4, <1>5 DEF Next, Stack

-----------------------------------------------------------------------------
LEMMA IInvStep ==
  ASSUME IInv, [Next]_vars PROVE IInv'
<1>1. CASE Next
  <2>1. TypeOK' /\ Rest' /\ Reports' /\ ReportsInOrder'
    BY <1>1, TypeStep, RestStep, ReportsStep DEF IInv
  <2> QED BY <2>1 DEF IInv, Rest, Notified, Reports, Copied, TrueMeansAnswered
<1>2. CASE UNCHANGED vars
  BY <1>2 DEF vars, senderVars, usbVars, bleVars, IInv, TypeOK, WaiterIsSender,
     AnswerInv, TrueMeansAnswered, ReportsInOrder, HandedInv, SenderInv, Below, Attached
<1> QED BY <1>1, <1>2

LEMMA IInvCorrect == Spec => []IInv
  BY InitIInv, IInvStep, PTL DEF Spec

-----------------------------------------------------------------------------
(* Theorems *)

\* The variables of both senders and stacks keep their types, and exactly the
\* task that is inside report_send holds rep_lock.
THEOREM TypeCorrect == Spec => []TypeOK
  BY IInvCorrect, PTL DEF IInv

\* A callback never wakes a task that is not waiting for a report.
THEOREM WaiterCorrect == Spec => []WaiterIsSender
  BY IInvCorrect, PTL DEF IInv

\* send returns true only when this call was notified, which over BLE means
\* that its own report has been copied for sending.
THEOREM AnswerCorrect == Spec => []TrueMeansAnswered
  BY IInvCorrect, PTL DEF IInv

\* Reports are handed over in order, each at most once, though BLE's handler
\* hands over its copy without the lock.
THEOREM OrderCorrect == Spec => []ReportsInOrder
  BY IInvCorrect, PTL DEF IInv

\* A step that notifies a call is the first to do so, while the call waits.
LEMMA AnswerStep ==
  ASSUME IInv, [Next]_vars, NEW t \in Tasks, answers'[t] > answers[t]
  PROVE  answers[t] = 0 /\ pc[t] \in Attached
<1> USE TasksAssumption DEF TasksAssumption, IInv, TypeOK
<1>1. ~UNCHANGED answers
  BY DEF IInv
<1>2. CASE Stack
  <2>1. waiter # NULL /\ answers' = [answers EXCEPT ![waiter] = @ + 1]
    BY <1>1, <1>2, StackAnswers DEF Answer, AnswerWaiter
  <2>2. waiter = t
    BY <2>1
  <2> QED BY <2>2 DEF WaiterIsSender, AnswerInv
<1>3. CASE \E u \in Tasks : TakeRepLock(u)
  BY <1>3 DEF TakeRepLock
<1> QED BY <1>1, <1>2, <1>3 DEF Next, Send, Call, Attach, Clear, Request, Woken, Expire,
        Detach, Release, vars

\* A step that copies a report copies that of a sender still attached.
LEMMA CopiedStep ==
  ASSUME IInv, [Next]_vars, copied' # copied
  PROVE  \E t \in Tasks : pc[t] \in Attached /\ copied' = mine[t]
<1>1. CanSendNow
  BY DEF Next, Stack, TransferDone, ReportComplete, BusDown, BusUp, HandOver,
     ConnectionGone, ReportEnable, Send, Call, TakeRepLock, Attach, Clear, Request, Woken,
     Expire, Detach, Release, vars, usbVars, bleVars
<1>2. waiter # NULL /\ copied' = report
  BY <1>1 DEF CanSendNow
<1>3. waiter \in Tasks /\ pc[waiter] \in Attached
  BY <1>2 DEF IInv, TypeOK, WaiterIsSender
<1>4. mine[waiter] = report
  BY <1>3 DEF IInv, SenderInv
<1> QED BY <1>2, <1>3, <1>4

\* No call is notified twice, and none after it detached; no report is copied
\* for BTstack once its sender has.
THEOREM OnceCorrect == Spec => AnsweredOnceInside
<1>1. IInv /\ [Next]_vars =>
        [/\ \A t \in Tasks :
              answers'[t] > answers[t] => answers[t] = 0 /\ pc[t] \in Attached
         /\ copied' # copied =>
              \E t \in Tasks : pc[t] \in Attached /\ copied' = mine[t]]_vars
  BY AnswerStep, CopiedStep
<1> QED BY <1>1, IInvCorrect, PTL DEF Spec, AnsweredOnceInside
=============================================================================
