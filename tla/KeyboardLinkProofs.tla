-------------------------- MODULE KeyboardLinkProofs --------------------------
(* KeyboardLink implements KeyChannel, for every number of channels, every   *)
(* capacity of the sockets and any number of keys and restarts.              *)
EXTENDS KeyboardLink, QueueLemmas

-----------------------------------------------------------------------------
(* The inductive invariant.  What matters of the packets that are somewhere: *)
(* no host packet acknowledges the device's last packet before that packet   *)
(* was accepted, and accepting it makes every packet that answered the       *)
(* host's last one out of date.                                              *)

DevPkts  == {dtx} \cup {m.pkt : m \in Range(hq)}
HostPkts == {htx} \cup {m.pkt : m \in Range(dq)}

\* The device still waits for an acknowledgement nobody has sent.
Unacked == dpc # "wait" /\ \A h \in HostPkts : h.resp # dtx.id

AckInv == hpc = "ack" => hleft >= 1

\* A packet the host would accept carries the last key, not printed yet.
AnswerInv ==
  hpc # "scan" =>
    \A p \in DevPkts :
      p.resp = htx.id => p.key = typed /\ printed < typed /\ Unacked

SessionInv == InSession => printed = typed \/ Unacked

IInv == TypeOK /\ AckInv /\ AnswerInv /\ SessionInv

-----------------------------------------------------------------------------
(* Helpers *)

\* A fresh nonce is in no packet and answered by none.
LEMMA Fresh ==
  ASSUME HasFresh
  PROVE  /\ FreshNonce \in Nonces /\ FreshNonce # drx
         /\ \A p \in DevPkts \cup HostPkts : p.id # FreshNonce /\ p.resp # FreshNonce
<1>1. FreshNonce \in Nonces /\ FreshNonce \notin Remembered
  BY DEF HasFresh, FreshNonce
<1>2. \A p \in DevPkts \cup HostPkts : p.id \in Remembered /\ p.resp \in Remembered
  <2> DEFINE P == {dtx, htx} \cup {m.pkt : m \in Range(dq) \cup Range(hq)}
  <2>1. \A p \in P : {p.id, p.resp} \subseteq Remembered
    BY DEF Remembered
  <2>2. DevPkts \cup HostPkts \subseteq P
    BY DEF DevPkts, HostPkts
  <2> QED BY <2>1, <2>2
<1>3. drx \in Remembered
  BY DEF Remembered
<1> QED BY <1>1, <1>2, <1>3

\* Sending adds at most the packet sent, and keeps the socket within its size.
LEMMA SentQueue ==
  ASSUME NEW P, NEW q \in Seq(Datagrams(P)), Len(q) <= QUEUE,
         NEW c \in Chans, NEW p \in P
  PROVE  /\ Sent(q, c, p) \in Seq(Datagrams(P)) /\ Len(Sent(q, c, p)) <= QUEUE
         /\ {m.pkt : m \in Range(Sent(q, c, p))} \subseteq {m.pkt : m \in Range(q)} \cup {p}
<1> DEFINE e == [chan |-> c, pkt |-> p]
<1>1. e \in Datagrams(P) /\ e.pkt = p
  BY DEF Datagrams
<1>2. QUEUE \in Nat
  BY LinkAssumption DEF LinkAssumption
<1>3. CASE Len(q) < QUEUE
  <2>1. Sent(q, c, p) = Append(q, e)
    BY <1>3 DEF Sent
  <2>2. Append(q, e) \in Seq(Datagrams(P)) /\ Len(Append(q, e)) <= QUEUE
    BY <1>1, <1>2, <1>3, BoundedQueue
  <2>3. Range(Append(q, e)) = Range(q) \cup {e}
    BY <1>1, AppendQueue
  <2> HIDE DEF e
  <2> QED BY <1>1, <2>1, <2>2, <2>3
<1>4. CASE ~(Len(q) < QUEUE)
  BY <1>4 DEF Sent
<1> QED BY <1>3, <1>4

\* Reading takes the first datagram.
LEMMA TakenQueue ==
  ASSUME NEW P, NEW q \in Seq(Datagrams(P)), Len(q) <= QUEUE, q # <<>>
  PROVE  /\ Tail(q) \in Seq(Datagrams(P)) /\ Len(Tail(q)) <= QUEUE
         /\ {m.pkt : m \in Range(Tail(q))} \subseteq {m.pkt : m \in Range(q)}
         /\ Head(q).pkt \in P /\ Head(q).pkt \in {m.pkt : m \in Range(q)}
<1>1. QUEUE \in Nat
  BY LinkAssumption DEF LinkAssumption
<1>2. Tail(q) \in Seq(Datagrams(P)) /\ Len(Tail(q)) <= QUEUE
  BY <1>1, BoundedQueue
<1>3. /\ Head(q) \in Datagrams(P) /\ Head(q) \in Range(q)
      /\ Range(Tail(q)) \subseteq Range(q)
  BY TailQueue
<1>4. Head(q).pkt \in P
  BY <1>3 DEF Datagrams
<1> QED BY <1>2, <1>3, <1>4

LEMMA EmptySocket ==
  ASSUME NEW P
  PROVE  <<>> \in Seq(Datagrams(P)) /\ Len(<<>>) <= QUEUE /\ {m.pkt : m \in Range(<<>>)} = {}
<1>1. QUEUE \in Nat
  BY LinkAssumption DEF LinkAssumption
<1> QED BY <1>1, EmptyQueue

\* The next channel of the scan is one.
LEMMA NextChan ==
  ASSUME NEW c \in Chans PROVE (c + 1) % CHANS \in Chans
  BY LinkAssumption DEF LinkAssumption, Chans

-----------------------------------------------------------------------------
(* Every step, as far as packets go: what it adds to the packets that are    *)
(* somewhere is the packet its side holds.                                   *)

\* Typing of the sockets, by step.
LEMMA SocketStep ==
  ASSUME TypeOK, Next
  PROVE  /\ hq' \in Seq(Datagrams(DevPackets)) /\ Len(hq') <= QUEUE
         /\ dq' \in Seq(Datagrams(HostPackets)) /\ Len(dq') <= QUEUE
         /\ DevPkts' \subseteq DevPkts \cup {dtx'}
         /\ HostPkts' \subseteq HostPkts \cup {htx'}
<1> USE DEF TypeOK
<1> DEFINE Hq == /\ hq' \in Seq(Datagrams(DevPackets)) /\ Len(hq') <= QUEUE
                 /\ DevPkts' \subseteq DevPkts \cup {dtx'}
           Dq == /\ dq' \in Seq(Datagrams(HostPackets)) /\ Len(dq') <= QUEUE
                 /\ HostPkts' \subseteq HostPkts \cup {htx'}
<1>1. ASSUME hq' = hq \/ hq' = <<>> \/ (hq # <<>> /\ hq' = Tail(hq))
             \/ (hq' = Sent(hq, dchan, dtx))
      PROVE  Hq
  <2>1. CASE hq' = hq
    BY <2>1 DEF DevPkts
  <2>2. CASE hq' = <<>>
    BY <2>2, EmptySocket DEF DevPkts
  <2>3. CASE hq # <<>> /\ hq' = Tail(hq)
    BY <2>3, TakenQueue DEF DevPkts
  <2>4. CASE hq' = Sent(hq, dchan, dtx)
    BY <2>4, SentQueue DEF DevPkts
  <2> QED BY <1>1, <2>1, <2>2, <2>3, <2>4
<1>2. ASSUME \/ dq' = dq \/ dq' = <<>> \/ (dq # <<>> /\ dq' = Tail(dq))
             \/ \E c \in Chans : htx \in HostPackets /\ dq' = Sent(dq, c, htx)
      PROVE  Dq
  <2>1. CASE dq' = dq
    BY <2>1 DEF HostPkts
  <2>2. CASE dq' = <<>>
    BY <2>2, EmptySocket DEF HostPkts
  <2>3. CASE dq # <<>> /\ dq' = Tail(dq)
    BY <2>3, TakenQueue DEF HostPkts
  <2>4. ASSUME NEW c \in Chans, htx \in HostPackets, dq' = Sent(dq, c, htx)
        PROVE  Dq
    BY <2>4, SentQueue DEF HostPkts
  <2> QED BY <1>2, <2>1, <2>2, <2>3, <2>4
<1> HIDE DEF Hq, Dq
<1> SUFFICES Hq /\ Dq
  BY DEF Hq, Dq
<1>3. CASE DeviceSend
  BY <1>1, <1>2, <1>3 DEF DeviceSend
<1>4. CASE HostAck
  BY <1>1, <1>2, <1>4 DEF HostAck
<1>5. CASE HostSend
  BY <1>1, <1>2, <1>5 DEF HostSend
<1>6. CASE ~DeviceSend /\ ~HostAck /\ ~HostSend
  <2>1. /\ hq' = hq \/ hq' = <<>> \/ (hq # <<>> /\ hq' = Tail(hq))
        /\ dq' = dq \/ dq' = <<>> \/ (dq # <<>> /\ dq' = Tail(dq))
    BY <1>6 DEF Next, Device, Host, DeviceTune, DeviceTake, DeviceTimeout, DeviceType,
       DeviceRestart, HostTune, HostTake, HostTimeout, HostRestart
  <2> QED BY <1>1, <1>2, <2>1
<1> QED BY <1>3, <1>4, <1>5, <1>6

-----------------------------------------------------------------------------
(* What the two sides do with a packet. *)

\* The packet a host accepts is one of the device's.
LEMMA HostReceived ==
  ASSUME TypeOK, HostTake
  PROVE  Head(hq).pkt \in DevPackets /\ Head(hq).pkt \in DevPkts
<1>1. hq # <<>> /\ hq \in Seq(Datagrams(DevPackets)) /\ Len(hq) <= QUEUE
  BY DEF HostTake, TypeOK
<1> QED BY <1>1, TakenQueue DEF DevPkts

\* The packet a device accepts is one of the host's.
LEMMA DeviceReceived ==
  ASSUME TypeOK, DeviceTake
  PROVE  Head(dq).pkt \in HostPackets /\ Head(dq).pkt \in HostPkts
<1>1. dq # <<>> /\ dq \in Seq(Datagrams(HostPackets)) /\ Len(dq) <= QUEUE
  BY DEF DeviceTake, TypeOK
<1> QED BY <1>1, TakenQueue DEF HostPkts

\* A new acknowledgement is answered by no packet.
LEMMA Acknowledged ==
  ASSUME NEW p \in DevPackets, Acknowledge(p)
  PROVE  htx' \in HostPackets /\ \A d \in DevPkts : d.resp # htx'.id
<1>1. PICK c \in Chans : htx' = [id |-> FreshNonce, resp |-> p.id, next |-> c]
  BY DEF Acknowledge
<1>2. FreshNonce \in Nonces /\ \A d \in DevPkts : d.resp # FreshNonce
  BY Fresh DEF Acknowledge
<1>3. p.id \in Nonces
  BY DEF DevPackets
<1> QED BY <1>1, <1>2, <1>3 DEF HostPackets

\* A packet that ends a poll of the host is accepted with a new
\* acknowledgement, or leaves the host's packet as it is.
LEMMA HostOutcome ==
  ASSUME IInv, HostTake
  PROVE  \/ UNCHANGED <<hostVars, userVars>>
         \/ /\ ScanAccept(Head(hq).pkt) /\ hpc = "scan"
         \/ /\ RunAccept(Head(hq).pkt) /\ hpc # "scan" /\ Head(hq).pkt.resp = htx.id
            /\ Head(hq).pkt.key = typed /\ printed < typed
         \/ ScanNext /\ UNCHANGED userVars
         \/ /\ hpc = "poll" /\ hpc' = "send"
            /\ UNCHANGED <<hscan, hleft, htx, hchan, htuned, userVars>>
<1> DEFINE p == Head(hq).pkt
<1>1. p \in DevPkts
  BY HostReceived DEF IInv
<1>2. HostAccept(p) \/ UNCHANGED <<hostVars, userVars>>
  BY DEF HostTake
<1> HIDE DEF p
<1>3. RunAccept(p) /\ hpc # "scan" /\ p.resp = htx.id
        => p.key = typed /\ printed < typed
  BY <1>1 DEF IInv, AnswerInv
<1> QED BY <1>2, <1>3 DEF HostAccept, p

-----------------------------------------------------------------------------
(* Types *)

\* A restart that is still allowed keeps the counts within their bound.
LEMMA RestartTypes ==
  ASSUME NEW r \in [host : 0 .. RESTARTS, device : 0 .. RESTARTS],
         r.host + r.device < RESTARTS
  PROVE  /\ [r EXCEPT !.host = @ + 1] \in [host : 0 .. RESTARTS, device : 0 .. RESTARTS]
         /\ [r EXCEPT !.device = @ + 1] \in [host : 0 .. RESTARTS, device : 0 .. RESTARTS]
<1>1. r.host + 1 \in 0 .. RESTARTS /\ r.device + 1 \in 0 .. RESTARTS
  BY LinkAssumption DEF LinkAssumption
<1> QED BY <1>1

LEMMA TypeStep ==
  ASSUME IInv, Next PROVE TypeOK' /\ AckInv'
<1> DEFINE
      DevOK  == /\ dpc' \in {"send", "tune", "poll", "wait"} /\ dtx' \in DevPackets
                /\ drx' \in Nonces \cup {NULL} /\ dchan' \in Chans
      HostOK == /\ hpc' \in {"scan", "ack", "confirm", "send", "poll"}
                /\ hscan' \in Chans /\ hleft' \in 0 .. 3 /\ hchan' \in Chans
                /\ htx' \in HostPackets \cup {NoPacket}
                /\ htuned' \in Chans \cup {NULL}
                /\ (hpc' # "scan" => htx' \in HostPackets) /\ AckInv'
      UserOK == /\ typed' \in 0 .. KEYS /\ printed' \in 0 .. typed'
                /\ restarts' \in [host : 0 .. RESTARTS, device : 0 .. RESTARTS]
<1> USE LinkAssumption DEF LinkAssumption
<1>1. TypeOK /\ AckInv
  BY DEF IInv
<1>2. UNCHANGED devVars => DevOK
  BY <1>1 DEF TypeOK, devVars
<1>3. UNCHANGED hostVars => HostOK
  BY <1>1 DEF TypeOK, AckInv, hostVars
<1>4. UNCHANGED userVars => UserOK
  BY <1>1 DEF TypeOK, userVars
<1>5. DevOK /\ HostOK /\ UserOK => TypeOK' /\ AckInv'
  BY <1>1, SocketStep DEF TypeOK
<1>a. CASE DeviceSend \/ DeviceTune \/ DeviceTimeout
  <2>1. DevOK
    BY <1>1, <1>a DEF DeviceSend, DeviceTune, DeviceTimeout, TypeOK
  <2> QED BY <1>3, <1>4, <1>5, <1>a, <2>1 DEF DeviceSend, DeviceTune, DeviceTimeout
<1>b. CASE DeviceTake
  <2>1. Head(dq).pkt \in HostPackets
    BY <1>1, <1>b, DeviceReceived
  <2>2. Head(dq).pkt.id \in Nonces /\ Head(dq).pkt.next \in Chans
    BY <2>1 DEF HostPackets
  <2>3. DevOK
    <3>1. CASE UNCHANGED devVars
      BY <1>2, <3>1
    <3>2. CASE DeviceAccept(Head(dq).pkt)
      BY <1>1, <2>2, <3>2 DEF DeviceAccept, TypeOK
    <3> QED BY <1>b, <3>1, <3>2 DEF DeviceTake
  <2> QED BY <1>3, <1>4, <1>5, <1>b, <2>3 DEF DeviceTake
<1>c. CASE DeviceType
  <2>1. FreshNonce \in Nonces
    BY <1>c, Fresh DEF DeviceType
  <2>2. dtx' \in DevPackets
    BY <1>1, <1>c, <2>1 DEF DeviceType, TypeOK, DevPackets
  <2>3. DevOK
    BY <1>1, <1>c, <2>2 DEF DeviceType, TypeOK
  <2>4. UserOK
    BY <1>1, <1>c DEF DeviceType, TypeOK
  <2> QED BY <1>3, <1>5, <1>c, <2>3, <2>4 DEF DeviceType
<1>d. CASE DeviceRestart
  <2>1. FreshNonce \in Nonces
    BY <1>d, Fresh DEF DeviceRestart
  <2>2. dtx' \in DevPackets
    BY <1>d, <2>1 DEF DeviceRestart, DevPackets
  <2>3. DevOK
    BY <1>d, <2>2 DEF DeviceRestart
  <2>4. UserOK
    <3>1. /\ typed' \in 0 .. KEYS /\ printed' \in 0 .. typed'
          /\ restarts \in [host : 0 .. RESTARTS, device : 0 .. RESTARTS]
      BY <1>1, <1>d DEF DeviceRestart, TypeOK
    <3> QED BY <1>d, <3>1, RestartTypes DEF DeviceRestart
  <2> QED BY <1>3, <1>5, <1>d, <2>3, <2>4 DEF DeviceRestart
<1>e. CASE HostTune \/ HostSend
  <2>1. HostOK
    <3>1. Listened \in Chans \/ ~HostListens
      BY <1>1 DEF Listened, HostListens, TypeOK, HostPackets, NoPacket
    <3> QED BY <1>1, <1>e, <3>1 DEF HostTune, HostSend, TypeOK, AckInv
  <2> QED BY <1>2, <1>4, <1>5, <1>e, <2>1 DEF HostTune, HostSend
<1>f. ASSUME ScanNext PROVE HostOK
  BY <1>1, <1>f, NextChan DEF ScanNext, TypeOK, AckInv
<1>g. CASE HostTake
  <2>1. Head(hq).pkt \in DevPackets
    BY <1>1, <1>g, HostReceived
  <2>2. HostOK /\ UserOK
    <3>1. CASE UNCHANGED <<hostVars, userVars>>
      BY <1>3, <1>4, <3>1
    <3>2. CASE ScanAccept(Head(hq).pkt)
      <4>1. htx' \in HostPackets
        BY <2>1, <3>2, Acknowledged DEF ScanAccept
      <4> QED BY <1>1, <1>4, <3>2, <4>1 DEF ScanAccept, TypeOK, AckInv
    <3>3. CASE RunAccept(Head(hq).pkt) /\ Head(hq).pkt.key = typed /\ printed < typed
               /\ hpc # "scan"
      <4>1. htx' \in HostPackets
        BY <2>1, <3>3, Acknowledged DEF RunAccept
      <4>2. hchan' \in Chans /\ hscan' \in Chans
        BY <1>1, <3>3 DEF RunAccept, TypeOK, HostPackets, Chans
      <4>3. UserOK
        BY <1>1, <3>3 DEF RunAccept, TypeOK
      <4> QED BY <1>1, <3>3, <4>1, <4>2, <4>3 DEF RunAccept, TypeOK, AckInv
    <3>4. CASE ScanNext /\ UNCHANGED userVars
      BY <1>4, <1>f, <3>4
    <3>5. CASE /\ hpc = "poll" /\ hpc' = "send"
               /\ UNCHANGED <<hscan, hleft, htx, hchan, htuned, userVars>>
      BY <1>1, <1>4, <3>5 DEF TypeOK, AckInv
    <3> QED BY <1>g, <3>1, <3>2, <3>3, <3>4, <3>5, HostOutcome
  <2> QED BY <1>2, <1>5, <1>g, <2>2 DEF HostTake
<1>h. CASE HostTimeout
  <2>1. HostOK
    <3>1. CASE ScanNext
      BY <1>f, <3>1
    <3>2. CASE hpc = "poll" /\ hpc' = "send" /\ UNCHANGED <<hscan, hleft, htx, hchan, htuned>>
      BY <1>1, <3>2 DEF TypeOK, AckInv
    <3> QED BY <1>h, <3>1, <3>2 DEF HostTimeout
  <2> QED BY <1>2, <1>4, <1>5, <1>h, <2>1 DEF HostTimeout
<1>i. CASE HostAck
  <2>1. HostOK
    BY <1>1, <1>i DEF HostAck, TypeOK, AckInv
  <2> QED BY <1>2, <1>4, <1>5, <1>i, <2>1 DEF HostAck
<1>j. CASE HostRestart
  <2>1. HostOK
    BY <1>1, <1>j DEF HostRestart, TypeOK, AckInv, Chans
  <2>2. UserOK
    <3>1. /\ typed' \in 0 .. KEYS /\ printed' \in 0 .. typed'
          /\ restarts \in [host : 0 .. RESTARTS, device : 0 .. RESTARTS]
      BY <1>1, <1>j DEF HostRestart, TypeOK
    <3> QED BY <1>j, <3>1, RestartTypes DEF HostRestart
  <2> QED BY <1>2, <1>5, <1>j, <2>1, <2>2 DEF HostRestart
<1> QED BY <1>a, <1>b, <1>c, <1>d, <1>e, <1>g, <1>h, <1>i, <1>j DEF Next, Device, Host

-----------------------------------------------------------------------------
(* What a packet that answers the host's last one says is preserved.         *)

\* A new packet of the device is acknowledged by nobody.
LEMMA NewPacket ==
  ASSUME HasFresh, dtx'.id = FreshNonce, dpc' = "send",
         HostPkts' \subseteq HostPkts \cup {htx'}, htx' = htx
  PROVE  Unacked'
<1>1. \A h \in HostPkts : h.resp # FreshNonce
  BY Fresh
<1>2. HostPkts' \subseteq HostPkts
  BY DEF HostPkts
<1> QED BY <1>1, <1>2 DEF Unacked

\* Nothing is acknowledged by repeating a packet or by losing one.
LEMMA StillUnacked ==
  ASSUME Unacked, dtx' = dtx, htx' = htx, dpc' # "wait",
         HostPkts' \subseteq HostPkts \cup {htx'}
  PROVE  Unacked'
<1>1. HostPkts' \subseteq HostPkts
  BY DEF HostPkts
<1> QED BY <1>1 DEF Unacked

\* A device that takes its acknowledgement had one to take.
LEMMA TakenWasAcked ==
  ASSUME TypeOK, DeviceTake, dpc' = "wait" PROVE ~Unacked
<1>1. Head(dq).pkt.resp = dtx.id
  BY DEF DeviceTake, DeviceAccept, devVars, TypeOK
<1>2. Head(dq).pkt \in HostPkts
  BY DeviceReceived
<1> QED BY <1>1, <1>2 DEF Unacked

\* With the packets of both sides unchanged and nothing printed or typed, what
\* was true of a packet that answers the host stays true.
LEMMA AnswerKept ==
  ASSUME AnswerInv, hpc # "scan", dtx' = dtx, htx' = htx, Unacked => Unacked',
         typed' = typed, printed' = printed,
         DevPkts' \subseteq DevPkts \cup {dtx'}
  PROVE  AnswerInv'
<1>1. DevPkts' \subseteq DevPkts
  BY DEF DevPkts
<1> QED BY <1>1 DEF AnswerInv

\* After a new acknowledgement no packet answers the host.
LEMMA AnswerNone ==
  ASSUME dtx' = dtx, DevPkts' \subseteq DevPkts \cup {dtx'},
         \A d \in DevPkts : d.resp # htx'.id
  PROVE  AnswerInv'
<1>1. DevPkts' \subseteq DevPkts
  BY DEF DevPkts
<1> QED BY <1>1 DEF AnswerInv

LEMMA AnswerStep ==
  ASSUME IInv, Next PROVE AnswerInv' /\ SessionInv'
<1>1. TypeOK /\ AnswerInv /\ SessionInv
  BY DEF IInv
<1>2. /\ DevPkts' \subseteq DevPkts \cup {dtx'}
      /\ HostPkts' \subseteq HostPkts \cup {htx'}
  BY <1>1, SocketStep
\* The host is where it was, and so is what was typed and printed.
<1>3. ASSUME hpc' = hpc, dtx' = dtx, htx' = htx, typed' = typed, printed' = printed,
             dpc' = "wait" => ~Unacked
      PROVE  AnswerInv' /\ SessionInv'
  <2>1. Unacked => Unacked'
    BY <1>2, <1>3, StillUnacked
  <2>2. AnswerInv'
    BY <1>1, <1>2, <1>3, <2>1, AnswerKept DEF AnswerInv
  <2>3. SessionInv'
    BY <1>1, <1>3, <2>1 DEF SessionInv, InSession
  <2> QED BY <2>2, <2>3
\* The host goes on outside "scan" with the same packet, in the same session.
<1>4. ASSUME hpc # "scan", InSession' => InSession, UNCHANGED <<devVars, htx, typed, printed>>
      PROVE  AnswerInv' /\ SessionInv'
  <2>1. dpc' = dpc /\ dtx' = dtx
    BY <1>4 DEF devVars
  <2>2. Unacked => Unacked'
    BY <1>2, <1>4, <2>1, StillUnacked DEF Unacked
  <2>3. AnswerInv'
    BY <1>1, <1>2, <1>4, <2>1, <2>2, AnswerKept
  <2>4. SessionInv'
    BY <1>1, <1>4, <2>2 DEF SessionInv
  <2> QED BY <2>3, <2>4
\* The host scans.
<1>5. ASSUME hpc' = "scan" PROVE AnswerInv' /\ SessionInv'
  BY <1>5 DEF AnswerInv, SessionInv, InSession
<1>a. CASE DeviceSend \/ DeviceTune \/ DeviceTimeout
  BY <1>3, <1>a DEF DeviceSend, DeviceTune, DeviceTimeout, hostVars, userVars
<1>b. CASE DeviceTake
  <2>1. dpc' = "wait" => ~Unacked
    BY <1>1, <1>b, TakenWasAcked
  <2>2. dtx' = dtx
    BY <1>b DEF DeviceTake, DeviceAccept, devVars
  <2> QED BY <1>3, <1>b, <2>1, <2>2 DEF DeviceTake, hostVars, userVars
<1>c. CASE DeviceType
  <2>1. hpc' = hpc /\ htx' = htx /\ hq' = hq /\ printed' = printed
    BY <1>c DEF DeviceType, hostVars
  <2>2. typed' = typed + 1 /\ dtx'.id = FreshNonce /\ dtx'.key = typed' /\ dpc' = "send"
    BY <1>c DEF DeviceType
  <2>3. Unacked'
    BY <1>2, <1>c, <2>1, <2>2, NewPacket DEF DeviceType
  <2>4. ~Unacked
    BY <1>c DEF DeviceType, Unacked
  <2>5. printed' < typed'
    BY <1>1, <2>1, <2>2 DEF TypeOK
  <2>6. hpc # "scan" => \A p \in DevPkts : p.resp # htx.id
    BY <1>1, <2>4 DEF AnswerInv
  <2>7. DevPkts' = {dtx'} \cup {m.pkt : m \in Range(hq)}
    BY <2>1 DEF DevPkts
  <2>8. hpc # "scan" => \A p \in DevPkts' : p.resp = htx.id => p = dtx'
    BY <2>6, <2>7 DEF DevPkts
  <2>9. AnswerInv'
    BY <2>1, <2>2, <2>3, <2>5, <2>8 DEF AnswerInv
  <2> QED BY <2>3, <2>9 DEF SessionInv
<1>d. CASE DeviceRestart
  <2>1. hpc' = hpc /\ htx' = htx /\ hq' = hq /\ printed' = printed /\ typed' = typed
    BY <1>d DEF DeviceRestart, hostVars
  <2>2. dtx'.id = FreshNonce /\ dtx'.resp = NULL /\ dpc' = "send"
    BY <1>d DEF DeviceRestart
  <2>3. Unacked'
    BY <1>2, <1>d, <2>1, <2>2, NewPacket DEF DeviceRestart
  <2>4. hpc # "scan" => htx.id # NULL
    BY <1>1, LinkAssumption DEF TypeOK, HostPackets, LinkAssumption
  <2>5. hpc # "scan" => \A p \in DevPkts' : p.resp = htx.id => p \in DevPkts
    BY <1>2, <2>2, <2>4
  <2>6. AnswerInv'
    BY <1>1, <2>1, <2>3, <2>5 DEF AnswerInv
  <2> QED BY <2>3, <2>6 DEF SessionInv
<1>e. CASE HostTune
  BY <1>3, <1>e DEF HostTune, devVars, userVars, Unacked
<1>f. CASE HostTake
  <2>1. Head(hq).pkt \in DevPackets
    BY <1>1, <1>f, HostReceived
  <2>2. dtx' = dtx /\ dpc' = dpc
    BY <1>f DEF HostTake, devVars
  <2>3. ASSUME Acknowledge(Head(hq).pkt) PROVE AnswerInv'
    BY <1>2, <2>1, <2>2, <2>3, Acknowledged, AnswerNone
  <2>4. CASE UNCHANGED <<hostVars, userVars>>
    BY <1>3, <2>2, <2>4 DEF hostVars, userVars, Unacked
  <2>5. CASE ScanAccept(Head(hq).pkt)
    BY <2>3, <2>5 DEF ScanAccept, SessionInv, InSession
  <2>6. CASE RunAccept(Head(hq).pkt) /\ Head(hq).pkt.key = typed
    BY <2>3, <2>6 DEF RunAccept, SessionInv
  <2>7. CASE ScanNext /\ UNCHANGED userVars
    BY <1>5, <2>7 DEF ScanNext
  <2>8. CASE /\ hpc = "poll" /\ hpc' = "send"
             /\ UNCHANGED <<hscan, hleft, htx, hchan, htuned, userVars>>
    BY <1>4, <1>f, <2>8 DEF HostTake, InSession, userVars
  <2> QED BY <1>f, <2>4, <2>5, <2>6, <2>7, <2>8, HostOutcome
<1>g. CASE HostTimeout
  BY <1>4, <1>5, <1>g DEF HostTimeout, ScanNext, InSession, userVars
<1>h. CASE HostAck
  BY <1>4, <1>h DEF HostAck, InSession, userVars
<1>i. CASE HostSend
  BY <1>4, <1>i DEF HostSend, InSession, userVars
<1>j. CASE HostRestart
  BY <1>5, <1>j DEF HostRestart
<1> QED BY <1>a, <1>b, <1>c, <1>d, <1>e, <1>f, <1>g, <1>h, <1>i, <1>j
        DEF Next, Device, Host

-----------------------------------------------------------------------------
(* Theorems *)

LEMMA InitIInv == Init => IInv
<1> SUFFICES ASSUME Init PROVE IInv
  OBVIOUS
<1> USE LinkAssumption DEF LinkAssumption
<1>1. dtx \in DevPackets /\ dtx.id \in Nonces
  BY DEF Init, DevPackets
<1>2. 0 \in Chans
  BY DEF Chans
<1>3. TypeOK
  BY <1>1, <1>2, EmptySocket DEF Init, TypeOK
<1> QED BY <1>3 DEF Init, IInv, AckInv, AnswerInv, SessionInv, InSession

LEMMA Invariance == Spec => []IInv
<1>1. IInv /\ [Next]_vars => IInv'
  <2> SUFFICES ASSUME IInv, [Next]_vars PROVE IInv'
    OBVIOUS
  <2>1. CASE Next
    BY <2>1, TypeStep, AnswerStep DEF IInv
  <2>2. CASE UNCHANGED vars
    BY <2>2 DEF vars, devVars, hostVars, userVars, IInv, TypeOK, AckInv, AnswerInv,
       SessionInv, InSession, Unacked, DevPkts, HostPkts
  <2> QED BY <2>1, <2>2
<1> QED BY <1>1, InitIInv, PTL DEF Spec

\* Device, host and both sockets keep their types, and no more is printed than
\* was typed.
THEOREM TypeCorrect == Spec => []TypeOK
  BY Invariance, PTL DEF IInv

\* Every step of the link is one of the channel, or none.
LEMMA NextImplements ==
  ASSUME IInv, Next PROVE [Channel!Next]_(Channel!vars)
<1>1. TypeOK /\ SessionInv
  BY DEF IInv
<1>2. ASSUME UNCHANGED <<typed, printed>>, InSession' = InSession
      PROVE  UNCHANGED Channel!vars
  BY <1>2 DEF Channel!vars
<1>3. ASSUME UNCHANGED <<typed, printed>>, hpc' # "send" /\ hpc' # "poll"
      PROVE  Channel!Restart
  BY <1>3 DEF Channel!Restart, InSession
<1>a. CASE DeviceSend \/ DeviceTune \/ DeviceTimeout \/ DeviceTake \/ DeviceRestart
  BY <1>2, <1>a DEF DeviceSend, DeviceTune, DeviceTimeout, DeviceTake, DeviceRestart,
     hostVars, userVars, InSession
<1>b. CASE DeviceType
  <2>1. InSession' = InSession
    BY <1>b DEF DeviceType, hostVars, InSession
  <2>2. InSession => printed = typed
    BY <1>1, <1>b DEF DeviceType, SessionInv, Unacked
  <2> QED BY <1>b, <2>1, <2>2 DEF DeviceType, Channel!Type, Channel!Next
<1>c. CASE HostTune \/ HostSend
  BY <1>2, <1>c DEF HostTune, HostSend, userVars, InSession
<1>d. CASE HostTake
  <2>1. CASE UNCHANGED <<hostVars, userVars>>
    BY <1>2, <2>1 DEF hostVars, userVars, InSession
  <2>2. CASE ScanAccept(Head(hq).pkt) \/ (ScanNext /\ UNCHANGED userVars)
    BY <1>3, <2>2 DEF ScanAccept, ScanNext, userVars, Channel!Next
  <2>3. CASE RunAccept(Head(hq).pkt) /\ Head(hq).pkt.key = typed /\ printed < typed
    BY <2>3 DEF RunAccept, InSession, Channel!PrintKey, Channel!Next
  <2>4. CASE /\ hpc = "poll" /\ hpc' = "send"
             /\ UNCHANGED <<hscan, hleft, htx, hchan, htuned, userVars>>
    BY <1>2, <2>4 DEF userVars, InSession
  <2> QED BY <1>d, <2>1, <2>2, <2>3, <2>4, HostOutcome
<1>e. CASE HostTimeout
  BY <1>2, <1>3, <1>e DEF HostTimeout, ScanNext, InSession, userVars, Channel!Next
<1>f. CASE HostAck \/ HostRestart
  BY <1>3, <1>f DEF HostAck, HostRestart, userVars, Channel!Next
<1> QED BY <1>a, <1>b, <1>c, <1>d, <1>e, <1>f DEF Next, Device, Host

\* The link implements the channel: keys are printed in order and at most
\* once, and none is lost in a session, whatever is lost or repeated.
THEOREM LinkRefinement == Spec => ImplementsKeyChannel
<1>1. Init => Channel!Init
  BY DEF Init, InSession, Channel!Init
<1>2. IInv /\ [Next]_vars => [Channel!Next]_(Channel!vars)
  <2>1. UNCHANGED vars => UNCHANGED Channel!vars
    BY DEF vars, hostVars, userVars, Channel!vars, InSession
  <2> QED BY <2>1, NextImplements
<1> QED BY <1>1, <1>2, Invariance, PTL DEF Spec, ImplementsKeyChannel, Channel!Spec
=============================================================================
