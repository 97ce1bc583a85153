----------------------------- MODULE KeyboardLink -----------------------------
(***************************************************************************)
(* The radio protocol of the wireless keyboard (microchip/samd/keyboard):  *)
(* the device sends one key per packet, the host acknowledges it.  Every   *)
(* packet carries a hash of the packet it answers, which is what tells a   *)
(* fresh packet from a repeated one, and every packet of the host names    *)
(* the channel both move to next.  device.cpp and host.cpp are one process *)
(* each; the radio of common.cpp is a UDP socket per side.  Both sides     *)
(* hold the keys of an earlier pairing (key_valid).                        *)
(*                                                                         *)
(* A packet is told from every other by its nonce (encrypt counts          *)
(* cha_tx_ctr up from a random start), so the hash of a packet is its      *)
(* nonce, and a nonce nobody remembers may be used again here.             *)
(***************************************************************************)
EXTENDS Naturals, Sequences, Functions

CONSTANTS
  NULL,             \* the hash of bytes that are no packet
  Nonces,           \* enough for every packet someone still remembers
  CHANS,            \* channels of the radio, 256 in the code
  QUEUE,            \* datagrams a socket holds before it drops
  KEYS,             \* bound: keys the user types
  RESTARTS          \* bound: restarts of host.cpp and device.cpp

ASSUME LinkAssumption ==
  /\ NULL \notin Nonces
  /\ Nonces # {}
  /\ CHANS \in Nat \ {0} /\ QUEUE \in Nat \ {0}
  /\ KEYS \in Nat /\ RESTARTS \in Nat

Chans == 0 .. CHANS - 1

VARIABLES
  \* device.cpp
  dpc,        \* "send", "tune", "poll", or "wait" for a key; rx_chan has a
              \* value in "poll" only
  dtx,        \* tx_pkt
  drx,        \* the hash of rx_pkt, the acknowledgement accepted last
  dchan,      \* curr_chan
  dq,         \* datagrams in the device's socket
  \* host.cpp
  hpc,        \* "scan", "ack" and "confirm" of the sync loop, "send", "poll"
  hscan,      \* chan of the sync loop
  hleft,      \* copies of the acknowledgement left to send
  htx,        \* tx_pkt, with the channel tx_pl.host.next_chan
  hchan,      \* curr_chan
  htuned,     \* rx_chan, NULL for std::nullopt
  hq,         \* datagrams in the host's socket
  \* what the user sees, and the restarts
  typed, printed, restarts

devVars  == <<dpc, dtx, drx, dchan>>
hostVars == <<hpc, hscan, hleft, htx, hchan, htuned>>
userVars == <<typed, printed, restarts>>
vars == <<devVars, dq, hostVars, hq, userVars>>

DevPackets  == [id : Nonces, resp : Nonces \cup {NULL}, key : Nat]
HostPackets == [id : Nonces, resp : Nonces, next : Chans]
NoPacket    == [id |-> NULL, resp |-> NULL, next |-> 0]
Datagrams(P) == [chan : Chans, pkt : P]

TypeOK ==
  /\ dpc \in {"send", "tune", "poll", "wait"}
  /\ dtx \in DevPackets /\ drx \in Nonces \cup {NULL} /\ dchan \in Chans
  /\ dq \in Seq(Datagrams(HostPackets)) /\ Len(dq) <= QUEUE
  /\ hpc \in {"scan", "ack", "confirm", "send", "poll"}
  /\ hscan \in Chans /\ hleft \in 0 .. 3 /\ hchan \in Chans
  /\ htx \in HostPackets \cup {NoPacket} /\ htuned \in Chans \cup {NULL}
  /\ hpc # "scan" => htx \in HostPackets
  /\ hq \in Seq(Datagrams(DevPackets)) /\ Len(hq) <= QUEUE
  /\ typed \in 0 .. KEYS /\ printed \in 0 .. typed
  /\ restarts \in [host : 0 .. RESTARTS, device : 0 .. RESTARTS]

-----------------------------------------------------------------------------
\* Nonces somebody still remembers, and one nobody does.
Remembered ==
  {drx} \cup
  UNION {{p.id, p.resp} :
         p \in {dtx, htx} \cup {m.pkt : m \in Range(dq) \cup Range(hq)}}

FreshNonce == CHOOSE n \in Nonces : n \notin Remembered
HasFresh   == \E n \in Nonces : n \notin Remembered

\* Radio::send: a socket that is full drops the datagram.
Sent(q, chan, pkt) ==
  IF Len(q) < QUEUE THEN Append(q, [chan |-> chan, pkt |-> pkt]) ELSE q

-----------------------------------------------------------------------------
\* device.cpp
DeviceSend ==
  /\ dpc = "send"
  /\ hq' = Sent(hq, dchan, dtx)
  /\ dpc' = "tune"
  /\ UNCHANGED <<dtx, drx, dchan, dq, hostVars, userVars>>

\* The first Radio::recv after a send empties the socket.
DeviceTune ==
  /\ dpc = "tune"
  /\ dpc' = "poll" /\ dq' = <<>>
  /\ UNCHANGED <<dtx, drx, dchan, hostVars, hq, userVars>>

\* Mutant: the answer is not checked against the packet sent.
DeviceAccept_any(pkt) ==
  /\ drx' = pkt.id /\ dchan' = pkt.next /\ dpc' = "wait"
  /\ UNCHANGED dtx

\* A datagram of its channel ends the poll: it is the answer, or is ignored.
DeviceAccept(pkt) ==
  /\ IF pkt.resp = dtx.id
     THEN drx' = pkt.id /\ dchan' = pkt.next /\ dpc' = "wait"
     ELSE dpc' = "send" /\ UNCHANGED <<drx, dchan>>
  /\ UNCHANGED dtx

DeviceTake ==
  /\ dpc = "poll" /\ dq # <<>>
  /\ dq' = Tail(dq)
  /\ IF Head(dq).chan = dchan THEN DeviceAccept(Head(dq).pkt)
                              ELSE UNCHANGED devVars
  /\ UNCHANGED <<hostVars, hq, userVars>>

\* Protocol::poll gives up; it has listened at least once.
DeviceTimeout ==
  /\ dpc = "poll"
  /\ dpc' = "send"
  /\ UNCHANGED <<dtx, drx, dchan, dq, hostVars, hq, userVars>>

\* getchar: the next packet answers the acknowledgement of the last.
DeviceType ==
  /\ dpc = "wait" /\ typed < KEYS /\ HasFresh
  /\ typed' = typed + 1
  /\ dtx' = [id |-> FreshNonce, resp |-> drx, key |-> typed + 1]
  /\ dpc' = "send"
  /\ UNCHANGED <<drx, dchan, dq, hostVars, hq, printed, restarts>>

\* A new process: a packet of zeros that answers random bytes, sent on a
\* random channel.
DeviceRestart ==
  /\ restarts.host + restarts.device < RESTARTS /\ HasFresh
  /\ dpc' = "send" /\ dq' = <<>> /\ drx' = NULL
  /\ dtx' = [id |-> FreshNonce, resp |-> NULL, key |-> 0]
  /\ dchan' \in Chans
  /\ restarts' = [restarts EXCEPT !.device = @ + 1]
  /\ UNCHANGED <<hostVars, hq, typed, printed>>

-----------------------------------------------------------------------------
\* host.cpp
HostListens == hpc \in {"scan", "confirm", "poll"}

\* Mutant: the host hops only once the device has answered.
Listened_late == IF hpc = "scan" THEN hscan ELSE
                 IF hpc = "confirm" THEN htx.next ELSE hchan

\* The channel a poll listens to: the host hops before the device answers.
Listened == IF hpc = "scan" THEN hscan ELSE htx.next

\* Radio::recv on another channel, or after a send, empties the socket.
HostTune ==
  /\ HostListens /\ htuned # Listened
  /\ htuned' = Listened /\ hq' = <<>>
  /\ UNCHANGED <<hpc, hscan, hleft, htx, hchan, devVars, dq, userVars>>

\* Mutant: the scan runs off the last channel.
ScanNext_off ==
  /\ hpc' = "scan" /\ hscan' = hscan + 1
  /\ UNCHANGED <<hleft, htx, hchan, htuned>>

\* The sync loop goes on with the next channel.
ScanNext ==
  /\ hpc' = "scan" /\ hscan' = (hscan + 1) % CHANS
  /\ UNCHANGED <<hleft, htx, hchan, htuned>>

\* encrypt: acknowledge a packet and choose a channel at random.
Acknowledge(pkt) ==
  /\ HasFresh
  /\ \E c \in Chans : htx' = [id |-> FreshNonce, resp |-> pkt.id, next |-> c]

\* Sync loop: any packet of the device is acknowledged, whatever it answers.
ScanAccept(pkt) ==
  /\ Acknowledge(pkt)
  /\ hpc' = "ack" /\ hleft' = 3
  /\ UNCHANGED <<hscan, hchan, htuned, userVars>>

\* The key answers the acknowledgement: print it, move to the new channel
\* and acknowledge it.
RunAccept(pkt) ==
  /\ printed' = pkt.key
  /\ hchan' = htx.next
  /\ Acknowledge(pkt)
  /\ hpc' = "send" /\ hscan' = 0
  /\ UNCHANGED <<hleft, htuned, typed, restarts>>

\* Mutant: a key is taken whatever it answers, as the sync loop does.
HostAccept_any(pkt) ==
  IF hpc = "scan" THEN ScanAccept(pkt) ELSE RunAccept(pkt)

\* A datagram of its channel ends the poll.
HostAccept(pkt) ==
  \/ hpc = "scan" /\ ScanAccept(pkt)
  \/ hpc # "scan" /\ pkt.resp = htx.id /\ RunAccept(pkt)
  \/ hpc = "confirm" /\ pkt.resp # htx.id /\ ScanNext /\ UNCHANGED userVars
  \/ /\ hpc = "poll" /\ pkt.resp # htx.id
     /\ hpc' = "send"
     /\ UNCHANGED <<hscan, hleft, htx, hchan, htuned, userVars>>

HostTake ==
  /\ HostListens /\ htuned = Listened /\ hq # <<>>
  /\ hq' = Tail(hq)
  /\ IF Head(hq).chan = Listened THEN HostAccept(Head(hq).pkt)
                                 ELSE UNCHANGED <<hostVars, userVars>>
  /\ UNCHANGED <<devVars, dq>>

HostTimeout ==
  /\ htuned = Listened
  /\ \/ hpc \in {"scan", "confirm"} /\ ScanNext
     \/ /\ hpc = "poll" /\ hpc' = "send"
        /\ UNCHANGED <<hscan, hleft, htx, hchan, htuned>>
  /\ UNCHANGED <<devVars, dq, hq, userVars>>

\* Sync loop: the acknowledgement goes out three times on the channel found.
HostAck ==
  /\ hpc = "ack"
  /\ dq' = Sent(dq, hscan, htx)
  /\ htuned' = NULL /\ hleft' = hleft - 1
  /\ hpc' = IF hleft = 1 THEN "confirm" ELSE "ack"
  /\ UNCHANGED <<hscan, htx, hchan, devVars, hq, userVars>>

\* Mutant: the host moves to the new channel with its first acknowledgement.
HostSend_hopped ==
  /\ hpc = "send"
  /\ dq' = Sent(dq, htx.next, htx)
  /\ htuned' = NULL /\ hpc' = "poll"
  /\ UNCHANGED <<hscan, hleft, htx, hchan, devVars, hq, userVars>>

\* Runtime: the acknowledgement is repeated on the old channel until a packet
\* answers it on the new one.
HostSend ==
  /\ hpc = "send"
  /\ dq' = Sent(dq, hchan, htx)
  /\ htuned' = NULL /\ hpc' = "poll"
  /\ UNCHANGED <<hscan, hleft, htx, hchan, devVars, hq, userVars>>

HostRestart ==
  /\ restarts.host + restarts.device < RESTARTS
  /\ hpc' = "scan" /\ hscan' = 0 /\ hleft' = 0 /\ hchan' = 0
  /\ htx' = NoPacket /\ htuned' = NULL /\ hq' = <<>>
  /\ restarts' = [restarts EXCEPT !.host = @ + 1]
  /\ UNCHANGED <<devVars, dq, typed, printed>>

-----------------------------------------------------------------------------
Init ==
  /\ dpc = "send" /\ dq = <<>> /\ drx = NULL
  /\ dchan \in Chans
  /\ dtx = [id |-> CHOOSE n \in Nonces : TRUE, resp |-> NULL, key |-> 0]
  /\ hpc = "scan" /\ hscan = 0 /\ hleft = 0 /\ hchan = 0
  /\ htx = NoPacket /\ htuned = NULL /\ hq = <<>>
  /\ typed = 0 /\ printed = 0
  /\ restarts = [host |-> 0, device |-> 0]

Device ==
  DeviceSend \/ DeviceTune \/ DeviceTake \/ DeviceTimeout
Host ==
  HostTune \/ HostTake \/ HostTimeout \/ HostAck \/ HostSend

Next == Device \/ DeviceType \/ DeviceRestart \/ Host \/ HostRestart

Spec == Init /\ [][Next]_vars

\* The radio is not locked to the schedule of either side: the host, polling
\* for 5 ms, and the device, sending every 2 ms, meet sooner or later.
DeviceHears == dpc = "poll"
HostHears   == HostListens /\ htuned = Listened /\ Listened = dchan
FairRadio ==
  /\ []<><<HostAck \/ HostSend>>_vars
       => []<><<(HostAck \/ HostSend) /\ DeviceHears>>_vars
  /\ []<><<DeviceSend>>_vars /\ []<>HostHears
       => []<><<DeviceSend /\ HostHears>>_vars

\* Both processes run and every poll ends, but neither leaves every poll with
\* the datagram it waits for in its socket: a poll takes milliseconds.
FairSpec ==
  /\ Spec /\ FairRadio
  /\ WF_vars(DeviceSend \/ DeviceTune \/ DeviceTimeout)
  /\ WF_vars(HostAck \/ HostSend \/ HostTune \/ HostTimeout)
  /\ SF_vars(DeviceTake /\ Head(dq).chan = dchan)
  /\ SF_vars(HostTake /\ Head(hq).chan = Listened)

-----------------------------------------------------------------------------
\* Properties.

InSession == hpc \in {"send", "poll"}

\* The link implements the channel the user sees: no key is printed twice or
\* out of order, and none is lost while the host is in a session, although
\* acknowledgements of an earlier life of the host, repeated packets and
\* packets of earlier channels may still be in the sockets.
Channel == INSTANCE KeyChannel WITH session <- InSession
ImplementsKeyChannel == Channel!Spec

\* A key typed in a session is printed (host.cpp:85): both sides hop to the
\* same channel, whichever acknowledgement or answer was lost on the way.
KeyPrinted ==
  (InSession /\ printed < typed /\ restarts.device = 0)
    ~> (printed = typed \/ ~InSession \/ restarts.device # 0)

\* The device is not left sending for ever: a host that starts again finds
\* the channel it retries on (host.cpp:46) and acknowledges it.
DeviceAnswered ==
  (dpc = "send" /\ restarts.device = 0)
    ~> (dpc = "wait" \/ restarts.device # 0)
=============================================================================
