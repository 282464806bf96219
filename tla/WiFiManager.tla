---------------------------- MODULE WiFiManager ----------------------------
(***************************************************************************)
(* The WiFi manager of the ESP32 firmware (src/WiFi/WiFiManager.cpp).      *)
(*                                                                         *)
(* Three tasks share one TCP client pointer:                               *)
(*   - loop      : send() writes a frame, switchToSoftAP() changes network *)
(*   - heartbeat : update() runs the pong watchdog and sends pings         *)
(*   - AsyncTCP  : accepts, loses and reads client sessions                *)
(* Frames and pings are serialised by _writeMutex; the callbacks take no   *)
(* lock.  A message is a run of numbered units (a unit stands for a group  *)
(* of bytes that the socket accepts or refuses together), so a reader can  *)
(* tell whether messages arrived whole.                                    *)
(*                                                                         *)
(* Timestamps are modelled by their ages (now minus the stamp), which stop *)
(* growing at AgeCap: every threshold of the code lies below it.           *)
(***************************************************************************)
EXTENDS Integers, Sequences

CONSTANTS
    Session,        \* AsyncClient objects; one is reused after its delete
    None,           \* the null _client pointer
    FrameLen,       \* units of one frame handed to send()
    PingLen,        \* units of one ping frame
    SendBuf,        \* units the socket holds before space() is 0
    PingInterval,   \* _pingIntervalMs in clock ticks
    PingEarly,      \* _pingEarlyMs
    PongTimeout,    \* _pongTimeoutMs
    SendTimeout,    \* timeoutMs of send()
    MaxLag          \* bound: ticks that may pass inside one update()

ASSUME NoneAssumption == None \notin Session
ASSUME LenAssumption == /\ FrameLen \in Nat \ {0}
                        /\ PingLen \in Nat \ {0}
                        /\ SendBuf \in Nat \ {0}
ASSUME TimeAssumption == /\ PingInterval \in Nat
                         /\ PingEarly \in Nat
                         /\ PongTimeout \in Nat
                         /\ SendTimeout \in Nat
                         /\ MaxLag \in Nat

VARIABLES
    up,             \* FALSE after a panic, until the reboot
    client,         \* _client
    conn,           \* state of each session's connection
    buf,            \* units accepted by the socket and not yet read
    phone,          \* what the phone's frame parser has seen of the session
    pong,           \* a pong is on its way back
    cut,            \* history: the device put a partial message on the session
    mutex,          \* holder of _writeMutex
    pcL, sent, sendAge,     \* send(): place, units written, age of "start"
    pcH, hbAge,             \* update(): place, age of the captured "now"
    pcT,                    \* onClientConnected(): the session being installed
    announce,               \* wasConnected ("due": TRUE, and "done" once
                            \* _onConnected() has been called; "none": FALSE)
    pingAge,        \* age of _lastPingSentMs
    waiting,        \* _waitingForPong
    pingNeeded,     \* _pingNeeded
    joined,         \* WiFi.status() == WL_CONNECTED
    apMode,         \* _apMode
    server          \* _server is listening

tcp == <<conn, buf, phone, pong, cut>>
loopVars == <<pcL, sent, sendAge>>
hbVars == <<pcH, hbAge>>
beat == <<pingAge, waiting, pingNeeded>>
accept == <<pcT, announce>>
net == <<joined, apMode, server>>
vars == <<up, client, tcp, mutex, loopVars, hbVars, accept, beat, net>>

-----------------------------------------------------------------------------
(* Messages and what a stream parser makes of them.                        *)

Size(m) == IF m = "frame" THEN FrameLen ELSE PingLen

Unit == [msg : {"frame"}, idx : 1..FrameLen] \cup [msg : {"ping"}, idx : 1..PingLen]

(* a phone that has seen whole messages only, and the last unit it saw *)
Boundary == [msg |-> "frame", idx |-> FrameLen]

Fresh == [at |-> Boundary, garbled |-> FALSE]

IsEnd(u) == u.idx = Size(u.msg)

(* v may come right after u in a stream of whole messages *)
Follows(u, v) == IF v.idx = 1 THEN IsEnd(u)
                 ELSE v.msg = u.msg /\ v.idx = u.idx + 1

(* q continues a stream whose last unit so far was "at" *)
Chain(at, q) ==
    /\ q # <<>> => Follows(at, q[1])
    /\ \A j \in 1..(Len(q) - 1) : Follows(q[j], q[j + 1])

LastOf(at, q) == IF q = <<>> THEN at ELSE q[Len(q)]

(* the stream q with n more units of message m, after the first k of it *)
Extend(q, m, k, n) ==
    [j \in 1..(Len(q) + n) |->
        IF j <= Len(q) THEN q[j] ELSE [msg |-> m, idx |-> k + (j - Len(q))]]

Least(a, b) == IF a < b THEN a ELSE b

-----------------------------------------------------------------------------
(* Ages.  A stamp of 0 ("never") is as old as the device: Uptime.          *)

AgeCap == MaxLag + IF PongTimeout < PingInterval THEN PingInterval ELSE PongTimeout
Uptime == AgeCap + 1
Older(a, cap) == IF a < cap THEN a + 1 ELSE a

(* now - _lastPingSentMs >= d with "now" captured hbAge ticks ago; the     *)
(* uint32_t difference wraps to a huge value when the stamp is newer.      *)
SnapshotElapsed(d) == pingAge < hbAge \/ pingAge - hbAge >= d

(* _client && _client->connected() *)
Connected == client # None /\ conn[client] = "open"

(* isConnected() *)
IsConnected == apMode \/ joined

(* Fault: the whole rest is written whatever the socket can take. *)
SpaceUnchecked(s) == IF conn[s] = "open" THEN SendBuf ELSE 0

Space(s) == IF conn[s] = "open" THEN SendBuf - Len(buf[s]) ELSE 0

-----------------------------------------------------------------------------
(* setup() has returned from begin(): STA is connected, or SoftAP runs, or *)
(* softAP() failed and nothing listens.                                    *)

Init ==
    /\ up = TRUE
    /\ client = None
    /\ conn = [s \in Session |-> "free"]
    /\ buf = [s \in Session |-> <<>>]
    /\ phone = [s \in Session |-> Fresh]
    /\ pong = [s \in Session |-> FALSE]
    /\ cut = [s \in Session |-> FALSE]
    /\ mutex = "free"
    /\ pcL = "idle" /\ sent = 0 /\ sendAge = 0
    /\ pcH = "idle" /\ hbAge = 0
    /\ pcT = None /\ announce = "none"
    /\ pingAge = Uptime /\ waiting = FALSE /\ pingNeeded = FALSE
    /\ apMode \in BOOLEAN /\ joined = ~apMode
    /\ server \in BOOLEAN /\ (apMode \/ server)

(* the same values after a panic, which loses all of RAM and every session *)
Boot ==
    /\ client' = None
    /\ conn' = [s \in Session |-> "free"]
    /\ buf' = [s \in Session |-> <<>>]
    /\ phone' = [s \in Session |-> Fresh]
    /\ pong' = [s \in Session |-> FALSE]
    /\ cut' = [s \in Session |-> FALSE]
    /\ mutex' = "free"
    /\ pcL' = "idle" /\ sent' = 0 /\ sendAge' = 0
    /\ pcH' = "idle" /\ hbAge' = 0
    /\ pcT' = None /\ announce' = "none"
    /\ pingAge' = Uptime /\ waiting' = FALSE /\ pingNeeded' = FALSE
    /\ apMode' \in BOOLEAN /\ joined' = ~apMode'
    /\ server' \in BOOLEAN /\ (apMode' \/ server')

-----------------------------------------------------------------------------
(* sendPingNow(), in three steps: the test of the client, the write to     *)
(* what the pointer is then, and the bookkeeping.  write() may accept      *)
(* fewer units than asked, or none of a closed client; its result is       *)
(* ignored.                                                                *)

PingTest == pingNeeded' = (pingNeeded /\ Connected)

PingWrite ==
    /\ client # None
    /\ LET n == Least(PingLen, Space(client)) IN
       /\ buf' = [buf EXCEPT ![client] = Extend(@, "ping", 0, n)]
       /\ cut' = [cut EXCEPT ![client] = @ \/ (0 < n /\ n < PingLen)]

PingBook ==
    /\ pingAge' = 0
    /\ waiting' = TRUE
    /\ pingNeeded' = FALSE

-----------------------------------------------------------------------------
(* send(), called by the loop task.                                        *)

SendEnter ==
    /\ pcL = "idle" /\ Connected
    /\ pcL' = "lock" /\ sent' = 0
    /\ UNCHANGED <<up, client, tcp, mutex, sendAge, hbVars, accept, beat, net>>

(* Fault: the take does not wait for the heartbeat task. *)
SendLockNoWait ==
    /\ pcL = "lock"
    /\ mutex' = "loop" /\ pcL' = "early"
    /\ UNCHANGED <<up, client, tcp, sent, sendAge, hbVars, accept, beat, net>>

SendLock ==
    /\ pcL = "lock" /\ mutex = "free"
    /\ mutex' = "loop" /\ pcL' = "early"
    /\ UNCHANGED <<up, client, tcp, sent, sendAge, hbVars, accept, beat, net>>

(* sendPingNow() at one of its three places in send() *)
SendPingTest(at, put, next) ==
    /\ pcL = at /\ PingTest
    /\ pcL' = IF Connected THEN put ELSE next
    /\ UNCHANGED <<up, client, tcp, mutex, sent, sendAge, hbVars, accept,
                   pingAge, waiting, net>>

SendPingWrite(at, book) ==
    /\ pcL = at /\ PingWrite /\ pcL' = book
    /\ UNCHANGED <<up, client, conn, phone, pong, mutex, sent, sendAge, hbVars,
                   accept, beat, net>>

SendPingBook(at, next) ==
    /\ pcL = at /\ PingBook /\ pcL' = next
    /\ UNCHANGED <<up, client, tcp, mutex, sent, sendAge, hbVars, accept, net>>

SendPing == \/ SendPingTest("earlyTest", "earlyPut", "needed")
            \/ SendPingWrite("earlyPut", "earlyBook")
            \/ SendPingBook("earlyBook", "needed")
            \/ SendPingTest("neededTest", "neededPut", "write")
            \/ SendPingWrite("neededPut", "neededBook")
            \/ SendPingBook("neededBook", "write")
            \/ SendPingTest("exitTest", "exitPut", "give")
            \/ SendPingWrite("exitPut", "exitBook")
            \/ SendPingBook("exitBook", "give")

EarlyDue == PingEarly > 0 /\ pingAge # Uptime /\ pingAge + PingEarly >= PingInterval

SendEarly ==
    /\ pcL = "early"
    /\ pcL' = IF EarlyDue THEN "earlyTest" ELSE "needed"
    /\ UNCHANGED <<up, client, tcp, mutex, sent, sendAge, hbVars, accept, beat, net>>

SendNeeded ==
    /\ pcL = "needed"
    /\ pcL' = IF pingNeeded THEN "neededTest" ELSE "write"
    /\ UNCHANGED <<up, client, tcp, mutex, sent, sendAge, hbVars, accept, beat, net>>

(* Fault: each turn writes from the start of the data. *)
SendChunkFromStart ==
    /\ pcL = "write" /\ client # None
    /\ \E n \in 1..Least(Space(client), FrameLen - sent) :
         /\ buf' = [buf EXCEPT ![client] = Extend(@, "frame", 0, n)]
         /\ sent' = sent + n
    /\ pcL' = IF sent' < FrameLen THEN "write" ELSE "exit"
    /\ sendAge' = 0
    /\ UNCHANGED <<up, client, conn, phone, pong, cut, mutex, hbVars, accept,
                   beat, net>>

(* one write() of the loop; the pointer is read again on every turn *)
SendChunk ==
    /\ pcL = "write" /\ client # None
    /\ \E n \in 1..Least(Space(client), FrameLen - sent) :
         /\ buf' = [buf EXCEPT ![client] = Extend(@, "frame", sent, n)]
         /\ sent' = sent + n
    /\ pcL' = IF sent' < FrameLen THEN "write" ELSE "exit"
    /\ sendAge' = 0
    /\ UNCHANGED <<up, client, conn, phone, pong, cut, mutex, hbVars, accept,
                   beat, net>>

(* Fault: the loop has no timeout. *)
SendAbortNoTimeout ==
    /\ pcL = "write" /\ client # None
    /\ Space(client) > 0
    /\ cut' = [cut EXCEPT ![client] = @ \/ sent > 0]
    /\ pcL' = "exit"
    /\ UNCHANGED <<up, client, conn, buf, phone, pong, mutex, sent, sendAge,
                   hbVars, accept, beat, net>>

(* nothing more of the frame is written: space() stayed 0 for longer than  *)
(* the timeout, or write() returned 0                                      *)
SendAbort ==
    /\ pcL = "write" /\ client # None
    /\ Space(client) > 0 \/ sendAge > SendTimeout
    /\ cut' = [cut EXCEPT ![client] = @ \/ sent > 0]
    /\ pcL' = "exit"
    /\ UNCHANGED <<up, client, conn, buf, phone, pong, mutex, sent, sendAge,
                   hbVars, accept, beat, net>>

(* the test before the ping; then, always, the give *)
SendExit ==
    /\ pcL = "exit"
    /\ pcL' = IF pingNeeded THEN "exitTest" ELSE "give"
    /\ UNCHANGED <<up, client, tcp, mutex, sent, sendAge, hbVars, accept, beat, net>>

SendGive ==
    /\ pcL = "give"
    /\ mutex' = "free" /\ pcL' = "idle" /\ sent' = 0 /\ sendAge' = 0
    /\ UNCHANGED <<up, client, tcp, hbVars, accept, beat, net>>

(* a call through a null _client, of space() or of a ping's write(): the   *)
(* load faults and the panic handler restarts the chip                     *)
SendPanic ==
    /\ pcL \in {"write", "earlyPut", "neededPut", "exitPut"} /\ client = None
    /\ up' = FALSE
    /\ Boot

Send == \/ SendLock \/ SendEarly \/ SendNeeded \/ SendChunk \/ SendAbort
        \/ SendExit \/ SendGive \/ SendPing \/ SendPanic

-----------------------------------------------------------------------------
(* switchToSoftAP(), called by the loop task on the console's 'w'.         *)

(* the connections of S, if open, end: nothing more is read from them *)
ClosedTcp(S) ==
    /\ conn' = [s \in Session |-> IF s \in S /\ conn[s] = "open" THEN "closing" ELSE conn[s]]
    /\ buf' = [s \in Session |-> IF s \in S THEN <<>> ELSE buf[s]]
    /\ phone' = [s \in Session |-> IF s \in S THEN Fresh ELSE phone[s]]
    /\ pong' = [s \in Session |-> pong[s] /\ s \notin S]
    /\ UNCHANGED cut

SwitchClose ==
    /\ pcL = "idle" /\ ~apMode
    /\ pcL' = "ap"
    /\ IF client # None THEN ClosedTcp({client}) ELSE UNCHANGED tcp
    /\ UNCHANGED <<up, client, mutex, sent, sendAge, hbVars, accept, beat, net>>

SwitchEnd ==
    /\ pcL = "ap"
    /\ client' = None /\ server' = FALSE
    /\ pcL' = "apLeave"
    /\ UNCHANGED <<up, tcp, mutex, sent, sendAge, hbVars, accept, beat, joined,
                   apMode>>

(* WiFi.disconnect() ends every connection *)
SwitchLeave ==
    /\ pcL = "apLeave"
    /\ joined' = FALSE
    /\ ClosedTcp(Session)
    /\ pcL' = "apStart"
    /\ UNCHANGED <<up, client, mutex, sent, sendAge, hbVars, accept, beat,
                   apMode, server>>

(* softAP() may fail, and then startSoftAP() returns before the server is  *)
(* created                                                                 *)
SwitchStartAP ==
    /\ pcL = "apStart"
    /\ apMode' = TRUE
    /\ server' \in BOOLEAN
    /\ pcL' = "idle"
    /\ UNCHANGED <<up, client, tcp, mutex, sent, sendAge, hbVars, accept, beat,
                   joined>>

SwitchToSoftAP == SwitchClose \/ SwitchEnd \/ SwitchLeave \/ SwitchStartAP

-----------------------------------------------------------------------------
(* update(), called by the heartbeat task every 100 ms.                    *)

UpdateEnter ==
    /\ pcH = "idle"
    /\ pcH' = IF Connected THEN "watch" ELSE "clear"
    /\ hbAge' = 0
    /\ UNCHANGED <<up, client, tcp, mutex, loopVars, accept, beat, net>>

UpdateClear ==
    /\ pcH = "clear"
    /\ waiting' = FALSE /\ pingAge' = Uptime /\ pingNeeded' = FALSE
    /\ pcH' = "idle"
    /\ UNCHANGED <<up, client, tcp, mutex, loopVars, hbAge, accept, net>>

(* the pong watchdog: is a pong awaited ... *)
UpdateWatch ==
    /\ pcH = "watch"
    /\ pcH' = IF waiting THEN "late" ELSE "due"
    /\ UNCHANGED <<up, client, tcp, mutex, loopVars, hbAge, accept, beat, net>>

(* ... and for too long? *)
UpdateLate ==
    /\ pcH = "late"
    /\ IF SnapshotElapsed(PongTimeout) THEN pcH' = "drop" /\ hbAge' = 0
                                       ELSE pcH' = "due" /\ UNCHANGED hbAge
    /\ UNCHANGED <<up, client, tcp, mutex, loopVars, accept, beat, net>>

(* dropClient("pong timeout"): the client there is by now *)
UpdateDrop ==
    /\ pcH = "drop" /\ pcH' = "idle"
    /\ waiting' = FALSE
    /\ IF client # None THEN ClosedTcp({client}) ELSE UNCHANGED tcp
    /\ UNCHANGED <<up, client, mutex, loopVars, hbAge, accept, pingAge,
                   pingNeeded, net>>

(* the interval has elapsed: mark the ping as needed *)
UpdateDue ==
    /\ pcH = "due" /\ pcH' = "needed" /\ hbAge' = 0
    /\ pingNeeded' = (pingNeeded \/ SnapshotElapsed(PingInterval))
    /\ UNCHANGED <<up, client, tcp, mutex, loopVars, accept, pingAge, waiting, net>>

UpdateNeeded ==
    /\ pcH = "needed"
    /\ pcH' = IF pingNeeded THEN "take" ELSE "idle"
    /\ UNCHANGED <<up, client, tcp, mutex, loopVars, hbAge, accept, beat, net>>

(* Fault: the ping is sent without the mutex. *)
UpdateTakeNot ==
    /\ pcH = "take" /\ pcH' = "ping"
    /\ UNCHANGED <<up, client, tcp, mutex, loopVars, hbAge, accept, beat, net>>

(* Fault: update() leaves every ping to send(). *)
UpdateTakeNever ==
    /\ pcH = "take" /\ pcH' = "idle"
    /\ UNCHANGED <<up, client, tcp, mutex, loopVars, hbAge, accept, beat, net>>

(* zero-timeout take: if send() holds the mutex the flag stays for it *)
UpdateTake ==
    /\ pcH = "take"
    /\ IF mutex = "free" THEN mutex' = "heartbeat" /\ pcH' = "ping"
                         ELSE pcH' = "idle" /\ UNCHANGED mutex
    /\ UNCHANGED <<up, client, tcp, loopVars, hbAge, accept, beat, net>>

UpdatePingTest ==
    /\ pcH = "ping" /\ PingTest
    /\ pcH' = IF Connected THEN "put" ELSE "give"
    /\ UNCHANGED <<up, client, tcp, mutex, loopVars, hbAge, accept, pingAge,
                   waiting, net>>

UpdatePingWrite ==
    /\ pcH = "put" /\ PingWrite /\ pcH' = "book"
    /\ UNCHANGED <<up, client, conn, phone, pong, mutex, loopVars, hbAge, accept,
                   beat, net>>

UpdatePingBook ==
    /\ pcH = "book" /\ PingBook /\ pcH' = "give"
    /\ UNCHANGED <<up, client, tcp, mutex, loopVars, hbAge, accept, net>>

UpdateGive ==
    /\ pcH = "give"
    /\ mutex' = "free" /\ pcH' = "idle"
    /\ UNCHANGED <<up, client, tcp, loopVars, hbAge, accept, beat, net>>

(* the ping's write through a null _client *)
UpdatePanic ==
    /\ pcH = "put" /\ client = None
    /\ up' = FALSE
    /\ Boot

Update == \/ UpdateEnter \/ UpdateClear \/ UpdateWatch \/ UpdateLate
          \/ UpdateDrop \/ UpdateDue \/ UpdateNeeded \/ UpdateTake
          \/ UpdatePingTest \/ UpdatePingWrite \/ UpdatePingBook
          \/ UpdateGive \/ UpdatePanic

-----------------------------------------------------------------------------
(* Callbacks on the AsyncTCP task, one at a time.                          *)

(* Fault: wasConnected is tested after the previous client was let go. *)
AcceptBeginTestsLate(s) ==
    /\ pcT = None /\ server /\ conn[s] = "free"
    /\ pcT' = s
    /\ announce' = "none"
    /\ conn' = [x \in Session |-> IF x = s THEN "open"
                                  ELSE IF x = client /\ conn[x] = "open" THEN "closing"
                                  ELSE conn[x]]
    /\ buf' = [x \in Session |-> IF x \in {s, client} THEN <<>> ELSE buf[x]]
    /\ phone' = [x \in Session |-> IF x \in {s, client} THEN Fresh ELSE phone[x]]
    /\ pong' = [x \in Session |-> pong[x] /\ x \notin {s, client}]
    /\ client' = None
    /\ UNCHANGED <<up, cut, mutex, loopVars, hbVars, beat, net>>

(* onClientConnected(): the previous client is unlinked and closed ... *)
AcceptBegin(s) ==
    /\ pcT = None /\ server /\ conn[s] = "free"
    /\ pcT' = s
    /\ announce' = IF client = None THEN "none" ELSE "due"
    /\ conn' = [x \in Session |-> IF x = s THEN "open"
                                  ELSE IF x = client /\ conn[x] = "open" THEN "closing"
                                  ELSE conn[x]]
    /\ buf' = [x \in Session |-> IF x \in {s, client} THEN <<>> ELSE buf[x]]
    /\ phone' = [x \in Session |-> IF x \in {s, client} THEN Fresh ELSE phone[x]]
    /\ pong' = [x \in Session |-> pong[x] /\ x \notin {s, client}]
    /\ client' = None
    /\ UNCHANGED <<up, cut, mutex, loopVars, hbVars, beat, net>>

(* ... main.cpp is told of it, before ... *)
AcceptCall ==
    /\ pcT # None /\ announce = "due"
    /\ announce' = "done"
    /\ UNCHANGED <<up, client, tcp, mutex, loopVars, hbVars, pcT, beat, net>>

(* ... the new one is installed.  If a frame is half written its remaining *)
(* units go to the new session.                                            *)
AcceptEnd ==
    /\ pcT # None /\ announce # "due"
    /\ client' = pcT
    /\ pcT' = None /\ announce' = "none"
    /\ cut' = [cut EXCEPT ![pcT] = pcL = "write" /\ 0 < sent /\ sent < FrameLen]
    /\ waiting' = FALSE /\ pingNeeded' = FALSE /\ pingAge' = 0
    /\ UNCHANGED <<up, conn, buf, phone, pong, mutex, loopVars, hbVars, net>>

(* the _bc.onPong callback *)
OnPong(s) ==
    /\ pcT = None /\ conn[s] = "open" /\ pong[s]
    /\ pong' = [pong EXCEPT ![s] = FALSE]
    /\ waiting' = FALSE
    /\ UNCHANGED <<up, client, conn, buf, phone, cut, mutex, loopVars, hbVars,
                   accept, pingAge, pingNeeded, net>>

(* Fault: the _client == c test is missing. *)
UnlinkAny(s) ==
    /\ client' = None
    /\ waiting' = FALSE

Unlink(s) ==
    /\ client' = IF client = s THEN None ELSE client
    /\ waiting' = (waiting /\ client # s)

(* the phone closes, or onTimeout() calls close(): connected() is false *)
OnClose(s) ==
    /\ pcT = None /\ conn[s] = "open"
    /\ ClosedTcp({s})
    /\ UNCHANGED <<up, client, mutex, loopVars, hbVars, accept, beat, net>>

(* onError: abrupt loss; onDisconnect still follows *)
OnError(s) ==
    /\ pcT = None /\ conn[s] = "open"
    /\ ClosedTcp({s})
    /\ Unlink(s)
    /\ UNCHANGED <<up, mutex, loopVars, hbVars, accept, pingAge, pingNeeded, net>>

(* onDisconnect, then delete c *)
OnDisconnect(s) ==
    /\ pcT = None /\ conn[s] = "closing"
    /\ conn' = [conn EXCEPT ![s] = "free"]
    /\ cut' = [cut EXCEPT ![s] = FALSE]
    /\ Unlink(s)
    /\ UNCHANGED <<up, buf, phone, pong, mutex, loopVars, hbVars, accept,
                   pingAge, pingNeeded, net>>

AsyncTCP == AcceptCall \/ AcceptEnd \/ \E s \in Session : OnPong(s) \/ OnDisconnect(s)

Peer == \E s \in Session : AcceptBegin(s) \/ OnClose(s) \/ OnError(s)

-----------------------------------------------------------------------------
(* The phone reads a unit; it answers a ping it has seen whole, or not.    *)

PhoneReads(s) ==
    /\ conn[s] = "open" /\ buf[s] # <<>>
    /\ LET u == Head(buf[s])
           bad == phone[s].garbled \/ ~Follows(phone[s].at, u)
       IN /\ phone' = [phone EXCEPT ![s] = [at |-> u, garbled |-> bad]]
          /\ \/ UNCHANGED pong
             \/ /\ u.msg = "ping" /\ IsEnd(u) /\ ~bad
                /\ pong' = [pong EXCEPT ![s] = TRUE]
    /\ buf' = [buf EXCEPT ![s] = Tail(@)]
    /\ UNCHANGED <<up, client, conn, cut, mutex, loopVars, hbVars, accept, beat, net>>

Phone == \E s \in Session : PhoneReads(s)

(* The station loses its access point, and the WiFi library joins it       *)
(* again; the connections are left to TCP.                                 *)
StationLost ==
    /\ joined /\ joined' = FALSE
    /\ UNCHANGED <<up, client, tcp, mutex, loopVars, hbVars, accept, beat, apMode,
                   server>>

StationBack ==
    /\ ~joined /\ ~apMode /\ pcL # "apStart" /\ joined' = TRUE
    /\ UNCHANGED <<up, client, tcp, mutex, loopVars, hbVars, accept, beat, apMode,
                   server>>

Station == StationLost \/ StationBack

Tick ==
    /\ pcH \in {"watch", "late", "due"} => hbAge < MaxLag
    /\ pingAge' = IF pingAge = Uptime THEN Uptime ELSE Older(pingAge, AgeCap)
    /\ hbAge' = IF pcH \in {"watch", "late", "due"} THEN hbAge + 1 ELSE hbAge
    /\ sendAge' = IF pcL = "write" THEN Older(sendAge, SendTimeout + 1) ELSE sendAge
    /\ UNCHANGED <<up, client, tcp, mutex, pcL, sent, pcH, accept, waiting,
                   pingNeeded, net>>

(* the panic handler has restarted the firmware and setup() has run *)
Reboot == ~up /\ up' = TRUE /\ UNCHANGED <<client, tcp, mutex, loopVars, hbVars, accept, beat, net>>

Next == \/ up /\ (SendEnter \/ Send \/ SwitchToSoftAP \/ Update \/ AsyncTCP
                  \/ Peer \/ Phone \/ Station \/ Tick)
        \/ Reboot

Spec == Init /\ [][Next]_vars

(* Every task is scheduled and time passes; a send() waiting for the mutex *)
(* gets it when it keeps being given back (the heartbeat task sleeps       *)
(* between its attempts).                                                  *)
FairSpec ==
    /\ Spec
    /\ WF_vars(up /\ (Send \/ SwitchEnd \/ SwitchLeave \/ SwitchStartAP)) /\ SF_vars(up /\ SendLock)
    /\ WF_vars(up /\ Update) /\ WF_vars(up /\ AsyncTCP)
    /\ SF_vars(up /\ Tick) /\ WF_vars(Reboot)

-----------------------------------------------------------------------------
(* Properties.                                                             *)

LoopHolds == {"early", "earlyTest", "earlyPut", "earlyBook",
              "needed", "neededTest", "neededPut", "neededBook", "write",
              "exit", "exitTest", "exitPut", "exitBook", "give"}
HeartbeatHolds == {"ping", "put", "book", "give"}

(* Every variable keeps its type.                                          *)
TypeOK ==
    /\ up \in BOOLEAN
    /\ client \in Session \cup {None}
    /\ conn \in [Session -> {"free", "open", "closing"}]
    /\ buf \in [Session -> Seq(Unit)]
    /\ \A s \in Session : Len(buf[s]) <= SendBuf
    /\ phone \in [Session -> [at : Unit, garbled : BOOLEAN]]
    /\ pong \in [Session -> BOOLEAN]
    /\ cut \in [Session -> BOOLEAN]
    /\ mutex \in {"free", "loop", "heartbeat"}
    /\ pcL \in {"idle", "lock", "ap", "apLeave", "apStart"} \cup LoopHolds
    /\ sent \in 0..FrameLen
    /\ sendAge \in 0..(SendTimeout + 1)
    /\ pcH \in {"idle", "clear", "watch", "late", "drop", "due",
               "needed", "take"} \cup HeartbeatHolds
    /\ hbAge \in 0..MaxLag
    /\ pcT \in Session \cup {None}
    /\ announce \in {"none", "due", "done"}
    /\ pingAge \in 0..Uptime
    /\ waiting \in BOOLEAN
    /\ pingNeeded \in BOOLEAN
    /\ joined \in BOOLEAN
    /\ apMode \in BOOLEAN
    /\ server \in BOOLEAN

(* _writeMutex is held by exactly the task that is between its take and    *)
(* its give, so at most one task writes to the socket.                     *)
MutexHolder ==
    /\ mutex = "loop" <=> pcL \in LoopHolds
    /\ mutex = "heartbeat" <=> pcH \in HeartbeatHolds

(* Frames and pings never mix: a phone whose session was not cut short by  *)
(* the device finds every message whole and in its place.  The mutex and   *)
(* the frame-boundary pings of send() and update() are there for this.     *)
FramesIntact == \A s \in Session : phone[s].garbled => cut[s]

(* Why FramesIntact holds: on a session that was not cut short, what the   *)
(* phone has read and what waits in the socket form one chain, and the     *)
(* last unit of it is where the writer of the current client stands.       *)
MidFrame == pcL = "write" /\ sent > 0

WriterInv ==
    /\ pcT # None => client = None
    /\ sent > 0 => pcL \in {"write", "exit", "exitTest", "exitPut", "exitBook", "give"}
    /\ pcL = "write" => sent < FrameLen

QuietInv ==
    \A s \in Session : conn[s] # "open" \/ s = pcT => buf[s] = <<>> /\ phone[s] = Fresh

ChainInv ==
    \A s \in Session : ~cut[s] =>
        /\ ~phone[s].garbled
        /\ Chain(phone[s].at, buf[s])
        /\ conn[s] = "open" /\ s = client =>
             IF MidFrame
             THEN LastOf(phone[s].at, buf[s]) = [msg |-> "frame", idx |-> sent]
             ELSE IsEnd(LastOf(phone[s].at, buf[s]))

StreamInv == WriterInv /\ QuietInv /\ ChainInv

(* A session the manager has unlinked while it was still open is lost to   *)
(* it; only switchToSoftAP() racing an accept may cause that.              *)
NoOrphanSession ==
    \A s \in Session : conn[s] = "open" =>
        s = client \/ s = pcT \/ pcL = "apLeave"

(* To main.cpp the manager is a link with at most one client: on which a  *)
(* client that replaces another, closed already or not, is announced       *)
(* before it can be sent to; which can be sent to as long as it is held,   *)
(* closed or not, and the station is up.                                   *)
Link == INSTANCE WifiLink WITH
            station <- IsConnected, held <- client # None, open <- Connected,
            taking <- pcT # None
ImplementsLink == Link!Spec

(* send() always returns: a peer that stops reading only costs the send    *)
(* timeout, and the heartbeat task cannot keep the mutex.                  *)
SendReturns == (pcL = "lock") ~> (pcL = "idle")

(* A ping that update() marked as due is sent (or its session ends), even  *)
(* when a frame holds the mutex each time update() tries.                  *)
DuePingServed == pingNeeded ~> ~pingNeeded

(* The watchdog decides to drop a client only after PongTimeout without a  *)
(* pong.                                                                   *)
NoEarlyDrop == [][pcH # "drop" /\ pcH' = "drop" => pingAge >= PongTimeout]_vars

(* Neither task works through a null client pointer.                       *)
NeverPanics == up

=============================================================================
