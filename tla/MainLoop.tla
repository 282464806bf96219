------------------------------ MODULE MainLoop ------------------------------
(***************************************************************************)
(* loop() of src/main.cpp with the transports it drives: ActiveTransport,  *)
(* WiFiTransport and BleGraphicsTransport.  One action per stretch of the  *)
(* loop that reads shared state once; phones come and go in between, on    *)
(* the AsyncTCP and NimBLE tasks, and set the flags loop() consumes.       *)
(*                                                                         *)
(* A session is one TCP client or one BLE subscription.  What is rendered  *)
(* is a sequence of parts, each marked with the session its link had when  *)
(* it was rendered.  A flush delivers to the session the link has then:    *)
(* BleManager and WiFiManager say what can happen to it on the way.  The   *)
(* WiFi link can be sent to while the station is up and the manager holds  *)
(* a client, be it closed already; only an open one gets anything.         *)
(***************************************************************************)
EXTENDS Integers, Sequences, FiniteSetsExt

CONSTANTS
    Blink,          \* links on which a phone may be back before loop() has
                    \* seen it gone
    Overlap,        \* TRUE: a phone may come on one link while loop() still
                    \* has the other
    Early,          \* links on which a phone may come while setup() runs
    Keys, NoKey,    \* the keys that ask for a test; none of them
    MaxSession      \* bound: sessions

ASSUME LoopAssumption == /\ Overlap \in BOOLEAN
                         /\ Blink \subseteq {"wifi", "ble"}
                         /\ Early \subseteq {"wifi", "ble"}
                         /\ NoKey \notin Keys
                         /\ MaxSession \in Nat

VARIABLES
    wifi, ble,      \* the session of the WiFi manager's client, and of the
                    \* BLE subscription; 0 when there is none
    wifiOpen,       \* the WiFi client is not closed
    station,        \* WiFi.status() and _apMode: "joined", "lost" or "ap"
    taking,         \* onClientConnected() is installing a client
    announce,       \* its onConnected: "none", "due" or "done"
    used,           \* sessions so far
    unseen,         \* history: links whose phone came while loop() was using
                    \* them, or that missed a part of the UI because the
                    \* station was lost, with no initPhoneUI() begun since
    wifiReconnectPending, bleSubscribePending,
    pendingTest,
    pc, ret,        \* place in loop(), place to return to after initPhoneUI()
    active,         \* transport.get()
    changed, canRender, wasReady, which,    \* locals of the same names, at
                                    \* rest once nothing reads them any more
    phoneReady,
    settled,        \* millis() - transportReadyMs >= 200
    gpsFixed,       \* gpsState = Fixed
    buf,            \* _txBuf of the WiFi and _buf of the BLE transport
    screen,         \* what the phone of each link's session shows
    stale           \* history: flips each time a phone gets parts that were
                    \* rendered for another session

links == <<wifi, wifiOpen, station, ble, taking, announce, used, unseen>>
pending == <<wifiReconnectPending, bleSubscribePending>>
place == <<pc, ret>>
locals == <<changed, canRender, wasReady, which>>
wire == <<buf, screen, stale>>
vars == <<links, pending, pendingTest, place, active, locals, phoneReady,
          settled, gpsFixed, wire>>

-----------------------------------------------------------------------------

Links == {"wifi", "ble"}
Sessions == 1..MaxSession
Parts == {"begin", "labels", "values", "status", "test"}
Screens == {"none", "blank", "labels", "status", "test"}

Session(l) == IF l = "wifi" THEN wifi ELSE ble

(* canSend() of each transport: isConnected() && clientConnected(), and a  *)
(* subscription                                                            *)
Up(l) == Session(l) # 0 /\ (l = "wifi" => station # "lost")

(* ActiveTransport::canSend() *)
CanSend == active # "none" /\ Up(active)

(* what flush() sends reaches a phone *)
Heard(l) == Up(l) /\ (l = "wifi" => wifiOpen)

Init ==
    /\ wifi = 0 /\ ble = 0 /\ used = 0
    /\ wifiOpen = FALSE /\ station \in {"joined", "ap"}
    /\ taking = FALSE /\ announce = "none" /\ unseen = {}
    /\ wifiReconnectPending = FALSE /\ bleSubscribePending = FALSE
    /\ pendingTest = NoKey
    /\ pc = "setup" /\ ret = "tick"
    /\ active = "none"
    /\ changed = FALSE /\ canRender = FALSE /\ wasReady = FALSE
    /\ which = NoKey
    /\ phoneReady = FALSE
    /\ settled = TRUE
    /\ gpsFixed = FALSE
    /\ buf = [l \in Links |-> <<>>]
    /\ screen = [l \in Links |-> "none"]
    /\ stale = FALSE

-----------------------------------------------------------------------------
(* Rendering and flushing.                                                 *)

(* What a phone that shows s shows after items: it has no surface to draw  *)
(* on before BEGIN, which clears it, and values go over what is there.     *)
Shown(s, items) ==
    LET begun(i) == s # "none" \/ \E j \in 1..i : items[j].part = "begin"
        drawn == {i \in DOMAIN items : begun(i) /\ items[i].part # "values"}
        last == items[Max(drawn)].part
    IN IF drawn = {} THEN s ELSE IF last = "begin" THEN "blank" ELSE last

(* some of items were rendered for another session than that of link l *)
Foreign(l, items) == \E i \in DOMAIN items : items[i].ses # Session(l)

(* items leave over link l, or are lost when it is down or its client closed *)
Deliver(l, items) ==
    /\ screen' = IF Heard(l) THEN [screen EXCEPT ![l] = Shown(@, items)]
                             ELSE screen
    /\ stale' = IF Heard(l) /\ Foreign(l, items) THEN ~stale ELSE stale

(* flush() of link l *)
Flush(l) == Deliver(l, buf[l]) /\ buf' = [buf EXCEPT ![l] = <<>>]

Item(part) == [part |-> part, ses |-> Session(active)]

(* Fault: send() buffers whatever the link. *)
DrawUnchecked(part) ==
    /\ buf' = [buf EXCEPT ![active] = Append(@, Item(part))]
    /\ UNCHANGED <<screen, stale>>

(* send(): kept while the active link is up, dropped otherwise.  Only a    *)
(* test draws enough to fill the BLE transport, which then sends what it   *)
(* holds and goes on with the rest of the scene.                           *)
Draw(part) ==
    \/ ~CanSend /\ UNCHANGED wire
    \/ /\ CanSend
       /\ buf' = [buf EXCEPT ![active] = Append(@, Item(part))]
       /\ UNCHANGED <<screen, stale>>
    \/ /\ CanSend /\ active = "ble" /\ part = "test"
       /\ Deliver("ble", Append(buf["ble"], Item(part)))
       /\ buf' = [buf EXCEPT !["ble"] = <<Item(part)>>]

(* Fault: the frame is left to the idle flush. *)
FlushActiveKeeps == UNCHANGED wire

FlushActive == IF active = "none" THEN UNCHANGED wire ELSE Flush(active)

GoTo(p) == pc' = p /\ UNCHANGED ret

-----------------------------------------------------------------------------
(* loop(), in order.                                                       *)

(* setup() registers the callbacks last, when the links are long up *)
Setup ==
    /\ pc = "setup" /\ GoTo("tick")
    /\ UNCHANGED <<links, pending, pendingTest, active, locals, phoneReady,
                   settled, gpsFixed, wire>>

(* wifiTransport.tick(): auto-flush of what sat idle, once the UI is up *)
Tick ==
    /\ pc = "tick" /\ GoTo("look")
    /\ \E idle \in BOOLEAN :
         IF phoneReady /\ idle THEN Flush("wifi") ELSE UNCHANGED wire
    /\ UNCHANGED <<links, pending, pendingTest, active, locals, phoneReady,
                   settled, gpsFixed>>

(* updateActiveTransport(): WiFi before BLE *)
Look ==
    /\ pc = "look" /\ GoTo("check")
    /\ active' = IF Up("wifi") THEN "wifi" ELSE IF Up("ble") THEN "ble" ELSE "none"
    /\ changed' = (active' # active)
    /\ UNCHANGED <<links, pending, pendingTest, canRender, wasReady, which,
                   phoneReady, settled, gpsFixed, wire>>

Check ==
    /\ pc = "check" /\ GoTo("react")
    /\ canRender' = CanSend
    /\ UNCHANGED <<links, pending, pendingTest, active, changed, wasReady,
                   which, phoneReady, settled, gpsFixed, wire>>

(* Fault: a transport that is lost is not noticed. *)
ReactIgnoresLoss ==
    /\ pc = "react" /\ GoTo("defer")
    /\ wifiReconnectPending' = FALSE
    /\ phoneReady' = (phoneReady /\ ~wifiReconnectPending)
    /\ buf' = IF wifiReconnectPending THEN [buf EXCEPT !["wifi"] = <<>>] ELSE buf
    /\ settled' = (settled /\ ~wifiReconnectPending /\ ~(changed /\ canRender))
    /\ changed' = FALSE
    /\ UNCHANGED <<links, bleSubscribePending, pendingTest, active, canRender,
                   wasReady, which, gpsFixed, screen, stale>>

(* a TCP client that replaced another one; a transport that changed *)
React ==
    /\ pc = "react" /\ GoTo("defer")
    /\ wifiReconnectPending' = FALSE
    /\ LET lost == changed /\ ~canRender
           again == wifiReconnectPending IN
       /\ phoneReady' = (phoneReady /\ ~again /\ ~lost)
       /\ buf' = IF again \/ lost THEN [buf EXCEPT !["wifi"] = <<>>] ELSE buf
       /\ settled' = (settled /\ ~again /\ ~(changed /\ canRender))
    /\ changed' = FALSE
    /\ UNCHANGED <<links, bleSubscribePending, pendingTest, active, canRender,
                   wasReady, which, gpsFixed, screen, stale>>

(* the deferred initPhoneUI(): a TCP buffer with space after the settle    *)
(* time, or a BLE phone that has subscribed                                *)
MayInit == /\ ~phoneReady /\ canRender
           /\ \/ active = "wifi" /\ wifi # 0 /\ wifiOpen /\ settled
              \/ active = "ble" /\ bleSubscribePending

CallInit(p) == pc' = "begin" /\ ret' = p

DeferInit ==
    /\ pc = "defer" /\ MayInit
    /\ bleSubscribePending' = FALSE
    /\ CallInit("console")
    /\ UNCHANGED <<links, wifiReconnectPending, pendingTest, active, locals,
                   phoneReady, settled, gpsFixed, wire>>

(* nothing to do, or not yet: a TCP buffer may be without space *)
DeferNot ==
    /\ pc = "defer" /\ (MayInit => active = "wifi")
    /\ GoTo("console")
    /\ UNCHANGED <<links, pending, pendingTest, active, locals, phoneReady,
                   settled, gpsFixed, wire>>

(* pollConsole(): nothing, a test, or the switch to SoftAP *)
Console ==
    /\ pc = "console" /\ GoTo("test")
    /\ \/ UNCHANGED <<pendingTest, wifi, wifiOpen, station>>
       \/ pendingTest' \in Keys /\ UNCHANGED <<wifi, wifiOpen, station>>
       \/ /\ station # "ap" /\ station' = "ap"
          /\ wifi' = 0 /\ wifiOpen' = FALSE
          /\ UNCHANGED pendingTest
    /\ UNCHANGED <<ble, taking, announce, used, unseen, pending, active, locals,
                   phoneReady, settled, gpsFixed, wire>>

NoTest ==
    /\ pc = "test" /\ pendingTest = NoKey /\ GoTo("gps")
    /\ UNCHANGED <<links, pending, pendingTest, active, locals, phoneReady,
                   settled, gpsFixed, wire>>

(* the key is read ... *)
TestRead ==
    /\ pc = "test" /\ pendingTest # NoKey /\ GoTo("testTake")
    /\ which' = pendingTest
    /\ UNCHANGED <<links, pending, pendingTest, active, changed, canRender,
                   wasReady, phoneReady, settled, gpsFixed, wire>>

(* ... then cleared; runTestsOnAvailableDisplays(): on the phone too if    *)
(* its UI was up                                                           *)
TestStart ==
    /\ pc = "testTake"
    /\ pendingTest' = NoKey /\ which' = NoKey
    /\ wasReady' = phoneReady
    /\ phoneReady' = FALSE
    /\ GoTo(IF phoneReady /\ CanSend THEN "testDraw" ELSE "testEnd")
    /\ UNCHANGED <<links, pending, active, changed, canRender, settled, gpsFixed,
                   wire>>

(* a key without a test draws nothing *)
TestDraw ==
    /\ pc = "testDraw" /\ GoTo("testFlush")
    /\ Draw("test") \/ UNCHANGED wire
    /\ UNCHANGED <<links, pending, pendingTest, active, locals, phoneReady,
                   settled, gpsFixed>>

TestFlush ==
    /\ pc = "testFlush" /\ GoTo("testEnd")
    /\ FlushActive
    /\ UNCHANGED <<links, pending, pendingTest, active, locals, phoneReady,
                   settled, gpsFixed>>

TestEnd ==
    /\ pc = "testEnd"
    /\ IF wasReady /\ CanSend THEN CallInit("tick") ELSE GoTo("tick")
    /\ wasReady' = FALSE
    /\ UNCHANGED <<links, pending, pendingTest, active, changed, canRender,
                   which, phoneReady, settled, gpsFixed, wire>>

(* what loop() leaves out or loses now misses a client that stays: the     *)
(* station is lost for a moment                                            *)
Missed(late) == IF late /\ active = "wifi" /\ wifi # 0 THEN {"wifi"} ELSE {}

(* Fault: the labels are not redrawn. *)
GpsFixNoInit ==
    /\ pc = "gps" /\ GoTo("values")
    /\ gpsFixed' = TRUE
    /\ unseen' = unseen \cup Missed(~gpsFixed /\ phoneReady /\ ~canRender)
    /\ UNCHANGED <<wifi, wifiOpen, station, ble, taking, announce, used, pending,
                   pendingTest, active, locals, phoneReady, settled, wire>>

(* gps.hasNewData(): the step to Fixed redraws the labels, unless the link *)
(* was down when loop() looked                                             *)
GpsFix ==
    /\ pc = "gps"
    /\ gpsFixed' = TRUE
    /\ IF ~gpsFixed /\ phoneReady /\ canRender THEN CallInit("values")
                                               ELSE GoTo("values")
    /\ unseen' = unseen \cup Missed(~gpsFixed /\ phoneReady /\ ~canRender)
    /\ UNCHANGED <<wifi, wifiOpen, station, ble, taking, announce, used, pending,
                   pendingTest, active, locals, phoneReady, settled, wire>>

GpsWeak ==
    /\ pc = "gps" /\ GoTo("values")
    /\ gpsFixed' = FALSE
    /\ UNCHANGED <<links, pending, pendingTest, active, locals, phoneReady,
                   settled, wire>>

(* no new data: silence downgrades the state, a status page may be due *)
GpsSilent ==
    /\ pc = "gps"
    /\ gpsFixed' \in {gpsFixed, FALSE}
    /\ \E due \in BOOLEAN :
         GoTo(IF due /\ ~gpsFixed' /\ phoneReady /\ canRender THEN "status"
                                                              ELSE "tick")
    /\ UNCHANGED <<links, pending, pendingTest, active, locals, phoneReady,
                   settled, wire>>

Values ==
    /\ pc = "values"
    /\ IF phoneReady /\ canRender THEN GoTo("flush") /\ Draw("values")
                                  ELSE GoTo("tick") /\ UNCHANGED wire
    /\ UNCHANGED <<links, pending, pendingTest, active, locals, phoneReady,
                   settled, gpsFixed>>

Status ==
    /\ pc = "status" /\ GoTo("flush")
    /\ Draw("status")
    /\ UNCHANGED <<links, pending, pendingTest, active, locals, phoneReady,
                   settled, gpsFixed>>

FrameFlush ==
    /\ pc = "flush" /\ GoTo("tick")
    /\ FlushActive
    /\ UNCHANGED <<links, pending, pendingTest, active, locals, phoneReady,
                   settled, gpsFixed>>

(* initPhoneUI(): BEGIN, half a second of banner, the labels, a flush *)
InitBegin ==
    /\ pc = "begin" /\ GoTo("labels")
    /\ Draw("begin")
    /\ unseen' = IF CanSend THEN unseen \ {active} ELSE unseen \cup Missed(TRUE)
    /\ UNCHANGED <<wifi, wifiOpen, station, ble, taking, announce, used, pending,
                   pendingTest, active, locals, phoneReady, settled, gpsFixed>>

InitLabels ==
    /\ pc = "labels" /\ GoTo("initFlush")
    /\ Draw("labels")
    /\ unseen' = unseen \cup Missed(~CanSend)
    /\ UNCHANGED <<wifi, wifiOpen, station, ble, taking, announce, used, pending,
                   pendingTest, active, locals, phoneReady, settled, gpsFixed>>

InitFlush ==
    /\ pc = "initFlush" /\ pc' = ret /\ ret' = "tick"
    /\ FlushActive
    /\ phoneReady' = TRUE
    /\ unseen' = unseen \cup Missed(~CanSend)
    /\ UNCHANGED <<wifi, wifiOpen, station, ble, taking, announce, used, pending,
                   pendingTest, active, locals, settled, gpsFixed>>

Loop == \/ Setup \/ Tick \/ Look \/ Check \/ React \/ DeferInit \/ DeferNot
        \/ Console \/ NoTest \/ TestRead \/ TestStart \/ TestDraw
        \/ TestFlush \/ TestEnd
        \/ GpsFix \/ GpsWeak \/ GpsSilent \/ Values \/ Status \/ FrameFlush
        \/ InitBegin \/ InitLabels \/ InitFlush

-----------------------------------------------------------------------------
(* The other tasks.                                                        *)

Other(l) == IF l = "wifi" THEN "ble" ELSE "wifi"

(* the callbacks of main.cpp are in place *)
Registered == pc # "setup"

Alone(l) == Overlap \/ (Session(Other(l)) = 0 /\ ~taking /\ active # Other(l))

(* a client that is being installed has its number already *)
Room == used + (IF taking THEN 1 ELSE 0) < MaxSession

MayCome(l) ==
    /\ Room
    /\ l \in Early \/ Registered
    /\ l \in Blink \/ active # l
    /\ Alone(l)

rest == <<pendingTest, place, active, locals, phoneReady, gpsFixed, buf, stale>>

(* loop() takes a phone that comes on its active link for the one before *)
Came(l) == unseen' = IF active = l THEN unseen \cup {l} ELSE unseen \ {l}

NewScreen(l) == screen' = [screen EXCEPT ![l] = "none"]

(* The WiFi manager, as the link it implements. *)
Wifi == INSTANCE WifiLink WITH
            up <- TRUE, station <- station # "lost", held <- wifi # 0,
            open <- wifiOpen

(* onClientConnected() without a client before: no callback *)
WifiAccept ==
    /\ MayCome("wifi")
    /\ taking' = TRUE /\ announce' = "none"
    /\ UNCHANGED <<wifi, wifiOpen, station>>
    /\ Wifi!Accept
    /\ Came("wifi")
    /\ UNCHANGED <<ble, used, pending, rest, settled, screen>>

(* with one, be it closed already: let go of it ... *)
WifiTakeover ==
    /\ Room
    /\ wifi' = 0 /\ wifiOpen' = FALSE /\ taking' = TRUE /\ announce' = "due"
    /\ UNCHANGED station
    /\ Wifi!Takeover
    /\ unseen' = unseen \ {"wifi"}
    /\ UNCHANGED <<ble, used, pending, rest, settled, screen>>

(* Fault: the callback does not set the flag. *)
WifiAnnounceSilent ==
    /\ announce' = "done"
    /\ UNCHANGED <<wifi, wifiOpen, station, taking>>
    /\ Wifi!Announce
    /\ UNCHANGED <<ble, used, unseen, pending, rest, settled, screen>>

(* ... and call back *)
WifiAnnounce ==
    /\ announce' = "done"
    /\ UNCHANGED <<wifi, wifiOpen, station, taking>>
    /\ Wifi!Announce
    /\ wifiReconnectPending' = (wifiReconnectPending \/ Registered)
    /\ UNCHANGED <<ble, used, unseen, bleSubscribePending, rest, settled, screen>>

(* the new client is in place; it may have been closed meanwhile *)
WifiTaken ==
    /\ taking' = FALSE /\ announce' = "none"
    /\ used' = used + 1 /\ wifi' = used' /\ wifiOpen' \in BOOLEAN
    /\ UNCHANGED station
    /\ Wifi!Taken
    /\ NewScreen("wifi")
    /\ UNCHANGED <<ble, unseen, pending, rest, settled>>

(* the client is closed or lost; onDisconnect() or onError(), whose        *)
(* callback in main.cpp does nothing, let go of it at once or later        *)
WifiLeave ==
    /\ wifiOpen' = FALSE /\ wifi' \in {wifi, 0}
    /\ UNCHANGED <<station, taking, announce>>
    /\ Wifi!Leave
    /\ UNCHANGED <<ble, used, unseen, pending, rest, settled, screen>>

WifiUnlink ==
    /\ wifi' = 0
    /\ UNCHANGED <<wifiOpen, station, taking, announce>>
    /\ Wifi!Unlink
    /\ UNCHANGED <<ble, used, unseen, pending, rest, settled, screen>>

(* the access point goes, with the client's connection or without, and is  *)
(* joined again                                                            *)
StationLost ==
    /\ station = "joined" /\ station' = "lost"
    /\ wifiOpen' \in {wifiOpen, FALSE}
    /\ UNCHANGED <<wifi, taking, announce>>
    /\ Wifi!StationLost
    /\ UNCHANGED <<ble, used, unseen, pending, rest, settled, screen>>

StationBack ==
    /\ station' = "joined"
    /\ UNCHANGED <<wifi, wifiOpen, taking, announce>>
    /\ Wifi!StationBack
    /\ UNCHANGED <<ble, used, unseen, pending, rest, settled, screen>>

(* onSubscribe() and its callback; a phone that goes from notifications to *)
(* indications stays in its session                                        *)
BleSubscribe ==
    /\ bleSubscribePending' = (bleSubscribePending \/ Registered)
    /\ IF ble # 0 THEN UNCHANGED <<ble, used, unseen, screen>>
       ELSE /\ MayCome("ble")
            /\ Came("ble")
            /\ used' = used + 1 /\ ble' = used' /\ NewScreen("ble")
    /\ UNCHANGED <<wifi, wifiOpen, station, taking, announce, wifiReconnectPending,
                   rest, settled>>

(* unsubscribed or disconnected: the flag stays *)
BleLeave ==
    /\ ble # 0 /\ ble' = 0
    /\ UNCHANGED <<wifi, wifiOpen, station, taking, announce, used, unseen, pending,
                   rest, settled, screen>>

(* keyHandler(), called by either back channel *)
KeyPress ==
    /\ Registered
    /\ pendingTest' \in Keys
    /\ UNCHANGED <<links, pending, place, active, locals, phoneReady, settled,
                   gpsFixed, wire>>

Settle ==
    /\ ~settled /\ settled' = TRUE
    /\ UNCHANGED <<links, pending, rest, screen>>

Phone == \/ WifiAccept \/ WifiTakeover \/ WifiLeave \/ WifiUnlink
         \/ StationLost \/ StationBack \/ BleSubscribe \/ BleLeave

WifiInstall == WifiAnnounce \/ WifiTaken

Next == Loop \/ Phone \/ WifiInstall \/ KeyPress \/ Settle

Spec == Init /\ [][Next]_vars

(* loop() runs, time passes, an accept completes, and the TCP buffer of a  *)
(* client that stays is not without space each time loop() looks.          *)
FairSpec == /\ Spec
            /\ WF_vars(Loop) /\ WF_vars(Settle) /\ WF_vars(WifiInstall)
            /\ SF_vars(DeferInit)

-----------------------------------------------------------------------------
(* Properties.                                                             *)

(* Every variable keeps its type. *)
TypeOK ==
    /\ wifi \in 0..MaxSession /\ ble \in 0..MaxSession
    /\ wifiOpen \in BOOLEAN /\ station \in {"joined", "lost", "ap"}
    /\ taking \in BOOLEAN /\ announce \in {"none", "due", "done"}
    /\ used \in 0..MaxSession
    /\ unseen \subseteq Links
    /\ wifiReconnectPending \in BOOLEAN /\ bleSubscribePending \in BOOLEAN
    /\ pendingTest \in Keys \cup {NoKey} /\ which \in Keys \cup {NoKey}
    /\ pc \in {"setup", "tick", "look", "check", "react", "defer", "console",
               "test", "testTake", "testDraw", "testFlush", "testEnd", "gps",
               "values", "status", "flush", "begin", "labels", "initFlush"}
    /\ ret \in {"tick", "console", "values"}
    /\ active \in Links \cup {"none"}
    /\ changed \in BOOLEAN /\ canRender \in BOOLEAN /\ wasReady \in BOOLEAN
    /\ phoneReady \in BOOLEAN /\ settled \in BOOLEAN /\ gpsFixed \in BOOLEAN
    /\ buf \in [Links -> Seq([part : Parts, ses : Sessions])]
    /\ screen \in [Links -> Screens]
    /\ stale \in BOOLEAN

(* No frame straddles two iterations of loop(): whatever phones do, each   *)
(* one ends with both transport buffers empty, so that neither the idle    *)
(* flush nor a reset that was forgotten (loop() never resets the BLE       *)
(* transport) can put old bytes before the next session's init.            *)
FramesFlushed ==
    pc \in {"setup", "tick", "look", "check", "react", "defer"} =>
        \A l \in Links : buf[l] = <<>>

(* Telemetry of a fixed GPS lands on its labels: when loop() is about to   *)
(* draw it for a phone that can get it, no replacement of the client is    *)
(* waiting to be handled and the phone did not come unseen or lose a part  *)
(* of the UI to the station, that phone has had BEGIN and the labels in    *)
(* this very session, and no status page or test since.                    *)
ValuesOnLabels ==
    (/\ pc = "values" /\ gpsFixed
     /\ phoneReady /\ canRender /\ active # "none" /\ Heard(active)
     /\ ~wifiReconnectPending /\ active \notin unseen)
        => screen[active] = "labels"

(* A phone that stays reachable on the link loop() should use gets the UI, *)
(* however it came there (README.md: when the active transport changes,    *)
(* initPhoneUI() is scheduled), but one that came unseen, or whose UI was  *)
(* drawn while the station was lost for a moment, with phoneReady TRUE.    *)
(* Sessions come to an end, so that in each behaviour one stays or none.   *)
Overlooked(l) == l \in unseen /\ phoneReady

PhoneShown ==
    /\ []<>(~Heard("wifi") \/ Overlooked("wifi") \/ screen["wifi"] # "none")
    /\ []<>(ble = 0 \/ Up("wifi") \/ Overlooked("ble") \/ screen["ble"] # "none")

(* Stale bytes of a previous connection do not reach the next one before   *)
(* its init (the comment on wifiReconnectPending): each time parts that    *)
(* were rendered for another session do reach a phone, it replaced another *)
(* WiFi client, and then the flag is set and the init that follows it      *)
(* still to come; or it came unseen.                                       *)
StaleOnlyOnTakeover ==
    [][stale' # stale => \/ wifiReconnectPending /\ wifi # 0
                        \/ active \in unseen]_vars

=============================================================================
