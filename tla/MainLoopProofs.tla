--------------------------- MODULE MainLoopProofs ---------------------------
(* Proofs about MainLoop, for any number of sessions and phones that come  *)
(* and go in any way (Blink, Overlap and Early), but for TelemetryOnLabels,*)
(* which takes it that one link is used at a time (Overlap = FALSE) and is *)
(* false without.                                                          *)
EXTENDS MainLoop, SequenceTheorems, TLAPS

(* The places of loop() where a frame is being rendered: what was drawn is *)
(* in the buffer of the active transport, and a flush is bound to come.    *)
Rendering == {"labels", "initFlush", "testFlush", "flush"}

(* initPhoneUI() and a flush return to places where nothing is buffered.   *)
Quiet == {"tick", "console", "values"}

(* FramesFlushed is not inductive: nothing in it says where the bytes are  *)
(* while a frame is rendered, nor where initPhoneUI() returns to.          *)
FlushInv ==
    /\ ret \in Quiet
    /\ buf = [l \in Links |-> buf[l]]
    /\ \A l \in Links : (l # active \/ pc \notin Rendering) => buf[l] = <<>>

LEMMA FlushInvInit == Init => FlushInv
  BY DEF Init, FlushInv, Quiet, Rendering

(* A flush empties the buffer it is for and leaves the other alone.        *)
LEMMA FlushEmpties ==
    ASSUME FlushInv, FlushActive
    PROVE  /\ buf' = [l \in Links |-> buf'[l]]
           /\ \A l \in Links : buf'[l] = <<>>
<1>1. CASE active = "none"
  BY <1>1 DEF FlushInv, FlushActive, wire, Links
<1>2. CASE active # "none"
  <2>1. buf' = [buf EXCEPT ![active] = <<>>]
    BY <1>2 DEF FlushActive, Flush
  <2> QED
    BY <2>1 DEF FlushInv
<1> QED
  BY <1>1, <1>2

(* Rendering touches the buffer of the active transport only.              *)
LEMMA DrawKeepsOthers ==
    ASSUME FlushInv, NEW part, Draw(part)
    PROVE  /\ buf' = [l \in Links |-> buf'[l]]
           /\ \A l \in Links : l # active => buf'[l] = buf[l]
  BY DEF FlushInv, Draw, wire

LEMMA FlushInvStep == FlushInv /\ [Next]_vars => FlushInv'
<1> SUFFICES ASSUME FlushInv, [Next]_vars PROVE FlushInv'
  OBVIOUS
<1> USE DEF FlushInv, Rendering, Quiet, GoTo, CallInit
<1>1. CASE Tick
  <2>1. \A l \in Links : buf[l] = <<>>
    BY <1>1 DEF Tick
  <2>2. buf' = [buf EXCEPT !["wifi"] = <<>>] \/ buf' = buf
    BY <1>1 DEF Tick, Flush, wire
  <2>3. buf' = [l \in Links |-> buf'[l]] /\ \A l \in Links : buf'[l] = <<>>
    BY <2>1, <2>2
  <2> QED
    BY <1>1, <2>3 DEF Tick
<1>2. CASE React
  <2>1. \A l \in Links : buf[l] = <<>>
    BY <1>2 DEF React
  <2>2. buf' = [buf EXCEPT !["wifi"] = <<>>] \/ buf' = buf
    BY <1>2 DEF React
  <2>3. buf' = [l \in Links |-> buf'[l]] /\ \A l \in Links : buf'[l] = <<>>
    BY <2>1, <2>2
  <2> QED
    BY <1>2, <2>3 DEF React
<1>3. CASE Setup \/ Look \/ Check
  BY <1>3 DEF Setup, Look, Check, wire
<1>4. CASE DeferInit \/ DeferNot \/ Console \/ NoTest
  BY <1>4 DEF DeferInit, DeferNot, Console, NoTest, wire
<1>5. CASE TestRead \/ TestStart \/ TestEnd
  BY <1>5 DEF TestRead, TestStart, TestEnd, wire
<1>6. CASE GpsFix \/ GpsWeak \/ GpsSilent
  BY <1>6 DEF GpsFix, GpsWeak, GpsSilent, wire
<1>7. CASE TestDraw
  <2>1. CASE Draw("test")
    BY <1>7, <2>1, DrawKeepsOthers DEF TestDraw
  <2>2. CASE UNCHANGED wire
    BY <1>7, <2>2 DEF TestDraw, wire
  <2> QED
    BY <1>7, <2>1, <2>2 DEF TestDraw
<1>8. CASE Values
  <2>1. CASE phoneReady /\ canRender
    BY <1>8, <2>1, DrawKeepsOthers DEF Values
  <2>2. CASE ~(phoneReady /\ canRender)
    BY <1>8, <2>2 DEF Values, wire
  <2> QED
    BY <2>1, <2>2
<1>9. CASE Status
  BY <1>9, DrawKeepsOthers DEF Status
<1>10. CASE InitBegin
  BY <1>10, DrawKeepsOthers DEF InitBegin
<1>11. CASE InitLabels
  BY <1>11, DrawKeepsOthers DEF InitLabels
<1>12. CASE TestFlush
  BY <1>12, FlushEmpties DEF TestFlush
<1>13. CASE FrameFlush
  BY <1>13, FlushEmpties DEF FrameFlush
<1>14. CASE InitFlush
  BY <1>14, FlushEmpties DEF InitFlush
<1>15. CASE Phone
  BY <1>15 DEF Phone, WifiAccept, WifiTakeover, WifiLeave, WifiUnlink,
               StationLost, StationBack, BleSubscribe, BleLeave, rest, place
<1>16. CASE WifiInstall \/ KeyPress \/ Settle
  BY <1>16 DEF WifiInstall, WifiAnnounce, WifiTaken, KeyPress, Settle, rest,
               place, wire
<1>17. CASE UNCHANGED vars
  BY <1>17 DEF vars, place, wire
<1> QED
  BY <1>1, <1>2, <1>3, <1>4, <1>5, <1>6, <1>7, <1>8, <1>9, <1>10, <1>11, <1>12,
     <1>13, <1>14, <1>15, <1>16, <1>17 DEF Next, Loop

(* Whatever phones do, each iteration of loop() ends with both transport   *)
(* buffers empty.                                                          *)
THEOREM EveryFrameFlushed == Spec => []FramesFlushed
<1>1. FlushInv => FramesFlushed
  BY DEF FlushInv, FramesFlushed, Rendering
<1> QED
  BY FlushInvInit, FlushInvStep, <1>1, PTL DEF Spec

-----------------------------------------------------------------------------
(* Types.                                                                  *)

(* What is drawn, with the session it was drawn for.                       *)
Drawn == [part : Parts, ses : Sessions]

(* A frame is at most the two parts of initPhoneUI().                      *)
LenInv ==
    /\ \A l \in Links : Len(buf[l]) <= 2
    /\ pc # "initFlush" => \A l \in Links : Len(buf[l]) <= 1

(* A client that is being installed has a number left for it.              *)
RoomInv == taking => used < MaxSession

LoopInv == TypeOK /\ FlushInv /\ LenInv /\ RoomInv

LEMMA LoopInvInit == Init => LoopInv
<1> SUFFICES ASSUME Init PROVE TypeOK /\ LenInv
  BY FlushInvInit DEF LoopInv, RoomInv, Init
<1>1. <<>> \in Seq(Drawn) /\ Len(<<>>) = 0
  OBVIOUS
<1>2. /\ buf \in [Links -> Seq(Drawn)] /\ screen \in [Links -> Screens]
      /\ LenInv
  BY <1>1 DEF Init, LenInv, Screens
<1>3. /\ wifi \in 0..MaxSession /\ ble \in 0..MaxSession /\ used \in 0..MaxSession
  BY LoopAssumption DEF Init
<1> QED
  BY <1>2, <1>3 DEF Init, TypeOK, Links, Drawn

LEMMA ShownTyped ==
    ASSUME NEW s \in Screens, NEW items \in Seq(Drawn), Len(items) <= 2
    PROVE  Shown(s, items) \in Screens
<1> DEFINE drawn == {i \in DOMAIN items :
                        /\ s # "none" \/ \E j \in 1..i : items[j].part = "begin"
                        /\ items[i].part # "values"}
<1>1. CASE drawn = {}
  BY <1>1 DEF Shown
<1>2. CASE drawn # {}
  <2>1. Max(drawn) \in drawn
    <3>1. Len(items) \in Nat /\ DOMAIN items = 1..Len(items)
      OBVIOUS
    <3>2. drawn \subseteq {1, 2}
      BY <3>1
    <3> HIDE DEF drawn
    <3>3. \E x \in drawn : \A y \in drawn : x >= y
      <4>1. CASE 2 \in drawn
        <5>1. \A y \in drawn : 2 >= y
          BY <3>2
        <5> QED
          BY <4>1, <5>1
      <4>2. CASE 2 \notin drawn
        <5>1. drawn = {1}
          BY <1>2, <3>2, <4>2
        <5> QED
          BY <5>1
      <4> QED
        BY <4>1, <4>2
    <3> QED
      BY <3>3 DEF Max
  <2>2. Max(drawn) \in DOMAIN items /\ items[Max(drawn)].part # "values"
    BY <2>1
  <2>3. items[Max(drawn)] \in Drawn
    BY <2>2
  <2>4. items[Max(drawn)].part \in Parts \ {"values"}
    BY <2>2, <2>3 DEF Drawn
  <2>5. Shown(s, items) = IF items[Max(drawn)].part = "begin" THEN "blank"
                          ELSE items[Max(drawn)].part
    BY <1>2 DEF Shown
  <2> QED
    BY <2>4, <2>5 DEF Parts, Screens
<1> QED
  BY <1>1, <1>2

(* What is delivered leaves a screen a screen.                             *)
LEMMA DeliverTyped ==
    ASSUME TypeOK, NEW l \in Links, NEW items \in Seq(Drawn), Len(items) <= 2,
           Deliver(l, items)
    PROVE  screen' \in [Links -> Screens] /\ stale' \in BOOLEAN
<1>1. Shown(screen[l], items) \in Screens
  BY ShownTyped DEF TypeOK
<1>2. screen' = screen \/ screen' = [screen EXCEPT ![l] = Shown(screen[l], items)]
  BY DEF Deliver
<1>3. stale' \in BOOLEAN
  BY DEF Deliver, TypeOK
<1> QED
  BY <1>1, <1>2, <1>3 DEF TypeOK

WireTyped == /\ buf \in [Links -> Seq(Drawn)] /\ screen \in [Links -> Screens]
             /\ stale \in BOOLEAN

LEMMA FlushTyped ==
    ASSUME LoopInv, NEW l \in Links, Flush(l)
    PROVE  WireTyped'
<1>1. buf[l] \in Seq(Drawn) /\ Len(buf[l]) <= 2
  BY DEF LoopInv, TypeOK, LenInv, Drawn
<1>2. screen' \in [Links -> Screens] /\ stale' \in BOOLEAN
  BY <1>1, DeliverTyped DEF Flush, LoopInv
<1>3. buf' \in [Links -> Seq(Drawn)]
  <2>1. buf \in [Links -> Seq(Drawn)]
    BY DEF LoopInv, TypeOK, Drawn
  <2>2. <<>> \in Seq(Drawn)
    OBVIOUS
  <2> QED
    BY <2>1, <2>2 DEF Flush
<1> QED
  BY <1>2, <1>3 DEF WireTyped

LEMMA FlushActiveTyped == ASSUME LoopInv, FlushActive PROVE WireTyped'
<1>1. CASE active = "none"
  BY <1>1 DEF FlushActive, wire, WireTyped, LoopInv, TypeOK, Drawn
<1>2. CASE active # "none"
  BY <1>2, FlushTyped DEF FlushActive, LoopInv, TypeOK
<1> QED
  BY <1>1, <1>2

(* What is drawn goes into the buffer, or for a BLE test out of it.        *)
LEMMA DrawTyped ==
    ASSUME LoopInv, NEW part \in Parts, Draw(part),
           part = "test" => \A l \in Links : buf[l] = <<>>
    PROVE  /\ WireTyped'
           /\ \A l \in Links :
                  Len(buf'[l]) \in Nat /\ Len(buf'[l]) <= Len(buf[l]) + 1
<1>0. /\ buf \in [Links -> Seq(Drawn)] /\ screen \in [Links -> Screens]
      /\ stale \in BOOLEAN
  BY DEF LoopInv, TypeOK, Drawn
<1>1. CASE UNCHANGED wire
  BY <1>0, <1>1 DEF wire, WireTyped
<1>2. ASSUME CanSend PROVE active \in Links /\ Item(part) \in Drawn
  BY <1>2 DEF CanSend, Up, Item, Drawn, Session, Sessions, LoopInv, TypeOK, Links
<1>3. CASE /\ CanSend
           /\ buf' = [buf EXCEPT ![active] = Append(@, Item(part))]
           /\ UNCHANGED <<screen, stale>>
  <2>1. /\ Append(buf[active], Item(part)) \in Seq(Drawn)
        /\ Len(Append(buf[active], Item(part))) = Len(buf[active]) + 1
    BY <1>0, <1>2, <1>3
  <2>2. \A l \in Links : Len(buf[l]) \in Nat
    BY <1>0
  <2> QED
    BY <1>0, <1>2, <1>3, <2>1, <2>2 DEF WireTyped
<1>4. CASE /\ CanSend /\ active = "ble" /\ part = "test"
           /\ Deliver("ble", Append(buf["ble"], Item(part)))
           /\ buf' = [buf EXCEPT !["ble"] = <<Item(part)>>]
  <2>1. buf["ble"] = <<>> /\ "ble" \in Links
    BY <1>4 DEF Links
  <2>2. /\ Append(<<>>, Item(part)) \in Seq(Drawn)
        /\ Len(Append(<<>>, Item(part))) = 1
        /\ <<Item(part)>> \in Seq(Drawn) /\ Len(<<Item(part)>>) = 1
    BY <1>2, <1>4
  <2>3. screen' \in [Links -> Screens] /\ stale' \in BOOLEAN
    <3>1. Deliver("ble", Append(<<>>, Item(part)))
      BY <1>4, <2>1
    <3>2. Len(Append(<<>>, Item(part))) <= 2
      BY <2>2
    <3> QED
      BY <2>1, <2>2, <3>1, <3>2, DeliverTyped DEF LoopInv
  <2>4. \A l \in Links : Len(buf[l]) \in Nat
    BY <1>0
  <2>5. buf' \in [Links -> Seq(Drawn)]
    BY <1>0, <1>4, <2>2
  <2>6. \A l \in Links : buf'[l] = IF l = "ble" THEN <<Item(part)>> ELSE buf[l]
    BY <1>0, <1>4
  <2>7. ASSUME NEW l \in Links
        PROVE  Len(buf'[l]) \in Nat /\ Len(buf'[l]) <= Len(buf[l]) + 1
    <3>1. CASE l = "ble"
      <4>1. Len(buf'[l]) = 1 /\ Len(buf[l]) \in Nat
        BY <2>2, <2>4, <2>6, <3>1
      <4> QED
        BY <4>1
    <3>2. CASE l # "ble"
      BY <2>4, <2>6, <3>2
    <3> QED
      BY <3>1, <3>2
  <2> QED
    BY <2>3, <2>5, <2>7 DEF WireTyped
<1> QED
  BY <1>1, <1>3, <1>4 DEF Draw

(* What is no part of the wire keeps its type: flags ...                   *)
FlagTyped ==
    /\ wifiOpen \in BOOLEAN /\ taking \in BOOLEAN
    /\ wifiReconnectPending \in BOOLEAN /\ bleSubscribePending \in BOOLEAN
    /\ changed \in BOOLEAN /\ canRender \in BOOLEAN /\ wasReady \in BOOLEAN
    /\ phoneReady \in BOOLEAN /\ settled \in BOOLEAN /\ gpsFixed \in BOOLEAN

(* ... and the others.                                                     *)
PlaceTyped ==
    /\ wifi \in 0..MaxSession /\ ble \in 0..MaxSession /\ used \in 0..MaxSession
    /\ station \in {"joined", "lost", "ap"} /\ announce \in {"none", "due", "done"}
    /\ pendingTest \in Keys \cup {NoKey} /\ which \in Keys \cup {NoKey}
    /\ pc \in {"setup", "tick", "look", "check", "react", "defer", "console",
               "test", "testTake", "testDraw", "testFlush", "testEnd", "gps",
               "values", "status", "flush", "begin", "labels", "initFlush"}
    /\ ret \in {"tick", "console", "values"}
    /\ active \in Links \cup {"none"}

LEMMA TypeSplit ==
    TypeOK <=> FlagTyped /\ PlaceTyped /\ WireTyped /\ unseen \subseteq Links
  BY DEF TypeOK, FlagTyped, PlaceTyped, WireTyped, Drawn

LEMMA FlagTypedStep == FlagTyped /\ [Next]_vars => FlagTyped'
<1> SUFFICES ASSUME FlagTyped, [Next]_vars PROVE FlagTyped'
  OBVIOUS
<1> USE DEF FlagTyped, CanSend, links, pending, place,
        locals, rest
<1>1. CASE Setup
  BY <1>1 DEF Setup
<1>2. CASE Tick
  BY <1>2 DEF Tick
<1>3. CASE Look
  BY <1>3 DEF Look, Links
<1>4. CASE Check
  BY <1>4 DEF Check
<1>5. CASE React
  BY <1>5 DEF React
<1>6. CASE DeferInit
  BY <1>6 DEF DeferInit
<1>7. CASE DeferNot
  BY <1>7 DEF DeferNot
<1>8. CASE Console
  BY <1>8 DEF Console
<1>9. CASE NoTest
  BY <1>9 DEF NoTest
<1>10. CASE TestRead
  BY <1>10 DEF TestRead
<1>11. CASE TestStart
  BY <1>11 DEF TestStart
<1>12. CASE TestDraw
  BY <1>12 DEF TestDraw
<1>13. CASE TestFlush
  BY <1>13 DEF TestFlush
<1>14. CASE TestEnd
  BY <1>14 DEF TestEnd
<1>15. CASE GpsFix
  BY <1>15 DEF GpsFix
<1>16. CASE GpsWeak
  BY <1>16 DEF GpsWeak
<1>17. CASE GpsSilent
  BY <1>17 DEF GpsSilent
<1>18. CASE Values
  BY <1>18 DEF Values
<1>19. CASE Status
  BY <1>19 DEF Status
<1>20. CASE FrameFlush
  BY <1>20 DEF FrameFlush
<1>21. CASE InitBegin
  BY <1>21 DEF InitBegin
<1>22. CASE InitLabels
  BY <1>22 DEF InitLabels
<1>23. CASE InitFlush
  BY <1>23 DEF InitFlush
<1>24. CASE WifiAccept
  BY <1>24 DEF WifiAccept
<1>25. CASE WifiTakeover
  BY <1>25 DEF WifiTakeover
<1>26. CASE WifiLeave
  BY <1>26 DEF WifiLeave
<1>27. CASE WifiUnlink
  BY <1>27 DEF WifiUnlink
<1>28. CASE WifiTaken
  BY <1>28 DEF WifiTaken
<1>29. CASE BleSubscribe
  BY <1>29 DEF BleSubscribe, MayCome
<1>30. CASE BleLeave
  BY <1>30 DEF BleLeave
<1>31. CASE KeyPress
  BY <1>31 DEF KeyPress
<1>32. CASE Settle
  BY <1>32 DEF Settle
<1>33. CASE UNCHANGED vars
  BY <1>33 DEF vars
<1>34. CASE StationLost
  BY <1>34 DEF StationLost
<1>35. CASE StationBack
  BY <1>35 DEF StationBack
<1>36. CASE WifiAnnounce
  BY <1>36 DEF WifiAnnounce
<1> QED
  BY <1>1, <1>2, <1>3, <1>4, <1>5, <1>6, <1>7, <1>8, <1>9, <1>10, <1>11,
     <1>12, <1>13, <1>14, <1>15, <1>16, <1>17, <1>18, <1>19, <1>20, <1>21,
     <1>22, <1>23, <1>24, <1>25, <1>26, <1>27, <1>28, <1>29, <1>30, <1>31,
     <1>32, <1>33, <1>34, <1>35, <1>36
     DEF Next, Loop, Phone, WifiInstall

LEMMA PlaceTypedStep == PlaceTyped /\ RoomInv /\ [Next]_vars => PlaceTyped'
<1> SUFFICES ASSUME PlaceTyped, RoomInv, [Next]_vars PROVE PlaceTyped'
  OBVIOUS
<1> USE DEF PlaceTyped, GoTo, CallInit, links, pending, place,
        locals, rest
<1>1. CASE Setup
  BY <1>1 DEF Setup
<1>2. CASE Tick
  BY <1>2 DEF Tick
<1>3. CASE Look
  BY <1>3 DEF Look, Links
<1>4. CASE Check
  BY <1>4 DEF Check
<1>5. CASE React
  BY <1>5 DEF React
<1>6. CASE DeferInit
  BY <1>6 DEF DeferInit
<1>7. CASE DeferNot
  BY <1>7 DEF DeferNot
<1>8. CASE Console
  BY <1>8, LoopAssumption DEF Console
<1>9. CASE NoTest
  BY <1>9 DEF NoTest
<1>10. CASE TestRead
  BY <1>10 DEF TestRead
<1>11. CASE TestStart
  BY <1>11, LoopAssumption DEF TestStart
<1>12. CASE TestDraw
  BY <1>12 DEF TestDraw
<1>13. CASE TestFlush
  BY <1>13 DEF TestFlush
<1>14. CASE TestEnd
  BY <1>14 DEF TestEnd
<1>15. CASE GpsFix
  BY <1>15 DEF GpsFix
<1>16. CASE GpsWeak
  BY <1>16 DEF GpsWeak
<1>17. CASE GpsSilent
  BY <1>17 DEF GpsSilent
<1>18. CASE Values
  BY <1>18 DEF Values
<1>19. CASE Status
  BY <1>19 DEF Status
<1>20. CASE FrameFlush
  BY <1>20 DEF FrameFlush
<1>21. CASE InitBegin
  BY <1>21 DEF InitBegin
<1>22. CASE InitLabels
  BY <1>22 DEF InitLabels
<1>23. CASE InitFlush
  BY <1>23 DEF InitFlush
<1>24. CASE WifiAccept
  BY <1>24 DEF WifiAccept
<1>25. CASE WifiTakeover
  BY <1>25, LoopAssumption DEF WifiTakeover
<1>26. CASE WifiLeave
  BY <1>26, LoopAssumption DEF WifiLeave
<1>27. CASE WifiUnlink
  BY <1>27, LoopAssumption DEF WifiUnlink
<1>28. CASE WifiTaken
  BY <1>28, LoopAssumption DEF WifiTaken, Wifi!Taken, RoomInv
<1>29. CASE BleSubscribe
  BY <1>29, LoopAssumption DEF BleSubscribe, MayCome, Room, FlagTyped
<1>30. CASE BleLeave
  BY <1>30, LoopAssumption DEF BleLeave
<1>31. CASE KeyPress
  BY <1>31, LoopAssumption DEF KeyPress
<1>32. CASE Settle
  BY <1>32 DEF Settle
<1>33. CASE UNCHANGED vars
  BY <1>33 DEF vars
<1>34. CASE StationLost
  BY <1>34 DEF StationLost
<1>35. CASE StationBack
  BY <1>35 DEF StationBack
<1>36. CASE WifiAnnounce
  BY <1>36 DEF WifiAnnounce
<1> QED
  BY <1>1, <1>2, <1>3, <1>4, <1>5, <1>6, <1>7, <1>8, <1>9, <1>10, <1>11,
     <1>12, <1>13, <1>14, <1>15, <1>16, <1>17, <1>18, <1>19, <1>20, <1>21,
     <1>22, <1>23, <1>24, <1>25, <1>26, <1>27, <1>28, <1>29, <1>30, <1>31,
     <1>32, <1>33, <1>34, <1>35, <1>36
     DEF Next, Loop, Phone, WifiInstall

(* A frame grows by a part in each of the two steps of initPhoneUI() and   *)
(* is a part long elsewhere.                                               *)
LEMMA WireStep ==
    ASSUME LoopInv, [Next]_vars PROVE WireTyped' /\ LenInv'
<1>0. /\ buf \in [Links -> Seq(Drawn)] /\ screen \in [Links -> Screens]
      /\ stale \in BOOLEAN /\ LenInv
      /\ \A l \in Links : Len(buf[l]) \in Nat
  <2>1. /\ buf \in [Links -> Seq(Drawn)] /\ screen \in [Links -> Screens]
        /\ stale \in BOOLEAN /\ LenInv
    BY DEF LoopInv, TypeOK, Drawn
  <2> QED
    BY <2>1
<1>a. Len(<<>>) = 0 /\ <<>> \in Seq(Drawn)
  OBVIOUS
<1>b. FlushInv /\ FlushInv'
  BY FlushInvStep DEF LoopInv
<1>1. ASSUME UNCHANGED wire, pc # "initFlush" PROVE WireTyped' /\ LenInv'
  BY <1>0, <1>1 DEF wire, WireTyped, LenInv
<1>2. ASSUME WireTyped', \A l \in Links : buf'[l] = <<>>
      PROVE  WireTyped' /\ LenInv'
  BY <1>2, <1>a DEF LenInv
<1>3. ASSUME NEW part \in Parts, Draw(part), pc \notin Rendering
      PROVE  WireTyped' /\ LenInv'
  <2>1. \A l \in Links : buf[l] = <<>>
    BY <1>3 DEF LoopInv, FlushInv
  <2>2. \A l \in Links : Len(buf'[l]) <= 1
    BY <1>3, <1>a, <2>1, DrawTyped
  <2>3. WireTyped' /\ \A l \in Links : Len(buf'[l]) \in Nat
    BY <1>3, <2>1, DrawTyped
  <2> QED
    BY <2>2, <2>3 DEF LenInv
<1>4. CASE Tick
  <2>1. CASE Flush("wifi")
    <3>1. "wifi" \in Links /\ \A l \in Links : buf[l] = <<>>
      BY <1>4 DEF Tick, LoopInv, FlushInv, Rendering, Links
    <3>2. buf' = [buf EXCEPT !["wifi"] = <<>>]
      BY <2>1 DEF Flush
    <3>3. \A l \in Links : buf'[l] = <<>>
      BY <1>0, <3>1, <3>2
    <3> QED
      BY <1>2, <2>1, <3>1, <3>3, FlushTyped
  <2> QED
    BY <1>1, <1>4, <2>1 DEF Tick
<1>5. CASE React
  <2>1. \A l \in Links : buf[l] = <<>>
    BY <1>5 DEF React, LoopInv, FlushInv, Rendering
  <2>2. buf' = [buf EXCEPT !["wifi"] = <<>>] \/ buf' = buf
    BY <1>5 DEF React
  <2>3. buf' \in [Links -> Seq(Drawn)] /\ \A l \in Links : buf'[l] = <<>>
    BY <1>0, <1>a, <2>1, <2>2
  <2>4. WireTyped'
    BY <1>0, <1>5, <2>3 DEF React, WireTyped
  <2> QED
    BY <1>2, <2>3, <2>4
<1>6. CASE Setup \/ Look \/ Check \/ DeferInit \/ DeferNot \/ Console \/ NoTest
  BY <1>1, <1>6 DEF Setup, Look, Check, DeferInit, DeferNot, Console, NoTest
<1>7. CASE TestRead \/ TestStart \/ TestEnd \/ GpsFix \/ GpsWeak \/ GpsSilent
  BY <1>1, <1>7 DEF TestRead, TestStart, TestEnd, GpsFix, GpsWeak, GpsSilent
<1>8. CASE TestDraw
  BY <1>1, <1>3, <1>8 DEF TestDraw, Parts, Rendering
<1>9. CASE Values
  BY <1>1, <1>3, <1>9 DEF Values, Parts, Rendering
<1>10. CASE Status
  BY <1>3, <1>10 DEF Status, Parts, Rendering
<1>11. CASE InitBegin
  BY <1>3, <1>11 DEF InitBegin, Parts, Rendering
<1>12. CASE InitLabels
  <2>1. pc = "labels" /\ pc' = "initFlush" /\ Draw("labels") /\ "labels" \in Parts
    BY <1>12 DEF InitLabels, GoTo, Parts
  <2>2. WireTyped' /\ \A l \in Links :
            Len(buf'[l]) \in Nat /\ Len(buf'[l]) <= Len(buf[l]) + 1
    BY <2>1, DrawTyped
  <2>3. \A l \in Links : Len(buf[l]) <= 1
    BY <1>0, <2>1 DEF LenInv
  <2> QED
    BY <1>0, <2>1, <2>2, <2>3 DEF LenInv
<1>13. CASE TestFlush \/ FrameFlush \/ InitFlush
  <2>1. FlushActive
    BY <1>13 DEF TestFlush, FrameFlush, InitFlush
  <2> QED
    BY <1>2, <1>b, <2>1, FlushActiveTyped, FlushEmpties
<1>14. CASE Phone \/ WifiInstall
  <2>1. buf' = buf /\ stale' = stale /\ pc' = pc
    BY <1>14 DEF Phone, WifiAccept, WifiTakeover, WifiLeave, WifiUnlink,
                 StationLost, StationBack, BleSubscribe, BleLeave, WifiInstall,
                 WifiAnnounce, WifiTaken, rest, place
  <2>2. screen' = screen \/ \E l \in Links : NewScreen(l)
    BY <1>14 DEF Phone, WifiAccept, WifiTakeover, WifiLeave, WifiUnlink,
                 StationLost, StationBack, BleSubscribe, BleLeave, WifiInstall,
                 WifiAnnounce, WifiTaken, Links
  <2>3. screen' \in [Links -> Screens]
    BY <1>0, <2>2 DEF NewScreen, Screens
  <2> QED
    BY <1>0, <2>1, <2>3 DEF WireTyped, LenInv
<1>15. CASE KeyPress \/ Settle \/ UNCHANGED vars
  <2>1. UNCHANGED wire /\ pc' = pc
    BY <1>15 DEF KeyPress, Settle, vars, rest, place, wire
  <2> QED
    BY <1>0, <2>1 DEF wire, WireTyped, LenInv
<1> QED
  BY <1>4, <1>5, <1>6, <1>7, <1>8, <1>9, <1>10, <1>11, <1>12, <1>13, <1>14,
     <1>15 DEF Next, Loop

LEMMA UnseenStep ==
    ASSUME unseen \subseteq Links, [Next]_vars PROVE unseen' \subseteq Links
<1> USE DEF links
<1>1. CASE Setup \/ Tick \/ Look \/ Check \/ React \/ DeferInit \/ DeferNot
  BY <1>1 DEF Setup, Tick, Look, Check, React, DeferInit, DeferNot
<1>2. CASE Console \/ NoTest \/ TestRead \/ TestStart \/ TestDraw \/ TestFlush
           \/ TestEnd
  BY <1>2 DEF Console, NoTest, TestRead, TestStart, TestDraw, TestFlush, TestEnd
<1>3. CASE GpsWeak \/ GpsSilent \/ Values \/ Status \/ FrameFlush
  BY <1>3 DEF GpsWeak, GpsSilent, Values, Status, FrameFlush
<1>4. CASE GpsFix \/ InitBegin \/ InitLabels \/ InitFlush
  BY <1>4 DEF GpsFix, InitBegin, InitLabels, InitFlush, Missed, Links
<1>5. CASE WifiAccept \/ BleSubscribe
  BY <1>5 DEF WifiAccept, BleSubscribe, Came, Links
<1>6. CASE \/ WifiTakeover \/ WifiLeave \/ WifiUnlink \/ StationLost \/ StationBack
           \/ BleLeave \/ WifiAnnounce \/ WifiTaken
  BY <1>6 DEF WifiTakeover, WifiLeave, WifiUnlink, StationLost, StationBack,
              BleLeave, WifiAnnounce, WifiTaken
<1>7. CASE KeyPress \/ Settle \/ UNCHANGED vars
  BY <1>7 DEF KeyPress, Settle, vars
<1> QED
  BY <1>1, <1>2, <1>3, <1>4, <1>5, <1>6, <1>7 DEF Next, Loop, Phone,
     WifiInstall

LEMMA RoomStep ==
    ASSUME TypeOK, RoomInv, [Next]_vars PROVE RoomInv'
<1> USE DEF RoomInv, links
<1>1. CASE Loop
  <2>1. UNCHANGED <<taking, used>>
    BY <1>1 DEF Loop, Setup, Tick, Look, Check, React, DeferInit, DeferNot,
       Console, NoTest, TestRead, TestStart, TestDraw, TestFlush, TestEnd,
       GpsFix, GpsWeak, GpsSilent, Values, Status, FrameFlush, InitBegin,
       InitLabels, InitFlush
  <2> QED
    BY <2>1
<1>2. CASE WifiAccept \/ WifiTakeover
  BY <1>2, LoopAssumption DEF WifiAccept, WifiTakeover, MayCome, Room, TypeOK,
     Wifi!Accept, Wifi!Takeover
<1>3. CASE WifiLeave \/ WifiUnlink \/ StationLost \/ StationBack \/ BleLeave
  BY <1>3 DEF WifiLeave, WifiUnlink, StationLost, StationBack, BleLeave
<1>4. CASE BleSubscribe
  BY <1>4, LoopAssumption DEF BleSubscribe, MayCome, Room, TypeOK
<1>5. CASE WifiAnnounce \/ WifiTaken
  BY <1>5 DEF WifiAnnounce, WifiTaken
<1>6. CASE KeyPress \/ Settle \/ UNCHANGED vars
  BY <1>6 DEF KeyPress, Settle, vars
<1> QED
  BY <1>1, <1>2, <1>3, <1>4, <1>5, <1>6 DEF Next, Phone, WifiInstall

LEMMA LoopInvStep == LoopInv /\ [Next]_vars => LoopInv'
<1> SUFFICES ASSUME LoopInv, [Next]_vars PROVE LoopInv'
  OBVIOUS
<1>1. /\ FlagTyped' /\ PlaceTyped' /\ WireTyped' /\ LenInv' /\ FlushInv'
      /\ unseen' \subseteq Links /\ RoomInv'
  BY TypeSplit, FlagTypedStep, PlaceTypedStep, WireStep, FlushInvStep,
     UnseenStep, RoomStep DEF LoopInv
<1>2. TypeOK'
  <2>1. TypeOK' <=> /\ FlagTyped' /\ PlaceTyped' /\ WireTyped'
                    /\ unseen' \subseteq Links
    BY DEF TypeOK, FlagTyped, PlaceTyped, WireTyped, Drawn
  <2> QED
    BY <1>1, <2>1
<1> QED
  BY <1>1, <1>2 DEF LoopInv

(* Every variable of the loop keeps its type.                              *)
THEOREM LoopTyped == Spec => []TypeOK
<1>1. LoopInv => TypeOK
  BY DEF LoopInv
<1> QED
  BY LoopInvInit, LoopInvStep, <1>1, PTL DEF Spec

-----------------------------------------------------------------------------
(* Whose parts a phone gets.                                               *)

InUI == {"begin", "labels", "initFlush"}
InTest == {"testDraw", "testFlush", "testEnd"}

(* The client that is being installed replaces the one loop() draws for:   *)
(* until loop() has seen the flag, set while the new one is announced, it  *)
(* does as it likes, and once it has taken the flag it does not draw       *)
(* before the new client is there; but for a client that comes unseen,     *)
(* after loop() has missed the end of another.                             *)
TakeInv ==
    /\ taking => wifi = 0
    /\ wasReady => pc \in InTest
    /\ pc \in {"testDraw", "testFlush"} => wasReady
    /\ pc \in {"status", "flush"} => phoneReady
    /\ pc = "setup" => active = "none"
    /\ announce = "due" => taking
    /\ active = "wifi" /\ taking /\ announce # "due"
         /\ ~wifiReconnectPending /\ "wifi" \notin unseen
        => ~phoneReady /\ ~wasReady /\ pc \notin InUI

(* What is in a buffer was drawn for the session its link has, but for a   *)
(* WiFi client that has replaced another one, and a phone that came unseen.*)
SesInv ==
    \A l \in Links : /\ Session(l) # 0 /\ (l = "wifi" => ~wifiReconnectPending)
                     /\ l \notin unseen
       => \A i \in DOMAIN buf[l] : buf[l][i].ses = Session(l)

LEMMA TakeInvInit == Init => TakeInv /\ SesInv
<1> SUFFICES ASSUME Init PROVE TakeInv /\ SesInv
  OBVIOUS
<1>1. \A l \in Links : Session(l) = 0
  BY DEF Init, Session
<1> QED
  BY <1>1 DEF Init, TakeInv, SesInv, InTest

LEMMA TakeInvStep ==
    ASSUME TypeOK, TakeInv, [Next]_vars PROVE TakeInv'
<1> USE DEF TakeInv, InUI, InTest, GoTo, CallInit, links, pending, place,
        locals, rest
<1>1. CASE Setup
  BY <1>1 DEF Setup
<1>2. CASE Tick
  BY <1>2 DEF Tick
<1>3. CASE Look
  BY <1>3 DEF Look, Links, Up, Session
<1>4. CASE Check
  BY <1>4 DEF Check
<1>5. CASE React
  BY <1>5 DEF React
<1>6. CASE DeferInit
  BY <1>6 DEF DeferInit, MayInit
<1>7. CASE DeferNot
  BY <1>7 DEF DeferNot
<1>8. CASE Console
  BY <1>8 DEF Console
<1>9. CASE NoTest
  BY <1>9 DEF NoTest
<1>10. CASE TestRead
  BY <1>10 DEF TestRead
<1>11. CASE TestStart
  BY <1>11 DEF TestStart, CanSend
<1>12. CASE TestDraw
  BY <1>12 DEF TestDraw
<1>13. CASE TestFlush
  BY <1>13 DEF TestFlush
<1>14. CASE TestEnd
  BY <1>14 DEF TestEnd, CanSend, Up, Session
<1>15. CASE GpsFix
  BY <1>15 DEF GpsFix
<1>16. CASE GpsWeak
  BY <1>16 DEF GpsWeak
<1>17. CASE GpsSilent
  BY <1>17 DEF GpsSilent
<1>18. CASE Values
  BY <1>18 DEF Values
<1>19. CASE Status
  BY <1>19 DEF Status
<1>20. CASE FrameFlush
  BY <1>20 DEF FrameFlush
<1>21. CASE InitBegin
  BY <1>21 DEF InitBegin, CanSend, Up, Session
<1>22. CASE InitLabels
  BY <1>22 DEF InitLabels
<1>23. CASE InitFlush
  BY <1>23 DEF InitFlush, TypeOK
<1>24. CASE WifiAccept
  BY <1>24 DEF WifiAccept, Wifi!Accept, Came
<1>25. CASE WifiTakeover
  BY <1>25 DEF WifiTakeover, Registered, Wifi!Takeover
<1>26. CASE WifiLeave
  BY <1>26 DEF WifiLeave
<1>27. CASE WifiUnlink
  BY <1>27 DEF WifiUnlink
<1>28. CASE WifiTaken
  BY <1>28 DEF WifiTaken
<1>29. CASE BleSubscribe
  BY <1>29 DEF BleSubscribe, Came
<1>30. CASE BleLeave
  BY <1>30 DEF BleLeave
<1>31. CASE KeyPress
  BY <1>31 DEF KeyPress
<1>32. CASE Settle
  BY <1>32 DEF Settle
<1>33. CASE UNCHANGED vars
  BY <1>33 DEF vars
<1>34. CASE StationLost
  BY <1>34 DEF StationLost
<1>35. CASE StationBack
  BY <1>35 DEF StationBack
<1>36. CASE WifiAnnounce
  BY <1>36 DEF WifiAnnounce, Registered, Wifi!Announce
<1> QED
  BY <1>1, <1>2, <1>3, <1>4, <1>5, <1>6, <1>7, <1>8, <1>9, <1>10, <1>11,
     <1>12, <1>13, <1>14, <1>15, <1>16, <1>17, <1>18, <1>19, <1>20, <1>21,
     <1>22, <1>23, <1>24, <1>25, <1>26, <1>27, <1>28, <1>29, <1>30, <1>31,
     <1>32, <1>33, <1>34, <1>35, <1>36
     DEF Next, Loop, Phone, WifiInstall

(* Nothing is buffered for a link whose session changes, unless the flag   *)
(* is set or the phone comes unseen.                                       *)
LEMMA SessionsChange ==
    ASSUME LoopInv, TakeInv, Phone \/ WifiInstall, NEW l \in Links,
           Session(l)' # 0, l = "wifi" => ~wifiReconnectPending',
           l \notin unseen'
    PROVE  /\ l = "wifi" => ~wifiReconnectPending
           /\ l \notin unseen \/ buf[l] = <<>>
           /\ Session(l)' = Session(l) \/ buf[l] = <<>>
<1>1. l \in {"wifi", "ble"}
  BY DEF Links
<1>2. CASE WifiAccept \/ WifiTakeover \/ WifiLeave \/ WifiUnlink
  BY <1>1, <1>2 DEF WifiAccept, WifiTakeover, WifiLeave, WifiUnlink, Session,
        pending, TakeInv, LoopInv, TypeOK, Came, Wifi!Accept, Wifi!Takeover,
        Wifi!Unlink
<1>3. CASE WifiTaken
  <2>1. CASE l = "ble"
    BY <1>3, <2>1 DEF WifiTaken, Session
  <2>2. CASE l = "wifi"
    <3>1. /\ taking /\ announce # "due"
          /\ ~wifiReconnectPending /\ "wifi" \notin unseen
      BY <1>3, <2>2 DEF WifiTaken, pending, Wifi!Taken
    <3>2. active # "wifi" \/ pc \notin Rendering
      BY <3>1 DEF TakeInv, Rendering, InUI, InTest
    <3> QED
      BY <2>2, <3>1, <3>2 DEF LoopInv, FlushInv
  <2> QED
    BY <1>1, <2>1, <2>2
<1>4. CASE BleSubscribe
  <2>1. CASE l = "wifi"
    BY <1>4, <2>1 DEF BleSubscribe, Session, Came
  <2>2. CASE l = "ble" /\ ble # 0
    BY <1>4, <2>2 DEF BleSubscribe, Session
  <2>3. CASE l = "ble" /\ ble = 0
    <3>1. active # "ble"
      BY <1>4, <2>3 DEF BleSubscribe, Came
    <3> QED
      BY <2>3, <3>1 DEF LoopInv, FlushInv
  <2> QED
    BY <1>1, <2>1, <2>2, <2>3
<1>5. CASE BleLeave
  BY <1>1, <1>5 DEF BleLeave, Session, pending
<1>6. CASE StationLost \/ StationBack
  <2>1. UNCHANGED <<wifi, ble, unseen, wifiReconnectPending>>
    BY <1>6 DEF StationLost, StationBack, pending
  <2> QED
    BY <1>1, <2>1 DEF Session
<1>7. CASE WifiAnnounce
  <2>1. UNCHANGED <<wifi, ble, unseen>>
    BY <1>7 DEF WifiAnnounce
  <2>2. ~wifiReconnectPending' => ~wifiReconnectPending
    BY Zenon, <1>7 DEF WifiAnnounce
  <2> QED
    BY <1>1, <2>1, <2>2 DEF Session
<1> QED
  BY <1>2, <1>3, <1>4, <1>5, <1>6, <1>7 DEF Phone, WifiInstall

LEMMA SesInvDraw ==
    ASSUME LoopInv, SesInv, NEW part \in Parts, Draw(part),
           UNCHANGED <<wifi, ble, pending>>,
           unseen \subseteq unseen' \/ \A l \in Links : buf[l] = <<>>,
           part = "test" => \A l \in Links : buf[l] = <<>>
    PROVE  SesInv'
<1>0. buf \in [Links -> Seq(Drawn)] /\ active \in Links \cup {"none"}
  BY DEF LoopInv, TypeOK, Drawn
<1>1. CASE UNCHANGED wire
  BY <1>1 DEF SesInv, Session, wire, links, pending
<1>2. \A l \in Links : Session(l)' = Session(l)
  BY DEF Session, links
<1>3. Item(part).ses = Session(active)
  BY DEF Item
<1>4. CASE /\ CanSend
           /\ buf' = [buf EXCEPT ![active] = Append(@, Item(part))]
  <2> SUFFICES ASSUME NEW l \in Links, Session(l) # 0,
                      l = "wifi" => ~wifiReconnectPending, l \notin unseen',
                      NEW i \in DOMAIN buf'[l]
               PROVE  buf'[l][i].ses = Session(l)
    BY <1>2 DEF SesInv, pending
  <2>0. \A j \in DOMAIN buf[l] : buf[l][j].ses = Session(l)
    <3>1. DOMAIN <<>> = {}
      OBVIOUS
    <3> QED
      BY <3>1 DEF SesInv
  <2>1. CASE l # active
    BY <1>0, <1>4, <2>0, <2>1
  <2>2. CASE l = active
    <3>1. buf'[l] = Append(buf[l], Item(part)) /\ buf[l] \in Seq(Drawn)
      BY <1>0, <1>4, <2>2
    <3> DEFINE b == buf[l]
               it == Item(part)
    <3>2. b \in Seq(Drawn) /\ \A j \in DOMAIN b : b[j].ses = Session(l)
      BY <2>0, <3>1
    <3>3. it.ses = Session(l)
      BY <1>3, <2>2
    <3>4. i \in DOMAIN Append(b, it) /\ buf'[l] = Append(b, it)
      BY <3>1
    <3> HIDE DEF b, it
    <3>5. CASE i \in DOMAIN b
      BY <3>2, <3>4, <3>5
    <3>6. CASE i \notin DOMAIN b
      BY <3>2, <3>3, <3>4, <3>6
    <3> QED
      BY <3>5, <3>6
  <2> QED
    BY <2>1, <2>2
<1>5. CASE /\ CanSend /\ active = "ble" /\ part = "test"
           /\ buf' = [buf EXCEPT !["ble"] = <<Item(part)>>]
  <2>1. \A l \in Links : buf'[l] = IF l = "ble" THEN <<Item(part)>> ELSE <<>>
    BY <1>0, <1>5
  <2>2. /\ \A i \in DOMAIN <<Item(part)>> : <<Item(part)>>[i] = Item(part)
        /\ DOMAIN <<>> = {}
    OBVIOUS
  <2>3. ASSUME NEW l \in Links, NEW i \in DOMAIN buf'[l]
        PROVE  buf'[l][i].ses = Session(l)
    <3>1. CASE l = "ble"
      BY <1>3, <1>5, <2>1, <2>2, <2>3, <3>1
    <3>2. CASE l # "ble"
      BY <2>1, <2>2, <2>3, <3>2
    <3> QED
      BY <3>1, <3>2
  <2> QED
    BY <1>2, <2>3 DEF SesInv
<1> QED
  BY <1>1, <1>4, <1>5 DEF Draw

LEMMA SesInvStep ==
    ASSUME LoopInv, TakeInv, SesInv, [Next]_vars PROVE SesInv'
<1>0. buf \in [Links -> Seq(Drawn)] /\ FlushInv
  BY DEF LoopInv, TypeOK, Drawn
<1>1. ASSUME \A l \in Links : buf'[l] = <<>> PROVE SesInv'
  <2>1. DOMAIN <<>> = {}
    OBVIOUS
  <2> QED
    BY <1>1, <2>1 DEF SesInv
<1>2. ASSUME NEW part \in Parts, Draw(part), pc \notin Rendering \/ part # "test",
             pc \notin Rendering \/ unseen \subseteq unseen',
             UNCHANGED <<wifi, ble, pending>>
      PROVE  SesInv'
  BY <1>0, <1>2, SesInvDraw DEF FlushInv
<1>3. ASSUME buf' = buf, UNCHANGED <<wifi, ble, wifiReconnectPending>>,
             unseen \subseteq unseen'
      PROVE SesInv'
  BY <1>3 DEF SesInv, Session
<1>4. CASE Tick \/ React
  <2>1. \A l \in Links : buf[l] = <<>>
    BY <1>0, <1>4 DEF Tick, React, FlushInv, Rendering
  <2>2. buf' = [buf EXCEPT !["wifi"] = <<>>] \/ buf' = buf
    BY <1>4 DEF Tick, React, Flush, wire
  <2>3. \A l \in Links : buf'[l] = <<>>
    BY <1>0, <2>1, <2>2
  <2> QED
    BY <1>1, <2>3
<1>5. CASE Setup \/ Look \/ Check \/ DeferInit \/ DeferNot \/ NoTest
  BY <1>3, <1>5 DEF Setup, Look, Check, DeferInit, DeferNot, NoTest, links,
                    pending, wire
<1>6. CASE TestRead \/ TestStart \/ TestEnd \/ GpsFix \/ GpsWeak \/ GpsSilent
  BY <1>3, <1>6 DEF TestRead, TestStart, TestEnd, GpsFix, GpsWeak, GpsSilent,
                    links, pending, wire, Missed
<1>7. CASE Console
  <2>1. \A l \in Links : Session(l)' # 0 => Session(l)' = Session(l)
    BY <1>7 DEF Console, Session
  <2> QED
    BY <1>7, <2>1 DEF Console, SesInv, pending, wire
<1>8. CASE TestDraw
  <2>1. CASE Draw("test")
    BY <1>2, <1>8, <2>1 DEF TestDraw, Parts, Rendering, links
  <2> QED
    BY <1>3, <1>8, <2>1 DEF TestDraw, links, pending, wire
<1>9. CASE Values
  BY <1>2, <1>3, <1>9 DEF Values, Parts, links, pending, wire
<1>10. CASE Status \/ InitBegin \/ InitLabels
  BY <1>2, <1>10 DEF Status, InitBegin, InitLabels, Parts, Rendering, links
<1>11. CASE TestFlush \/ FrameFlush \/ InitFlush
  BY <1>0, <1>1, <1>11, FlushEmpties DEF TestFlush, FrameFlush, InitFlush
<1>12. CASE Phone \/ WifiInstall
  <2>1. buf' = buf
    BY <1>12 DEF Phone, WifiAccept, WifiTakeover, WifiLeave, WifiUnlink,
                 StationLost, StationBack, BleSubscribe, BleLeave, WifiInstall,
                 WifiAnnounce, WifiTaken, rest
  <2>2. DOMAIN <<>> = {}
    OBVIOUS
  <2> SUFFICES ASSUME NEW l \in Links, Session(l)' # 0,
                      l = "wifi" => ~wifiReconnectPending', l \notin unseen',
                      NEW i \in DOMAIN buf[l]
               PROVE  buf[l][i].ses = Session(l)'
    BY <2>1 DEF SesInv
  <2>3. /\ l = "wifi" => ~wifiReconnectPending
        /\ l \notin unseen /\ Session(l)' = Session(l)
    BY <1>12, <2>2, SessionsChange
  <2> QED
    BY <2>3 DEF SesInv
<1>13. CASE KeyPress \/ Settle \/ UNCHANGED vars
  BY <1>3, <1>13 DEF KeyPress, Settle, vars, links, pending, rest, wire
<1> QED
  BY <1>4, <1>5, <1>6, <1>7, <1>8, <1>9, <1>10, <1>11, <1>12, <1>13 DEF Next,
     Loop

OwnInv == LoopInv /\ TakeInv /\ SesInv

LEMMA AlwaysOwn == Spec => []OwnInv
<1>1. Init => OwnInv
  BY LoopInvInit, TakeInvInit DEF OwnInv
<1>2. OwnInv /\ [Next]_vars => OwnInv'
  <2> SUFFICES ASSUME OwnInv, [Next]_vars PROVE OwnInv'
    OBVIOUS
  <2>1. LoopInv'
    BY LoopInvStep DEF OwnInv
  <2>2. TakeInv'
    BY TakeInvStep DEF OwnInv, LoopInv
  <2>3. SesInv'
    BY SesInvStep DEF OwnInv
  <2> QED
    BY <2>1, <2>2, <2>3 DEF OwnInv
<1> QED
  BY <1>1, <1>2, PTL DEF Spec

(* What a phone gets is stale only if a part of it is another session's.   *)
LEMMA DeliverOwn ==
    ASSUME stale \in BOOLEAN, NEW l \in Links, NEW items, Deliver(l, items),
           Session(l) # 0 => \A i \in DOMAIN items : items[i].ses = Session(l)
    PROVE  stale' = stale
  BY Zenon DEF Deliver, Foreign, Heard, Up

LEMMA FlushOwn ==
    ASSUME OwnInv, NEW l \in Links, Flush(l)
    PROVE  stale' = stale \/ (wifiReconnectPending /\ wifi # 0) \/ l \in unseen
<1>1. CASE \/ Session(l) # 0 /\ l = "wifi" /\ wifiReconnectPending
           \/ l \in unseen
  BY <1>1 DEF Session
<1>2. CASE ~(\/ Session(l) # 0 /\ l = "wifi" /\ wifiReconnectPending
             \/ l \in unseen)
  <2>1. Session(l) # 0 => \A i \in DOMAIN buf[l] : buf[l][i].ses = Session(l)
    BY <1>2 DEF OwnInv, SesInv
  <2>2. stale \in BOOLEAN /\ Deliver(l, buf[l])
    BY DEF OwnInv, LoopInv, TypeOK, Flush
  <2> QED
    BY <2>1, <2>2, DeliverOwn
<1> QED
  BY <1>1, <1>2

LEMMA FlushActiveOwn ==
    ASSUME OwnInv, FlushActive
    PROVE  \/ stale' = stale
           \/ wifiReconnectPending /\ wifi # 0
           \/ active \in unseen
<1>1. active \in Links \cup {"none"}
  BY DEF OwnInv, LoopInv, TypeOK
<1> QED
  BY <1>1, FlushOwn DEF FlushActive, wire

LEMMA DrawOwn ==
    ASSUME OwnInv, NEW part, Draw(part),
           part = "test" => \A l \in Links : buf[l] = <<>>
    PROVE  stale' = stale
<1>1. CASE stale' = stale
  BY <1>1
<1>2. CASE active = "ble" /\ part = "test"
           /\ Deliver("ble", Append(buf["ble"], Item(part)))
  <2>1. buf["ble"] = <<>> /\ "ble" \in Links /\ stale \in BOOLEAN
    BY <1>2 DEF Links, OwnInv, LoopInv, TypeOK
  <2>2. \A i \in DOMAIN Append(<<>>, Item(part)) :
            Append(<<>>, Item(part))[i] = Item(part)
    OBVIOUS
  <2>3. Item(part).ses = Session("ble")
    BY <1>2 DEF Item
  <2> QED
    BY <1>2, <2>1, <2>2, <2>3, DeliverOwn
<1> QED
  BY <1>1, <1>2 DEF Draw, wire

LEMMA StaleStep ==
    ASSUME OwnInv, [Next]_vars
    PROVE  \/ stale' = stale
           \/ wifiReconnectPending /\ wifi # 0
           \/ active \in unseen
<1>1. CASE Tick
  <2>1. CASE Flush("wifi")
    <3>1. buf["wifi"] = <<>> /\ "wifi" \in Links /\ stale \in BOOLEAN
      BY <1>1 DEF Tick, OwnInv, LoopInv, TypeOK, FlushInv, Rendering, Links
    <3>2. Deliver("wifi", <<>>) /\ DOMAIN <<>> = {}
      BY <2>1, <3>1 DEF Flush
    <3> QED
      BY <3>1, <3>2, DeliverOwn
  <2> QED
    BY <1>1, <2>1 DEF Tick, wire
<1>2. CASE Setup \/ Look \/ Check \/ React \/ DeferInit \/ DeferNot \/ NoTest
  BY <1>2 DEF Setup, Look, Check, React, DeferInit, DeferNot, NoTest, wire
<1>3. CASE Console \/ TestRead \/ TestStart \/ TestEnd
  BY <1>3 DEF Console, TestRead, TestStart, TestEnd, wire
<1>4. CASE GpsFix \/ GpsWeak \/ GpsSilent
  BY <1>4 DEF GpsFix, GpsWeak, GpsSilent, wire
<1>5. CASE TestDraw
  <2>1. \A l \in Links : buf[l] = <<>>
    BY <1>5 DEF TestDraw, OwnInv, LoopInv, FlushInv, Rendering
  <2> QED
    BY <1>5, <2>1, DrawOwn DEF TestDraw, wire
<1>6. CASE Values
  BY <1>6, DrawOwn DEF Values, wire
<1>7. CASE Status \/ InitBegin \/ InitLabels
  BY <1>7, DrawOwn DEF Status, InitBegin, InitLabels
<1>8. CASE TestFlush \/ FrameFlush \/ InitFlush
  BY <1>8, FlushActiveOwn DEF TestFlush, FrameFlush, InitFlush
<1>9. CASE Phone \/ WifiInstall
  BY <1>9 DEF Phone, WifiAccept, WifiTakeover, WifiLeave, WifiUnlink,
              StationLost, StationBack, BleSubscribe, BleLeave, WifiInstall,
                 WifiAnnounce, WifiTaken, rest
<1>10. CASE KeyPress \/ Settle \/ UNCHANGED vars
  BY <1>10 DEF KeyPress, Settle, vars, rest, wire
<1> QED
  BY <1>1, <1>2, <1>3, <1>4, <1>5, <1>6, <1>7, <1>8, <1>9, <1>10 DEF Next, Loop

(* Each time a phone gets parts rendered for another session, it replaced  *)
(* a WiFi client and loop() has not yet seen the flag, or came on the link *)
(* loop() is using and that it has not seen down: whatever phones and the  *)
(* station do otherwise, on both links and during setup().                 *)
THEOREM StaleIsTakeover == Spec => StaleOnlyOnTakeover
<1>1. OwnInv /\ [Next]_vars
        => [stale' # stale => \/ wifiReconnectPending /\ wifi # 0
                             \/ active \in unseen]_vars
  BY StaleStep
<1>2. Spec => []OwnInv
  BY AlwaysOwn
<1> QED
  BY <1>1, <1>2, PTL DEF Spec, StaleOnlyOnTakeover

-----------------------------------------------------------------------------
(* Telemetry and its labels.  Here phones also keep to one link at a time  *)
(* (Overlap is FALSE): loop() does not init the UI of a phone it finds on  *)
(* the other link.                                                         *)

AloneInv ==
    /\ ble # 0 => wifi = 0 /\ ~taking /\ active # "wifi"
    /\ active = "ble" => wifi = 0 /\ ~taking

(* the session of the active link is the one loop() takes it for, and what *)
(* is sent reaches it whenever the station is up                           *)
Fresh == /\ active # "none" /\ Session(active) # 0 /\ (active = "wifi" => wifiOpen)
         /\ ~wifiReconnectPending /\ active \notin unseen

(* phoneReady tells of a UI on the active link: losing the link resets it  *)
(* within the iteration, and canRender is TRUE where it matters (on WiFi   *)
(* the station may have been lost when loop() looked; GpsFix records it).  *)
ReadyInv ==
    /\ active = "none" /\ phoneReady =>
          pc \in {"check", "react"} /\ changed /\ (pc = "react" => ~canRender)
    /\ pc \in InUI \cup {"status"} => active # "none"
    /\ canRender /\ pc # "check" => active # "none"
    /\ pc \in InTest => ~phoneReady
    /\ pc \in InUI /\ ret # "tick" => canRender
    /\ active = "ble" /\ Fresh /\ phoneReady
         /\ pc \in {"react", "defer", "console", "test", "testTake", "gps"}
       => canRender

(* The labels stay until a test or a status page, which only comes without *)
(* a fix; the frame of initPhoneUI() is BEGIN and the labels.              *)
ShowInv ==
    /\ phoneReady /\ Fresh /\ gpsFixed /\ pc \notin InUI
         => screen[active] = "labels"
    /\ pc = "status" => ~gpsFixed
    /\ pc = "flush" /\ gpsFixed => \A l \in Links :
          \A i \in DOMAIN buf[l] : buf[l][i].part = "values"
    /\ pc = "labels" /\ Fresh =>
          Len(buf[active]) = 1 /\ buf[active][1].part = "begin"
    /\ pc = "initFlush" /\ Fresh =>
          /\ Len(buf[active]) = 2
          /\ buf[active][1].part = "begin" /\ buf[active][2].part = "labels"

LEMMA AloneInvStep ==
    ASSUME Overlap = FALSE, TypeOK, AloneInv, [Next]_vars PROVE AloneInv'
<1> USE DEF AloneInv, links, locals, place, rest
<1>1. CASE Setup
  BY <1>1 DEF Setup
<1>2. CASE Tick
  BY <1>2 DEF Tick
<1>3. CASE Look
  BY <1>3 DEF Look, Up, Session
<1>4. CASE Check
  BY <1>4 DEF Check
<1>5. CASE React
  BY <1>5 DEF React
<1>6. CASE DeferInit
  BY <1>6 DEF DeferInit
<1>7. CASE DeferNot
  BY <1>7 DEF DeferNot
<1>8. CASE Console
  BY <1>8 DEF Console
<1>9. CASE NoTest
  BY <1>9 DEF NoTest
<1>10. CASE TestRead
  BY <1>10 DEF TestRead
<1>11. CASE TestStart
  BY <1>11 DEF TestStart
<1>12. CASE TestDraw
  BY <1>12 DEF TestDraw
<1>13. CASE TestFlush
  BY <1>13 DEF TestFlush
<1>14. CASE TestEnd
  BY <1>14 DEF TestEnd
<1>15. CASE GpsFix
  BY <1>15 DEF GpsFix
<1>16. CASE GpsWeak
  BY <1>16 DEF GpsWeak
<1>17. CASE GpsSilent
  BY <1>17 DEF GpsSilent
<1>18. CASE Values
  BY <1>18 DEF Values
<1>19. CASE Status
  BY <1>19 DEF Status
<1>20. CASE FrameFlush
  BY <1>20 DEF FrameFlush
<1>21. CASE InitBegin
  BY <1>21 DEF InitBegin
<1>22. CASE InitLabels
  BY <1>22 DEF InitLabels
<1>23. CASE InitFlush
  BY <1>23 DEF InitFlush
<1>24. CASE WifiAccept
  BY <1>24 DEF WifiAccept, MayCome, Alone, Other, Session, Wifi!Accept
<1>25. CASE WifiTakeover
  BY <1>25 DEF WifiTakeover, Alone, Other, Session, Wifi!Takeover
<1>26. CASE WifiLeave
  BY <1>26 DEF WifiLeave
<1>27. CASE WifiUnlink
  BY <1>27 DEF WifiUnlink
<1>28. CASE WifiTaken
  BY <1>28 DEF WifiTaken, Wifi!Taken
<1>29. CASE BleSubscribe
  BY <1>29 DEF BleSubscribe, MayCome, Alone, Other, Session
<1>30. CASE BleLeave
  BY <1>30 DEF BleLeave
<1>31. CASE KeyPress
  BY <1>31 DEF KeyPress
<1>32. CASE Settle
  BY <1>32 DEF Settle
<1>33. CASE UNCHANGED vars
  BY <1>33 DEF vars
<1>34. CASE StationLost
  BY <1>34 DEF StationLost
<1>35. CASE StationBack
  BY <1>35 DEF StationBack
<1>36. CASE WifiAnnounce
  BY <1>36 DEF WifiAnnounce
<1> QED
  BY <1>1, <1>2, <1>3, <1>4, <1>5, <1>6, <1>7, <1>8, <1>9, <1>10, <1>11,
     <1>12, <1>13, <1>14, <1>15, <1>16, <1>17, <1>18, <1>19, <1>20, <1>21,
     <1>22, <1>23, <1>24, <1>25, <1>26, <1>27, <1>28, <1>29, <1>30, <1>31,
     <1>32, <1>33, <1>34, <1>35, <1>36
     DEF Next, Loop, Phone, WifiInstall

(* A session of the active link that is fresh after a step of a phone was  *)
(* fresh before it, or nothing is drawn for it yet.                        *)
LEMMA FreshStays ==
    ASSUME TypeOK, TakeInv, Phone \/ WifiInstall, Fresh'
    PROVE  /\ Fresh \/ (~phoneReady /\ pc \notin InUI)
           /\ Fresh => screen'[active] = screen[active]
<1> USE DEF Fresh, Session, pending, rest
<1>1. CASE WifiAccept \/ WifiTakeover \/ WifiLeave \/ WifiUnlink
  BY <1>1 DEF WifiAccept, WifiTakeover, WifiLeave, WifiUnlink, TakeInv, Came,
     Wifi!Accept, Wifi!Takeover, Wifi!Unlink
<1>2. CASE WifiTaken
  BY <1>2 DEF WifiTaken, TakeInv, NewScreen, TypeOK, Links, Wifi!Taken
<1>3. CASE BleSubscribe
  BY <1>3 DEF BleSubscribe, Came, NewScreen, TypeOK, Links
<1>4. CASE BleLeave
  BY <1>4 DEF BleLeave
<1>5. CASE StationLost \/ StationBack
  <2>1. /\ UNCHANGED <<wifi, ble, active, unseen, wifiReconnectPending, screen>>
        /\ wifiOpen' => wifiOpen
    BY <1>5 DEF StationLost, StationBack, TypeOK
  <2> QED
    BY <2>1
<1>6. CASE WifiAnnounce
  <2>1. UNCHANGED <<wifi, wifiOpen, ble, active, unseen, screen>>
    BY <1>6 DEF WifiAnnounce
  <2>2. ~wifiReconnectPending' => ~wifiReconnectPending
    BY Zenon, <1>6 DEF WifiAnnounce
  <2> QED
    BY <2>1, <2>2
<1> QED
  BY <1>1, <1>2, <1>3, <1>4, <1>5, <1>6 DEF Phone, WifiInstall

LEMMA ReadyInvStep ==
    ASSUME Overlap = FALSE, OwnInv, AloneInv, ReadyInv, [Next]_vars
    PROVE  ReadyInv'
<1> USE DEF ReadyInv, Fresh, CanSend, Up, Session, InUI, InTest, GoTo, CallInit,
        links, pending, place, locals, rest
<1>0. TypeOK /\ TakeInv /\ active \in {"wifi", "ble", "none"}
  BY DEF OwnInv, LoopInv, TypeOK, Links
<1>1. CASE Setup
  BY <1>0, <1>1 DEF Setup
<1>2. CASE Tick
  BY <1>0, <1>2 DEF Tick
<1>3. CASE Look
  BY <1>0, <1>3 DEF Look, AloneInv, TypeOK
<1>4. CASE Check
  BY <1>0, <1>4 DEF Check
<1>5. CASE React
  BY <1>0, <1>5 DEF React
<1>6. CASE DeferInit
  BY <1>0, <1>6 DEF DeferInit, MayInit
<1>7. CASE DeferNot
  BY <1>0, <1>7 DEF DeferNot
<1>8. CASE Console
  BY <1>0, <1>8 DEF Console
<1>9. CASE NoTest
  BY <1>0, <1>9 DEF NoTest
<1>10. CASE TestRead
  BY <1>0, <1>10 DEF TestRead
<1>11. CASE TestStart
  BY <1>0, <1>11 DEF TestStart
<1>12. CASE TestDraw
  BY <1>0, <1>12 DEF TestDraw
<1>13. CASE TestFlush
  BY <1>0, <1>13 DEF TestFlush
<1>14. CASE TestEnd
  BY <1>0, <1>14 DEF TestEnd
<1>15. CASE GpsFix
  BY <1>0, <1>15 DEF GpsFix
<1>16. CASE GpsWeak
  BY <1>0, <1>16 DEF GpsWeak
<1>17. CASE GpsSilent
  BY <1>0, <1>17 DEF GpsSilent
<1>18. CASE Values
  BY <1>0, <1>18 DEF Values
<1>19. CASE Status
  BY <1>0, <1>19 DEF Status
<1>20. CASE FrameFlush
  BY <1>0, <1>20 DEF FrameFlush
<1>21. CASE InitBegin
  BY <1>0, <1>21 DEF InitBegin
<1>22. CASE InitLabels
  BY <1>0, <1>22 DEF InitLabels
<1>23. CASE InitFlush
  BY <1>0, <1>23 DEF InitFlush, TypeOK
<1>24. CASE Phone \/ WifiInstall
  <2>1. /\ UNCHANGED <<pc, ret, active, changed, canRender, phoneReady>>
    BY <1>24 DEF Phone, WifiAccept, WifiTakeover, WifiLeave, WifiUnlink,
                 StationLost, StationBack, BleSubscribe, BleLeave, WifiInstall,
                 WifiAnnounce, WifiTaken
  <2>2. Fresh' => Fresh \/ ~phoneReady
    BY <1>0, <1>24, FreshStays
  <2> QED
    BY <2>1, <2>2
<1>25. CASE KeyPress \/ Settle \/ UNCHANGED vars
  BY <1>25 DEF KeyPress, Settle, vars
<1> QED
  BY <1>1, <1>2, <1>3, <1>4, <1>5, <1>6, <1>7, <1>8, <1>9, <1>10, <1>11,
     <1>12, <1>13, <1>14, <1>15, <1>16, <1>17, <1>18, <1>19, <1>20, <1>21,
     <1>22, <1>23, <1>24, <1>25 DEF Next, Loop

LEMMA ShownValues ==
    ASSUME NEW s, NEW items, \A i \in DOMAIN items : items[i].part = "values"
    PROVE  Shown(s, items) = s
  BY DEF Shown

LEMMA ShownLabels ==
    ASSUME NEW s, NEW items \in Seq(Drawn), Len(items) = 2,
           items[1].part = "begin", items[2].part = "labels"
    PROVE  Shown(s, items) = "labels"
<1> DEFINE drawn == {i \in DOMAIN items :
                        /\ s # "none" \/ \E j \in 1..i : items[j].part = "begin"
                        /\ items[i].part # "values"}
<1>1. DOMAIN items = 1..2
  OBVIOUS
<1>2. 2 \in drawn /\ \A i \in drawn : i \in Int /\ i <= 2
  BY <1>1
<1>3. Shown(s, items) = IF drawn = {} THEN s
         ELSE IF items[Max(drawn)].part = "begin" THEN "blank"
              ELSE items[Max(drawn)].part
  BY DEF Shown
<1> HIDE DEF drawn
<1>4. Max(drawn) = 2
  <2>1. Max(drawn) \in drawn /\ \A i \in drawn : Max(drawn) >= i
    <3>1. \E x \in drawn : \A y \in drawn : x >= y
      BY <1>2
    <3> QED
      BY <3>1 DEF Max
  <2> QED
    BY <1>2, <2>1
<1> QED
  BY <1>2, <1>3, <1>4

LEMMA FlushShows ==
    ASSUME TypeOK, NEW l \in Links, Flush(l)
    PROVE  /\ Heard(l) => screen'[l] = Shown(screen[l], buf[l])
           /\ \A m \in Links : m # l => screen'[m] = screen[m]
           /\ ~Heard(l) => screen' = screen
  BY DEF Flush, Deliver, TypeOK

(* Nothing but a BLE test goes out before the flush.                       *)
LEMMA DrawShows ==
    ASSUME LoopInv, NEW part \in Parts \ {"test"}, Draw(part),
           \A l \in Links : buf[l] = <<>>
    PROVE  /\ screen' = screen
           /\ \A l \in Links : \A i \in DOMAIN buf'[l] : buf'[l][i].part = part
           /\ CanSend => /\ Len(buf'[active]) = 1
                         /\ buf'[active][1].part = part
<1>0. /\ buf \in [Links -> Seq(Drawn)] /\ active \in Links \cup {"none"}
      /\ DOMAIN <<>> = {}
  BY DEF LoopInv, TypeOK, Drawn
<1>1. CASE ~CanSend /\ UNCHANGED wire
  BY <1>0, <1>1 DEF wire
<1>2. CASE /\ CanSend
           /\ buf' = [buf EXCEPT ![active] = Append(@, Item(part))]
           /\ UNCHANGED <<screen, stale>>
  <2>1. active \in Links
    BY <1>0, <1>2 DEF CanSend
  <2>2. \A l \in Links :
            buf'[l] = IF l = active THEN Append(<<>>, Item(part)) ELSE <<>>
    BY <1>0, <1>2, <2>1
  <2>3. /\ Len(Append(<<>>, Item(part))) = 1
        /\ DOMAIN Append(<<>>, Item(part)) = 1..1
        /\ Append(<<>>, Item(part))[1] = Item(part)
    OBVIOUS
  <2>4. Item(part).part = part
    BY DEF Item
  <2> QED
    BY <1>0, <1>2, <2>1, <2>2, <2>3, <2>4
<1> QED
  BY <1>1, <1>2 DEF Draw

LEMMA PartAppended ==
    ASSUME NEW b \in Seq(Drawn), NEW it \in Drawn
    PROVE  /\ Len(b) \in Nat /\ Len(Append(b, it)) = Len(b) + 1
           /\ \A i \in 1..Len(b) : Append(b, it)[i] = b[i]
           /\ Append(b, it)[Len(b) + 1] = it
  BY AppendProperties, LenProperties

LEMMA SecondPart ==
    ASSUME NEW b \in Seq(Drawn), Len(b) = 1, NEW it \in Drawn
    PROVE  /\ Len(Append(b, it)) = 2
           /\ Append(b, it)[1] = b[1] /\ Append(b, it)[2] = it
<1>1. /\ Len(Append(b, it)) = Len(b) + 1
      /\ \A i \in 1..Len(b) : Append(b, it)[i] = b[i]
      /\ Append(b, it)[Len(b) + 1] = it
  BY PartAppended, Zenon
<1>2. 1 \in 1..Len(b) /\ Len(b) + 1 = 2
  OBVIOUS
<1> QED
  BY <1>1, <1>2, Zenon

LEMMA ShowInvStep ==
    ASSUME Overlap = FALSE, OwnInv, AloneInv, ReadyInv, ShowInv,
           [Next]_vars
    PROVE  ShowInv'
<1> USE DEF ShowInv, Fresh, CanSend, Up, Session, InUI, GoTo, CallInit,
        links, pending, place, locals
<1>0. /\ TypeOK /\ TakeInv /\ LoopInv /\ FlushInv
      /\ active \in {"wifi", "ble", "none"}
      /\ buf \in [Links -> Seq(Drawn)]
  BY DEF OwnInv, LoopInv, TypeOK, Links, Drawn
<1>1. CASE Tick
  <2>1. active # "none" => screen'[active] = screen[active]
    <3>1. CASE Flush("wifi")
      <4>1. buf["wifi"] = <<>> /\ "wifi" \in Links
        BY <1>0, <1>1 DEF Tick, FlushInv, Rendering, Links
      <4>2. Shown(screen["wifi"], <<>>) = screen["wifi"]
        BY ShownValues
      <4>3. \A l \in Links : screen'[l] = screen[l]
        BY <1>0, <3>1, <4>1, <4>2, FlushShows
      <4> QED
        BY <1>0, <4>3 DEF Links
    <3> QED
      BY <1>1, <3>1 DEF Tick, wire
  <2> QED
    BY <1>1, <2>1 DEF Tick
<1>2. CASE Look
  BY <1>0, <1>2 DEF Look, wire, AloneInv, ReadyInv, TypeOK
<1>3. CASE Check
  BY <1>0, <1>3 DEF Check, wire
<1>4. CASE React
  BY <1>0, <1>4 DEF React, wire
<1>5. CASE DeferInit
  BY <1>0, <1>5 DEF DeferInit, wire, MayInit
<1>6. CASE DeferNot
  BY <1>0, <1>6 DEF DeferNot, wire
<1>7. CASE Console
  BY <1>0, <1>7 DEF Console, wire
<1>8. CASE NoTest
  BY <1>0, <1>8 DEF NoTest, wire
<1>9. CASE TestRead
  BY <1>0, <1>9 DEF TestRead, wire
<1>10. CASE TestStart
  BY <1>0, <1>10 DEF TestStart, wire
<1>11. CASE TestEnd
  BY <1>0, <1>11 DEF TestEnd, wire
<1>12. CASE GpsFix
  BY <1>0, <1>12 DEF GpsFix, Missed, wire, ReadyInv
<1>13. CASE GpsWeak
  BY <1>0, <1>13 DEF GpsWeak, wire
<1>14. CASE GpsSilent
  <2>1. /\ pc = "gps" /\ pc' \in {"status", "tick"}
        /\ pc' = "status" => ~gpsFixed'
        /\ gpsFixed' => gpsFixed
    <3>1. pc = "gps" /\ gpsFixed' \in {gpsFixed, FALSE}
      BY <1>14 DEF GpsSilent
    <3>2. PICK due \in BOOLEAN :
            pc' = IF due /\ ~gpsFixed' /\ phoneReady /\ canRender THEN "status"
                                                                 ELSE "tick"
      BY <1>14 DEF GpsSilent
    <3>3. pc' \in {"status", "tick"} /\ (pc' = "status" => ~gpsFixed')
      BY <3>2
    <3>4. gpsFixed' => gpsFixed
      BY <3>1
    <3> QED
      BY <3>1, <3>3, <3>4
  <2>2. /\ UNCHANGED <<wifi, wifiOpen, ble, unseen, active, wifiReconnectPending,
                      phoneReady>>
        /\ screen' = screen
    BY <1>14 DEF GpsSilent, wire
  <2> QED
    BY <1>0, <2>1, <2>2
<1>15. CASE Setup
  BY <1>0, <1>15 DEF Setup, wire
<1>16. CASE TestDraw
  BY <1>0, <1>16 DEF TestDraw, ReadyInv, InTest
<1>17. CASE TestFlush
  BY <1>0, <1>17 DEF TestFlush, ReadyInv, InTest
<1>18. CASE Values
  <2>1. CASE phoneReady /\ canRender
    <3>1. \A l \in Links : buf[l] = <<>>
      BY <1>0, <1>18 DEF Values, FlushInv, Rendering
    <3>2. /\ screen' = screen
          /\ \A l \in Links : \A i \in DOMAIN buf'[l] : buf'[l][i].part = "values"
      BY <1>0, <1>18, <2>1, <3>1, DrawShows DEF Values, Parts
    <3> QED
      BY <1>18, <2>1, <3>2 DEF Values
  <2>2. CASE ~(phoneReady /\ canRender)
    BY <1>18, <2>2 DEF Values, wire
  <2> QED
    BY <2>1, <2>2
<1>19. CASE Status
  <2>1. \A l \in Links : buf[l] = <<>>
    BY <1>0, <1>19 DEF Status, FlushInv, Rendering
  <2>2. screen' = screen
    BY <1>0, <1>19, <2>1, DrawShows DEF Status, Parts
  <2> QED
    BY <1>19, <2>2 DEF Status
<1>20. CASE FrameFlush
  <2>1. pc = "flush" /\ pc' = "tick" /\ FlushActive
    BY <1>20 DEF FrameFlush
  <2>2. gpsFixed /\ active \in Links
           => screen'[active] = screen[active]
    <3> SUFFICES ASSUME gpsFixed, active \in Links
                 PROVE  screen'[active] = screen[active]
      OBVIOUS
    <3>1. Flush(active)
      BY <2>1 DEF FlushActive, Links
    <3>2. Shown(screen[active], buf[active]) = screen[active]
      BY <2>1, ShownValues
    <3> QED
      BY <1>0, <3>1, <3>2, FlushShows
  <2>3. UNCHANGED <<active, wifi, wifiOpen, ble, unseen, wifiReconnectPending,
                   phoneReady, gpsFixed>>
    BY <1>20 DEF FrameFlush
  <2> QED
    BY <1>0, <2>1, <2>2, <2>3 DEF Links
<1>21. CASE InitBegin
  <2>1. \A l \in Links : buf[l] = <<>>
    BY <1>0, <1>21 DEF InitBegin, FlushInv, Rendering
  <2>2. CanSend => /\ Len(buf'[active]) = 1
                   /\ buf'[active][1].part = "begin"
    BY <1>0, <1>21, <2>1, DrawShows DEF InitBegin, Parts
  <2>3. Fresh' => CanSend
    BY <1>0, <1>21 DEF InitBegin, Missed, TypeOK
  <2> QED
    BY <1>21, <2>2, <2>3 DEF InitBegin
<1>22. CASE InitLabels
  <2> SUFFICES ASSUME Fresh'
               PROVE  /\ Len(buf'[active]) = 2
                      /\ buf'[active][1].part = "begin"
                      /\ buf'[active][2].part = "labels"
    BY <1>22 DEF InitLabels
  <2>1. active \in Links /\ pc = "labels" /\ CanSend /\ Fresh
    BY <1>0, <1>22 DEF InitLabels, Links, Missed
  <2>2. buf' = [buf EXCEPT ![active] = Append(@, Item("labels"))]
    BY <1>22, <2>1 DEF InitLabels, Draw
  <2> DEFINE b == buf[active]
             it == Item("labels")
  <2>3. b \in Seq(Drawn) /\ Len(b) = 1 /\ b[1].part = "begin"
    BY <1>0, <2>1
  <2>4. buf'[active] = Append(b, it)
    BY <1>0, <2>1, <2>2
  <2>5. it.part = "labels" /\ it \in Drawn
    BY <1>0, <2>1 DEF Item, TypeOK, Sessions, Drawn, Parts
  <2> HIDE DEF b, it
  <2>6. /\ Len(Append(b, it)) = 2
        /\ Append(b, it)[1] = b[1] /\ Append(b, it)[2] = it
    BY <2>3, <2>5, SecondPart
  <2> QED
    BY <2>3, <2>4, <2>5, <2>6
<1>23. CASE InitFlush
  <2>1. pc = "initFlush" /\ FlushActive /\ pc' = ret
    BY <1>23 DEF InitFlush
  <2>2. ret \in Quiet
    BY <1>0 DEF FlushInv
  <2>3. Fresh' => screen'[active] = "labels"
    <3> SUFFICES ASSUME Fresh' PROVE screen'[active] = "labels"
      OBVIOUS
    <3>0. Fresh /\ CanSend
      BY <1>0, <1>23 DEF InitFlush, Missed, TypeOK
    <3>1. active \in Links /\ Flush(active) /\ Heard(active)
      BY <1>0, <2>1, <3>0 DEF FlushActive, Links, Heard
    <3>2. Shown(screen[active], buf[active]) = "labels"
      BY <1>0, <2>1, <3>0, <3>1, ShownLabels
    <3> QED
      BY <1>0, <3>1, <3>2, FlushShows
  <2>4. UNCHANGED <<active, gpsFixed>>
    BY <1>23 DEF InitFlush
  <2> QED
    BY <2>1, <2>2, <2>3, <2>4 DEF Quiet
<1>24. CASE Phone \/ WifiInstall
  <2>1. UNCHANGED <<pc, active, phoneReady, gpsFixed, buf>>
    BY <1>24 DEF Phone, WifiAccept, WifiTakeover, WifiLeave, WifiUnlink,
                 StationLost, StationBack, BleSubscribe, BleLeave, WifiInstall,
                 WifiAnnounce, WifiTaken, rest
  <2>2. Fresh' => \/ Fresh /\ screen'[active] = screen[active]
                  \/ ~phoneReady /\ pc \notin InUI
    BY <1>0, <1>24, FreshStays
  <2> HIDE DEF Fresh
  <2> QED
    BY <2>1, <2>2
<1>25. CASE KeyPress \/ Settle \/ UNCHANGED vars
  BY <1>25 DEF KeyPress, Settle, vars, rest, wire
<1> QED
  BY <1>1, <1>2, <1>3, <1>4, <1>5, <1>6, <1>7, <1>8, <1>9, <1>10, <1>11,
     <1>12, <1>13, <1>14, <1>15, <1>16, <1>17, <1>18, <1>19, <1>20, <1>21,
     <1>22, <1>23, <1>24, <1>25 DEF Next, Loop

(* Telemetry of a fixed GPS lands on its labels, for phones that use one   *)
(* link at a time: however often the station is lost and joined again, but *)
(* for a phone that lost a part of the UI to it, or came unseen.           *)
THEOREM TelemetryOnLabels ==
    Overlap = FALSE => (Spec => []ValuesOnLabels)
<1> SUFFICES ASSUME Overlap = FALSE PROVE Spec => []ValuesOnLabels
  OBVIOUS
<1>1. Init => AloneInv /\ ReadyInv /\ ShowInv
  BY DEF Init, AloneInv, ReadyInv, ShowInv, InUI, InTest
<1>2. OwnInv /\ AloneInv /\ ReadyInv /\ ShowInv /\ [Next]_vars
        => AloneInv' /\ ReadyInv' /\ ShowInv'
  BY AloneInvStep, ReadyInvStep, ShowInvStep DEF OwnInv, LoopInv
<1>3. ShowInv => ValuesOnLabels
  BY DEF ShowInv, Fresh, InUI, ValuesOnLabels, Heard, Up
<1>4. Spec => []OwnInv
  BY AlwaysOwn
<1> QED
  BY <1>1, <1>2, <1>3, <1>4, PTL DEF Spec

=============================================================================
