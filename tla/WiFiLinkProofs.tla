--------------------------- MODULE WiFiLinkProofs ----------------------------
(* WiFiManager implements WifiLink, for any number of sessions and all     *)
(* values of the other constants.                                          *)
EXTENDS WiFiManagerProofs

(* What the mapping of a state to one of the link needs to know: no client *)
(* is held while one is being installed; there is nothing to announce at   *)
(* rest; and in SoftAP mode the switch is over.                            *)
AcceptInv == /\ pcT = None => announce = "none"
             /\ apMode => pcL \notin {"ap", "apLeave", "apStart"}

LinkInv == TypeOK /\ WriterInv /\ AcceptInv

LEMMA AcceptInvStep ==
    ASSUME TypeOK, AcceptInv, [Next]_vars PROVE AcceptInv'
<1> USE DEF AcceptInv
<1>1. CASE SendEnter \/ SendLock \/ SendEarly \/ SendNeeded \/ SendExit \/ SendGive
  BY <1>1 DEF SendEnter, SendLock, SendEarly, SendNeeded, SendExit, SendGive,
     accept, net
<1>2. CASE SendPing
  BY <1>2 DEF SendPing, SendPingTest, SendPingWrite, SendPingBook, accept, net
<1>3. CASE SendChunk \/ SendAbort
  BY <1>3 DEF SendChunk, SendAbort, accept, net
<1>4. CASE SendPanic \/ UpdatePanic
  BY <1>4 DEF SendPanic, UpdatePanic, Boot
<1>5. CASE SwitchToSoftAP
  BY <1>5 DEF SwitchToSoftAP, SwitchClose, SwitchEnd, SwitchLeave, SwitchStartAP,
     accept, net
<1>6. CASE UpdateEnter \/ UpdateClear \/ UpdateWatch \/ UpdateLate \/ UpdateDrop
             \/ UpdateDue \/ UpdateNeeded
  BY <1>6 DEF UpdateEnter, UpdateClear, UpdateWatch, UpdateLate, UpdateDrop,
     UpdateDue, UpdateNeeded, loopVars, accept, net
<1>7. CASE UpdateTake \/ UpdatePingTest \/ UpdatePingWrite \/ UpdatePingBook
             \/ UpdateGive
  BY <1>7 DEF UpdateTake, UpdatePingTest, UpdatePingWrite, UpdatePingBook,
     UpdateGive, loopVars, accept, net
<1>8. CASE AcceptCall \/ AcceptEnd
  BY <1>8 DEF AcceptCall, AcceptEnd, loopVars, net
<1>9. ASSUME NEW s \in Session, AcceptBegin(s) PROVE AcceptInv'
  BY <1>9, NoneAssumption DEF AcceptBegin, loopVars, net
<1>10. ASSUME NEW s \in Session,
              OnPong(s) \/ OnDisconnect(s) \/ OnClose(s) \/ OnError(s) \/ PhoneReads(s)
       PROVE  AcceptInv'
  BY <1>10 DEF OnPong, OnDisconnect, OnClose, OnError, PhoneReads, loopVars,
     accept, net
<1>11. CASE Station \/ Tick \/ Reboot
  BY <1>11 DEF Station, StationLost, StationBack, Tick, Reboot, loopVars, accept, net
<1>12. CASE UNCHANGED vars
  BY <1>12 DEF vars, loopVars, accept, net
<1> QED
  BY <1>1, <1>2, <1>3, <1>4, <1>5, <1>6, <1>7, <1>8, <1>9, <1>10, <1>11, <1>12
     DEF Next, Send, Update, AsyncTCP, Peer, Phone

(* Steps that leave the client, its connection, the accept and the station *)
(* alone.                                                                  *)
LEMMA LinkUnchanged ==
    ASSUME UNCHANGED <<up, client, conn, accept, joined, apMode>>
    PROVE  UNCHANGED Link!vars
  BY DEF Link!vars, Connected, IsConnected, accept

(* Closing sessions closes the client at most; the pointer stays.          *)
LEMMA LinkClosed ==
    ASSUME LinkInv, up, NEW S, ClosedTcp(S),
           UNCHANGED <<up, client, accept, joined, apMode>>
    PROVE  [Link!Next]_(Link!vars)
<1>1. /\ Connected' => Connected
      /\ UNCHANGED <<IsConnected, pcT, announce, client # None>>
  BY DEF ClosedTcp, Connected, IsConnected, LinkInv, TypeOK, accept
<1>2. CASE Connected' = Connected
  BY <1>1, <1>2 DEF Link!vars
<1>3. CASE Connected /\ ~Connected'
  BY <1>1, <1>3 DEF Link!Next, Link!Leave
<1> QED
  BY <1>1, <1>2, <1>3 DEF Connected

(* A session is closed or gone, and let go of if it is the client.         *)
LEMMA LinkUnlinked ==
    ASSUME LinkInv, up, NEW s \in Session, Unlink(s),
           \A x \in Session \ {s} : conn'[x] = conn[x],
           conn'[s] # "open", UNCHANGED <<up, accept, joined, apMode>>
    PROVE  [Link!Next]_(Link!vars)
<1>0. UNCHANGED <<IsConnected, pcT, announce>>
  BY DEF IsConnected, accept
<1>1. CASE client # s
  BY <1>0, <1>1 DEF LinkInv, TypeOK, Unlink, Connected, Link!vars
<1>2. CASE client = s
  <2>1. s # None /\ client' = None /\ ~Connected'
    BY <1>2, NoneAssumption DEF Unlink, Connected
  <2>2. CASE Connected
    BY <1>0, <1>2, <2>1, <2>2 DEF Link!Next, Link!Leave
  <2>3. CASE ~Connected
    BY <1>0, <1>2, <2>1, <2>3 DEF Link!Next, Link!Unlink, Connected
  <2> QED
    BY <2>2, <2>3
<1> QED
  BY <1>1, <1>2

LEMMA LinkInit == Init => Link!Init
  BY DEF Init, Link!Init, Connected, IsConnected

(* WiFi.disconnect() of switchToSoftAP(): the station goes, unless it was  *)
(* gone, and every connection with it.                                     *)
LEMMA LinkLeft ==
    ASSUME LinkInv, up, SwitchLeave PROVE [Link!Next]_(Link!vars)
<1>1. /\ pcL = "apLeave" /\ ~apMode /\ ~apMode'
      /\ joined' = FALSE /\ ClosedTcp(Session)
      /\ UNCHANGED <<up, client, accept, apMode>>
  BY DEF SwitchLeave, LinkInv, AcceptInv, net
<1>2. CASE joined
  <2>1. IsConnected /\ IsConnected' = FALSE
    BY <1>1, <1>2 DEF IsConnected
  <2>2. Connected' => Connected
    BY <1>1 DEF ClosedTcp, Connected, LinkInv, TypeOK
  <2>3. Connected' \in {Connected, FALSE}
    BY <2>2 DEF Connected
  <2> QED
    BY <1>1, <2>1, <2>3 DEF Link!Next, Link!StationLost, accept
<1>3. CASE ~joined
  <2>1. joined' = joined
    BY <1>1, <1>3 DEF LinkInv, TypeOK
  <2> QED
    BY <1>1, <2>1, LinkClosed
<1> QED
  BY <1>2, <1>3

(* The network is back, or the SoftAP is up.                               *)
LEMMA LinkStation ==
    ASSUME LinkInv, up, StationLost \/ StationBack \/ SwitchStartAP
    PROVE  [Link!Next]_(Link!vars)
<1>1. UNCHANGED <<up, client, conn, accept, Connected>>
  BY DEF StationLost, StationBack, SwitchStartAP, tcp, Connected
<1>2. CASE IsConnected' = IsConnected
  BY <1>1, <1>2 DEF Link!vars, accept
<1>3. CASE IsConnected /\ ~IsConnected'
  BY <1>1, <1>3 DEF Link!Next, Link!StationLost, accept, IsConnected
<1>4. CASE ~IsConnected /\ IsConnected'
  BY <1>1, <1>4 DEF Link!Next, Link!StationBack, accept, IsConnected
<1> QED
  BY <1>2, <1>3, <1>4 DEF IsConnected

LEMMA LinkStep ==
    ASSUME LinkInv, Next PROVE [Link!Next]_(Link!vars)
<1>1. CASE SendEnter \/ SendLock \/ SendEarly \/ SendNeeded \/ SendExit \/ SendGive
  BY <1>1, LinkUnchanged DEF SendEnter, SendLock, SendEarly, SendNeeded, SendExit,
     SendGive, tcp, net
<1>2. CASE SendPing
  BY <1>2, LinkUnchanged DEF SendPing, SendPingTest, SendPingWrite, SendPingBook,
     tcp, net
<1>4. CASE SendChunk \/ SendAbort
  BY <1>4, LinkUnchanged DEF SendChunk, SendAbort, net
<1>6. CASE up /\ (SendPanic \/ UpdatePanic)
  <2>1. /\ up /\ up' = FALSE /\ client' = None /\ pcT' = None
        /\ announce' = "none" /\ IsConnected' = TRUE /\ Connected' = FALSE
    BY <1>6 DEF SendPanic, UpdatePanic, Boot, Connected, IsConnected
  <2> QED
    BY <2>1 DEF Link!Next, Link!Panic
<1>7. CASE up /\ SwitchClose
  <2>1. CASE client # None
    BY <1>7, <2>1, LinkClosed DEF SwitchClose, net
  <2>2. CASE client = None
    BY <1>7, <2>2, LinkUnchanged DEF SwitchClose, tcp, net
  <2> QED
    BY <2>1, <2>2
<1>8. CASE up /\ SwitchEnd
  <2>1. /\ client' = None /\ UNCHANGED <<up, conn, accept, joined, apMode>>
        /\ UNCHANGED <<IsConnected, pcT, announce>>
    BY <1>8 DEF SwitchEnd, tcp, accept, IsConnected
  <2>2. CASE Connected
    BY <1>8, <2>1, <2>2 DEF Link!Next, Link!Leave, Connected
  <2>3. CASE ~Connected /\ client # None
    BY <1>8, <2>1, <2>3 DEF Link!Next, Link!Unlink, Connected
  <2>4. CASE client = None
    BY <2>1, <2>4, LinkUnchanged
  <2> QED
    BY <2>2, <2>3, <2>4
<1>9. CASE up /\ SwitchLeave
  BY <1>9, LinkLeft
<1>3. CASE up /\ (Station \/ SwitchStartAP)
  BY <1>3, LinkStation DEF Station
<1>10. CASE UpdateEnter \/ UpdateClear \/ UpdateWatch \/ UpdateLate \/ UpdateDue
              \/ UpdateNeeded
  BY <1>10, LinkUnchanged DEF UpdateEnter, UpdateClear, UpdateWatch, UpdateLate,
     UpdateDue, UpdateNeeded, tcp, net
<1>11. CASE UpdateTake \/ UpdatePingTest \/ UpdatePingWrite \/ UpdatePingBook
              \/ UpdateGive
  BY <1>11, LinkUnchanged DEF UpdateTake, UpdatePingTest, UpdatePingWrite,
     UpdatePingBook, UpdateGive, tcp, net
<1>12. CASE up /\ UpdateDrop
  <2>1. CASE client # None
    BY <1>12, <2>1, LinkClosed DEF UpdateDrop, net
  <2>2. CASE client = None
    BY <1>12, <2>2, LinkUnchanged DEF UpdateDrop, tcp, net
  <2> QED
    BY <2>1, <2>2
<1>13. ASSUME up, NEW s \in Session, AcceptBegin(s)
       PROVE  [Link!Next]_(Link!vars)
  <2>1. /\ pcT = None /\ pcT' # None /\ client' = None /\ up' = up
        /\ announce' = IF client = None THEN "none" ELSE "due"
        /\ Connected' = FALSE /\ IsConnected' = IsConnected
    BY <1>13, NoneAssumption DEF AcceptBegin, Connected, IsConnected, net
  <2>2. CASE client = None
    BY <1>13, <2>1, <2>2 DEF Link!Next, Link!Accept, Connected
  <2>3. CASE client # None
    BY <1>13, <2>1, <2>3 DEF Link!Next, Link!Takeover
  <2> QED
    BY <2>2, <2>3
<1>5. CASE up /\ AcceptCall
  BY <1>5 DEF AcceptCall, Connected, IsConnected, net, tcp, Link!Next, Link!Announce
<1>14. CASE up /\ AcceptEnd
  <2>1. /\ pcT # None /\ announce # "due" /\ pcT' = None /\ announce' = "none"
        /\ client' # None /\ up' = up /\ IsConnected' = IsConnected
    BY <1>14 DEF AcceptEnd, IsConnected, net
  <2>2. Connected' \in BOOLEAN
    BY DEF Connected
  <2> QED
    BY <1>14, <2>1, <2>2 DEF Link!Next, Link!Taken
<1>15. ASSUME up, NEW s \in Session, OnDisconnect(s)
       PROVE  [Link!Next]_(Link!vars)
  <2>1. /\ \A x \in Session \ {s} : conn'[x] = conn[x]
        /\ conn'[s] # "open"
    BY <1>15 DEF OnDisconnect, LinkInv, TypeOK
  <2> QED
    BY <1>15, <2>1, LinkUnlinked DEF OnDisconnect, net
<1>16. ASSUME up, NEW s \in Session, OnError(s)
       PROVE  [Link!Next]_(Link!vars)
  <2>1. /\ \A x \in Session \ {s} : conn'[x] = conn[x]
        /\ conn'[s] # "open"
    BY <1>16 DEF OnError, ClosedTcp, LinkInv, TypeOK
  <2> QED
    BY <1>16, <2>1, LinkUnlinked DEF OnError, net
<1>17. ASSUME up, NEW s \in Session, OnClose(s)
       PROVE  [Link!Next]_(Link!vars)
  BY <1>17, LinkClosed DEF OnClose, net
<1>18. ASSUME NEW s \in Session, OnPong(s) \/ PhoneReads(s)
       PROVE  [Link!Next]_(Link!vars)
  BY <1>18, LinkUnchanged DEF OnPong, PhoneReads, net
<1>19. CASE Tick
  BY <1>19, LinkUnchanged DEF Tick, tcp, net
<1>20. CASE Reboot
  <2>1. /\ ~up /\ up' /\ UNCHANGED <<client, conn, accept>>
        /\ UNCHANGED <<Connected, IsConnected>>
    BY <1>20 DEF Reboot, tcp, net, Connected, IsConnected
  <2> QED
    BY <1>20, <2>1 DEF Reboot, Link!Next, Link!Reboot, accept
<1> QED
  BY <1>1, <1>2, <1>3, <1>4, <1>5, <1>6, <1>7, <1>8, <1>9, <1>10, <1>11,
     <1>12, <1>13, <1>14, <1>15, <1>16, <1>17, <1>18, <1>19, <1>20
     DEF Next, Send, SwitchToSoftAP, Update, AsyncTCP, Peer, Phone

(* The three tasks and the callbacks together are a link with one client   *)
(* at most: one that replaces another can be sent to only after            *)
(* onConnected was called for it, and canSend() falls, and rises again,    *)
(* with the pointer and the station alone.  It is what MainLoop takes for  *)
(* granted about its WiFi phones.                                          *)
THEOREM ManagerIsALink == Spec => ImplementsLink
<1>1. LinkInv /\ [Next]_vars => [Link!Next]_(Link!vars)
  <2> SUFFICES ASSUME LinkInv, [Next]_vars PROVE [Link!Next]_(Link!vars)
    OBVIOUS
  <2>1. CASE Next
    BY <2>1, LinkStep
  <2>2. CASE UNCHANGED vars
    BY <2>2, LinkUnchanged DEF vars, tcp, net
  <2> QED BY <2>1, <2>2
<1>2. Init => AcceptInv
  BY DEF Init, AcceptInv
<1>3. TypeOK /\ AcceptInv /\ [Next]_vars => AcceptInv'
  BY AcceptInvStep
<1>4. TypeOK /\ StreamInv /\ AcceptInv => LinkInv
  BY DEF LinkInv, StreamInv
<1> QED
  BY <1>1, <1>2, <1>3, <1>4, LinkInit, TypeCorrect, StreamIntegrity, PTL
     DEF Spec, ImplementsLink, Link!Spec

=============================================================================
