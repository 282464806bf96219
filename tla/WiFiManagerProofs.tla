------------------------- MODULE WiFiManagerProofs -------------------------
(***************************************************************************)
(* Proofs about WiFiManager for every number of sessions, every message    *)
(* length, socket window and timing constant.                              *)
(***************************************************************************)
EXTENDS WiFiManager, SequenceTheorems, TLAPS

USE NoneAssumption, LenAssumption, TimeAssumption

-----------------------------------------------------------------------------
(* Streams                                                                 *)

(* Extending a unit stream with in-range units of one message gives a unit *)
(* stream (the writes of send() and sendPingNow()).                        *)
LEMMA ExtendType ==
    ASSUME NEW q \in Seq(Unit), NEW m \in {"frame", "ping"},
           NEW k \in Nat, NEW n \in Nat, k + n <= Size(m)
    PROVE  /\ Extend(q, m, k, n) \in Seq(Unit)
           /\ Len(Extend(q, m, k, n)) = Len(q) + n
<1> DEFINE e == Extend(q, m, k, n)
<1>1. \A j \in 1..(Len(q) + n) : e[j] \in Unit
  <2> SUFFICES ASSUME NEW j \in 1..(Len(q) + n) PROVE e[j] \in Unit
    OBVIOUS
  <2>1. CASE j <= Len(q)
    BY <2>1 DEF Extend
  <2>2. CASE j > Len(q)
    <3>1. e[j] = [msg |-> m, idx |-> k + (j - Len(q))]
      BY <2>2 DEF Extend
    <3>2. k + (j - Len(q)) \in 1..Size(m)
      BY <2>2 DEF Size
    <3> QED BY <3>1, <3>2 DEF Unit, Size
  <2> QED BY <2>1, <2>2
<1>2. e \in [1..(Len(q) + n) -> Unit]
  BY <1>1 DEF Extend
<1>3. Len(q) + n \in Nat
  OBVIOUS
<1>4. e \in Seq(Unit)
  BY <1>2, <1>3, SeqDef
<1>5. Len(e) = Len(q) + n
  <2> HIDE DEF e
  <2> QED BY <1>2, <1>3, <1>4, LenProperties
<1> QED BY <1>4, <1>5

(* The elements of an extended stream.                                     *)
LEMMA ExtendElements ==
    ASSUME NEW q \in Seq(Unit), NEW m \in {"frame", "ping"},
           NEW k \in Nat, NEW n \in Nat, k + n <= Size(m),
           NEW j \in 1..(Len(q) + n)
    PROVE  /\ j <= Len(q) => Extend(q, m, k, n)[j] = q[j]
           /\ j > Len(q) =>
                Extend(q, m, k, n)[j] = [msg |-> m, idx |-> k + (j - Len(q))]
BY DEF Extend

(* Writing no unit leaves the stream as it was.                            *)
LEMMA ExtendByNothing ==
    ASSUME NEW q \in Seq(Unit), NEW m \in {"frame", "ping"}
    PROVE  Extend(q, m, 0, 0) = q
<1>0. 0 + 0 <= Size(m) /\ Len(q) \in Nat /\ Len(q) + 0 = Len(q)
  BY DEF Size
<1>1. Extend(q, m, 0, 0) \in Seq(Unit) /\ Len(Extend(q, m, 0, 0)) = Len(q)
  <2>1. /\ Extend(q, m, 0, 0) \in Seq(Unit)
        /\ Len(Extend(q, m, 0, 0)) = Len(q) + 0
    BY <1>0, ExtendType
  <2> QED BY <2>1, <1>0
<1>2. ASSUME NEW j \in 1..Len(q) PROVE Extend(q, m, 0, 0)[j] = q[j]
  BY <1>0 DEF Extend
<1> QED BY <1>1, <1>2, SeqEqual

(* A write that begins where the stream stands keeps it a chain, and moves *)
(* its end by as many units of the message as were accepted.               *)
LEMMA ExtendChain ==
    ASSUME NEW at \in Unit, NEW q \in Seq(Unit), Chain(at, q),
           NEW m \in {"frame", "ping"}, NEW k \in Nat, NEW n \in Nat \ {0},
           k + n <= Size(m),
           IF k = 0 THEN IsEnd(LastOf(at, q))
                    ELSE LastOf(at, q) = [msg |-> m, idx |-> k]
    PROVE  /\ Chain(at, Extend(q, m, k, n))
           /\ LastOf(at, Extend(q, m, k, n)) = [msg |-> m, idx |-> k + n]
<1>0. n \in Nat /\ n > 0 /\ Len(q) \in Nat
  OBVIOUS
<1>t. /\ Extend(q, m, k, n) \in Seq(Unit)
      /\ Len(Extend(q, m, k, n)) = Len(q) + n
  <2>1. q \in Seq(Unit) /\ m \in {"frame", "ping"} /\ k \in Nat
        /\ n \in Nat /\ k + n <= Size(m)
    BY <1>0
  <2> QED BY ONLY <2>1, ExtendType
<1> DEFINE e == Extend(q, m, k, n)
<1>1. /\ e \in Seq(Unit) /\ Len(e) = Len(q) + n /\ e # <<>>
  <2> HIDE DEF e
  <2>1. e \in Seq(Unit) /\ Len(e) = Len(q) + n
    BY <1>t DEF e
  <2>2. Len(e) # 0
    BY <1>0, <2>1
  <2>3. e # <<>>
    BY <2>1, <2>2, EmptySeq, Zenon
  <2> QED BY <2>1, <2>3
<1>2. \A j \in 1..(Len(q) + n) :
         /\ j <= Len(q) => e[j] = q[j]
         /\ j > Len(q) => e[j] = [msg |-> m, idx |-> k + (j - Len(q))]
  BY <1>0 DEF Extend
<1>3. e[Len(q) + 1] = [msg |-> m, idx |-> k + 1]
  BY <1>2
<1>4. Follows(LastOf(at, q), e[Len(q) + 1])
  BY <1>3 DEF Follows, IsEnd
<1> HIDE DEF e
<1>5. Follows(at, e[1])
  <2>1. CASE q = <<>>
    BY <2>1, <1>4 DEF LastOf
  <2>2. CASE q # <<>>
    <3>1. 1 <= Len(q) /\ 1 \in 1..(Len(q) + n)
      BY <2>2, <1>0
    <3>2. e[1] = q[1]
      BY <3>1, <1>2, <1>0
    <3> QED BY <2>2, <3>2 DEF Chain
  <2> QED BY <2>1, <2>2
<1>6. ASSUME NEW j \in 1..(Len(e) - 1) PROVE Follows(e[j], e[j + 1])
  <2>1. CASE j < Len(q)
    <3>1. j \in 1..(Len(q) - 1) /\ e[j] = q[j] /\ e[j + 1] = q[j + 1]
      BY <2>1, <1>1, <1>2
    <3> QED BY <3>1 DEF Chain
  <2>2. CASE j = Len(q)
    <3>1. q # <<>> /\ e[j] = q[Len(q)]
      BY <2>2, <1>1, <1>2
    <3> QED BY <3>1, <2>2, <1>4 DEF LastOf
  <2>3. CASE j > Len(q)
    <3>1. /\ e[j] = [msg |-> m, idx |-> k + (j - Len(q))]
          /\ e[j + 1] = [msg |-> m, idx |-> k + (j + 1 - Len(q))]
      BY <2>3, <1>1, <1>2
    <3>2. k + (j + 1 - Len(q)) = (k + (j - Len(q))) + 1
      OBVIOUS
    <3> QED BY <3>1, <3>2, <2>3 DEF Follows
  <2> QED BY <2>1, <2>2, <2>3
<1>7. e[Len(e)] = [msg |-> m, idx |-> k + n]
  BY <1>1, <1>2
<1> QED BY <1>1, <1>5, <1>6, <1>7 DEF Chain, LastOf, e

(* Reading a unit moves the boundary between the phone and the socket.     *)
LEMMA TailChain ==
    ASSUME NEW at \in Unit, NEW q \in Seq(Unit), q # <<>>, Chain(at, q)
    PROVE  /\ Head(q) \in Unit /\ Tail(q) \in Seq(Unit)
           /\ Follows(at, Head(q))
           /\ Chain(Head(q), Tail(q))
           /\ LastOf(Head(q), Tail(q)) = LastOf(at, q)
<1> DEFINE h == Head(q)
           t == Tail(q)
<1>1. /\ h = q[1] /\ h \in Unit /\ t \in Seq(Unit)
      /\ Len(q) \in Nat \ {0} /\ Len(t) = Len(q) - 1
      /\ t = <<>> <=> Len(t) = 0
      /\ \A j \in 1..(Len(q) - 1) : t[j] = q[j + 1]
  <2>1. Len(q) \in Nat \ {0} /\ 1 \in 1..Len(q)
    BY EmptySeq
  <2>2. h = q[1] /\ h \in Unit
    BY <2>1, ElementOfSeq
  <2>3. t \in Seq(Unit) /\ Len(t) = Len(q) - 1 /\ \A j \in 1..Len(t) : t[j] = q[j + 1]
    BY HeadTailProperties
  <2>4. t = <<>> <=> Len(t) = 0
    <3> HIDE DEF t
    <3> QED BY <2>3, EmptySeq
  <2> QED BY <2>1, <2>2, <2>3, <2>4
<1> HIDE DEF h, t
<1>2. Follows(at, h)
  BY <1>1 DEF Chain
<1>3. Chain(h, t)
  <2>1. ASSUME t # <<>> PROVE Follows(h, t[1])
    <3>1. 1 \in 1..(Len(q) - 1) /\ t[1] = q[1 + 1]
      BY <1>1, <2>1
    <3> QED BY <1>1, <3>1 DEF Chain
  <2>2. ASSUME NEW j \in 1..(Len(t) - 1) PROVE Follows(t[j], t[j + 1])
    <3>1. j + 1 \in 1..(Len(q) - 1) /\ t[j] = q[j + 1] /\ t[j + 1] = q[(j + 1) + 1]
      BY <1>1
    <3> QED BY <3>1 DEF Chain
  <2> QED BY <2>1, <2>2 DEF Chain
<1>4. LastOf(h, t) = LastOf(at, q)
  <2>1. CASE Len(q) = 1
    <3>1. t = <<>> /\ h = q[Len(q)]
      BY <2>1, <1>1
    <3> QED BY <3>1 DEF LastOf
  <2>2. CASE Len(q) > 1
    <3>1. t # <<>> /\ Len(t) \in 1..(Len(q) - 1) /\ Len(t) + 1 = Len(q)
      BY <2>2, <1>1
    <3>2. t[Len(t)] = q[Len(q)]
      BY <3>1, <1>1
    <3> QED BY <3>1, <3>2 DEF LastOf
  <2> QED BY <2>1, <2>2, <1>1
<1> QED BY <1>1, <1>2, <1>3, <1>4 DEF h, t

-----------------------------------------------------------------------------
(* Type correctness                                                        *)

LEMMA BoundaryType == Boundary \in Unit /\ IsEnd(Boundary) /\ Fresh \in [at : Unit, garbled : BOOLEAN]
BY DEF Boundary, Unit, IsEnd, Size, Fresh

LEMMA AgeType == AgeCap \in Nat /\ Uptime \in Nat /\ AgeCap < Uptime
BY DEF AgeCap, Uptime

LEMMA LeastType ==
    ASSUME NEW a \in Nat, NEW b \in Nat
    PROVE  Least(a, b) \in Nat /\ Least(a, b) <= a /\ Least(a, b) <= b
BY DEF Least

(* sendPingNow()'s write keeps the types and the socket's window.          *)
LEMMA PingWriteType ==
    ASSUME TypeOK, PingWrite
    PROVE  /\ buf' \in [Session -> Seq(Unit)]
           /\ \A s \in Session : Len(buf'[s]) <= SendBuf
           /\ cut' \in [Session -> BOOLEAN]
<1> DEFINE n == Least(PingLen, Space(client))
           e == Extend(buf[client], "ping", 0, n)
<1>1. client \in Session /\ buf[client] \in Seq(Unit) /\ Len(buf[client]) \in Nat
      /\ Len(buf[client]) <= SendBuf
  BY DEF PingWrite, TypeOK
<1>2. n \in Nat /\ n <= PingLen /\ Len(buf[client]) + n <= SendBuf
  <2>1. Space(client) \in Nat /\ Space(client) <= SendBuf - Len(buf[client])
    <3>1. CASE conn[client] = "open"
      BY <1>1, <3>1 DEF Space
    <3>2. CASE conn[client] # "open"
      BY <1>1, <3>2 DEF Space
    <3> QED BY <3>1, <3>2
  <2> HIDE DEF e
  <2>2. n \in Nat /\ n <= PingLen /\ n <= Space(client)
    BY <2>1, LeastType
  <2> QED BY <1>1, <2>1, <2>2
<1>3. e \in Seq(Unit) /\ Len(e) = Len(buf[client]) + n
  <2>1. 0 + n <= Size("ping")
    BY <1>2 DEF Size
  <2> QED BY <1>1, <1>2, <2>1, ExtendType
<1>4. /\ buf' = [buf EXCEPT ![client] = e]
      /\ cut' = [cut EXCEPT ![client] = @ \/ (0 < n /\ n < PingLen)]
  BY DEF PingWrite
<1> HIDE DEF e, n
<1> QED BY <1>1, <1>2, <1>3, <1>4 DEF TypeOK

(* Ending connections keeps the types.                                     *)
LEMMA ClosedTcpType ==
    ASSUME TypeOK, NEW S \in SUBSET Session, ClosedTcp(S)
    PROVE  /\ conn' \in [Session -> {"free", "open", "closing"}]
           /\ buf' \in [Session -> Seq(Unit)]
           /\ \A s \in Session : Len(buf'[s]) <= SendBuf
           /\ phone' \in [Session -> [at : Unit, garbled : BOOLEAN]]
           /\ pong' \in [Session -> BOOLEAN]
           /\ cut' \in [Session -> BOOLEAN]
BY BoundaryType DEF ClosedTcp, TypeOK

LEMMA InitType == Init => TypeOK
<1> SUFFICES ASSUME Init PROVE TypeOK
  OBVIOUS
<1>1. buf \in [Session -> Seq(Unit)] /\ \A s \in Session : Len(buf[s]) <= SendBuf
  BY EmptySeq DEF Init
<1>2. phone \in [Session -> [at : Unit, garbled : BOOLEAN]]
  BY BoundaryType DEF Init
<1>3. sent \in 0..FrameLen /\ sendAge \in 0..(SendTimeout + 1) /\ hbAge \in 0..MaxLag
      /\ pingAge \in 0..Uptime
  BY AgeType DEF Init
<1> QED BY <1>1, <1>2, <1>3 DEF Init, TypeOK

LEMMA BootType == Boot /\ up' \in BOOLEAN => TypeOK'
<1> SUFFICES ASSUME Boot, up' \in BOOLEAN PROVE TypeOK'
  OBVIOUS
<1>1. buf' \in [Session -> Seq(Unit)] /\ \A s \in Session : Len(buf'[s]) <= SendBuf
  BY EmptySeq DEF Boot
<1>2. phone' \in [Session -> [at : Unit, garbled : BOOLEAN]]
  BY BoundaryType DEF Boot
<1>3. sent' \in 0..FrameLen /\ sendAge' \in 0..(SendTimeout + 1) /\ hbAge' \in 0..MaxLag
      /\ pingAge' \in 0..Uptime
  BY AgeType DEF Boot
<1> QED BY <1>1, <1>2, <1>3 DEF Boot, TypeOK, LoopHolds, HeartbeatHolds


LEMMA TypeStep ==
    ASSUME TypeOK, Next PROVE TypeOK'
<1> USE AgeType, BoundaryType
<1>1. CASE SendEnter
  BY <1>1 DEF SendEnter, TypeOK, tcp, loopVars, hbVars, accept, beat, net, LoopHolds,
     HeartbeatHolds
<1>2. CASE SendLock
  BY <1>2 DEF SendLock, TypeOK, tcp, loopVars, hbVars, accept, beat, net, LoopHolds,
     HeartbeatHolds
<1>3. ASSUME NEW at \in LoopHolds, NEW put \in LoopHolds, NEW next \in LoopHolds,
             SendPingTest(at, put, next)
      PROVE  TypeOK'
  <2>1. pcL' \in LoopHolds
    BY <1>3 DEF SendPingTest
  <2>2. pingNeeded' \in BOOLEAN
    BY <1>3, Zenon DEF SendPingTest, PingTest
  <2> QED BY <1>3, <2>1, <2>2 DEF SendPingTest, TypeOK, tcp, hbVars, accept, net
<1>4. ASSUME NEW at \in LoopHolds, NEW next \in LoopHolds, SendPingWrite(at, next)
      PROVE  TypeOK'
  BY <1>4, PingWriteType DEF SendPingWrite, TypeOK, hbVars, accept, beat, net
<1>5. ASSUME NEW at \in LoopHolds, NEW next \in LoopHolds, SendPingBook(at, next)
      PROVE  TypeOK'
  <2>1. pingAge' \in 0..Uptime
    BY <1>5 DEF SendPingBook, PingBook
  <2>2. waiting' \in BOOLEAN /\ pingNeeded' \in BOOLEAN
    BY <1>5, Zenon DEF SendPingBook, PingBook
  <2> QED BY <1>5, <2>1, <2>2 DEF SendPingBook, TypeOK, tcp, hbVars, accept, net
<1>6. CASE SendPing
  <2>1. {"earlyTest", "earlyPut", "earlyBook", "needed", "neededTest", "neededPut",
         "neededBook", "write", "exitTest", "exitPut", "exitBook", "give"}
           \subseteq LoopHolds
    BY DEF LoopHolds
  <2> QED BY <1>3, <1>4, <1>5, <1>6, <2>1 DEF SendPing
<1>7. CASE SendEarly
  BY <1>7 DEF SendEarly, TypeOK, tcp, loopVars, hbVars, accept, beat,
     net, LoopHolds, HeartbeatHolds
<1>8. CASE SendNeeded
  BY <1>8 DEF SendNeeded, TypeOK, tcp, loopVars, hbVars, accept, beat,
     net, LoopHolds, HeartbeatHolds
<1>9. CASE SendChunk
  <2>1. PICK n \in 1..Least(Space(client), FrameLen - sent) :
          /\ buf' = [buf EXCEPT ![client] = Extend(@, "frame", sent, n)]
          /\ sent' = sent + n
    BY <1>9 DEF SendChunk
  <2>2. client \in Session /\ pcL = "write" /\ sent \in 0..FrameLen
    BY <1>9 DEF SendChunk, TypeOK
  <2>3. /\ buf[client] \in Seq(Unit) /\ Len(buf[client]) \in Nat
        /\ n \in Nat /\ sent + n <= FrameLen /\ Len(buf[client]) + n <= SendBuf
    BY <2>1, <2>2 DEF TypeOK, Space, Least
  <2> DEFINE e == Extend(buf[client], "frame", sent, n)
  <2>4. e \in Seq(Unit) /\ Len(e) = Len(buf[client]) + n
    <3>1. sent \in Nat /\ sent + n <= Size("frame")
      BY <2>2, <2>3 DEF Size
    <3> QED BY <2>3, <3>1, ExtendType
  <2>5. buf' = [buf EXCEPT ![client] = e]
    BY <2>1
  <2> HIDE DEF e
  <2>6. buf' \in [Session -> Seq(Unit)] /\ \A s \in Session : Len(buf'[s]) <=
     SendBuf
    BY <2>2, <2>3, <2>4, <2>5 DEF TypeOK
  <2>7. sent' \in 0..FrameLen
    BY <2>1, <2>2, <2>3
  <2>8. /\ pcL' \in LoopHolds /\ sendAge' = 0
        /\ UNCHANGED <<up, client, conn, phone, pong, cut, mutex, hbVars, accept,
                       beat, net>>
    BY <1>9 DEF SendChunk, LoopHolds
  <2> QED BY <2>6, <2>7, <2>8 DEF TypeOK, hbVars, accept, beat, net
<1>10. CASE SendAbort
  BY <1>10 DEF SendAbort, TypeOK, tcp, loopVars, hbVars, accept, beat, net,
     LoopHolds, HeartbeatHolds
<1>11. CASE SendPanic
  BY <1>11, BootType DEF SendPanic
<1>12. CASE SendExit
  BY <1>12 DEF SendExit, TypeOK, tcp, loopVars, hbVars, accept, beat,
     net, LoopHolds, HeartbeatHolds
<1>13. CASE SendGive
  BY <1>13 DEF SendGive, TypeOK, tcp, loopVars, hbVars, accept, beat,
     net, LoopHolds, HeartbeatHolds
<1>14. CASE SwitchClose
  <2>1. /\ pcL' = "ap"
        /\ UNCHANGED <<up, client, mutex, sent, sendAge, hbVars, accept, beat, net>>
    BY <1>14 DEF SwitchClose
  <2>2. CASE client # None
    <3>1. ClosedTcp({client}) /\ {client} \in SUBSET Session
      BY <1>14, <2>2 DEF SwitchClose, TypeOK
    <3> QED BY <3>1, <2>1, ClosedTcpType DEF TypeOK, hbVars, accept, beat, net
  <2>3. CASE client = None
    <3>1. UNCHANGED tcp
      BY <1>14, <2>3 DEF SwitchClose
    <3> QED BY <3>1, <2>1 DEF TypeOK, tcp, hbVars, accept, beat, net
  <2> QED BY <2>2, <2>3
<1>15. CASE SwitchEnd
  <2>1. /\ client' = None /\ server' = FALSE /\ pcL' = "apLeave"
        /\ up' = up /\ mutex' = mutex /\ sent' = sent /\ sendAge' = sendAge
        /\ pcH' = pcH /\ hbAge' = hbAge /\ pcT' = pcT /\ announce' = announce
        /\ joined' = joined /\ apMode' = apMode
        /\ UNCHANGED <<tcp, beat>>
    BY <1>15 DEF SwitchEnd, hbVars, accept
  <2>2. /\ client' \in Session \cup {None} /\ server' \in BOOLEAN
        /\ pcL' \in {"idle", "lock", "ap", "apLeave", "apStart"} \cup LoopHolds
    BY <2>1
  <2> QED BY <2>1, <2>2 DEF TypeOK, tcp, beat
<1>16. CASE SwitchLeave
  <2>1. ClosedTcp(Session) /\ Session \in SUBSET Session
    BY <1>16 DEF SwitchLeave
  <2>2. /\ pcL' \in {"idle", "lock", "ap", "apLeave", "apStart"} \cup LoopHolds
        /\ joined' \in BOOLEAN
        /\ UNCHANGED <<up, client, mutex, sent, sendAge, hbVars, accept, beat,
                       apMode, server>>
    BY <1>16 DEF SwitchLeave
  <2>3. /\ conn' \in [Session -> {"free", "open", "closing"}]
        /\ buf' \in [Session -> Seq(Unit)]
        /\ \A s \in Session : Len(buf'[s]) <= SendBuf
        /\ phone' \in [Session -> [at : Unit, garbled : BOOLEAN]]
        /\ pong' \in [Session -> BOOLEAN]
        /\ cut' \in [Session -> BOOLEAN]
    BY <2>1, ClosedTcpType
  <2> QED BY <2>2, <2>3 DEF TypeOK, hbVars, accept, beat
<1>34. CASE SwitchStartAP
  BY <1>34 DEF SwitchStartAP, TypeOK, tcp, loopVars, hbVars, accept, beat,
     net, LoopHolds, HeartbeatHolds
<1>17. CASE UpdateEnter
  <2>1. /\ pcH' \in {"watch", "clear"} /\ hbAge' = 0
        /\ UNCHANGED <<up, client, tcp, mutex, loopVars, accept, beat, net>>
    BY <1>17 DEF UpdateEnter
  <2> QED BY <2>1 DEF TypeOK, tcp, loopVars, accept, beat, net
<1>18. CASE UpdateClear
  <2>1. pingAge' \in 0..Uptime
    BY <1>18 DEF UpdateClear
  <2>2. waiting' \in BOOLEAN /\ pingNeeded' \in BOOLEAN
    BY <1>18, Zenon DEF UpdateClear
  <2> QED BY <1>18, <2>1, <2>2 DEF UpdateClear, TypeOK, tcp, loopVars,
     hbVars, accept, beat, net, LoopHolds, HeartbeatHolds
<1>19. CASE UpdateDrop
  <2>1. waiting' \in BOOLEAN
    BY <1>19, Zenon DEF UpdateDrop
  <2>2. /\ pcH' = "idle"
        /\ UNCHANGED <<up, client, mutex, loopVars, hbAge, accept, pingAge,
                       pingNeeded, net>>
    BY <1>19 DEF UpdateDrop
  <2>3. CASE client # None
    <3>1. ClosedTcp({client}) /\ {client} \in SUBSET Session
      BY <1>19, <2>3 DEF UpdateDrop, TypeOK
    <3> QED BY <3>1, <2>1, <2>2, ClosedTcpType
            DEF TypeOK, tcp, loopVars, accept, net
  <2>4. CASE client = None
    <3>1. UNCHANGED tcp
      BY <1>19, <2>4 DEF UpdateDrop
    <3> QED BY <3>1, <2>1, <2>2 DEF TypeOK, tcp, loopVars, accept, net
  <2> QED BY <2>3, <2>4
<1>20. CASE UpdateWatch \/ UpdateNeeded \/ UpdateTake
  BY <1>20 DEF UpdateWatch, UpdateNeeded, UpdateTake, TypeOK, tcp, loopVars, hbVars, accept, beat,
     net, LoopHolds, HeartbeatHolds
<1>35. CASE UpdateLate
  BY <1>35 DEF UpdateLate, TypeOK, tcp, loopVars, hbVars, accept, beat,
     net, LoopHolds, HeartbeatHolds
<1>21. CASE UpdateDue
  <2>1. pingNeeded' \in BOOLEAN
    BY <1>21, Zenon DEF UpdateDue
  <2> QED BY <1>21, <2>1 DEF UpdateDue, TypeOK, tcp, loopVars, hbVars, accept, beat,
     net, LoopHolds, HeartbeatHolds
<1>22. CASE UpdatePingTest
  <2>1. pingNeeded' \in BOOLEAN
    BY <1>22, Zenon DEF UpdatePingTest, PingTest
  <2> QED BY <1>22, <2>1 DEF UpdatePingTest, TypeOK, tcp, loopVars, hbVars, accept, beat,
     net, LoopHolds, HeartbeatHolds
<1>36. CASE UpdatePingWrite
  BY <1>36, PingWriteType DEF UpdatePingWrite, TypeOK, tcp, loopVars, hbVars, accept, beat,
     net, LoopHolds, HeartbeatHolds
<1>23. CASE UpdatePingBook
  <2>1. pingAge' \in 0..Uptime
    BY <1>23 DEF UpdatePingBook, PingBook
  <2>2. waiting' \in BOOLEAN /\ pingNeeded' \in BOOLEAN
    BY <1>23, Zenon DEF UpdatePingBook, PingBook
  <2> QED BY <1>23, <2>1, <2>2 DEF UpdatePingBook, TypeOK, tcp, loopVars, hbVars, accept, beat,
     net, LoopHolds, HeartbeatHolds
<1>24. CASE UpdateGive
  BY <1>24 DEF UpdateGive, TypeOK, tcp, loopVars, hbVars, accept, beat,
     net, LoopHolds, HeartbeatHolds
<1>37. CASE UpdatePanic
  BY <1>37, BootType DEF UpdatePanic
<1>38. CASE AcceptCall
  BY <1>38 DEF AcceptCall, TypeOK, tcp, loopVars, hbVars, accept, beat,
     net, LoopHolds, HeartbeatHolds
<1>39. CASE Station
  <2>1. /\ joined' \in BOOLEAN
        /\ UNCHANGED <<up, client, tcp, mutex, loopVars, hbVars, accept, beat,
                       apMode, server>>
    BY <1>39 DEF Station, StationLost, StationBack
  <2> QED BY <2>1 DEF TypeOK, tcp, loopVars, hbVars, accept, beat
<1>25. CASE AcceptEnd
  <2>1. pingAge' \in 0..Uptime
    BY <1>25 DEF AcceptEnd
  <2>2. waiting' \in BOOLEAN /\ pingNeeded' \in BOOLEAN
    BY <1>25, Zenon DEF AcceptEnd
  <2>3. cut' \in [Session -> BOOLEAN]
    BY <1>25 DEF AcceptEnd, TypeOK
  <2> QED BY <1>25, <2>1, <2>2, <2>3 DEF AcceptEnd, TypeOK, tcp, loopVars,
     hbVars, accept, beat, net, LoopHolds, HeartbeatHolds
<1>26. ASSUME NEW s \in Session, AcceptBegin(s) PROVE TypeOK'
  BY <1>26, EmptySeq DEF AcceptBegin, TypeOK, tcp, loopVars, hbVars, beat,
     net, LoopHolds, HeartbeatHolds
<1>27. ASSUME NEW s \in Session, OnPong(s) PROVE TypeOK'
  <2>1. waiting' \in BOOLEAN
    BY <1>27, Zenon DEF OnPong
  <2>2. pong' \in [Session -> BOOLEAN]
    BY <1>27 DEF OnPong, TypeOK
  <2> QED BY <1>27, <2>1, <2>2 DEF OnPong, TypeOK, tcp, loopVars,
     hbVars, accept, beat, net, LoopHolds, HeartbeatHolds
<1>28. ASSUME NEW s \in Session, OnClose(s) PROVE TypeOK'
  <2>1. /\ ClosedTcp({s}) /\ {s} \in SUBSET Session
        /\ UNCHANGED <<up, client, mutex, loopVars, hbVars, accept, beat, net>>
    BY <1>28 DEF OnClose
  <2> QED BY <2>1, ClosedTcpType DEF TypeOK, loopVars, hbVars, accept, beat, net
<1>29. ASSUME NEW s \in Session, OnError(s) PROVE TypeOK'
  <2>1. /\ ClosedTcp({s}) /\ {s} \in SUBSET Session
        /\ client' \in Session \cup {None}
        /\ UNCHANGED <<up, mutex, loopVars, hbVars, accept, pingAge, pingNeeded, net>>
    BY <1>29 DEF OnError, Unlink, TypeOK
  <2>2. waiting' \in BOOLEAN
    BY <1>29, Zenon DEF OnError, Unlink
  <2> QED BY <2>1, <2>2, ClosedTcpType DEF TypeOK, loopVars, hbVars, accept, net
<1>30. ASSUME NEW s \in Session, OnDisconnect(s) PROVE TypeOK'
  BY <1>30 DEF OnDisconnect, TypeOK, tcp, loopVars, hbVars, accept, beat, net,
     LoopHolds, HeartbeatHolds, Unlink
<1>31. ASSUME NEW s \in Session, PhoneReads(s) PROVE TypeOK'
  <2> DEFINE u == Head(buf[s])
             t == Tail(buf[s])
  <2>1. u \in Unit /\ t \in Seq(Unit) /\ Len(t) <= SendBuf
    BY <1>31, HeadTailProperties, LenProperties DEF PhoneReads, TypeOK
  <2> DEFINE bad == phone[s].garbled \/ ~Follows(phone[s].at, u)
  <2>2. /\ buf' = [buf EXCEPT ![s] = t]
        /\ phone' = [phone EXCEPT ![s] = [at |-> u, garbled |-> bad]]
        /\ pong' = pong \/ pong' = [pong EXCEPT ![s] = TRUE]
    BY <1>31 DEF PhoneReads
  <2>3. bad \in BOOLEAN
    BY Zenon
  <2> HIDE DEF u, t, bad
  <2>4. buf' \in [Session -> Seq(Unit)] /\ \A x \in Session : Len(buf'[x]) <= SendBuf
    <3>1. \A x \in Session : buf'[x] = IF x = s THEN t ELSE buf[x]
      BY <2>2 DEF TypeOK
    <3> QED BY <2>1, <2>2, <3>1 DEF TypeOK
  <2>5. phone' \in [Session -> [at : Unit, garbled : BOOLEAN]]
    BY <2>1, <2>2, <2>3 DEF TypeOK
  <2>6. pong' \in [Session -> BOOLEAN]
    <3>1. CASE pong' = pong
      BY <3>1 DEF TypeOK
    <3>2. CASE pong' = [pong EXCEPT ![s] = TRUE]
      BY <3>2 DEF TypeOK
    <3> QED BY <2>2, <3>1, <3>2
  <2> QED BY <1>31, <2>4, <2>5, <2>6 DEF PhoneReads, TypeOK, tcp, loopVars,
     hbVars, accept, beat, net, LoopHolds, HeartbeatHolds
<1>32. CASE Tick
  BY <1>32 DEF Tick, TypeOK, tcp, loopVars, hbVars, accept, beat, net, LoopHolds,
     HeartbeatHolds, Older
<1>33. CASE Reboot
  BY <1>33 DEF Reboot, TypeOK, tcp, loopVars, hbVars, accept, beat, net, LoopHolds,
     HeartbeatHolds
<1> QED
  BY <1>1, <1>2, <1>3, <1>4, <1>5, <1>6, <1>7, <1>8, <1>9, <1>10, <1>11,
     <1>12, <1>13, <1>14, <1>15, <1>16, <1>17, <1>18, <1>19, <1>20, <1>21,
     <1>22, <1>23, <1>24, <1>25, <1>26, <1>27, <1>28, <1>29, <1>30, <1>31,
     <1>32, <1>33, <1>34, <1>35, <1>36, <1>37, <1>38, <1>39
     DEF Next, Send, SwitchToSoftAP, Update, AsyncTCP, Peer, Phone

-----------------------------------------------------------------------------
(* Mutual exclusion                                                        *)

LEMMA MutexStep ==
    ASSUME TypeOK, MutexHolder, Next PROVE MutexHolder'
<1> USE DEF MutexHolder, LoopHolds, HeartbeatHolds
<1>1. CASE SendEnter
  BY <1>1 DEF SendEnter, hbVars
<1>2. CASE SendLock
  BY <1>2 DEF SendLock, hbVars
<1>3. CASE SendPing
  BY <1>3 DEF SendPing, SendPingTest, SendPingWrite, SendPingBook, hbVars
<1>4. CASE SendEarly
  BY <1>4 DEF SendEarly, hbVars
<1>5. CASE SendNeeded \/ SendExit
  BY <1>5 DEF SendNeeded, SendExit, hbVars
<1>6. CASE SendChunk \/ SendAbort
  BY <1>6 DEF SendChunk, SendAbort, hbVars
<1>7. CASE SendPanic
  BY <1>7 DEF SendPanic, Boot
<1>8. CASE SendGive
  BY <1>8 DEF SendGive, hbVars
<1>9. CASE SwitchToSoftAP
  BY <1>9 DEF SwitchToSoftAP, SwitchClose, SwitchEnd, SwitchLeave,
     SwitchStartAP, hbVars
<1>10. CASE UpdateEnter \/ UpdateClear \/ UpdateWatch \/ UpdateLate \/ UpdateDrop
             \/ UpdateDue \/ UpdateNeeded
  BY <1>10 DEF UpdateEnter, UpdateClear, UpdateWatch, UpdateLate, UpdateDrop,
     UpdateDue, UpdateNeeded, loopVars
<1>14. CASE UpdateTake
  BY <1>14 DEF UpdateTake, loopVars, TypeOK
<1>15. CASE UpdatePingTest \/ UpdatePingWrite \/ UpdatePingBook \/ UpdateGive
  BY <1>15 DEF UpdatePingTest, UpdatePingWrite, UpdatePingBook, UpdateGive, loopVars
<1>16. CASE UpdatePanic
  BY <1>16 DEF UpdatePanic, Boot
<1>17. CASE Station
  BY <1>17 DEF Station, StationLost, StationBack, loopVars, hbVars
<1>11. CASE AsyncTCP \/ Peer \/ Phone
  BY <1>11 DEF AsyncTCP, Peer, Phone, AcceptBegin, AcceptCall, AcceptEnd, OnPong, OnClose,
     OnError, OnDisconnect, PhoneReads, loopVars, hbVars
<1>12. CASE Tick
  BY <1>12 DEF Tick
<1>13. CASE Reboot
  BY <1>13 DEF Reboot, loopVars, hbVars
<1> QED
  BY <1>1, <1>2, <1>3, <1>4, <1>5, <1>6, <1>7, <1>8, <1>9, <1>10, <1>11,
     <1>12, <1>13, <1>14, <1>15, <1>16, <1>17 DEF Next, Send, Update

-----------------------------------------------------------------------------
(* Stream integrity                                                        *)

(* Steps that leave the sockets, the client and the place of the writer.   *)
LEMMA StreamUnchanged ==
    ASSUME StreamInv, UNCHANGED <<client, conn, buf, phone, cut, pcT>>, WriterInv',
           MidFrame' => MidFrame /\ sent' = sent,
           MidFrame => MidFrame'
    PROVE  StreamInv'
BY DEF StreamInv, QuietInv, ChainInv

(* Connections that end; the pointer stays or is cleared.                  *)
LEMMA StreamClosed ==
    ASSUME TypeOK, StreamInv, NEW S \in SUBSET Session, ClosedTcp(S),
           client' = client \/ client' = None,
           UNCHANGED pcT, WriterInv',
           MidFrame' => MidFrame /\ sent' = sent,
           MidFrame => MidFrame'
    PROVE  StreamInv'
<1>1. \A s \in S : conn'[s] # "open" /\ buf'[s] = <<>> /\ phone'[s] = Fresh
  BY DEF ClosedTcp, TypeOK
<1>2. \A s \in Session \ S : conn'[s] = conn[s] /\ buf'[s] = buf[s] /\ phone'[s] = phone[s]
  BY DEF ClosedTcp, TypeOK
<1>3. QuietInv'
  BY <1>1, <1>2 DEF StreamInv, QuietInv
<1>4. ~Fresh.garbled /\ Chain(Fresh.at, <<>>)
  BY EmptySeq DEF Fresh, Chain
<1>5. ASSUME NEW s \in Session, ~cut'[s]
      PROVE  /\ ~phone'[s].garbled
             /\ Chain(phone'[s].at, buf'[s])
             /\ conn'[s] = "open" /\ s = client' =>
                  IF MidFrame'
                  THEN LastOf(phone'[s].at, buf'[s]) = [msg |-> "frame", idx |-> sent']
                  ELSE IsEnd(LastOf(phone'[s].at, buf'[s]))
  <2>1. CASE s \in S
    BY <2>1, <1>1, <1>4
  <2>2. CASE s \notin S
    <3>1. ~cut[s]
      BY <1>5 DEF ClosedTcp
    <3>2. s = client' => s = client
      BY NoneAssumption
    <3> QED BY <2>2, <1>2, <3>1, <3>2 DEF StreamInv, ChainInv
  <2> QED BY <2>1, <2>2
<1>6. ChainInv'
  BY <1>5 DEF ChainInv
<1> QED BY <1>3, <1>6 DEF StreamInv

(* A client's stream grows by n units from unit k of message m on: the     *)
(* writes of send() and sendPingNow().                                     *)
LEMMA StreamWritten ==
    ASSUME TypeOK, StreamInv, client \in Session, conn[client] = "open",
           NEW m \in {"frame", "ping"}, NEW k \in Nat, NEW n \in Nat \ {0}, k + n <= Size(m),
           ~cut[client] => IF k = 0 THEN ~MidFrame
                                    ELSE m = "frame" /\ MidFrame /\ k = sent,
           buf' = [buf EXCEPT ![client] = Extend(@, m, k, n)],
           UNCHANGED <<client, conn, phone, pcT>>,
           \A s \in Session : cut[s] => cut'[s],
           ~cut'[client] => IF MidFrame' THEN m = "frame" /\ sent' = k + n
                                         ELSE k + n = Size(m),
           WriterInv'
    PROVE  StreamInv'
<1> DEFINE e == Extend(buf[client], m, k, n)
<1>1. client # pcT
  BY NoneAssumption DEF StreamInv, WriterInv
<1>2. buf' = [buf EXCEPT ![client] = e]
  OBVIOUS
<1> HIDE DEF e
<1>3. \A s \in Session : buf'[s] = IF s = client THEN e ELSE buf[s]
  BY <1>2 DEF TypeOK
<1>4. QuietInv'
  BY <1>1, <1>3 DEF StreamInv, QuietInv
<1>5. ASSUME NEW s \in Session, ~cut'[s]
      PROVE  /\ ~phone'[s].garbled
             /\ Chain(phone'[s].at, buf'[s])
             /\ conn'[s] = "open" /\ s = client' =>
                  IF MidFrame'
                  THEN LastOf(phone'[s].at, buf'[s]) = [msg |-> "frame", idx |-> sent']
                  ELSE IsEnd(LastOf(phone'[s].at, buf'[s]))
  <2>1. ~cut[s]
    BY <1>5
  <2>2. CASE s # client
    BY <2>1, <2>2, <1>3 DEF StreamInv, ChainInv
  <2>3. CASE s = client
    <3>1. /\ phone[s].at \in Unit /\ buf[s] \in Seq(Unit)
          /\ ~phone[s].garbled /\ Chain(phone[s].at, buf[s])
      BY <2>1 DEF StreamInv, ChainInv, TypeOK
    <3>2. IF k = 0 THEN IsEnd(LastOf(phone[s].at, buf[s]))
                   ELSE LastOf(phone[s].at, buf[s]) = [msg |-> m, idx |-> k]
      BY <2>1, <2>3 DEF StreamInv, ChainInv
    <3>3. /\ Chain(phone[s].at, e)
          /\ LastOf(phone[s].at, e) = [msg |-> m, idx |-> k + n]
      <4>1. e = Extend(buf[s], m, k, n)
        BY <2>3 DEF e
      <4> QED BY <4>1, <3>1, <3>2, ExtendChain
    <3>4. buf'[s] = e /\ phone' = phone
      BY <1>3, <2>3
    <3>5. ~MidFrame' => IsEnd(LastOf(phone[s].at, e))
      BY <3>3, <1>5, <2>3 DEF IsEnd
    <3>6. MidFrame' => LastOf(phone[s].at, e) = [msg |-> "frame", idx |-> sent']
      BY <3>3, <1>5, <2>3
    <3> QED BY <3>1, <3>3, <3>4, <3>5, <3>6
  <2> QED BY <2>2, <2>3
<1>6. ChainInv'
  BY <1>5 DEF ChainInv
<1> QED BY <1>4, <1>6 DEF StreamInv

(* sendPingNow() by a task that holds the mutex outside the write loop.    *)
LEMMA StreamPinged ==
    ASSUME TypeOK, StreamInv, PingWrite, ~MidFrame, ~MidFrame',
           UNCHANGED <<client, conn, phone, pcT>>, WriterInv'
    PROVE  StreamInv'
<1>1. CASE conn[client] = "open"
  <2> DEFINE n == Least(PingLen, Space(client))
  <2>1. client \in Session /\ conn[client] = "open" /\ buf[client] \in Seq(Unit)
    BY <1>1 DEF PingWrite, TypeOK
  <2>2. n \in Nat /\ n <= PingLen
    <3>1. Space(client) \in Nat
      <4>1. Len(buf[client]) \in Nat /\ Len(buf[client]) <= SendBuf
        BY <2>1 DEF TypeOK
      <4> QED BY <2>1, <4>1 DEF Space
    <3> QED BY <3>1, LeastType
  <2>3. /\ buf' = [buf EXCEPT ![client] = Extend(@, "ping", 0, n)]
        /\ cut' = [cut EXCEPT ![client] = @ \/ (0 < n /\ n < PingLen)]
    BY DEF PingWrite
  <2> HIDE DEF n
  <2>4. CASE n = 0
    <3>1. Extend(buf[client], "ping", 0, 0) = buf[client]
      BY <2>1, ExtendByNothing
    <3>2. buf' = buf /\ cut' = cut
      BY <3>1, <2>1, <2>3, <2>4 DEF TypeOK
    <3> QED BY <3>2, StreamUnchanged
  <2>5. CASE n # 0
    <3>1. \A s \in Session : cut[s] => cut'[s]
      BY <2>1, <2>3 DEF TypeOK
    <3>2. ~cut'[client] => 0 + n = Size("ping")
      <4>1. cut'[client] = (cut[client] \/ (0 < n /\ n < PingLen))
        BY <2>1, <2>3 DEF TypeOK
      <4>2. ~cut'[client] => ~(0 < n /\ n < PingLen)
        BY <4>1, Zenon
      <4> QED BY <4>2, <2>2, <2>5 DEF Size
    <3>3. n \in Nat \ {0} /\ 0 + n <= Size("ping")
      BY <2>2, <2>5 DEF Size
    <3> QED BY <2>1, <2>3, <3>1, <3>2, <3>3, StreamWritten
  <2> QED BY <2>4, <2>5
<1>2. CASE conn[client] # "open"
  <2>1. client \in Session /\ buf[client] \in Seq(Unit)
    BY DEF PingWrite, TypeOK
  <2>2. Least(PingLen, Space(client)) = 0
    BY <1>2 DEF Space, Least
  <2>3. Extend(buf[client], "ping", 0, 0) = buf[client]
    BY <2>1, ExtendByNothing
  <2>4. /\ buf' = [buf EXCEPT ![client] = Extend(@, "ping", 0, 0)]
        /\ cut' = [cut EXCEPT ![client] = @ \/ (0 < 0 /\ 0 < PingLen)]
    BY <2>2 DEF PingWrite
  <2>5. buf' = buf /\ cut' = cut
    BY <2>1, <2>3, <2>4 DEF TypeOK
  <2> QED BY <2>5, StreamUnchanged
<1> QED BY <1>1, <1>2

(* A fresh session, and all sessions after a boot, hold one empty chain.   *)
LEMMA FreshChain == ~Fresh.garbled /\ Chain(Fresh.at, <<>>) /\ IsEnd(LastOf(Fresh.at, <<>>))
BY BoundaryType, EmptySeq DEF Fresh, Chain, LastOf

LEMMA InitStream == Init => StreamInv
BY FreshChain DEF Init, StreamInv, WriterInv, QuietInv, ChainInv, MidFrame

LEMMA StreamStep ==
    ASSUME TypeOK, MutexHolder, StreamInv, Next PROVE StreamInv'
<1> USE DEF MidFrame, WriterInv, tcp, loopVars, hbVars, accept
<1>0. WriterInv /\ sent \in 0..FrameLen
  BY DEF StreamInv, TypeOK
<1>1. CASE SendEnter \/ SendLock \/ SendEarly \/ SendNeeded \/ SendExit
  BY <1>0, <1>1, StreamUnchanged
     DEF SendEnter, SendLock, SendEarly, SendNeeded, SendExit
<1>2. ASSUME NEW at \in LoopHolds \ {"write"}, NEW next \in LoopHolds,
             SendPingWrite(at, next), sent > 0 => next = "exitBook", next # "write"
      PROVE  StreamInv'
  <2>1. ~MidFrame /\ ~MidFrame' /\ WriterInv'
    BY <1>0, <1>2 DEF SendPingWrite
  <2> QED BY <1>2, <2>1, StreamPinged DEF SendPingWrite
<1>3. CASE SendPing
  <2>1. CASE SendPingWrite("earlyPut", "earlyBook")
             \/ SendPingWrite("neededPut", "neededBook")
             \/ SendPingWrite("exitPut", "exitBook")
    BY <1>0, <1>2, <2>1 DEF SendPingWrite, LoopHolds
  <2>2. CASE SendPingTest("earlyTest", "earlyPut", "needed")
             \/ SendPingTest("neededTest", "neededPut", "write")
             \/ SendPingTest("exitTest", "exitPut", "give")
    BY <1>0, <2>2, StreamUnchanged DEF SendPingTest
  <2>3. CASE SendPingBook("earlyBook", "needed") \/ SendPingBook("neededBook", "write")
             \/ SendPingBook("exitBook", "give")
    BY <1>0, <2>3, StreamUnchanged DEF SendPingBook
  <2> QED BY <1>3, <2>1, <2>2, <2>3 DEF SendPing
<1>4. CASE SendChunk
  <2>1. PICK n \in 1..Least(Space(client), FrameLen - sent) :
          /\ buf' = [buf EXCEPT ![client] = Extend(@, "frame", sent, n)]
          /\ sent' = sent + n
    BY <1>4 DEF SendChunk
  <2>2. client \in Session /\ pcL = "write" /\ sent < FrameLen
    BY <1>0, <1>4 DEF SendChunk, TypeOK
  <2>3. n \in Nat \ {0} /\ sent + n <= FrameLen /\ n <= Space(client)
    BY <1>0, <2>1, <2>2 DEF TypeOK, Space, Least
  <2>4. conn[client] = "open"
    BY <2>3 DEF Space
  <2>5. sent + n <= Size("frame") /\ sent \in Nat
    BY <1>0, <2>3 DEF Size
  <2>6. IF MidFrame' THEN sent' = sent + n ELSE sent + n = Size("frame")
    BY <1>4, <2>1, <2>3, <1>0 DEF SendChunk, Size
  <2>7. WriterInv'
    BY <1>0, <1>4, <2>1, <2>3 DEF SendChunk
  <2>8. UNCHANGED <<client, conn, phone, pcT, cut>>
    BY <1>4 DEF SendChunk
  <2>9. IF sent = 0 THEN ~MidFrame ELSE MidFrame
    BY <1>0, <2>2
  <2> HIDE DEF MidFrame, WriterInv
  <2> QED BY <2>1, <2>2, <2>3, <2>4, <2>5, <2>6, <2>7, <2>8, <2>9, StreamWritten
<1>5. CASE SendAbort
  <2>1. /\ client \in Session /\ pcL' = "exit" /\ sent' = sent
        /\ cut' = [cut EXCEPT ![client] = @ \/ sent > 0]
        /\ UNCHANGED <<client, conn, buf, phone, pcT>>
    BY <1>5 DEF SendAbort, TypeOK
  <2>2. \A s \in Session : cut'[s] = IF s = client THEN cut[s] \/ sent > 0 ELSE cut[s]
    BY <2>1 DEF TypeOK
  <2>3. WriterInv' /\ QuietInv'
    BY <1>0, <2>1 DEF StreamInv, QuietInv
  <2>4. ASSUME NEW s \in Session, ~cut'[s]
        PROVE  /\ ~cut[s]
               /\ s = client => ~MidFrame
    BY <2>2, <2>4
  <2>5. ChainInv'
    BY <2>1, <2>4 DEF StreamInv, ChainInv
  <2> QED BY <2>3, <2>5 DEF StreamInv
<1>6. CASE SendPanic \/ UpdatePanic
  BY <1>6, FreshChain DEF SendPanic, UpdatePanic, Boot, StreamInv, QuietInv, ChainInv
<1>7. CASE SendGive
  BY <1>0, <1>7, StreamUnchanged DEF SendGive
<1>8. CASE SwitchClose
  <2>1. WriterInv' /\ ~MidFrame /\ ~MidFrame' /\ UNCHANGED <<client, pcT>>
    BY <1>0, <1>8 DEF SwitchClose
  <2>2. CASE client # None
    <3>1. ClosedTcp({client}) /\ {client} \in SUBSET Session
      BY <1>8, <2>2 DEF SwitchClose, TypeOK
    <3> QED BY <2>1, <3>1, StreamClosed
  <2>3. CASE client = None
    BY <1>8, <2>1, <2>3, StreamUnchanged DEF SwitchClose
  <2> QED BY <2>2, <2>3
<1>9. CASE SwitchEnd
  BY <1>0, <1>9 DEF SwitchEnd, StreamInv, QuietInv, ChainInv
<1>10. CASE SwitchLeave
  <2>1. WriterInv' /\ ~MidFrame /\ ~MidFrame' /\ UNCHANGED <<client, pcT>> /\ ClosedTcp(Session)
    BY <1>0, <1>10 DEF SwitchLeave
  <2> QED BY <2>1, StreamClosed
<1>22. CASE SwitchStartAP
  BY <1>0, <1>22, StreamUnchanged DEF SwitchStartAP
<1>11. CASE UpdateEnter \/ UpdateClear \/ UpdateWatch \/ UpdateLate \/ UpdateDue
             \/ UpdateNeeded
  BY <1>0, <1>11, StreamUnchanged
     DEF UpdateEnter, UpdateClear, UpdateWatch, UpdateLate, UpdateDue, UpdateNeeded
<1>23. CASE UpdateTake \/ UpdatePingTest \/ UpdatePingBook \/ UpdateGive
  BY <1>0, <1>23, StreamUnchanged
     DEF UpdateTake, UpdatePingTest, UpdatePingBook, UpdateGive
<1>24. CASE AcceptCall
  BY <1>0, <1>24, StreamUnchanged DEF AcceptCall
<1>25. CASE Station
  BY <1>0, <1>25, StreamUnchanged DEF Station, StationLost, StationBack
<1>12. CASE UpdateDrop
  <2>1. WriterInv' /\ UNCHANGED <<client, pcT, pcL, sent>>
    BY <1>0, <1>12 DEF UpdateDrop
  <2>2. CASE client # None
    <3>1. ClosedTcp({client}) /\ {client} \in SUBSET Session
      BY <1>12, <2>2 DEF UpdateDrop, TypeOK
    <3> QED BY <2>1, <3>1, StreamClosed
  <2>3. CASE client = None
    BY <1>12, <2>1, <2>3, StreamUnchanged DEF UpdateDrop
  <2> QED BY <2>2, <2>3
<1>13. CASE UpdatePingWrite
  <2>1. mutex = "heartbeat" /\ pcL # "write"
    BY <1>13 DEF UpdatePingWrite, MutexHolder, HeartbeatHolds, LoopHolds
  <2> QED BY <1>0, <1>13, <2>1, StreamPinged DEF UpdatePingWrite
<1>14. CASE AcceptEnd
  <2>1. /\ pcT \in Session /\ client' = pcT /\ pcT' = None
        /\ cut' = [cut EXCEPT ![pcT] = pcL = "write" /\ 0 < sent /\ sent < FrameLen]
        /\ UNCHANGED <<conn, buf, phone, pcL, sent>>
    BY <1>14 DEF AcceptEnd, TypeOK
  <2>2. \A s \in Session : cut'[s] = IF s = pcT THEN (pcL = "write" /\ 0 < sent /\ sent < FrameLen)
                                               ELSE cut[s]
    BY <2>1 DEF TypeOK
  <2>3. WriterInv' /\ QuietInv'
    BY <1>0, <2>1, NoneAssumption DEF StreamInv, QuietInv
  <2>4. ASSUME NEW s \in Session, ~cut'[s]
        PROVE  /\ ~phone'[s].garbled
               /\ Chain(phone'[s].at, buf'[s])
               /\ conn'[s] = "open" /\ s = client' =>
                    IF MidFrame'
                    THEN LastOf(phone'[s].at, buf'[s]) = [msg |-> "frame", idx |-> sent']
                    ELSE IsEnd(LastOf(phone'[s].at, buf'[s]))
    <3>1. CASE s = pcT
      <4>1. buf[s] = <<>> /\ phone[s] = Fresh
        BY <3>1 DEF StreamInv, QuietInv
      <4>2. ~MidFrame'
        BY <1>0, <2>1, <2>2, <2>4, <3>1
      <4> QED BY <4>1, <4>2, <2>1, FreshChain
    <3>2. CASE s # pcT
      BY <2>1, <2>2, <2>4, <3>2 DEF StreamInv, ChainInv
    <3> QED BY <3>1, <3>2
  <2>5. ChainInv'
    BY <2>4 DEF ChainInv
  <2> QED BY <2>3, <2>5 DEF StreamInv
<1>15. ASSUME NEW s \in Session, AcceptBegin(s) PROVE StreamInv'
  <2>1. /\ pcT' = s /\ client' = None
        /\ \A x \in Session : x \in {s, client} => buf'[x] = <<>> /\ phone'[x] = Fresh
        /\ \A x \in Session : x \notin {s, client} =>
              conn'[x] = conn[x] /\ buf'[x] = buf[x] /\ phone'[x] = phone[x]
        /\ UNCHANGED <<cut, pcL, sent>>
    BY <1>15 DEF AcceptBegin
  <2>2. WriterInv'
    BY <1>0, <2>1
  <2>3. QuietInv'
    <3>1. pcT = None
      BY <1>15 DEF AcceptBegin
    <3> QED BY <2>1, <3>1 DEF StreamInv, QuietInv
  <2>4. ChainInv'
    BY <2>1, FreshChain, NoneAssumption DEF StreamInv, ChainInv
  <2> QED BY <2>2, <2>3, <2>4 DEF StreamInv
<1>16. ASSUME NEW s \in Session, OnPong(s) PROVE StreamInv'
  BY <1>0, <1>16, StreamUnchanged DEF OnPong
<1>17. ASSUME NEW s \in Session, OnClose(s) \/ OnError(s) PROVE StreamInv'
  <2>1. /\ WriterInv' /\ UNCHANGED <<pcT, pcL, sent>>
        /\ ClosedTcp({s}) /\ {s} \in SUBSET Session
        /\ client' = client \/ client' = None
    BY <1>0, <1>17 DEF OnClose, OnError, Unlink
  <2> QED BY <2>1, StreamClosed
<1>18. ASSUME NEW s \in Session, OnDisconnect(s) PROVE StreamInv'
  <2>1. /\ conn[s] = "closing" /\ conn' = [conn EXCEPT ![s] = "free"]
        /\ cut' = [cut EXCEPT ![s] = FALSE]
        /\ client' = IF client = s THEN None ELSE client
        /\ UNCHANGED <<buf, phone, pcT, pcL, sent>>
    BY <1>18 DEF OnDisconnect, Unlink
  <2>2. WriterInv'
    BY <1>0, <2>1
  <2>3. buf[s] = <<>> /\ phone[s] = Fresh
    BY <2>1 DEF StreamInv, QuietInv
  <2>4. QuietInv'
    BY <2>1, <2>3 DEF StreamInv, QuietInv, TypeOK
  <2>5. \A x \in Session : /\ cut'[x] = IF x = s THEN FALSE ELSE cut[x]
                           /\ conn'[x] = IF x = s THEN "free" ELSE conn[x]
    BY <2>1 DEF TypeOK
  <2>6. \A x \in Session : x = client' => x = client
    BY <2>1, NoneAssumption
  <2>7. ChainInv'
    BY <2>1, <2>3, <2>5, <2>6, FreshChain DEF StreamInv, ChainInv
  <2> QED BY <2>2, <2>4, <2>7 DEF StreamInv
<1>19. ASSUME NEW s \in Session, PhoneReads(s) PROVE StreamInv'
  <2> DEFINE u == Head(buf[s])
             t == Tail(buf[s])
             bad == phone[s].garbled \/ ~Follows(phone[s].at, u)
  <2>1. /\ buf[s] \in Seq(Unit) /\ buf[s] # <<>> /\ conn[s] = "open"
        /\ phone[s].at \in Unit
    BY <1>19 DEF PhoneReads, TypeOK
  <2>2. /\ buf' = [buf EXCEPT ![s] = t]
        /\ phone' = [phone EXCEPT ![s] = [at |-> u, garbled |-> bad]]
        /\ UNCHANGED <<client, conn, cut, pcT, pcL, sent>>
    BY <1>19 DEF PhoneReads
  <2>3. ~cut[s] => /\ Follows(phone[s].at, u) /\ Chain(u, t)
                   /\ LastOf(u, t) = LastOf(phone[s].at, buf[s])
    BY <2>1, TailChain DEF StreamInv, ChainInv
  <2>4. ~cut[s] => ~bad
    BY <2>3 DEF StreamInv, ChainInv
  <2> HIDE DEF u, t, bad
  <2>5. \A x \in Session : /\ buf'[x] = IF x = s THEN t ELSE buf[x]
                           /\ phone'[x] = IF x = s THEN [at |-> u, garbled |-> bad]
                                                   ELSE phone[x]
    BY <2>2 DEF TypeOK
  <2>6. WriterInv'
    BY <1>0, <2>2
  <2>7. s # pcT
    BY <2>1 DEF StreamInv, QuietInv
  <2>8. QuietInv'
    BY <2>1, <2>2, <2>5, <2>7 DEF StreamInv, QuietInv
  <2>9. ChainInv'
    BY <2>2, <2>3, <2>4, <2>5 DEF StreamInv, ChainInv
  <2> QED BY <2>6, <2>8, <2>9 DEF StreamInv
<1>20. CASE Tick
  BY <1>0, <1>20, StreamUnchanged DEF Tick
<1>21. CASE Reboot
  BY <1>0, <1>21, StreamUnchanged DEF Reboot
<1> QED
  BY <1>1, <1>2, <1>3, <1>4, <1>5, <1>6, <1>7, <1>8, <1>9, <1>10, <1>11,
     <1>12, <1>13, <1>14, <1>15, <1>16, <1>17, <1>18, <1>19, <1>20, <1>21, <1>22, <1>23,
     <1>24, <1>25
     DEF Next, Send, SwitchToSoftAP, Update, AsyncTCP, Peer, Phone

-----------------------------------------------------------------------------
(* The theorems                                                            *)

(* Every variable of the manager keeps its type, the socket's window       *)
(* included, whatever the tasks and callbacks interleave to.               *)
THEOREM TypeCorrect == Spec => []TypeOK
<1>1. Init => TypeOK
  BY InitType
<1>2. TypeOK /\ [Next]_vars => TypeOK'
  <2> SUFFICES ASSUME TypeOK, [Next]_vars PROVE TypeOK'
    OBVIOUS
  <2>1. CASE Next
    BY <2>1, TypeStep
  <2>2. CASE UNCHANGED vars
    BY <2>2 DEF vars, tcp, loopVars, hbVars, accept, beat, net, TypeOK
  <2> QED BY <2>1, <2>2
<1> QED BY <1>1, <1>2, PTL DEF Spec

(* _writeMutex excludes send() and update() from each other.               *)
THEOREM MutualExclusion == Spec => []MutexHolder
<1>1. Init => MutexHolder
  BY DEF Init, MutexHolder, LoopHolds, HeartbeatHolds
<1>2. TypeOK /\ MutexHolder /\ [Next]_vars => MutexHolder'
  <2> SUFFICES ASSUME TypeOK, MutexHolder, [Next]_vars PROVE MutexHolder'
    OBVIOUS
  <2>1. CASE Next
    BY <2>1, MutexStep
  <2>2. CASE UNCHANGED vars
    BY <2>2 DEF vars, loopVars, hbVars, MutexHolder
  <2> QED BY <2>1, <2>2
<1> QED BY <1>1, <1>2, TypeCorrect, PTL DEF Spec

(* What the device writes to a session it does not cut short is one chain  *)
(* of whole messages, up to the unit the writer has reached.               *)
THEOREM StreamIntegrity == Spec => []StreamInv
<1>1. Init => StreamInv
  BY InitStream
<1>2. TypeOK /\ MutexHolder /\ StreamInv /\ [Next]_vars => StreamInv'
  <2> SUFFICES ASSUME TypeOK, MutexHolder, StreamInv, [Next]_vars PROVE StreamInv'
    OBVIOUS
  <2>1. CASE Next
    BY <2>1, StreamStep
  <2>2. CASE UNCHANGED vars
    BY <2>2 DEF vars, tcp, loopVars, accept, StreamInv, WriterInv, QuietInv, ChainInv, MidFrame
  <2> QED BY <2>1, <2>2
<1> QED BY <1>1, <1>2, TypeCorrect, MutualExclusion, PTL DEF Spec

(* No phone ever sees a frame and a ping mixed, or a message out of place, *)
(* on a session that send() or a short ping write did not cut.             *)
THEOREM FramesStayIntact == Spec => []FramesIntact
<1>1. StreamInv => FramesIntact
  BY DEF StreamInv, ChainInv, FramesIntact
<1> QED BY <1>1, StreamIntegrity, PTL

(* Who else may change a session: closing ends it, and whoever lets go of  *)
(* the client has closed it, or is about to close all.                     *)
LEMMA OrphanStep ==
    ASSUME TypeOK, WriterInv, NoOrphanSession, Next PROVE NoOrphanSession'
<1> USE DEF NoOrphanSession
<1>1. CASE SendEnter \/ SendLock \/ SendEarly \/ SendNeeded \/ SendExit
  BY <1>1 DEF SendEnter, SendLock, SendEarly, SendNeeded, SendExit, tcp, accept
<1>2. CASE SendPing
  BY <1>2 DEF SendPing, SendPingTest, SendPingWrite, SendPingBook, tcp, accept
<1>4. CASE SendChunk \/ SendAbort
  BY <1>4 DEF SendChunk, SendAbort, accept
<1>5. CASE SendPanic \/ UpdatePanic
  BY <1>5 DEF SendPanic, UpdatePanic, Boot
<1>6. CASE SendGive
  BY <1>6 DEF SendGive, tcp, accept
<1>7. CASE SwitchClose
  BY <1>7 DEF SwitchClose, ClosedTcp, tcp, accept
<1>8. CASE SwitchEnd
  BY <1>8 DEF SwitchEnd, tcp, accept
<1>9. CASE SwitchLeave
  BY <1>9 DEF SwitchLeave, ClosedTcp
<1>19. CASE SwitchStartAP
  BY <1>19 DEF SwitchStartAP, tcp, accept
<1>10. CASE UpdateEnter \/ UpdateClear \/ UpdateWatch \/ UpdateLate \/ UpdateDue
             \/ UpdateNeeded
  BY <1>10 DEF UpdateEnter, UpdateClear, UpdateWatch, UpdateLate, UpdateDue,
     UpdateNeeded, tcp, loopVars, accept
<1>11. CASE UpdateTake \/ UpdatePingTest \/ UpdatePingWrite \/ UpdatePingBook
             \/ UpdateGive
  BY <1>11 DEF UpdateTake, UpdatePingTest, UpdatePingWrite, UpdatePingBook,
     UpdateGive, tcp, loopVars, accept
<1>20. CASE Station \/ AcceptCall
  BY <1>20 DEF Station, StationLost, StationBack, AcceptCall, tcp, loopVars, accept
<1>12. CASE UpdateDrop
  BY <1>12 DEF UpdateDrop, ClosedTcp, tcp, loopVars, accept
<1>13. ASSUME NEW s \in Session, AcceptBegin(s) PROVE NoOrphanSession'
  BY <1>13 DEF AcceptBegin, loopVars
<1>14. CASE AcceptEnd
  BY <1>14 DEF AcceptEnd, WriterInv, loopVars
<1>15. ASSUME NEW s \in Session, OnDisconnect(s) PROVE NoOrphanSession'
  BY <1>15 DEF OnDisconnect, Unlink, TypeOK, loopVars, accept
<1>16. ASSUME NEW s \in Session, OnClose(s) \/ OnError(s) PROVE NoOrphanSession'
  BY <1>16 DEF OnClose, OnError, Unlink, ClosedTcp, loopVars, accept
<1>17. ASSUME NEW s \in Session, OnPong(s) \/ PhoneReads(s)
       PROVE  NoOrphanSession'
  BY <1>17 DEF OnPong, PhoneReads, loopVars, accept
<1>18. CASE Tick \/ Reboot
  BY <1>18 DEF Tick, Reboot, tcp, loopVars, accept
<1> QED
  BY <1>1, <1>2, <1>4, <1>5, <1>6, <1>7, <1>8, <1>9, <1>10, <1>11,
     <1>12, <1>13, <1>14, <1>15, <1>16, <1>17, <1>18, <1>19,
     <1>20
     DEF Next, Send, SwitchToSoftAP, Update, AsyncTCP, Peer, Phone

(* An open session is the client, the one being installed, or ends with    *)
(* the switch to SoftAP under way: the manager never forgets one.          *)
THEOREM NoSessionForgotten == Spec => []NoOrphanSession
<1>1. Init => NoOrphanSession
  BY DEF Init, NoOrphanSession
<1>2. TypeOK /\ StreamInv /\ NoOrphanSession /\ [Next]_vars => NoOrphanSession'
  <2> SUFFICES ASSUME TypeOK, StreamInv, NoOrphanSession, [Next]_vars
               PROVE  NoOrphanSession'
    OBVIOUS
  <2>1. CASE Next
    BY <2>1, OrphanStep DEF StreamInv
  <2>2. CASE UNCHANGED vars
    BY <2>2 DEF vars, tcp, loopVars, accept, NoOrphanSession
  <2> QED BY <2>1, <2>2
<1> QED BY <1>1, <1>2, TypeCorrect, StreamIntegrity, PTL DEF Spec

=============================================================================
