----------------------------- MODULE BleManager -----------------------------
(***************************************************************************)
(* The transmit path of the BLE manager (src/ble/BLEManager.cpp).          *)
(*                                                                         *)
(*   - loop task  : sendBytes() puts a batch into the stream buffer        *)
(*   - ble_drain  : runDrainLoop() sends it chunk by chunk, one at a time, *)
(*                  keeping a chunk until its onStatus reports success     *)
(*   - NimBLE task: the connect, disconnect, subscribe, onStatus callbacks *)
(*                                                                         *)
(* A session lasts from one subscription of the phone to the next.  Bytes  *)
(* are units numbered within the session in which sendBytes() was called,  *)
(* so that what reaches the phone tells lost units and old ones apart.     *)
(***************************************************************************)
EXTENDS Integers, Sequences

CONSTANTS
    StreamCap,      \* units the stream buffer holds (TX_STREAM_BUF_SIZE)
    BatchMax,       \* units of the largest batch handed to sendBytes()
    ChunkMax,       \* units of the largest notification (effectiveChunkSize)
    MaxUnits,       \* bound: units sent within a session
    MaxSession,     \* bound: sessions
    MaxFaults       \* bound: refusals, errors, late statuses in a session

ASSUME SizeAssumption == /\ StreamCap \in Nat \ {0}
                         /\ BatchMax \in 1..StreamCap
                         /\ ChunkMax \in Nat \ {0}
                         /\ MaxUnits \in Nat
                         /\ MaxSession \in Nat
                         /\ MaxFaults \in Nat

VARIABLES
    connected,      \* _connected
    subscribed,     \* _notifySubscribed
    txDone,         \* _txDone, a binary semaphore
    stream,         \* _txStream
    lastStatus,     \* _lastStatusCode, 0 ("ok") or not ("error")
    pcP, batch,     \* sendBytes(): place, units still to be put
    pcD, pending,   \* runDrainLoop(): place, chunk[0..pendingN)
    pcN,            \* what the NimBLE callback in progress has still to do
    inflight,       \* chunks notify() accepted whose onStatus is due
    session,        \* subscriptions so far
    numbered,       \* units handed to sendBytes() in this session
    got, gap,       \* the phone saw unit got of this session; it missed one
    faults,         \* refusals, errors and late statuses in this session
    slipped         \* history: in this session a wait ended though its chunk
                    \* had no status yet

flags == <<connected, subscribed>>
producer == <<pcP, batch, numbered>>
drain == <<pcD, pending>>
phone == <<got, gap>>
vars == <<flags, txDone, stream, lastStatus, producer, drain, pcN, inflight,
          session, phone, faults, slipped>>

-----------------------------------------------------------------------------

Units == [ses : 0..MaxSession, n : 1..MaxUnits]

CanSend == connected /\ subscribed

Init ==
    /\ connected = FALSE /\ subscribed = FALSE
    /\ txDone = 0
    /\ stream = <<>>
    /\ lastStatus = "ok"
    /\ pcP = "idle" /\ batch = <<>> /\ numbered = 0
    /\ pcD = "take" /\ pending = <<>>
    /\ pcN = "idle"
    /\ inflight = <<>>
    /\ session = 0
    /\ got = 0 /\ gap = FALSE
    /\ faults = 0
    /\ slipped = FALSE

-----------------------------------------------------------------------------
(* sendBytes(), called by the loop task.                                   *)

SendEnter(k) ==
    /\ pcP = "idle" /\ CanSend /\ numbered + k <= MaxUnits
    /\ batch' = [j \in 1..k |-> [ses |-> session, n |-> numbered + j]]
    /\ numbered' = numbered + k
    /\ pcP' = "check"
    /\ UNCHANGED <<flags, txDone, stream, lastStatus, drain, pcN, inflight,
                   session, phone, faults, slipped>>

(* the canSend() test of the write loop *)
SendCheck ==
    /\ pcP = "check"
    /\ IF CanSend THEN pcP' = "put" /\ UNCHANGED batch
                  ELSE pcP' = "idle" /\ batch' = <<>>
    /\ UNCHANGED <<flags, txDone, stream, lastStatus, numbered, drain, pcN,
                   inflight, session, phone, faults, slipped>>

(* Fault: the write does not wait for room. *)
FitsUnchecked == pcP = "put"

(* xStreamBufferSend() with portMAX_DELAY blocks until the batch fits *)
Fits == Len(stream) + Len(batch) <= StreamCap

SendPut ==
    /\ pcP = "put" /\ Fits
    /\ stream' = stream \o batch
    /\ pcP' = "idle" /\ batch' = <<>>
    /\ UNCHANGED <<flags, txDone, lastStatus, numbered, drain, pcN, inflight,
                   session, phone, faults, slipped>>

Producer == SendCheck \/ SendPut

-----------------------------------------------------------------------------
(* runDrainLoop()                                                          *)

DrainTake ==
    /\ pcD = "take" /\ txDone = 1
    /\ txDone' = 0 /\ pcD' = "ready"
    /\ UNCHANGED <<flags, stream, lastStatus, producer, pending, pcN, inflight,
                   session, phone, faults, slipped>>

(* give the semaphore back and start over *)
GiveBack == txDone' = 1 /\ pcD' = "take"

(* not connected: any pending retry is discarded *)
DrainDiscard ==
    /\ pcD \in {"ready", "gate"} /\ ~CanSend
    /\ pending' = <<>>
    /\ GiveBack
    /\ UNCHANGED <<flags, stream, lastStatus, producer, pcN, inflight, session,
                   phone, faults, slipped>>

DrainReady ==
    /\ pcD = "ready" /\ CanSend
    /\ pcD' = IF pending = <<>> THEN "receive" ELSE "gate"
    /\ UNCHANGED <<flags, txDone, stream, lastStatus, producer, pending, pcN,
                   inflight, session, phone, faults, slipped>>

(* xStreamBufferReceive(): what is there, up to the chunk size of the MTU *)
DrainReceive ==
    /\ pcD = "receive" /\ stream # <<>>
    /\ \E size \in 1..ChunkMax :
         LET k == IF size < Len(stream) THEN size ELSE Len(stream) IN
         /\ pending' = SubSeq(stream, 1, k)
         /\ stream' = SubSeq(stream, k + 1, Len(stream))
    /\ pcD' = "gate"
    /\ UNCHANGED <<flags, txDone, lastStatus, producer, pcN, inflight, session,
                   phone, faults, slipped>>

(* Fault: the semaphore is not given back. *)
DrainIdleKeeps ==
    /\ pcD = "receive" /\ stream = <<>>
    /\ pcD' = "take"
    /\ UNCHANGED <<flags, txDone, stream, lastStatus, producer, pending, pcN,
                   inflight, session, phone, faults, slipped>>

(* nothing within 5 ms *)
DrainIdle ==
    /\ pcD = "receive" /\ stream = <<>>
    /\ GiveBack
    /\ UNCHANGED <<flags, stream, lastStatus, producer, pending, pcN, inflight,
                   session, phone, faults, slipped>>

(* the mbuf gate is passed while canSend() holds *)
DrainGate ==
    /\ pcD = "gate" /\ CanSend
    /\ lastStatus' = "ok"
    /\ pcD' = "notify"
    /\ UNCHANGED <<flags, txDone, stream, producer, pending, pcN, inflight,
                   session, phone, faults, slipped>>

(* notify() or indicate() takes the chunk; it has nobody to send to once *)
(* the phone is gone                                                     *)
DrainNotify ==
    /\ pcD = "notify"
    /\ inflight' = IF CanSend THEN Append(inflight, pending) ELSE inflight
    /\ pcD' = "wait"
    /\ UNCHANGED <<flags, txDone, stream, lastStatus, producer, pending, pcN,
                   session, phone, faults, slipped>>

(* Fault: the semaphore is not given back. *)
DrainRefusedKeeps ==
    /\ pcD = "notify" /\ faults < MaxFaults
    /\ faults' = faults + 1
    /\ pcD' = "take"
    /\ UNCHANGED <<flags, txDone, stream, lastStatus, producer, pending, pcN,
                   inflight, session, phone, slipped>>

(* notify() refuses: the chunk stays pending *)
DrainRefused ==
    /\ pcD = "notify" /\ faults < MaxFaults
    /\ faults' = faults + 1
    /\ GiveBack
    /\ UNCHANGED <<flags, stream, lastStatus, producer, pending, pcN, inflight,
                   session, phone, slipped>>

DrainWait ==
    /\ pcD = "wait" /\ txDone = 1
    /\ txDone' = 0 /\ pcD' = "status"
    /\ slipped' = (slipped \/ inflight # <<>>)
    /\ UNCHANGED <<flags, stream, lastStatus, producer, pending, pcN, inflight,
                   session, phone, faults>>

(* no give within 2000 ms, because none is due or because it is late: the *)
(* chunk stays pending                                                    *)
DrainTimeout ==
    /\ pcD = "wait" /\ txDone = 0
    /\ IF inflight = <<>> /\ pcN = "idle"
       THEN UNCHANGED faults
       ELSE faults < MaxFaults /\ faults' = faults + 1
    /\ GiveBack
    /\ UNCHANGED <<flags, stream, lastStatus, producer, pending, pcN, inflight,
                   session, phone, slipped>>

(* Fault: an error status frees the chunk too. *)
DrainStatusNoRetry ==
    /\ pcD = "status"
    /\ pending' = <<>>
    /\ GiveBack
    /\ UNCHANGED <<flags, stream, lastStatus, producer, pcN, inflight, session,
                   phone, faults, slipped>>

(* Fault: a chunk to be sent again goes behind what the buffer holds. *)
DrainStatusReinjects ==
    /\ pcD = "status"
    /\ pending' = <<>>
    /\ stream' = IF lastStatus = "ok" THEN stream ELSE stream \o pending
    /\ GiveBack
    /\ UNCHANGED <<flags, lastStatus, producer, pcN, inflight, session, phone,
                   faults, slipped>>

(* success frees the chunk, an error keeps it for a retry *)
DrainStatus ==
    /\ pcD = "status"
    /\ pending' = IF lastStatus = "ok" THEN <<>> ELSE pending
    /\ GiveBack
    /\ UNCHANGED <<flags, stream, lastStatus, producer, pcN, inflight, session,
                   phone, faults, slipped>>

Drain == \/ DrainTake \/ DrainDiscard \/ DrainReady \/ DrainReceive \/ DrainIdle
         \/ DrainGate \/ DrainNotify \/ DrainRefused \/ DrainWait
         \/ DrainTimeout \/ DrainStatus

-----------------------------------------------------------------------------
(* The NimBLE task: one callback at a time; one that gives the semaphore   *)
(* has assigned its fields in a step before.                               *)

OnConnect ==
    /\ pcN = "idle" /\ ~connected
    /\ connected' = TRUE /\ subscribed' = FALSE
    /\ UNCHANGED <<txDone, stream, lastStatus, producer, drain, pcN, inflight,
                   session, phone, faults, slipped>>

OnDisconnect ==
    /\ pcN = "idle" /\ connected
    /\ connected' = FALSE /\ subscribed' = FALSE
    /\ inflight' = <<>>
    /\ pcN' = "flush"
    /\ UNCHANGED <<txDone, stream, lastStatus, producer, drain, session, phone,
                   faults, slipped>>

(* xStreamBufferReset() does nothing while a task is blocked on the buffer *)
SomeoneBlocked == \/ pcP = "put" /\ ~Fits
                  \/ pcD = "receive" /\ stream = <<>>

OnDisconnectFlush ==
    /\ pcN = "flush"
    /\ stream' = IF SomeoneBlocked THEN stream ELSE <<>>
    /\ pcN' = "give"
    /\ UNCHANGED <<flags, txDone, lastStatus, producer, drain, inflight, session,
                   phone, faults, slipped>>

(* onSubscribe() with notifications or indications on; a phone that goes *)
(* from one to the other stays in its session                            *)
OnSubscribe ==
    /\ pcN = "idle" /\ connected
    /\ subscribed' = TRUE
    /\ pcN' = "give"
    /\ IF subscribed THEN UNCHANGED <<session, numbered, phone, faults, slipped>>
       ELSE /\ session < MaxSession /\ session' = session + 1
            /\ numbered' = 0
            /\ got' = 0 /\ gap' = FALSE
            /\ faults' = 0 /\ slipped' = FALSE
    /\ UNCHANGED <<connected, txDone, stream, lastStatus, pcP, batch, drain,
                   inflight>>

OnUnsubscribe ==
    /\ pcN = "idle" /\ connected /\ subscribed
    /\ subscribed' = FALSE
    /\ UNCHANGED <<connected, txDone, stream, lastStatus, producer, drain, pcN,
                   inflight, session, phone, faults, slipped>>

(* what the phone makes of a chunk *)
PhoneReceives(chunk) ==
    LET now == {chunk[j].n : j \in {i \in DOMAIN chunk : chunk[i].ses = session}}
        top == CHOOSE m \in now \cup {got} : \A x \in now \cup {got} : x <= m
    IN /\ got' = top
       /\ gap' = (gap \/ ~((got + 1)..top \subseteq now))

(* onStatus(code) for the oldest chunk: sent, or refused by the controller *)
OnStatus(code) ==
    /\ pcN = "idle" /\ inflight # <<>>
    /\ inflight' = Tail(inflight)
    /\ lastStatus' = code
    /\ pcN' = "give"
    /\ IF code = "ok"
       THEN PhoneReceives(Head(inflight)) /\ UNCHANGED faults
       ELSE faults < MaxFaults /\ faults' = faults + 1 /\ UNCHANGED phone
    /\ UNCHANGED <<flags, txDone, stream, producer, drain, session, slipped>>

(* xSemaphoreGive(_txDone), the last act of a callback *)
Give ==
    /\ pcN = "give"
    /\ txDone' = 1
    /\ pcN' = "idle"
    /\ UNCHANGED <<flags, stream, lastStatus, producer, drain, inflight, session,
                   phone, faults, slipped>>

Stack == OnDisconnectFlush \/ Give \/ \E code \in {"ok", "error"} : OnStatus(code)

Next == \/ \E k \in 1..BatchMax : SendEnter(k)
        \/ Producer \/ Drain \/ Stack
        \/ OnConnect \/ OnDisconnect \/ OnSubscribe \/ OnUnsubscribe

Spec == Init /\ [][Next]_vars

(* The two tasks are scheduled and the stack finishes its callbacks and    *)
(* reports on every chunk it took.  What the phone does has no fairness.   *)
FairSpec == Spec /\ WF_vars(Producer) /\ WF_vars(Drain) /\ WF_vars(Stack)

-----------------------------------------------------------------------------
(* Properties.                                                             *)

(* Every variable keeps its type. *)
TypeOK ==
    /\ connected \in BOOLEAN /\ subscribed \in BOOLEAN
    /\ txDone \in 0..1
    /\ stream \in Seq(Units) /\ Len(stream) <= StreamCap
    /\ lastStatus \in {"ok", "error"}
    /\ pcP \in {"idle", "check", "put"}
    /\ batch \in Seq(Units) /\ Len(batch) <= BatchMax
    /\ pcD \in {"take", "ready", "receive", "gate", "notify", "wait", "status"}
    /\ pending \in Seq(Units) /\ Len(pending) <= ChunkMax
    /\ pcN \in {"idle", "flush", "give"}
    /\ inflight \in Seq(Seq(Units))
    /\ session \in 0..MaxSession
    /\ numbered \in 0..MaxUnits
    /\ got \in 0..MaxUnits
    /\ gap \in BOOLEAN /\ slipped \in BOOLEAN
    /\ faults \in 0..MaxFaults

(* No byte is lost in the middle of a session: as long as each wait of the *)
(* drain task ends with the status of its own chunk, no mix of refusals,   *)
(* errors and retries makes the phone miss a unit.                         *)
NothingSkipped == gap => slipped

(* The tasks, the buffer, the retries and the callbacks together are a pipe *)
(* that hands the units of a session to the phone in order: the comment on *)
(* the retry buffer of runDrainLoop() says that it preserves ordering.     *)
Pipe == INSTANCE GfxPipe WITH sent <- numbered, lost <- gap, sound <- ~slipped
ImplementsPipe == Pipe!Spec

(* The drain task never waits for a give that nobody owes: once the phone  *)
(* is subscribed and its callback done, each way through the loop has      *)
(* handed the semaphore back.                                              *)
DrainCanTake == pcD = "take" /\ CanSend /\ pcN = "idle" => txDone = 1

(* Every unit handed to sendBytes() reaches the phone, unless the phone    *)
(* leaves or a wait was ended by a give that was not its own.              *)
Delivered ==
    \A n \in 1..MaxUnits :
        (numbered >= n /\ CanSend) ~> (got >= n \/ ~CanSend \/ slipped)

(* sendBytes() does not stall loop() while the phone stays: the drain task *)
(* makes room for the batch whatever refusals, errors and late statuses    *)
(* the link has had.  (Without a phone it waits for the next subscription: *)
(* xStreamBufferReset() does nothing while a task is blocked.)             *)
SendBytesReturns == (pcP = "put") ~> (pcP = "idle" \/ ~CanSend)

=============================================================================
