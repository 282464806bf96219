-------------------------- MODULE BleManagerProofs --------------------------
(* Proofs about BleManager, for every size of the buffer, of the batches   *)
(* and of the chunks.                                                      *)
EXTENDS BleManager, SequenceTheorems, TLAPS

(* The units of session ses in s are a+1..b, in order, at its end.         *)
Run(ses, s, a, b) ==
    /\ a <= b /\ b - a <= Len(s)
    /\ \A i \in 1..Len(s) :
          /\ (s[i].ses = ses) <=> (i > Len(s) - (b - a))
          /\ s[i].ses = ses => s[i].n = b - Len(s) + i

(* A session begins with a give, and every way through the loop of the     *)
(* drain task ends with one.                                               *)
TokenInv == pcD = "take" /\ subscribed => txDone = 1 \/ pcN = "give"

(* What is in hand at each place of the tasks.                             *)
PlaceInv ==
    /\ pcP = "idle" => batch = <<>>
    /\ pcD = "receive" => pending = <<>>
    /\ pcN = "flush" => ~connected

(* No unit is of a session to come.                                        *)
NotNew(s) == \A i \in 1..Len(s) : s[i].ses <= session
OldInv ==
    /\ NotNew(stream) /\ NotNew(batch) /\ NotNew(pending)
    /\ \A c \in 1..Len(inflight) : NotNew(inflight[c])

(* A chunk in flight begins, while no wait has been cut short, no later    *)
(* than where the phone is.                                                *)
Counts == 0..MaxUnits
FlightInv ==
    \A c \in 1..Len(inflight) : \E a, b \in Counts :
        /\ Run(session, inflight[c], a, b)
        /\ b <= numbered
        /\ ~slipped => a <= got

(* A pending chunk that the phone has not got is not freed: when the wait  *)
(* is over its status will have been an error.                             *)
Kept == pcD \in {"wait", "status"} =>
            IF inflight = <<>> THEN lastStatus = "error"
            ELSE pcD = "wait" /\ inflight[Len(inflight)] = pending

(* With a phone, what is pending, in the buffer and in sendBytes() follow  *)
(* each other without a hole, from where the phone is to what was handed   *)
(* over last.                                                              *)
Chain(a, p, q) ==
    /\ Run(session, pending, a, p)
    /\ Run(session, stream, p, q)
    /\ Run(session, batch, q, numbered)
    /\ numbered = 0 \/ numbered - q = Len(batch)
    /\ ~slipped => a <= got /\ (p <= got \/ Kept)
ChainInv == CanSend => \E a, p, q \in Counts : Chain(a, p, q)

PhoneInv == got <= numbered

IInv == /\ TypeOK /\ TokenInv /\ PlaceInv /\ OldInv /\ FlightInv /\ ChainInv
        /\ PhoneInv /\ NothingSkipped

-----------------------------------------------------------------------------
(* Runs.                                                                   *)

LEMMA UnitsHave ==
    ASSUME NEW s \in Seq(Units), NEW i \in 1..Len(s)
    PROVE  /\ Len(s) \in Nat /\ s[i] \in Units
           /\ s[i].ses \in Nat /\ s[i].n \in Nat
           /\ s[i].ses <= MaxSession /\ 1 <= s[i].n /\ s[i].n <= MaxUnits
<1>1. Len(s) \in Nat /\ s[i] \in Units
  BY LenProperties, ElementOfSeq
<1>2. MaxSession \in Nat /\ MaxUnits \in Nat
  BY SizeAssumption
<1> QED
  BY <1>1, <1>2 DEF Units

(* What has no unit of the session is a run of none, ending anywhere.      *)
LEMMA RunOfNone ==
    ASSUME NEW ses \in Nat, NEW s \in Seq(Units), NEW a \in Nat,
           \A i \in 1..Len(s) : s[i].ses # ses
    PROVE  Run(ses, s, a, a)
<1>1. Len(s) \in Nat
  BY LenProperties
<1> QED
  BY <1>1 DEF Run

LEMMA RunOfEmpty == ASSUME NEW ses, NEW a \in Nat, NEW b \in Nat
                    PROVE  Run(ses, <<>>, a, b) <=> a = b
  BY EmptySeq DEF Run

(* A run cut in two.                                                       *)
LEMMA RunCut ==
    ASSUME NEW ses \in Nat, NEW s \in Seq(Units), NEW a \in Nat, NEW b \in Nat,
           Run(ses, s, a, b), NEW k \in Nat, k <= Len(s)
    PROVE  \E m \in Nat : /\ a <= m /\ m <= b
                         /\ Run(ses, SubSeq(s, 1, k), a, m)
                         /\ Run(ses, SubSeq(s, k + 1, Len(s)), m, b)
<1> DEFINE L == Len(s)
           m == IF b - a > L - k THEN b - (L - k) ELSE a
           front == SubSeq(s, 1, k)
           back == SubSeq(s, k + 1, L)
<1>1. L \in Nat /\ k <= L /\ \A i \in 1..L : s[i] \in Units
  BY LenProperties, ElementOfSeq
<1>2. /\ Len(front) = k
      /\ \A i \in 1..k : front[i] = s[i]
  <2>1. \A i \in 1..k : s[i] \in Units
    BY <1>1
  <2> QED
    BY <2>1, SubSeqProperties
<1>3. /\ Len(back) = L - k
      /\ \A i \in 1..(L - k) : back[i] = s[k + i]
  <2>1. \A i \in (k + 1)..L : s[i] \in Units
    BY <1>1
  <2>2. /\ Len(back) = IF k + 1 <= L THEN L - (k + 1) + 1 ELSE 0
        /\ \A i \in 1..(L - (k + 1) + 1) : back[i] = s[k + 1 + i - 1]
    BY <1>1, <2>1, SubSeqProperties
  <2> QED
    BY <1>1, <2>2
<1>4. /\ a <= b /\ b - a <= L
      /\ \A i \in 1..L : /\ (s[i].ses = ses) <=> (i > L - (b - a))
                         /\ s[i].ses = ses => s[i].n = b - L + i
  BY DEF Run
<1>5. m \in Nat /\ a <= m /\ m <= b
  BY <1>1, <1>4
<1>6. \/ b - a > L - k /\ m = b - (L - k)
      \/ b - a <= L - k /\ m = a
  BY <1>1, <1>4
<1> HIDE DEF front, back, L, m
<1>7. Run(ses, front, a, m)
  <2>1. m - a <= k
    BY <1>1, <1>4, <1>5, <1>6
  <2>2. ASSUME NEW i \in 1..k
        PROVE  /\ (front[i].ses = ses) <=> (i > k - (m - a))
               /\ front[i].ses = ses => front[i].n = m - k + i
    <3>1. i \in 1..L /\ front[i] = s[i]
      BY <1>1, <1>2
    <3>2. /\ (s[i].ses = ses) <=> (i > L - (b - a))
          /\ s[i].ses = ses => s[i].n = b - L + i
      BY <1>4, <3>1
    <3>3. front[i].ses = ses => i > L - (b - a)
      BY <3>1, <3>2
    <3>4. i > L - (b - a) => front[i].ses = ses /\ front[i].n = b - L + i
      BY <3>1, <3>2
    <3>5. i > k - (m - a) <=> i > L - (b - a)
      BY <1>1, <1>4, <1>5, <1>6
    <3>6. i > k - (m - a) => b - L + i = m - k + i
      BY <1>1, <1>4, <1>5, <1>6
    <3> QED
      BY <3>3, <3>4, <3>5, <3>6
  <2> QED
    BY <1>2, <1>5, <2>1, <2>2 DEF Run
<1>8. Run(ses, back, m, b)
  <2>1. b - m <= L - k
    BY <1>1, <1>4, <1>5, <1>6
  <2>2. ASSUME NEW i \in 1..(L - k)
        PROVE  /\ (back[i].ses = ses) <=> (i > (L - k) - (b - m))
               /\ back[i].ses = ses => back[i].n = b - (L - k) + i
    <3>1. k + i \in 1..L /\ back[i] = s[k + i]
      BY <1>1, <1>3
    <3>2. /\ (s[k + i].ses = ses) <=> (k + i > L - (b - a))
          /\ s[k + i].ses = ses => s[k + i].n = b - L + (k + i)
      BY <1>4, <3>1
    <3> QED
      BY <1>1, <1>5, <1>6, <3>1, <3>2
  <2> QED
    BY <1>3, <1>5, <2>1, <2>2 DEF Run
<1> QED
  BY <1>5, <1>7, <1>8 DEF front, back, L

(* A run continued by units that are all of the session, or by none.       *)
LEMMA RunJoin ==
    ASSUME NEW ses \in Nat, NEW s \in Seq(Units), NEW t \in Seq(Units),
           NEW a \in Nat, NEW b \in Nat, NEW c \in Nat,
           Run(ses, s, a, b), Run(ses, t, b, c),
           a = b \/ c - b = Len(t)
    PROVE  Run(ses, s \o t, a, c)
<1> DEFINE u == s \o t
<1>1. /\ Len(s) \in Nat /\ Len(t) \in Nat
      /\ Len(u) = Len(s) + Len(t)
      /\ \A i \in 1..(Len(s) + Len(t)) :
            u[i] = IF i <= Len(s) THEN s[i] ELSE t[i - Len(s)]
  BY LenProperties, ConcatProperties
<1> HIDE DEF u
<1>2. a <= c /\ c - a <= Len(u)
  BY <1>1 DEF Run
<1>3. ASSUME NEW i \in 1..Len(u)
      PROVE  /\ (u[i].ses = ses) <=> (i > Len(u) - (c - a))
             /\ u[i].ses = ses => u[i].n = c - Len(u) + i
  <2>1. CASE i <= Len(s)
    <3>1. u[i] = s[i] /\ i \in 1..Len(s)
      BY <1>1, <2>1
    <3>2. /\ (s[i].ses = ses) <=> (i > Len(s) - (b - a))
          /\ s[i].ses = ses => s[i].n = b - Len(s) + i
      BY <3>1 DEF Run
    <3>3. a <= b /\ b - a <= Len(s) /\ b <= c /\ c - b <= Len(t)
      BY DEF Run
    <3>4. CASE a = b
      <4>1. s[i].ses # ses /\ i <= Len(u) - (c - a)
        BY <1>1, <2>1, <3>2, <3>3, <3>4
      <4> QED
        BY <1>1, <3>1, <3>3, <4>1
    <3>5. CASE c - b = Len(t)
      <4>1. Len(u) - (c - a) = Len(s) - (b - a) /\ c - Len(u) = b - Len(s)
        BY <1>1, <3>5
      <4> QED
        BY <3>1, <3>2, <4>1
    <3> QED
      BY <3>4, <3>5
  <2>2. CASE i > Len(s)
    <3>1. u[i] = t[i - Len(s)] /\ i - Len(s) \in 1..Len(t)
      BY <1>1, <2>2
    <3>2. LET j == i - Len(s)
          IN  /\ (t[j].ses = ses) <=> (j > Len(t) - (c - b))
              /\ t[j].ses = ses => t[j].n = c - Len(t) + j
      BY <3>1 DEF Run
    <3>3. a <= b /\ b - a <= Len(s) /\ b <= c /\ c - b <= Len(t)
      BY DEF Run
    <3> QED
      BY <1>1, <2>2, <3>1, <3>2, <3>3
  <2> QED
    BY <1>1, <2>1, <2>2
<1> QED
  BY <1>2, <1>3 DEF Run, u

(* The numbers of the units of a run.                                      *)
LEMMA RunNumbers ==
    ASSUME NEW ses \in Nat, NEW s \in Seq(Units), NEW a \in Nat, NEW b \in Nat,
           Run(ses, s, a, b)
    PROVE  {s[j].n : j \in {i \in DOMAIN s : s[i].ses = ses}} = (a + 1)..b
<1>1. Len(s) \in Nat /\ DOMAIN s = 1..Len(s)
  BY LenProperties
<1>2. ASSUME NEW j \in 1..Len(s), s[j].ses = ses PROVE s[j].n \in (a + 1)..b
  BY <1>1, <1>2 DEF Run
<1>3. ASSUME NEW n \in (a + 1)..b
      PROVE  \E j \in 1..Len(s) : s[j].ses = ses /\ s[j].n = n
  <2>1. n - b + Len(s) \in 1..Len(s)
    BY <1>1 DEF Run
  <2>2. s[n - b + Len(s)].ses = ses /\ s[n - b + Len(s)].n = n
    BY <1>1, <2>1 DEF Run
  <2> QED
    BY <2>1, <2>2
<1> QED
  BY <1>1, <1>2, <1>3

-----------------------------------------------------------------------------
(* Types.                                                                  *)

LEMMA Sizes ==
    /\ StreamCap \in Nat /\ BatchMax \in Nat /\ ChunkMax \in Nat
    /\ BatchMax <= StreamCap /\ 1 <= ChunkMax
    /\ MaxUnits \in Nat /\ MaxSession \in Nat /\ MaxFaults \in Nat
  BY SizeAssumption

LEMMA TypeFacts ==
    ASSUME TypeOK
    PROVE  /\ session \in Nat /\ numbered \in Nat /\ got \in Nat
           /\ got <= MaxUnits /\ numbered <= MaxUnits /\ session <= MaxSession
           /\ stream \in Seq(Units) /\ batch \in Seq(Units)
           /\ pending \in Seq(Units) /\ inflight \in Seq(Seq(Units))
           /\ Len(stream) \in Nat /\ Len(batch) \in Nat /\ Len(pending) \in Nat
           /\ Len(inflight) \in Nat
           /\ \A c \in 1..Len(inflight) : inflight[c] \in Seq(Units)
<1>1. /\ stream \in Seq(Units) /\ batch \in Seq(Units)
      /\ pending \in Seq(Units) /\ inflight \in Seq(Seq(Units))
  BY DEF TypeOK
<1>2. /\ Len(stream) \in Nat /\ Len(batch) \in Nat /\ Len(pending) \in Nat
      /\ Len(inflight) \in Nat
      /\ \A c \in 1..Len(inflight) : inflight[c] \in Seq(Units)
  BY <1>1, LenProperties, ElementOfSeq
<1> QED
  BY <1>1, <1>2, Sizes DEF TypeOK

(* The batch of sendBytes(): units of this session, numbered on.           *)
LEMMA NewBatch ==
    ASSUME TypeOK, NEW k \in 1..BatchMax, SendEnter(k)
    PROVE  /\ batch' \in Seq(Units) /\ Len(batch') = k
           /\ \A i \in 1..k : batch'[i] = [ses |-> session, n |-> numbered + i]
<1>1. k \in Nat /\ numbered + k <= MaxUnits
  BY Sizes DEF SendEnter
<1>2. batch' = [j \in 1..k |-> [ses |-> session, n |-> numbered + j]]
  BY DEF SendEnter
<1>3. \A j \in 1..k : [ses |-> session, n |-> numbered + j] \in Units
  BY <1>1, TypeFacts, Sizes DEF Units
<1>4. batch' \in [1..k -> Units]
  BY <1>2, <1>3
<1>5. batch' \in Seq(Units)
  BY <1>1, <1>4, SeqDef
<1>6. /\ DOMAIN batch' = 1..k /\ DOMAIN batch' = 1..Len(batch')
      /\ Len(batch') \in Nat
  BY <1>4, <1>5, LenProperties
<1>7. Len(batch') = k
  BY <1>1, <1>6
<1> QED
  BY <1>2, <1>5, <1>7

(* xStreamBufferReceive() cuts the buffer in two.                          *)
LEMMA Received ==
    ASSUME TypeOK, DrainReceive
    PROVE  \E k \in Nat : /\ k <= Len(stream) /\ k <= ChunkMax
                         /\ pending' = SubSeq(stream, 1, k)
                         /\ stream' = SubSeq(stream, k + 1, Len(stream))
                         /\ pending' \in Seq(Units) /\ Len(pending') = k
                         /\ stream' \in Seq(Units)
                         /\ Len(stream') = Len(stream) - k
<1>1. PICK size \in 1..ChunkMax :
        LET k == IF size < Len(stream) THEN size ELSE Len(stream) IN
        /\ pending' = SubSeq(stream, 1, k)
        /\ stream' = SubSeq(stream, k + 1, Len(stream))
  BY DEF DrainReceive
<1>2. Len(stream) \in Nat /\ \A i \in 1..Len(stream) : stream[i] \in Units
  BY TypeFacts, ElementOfSeq
<1>3. PICK k \in Nat : /\ k <= Len(stream) /\ k <= ChunkMax
                       /\ pending' = SubSeq(stream, 1, k)
                       /\ stream' = SubSeq(stream, k + 1, Len(stream))
  <2>1. size \in Nat /\ size <= ChunkMax
    BY Sizes
  <2>2. CASE size < Len(stream)
    BY <1>1, <2>1, <2>2
  <2>3. CASE ~(size < Len(stream))
    BY <1>1, <1>2, <2>1, <2>3, Sizes
  <2> QED
    BY <2>2, <2>3
<1>4. pending' \in Seq(Units) /\ Len(pending') = k
  <2>1. \A i \in 1..k : stream[i] \in Units
    BY <1>2, <1>3
  <2> QED
    BY <1>3, <2>1, SubSeqProperties
<1>5. stream' \in Seq(Units) /\ Len(stream') = Len(stream) - k
  <2>1. \A i \in (k + 1)..Len(stream) : stream[i] \in Units
    BY <1>2, <1>3
  <2>2. /\ SubSeq(stream, k + 1, Len(stream)) \in Seq(Units)
        /\ Len(SubSeq(stream, k + 1, Len(stream))) =
              IF k + 1 <= Len(stream) THEN Len(stream) - (k + 1) + 1 ELSE 0
    BY <1>2, <2>1, SubSeqProperties
  <2> QED
    BY <1>2, <1>3, <2>2
<1> QED
  BY <1>3, <1>4, <1>5

(* What the phone makes of a run of the session.                           *)
LEMMA PhoneAdvances ==
    ASSUME TypeOK, PhoneInv, NEW chunk \in Seq(Units),
           NEW a \in Nat, NEW b \in Nat, Run(session, chunk, a, b),
           b <= numbered, PhoneReceives(chunk)
    PROVE  /\ got' \in Nat /\ got <= got' /\ got' <= numbered
           /\ gap' \in BOOLEAN
           /\ a <= got => b <= got' /\ gap' = gap
<1> DEFINE now == {chunk[j].n :
                   j \in {i \in DOMAIN chunk : chunk[i].ses = session}}
           S == now \cup {got}
           highest == CHOOSE m \in S : \A x \in S : x <= m
           M == IF a < b /\ got < b THEN b ELSE got
<1>1. session \in Nat /\ got \in Nat /\ numbered \in Nat /\ got <= numbered
  BY TypeFacts DEF PhoneInv
<1>2. got' = highest /\ gap' = (gap \/ ~((got + 1)..highest \subseteq now))
  BY DEF PhoneReceives
<1>3. now = (a + 1)..b
  BY <1>1, RunNumbers
<1> HIDE DEF now
<1>4. M \in S /\ \A x \in S : x <= M
  BY <1>1, <1>3
<1>5. highest = M
  <2>1. highest \in S /\ \A x \in S : x <= highest
    BY <1>4
  <2> HIDE DEF highest, M
  <2>2. S \subseteq Int
    BY <1>1, <1>3
  <2>3. highest \in Int /\ M \in Int /\ highest <= M /\ M <= highest
    BY <1>4, <2>1, <2>2
  <2> QED
    BY <2>3
<1> HIDE DEF highest
<1>6. a <= b
  BY DEF Run
<1>7. got' \in Nat /\ got <= got' /\ got' <= numbered /\ gap' \in BOOLEAN
  BY <1>1, <1>2, <1>5, <1>6 DEF TypeOK
<1>8. ASSUME a <= got PROVE b <= got' /\ gap' = gap
  <2>1. b <= got' /\ (got + 1)..highest \subseteq now
    BY <1>1, <1>2, <1>3, <1>5, <1>6, <1>8
  <2> QED
    BY <1>2, <2>1 DEF TypeOK
<1> QED
  BY <1>7, <1>8

(* onStatus() takes the oldest chunk out of the flight.                    *)
LEMMA Landed ==
    ASSUME TypeOK, inflight # <<>>
    PROVE  /\ Head(inflight) = inflight[1] /\ 1 \in 1..Len(inflight)
           /\ Tail(inflight) \in Seq(Seq(Units))
           /\ Len(Tail(inflight)) = Len(inflight) - 1
           /\ \A c \in 1..Len(Tail(inflight)) :
                 /\ Tail(inflight)[c] = inflight[c + 1]
                 /\ c + 1 \in 1..Len(inflight)
<1>1. inflight \in Seq(Seq(Units)) /\ Len(inflight) \in Nat
  BY TypeFacts
<1>2. Len(inflight) >= 1
  BY <1>1, EmptySeq
<1>3. /\ Tail(inflight) \in Seq(Seq(Units))
      /\ Len(Tail(inflight)) = Len(inflight) - 1
      /\ \A c \in 1..Len(Tail(inflight)) : Tail(inflight)[c] = inflight[c + 1]
  BY <1>1, HeadTailProperties
<1> QED
  BY <1>1, <1>2, <1>3

-----------------------------------------------------------------------------
(* The steps, one lemma for each part of the invariant.                    *)

LEMMA InitInv == Init => IInv
<1> SUFFICES ASSUME Init PROVE IInv
  OBVIOUS
<1> USE Sizes DEF Init
<1>1. <<>> \in Seq(Units) /\ <<>> \in Seq(Seq(Units)) /\ Len(<<>>) = 0
  BY EmptySeq
<1>2. TypeOK
  <2>1. /\ stream \in Seq(Units) /\ Len(stream) <= StreamCap
        /\ batch \in Seq(Units) /\ Len(batch) <= BatchMax
        /\ pending \in Seq(Units) /\ Len(pending) <= ChunkMax
        /\ inflight \in Seq(Seq(Units))
    BY <1>1
  <2>2. /\ session \in 0..MaxSession /\ numbered \in 0..MaxUnits
        /\ got \in 0..MaxUnits /\ faults \in 0..MaxFaults
    OBVIOUS
  <2>3. /\ connected \in BOOLEAN /\ subscribed \in BOOLEAN
        /\ gap \in BOOLEAN /\ slipped \in BOOLEAN
    OBVIOUS
  <2>4. /\ txDone \in 0..1 /\ lastStatus \in {"ok", "error"}
        /\ pcP \in {"idle", "check", "put"}
        /\ pcD \in {"take", "ready", "receive", "gate", "notify", "wait",
                   "status"}
        /\ pcN \in {"idle", "flush", "give"}
    OBVIOUS
  <2> HIDE DEF Init
  <2> QED
    BY <2>1, <2>2, <2>3, <2>4 DEF TypeOK
<1>3. TokenInv /\ PlaceInv /\ PhoneInv /\ NothingSkipped
  BY DEF TokenInv, PlaceInv, PhoneInv, NothingSkipped
<1>4. OldInv /\ FlightInv
  BY <1>1 DEF OldInv, NotNew, FlightInv
<1>5. ChainInv
  BY DEF ChainInv, CanSend
<1> QED
  BY <1>2, <1>3, <1>4, <1>5 DEF IInv

LEMMA TypeStep == IInv /\ [Next]_vars => TypeOK'
<1> SUFFICES ASSUME IInv, [Next]_vars PROVE TypeOK'
  OBVIOUS
<1> USE Sizes DEF IInv, flags, producer, drain, phone, GiveBack
<1>1. <<>> \in Seq(Units) /\ <<>> \in Seq(Seq(Units)) /\ Len(<<>>) = 0
  BY EmptySeq
<1>2. ASSUME NEW k \in 1..BatchMax, SendEnter(k) PROVE TypeOK'
  <2>1. batch' \in Seq(Units) /\ Len(batch') <= BatchMax
    BY <1>2, NewBatch
  <2>2. numbered' \in 0..MaxUnits
    BY <1>2, TypeFacts DEF SendEnter
  <2> QED
    BY <1>2, <2>1, <2>2 DEF SendEnter, TypeOK
<1>3. CASE SendCheck
  <2>1. batch' \in Seq(Units) /\ Len(batch') <= BatchMax
    <3>1. batch' = batch \/ batch' = <<>>
      BY <1>3 DEF SendCheck
    <3>2. CASE batch' = batch
      BY <3>2 DEF TypeOK
    <3>3. CASE batch' = <<>>
      BY <1>1, <3>3
    <3> QED
      BY <3>1, <3>2, <3>3
  <2> QED
    BY <1>3, <2>1 DEF SendCheck, TypeOK
<1>4. CASE SendPut
  <2>1. stream' \in Seq(Units) /\ Len(stream') <= StreamCap
    BY <1>4, ConcatProperties DEF SendPut, Fits, TypeOK
  <2> QED
    BY <1>1, <1>4, <2>1 DEF SendPut, TypeOK
<1>5. CASE DrainTake
  BY <1>5 DEF DrainTake, TypeOK
<1>6. CASE DrainDiscard
  BY <1>1, <1>6 DEF DrainDiscard, TypeOK
<1>7. CASE DrainReady
  BY <1>7 DEF DrainReady, TypeOK
<1>8. CASE DrainReceive
  <2>1. /\ pending' \in Seq(Units) /\ Len(pending') <= ChunkMax
        /\ stream' \in Seq(Units) /\ Len(stream') <= StreamCap
    BY <1>8, Received, TypeFacts DEF TypeOK
  <2> QED
    BY <1>8, <2>1 DEF DrainReceive, TypeOK
<1>9. CASE DrainIdle
  BY <1>9 DEF DrainIdle, TypeOK
<1>10. CASE DrainGate
  BY <1>10 DEF DrainGate, TypeOK
<1>11. CASE DrainNotify
  <2>1. inflight' \in Seq(Seq(Units))
    BY <1>11, TypeFacts, AppendProperties DEF DrainNotify
  <2> QED
    BY <1>11, <2>1 DEF DrainNotify, TypeOK
<1>12. CASE DrainRefused
  BY <1>12 DEF DrainRefused, TypeOK
<1>13. CASE DrainWait
  BY <1>13 DEF DrainWait, TypeOK
<1>14. CASE DrainTimeout
  BY <1>14 DEF DrainTimeout, TypeOK
<1>15. CASE DrainStatus
  BY <1>1, <1>15 DEF DrainStatus, TypeOK
<1>16. CASE OnConnect
  BY <1>16 DEF OnConnect, TypeOK
<1>17. CASE OnDisconnect
  BY <1>1, <1>17 DEF OnDisconnect, TypeOK
<1>18. CASE OnDisconnectFlush
  BY <1>1, <1>18 DEF OnDisconnectFlush, TypeOK
<1>19. CASE OnSubscribe
  <2>1. CASE subscribed
    BY <1>19, <2>1 DEF OnSubscribe, TypeOK
  <2>2. CASE ~subscribed
    <3>1. /\ session' \in 0..MaxSession /\ numbered' \in 0..MaxUnits
          /\ got' \in 0..MaxUnits /\ faults' \in 0..MaxFaults
      BY <1>19, <2>2, TypeFacts DEF OnSubscribe
    <3> QED
      BY <1>19, <2>2, <3>1 DEF OnSubscribe, TypeOK
  <2> QED
    BY <2>1, <2>2
<1>20. CASE OnUnsubscribe
  BY <1>20 DEF OnUnsubscribe, TypeOK
<1>21. ASSUME NEW code \in {"ok", "error"}, OnStatus(code) PROVE TypeOK'
  <2>1. inflight' \in Seq(Seq(Units)) /\ inflight # <<>>
    BY <1>21, Landed DEF OnStatus
  <2>2. got' \in 0..MaxUnits /\ gap' \in BOOLEAN
    <3>1. CASE code = "ok"
      <4>1. PhoneReceives(inflight[1]) /\ 1 \in 1..Len(inflight)
        BY <1>21, <2>1, <3>1, Landed DEF OnStatus
      <4>2. PICK a \in Counts, b \in Counts :
              Run(session, inflight[1], a, b) /\ b <= numbered
        BY <4>1 DEF FlightInv
      <4>3. got' \in Nat /\ got' <= numbered /\ gap' \in BOOLEAN
        BY <4>1, <4>2, TypeFacts, PhoneAdvances DEF Counts
      <4> QED
        BY <4>3, TypeFacts
    <3>2. CASE code # "ok"
      BY <1>21, <3>2 DEF OnStatus, TypeOK
    <3> QED
      BY <3>1, <3>2
  <2>3. faults' \in 0..MaxFaults
    BY <1>21 DEF OnStatus, TypeOK
  <2> QED
    BY <1>21, <2>1, <2>2, <2>3 DEF OnStatus, TypeOK
<1>22. CASE Give
  BY <1>22 DEF Give, TypeOK
<1>23. CASE UNCHANGED vars
  BY <1>23 DEF vars, TypeOK
<1> QED
  BY <1>2, <1>3, <1>4, <1>5, <1>6, <1>7, <1>8, <1>9, <1>10, <1>11, <1>12,
     <1>13, <1>14, <1>15, <1>16, <1>17, <1>18, <1>19, <1>20, <1>21, <1>22,
     <1>23 DEF Next, Producer, Drain, Stack

LEMMA TokenStep == IInv /\ [Next]_vars => TokenInv'
<1> SUFFICES ASSUME IInv, [Next]_vars PROVE TokenInv'
  OBVIOUS
<1> USE DEF IInv, TokenInv, flags, producer, drain, phone, GiveBack
<1>1. ASSUME NEW k \in 1..BatchMax, SendEnter(k) PROVE TokenInv'
  BY <1>1 DEF SendEnter
<1>2. CASE Producer
  BY <1>2 DEF Producer, SendCheck, SendPut
<1>3. CASE Drain
  BY <1>3 DEF Drain, DrainTake, DrainDiscard, DrainReady, DrainReceive,
              DrainIdle, DrainGate, DrainNotify, DrainRefused, DrainWait,
              DrainTimeout, DrainStatus
<1>4. CASE OnConnect \/ OnDisconnect \/ OnSubscribe \/ OnUnsubscribe
  BY <1>4 DEF OnConnect, OnDisconnect, OnSubscribe, OnUnsubscribe
<1>5. CASE Stack
  BY <1>5 DEF Stack, OnDisconnectFlush, OnStatus, Give
<1>6. CASE UNCHANGED vars
  BY <1>6 DEF vars
<1> QED
  BY <1>1, <1>2, <1>3, <1>4, <1>5, <1>6 DEF Next

LEMMA PlaceStep == IInv /\ [Next]_vars => PlaceInv'
<1> SUFFICES ASSUME IInv, [Next]_vars PROVE PlaceInv'
  OBVIOUS
<1> USE DEF IInv, PlaceInv, flags, producer, drain, phone, GiveBack
<1>1. ASSUME NEW k \in 1..BatchMax, SendEnter(k) PROVE PlaceInv'
  BY <1>1 DEF SendEnter
<1>2. CASE Producer
  BY <1>2 DEF Producer, SendCheck, SendPut
<1>3. CASE Drain
  <2>1. pcP' = pcP /\ batch' = batch /\ connected' = connected /\ pcN' = pcN
    BY <1>3 DEF Drain, DrainTake, DrainDiscard, DrainReady, DrainReceive,
                DrainIdle, DrainGate, DrainNotify, DrainRefused, DrainWait,
                DrainTimeout, DrainStatus
  <2>2. pcD' = "receive" => pending' = <<>>
    BY <1>3 DEF Drain, DrainTake, DrainDiscard, DrainReady, DrainReceive,
                DrainIdle, DrainGate, DrainNotify, DrainRefused, DrainWait,
                DrainTimeout, DrainStatus
  <2> QED
    BY <2>1, <2>2
<1>4. CASE OnConnect \/ OnDisconnect \/ OnSubscribe \/ OnUnsubscribe
  BY <1>4 DEF OnConnect, OnDisconnect, OnSubscribe, OnUnsubscribe
<1>5. CASE Stack
  BY <1>5 DEF Stack, OnDisconnectFlush, OnStatus, Give
<1>6. CASE UNCHANGED vars
  BY <1>6 DEF vars
<1> QED
  BY <1>1, <1>2, <1>3, <1>4, <1>5, <1>6 DEF Next

(* Steps that leave alone what the rest of the invariant is about.         *)
units == <<session, stream, batch, pending, inflight>>

LEMMA QuietSteps ==
    ASSUME \/ DrainTake \/ DrainReady \/ DrainIdle \/ DrainGate \/ DrainRefused
           \/ DrainWait \/ DrainTimeout
           \/ OnConnect \/ OnUnsubscribe \/ Give \/ UNCHANGED vars
    PROVE  UNCHANGED <<units, numbered, phone>> /\ (slipped => slipped')
<1> USE DEF producer, drain, phone, units, GiveBack
<1>1. CASE DrainTake \/ DrainReady \/ DrainIdle \/ DrainGate
  BY <1>1 DEF DrainTake, DrainReady, DrainIdle, DrainGate
<1>2. CASE DrainRefused \/ DrainTimeout
  BY <1>2 DEF DrainRefused, DrainTimeout
<1>3. CASE DrainWait
  BY <1>3 DEF DrainWait
<1>4. CASE OnConnect \/ OnUnsubscribe \/ Give
  BY <1>4 DEF OnConnect, OnUnsubscribe, Give
<1>5. CASE UNCHANGED vars
  BY <1>5 DEF vars
<1> QED
  BY <1>1, <1>2, <1>3, <1>4, <1>5

LEMMA OldStep == IInv /\ [Next]_vars => OldInv'
<1> SUFFICES ASSUME IInv, [Next]_vars PROVE OldInv'
  OBVIOUS
<1> USE DEF IInv, OldInv, NotNew, flags, producer, drain, phone, GiveBack
<1>1. Len(<<>>) = 0 /\ session \in Nat
  BY TypeFacts
<1>2. ASSUME NEW k \in 1..BatchMax, SendEnter(k) PROVE OldInv'
  <2>1. /\ Len(batch') = k
        /\ \A i \in 1..k : batch'[i] = [ses |-> session, n |-> numbered + i]
    BY <1>2, NewBatch
  <2>2. \A i \in 1..Len(batch') : batch'[i].ses <= session
    BY <1>1, <2>1
  <2> QED
    BY <1>2, <2>2 DEF SendEnter
<1>3. CASE SendCheck
  <2>1. batch' = batch \/ batch' = <<>>
    BY <1>3 DEF SendCheck
  <2> QED
    BY <1>1, <1>3, <2>1 DEF SendCheck
<1>4. CASE SendPut
  <2>1. /\ Len(stream) \in Nat /\ Len(batch) \in Nat
        /\ Len(stream') = Len(stream) + Len(batch)
        /\ \A i \in 1..(Len(stream) + Len(batch)) :
              stream'[i] = IF i <= Len(stream) THEN stream[i]
                                              ELSE batch[i - Len(stream)]
    BY <1>4, TypeFacts, ConcatProperties DEF SendPut
  <2>2. ASSUME NEW i \in 1..Len(stream') PROVE stream'[i].ses <= session
    <3>1. CASE i <= Len(stream)
      BY <2>1, <3>1
    <3>2. CASE i > Len(stream)
      <4>1. i - Len(stream) \in 1..Len(batch)
        BY <2>1, <3>2
      <4> QED
        BY <2>1, <3>2, <4>1
    <3> QED
      BY <2>1, <3>1, <3>2
  <2> QED
    BY <1>1, <1>4, <2>2 DEF SendPut
<1>5. CASE DrainDiscard \/ DrainStatus
  <2>1. pending' = pending \/ pending' = <<>>
    BY <1>5 DEF DrainDiscard, DrainStatus
  <2> QED
    BY <1>1, <1>5, <2>1 DEF DrainDiscard, DrainStatus
<1>6. CASE DrainReceive
  <2>1. PICK k \in Nat : /\ k <= Len(stream)
                         /\ pending' = SubSeq(stream, 1, k)
                         /\ stream' = SubSeq(stream, k + 1, Len(stream))
                         /\ Len(pending') = k /\ Len(stream') = Len(stream) - k
    BY <1>6, Received
  <2>2. Len(stream) \in Nat
    BY TypeFacts
  <2>3. ASSUME NEW i \in 1..Len(pending') PROVE pending'[i].ses <= session
    <3>1. pending'[i] = stream[i] /\ i \in 1..Len(stream)
      BY <2>1, <2>2
    <3> QED
      BY <3>1
  <2>4. ASSUME NEW i \in 1..Len(stream') PROVE stream'[i].ses <= session
    <3>1. stream'[i] = stream[k + i] /\ k + i \in 1..Len(stream)
      BY <2>1, <2>2
    <3> QED
      BY <3>1
  <2> QED
    BY <1>6, <2>3, <2>4 DEF DrainReceive
<1>7. CASE DrainNotify
  <2>1. CASE CanSend
    <3>1. /\ Len(inflight') = Len(inflight) + 1 /\ Len(inflight) \in Nat
          /\ \A c \in 1..Len(inflight) : inflight'[c] = inflight[c]
          /\ inflight'[Len(inflight) + 1] = pending
      BY <1>7, <2>1, TypeFacts, AppendProperties DEF DrainNotify
    <3> QED
      BY <1>7, <3>1 DEF DrainNotify
  <2>2. CASE ~CanSend
    BY <1>7, <2>2 DEF DrainNotify
  <2> QED
    BY <2>1, <2>2
<1>8. CASE OnDisconnect
  BY <1>1, <1>8 DEF OnDisconnect
<1>9. CASE OnDisconnectFlush
  BY <1>1, <1>9 DEF OnDisconnectFlush
<1>10. CASE OnSubscribe
  <2>1. session' \in Nat /\ session <= session'
    BY <1>1, <1>10 DEF OnSubscribe
  <2>2. ASSUME NEW s \in Seq(Units), NotNew(s), NEW i \in 1..Len(s)
        PROVE  s[i].ses <= session'
    BY <1>1, <2>1, <2>2, UnitsHave
  <2> QED
    BY <1>10, <2>2, TypeFacts DEF OnSubscribe
<1>11. ASSUME NEW code \in {"ok", "error"}, OnStatus(code) PROVE OldInv'
  BY <1>11, Landed DEF OnStatus
<1>12. CASE \/ DrainTake \/ DrainReady \/ DrainIdle \/ DrainGate \/ DrainRefused
            \/ DrainWait \/ DrainTimeout
            \/ OnConnect \/ OnUnsubscribe \/ Give \/ UNCHANGED vars
  BY <1>12, QuietSteps DEF units
<1> QED
  BY <1>2, <1>3, <1>4, <1>5, <1>6, <1>7, <1>8, <1>9, <1>10, <1>11, <1>12
     DEF Next, Producer, Drain, Stack

(* One chunk stays as it is while the phone and the session go on.         *)
LEMMA FlightGoesOn ==
    ASSUME IInv, UNCHANGED <<session, inflight>>,
           numbered' \in Nat, numbered <= numbered',
           got' \in Nat, got <= got', slipped => slipped'
    PROVE  FlightInv'
<1> SUFFICES ASSUME NEW c \in 1..Len(inflight)
             PROVE  \E a, b \in Counts : /\ Run(session, inflight[c], a, b)
                                         /\ b <= numbered'
                                         /\ ~slipped' => a <= got'
  BY DEF FlightInv
<1>1. PICK a \in Counts, b \in Counts :
        /\ Run(session, inflight[c], a, b)
        /\ b <= numbered /\ (~slipped => a <= got)
  BY DEF IInv, FlightInv
<1>2. a \in Nat /\ b \in Nat
  BY Sizes DEF Counts
<1>3. b <= numbered' /\ (~slipped' => a <= got')
  BY <1>1, <1>2, TypeFacts DEF IInv
<1> QED
  BY <1>1, <1>3

LEMMA FlightStep == IInv /\ [Next]_vars => FlightInv'
<1> SUFFICES ASSUME IInv, [Next]_vars PROVE FlightInv'
  OBVIOUS
<1> USE DEF flags, producer, drain, phone, GiveBack
<1>1. /\ TypeOK /\ OldInv /\ FlightInv /\ ChainInv /\ PhoneInv
      /\ session \in Nat /\ numbered \in Nat /\ got \in Nat
      /\ 0 \in Counts /\ Len(<<>>) = 0
  BY TypeFacts, Sizes DEF IInv, Counts
<1>2. ASSUME NEW k \in 1..BatchMax, SendEnter(k) PROVE FlightInv'
  <2>1. /\ UNCHANGED <<session, inflight>> /\ got' = got /\ slipped' = slipped
        /\ numbered' \in Nat /\ numbered <= numbered'
    BY <1>1, <1>2, Sizes DEF SendEnter
  <2> QED
    BY <1>1, <2>1, FlightGoesOn
<1>3. CASE \/ SendCheck \/ SendPut \/ DrainDiscard \/ DrainReceive
           \/ DrainStatus \/ OnDisconnectFlush
  <2>1. /\ UNCHANGED <<session, inflight>> /\ got' = got /\ slipped' = slipped
        /\ numbered' = numbered
    BY <1>3 DEF SendCheck, SendPut, DrainDiscard, DrainReceive, DrainStatus,
                OnDisconnectFlush
  <2> QED
    BY <1>1, <2>1, FlightGoesOn
<1>4. CASE DrainNotify
  <2>1. CASE CanSend
    <3>1. PICK a \in Counts, p \in Counts, q \in Counts : Chain(a, p, q)
      BY <1>1, <2>1 DEF ChainInv
    <3>2. Run(session, pending, a, p) /\ p <= numbered /\ (~slipped => a <= got)
      <4>1. a \in Nat /\ p \in Nat /\ q \in Nat /\ numbered \in Nat
        BY <1>1, Sizes DEF Counts
      <4>2. /\ Run(session, pending, a, p)
            /\ Run(session, stream, p, q)
            /\ Run(session, batch, q, numbered)
            /\ ~slipped => a <= got
        BY <3>1 DEF Chain
      <4>3. p <= q
        BY <4>2 DEF Run
      <4>4. q <= numbered
        BY <4>2 DEF Run
      <4> QED
        BY <4>1, <4>2, <4>3, <4>4
    <3>3. /\ Len(inflight') = Len(inflight) + 1 /\ Len(inflight) \in Nat
          /\ \A c \in 1..Len(inflight) : inflight'[c] = inflight[c]
          /\ inflight'[Len(inflight) + 1] = pending
      BY <1>1, <1>4, <2>1, TypeFacts, AppendProperties DEF DrainNotify
    <3>4. UNCHANGED <<session, numbered, got, slipped>>
      BY <1>4 DEF DrainNotify
    <3>5. ASSUME NEW c \in 1..Len(inflight')
          PROVE  \E d, e \in Counts : /\ Run(session, inflight'[c], d, e)
                                      /\ e <= numbered
                                      /\ ~slipped => d <= got
      <4>1. CASE c \in 1..Len(inflight)
        BY <1>1, <3>3, <4>1 DEF FlightInv
      <4>2. CASE c = Len(inflight) + 1
        BY <3>2, <3>3, <4>2
      <4> QED
        BY <3>3, <4>1, <4>2
    <3> QED
      BY <3>4, <3>5 DEF FlightInv
  <2>2. CASE ~CanSend
    BY <1>1, <1>4, <2>2, FlightGoesOn DEF DrainNotify
  <2> QED
    BY <2>1, <2>2
<1>5. CASE OnDisconnect
  BY <1>1, <1>5 DEF OnDisconnect, FlightInv
<1>6. CASE OnSubscribe
  <2>1. CASE subscribed
    BY <1>1, <1>6, <2>1, FlightGoesOn DEF OnSubscribe
  <2>2. CASE ~subscribed
    <3>1. /\ session' = session + 1 /\ numbered' = 0
          /\ got' = 0 /\ inflight' = inflight
      BY <1>6, <2>2 DEF OnSubscribe
    <3>2. ASSUME NEW c \in 1..Len(inflight)
          PROVE  Run(session + 1, inflight[c], 0, 0)
      <4>1. inflight[c] \in Seq(Units) /\ NotNew(inflight[c])
        BY <1>1, TypeFacts DEF OldInv
      <4>2. \A i \in 1..Len(inflight[c]) : inflight[c][i].ses # session + 1
        BY <1>1, <4>1, UnitsHave DEF NotNew
      <4> QED
        BY <1>1, <4>1, <4>2, RunOfNone
    <3> QED
      BY <1>1, <3>1, <3>2 DEF FlightInv
  <2> QED
    BY <2>1, <2>2
<1>7. ASSUME NEW code \in {"ok", "error"}, OnStatus(code) PROVE FlightInv'
  <2>1. /\ inflight # <<>> /\ inflight' = Tail(inflight)
        /\ UNCHANGED <<session, numbered, slipped>>
    BY <1>7 DEF OnStatus
  <2>2. got' \in Nat /\ got <= got'
    <3>1. CASE code = "ok"
      <4>1. PhoneReceives(inflight[1]) /\ 1 \in 1..Len(inflight)
        BY <1>1, <1>7, <2>1, <3>1, Landed DEF OnStatus
      <4>2. PICK a \in Counts, b \in Counts :
              Run(session, inflight[1], a, b) /\ b <= numbered
        BY <1>1, <4>1 DEF FlightInv
      <4> QED
        BY <1>1, <4>1, <4>2, TypeFacts, PhoneAdvances, Sizes DEF Counts
    <3>2. CASE code # "ok"
      BY <1>1, <1>7, <3>2 DEF OnStatus
    <3> QED
      BY <3>1, <3>2
  <2>3. ASSUME NEW c \in 1..Len(inflight')
        PROVE  \E a, b \in Counts : /\ Run(session, inflight'[c], a, b)
                                    /\ b <= numbered
                                    /\ ~slipped => a <= got'
    <3>1. inflight'[c] = inflight[c + 1] /\ c + 1 \in 1..Len(inflight)
      BY <1>1, <2>1, Landed
    <3>2. PICK a \in Counts, b \in Counts :
            /\ Run(session, inflight[c + 1], a, b) /\ b <= numbered
            /\ ~slipped => a <= got
      BY <1>1, <3>1 DEF FlightInv
    <3>3. ~slipped => a <= got'
      BY <1>1, <2>2, <3>2, Sizes DEF Counts
    <3> QED
      BY <3>1, <3>2, <3>3
  <2> QED
    BY <2>1, <2>3 DEF FlightInv
<1>8. CASE \/ DrainTake \/ DrainReady \/ DrainIdle \/ DrainGate \/ DrainRefused
           \/ DrainWait \/ DrainTimeout
           \/ OnConnect \/ OnUnsubscribe \/ Give \/ UNCHANGED vars
  <2>1. UNCHANGED <<session, inflight, numbered, got>> /\ (slipped => slipped')
    BY <1>8, QuietSteps DEF units
  <2> QED
    BY <1>1, <2>1, FlightGoesOn
<1> QED
  BY <1>2, <1>3, <1>4, <1>5, <1>6, <1>7, <1>8 DEF Next, Producer, Drain, Stack

LEMMA PhoneStep == IInv /\ [Next]_vars => PhoneInv' /\ NothingSkipped'
<1> SUFFICES ASSUME IInv, [Next]_vars PROVE PhoneInv' /\ NothingSkipped'
  OBVIOUS
<1> USE DEF PhoneInv, NothingSkipped, flags, producer, drain, phone, GiveBack
<1>1. /\ TypeOK /\ FlightInv /\ PhoneInv /\ NothingSkipped
      /\ numbered \in Nat /\ got \in Nat
  BY TypeFacts DEF IInv
<1>2. ASSUME NEW k \in 1..BatchMax, SendEnter(k)
      PROVE  PhoneInv' /\ NothingSkipped'
  <2>1. got' = got /\ gap' = gap /\ slipped' = slipped /\ numbered <= numbered'
        /\ numbered' \in Nat
    BY <1>1, <1>2, Sizes DEF SendEnter
  <2> QED
    BY <1>1, <2>1
<1>3. CASE \/ SendCheck \/ SendPut \/ DrainDiscard \/ DrainReceive
           \/ DrainStatus \/ OnDisconnectFlush \/ DrainNotify \/ OnDisconnect
  <2>1. got' = got /\ gap' = gap /\ slipped' = slipped /\ numbered' = numbered
    BY <1>3 DEF SendCheck, SendPut, DrainDiscard, DrainReceive, DrainStatus,
                OnDisconnectFlush, DrainNotify, OnDisconnect
  <2> QED
    BY <1>1, <2>1
<1>4. CASE OnSubscribe
  <2>1. CASE subscribed
    BY <1>1, <1>4, <2>1 DEF OnSubscribe
  <2>2. CASE ~subscribed
    BY <1>4, <2>2 DEF OnSubscribe
  <2> QED
    BY <2>1, <2>2
<1>5. ASSUME NEW code \in {"ok", "error"}, OnStatus(code)
      PROVE  PhoneInv' /\ NothingSkipped'
  <2>1. inflight # <<>> /\ numbered' = numbered /\ slipped' = slipped
    BY <1>5 DEF OnStatus
  <2>2. CASE code = "ok"
    <3>1. PhoneReceives(inflight[1]) /\ 1 \in 1..Len(inflight)
      BY <1>1, <1>5, <2>1, <2>2, Landed DEF OnStatus
    <3>2. PICK a \in Counts, b \in Counts :
            /\ Run(session, inflight[1], a, b) /\ b <= numbered
            /\ ~slipped => a <= got
      BY <1>1, <3>1 DEF FlightInv
    <3>3. got' <= numbered /\ (a <= got => gap' = gap)
      BY <1>1, <3>1, <3>2, TypeFacts, PhoneAdvances, Sizes DEF Counts
    <3> QED
      BY <1>1, <2>1, <3>2, <3>3
  <2>3. CASE code # "ok"
    BY <1>1, <1>5, <2>3 DEF OnStatus
  <2> QED
    BY <2>2, <2>3
<1>6. CASE \/ DrainTake \/ DrainReady \/ DrainIdle \/ DrainGate \/ DrainRefused
           \/ DrainWait \/ DrainTimeout
           \/ OnConnect \/ OnUnsubscribe \/ Give \/ UNCHANGED vars
  BY <1>1, <1>6, QuietSteps DEF units
<1> QED
  BY <1>2, <1>3, <1>4, <1>5, <1>6 DEF Next, Producer, Drain, Stack

-----------------------------------------------------------------------------
(* The chain from the phone to sendBytes().                                *)

LEMMA ChainFacts ==
    ASSUME IInv, CanSend
    PROVE  \E a, p, q \in Nat :
              /\ a \in Counts /\ p \in Counts /\ q \in Counts
              /\ Chain(a, p, q)
              /\ a <= p /\ p <= q /\ q <= numbered
              /\ batch = <<>> => q = numbered
<1>1. PICK a \in Counts, p \in Counts, q \in Counts : Chain(a, p, q)
  BY DEF IInv, ChainInv
<1>2. a \in Nat /\ p \in Nat /\ q \in Nat
  BY Sizes DEF Counts
<1>3. a <= p /\ p <= q /\ q <= numbered
  BY <1>1 DEF Chain, Run
<1>4. batch = <<>> => q = numbered
  BY <1>1, <1>2, RunOfEmpty, TypeFacts DEF Chain, IInv
<1> QED
  BY <1>1, <1>2, <1>3, <1>4

(* As long as neither the units nor the phone change, only whether the     *)
(* pending chunk is kept has to be looked at.                              *)
LEMMA ChainGoesOn ==
    ASSUME IInv, CanSend' => CanSend,
           UNCHANGED <<session, stream, batch, pending, numbered, got>>,
           slipped => slipped',
           ~slipped' /\ Kept => Kept'
    PROVE  ChainInv'
<1> SUFFICES ASSUME CanSend' PROVE \E a, p, q \in Counts : Chain(a, p, q)'
  BY DEF ChainInv
<1>1. PICK a \in Counts, p \in Counts, q \in Counts : Chain(a, p, q)
  BY DEF IInv, ChainInv
<1>2. Chain(a, p, q)'
  BY <1>1 DEF Chain
<1> QED
  BY <1>1, <1>2

LEMMA SendEnterKeepsChain ==
    ASSUME IInv, NEW k \in 1..BatchMax, SendEnter(k)
    PROVE  ChainInv'
<1> USE DEF SendEnter, flags, drain, phone
<1>1. /\ CanSend /\ TypeOK /\ k \in Nat /\ batch = <<>>
      /\ session \in Nat /\ numbered \in Nat
  BY Sizes, TypeFacts DEF IInv, PlaceInv
<1>2. PICK a \in Nat, p \in Nat, q \in Nat :
        /\ a \in Counts /\ p \in Counts /\ q \in Counts
        /\ Chain(a, p, q) /\ q = numbered
  BY <1>1, ChainFacts
<1>3. /\ Len(batch') = k
      /\ \A i \in 1..k : batch'[i] = [ses |-> session, n |-> numbered + i]
  BY <1>1, NewBatch
<1>4. numbered' = numbered + k /\ session' = session
  OBVIOUS
<1>5. Run(session, batch', numbered, numbered')
  <2>1. ASSUME NEW i \in 1..k
        PROVE  batch'[i].ses = session /\ batch'[i].n = numbered + i
    BY <1>3
  <2> QED
    BY <1>1, <1>3, <1>4, <2>1 DEF Run
<1>6. numbered' - q = Len(batch')
  BY <1>1, <1>2, <1>3, <1>4
<1>7. Kept' = Kept
  BY DEF Kept
<1>8. Chain(a, p, q)'
  BY <1>2, <1>4, <1>5, <1>6, <1>7 DEF Chain
<1> QED
  BY <1>2, <1>8 DEF ChainInv

LEMMA SendPutKeepsChain == ASSUME IInv, SendPut PROVE ChainInv'
<1> USE DEF SendPut, flags, drain, phone
<1> SUFFICES ASSUME CanSend PROVE \E a, p, q \in Counts : Chain(a, p, q)'
  BY DEF ChainInv, CanSend
<1>1. /\ stream \in Seq(Units) /\ batch \in Seq(Units) /\ Len(batch) \in Nat
      /\ session \in Nat /\ numbered \in Nat /\ numbered \in Counts
  BY TypeFacts, Sizes DEF IInv, Counts
<1>2. PICK a \in Nat, p \in Nat, q \in Nat :
        /\ a \in Counts /\ p \in Counts /\ q \in Counts
        /\ Chain(a, p, q) /\ a <= p /\ p <= q /\ q <= numbered
  BY ChainFacts
<1>3. p = q \/ numbered - q = Len(batch)
  BY <1>1, <1>2 DEF Chain
<1>4. Run(session, stream', p, numbered)
  BY <1>1, <1>2, <1>3, RunJoin DEF Chain
<1>5. Run(session, <<>>, numbered, numbered) /\ Len(<<>>) = 0
  BY <1>1, RunOfEmpty
<1>6. Kept' = Kept
  BY DEF Kept
<1>7. Chain(a, p, numbered)'
  BY <1>1, <1>2, <1>4, <1>5, <1>6 DEF Chain
<1> QED
  BY <1>1, <1>2, <1>7

LEMMA DrainReceiveKeepsChain == ASSUME IInv, DrainReceive PROVE ChainInv'
<1> USE DEF DrainReceive, flags, producer, phone
<1> SUFFICES ASSUME CanSend PROVE \E a, p, q \in Counts : Chain(a, p, q)'
  BY DEF ChainInv, CanSend
<1>1. TypeOK /\ stream \in Seq(Units) /\ session \in Nat /\ got \in Nat
      /\ pending = <<>>
  BY TypeFacts DEF IInv, PlaceInv
<1>2. PICK a \in Nat, p \in Nat, q \in Nat :
        /\ a \in Counts /\ p \in Counts /\ q \in Counts
        /\ Chain(a, p, q) /\ p <= q
  BY ChainFacts
<1>3. a = p
  BY <1>1, <1>2, RunOfEmpty DEF Chain
<1>4. PICK k \in Nat : /\ k <= Len(stream)
                       /\ pending' = SubSeq(stream, 1, k)
                       /\ stream' = SubSeq(stream, k + 1, Len(stream))
  BY <1>1, Received
<1>5. PICK m \in Nat : /\ p <= m /\ m <= q
                       /\ Run(session, SubSeq(stream, 1, k), p, m)
                       /\ Run(session, SubSeq(stream, k + 1, Len(stream)), m, q)
  BY <1>1, <1>2, <1>4, RunCut DEF Chain
<1>6. Run(session, pending', p, m) /\ Run(session, stream', m, q)
  BY <1>4, <1>5
<1>7. m \in Counts
  BY <1>2, <1>5, Sizes DEF Counts
<1>8. Kept'
  BY DEF Kept
<1>9. ~slipped => p <= got
  BY <1>2, <1>3 DEF Chain
<1>10. Chain(p, m, q)'
  BY <1>2, <1>6, <1>8, <1>9 DEF Chain
<1> QED
  BY <1>2, <1>7, <1>10

(* A success frees a chunk only if the phone has it.                       *)
LEMMA DrainStatusKeepsChain == ASSUME IInv, DrainStatus PROVE ChainInv'
<1> USE DEF DrainStatus, GiveBack, flags, producer, phone
<1>1. CASE lastStatus = "ok"
  <2> SUFFICES ASSUME CanSend PROVE \E a, p, q \in Counts : Chain(a, p, q)'
    BY DEF ChainInv, CanSend
  <2>1. PICK a \in Nat, p \in Nat, q \in Nat :
          p \in Counts /\ q \in Counts /\ Chain(a, p, q)
    BY ChainFacts
  <2>2. Run(session, <<>>, p, p)
    BY <2>1, RunOfEmpty
  <2>3. ~Kept
    BY <1>1 DEF Kept
  <2>4. ~slipped => p <= got
    BY <2>1, <2>3 DEF Chain
  <2>5. Chain(p, p, q)'
    BY <1>1, <2>1, <2>2, <2>4 DEF Chain
  <2> QED
    BY <2>1, <2>5
<1>2. CASE lastStatus # "ok"
  BY <1>2, ChainGoesOn DEF CanSend, Kept
<1> QED
  BY <1>1, <1>2

(* A session begins with a phone that has nothing and nothing for it.      *)
LEMMA OnSubscribeKeepsChain == ASSUME IInv, OnSubscribe PROVE ChainInv'
<1> USE DEF OnSubscribe, producer, drain, phone
<1>1. CASE subscribed
  BY <1>1, ChainGoesOn DEF CanSend, Kept
<1>2. CASE ~subscribed
  <2>1. /\ session' = session + 1 /\ numbered' = 0 /\ got' = 0
        /\ UNCHANGED <<stream, batch, pending>>
        /\ session \in Nat /\ 0 \in Counts
    BY <1>2, TypeFacts, Sizes DEF IInv, Counts
  <2>2. ASSUME NEW s \in Seq(Units), NotNew(s)
        PROVE  Run(session + 1, s, 0, 0)
    <3>1. \A i \in 1..Len(s) : s[i].ses # session + 1
      BY <2>1, <2>2, UnitsHave DEF NotNew
    <3> QED
      BY <2>1, <3>1, RunOfNone
  <2>3. /\ Run(session', pending', 0, 0) /\ Run(session', stream', 0, 0)
        /\ Run(session', batch', 0, 0)
    BY <2>1, <2>2, TypeFacts DEF IInv, OldInv
  <2>4. Chain(0, 0, 0)'
    BY <2>1, <2>3 DEF Chain
  <2> QED
    BY <2>1, <2>4 DEF ChainInv
<1> QED
  BY <1>1, <1>2

(* The status of the last chunk in flight is the one of the pending chunk. *)
LEMMA OnStatusKeepsChain ==
    ASSUME IInv, NEW code \in {"ok", "error"}, OnStatus(code)
    PROVE  ChainInv'
<1> USE DEF OnStatus, flags, producer, drain, phone
<1> SUFFICES ASSUME CanSend PROVE \E a, p, q \in Counts : Chain(a, p, q)'
  BY DEF ChainInv, CanSend
<1>1. /\ TypeOK /\ PhoneInv /\ FlightInv /\ got \in Nat /\ numbered \in Nat
      /\ pending \in Seq(Units) /\ Len(inflight) \in Nat
      /\ inflight # <<>> /\ inflight' = Tail(inflight)
      /\ Tail(inflight) \in Seq(Seq(Units))
  BY TypeFacts, Landed DEF IInv
<1>2. /\ 1 \in 1..Len(inflight) /\ Head(inflight) = inflight[1]
      /\ Len(inflight') = Len(inflight) - 1
      /\ \A c \in 1..Len(inflight') : inflight'[c] = inflight[c + 1]
  BY <1>1, Landed
<1>3. PICK a \in Nat, p \in Nat, q \in Nat :
        /\ a \in Counts /\ p \in Counts /\ q \in Counts
        /\ Chain(a, p, q) /\ p <= q /\ q <= numbered
  BY ChainFacts
<1>4. got' \in Nat /\ got <= got'
  <2>1. CASE code = "ok"
    <3>1. PICK d \in Counts, e \in Counts :
            Run(session, inflight[1], d, e) /\ e <= numbered
      BY <1>1, <1>2 DEF FlightInv
    <3> QED
      BY <1>1, <1>2, <2>1, <3>1, TypeFacts, PhoneAdvances, Sizes DEF Counts
  <2>2. CASE code # "ok"
    BY <1>1, <2>2
  <2> QED
    BY <2>1, <2>2
<1>5. ASSUME ~slipped, ~(p <= got) PROVE p <= got' \/ Kept'
  <2>1. Kept /\ a <= got
    BY <1>3, <1>5 DEF Chain
  <2>2. CASE pcD \notin {"wait", "status"}
    BY <2>2 DEF Kept
  <2>3. CASE pcD \in {"wait", "status"} /\ Len(inflight) > 1
    <3>1. pcD = "wait" /\ inflight[Len(inflight)] = pending
      BY <1>1, <2>1, <2>3 DEF Kept
    <3>2. inflight' # <<>> /\ inflight'[Len(inflight')] = pending
      <4>1. /\ Len(inflight') \in 1..Len(inflight')
            /\ Len(inflight') + 1 = Len(inflight)
        BY <1>1, <1>2, <2>3
      <4>2. inflight'[Len(inflight')] = inflight[Len(inflight') + 1]
        BY <1>2, <4>1
      <4>3. Len(inflight') # 0 /\ Len(<<>>) = 0
        BY <4>1
      <4> QED
        BY <3>1, <4>1, <4>2, <4>3
    <3> QED
      BY <3>1, <3>2 DEF Kept
  <2>4. CASE pcD \in {"wait", "status"} /\ Len(inflight) = 1
    <3>1. pcD = "wait" /\ inflight[1] = pending
      BY <1>1, <2>1, <2>4 DEF Kept
    <3>2. CASE code = "ok"
      <4>1. PhoneReceives(pending)
        BY <1>2, <3>1, <3>2
      <4>2. Run(session, pending, a, p) /\ p <= numbered
        BY <1>1, <1>3 DEF Chain
      <4> QED
        BY <1>1, <1>3, <2>1, <4>1, <4>2, PhoneAdvances
    <3>3. CASE code = "error"
      <4>1. inflight' \in Seq(Seq(Units)) /\ Len(inflight') = 0
        BY <1>1, <1>2, <2>4
      <4>2. inflight' = <<>>
        BY <4>1, EmptySeq
      <4> QED
        BY <3>1, <3>3, <4>2 DEF Kept
    <3> QED
      BY <3>2, <3>3
  <2> QED
    BY <1>1, <1>2, <2>2, <2>3, <2>4
<1>6. ~slipped => a <= got' /\ (p <= got' \/ Kept')
  BY <1>1, <1>3, <1>4, <1>5 DEF Chain
<1>7. Chain(a, p, q)'
  BY <1>3, <1>6 DEF Chain
<1> QED
  BY <1>3, <1>7

LEMMA ChainStep == IInv /\ [Next]_vars => ChainInv'
<1> SUFFICES ASSUME IInv, [Next]_vars PROVE ChainInv'
  OBVIOUS
<1> USE DEF flags, producer, drain, phone, GiveBack
<1>1. ASSUME NEW k \in 1..BatchMax, SendEnter(k) PROVE ChainInv'
  BY <1>1, SendEnterKeepsChain
<1>2. CASE SendCheck
  <2>1. CanSend' => CanSend /\ batch' = batch
    BY <1>2 DEF SendCheck, CanSend
  <2>2. CASE CanSend
    BY <1>2, <2>2, ChainGoesOn DEF SendCheck, Kept
  <2>3. CASE ~CanSend
    BY <2>1, <2>3 DEF ChainInv
  <2> QED
    BY <2>2, <2>3
<1>3. CASE SendPut
  BY <1>3, SendPutKeepsChain
<1>4. CASE DrainDiscard \/ OnConnect \/ OnDisconnect \/ OnUnsubscribe
           \/ OnDisconnectFlush
  <2>1. ~CanSend'
    BY <1>4 DEF DrainDiscard, OnConnect, OnDisconnect, OnUnsubscribe,
                OnDisconnectFlush, CanSend, IInv, PlaceInv
  <2> QED
    BY <2>1 DEF ChainInv
<1>5. CASE DrainReceive
  BY <1>5, DrainReceiveKeepsChain
<1>6. CASE \/ DrainTake \/ DrainReady \/ DrainIdle \/ DrainGate \/ DrainRefused
           \/ DrainTimeout
  <2>1. Kept' /\ CanSend' = CanSend
    BY <1>6 DEF DrainTake, DrainReady, DrainIdle, DrainGate, DrainRefused,
                DrainTimeout, Kept, CanSend
  <2>2. UNCHANGED <<session, stream, batch, pending, numbered, got>>
        /\ (slipped => slipped')
    BY <1>6, QuietSteps DEF units
  <2> QED
    BY <2>1, <2>2, ChainGoesOn
<1>7. CASE DrainNotify
  <2>1. UNCHANGED <<session, stream, batch, pending, numbered, got, slipped>>
        /\ CanSend' = CanSend
    BY <1>7 DEF DrainNotify, CanSend
  <2>2. CASE CanSend
    <3>1. /\ inflight' # <<>> /\ inflight'[Len(inflight) + 1] = pending
          /\ Len(inflight') = Len(inflight) + 1
      <4>1. inflight' = Append(inflight, pending)
        BY <1>7, <2>2 DEF DrainNotify
      <4>2. inflight \in Seq(Seq(Units)) /\ pending \in Seq(Units)
        BY TypeFacts DEF IInv
      <4> QED
        BY <4>1, <4>2, AppendProperties
    <3>2. Kept'
      BY <1>7, <3>1 DEF DrainNotify, Kept
    <3> QED
      BY <2>1, <3>2, ChainGoesOn
  <2>3. CASE ~CanSend
    BY <2>1, <2>3 DEF ChainInv
  <2> QED
    BY <2>2, <2>3
<1>8. CASE DrainWait
  <2>1. /\ UNCHANGED <<session, stream, batch, pending, numbered, got,
                       inflight>>
        /\ UNCHANGED lastStatus /\ CanSend' = CanSend
        /\ pcD = "wait" /\ pcD' = "status"
        /\ slipped' = (slipped \/ inflight # <<>>)
    BY <1>8 DEF DrainWait, CanSend
  <2>2. ~slipped' /\ Kept => Kept'
    BY <2>1 DEF Kept
  <2>3. slipped => slipped'
    BY <2>1
  <2> QED
    BY <2>1, <2>2, <2>3, ChainGoesOn
<1>9. CASE DrainStatus
  BY <1>9, DrainStatusKeepsChain
<1>10. CASE OnSubscribe
  BY <1>10, OnSubscribeKeepsChain
<1>11. ASSUME NEW code \in {"ok", "error"}, OnStatus(code) PROVE ChainInv'
  BY <1>11, OnStatusKeepsChain
<1>12. CASE Give \/ UNCHANGED vars
  <2>1. UNCHANGED <<session, stream, batch, pending, numbered, got, slipped,
                    inflight, lastStatus, pcD, connected, subscribed>>
    BY <1>12 DEF Give, vars
  <2> QED
    BY <2>1, ChainGoesOn DEF Kept, CanSend
<1> QED
  BY <1>1, <1>2, <1>3, <1>4, <1>5, <1>6, <1>7, <1>8, <1>9, <1>10, <1>11, <1>12
     DEF Next, Producer, Drain, Stack

LEMMA StepInv == IInv /\ [Next]_vars => IInv'
  BY TypeStep, TokenStep, PlaceStep, OldStep, FlightStep, ChainStep, PhoneStep
     DEF IInv

LEMMA AlwaysInv == Spec => []IInv
  BY InitInv, StepInv, PTL DEF Spec

-----------------------------------------------------------------------------

(* Every variable keeps its type; above all the stream buffer never holds  *)
(* more than its size and a notification never more than its chunk.        *)
THEOREM ManagerTyped == Spec => []TypeOK
<1>1. IInv => TypeOK
  BY DEF IInv
<1> QED
  BY AlwaysInv, <1>1, PTL

(* No byte is lost in the middle of a session unless a wait of the drain   *)
(* task was ended by a give that was not its own.                          *)
THEOREM NothingIsSkipped == Spec => []NothingSkipped
<1>1. IInv => NothingSkipped
  BY DEF IInv
<1> QED
  BY AlwaysInv, <1>1, PTL

(* The drain task never waits for a give that nobody owes.                 *)
THEOREM DrainAlwaysCanTake == Spec => []DrainCanTake
<1>1. IInv => DrainCanTake
  BY DEF IInv, TokenInv, DrainCanTake, CanSend
<1> QED
  BY AlwaysInv, <1>1, PTL

-----------------------------------------------------------------------------
(* The refinement of GfxPipe.                                              *)

LEMMA PipeInit == Init => Pipe!Init
  BY DEF Init, Pipe!Init

LEMMA PipeStep == IInv /\ IInv' /\ [Next]_vars => [Pipe!Next]_Pipe!vars
<1> SUFFICES ASSUME IInv, IInv', [Next]_vars PROVE [Pipe!Next]_Pipe!vars
  OBVIOUS
<1> USE DEF Pipe!vars, flags, producer, drain, phone, GiveBack
<1>1. ASSUME NEW k \in 1..BatchMax, SendEnter(k) PROVE Pipe!Next
  <2>1. Pipe!Accept(k)
    BY <1>1 DEF SendEnter, Pipe!Accept
  <2> QED
    BY <2>1 DEF Pipe!Next
<1>2. CASE \/ SendCheck \/ SendPut \/ DrainDiscard \/ DrainReceive
           \/ DrainStatus \/ OnDisconnectFlush \/ DrainNotify \/ OnDisconnect
           \/ DrainTake \/ DrainReady \/ DrainIdle \/ DrainGate
           \/ DrainRefused \/ DrainTimeout \/ OnConnect \/ OnUnsubscribe
           \/ Give \/ UNCHANGED vars
  <2>1. UNCHANGED <<session, numbered, got, gap, slipped>>
    <3>1. CASE \/ SendCheck \/ SendPut \/ DrainDiscard \/ DrainReceive
               \/ DrainStatus \/ OnDisconnectFlush \/ DrainNotify
               \/ OnDisconnect
      BY <3>1 DEF SendCheck, SendPut, DrainDiscard, DrainReceive, DrainStatus,
                  OnDisconnectFlush, DrainNotify, OnDisconnect
    <3>2. CASE \/ DrainTake \/ DrainReady \/ DrainIdle \/ DrainGate
               \/ DrainRefused \/ DrainTimeout \/ OnConnect \/ OnUnsubscribe
               \/ Give \/ UNCHANGED vars
      BY <3>2 DEF DrainTake, DrainReady, DrainIdle, DrainGate, DrainRefused,
                  DrainTimeout, OnConnect, OnUnsubscribe, Give, vars
    <3> QED
      BY <1>2, <3>1, <3>2
  <2> QED
    BY <2>1
<1>3. CASE DrainWait
  <2>1. /\ UNCHANGED <<session, numbered, got, gap>>
        /\ slipped' = (slipped \/ inflight # <<>>)
    BY <1>3 DEF DrainWait
  <2>2. CASE inflight = <<>>
    <3>1. slipped' = slipped
      BY <2>1, <2>2 DEF IInv, TypeOK
    <3> QED
      BY <2>1, <3>1
  <2>3. CASE inflight # <<>>
    BY <2>1, <2>3 DEF Pipe!Next, Pipe!Slip
  <2> QED
    BY <2>1, <2>2, <2>3
<1>4. CASE OnSubscribe
  <2>1. CASE subscribed
    BY <1>4, <2>1 DEF OnSubscribe
  <2>2. CASE ~subscribed
    BY <1>4, <2>2 DEF OnSubscribe, Pipe!Next, Pipe!Subscribe
  <2> QED
    BY <2>1, <2>2
<1>5. ASSUME NEW code \in {"ok", "error"}, OnStatus(code)
      PROVE  [Pipe!Next]_Pipe!vars
  <2>1. UNCHANGED <<session, numbered, slipped>> /\ inflight # <<>>
    BY <1>5 DEF OnStatus
  <2>2. CASE code = "ok"
    <3>1. PhoneReceives(inflight[1]) /\ 1 \in 1..Len(inflight)
      BY <1>5, <2>1, <2>2, Landed DEF OnStatus, IInv
    <3>2. PICK a \in Counts, b \in Counts :
            Run(session, inflight[1], a, b) /\ b <= numbered
      BY <3>1 DEF FlightInv, IInv
    <3>3. /\ got' \in Nat /\ got \in Nat /\ numbered \in Nat
          /\ got <= got' /\ got' <= numbered /\ numbered <= MaxUnits
      BY <3>1, <3>2, TypeFacts, PhoneAdvances, Sizes DEF Counts, IInv
    <3>4. got' \in 0..MaxUnits
      BY <3>3, Sizes
    <3>5. CASE gap' = gap /\ got' = got
      BY <2>1, <3>5
    <3>6. CASE gap' = gap /\ got < got'
      <4>1. Pipe!Deliver(got')
        BY <2>1, <3>3, <3>6 DEF Pipe!Deliver
      <4> QED
        BY <3>4, <4>1 DEF Pipe!Next
    <3>7. CASE gap' # gap
      <4>1. gap' = TRUE
        BY <3>1, <3>7 DEF PhoneReceives, IInv, TypeOK
      <4>2. slipped
        BY <2>1, <4>1 DEF IInv, NothingSkipped
      <4>3. Pipe!DeliverWithLoss(got')
        BY <2>1, <3>3, <4>1, <4>2 DEF Pipe!DeliverWithLoss
      <4> QED
        BY <3>4, <4>3 DEF Pipe!Next
    <3> QED
      BY <3>3, <3>5, <3>6, <3>7
  <2>3. CASE code # "ok"
    BY <1>5, <2>1, <2>3 DEF OnStatus
  <2> QED
    BY <2>2, <2>3
<1> QED
  BY <1>1, <1>2, <1>3, <1>4, <1>5 DEF Next, Producer, Drain, Stack

(* The tasks, the buffer, the retries and the callbacks together are a     *)
(* pipe that hands the units of a session to the phone in order.           *)
THEOREM ManagerIsPipe == Spec => ImplementsPipe
<1>1. Init => Pipe!Init
  BY PipeInit
<1>2. IInv /\ IInv' /\ [Next]_vars => [Pipe!Next]_Pipe!vars
  BY PipeStep
<1>3. Spec => Pipe!Spec
  BY <1>1, <1>2, AlwaysInv, PTL DEF Spec, Pipe!Spec
<1> QED
  BY <1>3 DEF ImplementsPipe

=============================================================================
