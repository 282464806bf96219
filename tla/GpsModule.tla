------------------------------ MODULE GpsModule ------------------------------
(***************************************************************************)
(* src/GPS/GPSModule.cpp: update() takes a sample of speed and course into *)
(* two rings whenever loop() calls it and publishes their averages with a  *)
(* fix; hasNewData() hands each fix out once.  TinyGPS++, which turns UART *)
(* bytes into sentences, is outside src/: the model has the sentences that *)
(* came since the last call.  Position, altitude and quality are copied by *)
(* the code and left out; a double is a natural number.                    *)
(***************************************************************************)
EXTENDS Integers, Sequences

CONSTANTS
    SpeedSamples,   \* SPEED_SAMPLES
    Readings,       \* [speed, course] a sentence may carry
    NoReading       \* no sentence with a speed so far

ASSUME SamplesAssumption ==
    /\ SpeedSamples \in Nat \ {0}
    /\ Readings \subseteq [speed : Nat, course : 0..359]
    /\ NoReading \notin Readings

VARIABLES
    reading,        \* _gps.speed and _gps.course; NoReading: not valid
    speedBuf, courseBuf,        \* _speedBuf, _courseBuf
    sampleIndex, bufferFilled,  \* _sampleIndex, _bufferFilled
    data, newData,  \* _data, _newData
    pc              \* loop(): gps.update(), then gps.hasNewData()

rings == <<speedBuf, courseBuf, sampleIndex, bufferFilled>>
vars == <<reading, rings, data, newData, pc>>

Slots == 0..(SpeedSamples - 1)

(* The object is a global: its rings start as zeros. *)
Init ==
    /\ reading = NoReading
    /\ speedBuf = [i \in Slots |-> 0] /\ courseBuf = [i \in Slots |-> 0]
    /\ sampleIndex = 0 /\ bufferFilled = FALSE
    /\ data = [speed |-> 0, course |-> 0] /\ newData = FALSE
    /\ pc = "update"

-----------------------------------------------------------------------------

(* Fault: the ring is taken for full as soon as it has a sample. *)
AverageAll(buf, filled, index) ==
    LET count == IF filled \/ index > 0 THEN SpeedSamples ELSE 0
        sum[i \in 0..count] == IF i = 0 THEN 0 ELSE sum[i - 1] + buf[i - 1]
    IN  IF count = 0 THEN 0 ELSE sum[count] \div count

average(buf, filled, index) ==
    LET count == IF filled THEN SpeedSamples ELSE index
        sum[i \in 0..count] == IF i = 0 THEN 0 ELSE sum[i - 1] + buf[i - 1]
    IN  IF count = 0 THEN 0 ELSE sum[count] \div count

(* Fault: the index is compared one too late. *)
SampleWrapsLate ==
    IF reading' = NoReading THEN UNCHANGED rings
    ELSE /\ speedBuf' = [speedBuf EXCEPT ![sampleIndex] = reading'.speed]
         /\ courseBuf' = [courseBuf EXCEPT ![sampleIndex] = reading'.course]
         /\ sampleIndex' = (sampleIndex + 1) % (SpeedSamples + 1)
         /\ bufferFilled' = (bufferFilled \/ sampleIndex = SpeedSamples)

(* the sample taken on every call, once a sentence has had a speed *)
Sample ==
    IF reading' = NoReading THEN UNCHANGED rings
    ELSE /\ speedBuf' = [speedBuf EXCEPT ![sampleIndex] = reading'.speed]
         /\ courseBuf' = [courseBuf EXCEPT ![sampleIndex] = reading'.course]
         /\ sampleIndex' = (sampleIndex + 1) % SpeedSamples
         /\ bufferFilled' = (bufferFilled \/ sampleIndex + 1 = SpeedSamples)

(* the averages, after the sample, published with a new position *)
Publish(located) ==
    IF ~located THEN UNCHANGED <<data, newData>>
    ELSE /\ data' = [speed  |-> average(speedBuf', bufferFilled', sampleIndex'),
                     course |-> average(courseBuf', bufferFilled', sampleIndex')]
         /\ newData' = TRUE

(* the sentences that came since the last call: an RMC, the last one with  *)
(* reading r, or GGAs alone (a position and no speed)                      *)
UpdateRmc(r) ==
    /\ pc = "update"
    /\ reading' = r
    /\ Sample /\ Publish(TRUE)
    /\ pc' = "poll"

Update(located) ==
    /\ pc = "update"
    /\ UNCHANGED reading
    /\ Sample /\ Publish(located)
    /\ pc' = "poll"

HasNewData ==
    /\ pc = "poll" /\ pc' = "update"
    /\ newData' = FALSE
    /\ UNCHANGED <<reading, rings, data>>

Next == \/ \E r \in Readings : UpdateRmc(r)
        \/ \E located \in BOOLEAN : Update(located)
        \/ HasNewData

Spec == Init /\ [][Next]_vars

-----------------------------------------------------------------------------
(* Properties.                                                             *)

(* Every variable keeps its type; the index stays within the rings. *)
TypeOK ==
    /\ reading \in Readings \cup {NoReading}
    /\ speedBuf \in [Slots -> Nat] /\ courseBuf \in [Slots -> 0..359]
    /\ sampleIndex \in Slots
    /\ bufferFilled \in BOOLEAN /\ newData \in BOOLEAN
    /\ data \in [speed : Nat, course : 0..359]
    /\ pc \in {"update", "poll"}

(* The samples that count, oldest first. *)
Window ==
    LET count == IF bufferFilled THEN SpeedSamples ELSE sampleIndex
        slot(i) == (sampleIndex - count + i - 1 + SpeedSamples) % SpeedSamples
    IN [i \in 1..count |-> [speed  |-> speedBuf[slot(i)],
                            course |-> courseBuf[slot(i)]]]

(* The rings, their index and their flag are a sliding window over the     *)
(* newest samples: no average counts a slot that was never written or a    *)
(* sample too old, and each fix is handed out once.                        *)
Sliding == INSTANCE GpsWindow WITH window <- Window, fresh <- newData
ImplementsWindow == Sliding!Spec

=============================================================================
