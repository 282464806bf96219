------------------------------ MODULE GpsWindow ------------------------------
(***************************************************************************)
(* What GPSModule promises: the speed and the course it publishes with a   *)
(* fix are means over the newest samples, and each fix is handed out once. *)
(* GpsModule implements it with a ring.                                    *)
(***************************************************************************)
EXTENDS Integers, Sequences

CONSTANTS
    SpeedSamples,   \* samples that count
    Readings,       \* [speed, course] of a sentence
    NoReading       \* no sentence with a speed so far

VARIABLES
    reading,        \* what the receiver said last
    window,         \* the newest samples, oldest first
    data,           \* speed and course published with the last fix
    fresh           \* nobody has taken that fix yet

vars == <<reading, window, data, fresh>>

Mean(s) ==
    LET sum[i \in 0..Len(s)] == IF i = 0 THEN 0 ELSE sum[i - 1] + s[i]
    IN  IF s = <<>> THEN 0 ELSE sum[Len(s)] \div Len(s)

Means(w) == [speed  |-> Mean([i \in DOMAIN w |-> w[i].speed]),
             course |-> Mean([i \in DOMAIN w |-> w[i].course])]

Newest(s) == IF Len(s) > SpeedSamples THEN Tail(s) ELSE s

Init == /\ reading = NoReading
        /\ window = <<>>
        /\ data = Means(<<>>)
        /\ fresh = FALSE

Update ==
    /\ reading' \in {reading} \cup Readings
    /\ window' = IF reading' = NoReading THEN window
                 ELSE Newest(Append(window, reading'))
    /\ \/ data' = Means(window') /\ fresh' = TRUE
       \/ UNCHANGED <<data, fresh>>

Take == fresh /\ fresh' = FALSE /\ UNCHANGED <<reading, window, data>>

Next == Update \/ Take

Spec == Init /\ [][Next]_vars
=============================================================================
