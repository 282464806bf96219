--------------------------- MODULE MCWiFiSilence ---------------------------
(* WiFiManager with a history variable: for how many ticks the manager has *)
(* been waiting for a pong without a break.  Time passes between the passes *)
(* of update() only, so no delay of the heartbeat task is involved.        *)
EXTENDS WiFiManager

VARIABLE silence

SilenceCap == PongTimeout + 2

SilenceSpec ==
    /\ Init /\ silence = 0
    /\ [][ /\ Next /\ (Tick => pcH = "idle")
           /\ silence' = IF ~waiting' THEN 0
                         ELSE IF Tick THEN Older(silence, SilenceCap) ELSE silence
         ]_<<vars, silence>>

(* A pass of the watchdog that keeps the client has seen a pong within the *)
(* last PongTimeout (plus the tick in which the pass runs).                *)
PongTimeoutEnforced == pcH = "due" => silence <= PongTimeout

=============================================================================
