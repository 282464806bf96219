------------------------------- MODULE GfxPipe -------------------------------
(***************************************************************************)
(* What the BLE link promises to the graphics code above it, without tasks, *)
(* buffers or callbacks: the units handed over in a session reach the phone *)
(* in their order and none is missed, for as long as the link is sound.    *)
(* BleManager implements it.                                               *)
(***************************************************************************)
EXTENDS Integers

CONSTANTS
    BatchMax,       \* units handed over at once
    MaxUnits,       \* bound: units of a session
    MaxSession      \* bound: sessions

VARIABLES
    session,        \* subscriptions so far
    sent,           \* units handed over in this session
    got,            \* the phone has units 1..got of this session ...
    lost,           \* ... but for one it missed, if this is TRUE
    sound           \* no chunk was given up before its status

vars == <<session, sent, got, lost, sound>>

Init == session = 0 /\ sent = 0 /\ got = 0 /\ lost = FALSE /\ sound = TRUE

(* a phone subscribes: it starts over *)
Subscribe ==
    /\ session < MaxSession
    /\ session' = session + 1
    /\ sent' = 0 /\ got' = 0 /\ lost' = FALSE /\ sound' = TRUE

(* the graphics code hands over k units *)
Accept(k) ==
    /\ sent + k <= MaxUnits
    /\ sent' = sent + k
    /\ UNCHANGED <<session, got, lost, sound>>

(* the phone gets the next units *)
Deliver(n) ==
    /\ got < n /\ n <= sent
    /\ got' = n
    /\ UNCHANGED <<session, sent, lost, sound>>

(* the link gives up waiting for a chunk *)
Slip ==
    /\ sound' = FALSE
    /\ UNCHANGED <<session, sent, got, lost>>

(* from then on the phone may miss units *)
DeliverWithLoss(n) ==
    /\ ~sound
    /\ got <= n /\ n <= sent
    /\ got' = n /\ lost' = TRUE
    /\ UNCHANGED <<session, sent, sound>>

Next == \/ Subscribe \/ Slip
        \/ \E k \in 1..BatchMax : Accept(k)
        \/ \E n \in 0..MaxUnits : Deliver(n) \/ DeliverWithLoss(n)

Spec == Init /\ [][Next]_vars
=============================================================================
