------------------------------ MODULE WifiLink -------------------------------
(***************************************************************************)
(* The WiFi link as main.cpp sees it: whether frames can be sent, and the  *)
(* one callback it acts on, onConnected, made when a client replaces       *)
(* another.  WiFiManager implements it; MainLoop drives its WiFi phones    *)
(* with it.                                                                *)
(***************************************************************************)

VARIABLES
    up,             \* the device is not restarting
    station,        \* isConnected()
    held,           \* clientConnected(): the manager has a client ...
    open,           \* ... which is not closed: what is sent can reach it
    taking,         \* a client is being installed
    announce        \* onConnected for it: "none", "due" or "done"

vars == <<up, station, held, open, taking, announce>>

Init == /\ up = TRUE /\ station = TRUE /\ held = FALSE /\ open = FALSE
        /\ taking = FALSE /\ announce = "none"

(* a client comes and there is none: no callback *)
Accept ==
    /\ ~held /\ ~taking
    /\ taking' = TRUE /\ announce' = "none"
    /\ up' = up /\ station' = station /\ held' = held /\ open' = open

(* a client comes and there is one: it is let go ... *)
Takeover ==
    /\ held /\ ~taking
    /\ held' = FALSE /\ open' = FALSE /\ taking' = TRUE /\ announce' = "due"
    /\ up' = up /\ station' = station

(* ... and onConnected is called *)
Announce ==
    /\ taking /\ announce = "due" /\ announce' = "done"
    /\ up' = up /\ station' = station /\ held' = held /\ open' = open
    /\ taking' = taking

(* the new client is in place; it may have been closed meanwhile *)
Taken ==
    /\ taking /\ announce # "due"
    /\ taking' = FALSE /\ announce' = "none"
    /\ held' = TRUE /\ open' \in BOOLEAN
    /\ up' = up /\ station' = station

(* the client is closed, by either side, or lost; it is let go then ... *)
Leave ==
    /\ open /\ open' = FALSE
    /\ held' \in BOOLEAN
    /\ up' = up /\ station' = station /\ taking' = taking /\ announce' = announce

(* ... or later *)
Unlink ==
    /\ held /\ ~open
    /\ held' = FALSE
    /\ up' = up /\ station' = station /\ open' = open
    /\ taking' = taking /\ announce' = announce

(* the network goes, with the client's connection or not, and comes back *)
StationLost ==
    /\ station /\ station' = FALSE
    /\ open' \in {open, FALSE}
    /\ up' = up /\ held' = held /\ taking' = taking /\ announce' = announce

StationBack ==
    /\ ~station /\ station' = TRUE
    /\ up' = up /\ held' = held /\ open' = open
    /\ taking' = taking /\ announce' = announce

(* the device restarts after a panic *)
Panic ==
    /\ up /\ up' = FALSE
    /\ station' = TRUE /\ held' = FALSE /\ open' = FALSE
    /\ taking' = FALSE /\ announce' = "none"

Reboot ==
    /\ ~up /\ up' = TRUE
    /\ station' = station /\ held' = held /\ open' = open
    /\ taking' = taking /\ announce' = announce

Next == \/ up /\ (Accept \/ Takeover \/ Announce \/ Taken \/ Leave \/ Unlink
                  \/ StationLost \/ StationBack)
        \/ Panic \/ Reboot

Spec == Init /\ [][Next]_vars
=============================================================================
