---------------------------- MODULE MCGpsModule -----------------------------
(* GpsModule with three readings on either side of north.                  *)
EXTENDS GpsModule

MCReadings == {[speed |-> 0, course |-> 10], [speed |-> 10, course |-> 40],
               [speed |-> 25, course |-> 350]}
=============================================================================
