---------------------------- MODULE MCIPhoneTFT -----------------------------
(* IPhoneTFT with the cursor and the text size; of the three values "2x1"  *)
(* is a size of two scales.                                                *)
EXTENDS IPhoneTFT

MCAttrs == {"cursor", "size"}

MCValues == {"1x1", "2x1", "2x2"}

MCSent == [a \in MCAttrs |-> [v \in MCValues |->
              IF a = "size" /\ v = "2x1" THEN "2x2" ELSE v]]
=============================================================================
