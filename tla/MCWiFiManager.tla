--------------------------- MODULE MCWiFiManager ---------------------------
(* WiFiManager on small instances for TLC.                                 *)
EXTENDS WiFiManager, TLC

SessionSymmetry == Permutations(Session)
=============================================================================
