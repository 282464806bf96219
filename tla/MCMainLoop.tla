----------------------------- MODULE MCMainLoop -----------------------------
(* MainLoop on small instances; MCMain*.cfg give the constants values.     *)
EXTENDS MainLoop
=============================================================================
