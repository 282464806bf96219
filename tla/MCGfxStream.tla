---------------------------- MODULE MCGfxStream -----------------------------
(* GfxStream with a small buffer for TLC.                                  *)
EXTENDS GfxStream

(* none, less than the buffer, just less, all of it, and more *)
MCBitmaps == {<<8, n>> : n \in {0, 7, 39, 40, 41}}
=============================================================================
