--------------------------- MODULE MCSkipListEdit ---------------------------
(* Bounds for SkipListEdit. *)
EXTENDS SkipListEdit
===========================================================================
