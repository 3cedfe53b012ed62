--------------------------- MODULE MCSkipMarking ---------------------------
(* Bounds for SkipMarking. *)
EXTENDS SkipMarking
===========================================================================
