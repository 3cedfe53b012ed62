---------------------------- MODULE MCSkipSetup ----------------------------
(* Bounds for SkipSetup. *)
EXTENDS SkipSetup, TLC
RangeSymmetry == Permutations(Ranges)
===========================================================================
