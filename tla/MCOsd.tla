-------------------------------- MODULE MCOsd --------------------------------
(* Bounds for Osd. *)
EXTENDS Osd
=============================================================================
