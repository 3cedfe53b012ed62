-------------------------- MODULE MCDiagnosticsLog --------------------------
(* Bounds for DiagnosticsLog. *)
EXTENDS DiagnosticsLog
=============================================================================
