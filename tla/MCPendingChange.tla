-------------------------- MODULE MCPendingChange --------------------------
(* PendingChange with small sets for TLC.  The safety run also checks      *)
(* liveness, so neither run uses symmetry.                                 *)
EXTENDS PendingChange
=============================================================================
