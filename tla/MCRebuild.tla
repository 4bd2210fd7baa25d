----------------------------- MODULE MCRebuild -----------------------------
(* The instance of Rebuild for TLC: one slot. *)
EXTENDS Rebuild

CONSTANT p1
=============================================================================
