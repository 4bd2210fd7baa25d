----------------------------- MODULE MCSuspend -----------------------------
(* Instances of Suspend for TLC. *)
EXTENDS Suspend

CONSTANTS m, s, t
=============================================================================
