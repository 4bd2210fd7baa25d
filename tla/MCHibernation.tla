--------------------------- MODULE MCHibernation ---------------------------
(* Instances of Hibernation for TLC: one CR, or two CRs that share a VM. *)
EXTENDS Hibernation, TLC

CONSTANTS c1, c2, v1

AllOnV1 == [c \in CRs |-> v1]
OneStripe == [v \in VMs |-> 0]
AnyDesire == [c \in CRs |-> {"Hibernate", "Wake"}]
OnlyHibernate == [c \in CRs |-> {"Hibernate"}]

Regime(patient, f, e, t) ==
    [patient |-> patient, faults |-> f, flips |-> e, timeouts |-> t, booted |-> TRUE]

(* A hasty user whom nothing fails, a patient one with failures and a timeout, or a CR
   that is there before its pod. *)
HastyOrFaulty ==
    {Regime(FALSE, 0, 4, 0), Regime(TRUE, 2, 3, 1),
     [Regime(FALSE, 0, 3, 0) EXCEPT !.booted = FALSE]}

(* Whatever the bounds allow. *)
Hasty == {Regime(FALSE, MaxFaults, MaxFlips, MaxTimeouts)}
=============================================================================
