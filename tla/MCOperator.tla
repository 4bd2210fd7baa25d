----------------------------- MODULE MCOperator -----------------------------
(* An instance of Operator for TLC: one CR on the main, two nodes. *)
EXTENDS Operator

CONSTANTS m, a, b, c1

AllOnMain == [c \in CRs |-> Main]
OneStripe == [v \in VMs |-> 0]
OneRegime == {[patient |-> Patient, faults |-> MaxFaults, flips |-> MaxFlips,
               timeouts |-> MaxTimeouts, booted |-> TRUE]}
AnyDesire == [c \in CRs |-> {"Hibernate", "Wake"}]
=============================================================================
