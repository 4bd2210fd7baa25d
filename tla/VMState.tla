------------------------------ MODULE VMState ------------------------------
(* What the operator promises about a VM's live state: from its first boot on there is
   always exactly one place that holds it, a node or the registry, and it goes from
   node to node only through the registry.  cocoonset/migrate.go:22 "never loses live
   state". *)
CONSTANTS Nodes, Registry, Unborn

VARIABLE home           \* where the VM's latest state is

Init == home \in Nodes \cup {Unborn}

(* The VM boots from its image, once. *)
Boot == home = Unborn /\ home' \in Nodes

(* The VM is hibernated: its push lands. *)
Save == home \in Nodes /\ home' = Registry

(* The VM is woken, or restored on a node of the operator's choice. *)
Restore == home = Registry /\ home' \in Nodes

Next == Boot \/ Save \/ Restore

Spec == Init /\ [][Next]_home
=============================================================================
