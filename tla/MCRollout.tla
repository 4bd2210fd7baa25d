----------------------------- MODULE MCRollout -----------------------------
(* Instances of Rollout for TLC: templates that differ in what defaulting touches, in the
   class a live pod may lack, and in a static toolbox's hints; a LimitRange rewrites the
   pods of the last two. *)
EXTENDS Rollout

Unset == [r \in Resources |-> None]
Cpu(n) == [Unset EXCEPT !["cpu"] = n]
CpuDefault == Cpu(2)

Plain ==
    [vm |-> [options |-> "image", mode |-> "run", storage |-> None], pool |-> None,
     class |-> None, account |-> None, env |-> None, limits |-> Unset, requests |-> Unset,
     hints |-> "vm1"]
Limited == [Plain EXCEPT !.limits = Cpu(2), !.vm.storage = 1]
Requested == [Limited EXCEPT !.requests = Cpu(1), !.account = "default"]
Classed == [Limited EXCEPT !.class = "abi", !.pool = "pool"]
Static(h) == [Plain EXCEPT !.vm.mode = "static", !.hints = h]

SomeSpecs == {Limited, Requested, Classed, Static("vm1"), Static("vm2")}
=============================================================================
