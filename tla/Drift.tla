------------------------------- MODULE Drift -------------------------------
(* The pod a CocoonSet's spec describes, and the comparison that finds a pod drifted
   from it: cocoonset/pods.go.

   Between the two stands the API server: what a pass compares is never the pod it
   built but that pod with the defaults of its admission.  The comparison has to undo
   them; where it does not, every new pod drifts at once and is deleted again.

   Simplifications:
     - one template stands for the fields of agents and of toolboxes;
     - the VM options that FromAgentSpec and FromToolboxSpec copy to annotations, and
       ParseVMSpec reads back, are one value, apart from the mode and the disk size;
     - names, labels, the owner, tolerations and the main's affinity are not compared by
       the code and are left out; so is a manual edit of a fork's parent. *)
CONSTANTS Options,          \* images, backends, operating systems, ports
          Quantities,       \* resource quantities
          Pools, DefaultPool,
          Classes,          \* snapshot compatibility classes
          Accounts, DefaultAccount,
          Envs,             \* envFrom lists
          Hints,            \* VM id, IP and VNC port of a static toolbox
          None,             \* an unset field
          LimitRange        \* LimitRange[r]: the limit an external defaulter adds, or None

Roles == {"main", "sub", "toolbox"}
Resources == {"cpu", "memory"}
Optional(S) == S \cup {None}
Lists == [Resources -> Optional(Quantities)]
Modes == {"run", "static"}
VMSpecs == [options : Options, mode : Modes, storage : Optional(Quantities)]

ASSUME DriftAssumption ==
    /\ DefaultPool \in Pools /\ DefaultAccount \in Accounts
    /\ None \notin Quantities /\ None \notin Pools \cup Classes \cup Accounts \cup Hints
    /\ LimitRange \in Lists

Templates ==
    [vm : VMSpecs, pool : Optional(Pools), class : Optional(Classes),
     account : Optional(Accounts), env : Optional(Envs), limits : Lists, requests : Lists,
     hints : Hints]

(* disk is the ephemeral-storage of both resource lists. *)
PodSpecs ==
    [vm : VMSpecs, pool : Pools, class : Optional(Classes),
     account : Optional(Accounts), env : Optional(Envs), limits : Lists, requests : Lists,
     disk : Optional(Quantities), hints : Optional(Hints)]

Or(a, b) == IF a = None THEN b ELSE a

-----------------------------------------------------------------------------
(* Building *)

newManagedPod(t) ==
    [vm |-> t.vm, pool |-> Or(t.pool, DefaultPool), class |-> t.class,
     account |-> None, env |-> None, limits |-> t.limits, requests |-> t.requests,
     disk |-> t.vm.storage, hints |-> None]

buildAgentPod(t) == [newManagedPod(t) EXCEPT !.account = t.account, !.env = t.env]

buildToolboxPod(t) ==
    [newManagedPod(t) EXCEPT !.hints = IF t.vm.mode = "static" THEN t.hints ELSE None]

buildPod(role, t) == IF role = "toolbox" THEN buildToolboxPod(t) ELSE buildAgentPod(t)

(* What the API server makes of a pod: a missing limit from the defaulter, a missing
   request from its limit, a missing service account. *)
Limits(q) == [r \in Resources |-> Or(q.limits[r], LimitRange[r])]

Admit(q) ==
    [vm |-> q.vm, pool |-> q.pool, class |-> q.class,
     account |-> Or(q.account, DefaultAccount), env |-> q.env, limits |-> Limits(q),
     requests |-> [r \in Resources |-> Or(q.requests[r], Limits(q)[r])],
     disk |-> q.disk, hints |-> q.hints]

(* The pod the API server holds for a role once it is built from a template. *)
Stored(role, t) == Admit(buildPod(role, t))

-----------------------------------------------------------------------------
(* Comparing *)

(* Mutant: the request that API defaulting fills in is not mirrored. *)
requestsAsWritten(q, t) ==
    \A r \in Resources : q.limits[r] = t.limits[r] /\ q.requests[r] = t.requests[r]

(* Mutant: requests are taken to follow their limits. *)
limitsMatch(q, t) == \A r \in Resources : q.limits[r] = t.limits[r]

resourcesMatch(q, t) ==
    \A r \in Resources : /\ q.limits[r] = t.limits[r]
                         /\ q.requests[r] = Or(t.requests[r], t.limits[r])

(* A live pod from before the class was set is adopted. *)
schedulingMatches(q, terminal, t) ==
    /\ q.pool = Or(t.pool, DefaultPool)
    /\ q.class = t.class \/ (q.class = None /\ ~terminal)

podSpecMatchesAgent(q, terminal, t) ==
    /\ q.vm = t.vm /\ resourcesMatch(q, t)
    /\ Or(q.account, DefaultAccount) = Or(t.account, DefaultAccount)
    /\ q.env = t.env
    /\ schedulingMatches(q, terminal, t)

podSpecMatchesToolbox(q, terminal, t) ==
    /\ q.vm = t.vm /\ resourcesMatch(q, t)
    /\ schedulingMatches(q, terminal, t)
    /\ t.vm.mode = "static" => q.hints = t.hints

podSpecMatches(role, q, terminal, t) ==
    IF role = "toolbox" THEN podSpecMatchesToolbox(q, terminal, t)
    ELSE podSpecMatchesAgent(q, terminal, t)

-----------------------------------------------------------------------------
(* The reference the comparison is judged by: the pod is the one the API server would
   hold if it were built now, but for the class of a pod that has none. *)
UpToDate(role, q, t) ==
    q.class \in {None, t.class} /\ q = Stored(role, [t EXCEPT !.class = q.class])
=============================================================================
