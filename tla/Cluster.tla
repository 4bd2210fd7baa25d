------------------------------ MODULE Cluster ------------------------------
(* The world both reconcilers act on: the managed pods, the registry's
   :hibernate tags and vk-cocoon, the virtual kubelet that runs the VMs.

   vk-cocoon and the registry are other programs.  What is said of them here is
   what the operator's code relies on, at the lines quoted:

     - a pod name and its VM name stand one to one, so both are a member of VMs;
     - vk hibernates a VM whose pod carries the hibernate annotation and wakes it
       when the annotation goes; it "flips neither the tag nor the annotations
       until the transition ends" (hibernation/reconciler.go:137);
     - it reports hibernated "only after this round's push"
       (cocoonset/suspend.go:112), state and observed generation in one write;
     - it stamps the generation it read when it started the transition, and a VM
       at rest echoes a later stamp (cocoonset/lifecycle.go:13);
     - a wake or a restore reads the tag until it ends (docs/cocoonset.md:10).

   A tag is abstracted to what the properties tell apart: "fresh" is the only
   copy of the VM's state, "stale" was pushed by a VM that has run since or that
   another VM has replaced. *)
EXTENDS Naturals

CONSTANTS VMs,          \* the managed VMs, each with its pod
          MaxGen,       \* bound on the CocoonSet generation stamped on a pod
          MaxFaults     \* bound on failed calls, crashes and failed VM transitions

ASSUME ClusterAssumption == MaxGen \in Nat \ {0} /\ MaxFaults \in Nat

VARIABLES pod,          \* pod[v]: the pod as the API server holds it
          tag,          \* tag[v]: the registry's v:hibernate manifest
          vk,           \* vk[v]: what vk-cocoon is doing with the VM
          vkGen,        \* vkGen[v]: the generation vk read when the transition began
          faults        \* failures that may still happen

clusterVars == <<pod, tag, vk, vkGen, faults>>

Generations == 0..MaxGen

(* VM spec and lifecycle annotations of a managed pod; live is meta.VMLive, a
   running container with a freshly written VM id. *)
Pods == [at      : {"absent", "present", "terminating"},
         named   : BOOLEAN,       \* carries the VMName annotation
         restore : BOOLEAN,       \* marked restore-from-hibernate
         hib     : BOOLEAN,       \* the hibernate annotation
         gen     : Generations,   \* the stamped CocoonSet generation
         state   : {"none", "ready", "hibernated", "failed"},
         obs     : Generations,   \* lifecycle-observed-generation
         live    : BOOLEAN]

NoPod == [at |-> "absent", named |-> FALSE, restore |-> FALSE, hib |-> FALSE,
          gen |-> 0, state |-> "none", obs |-> 0, live |-> FALSE]

NewPod(named, restore, gen) ==
    [NoPod EXCEPT !.at = "present", !.named = named, !.restore = restore, !.gen = gen]

(* "off": no VM; "pushed": the snapshot is in the registry, the pod not yet
   updated; "asleep": reported hibernated. *)
VkStates == {"off", "running", "pushing", "pushed", "asleep", "waking"}

ClusterTypeOK ==
    /\ pod \in [VMs -> Pods]
    /\ tag \in [VMs -> {"none", "fresh", "stale"}]
    /\ vk \in [VMs -> VkStates]
    /\ vkGen \in [VMs -> Generations]
    /\ faults \in 0..MaxFaults

(* Every VM has booted once and reported ready. *)
ClusterInit ==
    /\ pod = [v \in VMs |-> [NewPod(TRUE, FALSE, 1) EXCEPT
                               !.state = "ready", !.obs = 1, !.live = TRUE]]
    /\ tag = [v \in VMs |-> "none"]
    /\ vk = [v \in VMs |-> "running"]
    /\ vkGen = [v \in VMs |-> 1]

(* No VM has booted yet, and q is all there is of each pod. *)
NotBooted(q) ==
    /\ pod = [v \in VMs |-> q]
    /\ tag = [v \in VMs |-> "none"]
    /\ vk = [v \in VMs |-> "off"]
    /\ vkGen = [v \in VMs |-> 0]

-----------------------------------------------------------------------------
(* vk-cocoon *)

Report(v, state, gen, live) ==
    pod' = [pod EXCEPT ![v].state = state, ![v].obs = gen, ![v].live = live,
                       ![v].named = TRUE]

(* The VM runs on, so whatever the tag holds is behind it. *)
Spent(v) == tag' = [tag EXCEPT ![v] = IF @ = "fresh" THEN "stale" ELSE @]

VkBoot(v) ==
    /\ pod[v].at = "present" /\ vk[v] = "off"
    /\ pod[v].restore => tag[v] = "none"
    /\ pod[v].state # "failed"
    /\ vk' = [vk EXCEPT ![v] = "running"]
    /\ Report(v, "ready", pod[v].gen, TRUE)
    /\ Spent(v)
    /\ UNCHANGED <<vkGen, faults>>

(* A restore-marked pod whose tag is gone may also be refused. *)
VkRefuse(v) ==
    /\ pod[v].at = "present" /\ vk[v] = "off"
    /\ pod[v].restore /\ tag[v] = "none" /\ pod[v].state # "failed"
    /\ Report(v, "failed", pod[v].gen, FALSE)
    /\ UNCHANGED <<tag, vk, vkGen, faults>>

VkStart(v, from, to) ==
    /\ vk[v] = from
    /\ vk' = [vk EXCEPT ![v] = to]
    /\ vkGen' = [vkGen EXCEPT ![v] = pod[v].gen]
    /\ UNCHANGED <<pod, tag, faults>>

VkRestore(v) ==
    /\ pod[v].at = "present" /\ pod[v].restore /\ tag[v] # "none"
    /\ VkStart(v, "off", "waking")

VkHibernate(v) ==
    /\ pod[v].at = "present" /\ pod[v].hib
    /\ VkStart(v, "running", "pushing")

VkWake(v) ==
    /\ pod[v].at = "present" /\ ~pod[v].hib /\ tag[v] # "none"
    /\ VkStart(v, "asleep", "waking")

(* The push lands even when the pod is already terminating (cocoonset/delete.go:38). *)
VkPush(v) ==
    /\ vk[v] = "pushing"
    /\ vk' = [vk EXCEPT ![v] = "pushed"]
    /\ tag' = [tag EXCEPT ![v] = "fresh"]
    /\ UNCHANGED <<pod, vkGen, faults>>

VkReportHibernated(v) ==
    /\ pod[v].at # "absent" /\ vk[v] = "pushed"
    /\ vk' = [vk EXCEPT ![v] = "asleep"]
    /\ Report(v, "hibernated", vkGen[v], FALSE)
    /\ UNCHANGED <<tag, vkGen, faults>>

VkWoken(v) ==
    /\ pod[v].at # "absent" /\ vk[v] = "waking" /\ tag[v] # "none"
    /\ vk' = [vk EXCEPT ![v] = "running"]
    /\ Report(v, "ready", vkGen[v], TRUE)
    /\ Spent(v)
    /\ UNCHANGED <<vkGen, faults>>

(* A transition that fails: a refused hibernate leaves the VM running, a failed
   wake leaves it asleep for the next attempt. *)
VkFail(v) ==
    /\ faults > 0 /\ pod[v].at # "absent"
    /\ \/ /\ vk[v] = "pushing"
          /\ vk' = [vk EXCEPT ![v] = "running"]
          /\ Report(v, "failed", vkGen[v], TRUE)
       \/ /\ vk[v] = "waking"
          /\ vk' = [vk EXCEPT ![v] = "asleep"]
          /\ Report(v, "failed", vkGen[v], FALSE)
    /\ faults' = faults - 1
    /\ UNCHANGED <<tag, vkGen>>

(* A VM at rest, in the state its annotation asks for, echoes a newer stamp and
   lifts an earlier failure (docs/cocoonset.md:9). *)
VkEcho(v) ==
    /\ pod[v].at = "present"
    /\ \E rest \in {[of |-> "running", hib |-> FALSE, state |-> "ready"],
                    [of |-> "asleep", hib |-> TRUE, state |-> "hibernated"]} :
          /\ vk[v] = rest.of /\ pod[v].hib = rest.hib
          /\ <<pod[v].state, pod[v].obs>> # <<rest.state, pod[v].gen>>
          /\ pod' = [pod EXCEPT ![v].state = rest.state, ![v].obs = pod[v].gen]
    /\ UNCHANGED <<tag, vk, vkGen, faults>>

(* DeletePod: the VM goes with its pod; a push under way ends first. *)
VkDelete(v) ==
    /\ pod[v].at = "terminating" /\ vk[v] # "pushing"
    /\ pod' = [pod EXCEPT ![v] = NoPod]
    /\ vk' = [vk EXCEPT ![v] = "off"]
    /\ UNCHANGED <<tag, vkGen, faults>>

VkStep(v) ==
    \/ VkBoot(v) \/ VkRefuse(v) \/ VkRestore(v) \/ VkHibernate(v) \/ VkWake(v)
    \/ VkPush(v) \/ VkReportHibernated(v) \/ VkWoken(v) \/ VkEcho(v) \/ VkDelete(v)
=============================================================================
