------------------------------ MODULE Suspend ------------------------------
(* Suspending, waking and deleting a CocoonSet: cocoonset/suspend.go,
   slotrelease.go, restore.go, delete.go and the passes of reconciler.go, agents.go
   and toolboxes.go that call them.

   A pass reads the CocoonSet and its pods once and makes its calls one at a time.
   A patch answers with the object as the API server then holds it, and the pass
   goes on with that answer: view and seen are the pass's copies.

   Simplifications:
     - no CocoonHibernation targets the pods and spec.nodeName is empty, so the only
       restore intent is the reclaim record and nothing migrates;
     - the spec's images and replica count do not change: the image rule drops nothing
       and no slot leaves the spec;
     - a pod is terminal by its lifecycle state only, never by its kubelet phase; the
       rebuild budget (module Rebuild) decides whether triage deletes it, so both may
       happen here; the backoff's requeue and the slots left empty once their budget is
       spent (agents.go:47) are Rebuild's too;
     - DeleteManifestIfPresent is one step: it takes effect at its probe when there is no
       tag, else at its delete;
     - pods are visited in any order, the parallel creates of agents.go one at a time;
     - the informer caches are current when a pass starts;
     - a failed call and an operator restart both abandon the pass, except where the
       code goes on after the error. *)
EXTENDS Cluster

CONSTANTS Main,         \* the main agent's VM
          Subs,         \* the sub-agents' VMs
          Toolboxes,    \* the toolboxes' VMs
          Policies,     \* values spec.hibernatePolicy may take
          UserDeletes,  \* which pods the user deletes: "asleep", "suspended" or "any"
          MaxDeletes,   \* bound on the pods the user deletes
          MayDelete,    \* may the user delete the CocoonSet?
          Patient,      \* does the user edit the spec only when every VM is at rest?
          VkMayFail     \* may vk-cocoon fail a hibernate or a wake?

ASSUME SuspendAssumption ==
    /\ VMs = {Main} \cup Subs \cup Toolboxes
    /\ Main \notin Subs \cup Toolboxes /\ Subs \cap Toolboxes = {}
    /\ Policies \subseteq {"retain", "release"} /\ Policies # {}
    /\ "release" \in Policies => VMs = {Main}    \* admission
    /\ UserDeletes \in {"asleep", "suspended", "any"} /\ MaxDeletes \in Nat
    /\ MayDelete \in BOOLEAN
    /\ Patient \in BOOLEAN /\ VkMayFail \in BOOLEAN

VARIABLES cs,           \* the CocoonSet as the API server holds it
          overdue,      \* suspending-since is more than suspendTimeout ago
          queued,       \* a reconcile request waits
          pc, view, seen,
          todo,         \* VMs the loop in hand has not visited
          slot,         \* the VM of the pod being built
          mark,         \* is that pod marked restore-from-hibernate?
          got,          \* reclaimed: tags the loop in hand deleted
          last,         \* the status the pass ends with, and whether it requeues
          bad,          \* a delete of the loop in hand failed
          changed,      \* the pass created or deleted a pod
          excused,      \* VMs whose pod went while they were not suspended (history)
          left          \* pods the user may still delete

passVars == <<pc, view, seen, todo, slot, mark, got, last, bad, changed>>
userVars == <<excused, left>>
vars == <<clusterVars, cs, overdue, queued, passVars, userVars>>

Phases == {"Pending", "Scaling", "Running", "Suspending", "Suspended", "Waking", "Failed"}

(* hibernateReclaim *)
Reclaims == [gen : Generations, vms : SUBSET VMs, restore : SUBSET VMs, suspended : SUBSET VMs]
NoReclaim == [gen |-> 0, vms |-> {}, restore |-> {}, suspended |-> {}]

(* names is the delete-vm-names annotation, listed the VMs of status.agents and
   status.toolboxes, hint the hibernated-on-node annotation. *)
Sets == [at : {"live", "deleting", "gone"}, gen : Generations, suspend : BOOLEAN,
         policy : Policies, phase : Phases, since : BOOLEAN, hint : BOOLEAN,
         reclaim : Reclaims, names : SUBSET VMs, listed : SUBSET VMs]

PCs == {"idle", "stamp", "record", "hibernate", "observe", "deadline", "clearDeadline",
        "stash", "hint", "release", "status", "wake", "waking", "dropWoken", "clearHint",
        "confirm", "unsuspend", "clear", "reclaim", "main", "sleepingMain", "triage",
        "forks", "subs", "toolboxes", "create", "stashAll", "teardown", "gc"}

TypeOK ==
    /\ ClusterTypeOK
    /\ cs \in Sets /\ view \in Sets
    /\ cs.reclaim.restore \cup cs.reclaim.suspended \subseteq cs.reclaim.vms
    /\ overdue \in BOOLEAN /\ queued \in BOOLEAN
    /\ pc \in PCs /\ seen \in [VMs -> Pods]
    /\ todo \in SUBSET VMs /\ slot \in VMs /\ mark \in BOOLEAN /\ got \in SUBSET VMs
    /\ last \in [phase : Phases \cup {""}, again : BOOLEAN]
    /\ bad \in BOOLEAN /\ changed \in BOOLEAN
    /\ excused \in SUBSET VMs /\ left \in 0..MaxDeletes

(* A set that runs. *)
Init ==
    /\ ClusterInit /\ faults = MaxFaults
    /\ cs \in [at : {"live"}, gen : {1}, suspend : {FALSE}, policy : Policies,
               phase : {"Running"}, since : {FALSE}, hint : {FALSE}, reclaim : {NoReclaim},
               names : {{}}, listed : {VMs}]
    /\ overdue = FALSE /\ queued = FALSE
    /\ pc = "idle" /\ view = cs /\ seen = pod /\ todo = {} /\ slot = Main /\ mark = FALSE
    /\ got = {} /\ last = [phase |-> "", again |-> FALSE] /\ bad = FALSE /\ changed = FALSE
    /\ excused = {} /\ left = MaxDeletes

-----------------------------------------------------------------------------
(* Requests and patches *)

(* Mutant: a status change is admitted, a new generation is not. *)
StatusOnly(c) == <<c.at, c.phase, c.listed>>

(* setRelevantChange admits a new generation or status, podRelevantChange every pod
   change there is here. *)
Relevant(c) == <<c.at, c.gen, c.phase, c.listed>>
Watch(again) ==
    queued' = (queued \/ again \/ pod' # pod \/ Relevant(cs') # Relevant(cs))

(* A pass ends with a requeue, an error or a write that brings one more reconcile;
   the ones that end for good say so. *)
Watched == Watch(pc # "idle" /\ pc' = "idle")

Goto(l) == pc' = l
Return == pc' = "idle"

(* patchAnnotation; c is the object the patch leaves behind. *)
PatchSet(needed, c) ==
    /\ cs' = IF needed THEN c ELSE cs
    /\ view' = IF needed THEN c ELSE view

writeHibernateReclaim(owed) ==
    LET value == IF owed.vms = {} THEN NoReclaim ELSE owed IN
    PatchSet(view.reclaim # value, [cs EXCEPT !.reclaim = value])

(* A pod patch skips the call when the copy already carries the value. *)
PatchPod(v, needed, q) ==
    /\ needed => pod[v].at # "absent"
    /\ pod' = IF needed THEN [pod EXCEPT ![v] = q] ELSE pod
    /\ seen' = IF needed THEN [seen EXCEPT ![v] = [q EXCEPT !.at = seen[v].at]] ELSE seen

(* classifyPods leaves out the pods that are being deleted when they are listed; a patch
   that finds one terminating does not take it out. *)
allByName == {v \in VMs : seen[v].at = "present"}

PodFailed(q) == q.state = "failed"
IsPodReady(q) == q.live

derivePhase ==
    CASE Main \notin allByName -> "Pending"
      [] Main \in allByName /\ (\E v \in VMs : v \notin allByName \/ ~IsPodReady(seen[v])) -> "Scaling"
      [] OTHER -> "Running"

StatusOf(phase) == [cs EXCEPT !.phase = phase, !.listed = allByName]

WriteStatus ==
    /\ pc = "status"
    /\ cs' = StatusOf(IF last.phase = "" THEN derivePhase ELSE last.phase)
    /\ Return
    /\ UNCHANGED <<clusterVars, overdue, view, seen, todo, slot, mark, got, last, bad, changed, userVars>>
    /\ Watch(last.again)

-----------------------------------------------------------------------------
(* Reconcile *)

Reconcile ==
    /\ pc = "idle" /\ queued /\ cs.at # "gone"
    /\ queued' = FALSE
    /\ view' = cs /\ seen' = pod
    /\ IF cs.at = "deleting"
       THEN pc' = "stashAll" /\ todo' = {}
       ELSE pc' = "stamp" /\ todo' = {v \in VMs : pod[v].at = "present"}
    /\ slot' = Main /\ mark' = FALSE /\ got' = {} /\ bad' = FALSE /\ changed' = FALSE
    /\ last' = [phase |-> "", again |-> FALSE]
    /\ UNCHANGED <<clusterVars, cs, overdue, userVars>>

syncCocoonSetGeneration(v) ==
    /\ pc = "stamp" /\ v \in todo
    /\ PatchPod(v, seen[v].gen # view.gen, [pod[v] EXCEPT !.gen = view.gen])
    /\ todo' = todo \ {v}
    /\ Goto("stamp")
    /\ UNCHANGED <<tag, vk, vkGen, faults, cs, overdue, view, slot, mark, got, last, bad, changed, userVars>>
    /\ Watched

(* Mutant: a main that wakes has no more use for its snapshot. *)
WakeDropsAtOnce ==
    IF view.phase \notin {"Waking", "Suspended"} THEN "unsuspend"
    ELSE IF Main \notin allByName THEN "wake"
    ELSE IF view.phase = "Waking" THEN "dropWoken" ELSE "unsuspend"

(* Which arm of reconcileWake a pass takes. *)
reconcileWake ==
    LET main == seen[Main]
        suspended == view.phase = "Suspended" \/ (view.phase = "Suspending" /\ view.hint)
        waking == \/ view.phase = "Waking"
                  \/ Main \in allByName /\ main.restore /\ ~main.hib /\ view.hint
    IN CASE ~waking /\ ~suspended -> "unsuspend"
         [] (waking \/ suspended) /\ Main \notin allByName -> "wake"
         [] waking /\ Main \in allByName /\ ~main.live -> "status"
         [] waking /\ Main \in allByName /\ main.live -> "dropWoken"
         [] OTHER -> IF view.hint THEN "confirm" ELSE "unsuspend"

(* Where a pass goes once its pods are stamped: reconcileSuspendRelease,
   reconcileSuspend, handleFailedMainAgent or reconcileWake. *)
Branch ==
    LET release == view.policy = "release"
        failed == Main \in allByName /\ PodFailed(seen[Main])
        wake == reconcileWake
        Ends(phase, again) == last' = [phase |-> phase, again |-> again]
    IN
    /\ pc = "stamp" /\ todo = {}
    /\ \/ /\ view.suspend /\ release /\ allByName = {}
          /\ Goto("clearDeadline") /\ Ends("Suspended", FALSE) /\ UNCHANGED todo
       \/ /\ view.suspend /\ ~release /\ Main \notin allByName
          /\ Goto("sleepingMain") /\ todo' = {Main} /\ UNCHANGED last
       \/ /\ view.suspend /\ IF release THEN allByName # {} ELSE Main \in allByName
          /\ Goto("record") /\ Ends("Suspended", release) /\ UNCHANGED todo
       \/ /\ ~view.suspend /\ failed
          /\ Goto("unsuspend") /\ Ends("Failed", FALSE) /\ UNCHANGED todo
       \/ /\ ~view.suspend /\ ~failed
          /\ Goto(wake) /\ UNCHANGED todo
          /\ IF wake = "status" THEN Ends("Waking", TRUE) ELSE UNCHANGED last
    /\ UNCHANGED <<clusterVars, cs, overdue, view, seen, slot, mark, got, bad, changed, userVars>>
    /\ Watched

-----------------------------------------------------------------------------
(* Suspend *)

(* applySuspend: the record is durable before the first annotation. *)
applySuspend ==
    /\ pc = "record"
    /\ writeHibernateReclaim([view.reclaim EXCEPT !.vms = @ \cup allByName,
                                                  !.suspended = @ \cup allByName])
    /\ todo' = allByName
    /\ Goto("hibernate")
    /\ UNCHANGED <<clusterVars, overdue, seen, slot, mark, got, last, bad, changed, userVars>>
    /\ Watched

HibernateState(v) ==
    /\ pc = "hibernate" /\ v \in todo
    /\ PatchPod(v, ~seen[v].hib, [pod[v] EXCEPT !.hib = TRUE])
    /\ todo' = todo \ {v}
    /\ Goto("hibernate")
    /\ UNCHANGED <<tag, vk, vkGen, faults, cs, overdue, view, slot, mark, got, last, bad, changed, userVars>>
    /\ Watched

(* Mutants: the report of an earlier round counts; any report of this round counts. *)
HibernatedOnce(q, gen) == q.state = "hibernated"
ObservedAt(q, gen) == q.obs >= gen

(* Hibernated at this generation: a stale tag cannot pass. *)
HibernatedAt(q, gen) == q.state = "hibernated" /\ q.obs >= gen

allOwnedPodsHibernated(v) ==
    /\ pc = "observe" /\ v \in todo
    /\ IF HibernatedAt(seen[v], view.gen) /\ tag[v] # "none"
       THEN Goto("observe") /\ todo' = todo \ {v}
       ELSE Goto("deadline") /\ todo' = {}
    /\ UNCHANGED <<clusterVars, cs, overdue, view, seen, slot, mark, got, last, bad, changed, userVars>>
    /\ Watched

(* A probe error counts against the deadline too. *)
ProbeFails ==
    /\ pc = "observe" /\ todo # {} /\ faults > 0 /\ faults' = faults - 1
    /\ Goto("deadline") /\ todo' = {}
    /\ UNCHANGED <<pod, tag, vk, vkGen, cs, overdue, view, seen, slot, mark, got, last, bad, changed, userVars>>
    /\ Watched

(* pollSuspend and suspendDeadlineExceeded: the deadline restarts on every entry into
   Suspending. *)
pollSuspend ==
    LET entering == view.phase # "Suspending" \/ ~view.since IN
    /\ pc = "deadline"
    /\ PatchSet(entering, [cs EXCEPT !.since = TRUE])
    /\ overdue' = (overdue /\ ~entering)
    /\ last' = [phase |-> IF overdue' THEN "Failed" ELSE "Suspending", again |-> TRUE]
    /\ Goto("status")
    /\ UNCHANGED <<clusterVars, seen, todo, slot, mark, got, bad, changed, userVars>>
    /\ Watched

clearSuspendDeadline ==
    /\ pc = "clearDeadline"
    /\ PatchSet(view.since, [cs EXCEPT !.since = FALSE])
    /\ overdue' = (overdue /\ ~view.since)
    /\ Goto(IF last.again THEN "stash" ELSE "status")
    /\ UNCHANGED <<clusterVars, seen, todo, slot, mark, got, last, bad, changed, userVars>>
    /\ Watched

-----------------------------------------------------------------------------
(* Slot release *)

(* Mutant: what the status and the pods name is all there is. *)
StashWithoutRecord(owned) ==
    LET names == view.listed \cup view.names \cup owned IN
    PatchSet(view.names # names, [cs EXCEPT !.names = names])

(* stashDeleteVMNames, given the VMs of the pods at hand. *)
stashDeleteVMNames(owned) ==
    LET names == view.listed \cup view.names \cup view.reclaim.vms \cup owned IN
    PatchSet(view.names # names, [cs EXCEPT !.names = names])

StashReleased ==
    /\ pc = "stash"
    /\ stashDeleteVMNames(allByName)
    /\ Goto("hint")
    /\ UNCHANGED <<clusterVars, overdue, seen, todo, slot, mark, got, last, bad, changed, userVars>>
    /\ Watched

StashHint ==
    /\ pc = "hint"
    /\ PatchSet(Main \in allByName, [cs EXCEPT !.hint = TRUE])
    /\ todo' = allByName
    /\ Goto("release")
    /\ UNCHANGED <<clusterVars, overdue, seen, slot, mark, got, last, bad, changed, userVars>>
    /\ Watched

Deleted(v) == [pod EXCEPT ![v].at = IF @ = "present" THEN "terminating" ELSE @]

(* The keep-snapshot flag only chooses where a wake reads the snapshot from. *)
ReleaseSlot(v) ==
    /\ pc = "release" /\ v \in todo
    /\ pod' = Deleted(v)
    /\ todo' = todo \ {v}
    /\ Goto("release")
    /\ UNCHANGED <<tag, vk, vkGen, faults, cs, overdue, view, seen, slot, mark, got, last, bad, changed, userVars>>
    /\ Watched

-----------------------------------------------------------------------------
(* Wake *)

(* startReleasedWake: the probe; without a snapshot the normal flow boots. *)
startReleasedWake ==
    /\ pc = "wake"
    /\ IF tag[Main] # "none"
       THEN Goto("waking") /\ UNCHANGED <<cs, view>>
       ELSE Goto("unsuspend") /\ PatchSet(view.hint, [cs EXCEPT !.hint = FALSE])
    /\ UNCHANGED <<clusterVars, overdue, seen, todo, slot, mark, got, last, bad, changed, userVars>>
    /\ Watched

(* Waking is durable before the create.  The pod is already built, so it carries the
   generation the pass had read: the copy takes the status from the answer, no edit. *)
PersistWaking ==
    /\ pc = "waking"
    /\ cs' = StatusOf("Waking")
    /\ view' = [view EXCEPT !.phase = cs'.phase, !.listed = cs'.listed]
    /\ slot' = Main /\ mark' = TRUE
    /\ Goto("create")
    /\ UNCHANGED <<clusterVars, overdue, seen, todo, got, last, bad, changed, userVars>>
    /\ Watched

DropWoken ==
    /\ pc = "dropWoken"
    /\ tag' = [tag EXCEPT ![Main] = "none"]
    /\ Goto("clearHint")
    /\ UNCHANGED <<pod, vk, vkGen, faults, cs, overdue, view, seen, todo, slot, mark, got, last, bad, changed, userVars>>
    /\ Watched

(* Mutant: the wake's marker stays. *)
KeepHint ==
    /\ pc = "clearHint"
    /\ last' = [phase |-> "", again |-> TRUE]
    /\ Goto("status")
    /\ UNCHANGED <<clusterVars, cs, overdue, view, seen, todo, slot, mark, got, bad, changed, userVars>>
    /\ Watched

ClearHint ==
    /\ pc = "clearHint"
    /\ PatchSet(view.hint, [cs EXCEPT !.hint = FALSE])
    /\ last' = [phase |-> "", again |-> TRUE]
    /\ Goto("status")
    /\ UNCHANGED <<clusterVars, overdue, seen, todo, slot, mark, got, bad, changed, userVars>>
    /\ Watched

(* An uncached read of the main. *)
confirmReleasedDelete ==
    /\ pc = "confirm"
    /\ IF pod[Main].at = "present" THEN Goto("unsuspend") ELSE Return
    /\ UNCHANGED <<clusterVars, cs, overdue, view, seen, todo, slot, mark, got, last, bad, changed, userVars>>
    /\ Watched

-----------------------------------------------------------------------------
(* Un-suspend and reclaim *)

(* Mutant: ready at any generation. *)
wokenOnce(q, gen) == ~q.hib /\ q.live /\ q.state = "ready"

wokenAt(q, gen) == ~q.hib /\ q.live /\ q.state = "ready" /\ q.obs >= gen

(* A failed main ends its pass here; any other goes on to reclaim what woke. *)
Unsuspended(owed) ==
    IF last.phase = "Failed" THEN Goto("status") /\ todo' = {}
    ELSE Goto("reclaim") /\ todo' = {v \in allByName \cap owed.vms : wokenAt(seen[v], owed.gen)}

hibernated == {v \in allByName : seen[v].hib}

(* Mutants: nothing is owed a restore; the record is made anew from the annotations. *)
OwedWithoutRestore(owed) ==
    [owed EXCEPT !.gen = view.gen, !.vms = @ \cup hibernated,
                 !.suspended = IF hibernated = {} THEN {} ELSE @]

OwedAnew(owed) ==
    [gen |-> view.gen, vms |-> hibernated, restore |-> owed.suspended \ allByName,
     suspended |-> IF hibernated = {} THEN {} ELSE owed.suspended]

(* The record owes a restore to every listed VM whose pod is missing. *)
OwedBy(owed) ==
    [gen |-> view.gen,
     vms |-> owed.vms \cup hibernated,
     restore |-> owed.restore \cup (owed.suspended \ allByName),
     suspended |-> IF hibernated = {} THEN {} ELSE owed.suspended]

applyUnsuspend ==
    LET owed == view.reclaim IN
    /\ pc = "unsuspend"
    /\ IF hibernated = {} /\ owed.suspended = {}
       THEN Unsuspended(owed) /\ UNCHANGED <<cs, view>>
       ELSE /\ writeHibernateReclaim(OwedBy(owed))
            /\ todo' = hibernated
            /\ Goto("clear")
    /\ UNCHANGED <<clusterVars, overdue, seen, slot, mark, got, last, bad, changed, userVars>>
    /\ Watched

ClearHibernate(v) ==
    /\ pc = "clear" /\ v \in todo
    /\ PatchPod(v, seen[v].hib, [pod[v] EXCEPT !.hib = FALSE])
    /\ todo' = todo \ {v}
    /\ Goto("clear")
    /\ UNCHANGED <<tag, vk, vkGen, faults, cs, overdue, view, slot, mark, got, last, bad, changed, userVars>>
    /\ Watched

(* The suspended list goes last. *)
ForgetSuspended ==
    /\ pc = "clear" /\ todo = {}
    /\ writeHibernateReclaim([view.reclaim EXCEPT !.suspended = {}])
    /\ Unsuspended(view.reclaim)
    /\ UNCHANGED <<clusterVars, overdue, seen, slot, mark, got, last, bad, changed, userVars>>
    /\ Watched

(* reclaimSnapshots, for the pods that woke and for the forks about to boot; a delete
   the registry refuses keeps its VM recorded and the loop goes on. *)
DeleteManifestIfPresent(v) ==
    /\ pc \in {"reclaim", "forks"} /\ v \in todo
    /\ tag' = [tag EXCEPT ![v] = "none"]
    /\ todo' = todo \ {v} /\ got' = got \cup {v}
    /\ Goto(pc)
    /\ UNCHANGED <<pod, vk, vkGen, faults, cs, overdue, view, seen, slot, mark, last, bad, changed, userVars>>
    /\ Watched

(* Mutant: the VM is forgotten although its tag is still there. *)
DeleteFailsForgets(v) ==
    /\ pc \in {"reclaim", "forks"} /\ v \in todo
    /\ faults > 0 /\ faults' = faults - 1
    /\ todo' = todo \ {v} /\ got' = got \cup {v} /\ bad' = TRUE
    /\ Goto(pc)
    /\ UNCHANGED <<pod, tag, vk, vkGen, cs, overdue, view, seen, slot, mark, last, changed, userVars>>
    /\ Watched

DeleteFails(v) ==
    /\ pc \in {"reclaim", "forks"} /\ v \in todo
    /\ faults > 0 /\ faults' = faults - 1
    /\ todo' = todo \ {v} /\ bad' = TRUE
    /\ Goto(pc)
    /\ UNCHANGED <<pod, tag, vk, vkGen, cs, overdue, view, seen, slot, mark, got, last, changed, userVars>>
    /\ Watched

Without(owed, vms) ==
    [owed EXCEPT !.vms = @ \ vms, !.restore = @ \ vms, !.suspended = @ \ vms]

forgetReclaim == writeHibernateReclaim(Without(view.reclaim, got))

missing == Subs \ allByName

(* After the woken: the main is created, waited for, or the other slots are walked. *)
EndReclaim ==
    /\ pc = "reclaim" /\ todo = {}
    /\ forgetReclaim /\ got' = {}
    /\ \/ bad /\ Return /\ UNCHANGED <<todo, last>>
       \/ ~bad /\ Main \notin allByName /\ Goto("main") /\ todo' = {Main} /\ UNCHANGED last
       \/ /\ ~bad /\ Main \in allByName /\ ~IsPodReady(seen[Main])
          /\ Goto("status") /\ last' = [phase |-> "Pending", again |-> TRUE] /\ UNCHANGED todo
       \/ /\ ~bad /\ Main \in allByName /\ IsPodReady(seen[Main])
          /\ Goto("triage") /\ todo' = Subs \cap allByName /\ UNCHANGED last
    /\ UNCHANGED <<clusterVars, overdue, seen, slot, mark, bad, changed, userVars>>
    /\ Watched

-----------------------------------------------------------------------------
(* Sub-agents and toolboxes *)

(* triagePod: a failed pod is deleted for rebuild while its budget lasts. *)
triagePod(v) ==
    /\ pc \in {"triage", "toolboxes"} /\ v \in todo \cap allByName
    /\ \/ PodFailed(seen[v]) /\ pod' = Deleted(v) /\ changed' = TRUE /\ excused' = excused \cup {v}
       \/ UNCHANGED <<pod, changed, excused>>
    /\ todo' = todo \ {v}
    /\ Goto(pc)
    /\ UNCHANGED <<tag, vk, vkGen, faults, cs, overdue, view, seen, slot, mark, got, last, bad, left>>
    /\ Watched

(* reclaimUnrestoredForks: a fork-from pod is refused while its tag exists. *)
reclaimUnrestoredForks ==
    /\ pc = "triage" /\ todo = {}
    /\ todo' = (missing \cap view.reclaim.vms) \ view.reclaim.restore
    /\ Goto("forks")
    /\ UNCHANGED <<clusterVars, cs, overdue, view, seen, slot, mark, got, last, bad, changed, userVars>>
    /\ Watched

EndForks ==
    /\ pc = "forks" /\ todo = {}
    /\ forgetReclaim /\ got' = {}
    /\ \/ bad /\ Return /\ UNCHANGED todo
       \/ ~bad /\ Goto("subs") /\ todo' = missing
    /\ UNCHANGED <<clusterVars, overdue, seen, slot, mark, last, bad, changed, userVars>>
    /\ Watched

EndSubs ==
    /\ pc = "subs" /\ todo = {}
    /\ Goto("toolboxes") /\ todo' = Toolboxes
    /\ UNCHANGED <<clusterVars, cs, overdue, view, seen, slot, mark, got, last, bad, changed, userVars>>
    /\ Watched

EndToolboxes ==
    /\ pc = "toolboxes" /\ todo = {}
    /\ IF changed THEN Return ELSE Goto("status")
    /\ UNCHANGED <<clusterVars, cs, overdue, view, seen, todo, slot, mark, got, last, bad, changed, userVars>>
    /\ Watched

(* markRestoreFromIntent: a pass that suspends creates the main with the intent to
   restore it, whatever the record says. *)
markRestoreFromIntent(v) ==
    /\ pc \in {"main", "sleepingMain", "subs", "toolboxes"} /\ v \in todo \ allByName
    /\ slot' = v
    /\ mark' = ((pc = "sleepingMain" \/ v \in view.reclaim.restore) /\ tag[v] # "none")
    /\ todo' = todo \ {v}
    /\ Goto("create")
    /\ UNCHANGED <<clusterVars, cs, overdue, view, seen, got, last, bad, changed, userVars>>
    /\ Watched

(* The create; a pod still terminating is AlreadyExists. *)
CreatePod ==
    /\ pc = "create"
    /\ pod' = [pod EXCEPT ![slot] = IF @.at = "absent" THEN NewPod(TRUE, mark, view.gen) ELSE @]
    /\ changed' = (changed \/ pod[slot].at = "absent")
    /\ IF slot = Main THEN Return ELSE Goto(IF slot \in Subs THEN "subs" ELSE "toolboxes")
    /\ UNCHANGED <<tag, vk, vkGen, faults, cs, overdue, view, seen, todo, slot, mark, got, last, bad, userVars>>
    /\ Watched

-----------------------------------------------------------------------------
(* Delete *)

owned == {v \in VMs : seen[v].at # "absent"}

(* reconcileDelete: the tags are collected once every pod is gone. *)
reconcileDelete ==
    /\ pc = "stashAll"
    /\ stashDeleteVMNames(owned)
    /\ IF owned # {} THEN Goto("teardown") /\ todo' = owned
                     ELSE Goto("gc") /\ todo' = view'.names
    /\ UNCHANGED <<clusterVars, overdue, seen, slot, mark, got, last, bad, changed, userVars>>
    /\ Watched

DeleteOwned(v) ==
    /\ pc = "teardown" /\ v \in todo
    /\ pod' = Deleted(v)
    /\ todo' = todo \ {v}
    /\ IF todo' = {} THEN Return ELSE Goto("teardown")
    /\ UNCHANGED <<tag, vk, vkGen, faults, cs, overdue, view, seen, slot, mark, got, last, bad, changed, userVars>>
    /\ Watched

CollectTag(v) ==
    /\ pc = "gc" /\ v \in todo
    /\ tag' = [tag EXCEPT ![v] = "none"]
    /\ todo' = todo \ {v}
    /\ Goto("gc")
    /\ UNCHANGED <<pod, vk, vkGen, faults, cs, overdue, view, seen, slot, mark, got, last, bad, changed, userVars>>
    /\ Watched

(* The update conflicts when the object changed since it was read. *)
RemoveFinalizer ==
    /\ pc = "gc" /\ todo = {}
    /\ cs' = IF view = cs THEN [cs EXCEPT !.at = "gone"] ELSE cs
    /\ Return
    /\ UNCHANGED <<clusterVars, overdue, view, seen, todo, slot, mark, got, last, bad, changed, userVars>>
    /\ Watch(view # cs)

-----------------------------------------------------------------------------
(* Errors *)

(* A patch of a pod that is gone. *)
PodNotFound(v) ==
    /\ v \in todo /\ pod[v].at = "absent"
    /\ \/ pc = "stamp" /\ seen[v].gen # view.gen
       \/ pc = "hibernate" /\ ~seen[v].hib
       \/ pc = "clear" /\ seen[v].hib
    /\ Return
    /\ UNCHANGED <<clusterVars, cs, overdue, view, seen, todo, slot, mark, got, last, bad, changed, userVars>>
    /\ Watched

(* A call fails or the operator restarts. *)
Abandon ==
    /\ pc # "idle" /\ faults > 0 /\ faults' = faults - 1
    /\ Return
    /\ UNCHANGED <<pod, tag, vk, vkGen, cs, overdue, view, seen, todo, slot, mark, got, last, bad, changed, userVars>>
    /\ Watched

(* The loops whose work is done. *)
EndLoop ==
    /\ todo = {}
    /\ \/ pc = "hibernate" /\ Goto("observe") /\ todo' = allByName
       \/ pc = "observe" /\ Goto("clearDeadline") /\ UNCHANGED todo
       \/ pc = "release" /\ Goto("status") /\ UNCHANGED todo
    /\ UNCHANGED <<clusterVars, cs, overdue, view, seen, slot, mark, got, last, bad, changed, userVars>>
    /\ Watched

PassStep ==
    \/ Branch \/ WriteStatus \/ applySuspend \/ pollSuspend \/ clearSuspendDeadline
    \/ StashReleased \/ StashHint \/ startReleasedWake \/ PersistWaking \/ DropWoken
    \/ ClearHint \/ confirmReleasedDelete \/ applyUnsuspend \/ ForgetSuspended
    \/ EndReclaim \/ reclaimUnrestoredForks \/ EndForks \/ EndSubs \/ EndToolboxes
    \/ CreatePod \/ reconcileDelete \/ RemoveFinalizer \/ EndLoop
    \/ \E v \in VMs :
         \/ syncCocoonSetGeneration(v) \/ HibernateState(v) \/ allOwnedPodsHibernated(v)
         \/ ReleaseSlot(v) \/ ClearHibernate(v) \/ DeleteManifestIfPresent(v) \/ triagePod(v)
         \/ markRestoreFromIntent(v) \/ DeleteOwned(v) \/ CollectTag(v) \/ PodNotFound(v)

-----------------------------------------------------------------------------
(* The user, vk-cocoon and time *)

AtRest ==
    LET rest == IF cs.suspend THEN [phase |-> "Suspended", vm |-> "asleep"]
                              ELSE [phase |-> "Running", vm |-> "running"] IN
    /\ cs.phase = rest.phase
    /\ \A v \in VMs : pod[v].at = "present" => vk[v] = rest.vm

EditSpec ==
    /\ cs.at = "live" /\ cs.gen < MaxGen
    /\ Patient => AtRest
    /\ \E s \in BOOLEAN, p \in Policies :
         /\ <<s, p>> # <<cs.suspend, cs.policy>>
         /\ cs' = [cs EXCEPT !.gen = @ + 1, !.suspend = s, !.policy = p]
    /\ UNCHANGED <<clusterVars, overdue, passVars, userVars>> /\ Watched

DeleteSet ==
    /\ MayDelete /\ cs.at = "live"
    /\ cs' = [cs EXCEPT !.at = "deleting"]
    /\ UNCHANGED <<clusterVars, overdue, passVars, userVars>> /\ Watched

(* A VM is excused from keeping its state when its pod is deleted while the set is
   not suspended. *)
DeletePod(v) ==
    /\ left > 0 /\ left' = left - 1
    /\ cs.at = "live" /\ pod[v].at = "present"
    /\ CASE UserDeletes = "asleep" -> cs.suspend /\ vk[v] = "asleep" /\ pod[v].hib
         [] UserDeletes = "suspended" -> cs.suspend
         [] UserDeletes = "any" -> TRUE
    /\ pod' = Deleted(v)
    /\ excused' = IF cs.suspend THEN excused ELSE excused \cup {v}
    /\ UNCHANGED <<tag, vk, vkGen, faults, cs, overdue, passVars>> /\ Watched

DeadlinePasses ==
    /\ cs.since /\ ~overdue /\ overdue' = TRUE
    /\ UNCHANGED <<clusterVars, cs, passVars, userVars>> /\ Watched

VkActs(v) ==
    /\ VkStep(v)
    /\ excused' = IF vk'[v] = "pushed" /\ pod[v].at = "present" THEN excused \ {v} ELSE excused
    /\ UNCHANGED <<cs, overdue, passVars, left>> /\ Watched

VkFails(v) ==
    /\ VkMayFail /\ VkFail(v)
    /\ UNCHANGED <<cs, overdue, passVars, userVars>> /\ Watched

Next ==
    \/ Reconcile \/ PassStep \/ ProbeFails \/ Abandon
    \/ EditSpec \/ DeleteSet \/ DeadlinePasses
    \/ \E v \in VMs : DeleteFails(v) \/ DeletePod(v) \/ VkActs(v) \/ VkFails(v)

Spec == Init /\ [][Next]_vars

(* The controller and vk-cocoon keep working; nobody has to edit, delete or fail. *)
Fairness ==
    /\ WF_vars(Reconcile) /\ WF_vars(PassStep)
    /\ \A v \in VMs : WF_vars(VkActs(v))

FairSpec == Spec /\ Fairness

-----------------------------------------------------------------------------
(* Properties *)

(* The only copy of a suspended VM's state leaves the registry by waking the VM from
   it or with the set: no pass drops it, no fresh boot passes it by. *)
KeepsSuspendedState ==
    [][\A v \in VMs :
         tag[v] = "fresh" /\ tag'[v] # "fresh"
         => \/ vk[v] = "waking" /\ vk'[v] = "running"
            \/ v \in excused \/ cs.at # "live"]_vars

(* A set turns Suspended only when every pod's state is in the registry, pushed by
   this suspend. *)
SuspendedIsSaved ==
    [][cs.phase # "Suspended" /\ cs'.phase = "Suspended"
       => \A v \in VMs : pod[v].at = "present" => tag[v] = "fresh"]_vars

(* A slot is released only when its VM's state is in the registry. *)
ReleasedIsSaved ==
    [][\A v \in VMs : pc = "release" /\ v \in todo \ todo' /\ pod[v].at = "present"
                      => tag[v] = "fresh"]_vars

(* Every tag in the registry is on the reclaim record, whatever call failed between
   the push and the reclaim, so a wake or the set's delete will find it. *)
TagIsOwed == \A v \in VMs : cs.at = "live" /\ tag[v] # "none" => v \in cs.reclaim.vms

(* A deleted set leaves no pod and no :hibernate tag behind. *)
DeleteLeavesNothing ==
    cs.at = "gone" => \A v \in VMs : tag[v] = "none" /\ pod[v].at = "absent"

Awake(v) == pod[v].at = "present" /\ vk[v] = "running" /\ tag[v] = "none"

(* Once the user leaves the spec alone, a suspended set becomes Suspended with every
   VM's state in the registry, a running one wakes every VM and reclaims every tag, a
   deleted one goes. *)
SpecIsMet ==
    <>[](\/ cs.at = "gone"
         \/ /\ cs.at = "live" /\ cs.suspend /\ cs.phase = "Suspended"
            /\ \A v \in VMs : tag[v] = "fresh"
         \/ /\ cs.at = "live" /\ ~cs.suspend
            /\ cs.phase = "Running" /\ cs.reclaim = NoReclaim
            /\ \A v \in VMs : Awake(v))
=============================================================================
