----------------------------- MODULE Migration -----------------------------
(* Moving the main agent to the node spec.nodeName pins it to: cocoonset/migrate.go
   and the pass of cocoonset/reconciler.go around it.

   A pass reads the CocoonSet and its main once and makes its calls one at a time; a
   patch answers with the object as the API server then holds it, and the pass goes on
   with that answer.  run is the pass, with its copies.

   The actions that list CocoonHibernations take the VMs the list names as parameters:
   none in this module, those of the CRs in module Operator.  markRestoreFromIntent and
   applyUnsuspend take the list in the step of the call after it, the probe and the write
   of the record.

   Simplifications:
     - the set is its main alone and is not suspended: reconcileWake hands every pass
       on, the reclaim record owes no restore and its suspended list is empty;
     - a pod is Ready exactly while its VM is live;
     - nothing but spec.nodeName is edited: no main drifts, no snapshot was pushed from
       another image; the rebuild budget is not spent;
     - the keep-snapshot flag only chooses where a restore reads the snapshot from;
     - the informer caches are current when a pass starts;
     - a failed call and an operator restart both abandon the pass. *)
EXTENDS Cluster

CONSTANTS Main,         \* the main agent's VM
          Nodes,        \* the nodes of the pool
          Full,         \* nodes that take no pod
          NoNode,       \* an empty node name
          Registry,     \* where a hibernated VM's state is
          Unborn,       \* where the state of a VM that has not booted is
          Patient,      \* do pin edits and drains wait out the passes they would race?
          BindRace,     \* may the scheduler bind a main a pass has read as unscheduled?
          VkMayFail     \* may vk-cocoon fail a hibernate or a wake?

ASSUME MigrationAssumption ==
    /\ VMs = {Main} /\ Full \subseteq Nodes /\ Full # Nodes
    /\ NoNode \notin Nodes /\ Registry \notin Nodes \cup {NoNode}
    /\ Unborn \notin Nodes \cup {NoNode, Registry}
    /\ Patient \in BOOLEAN /\ BindRace \in BOOLEAN /\ VkMayFail \in BOOLEAN

VARIABLES cs,           \* the CocoonSet as the API server holds it
          place,        \* the main's required hostname affinity and its node
          queued,       \* a reconcile request waits
          run,          \* the reconcile pass
          boots         \* how often the VM was booted from its image (history)

setVars == <<cs, place, queued, run, boots>>
vars == <<clusterVars, setVars>>

Pins == Nodes \cup {NoNode}
Phases == {"Pending", "Running", "Failed", "Migrating"}

(* owed: the generation of the reclaim record when it lists the main's VM, else 0. *)
Sets == [gen : Generations, pin : Pins, phase : Phases, owed : Generations]
Places == [aff : Pins, node : Pins]
Nowhere == [aff |-> NoNode, node |-> NoNode]
Boots == {"none", "one", "more"}

PCs == {"idle", "stamp", "recreate", "owner", "probe", "startStatus", "quiesce", "tracked",
        "dropStale", "deleteOld", "restore", "wakeInPlace", "dropRestored", "mark",
        "unsuspend", "clear", "reclaim", "forget", "intent", "create", "status"}

(* restore: is the pod being built marked?  last: the phase the pass ends with. *)
Runs == [pc : PCs, cs : Sets, pod : Pods, place : Places, restore : BOOLEAN,
         last : Phases \cup {""}]

TypeOK ==
    /\ ClusterTypeOK
    /\ cs \in Sets /\ place \in Places /\ queued \in BOOLEAN /\ run \in Runs
    /\ boots \in Boots

(* A set that runs, unpinned or on its pin. *)
Running ==
    /\ ClusterInit
    /\ \E n \in Nodes, pinned \in BOOLEAN :
         /\ cs = [gen |-> 1, pin |-> IF pinned THEN n ELSE NoNode, phase |-> "Running", owed |-> 0]
         /\ place = [aff |-> cs.pin, node |-> n]
    /\ queued = FALSE /\ boots = "one"

(* A new set whose main waits for a node. *)
Starting ==
    /\ NotBooted(NewPod(TRUE, FALSE, 1))
    /\ \E p \in Pins :
         /\ cs = [gen |-> 1, pin |-> p, phase |-> "Pending", owed |-> 0]
         /\ place = [aff |-> p, node |-> NoNode]
    /\ queued = TRUE /\ boots = "none"

Init ==
    /\ Running \/ Starting
    /\ faults = MaxFaults
    /\ run = [pc |-> "idle", cs |-> cs, pod |-> pod[Main], place |-> place,
              restore |-> FALSE, last |-> ""]

-----------------------------------------------------------------------------
(* Requests and patches *)

Watch(again) ==
    queued' = (queued \/ again \/ pod' # pod \/ <<cs'.gen, cs'.phase>> # <<cs.gen, cs.phase>>)

(* A pass that ends comes back by a requeue, an error or its own write; the one that
   ends for good says so. *)
Watched == Watch(run.pc # "idle" /\ run'.pc = "idle")

Goto(l) == run' = [run EXCEPT !.pc = l]
Return == Goto("idle")

(* A patch of the set answers with the set as it then is. *)
PatchSet(c, l) == cs' = c /\ run' = [run EXCEPT !.cs = c, !.pc = l]

(* The answer to a patch of the main; to the pass it is still the main it listed. *)
Patched(q) == [run EXCEPT !.pod = [q EXCEPT !.at = "present"], !.place = place]

PodUnchanged == UNCHANGED <<pod, place>>
RestUnchanged == UNCHANGED <<vk, vkGen, faults, boots>>

Deleted == [pod EXCEPT ![Main].at = IF @ = "present" THEN "terminating" ELSE @]

-----------------------------------------------------------------------------
(* What a pass decides on its copies *)

HasMain(r) == r.pod.at = "present"

mainOffTarget(r) ==
    HasMain(r) /\ r.cs.pin # NoNode /\ r.place.node \notin {NoNode, r.cs.pin}

(* Mutant: an unscheduled main is waited for, wherever its affinity points. *)
pinnedNowhere(r) == FALSE

pinnedElsewhere(r) ==
    HasMain(r) /\ r.place.node = NoNode /\ r.place.aff \notin {NoNode, r.cs.pin}

migrating(r) == r.cs.phase = "Migrating"

(* reconcileMigration hands the pass on without a call: no migration, or the fast path
   of a main that is not quiesced and is on its pin or still unscheduled. *)
NoMigration(r) ==
    /\ ~migrating(r)
    /\ \/ r.cs.pin = NoNode
       \/ HasMain(r) /\ ~r.pod.hib /\ r.place.node \in {NoNode, r.cs.pin}

(* Up to the first call of reconcileMigration; a main that failed never gets there, and
   its quiesce is not cleared while the pin is elsewhere. *)
Entry(r) ==
    IF HasMain(r) /\ r.pod.state = "failed"
    THEN [r EXCEPT !.last = "Failed", !.pc = IF mainOffTarget(r) THEN "status" ELSE "unsuspend"]
    ELSE [r EXCEPT !.pc = IF pinnedElsewhere(r) THEN "recreate"
                          ELSE IF NoMigration(r) THEN "unsuspend"
                          ELSE IF HasMain(r) /\ r.pod.hib THEN "owner" ELSE "probe"]

(* Mutant: the snapshot goes as soon as the restored pod is there. *)
advanceDropsEarly(r) ==
    IF mainOffTarget(r)
    THEN IF r.pod.hib THEN "deleteOld" ELSE IF r.pod.live THEN "tracked" ELSE "unsuspend"
    ELSE IF ~HasMain(r) THEN "restore"
    ELSE IF r.pod.hib /\ r.cs.pin \in {NoNode, r.place.node}
    THEN IF migrating(r) THEN "wakeInPlace" ELSE "unsuspend"
    ELSE "dropRestored"

(* advanceMigration: the arm a pass takes once the probe has found the snapshot. *)
advanceMigration(r) ==
    IF mainOffTarget(r)
    THEN IF r.pod.hib THEN "deleteOld" ELSE IF r.pod.live THEN "tracked" ELSE "unsuspend"
    ELSE IF ~HasMain(r) THEN "restore"
    ELSE IF r.pod.hib /\ r.cs.pin \in {NoNode, r.place.node}
    THEN IF migrating(r) THEN "wakeInPlace" ELSE "unsuspend"
    ELSE IF r.pod.live THEN "dropRestored"
    ELSE IF migrating(r) THEN "mark" ELSE "unsuspend"

wokenAt(q, gen) == ~q.hib /\ q.live /\ q.state = "ready" /\ q.obs >= gen

(* Mutant: the phase of a main that is waited for is left to whoever asks. *)
EnsureMainUnnamed(r) ==
    IF ~HasMain(r) THEN [r EXCEPT !.pc = "intent"]
    ELSE [r EXCEPT !.pc = "status", !.last = IF r.pod.live THEN "Running" ELSE @]

(* The main is created, waited for, or there. *)
EnsureMain(r) ==
    IF ~HasMain(r) THEN [r EXCEPT !.pc = "intent"]
    ELSE [r EXCEPT !.pc = "status", !.last = IF r.pod.live THEN "Running" ELSE "Pending"]

(* After applyUnsuspend: a failed main ends its pass, any other goes on to
   reclaimWokenSnapshots. *)
Unsuspended(r) ==
    IF r.last = "Failed" THEN [r EXCEPT !.pc = "status"]
    ELSE IF HasMain(r) /\ r.cs.owed # 0 /\ wokenAt(r.pod, r.cs.owed) THEN [r EXCEPT !.pc = "reclaim"]
    ELSE EnsureMain(r)

-----------------------------------------------------------------------------
(* Reconcile *)

Reconcile ==
    /\ run.pc = "idle" /\ queued /\ queued' = FALSE
    /\ run' = [pc |-> "stamp", cs |-> cs, pod |-> pod[Main], place |-> place,
               restore |-> FALSE, last |-> ""]
    /\ UNCHANGED <<clusterVars, cs, place, boots>>

(* A step that patches the main, unless the pass's copy needs no patch. *)
PatchMain(needed, q, Then(_)) ==
    /\ needed => pod[Main].at # "absent"
    /\ pod' = IF needed THEN [pod EXCEPT ![Main] = q] ELSE pod
    /\ run' = Then(IF needed THEN Patched(q) ELSE run)
    /\ UNCHANGED <<tag, cs, place>> /\ RestUnchanged /\ Watched

Stale(r) == HasMain(r) /\ r.pod.gen # r.cs.gen

syncCocoonSetGeneration ==
    /\ run.pc = "stamp"
    /\ PatchMain(Stale(run), [pod[Main] EXCEPT !.gen = run.cs.gen], Entry)

(* The main waits for a node it is no longer pinned to. *)
RecreateUnscheduled ==
    /\ run.pc = "recreate"
    /\ pod' = Deleted /\ Return
    /\ UNCHANGED <<tag, cs, place>> /\ RestUnchanged /\ Watched

(* claimed: podsHibernatedByCR. *)
SkipClaimed(claimed) ==
    /\ run.pc = "owner"
    /\ Goto(IF Main \in claimed THEN "unsuspend" ELSE "probe")
    /\ UNCHANGED <<tag, cs>> /\ PodUnchanged /\ RestUnchanged /\ Watched

HasHibernateSnapshot ==
    /\ run.pc = "probe"
    /\ Goto(IF tag[Main] # "none" THEN advanceMigration(run)
            ELSE IF mainOffTarget(run) THEN "startStatus" ELSE "unsuspend")
    /\ UNCHANGED <<tag, cs>> /\ PodUnchanged /\ RestUnchanged /\ Watched

(* Migrating is durable before the main is quiesced. *)
startMigration ==
    /\ run.pc = "startStatus"
    /\ PatchSet([cs EXCEPT !.phase = "Migrating"], "quiesce")
    /\ UNCHANGED tag /\ PodUnchanged /\ RestUnchanged /\ Watched

Quiesce ==
    /\ run.pc = "quiesce"
    /\ PatchMain(~run.pod.hib, [pod[Main] EXCEPT !.hib = TRUE], LAMBDA r : [r EXCEPT !.pc = "idle"])

(* tracked: podsTrackedByHibernationCR. *)
SkipTracked(tracked) ==
    /\ run.pc = "tracked"
    /\ Goto(IF Main \in tracked THEN "unsuspend" ELSE "dropStale")
    /\ UNCHANGED <<tag, cs>> /\ PodUnchanged /\ RestUnchanged /\ Watched

(* A leftover before the migration starts, the migration's own once the VM runs. *)
DeleteManifest ==
    /\ run.pc \in {"dropStale", "dropRestored"}
    /\ tag' = [tag EXCEPT ![Main] = "none"]
    /\ Goto("mark")
    /\ UNCHANGED cs /\ PodUnchanged /\ RestUnchanged /\ Watched

DeleteOld ==
    /\ run.pc = "deleteOld"
    /\ pod' = Deleted /\ Goto("mark")
    /\ UNCHANGED <<tag, cs, place>> /\ RestUnchanged /\ Watched

(* Create: an old main still terminating is AlreadyExists. *)
CreateMain(restore, l) ==
    /\ IF pod[Main].at = "absent"
       THEN /\ pod' = [pod EXCEPT ![Main] = NewPod(TRUE, restore, run.cs.gen)]
            /\ place' = [aff |-> run.cs.pin, node |-> NoNode]
            /\ Goto(l)
       ELSE UNCHANGED <<pod, place>> /\ Return
    /\ UNCHANGED <<tag, cs>> /\ RestUnchanged /\ Watched

RestoreMain == run.pc = "restore" /\ CreateMain(TRUE, "mark")

WakeInPlace ==
    /\ run.pc = "wakeInPlace"
    /\ PatchMain(run.pod.hib, [pod[Main] EXCEPT !.hib = FALSE], LAMBDA r : [r EXCEPT !.pc = "mark"])

markMigrating ==
    /\ run.pc = "mark"
    /\ PatchSet([cs EXCEPT !.phase = "Migrating"], "idle")
    /\ UNCHANGED tag /\ PodUnchanged /\ RestUnchanged /\ Watched

-----------------------------------------------------------------------------
(* The normal flow *)

(* The record is durable before the annotation goes. *)
applyUnsuspend(claimed) ==
    /\ run.pc = "unsuspend"
    /\ IF HasMain(run) /\ run.pod.hib /\ Main \notin claimed
       THEN PatchSet([cs EXCEPT !.owed = run.cs.gen], "clear")
       ELSE run' = Unsuspended(run) /\ UNCHANGED cs
    /\ UNCHANGED tag /\ PodUnchanged /\ RestUnchanged /\ Watched

ClearHibernate ==
    /\ run.pc = "clear"
    /\ PatchMain(run.pod.hib, [pod[Main] EXCEPT !.hib = FALSE], Unsuspended)

reclaimSnapshots ==
    /\ run.pc = "reclaim"
    /\ tag' = [tag EXCEPT ![Main] = "none"]
    /\ Goto("forget")
    /\ UNCHANGED cs /\ PodUnchanged /\ RestUnchanged /\ Watched

forgetReclaim ==
    /\ run.pc = "forget"
    /\ cs' = [cs EXCEPT !.owed = 0]
    /\ run' = EnsureMain([run EXCEPT !.cs = cs'])
    /\ UNCHANGED tag /\ PodUnchanged /\ RestUnchanged /\ Watched

(* Mutant: a recreated main boots from its image although a CR keeps its snapshot. *)
ForgetIntent(restorable) ==
    /\ run.pc = "intent"
    /\ run' = [run EXCEPT !.pc = "create"]
    /\ UNCHANGED <<tag, cs>> /\ PodUnchanged /\ RestUnchanged /\ Watched

(* restorable: podsRestorableByCR. *)
markRestoreFromIntent(restorable) ==
    /\ run.pc = "intent"
    /\ run' = [run EXCEPT !.pc = "create",
                          !.restore = Main \in restorable /\ tag[Main] # "none"]
    /\ UNCHANGED <<tag, cs>> /\ PodUnchanged /\ RestUnchanged /\ Watched

createMainAgent == run.pc = "create" /\ CreateMain(run.restore, "idle")

WriteStatus ==
    /\ run.pc = "status"
    /\ cs' = [cs EXCEPT !.phase = run.last]
    /\ Return
    /\ UNCHANGED tag /\ PodUnchanged /\ RestUnchanged
    /\ Watch(run.last = "Pending")

(* A patch of a main that is gone. *)
PodNotFound ==
    /\ pod[Main].at = "absent"
    /\ \/ run.pc = "stamp" /\ Stale(run)
       \/ run.pc = "quiesce" /\ ~run.pod.hib
       \/ run.pc \in {"wakeInPlace", "clear"} /\ run.pod.hib
    /\ Return
    /\ UNCHANGED <<tag, cs>> /\ PodUnchanged /\ RestUnchanged /\ Watched

Abandon ==
    /\ run.pc # "idle" /\ faults > 0 /\ faults' = faults - 1
    /\ Return
    /\ UNCHANGED <<pod, tag, vk, vkGen, cs, place, boots>> /\ Watched

PassStep(claimed, tracked, restorable) ==
    \/ syncCocoonSetGeneration \/ RecreateUnscheduled \/ SkipClaimed(claimed)
    \/ HasHibernateSnapshot \/ startMigration \/ Quiesce \/ SkipTracked(tracked)
    \/ DeleteManifest \/ DeleteOld \/ RestoreMain \/ WakeInPlace \/ markMigrating
    \/ applyUnsuspend(claimed) \/ ClearHibernate \/ reclaimSnapshots \/ forgetReclaim
    \/ markRestoreFromIntent(restorable) \/ createMainAgent \/ WriteStatus \/ PodNotFound

-----------------------------------------------------------------------------
(* The user, the scheduler, evictions and vk-cocoon *)

(* A pass that may quiesce the main is under way, or the main quiesces. *)
Quiescing ==
    \/ /\ run.pc # "idle" /\ HasMain(run) /\ ~run.pod.hib
       /\ run.cs.pin \notin {NoNode, run.place.node}
    \/ pod[Main].hib /\ vk[Main] # "asleep"

EditPin ==
    /\ cs.gen < MaxGen
    /\ Patient => ~Quiescing
    /\ \E n \in Pins \ {cs.pin} : cs' = [cs EXCEPT !.gen = @ + 1, !.pin = n]
    /\ UNCHANGED <<clusterVars, place, run, boots>> /\ Watched

Schedule ==
    /\ pod[Main].at = "present" /\ place.node = NoNode
    /\ BindRace \/ run.pc = "idle" \/ ~pinnedElsewhere(run)
    /\ \E n \in Nodes \ Full : /\ place.aff \in {NoNode, n}
                               /\ place' = [place EXCEPT !.node = n]
    /\ UNCHANGED <<clusterVars, cs, run, boots>> /\ Watched

(* A migration holds the intent to restore, and no pass under way may write another
   phase over it. *)
Migrates ==
    /\ cs.phase = "Migrating"
    /\ Patient => run.pc \in {"idle", "deleteOld", "restore", "wakeInPlace", "mark"}

(* A drain or an eviction before the first boot, or while the VM's state is in the
   registry, nothing reads it, and a migration or a CR knows of it. *)
Evict(restorable) ==
    /\ faults > 0 /\ faults' = faults - 1
    /\ pod[Main].at = "present" /\ vk[Main] \in {"asleep", "off"}
    /\ boots # "none" => tag[Main] = "fresh" /\ (Migrates \/ Main \in restorable)
    /\ pod' = Deleted
    /\ UNCHANGED <<tag, vk, vkGen, cs, place, run, boots>> /\ Watched

VkActs ==
    /\ VkStep(Main)
    /\ vk[Main] = "off" /\ pod[Main].at = "present" => place.node # NoNode
    /\ place' = IF pod'[Main].at = "absent" THEN Nowhere ELSE place
    /\ boots' = IF vk[Main] # "off" \/ vk'[Main] # "running" THEN boots
                ELSE IF boots = "none" THEN "one" ELSE "more"
    /\ UNCHANGED <<cs, run>> /\ Watched

VkFails ==
    /\ VkMayFail /\ VkFail(Main)
    /\ UNCHANGED <<cs, place, run, boots>> /\ Watched

NoCRs == PassStep({}, {}, {})

Next ==
    \/ Reconcile \/ NoCRs \/ Abandon
    \/ EditPin \/ Schedule \/ Evict({}) \/ VkActs \/ VkFails

Spec == Init /\ [][Next]_vars

(* The controller, the scheduler and vk-cocoon keep working; nobody has to edit, evict
   or fail. *)
Fairness == WF_vars(Reconcile) /\ WF_vars(NoCRs) /\ WF_vars(Schedule) /\ WF_vars(VkActs)

FairSpec == Spec /\ Fairness

-----------------------------------------------------------------------------
(* Properties *)

(* Where the VM's latest state is; nowhere once it is lost: no VM runs on it and no
   snapshot holds it, or the VM was booted from its image instead. *)
Home ==
    IF boots = "none" THEN Unborn
    ELSE IF tag[Main] = "fresh" THEN Registry
    ELSE IF vk[Main] \in {"running", "pushing"} /\ boots = "one" THEN place.node
    ELSE NoNode

State == INSTANCE VMState WITH home <- Home

(* No pin edit, eviction, failed call or restart loses the main's live state: the old
   pod dies only once its state is in the registry, and the snapshot goes only once the
   VM runs from it. *)
KeepsLiveState == State!Spec

(* Once the pin is left alone on a node that takes the main, or taken away, the main
   runs there and the set says so, or it waits as Failed for the user. *)
PinIsMet ==
    <>[](cs.pin \notin Full)
    => <>[](\/ /\ cs.phase = "Running" /\ vk[Main] = "running"
               /\ cs.pin \in {NoNode, place.node}
            \/ cs.phase = "Failed" /\ pod[Main].state = "failed")
=============================================================================
