------------------------------ MODULE Rollout ------------------------------
(* A changed spec reaches a pod: the drift comparison (module Drift), the triage of the
   main, a sub-agent or a toolbox, and the status that reports it
   (cocoonset/reconciler.go, rebuild.go, status.go).

   The set has one slot besides a main that runs; when the slot is the main, it is all
   there is.

   Simplifications:
     - the calls of one triage are one step, and none fails: module Rebuild takes them
       apart, with several slots and scale-downs;
     - LastDeleted is left out: a slot with a rebuild on record may still be backing off;
     - no suspend, migration or restore. *)
EXTENDS Naturals, Drift

CONSTANTS Specs,                \* the templates the user switches between
          NoPodSpec,            \* the spec of no pod
          maxRebuildAttempts,   \* 4 in the code
          MaxGen,               \* bound on spec edits
          MaxEvents             \* bound on deletes by the user and on recoveries

ASSUME RolloutAssumption ==
    /\ Specs \subseteq Templates /\ Specs # {} /\ NoPodSpec \notin PodSpecs
    /\ maxRebuildAttempts \in Nat \ {0} /\ MaxGen \in Nat \ {0} /\ MaxEvents \in Nat

VARIABLES role,         \* which pod the slot holds
          cs,           \* the CocoonSet as the API server holds it
          pod,          \* the slot's pod
          queued,       \* a reconcile request waits
          run,          \* the reconcile pass, with its copies
          events        \* deletes and recoveries still to come

vars == <<role, cs, pod, queued, run, events>>

Phases == {"", "Pending", "Scaling", "Running", "Failed"}
Progress == {"Stable", "Reconciling", "DeadLettered"}
Statuses == [obs : 0..MaxGen, phase : Phases, ready : BOOLEAN, progress : Progress]

Entries == [count : 0..maxRebuildAttempts, gen : 0..MaxGen, parked : BOOLEAN]
NoEntry == [count |-> 0, gen |-> 0, parked |-> FALSE]

Sets == [gen : 1..MaxGen, tmpl : Specs, entry : Entries, status : Statuses]

(* dead: the dead-letter annotation, or 0.  failed: it has been terminal (history). *)
Pods == [at : {"absent", "present", "terminating"}, spec : PodSpecs \cup {NoPodSpec},
         ready : BOOLEAN, terminal : BOOLEAN, dead : 0..MaxGen, failed : BOOLEAN]
NoPod == [at |-> "absent", spec |-> NoPodSpec, ready |-> FALSE, terminal |-> FALSE,
          dead |-> 0, failed |-> FALSE]

(* phase: the phase the pass asks for, or "" to derive it.  again: it asks for a requeue. *)
Runs == [pc : {"idle", "triage", "ensure", "status"}, cs : Sets, pod : Pods,
         phase : Phases, again : BOOLEAN]

TypeOK ==
    /\ role \in Roles /\ cs \in Sets /\ pod \in Pods /\ queued \in BOOLEAN
    /\ run \in Runs /\ events \in 0..MaxEvents

Init ==
    /\ role \in Roles
    /\ \E t \in Specs :
         cs = [gen |-> 1, tmpl |-> t, entry |-> NoEntry,
               status |-> [obs |-> 0, phase |-> "", ready |-> FALSE, progress |-> "Stable"]]
    /\ pod = NoPod
    /\ queued = TRUE
    /\ run = [pc |-> "idle", cs |-> cs, pod |-> pod, phase |-> "", again |-> FALSE]
    /\ events = MaxEvents

Watch(again) ==
    queued' = (queued \/ again \/ pod' # pod \/ <<cs'.gen, cs'.status>> # <<cs.gen, cs.status>>)

-----------------------------------------------------------------------------
(* What a pass decides on its copies *)

Present(r) == r.pod.at = "present"

Matches(r) == podSpecMatches(role, r.pod.spec, r.pod.terminal, r.cs.tmpl)

(* A main is rebuilt only for a drift: it waits as Failed when it is terminal. *)
NeedsRebuild(r) == Present(r) /\ (~Matches(r) \/ (r.pod.terminal /\ role # "main"))

CurrentEntry(c) ==
    IF c.entry.gen = c.gen THEN c.entry ELSE [count |-> 0, gen |-> c.gen, parked |-> FALSE]

budgetExhausted(c) == c.entry.gen = c.gen /\ c.entry.parked

(* triagePod left the pod where it is. *)
Kept(r) ==
    IF role = "main" /\ r.pod.terminal THEN [r EXCEPT !.pc = "status", !.phase = "Failed"]
    ELSE [r EXCEPT !.pc = "ensure"]

Return(r) == [r EXCEPT !.pc = "idle"]
Deleted == IF pod.at = "present" THEN [pod EXCEPT !.at = "terminating"] ELSE pod

-----------------------------------------------------------------------------
(* A pass *)

Reconcile ==
    /\ run.pc = "idle" /\ queued /\ queued' = FALSE
    /\ run' = [pc |-> "triage", cs |-> cs, pod |-> pod, phase |-> "", again |-> FALSE]
    /\ UNCHANGED <<role, cs, pod, events>>

(* The pod needs no rebuild, or is parked at this generation. *)
Keep ==
    /\ run.pc = "triage"
    /\ ~NeedsRebuild(run) \/ (run.pod.dead # 0 /\ run.pod.dead = run.cs.gen)
    /\ run' = Kept(run)
    /\ UNCHANGED <<cs, pod>> /\ Watch(FALSE)

(* A drifted main that backs off ends the pass before its status. *)
BackOff ==
    /\ run.pc = "triage" /\ NeedsRebuild(run) /\ run.pod.dead = 0
    /\ CurrentEntry(run.cs).count \in 1..(maxRebuildAttempts - 1)
    /\ run' = IF role = "main" THEN Return(run) ELSE [run EXCEPT !.pc = "ensure", !.again = TRUE]
    /\ UNCHANGED <<cs, pod>> /\ Watch(role = "main")

(* Mutant: one attempt too many. *)
rebuildPodOffByOne ==
    /\ run.pc = "triage" /\ NeedsRebuild(run) /\ run.pod.dead = 0
    /\ cs' = [cs EXCEPT !.entry = [CurrentEntry(run.cs) EXCEPT !.count = @ + 1]]
    /\ pod' = Deleted /\ run' = Return(run) /\ Watch(TRUE)

rebuildPod ==
    /\ run.pc = "triage" /\ NeedsRebuild(run) /\ run.pod.dead = 0
    /\ CurrentEntry(run.cs).count < maxRebuildAttempts
    /\ cs' = [cs EXCEPT !.entry = [CurrentEntry(run.cs) EXCEPT !.count = @ + 1]]
    /\ pod' = Deleted /\ run' = Return(run) /\ Watch(TRUE)

(* The history patch refreshes the pass's copy of the set, the dead-letter that of the
   pod; a pod that is gone ends the pass. *)
DeadLetter ==
    /\ run.pc = "triage" /\ NeedsRebuild(run) /\ run.pod.dead = 0
    /\ CurrentEntry(run.cs).count = maxRebuildAttempts
    /\ cs' = IF CurrentEntry(run.cs).parked THEN cs
             ELSE [cs EXCEPT !.entry = [CurrentEntry(run.cs) EXCEPT !.parked = TRUE]]
    /\ LET c == IF cs' = cs THEN run.cs ELSE cs' IN
       IF pod.at = "absent"
       THEN pod' = pod /\ run' = Return(run) /\ Watch(TRUE)
       ELSE /\ pod' = [pod EXCEPT !.dead = c.gen]
            /\ run' = Kept([run EXCEPT !.cs = c, !.pod = [pod' EXCEPT !.at = "present"]])
            /\ Watch(FALSE)

(* A dead-letter of an older generation is lifted. *)
Lift ==
    /\ run.pc = "triage" /\ NeedsRebuild(run) /\ run.pod.dead \notin {0, run.cs.gen}
    /\ cs' = [cs EXCEPT !.entry = NoEntry]
    /\ pod' = Deleted /\ run' = Return(run) /\ Watch(TRUE)

(* Create: an old pod still terminating is AlreadyExists, which a main waits for and the
   other slots pass over. *)
CreatePod ==
    /\ run.pc = "ensure" /\ ~Present(run) /\ ~budgetExhausted(run.cs)
    /\ pod' = IF pod.at = "absent"
              THEN [NoPod EXCEPT !.at = "present", !.spec = Stored(role, run.cs.tmpl)] ELSE pod
    /\ run' = IF role = "main" \/ pod.at = "absent" THEN Return(run)
              ELSE [run EXCEPT !.pc = "status"]
    /\ UNCHANGED cs /\ Watch(run'.pc = "idle")

(* The slot is spent, or its pod is there: a main is waited for. *)
Ensured ==
    /\ run.pc = "ensure" /\ (Present(run) \/ budgetExhausted(run.cs))
    /\ run' = [run EXCEPT !.pc = "status",
                 !.phase = IF role # "main" THEN ""
                           ELSE IF ~Present(run) THEN "Failed"
                           ELSE IF ~run.pod.ready THEN "Pending" ELSE "",
                 !.again = @ \/ (role = "main" /\ Present(run) /\ ~run.pod.ready)]
    /\ UNCHANGED <<cs, pod>> /\ Watch(FALSE)

(* All agents and toolboxes are ready; the main beside another slot is. *)
AllReady(r) == Present(r) /\ r.pod.ready

derivePhase(r) ==
    IF role = "main" /\ ~Present(r) THEN "Pending" ELSE IF AllReady(r) THEN "Running" ELSE "Scaling"

deadLettered(r) == Present(r) /\ r.pod.dead = r.cs.gen

(* Mutant: a parked pod is not told from one that is being worked on. *)
parkedAsProgress(r, phase) ==
    IF phase \in {"Pending", "Scaling"} THEN "Reconciling" ELSE "Stable"

buildConditions(r, phase) ==
    IF deadLettered(r) THEN "DeadLettered"
    ELSE IF phase \in {"Pending", "Scaling"} THEN "Reconciling" ELSE "Stable"

buildStatus(r) ==
    LET phase == IF r.phase = "" THEN derivePhase(r) ELSE r.phase IN
    [obs |-> r.cs.gen, phase |-> phase, ready |-> AllReady(r),
     progress |-> buildConditions(r, phase)]

patchStatus ==
    /\ run.pc = "status"
    /\ cs' = IF run.cs.status = buildStatus(run) THEN cs ELSE [cs EXCEPT !.status = buildStatus(run)]
    /\ run' = Return(run) /\ UNCHANGED pod /\ Watch(run.again)

PassStep ==
    /\ Keep \/ BackOff \/ rebuildPod \/ DeadLetter \/ Lift \/ CreatePod \/ Ensured \/ patchStatus
    /\ UNCHANGED <<role, events>>

-----------------------------------------------------------------------------
(* The user and the node *)

(* A class stays once it is set. *)
EditSpec ==
    /\ cs.gen < MaxGen
    /\ \E t \in Specs : /\ t # cs.tmpl /\ cs.tmpl.class \in {None, t.class}
                        /\ cs' = [cs EXCEPT !.gen = @ + 1, !.tmpl = t]
    /\ UNCHANGED <<role, pod, run, events>> /\ Watch(FALSE)

PodReady ==
    /\ pod.at = "present" /\ ~pod.ready /\ ~pod.terminal
    /\ pod' = [pod EXCEPT !.ready = TRUE]
    /\ UNCHANGED <<role, cs, run, events>> /\ Watch(FALSE)

(* vk-cocoon reports a failure before the pod's phase and readiness follow. *)
PodFails ==
    /\ pod.at = "present" /\ ~pod.terminal
    /\ \E r \in {FALSE, pod.ready} :
         pod' = [pod EXCEPT !.terminal = TRUE, !.ready = r, !.failed = TRUE]
    /\ UNCHANGED <<role, cs, run, events>> /\ Watch(FALSE)

PodRecovers ==
    /\ pod.at = "present" /\ pod.terminal /\ events > 0 /\ events' = events - 1
    /\ pod' = [pod EXCEPT !.terminal = FALSE]
    /\ UNCHANGED <<role, cs, run>> /\ Watch(FALSE)

UserDeletes ==
    /\ pod.at = "present" /\ events > 0 /\ events' = events - 1
    /\ pod' = Deleted
    /\ UNCHANGED <<role, cs, run>> /\ Watch(FALSE)

PodGone ==
    /\ pod.at = "terminating" /\ pod' = NoPod
    /\ UNCHANGED <<role, cs, run, events>> /\ Watch(FALSE)

Next ==
    \/ Reconcile \/ PassStep
    \/ EditSpec \/ PodReady \/ PodFails \/ PodRecovers \/ UserDeletes \/ PodGone

Spec == Init /\ [][Next]_vars

(* The controller works, time passes for a pass that backs off, and the node starts and
   stops pods; nobody has to edit, fail or recover. *)
Fairness ==
    /\ WF_vars(Reconcile) /\ WF_vars(PassStep) /\ WF_vars(PodReady) /\ WF_vars(PodGone)
    /\ SF_vars(rebuildPod /\ UNCHANGED <<role, events>>)

FairSpec == Spec /\ Fairness

-----------------------------------------------------------------------------
(* Properties *)

Current == UpToDate(role, pod.spec, cs.tmpl)

(* An external defaulter rewrites what some template builds into this pod. *)
Rewritten == \E t \in Specs : pod.spec = Stored(role, t) /\ Limits(t) # t.limits

(* A pod that never failed is dead-lettered only where an external defaulter rewrites the
   pods: building, API defaulting and comparing agree, so no healthy set is rebuilt until
   its budget is spent. *)
HealthyIsNotParked == pod.dead # 0 /\ ~pod.failed => Rewritten

(* A status that reports the current generation Running, Ready and Stable is not written
   over a pod of an older spec (docs/observability.md:54). *)
ConvergedIsRolledOut ==
    /\ cs.status.obs = cs.gen /\ cs.status.phase = "Running" /\ cs.status.ready
    /\ cs.status.progress = "Stable" /\ pod.at = "present"
    => Current

Parked == pod.at = "present" /\ pod.dead = cs.gen

(* Once the spec is left alone, its status tells how the rollout ended: a ready pod of
   that spec, a parked one, a main that failed, or a slot whose budget is spent. *)
RolloutIsReported ==
    <>[](/\ cs.status.obs = cs.gen
         /\ cs.status.progress = "DeadLettered" <=> Parked
         /\ \/ pod.at = "present" /\ Current /\ pod.ready /\ cs.status.phase = "Running"
            \/ Parked
            \/ role = "main" /\ cs.status.phase = "Failed" /\ (pod.terminal \/ pod.at = "absent")
            \/ pod.at = "absent" /\ budgetExhausted(cs))
=============================================================================
