--------------------------- MODULE OperatorProofs ---------------------------
(* Proofs about module Operator.  MP and HP are the proof modules of the two reconcilers
   over Operator's own variables: their lemmas hold here once the constants meet their
   assumptions, which OperatorAssumption says.  Operator names the components M and H,
   so the lemmas first identify M's actions with MP's and H's with HP's. *)
EXTENDS Operator, TLAPS

MP == INSTANCE MigrationProofs
HP == INSTANCE HibernationProofs WITH MaxDeletes <- 0, setGen <- cs.gen

-----------------------------------------------------------------------------
(* The two readings of a component agree *)

(* The set's initial states and types. *)
LEMMA SetStates ==
    (M!Init <=> MP!Init) /\ (M!Running <=> MP!Running) /\ (M!TypeOK <=> MP!TypeOK)
BY DEF M!Init, M!Running, M!Starting, M!ClusterInit, M!NotBooted, M!NewPod, M!Pins, M!NoPod,
       M!TypeOK, M!ClusterTypeOK, M!Sets, M!Places, M!Runs, M!Boots, M!Pods, M!VkStates,
       M!Generations, M!Phases, M!PCs, MP!Init, MP!Running, MP!Starting, MP!ClusterInit,
       MP!NotBooted, MP!NewPod, MP!Pins, MP!NoPod, MP!TypeOK, MP!ClusterTypeOK, MP!Sets,
       MP!Places, MP!Runs, MP!Boots, MP!Pods, MP!VkStates, MP!Generations, MP!Phases, MP!PCs

(* The steps of the set's environment, and the start of a pass. *)
LEMMA SetEvents ==
    /\ (M!Reconcile <=> MP!Reconcile) /\ (M!EditPin <=> MP!EditPin)
    /\ (M!Schedule <=> MP!Schedule) /\ (M!Watched <=> MP!Watched)
    /\ \A restorable : M!Evict(restorable) <=> MP!Evict(restorable)
BY DEF M!Reconcile, M!clusterVars, M!Patched, M!RestUnchanged, M!Watched, M!Watch, M!EditPin,
       M!Quiescing, M!Pins, M!HasMain, M!Schedule, M!pinnedElsewhere, M!Evict, M!Migrates,
       M!Deleted, MP!Reconcile, MP!clusterVars, MP!Patched, MP!RestUnchanged, MP!Watched,
       MP!Watch, MP!EditPin, MP!Quiescing, MP!Pins, MP!HasMain, MP!Schedule, MP!pinnedElsewhere,
       MP!Evict, MP!Migrates, MP!Deleted

(* vk-cocoon's steps. *)
LEMMA SetVk ==
    M!VkActs <=> MP!VkActs
BY DEF M!VkActs, M!VkStep, M!Nowhere, M!Watched, M!VkBoot, M!VkRefuse, M!VkRestore,
       M!VkHibernate, M!VkWake, M!VkPush, M!VkReportHibernated, M!VkWoken, M!VkEcho, M!VkDelete,
       M!Watch, M!Report, M!Spent, M!VkStart, M!NoPod, MP!VkActs, MP!VkStep, MP!Nowhere,
       MP!Watched, MP!VkBoot, MP!VkRefuse, MP!VkRestore, MP!VkHibernate, MP!VkWake, MP!VkPush,
       MP!VkReportHibernated, MP!VkWoken, MP!VkEcho, MP!VkDelete, MP!Watch, MP!Report, MP!Spent,
       MP!VkStart, MP!NoPod

(* The steps of a set's pass. *)
LEMMA SetPasses ==
    ASSUME NEW claimed, NEW tracked, NEW restorable
    PROVE  M!PassStep(claimed, tracked, restorable) <=> MP!PassStep(claimed, tracked, restorable)
BY DEF M!PassStep, M!syncCocoonSetGeneration, M!RecreateUnscheduled, M!SkipClaimed,
       M!HasHibernateSnapshot, M!startMigration, M!Quiesce, M!SkipTracked, M!DeleteManifest,
       M!DeleteOld, M!RestoreMain, M!WakeInPlace, M!markMigrating, M!applyUnsuspend,
       M!ClearHibernate, M!reclaimSnapshots, M!forgetReclaim, M!markRestoreFromIntent,
       M!createMainAgent, M!WriteStatus, M!PodNotFound, M!Stale, M!Entry, M!Deleted, M!Return,
       M!RestUnchanged, M!Watched, M!Goto, M!PodUnchanged, M!advanceMigration, M!mainOffTarget,
       M!PatchSet, M!CreateMain, M!HasMain, M!Unsuspended, M!EnsureMain, M!Watch,
       M!pinnedElsewhere, M!NoMigration, M!migrating, M!NewPod, M!wokenAt, M!NoPod, M!PatchMain,
       M!Patched, MP!PassStep, MP!syncCocoonSetGeneration, MP!RecreateUnscheduled,
       MP!SkipClaimed, MP!HasHibernateSnapshot, MP!startMigration, MP!Quiesce, MP!SkipTracked,
       MP!DeleteManifest, MP!DeleteOld, MP!RestoreMain, MP!WakeInPlace, MP!markMigrating,
       MP!applyUnsuspend, MP!ClearHibernate, MP!reclaimSnapshots, MP!forgetReclaim,
       MP!markRestoreFromIntent, MP!createMainAgent, MP!WriteStatus, MP!PodNotFound, MP!Stale,
       MP!Entry, MP!Deleted, MP!Return, MP!RestUnchanged, MP!Watched, MP!Goto, MP!PodUnchanged,
       MP!advanceMigration, MP!mainOffTarget, MP!PatchSet, MP!CreateMain, MP!HasMain,
       MP!Unsuspended, MP!EnsureMain, MP!Watch, MP!pinnedElsewhere, MP!NoMigration,
       MP!migrating, MP!NewPod, MP!wokenAt, MP!NoPod, MP!PatchMain, MP!Patched

(* The initial states and types of the CRs. *)
LEMMA CRStates ==
    (H!Init <=> HP!Init) /\ (H!TypeOK <=> HP!TypeOK)
BY DEF H!Init, H!NoRecord, H!Idle, H!ClusterInit, H!NotBooted, H!NoPod, H!NewPod, H!TypeOK,
       H!ClusterTypeOK, H!CRRecords, H!Pods, H!Passes, H!Generations, H!VkStates, H!Phases,
       H!PCs, H!InFlight, H!Locked, HP!Init, HP!NoRecord, HP!Idle, HP!ClusterInit, HP!NotBooted,
       HP!NoPod, HP!NewPod, HP!TypeOK, HP!ClusterTypeOK, HP!CRRecords, HP!Pods, HP!Passes,
       HP!Generations, HP!VkStates, HP!Phases, HP!PCs, HP!InFlight, HP!Locked

(* The CRs' users and informers, and the start of a pass. *)
LEMMA CREvents ==
    /\ \A c : /\ H!Reconcile(c) <=> HP!Reconcile(c)
              /\ H!SyncCR(c) <=> HP!SyncCR(c)
              /\ H!CreateCR(c) <=> HP!CreateCR(c)
              /\ H!EditDesire(c) <=> HP!EditDesire(c)
    /\ \A v : H!SyncPod(v) <=> HP!SyncPod(v)
BY DEF H!Reconcile, H!Idle, H!CaughtUp, H!FirstCall, H!VM, H!clusterVars, H!envVars, H!NoRecord,
       H!NoPod, H!SyncCR, H!CreateCR, H!Spend, H!EnvStep, H!passVars, H!EditDesire,
       H!TerminalPhase, H!SyncPod, H!podWatchPredicate, H!hibernationsTargetingPod,
       HP!Reconcile, HP!Idle, HP!CaughtUp, HP!FirstCall, HP!VM, HP!clusterVars, HP!envVars,
       HP!NoRecord, HP!NoPod, HP!SyncCR, HP!CreateCR, HP!Spend, HP!EnvStep, HP!passVars,
       HP!EditDesire, HP!TerminalPhase, HP!SyncPod, HP!podWatchPredicate,
       HP!hibernationsTargetingPod

(* The steps of a CR's pass. *)
LEMMA CRPasses ==
    \A c : H!PassStep(c) <=> HP!PassStep(c)
BY DEF H!PassStep, H!AddFinalizer, H!markPending, H!lockVM, H!setPhase, H!reconcileHibernate,
       H!HasHibernateSnapshot, H!reconcileWake, H!DeleteManifestIfPresent, H!deleteLockVM,
       H!listHolders, H!deleteHeldTag, H!RemoveFinalizer, H!Return, H!clusterVars, H!envVars,
       H!markPendingIsNoop, H!NoWrite, H!WriteStatus, H!StripeOf, H!HibernateBranch,
       H!setPhaseIsNoop, H!Goto, H!PodGone, H!Quiet, H!Answer, H!HibernateState, H!Completed,
       H!PollHibernate, H!VM, H!Announce, H!Writing, H!Settled, H!AfterWakePatch, H!CaughtUp,
       H!vmHeldByAnotherCR, H!NoRecord, H!Idle, H!Unlock, H!NewStatus, H!MergePatch, H!InFlight,
       H!SetByPhase, H!phaseDeadlineExceeded, H!firstTransitionAt, H!NoPod, H!Ready,
       HP!PassStep, HP!AddFinalizer, HP!markPending, HP!lockVM, HP!setPhase,
       HP!reconcileHibernate, HP!HasHibernateSnapshot, HP!reconcileWake,
       HP!DeleteManifestIfPresent, HP!deleteLockVM, HP!listHolders, HP!deleteHeldTag,
       HP!RemoveFinalizer, HP!Return, HP!clusterVars, HP!envVars, HP!markPendingIsNoop,
       HP!NoWrite, HP!WriteStatus, HP!StripeOf, HP!HibernateBranch, HP!setPhaseIsNoop, HP!Goto,
       HP!PodGone, HP!Quiet, HP!Answer, HP!HibernateState, HP!Completed, HP!PollHibernate,
       HP!VM, HP!Announce, HP!Writing, HP!Settled, HP!AfterWakePatch, HP!CaughtUp,
       HP!vmHeldByAnotherCR, HP!NoRecord, HP!Idle, HP!Unlock, HP!NewStatus, HP!MergePatch,
       HP!InFlight, HP!SetByPhase, HP!phaseDeadlineExceeded, HP!firstTransitionAt, HP!NoPod,
       HP!Ready

-----------------------------------------------------------------------------
(* The types of the composition *)

Inv == MP!TypeInv /\ HP!HInv

(* The lemmas of the two proof modules, for the constants of this one. *)
LEMMA SetKeepsTypes ==
    ASSUME MP!TypeInv, NEW claimed, NEW tracked, NEW restorable,
           \/ MP!Reconcile \/ MP!PassStep(claimed, tracked, restorable) \/ MP!EditPin
           \/ MP!Schedule \/ MP!Evict(restorable) \/ MP!VkActs
    PROVE  MP!TypeInv'
<1>1. CASE MP!Reconcile \/ MP!PassStep(claimed, tracked, restorable)
  BY <1>1, MP!PassType, OperatorAssumption DEF M!ClusterAssumption, M!MigrationAssumption
<1>2. CASE MP!EditPin \/ MP!Schedule \/ MP!Evict(restorable) \/ MP!VkActs
  <2>1. MP!TypeOK' /\ run' = run
    BY <1>2, MP!EnvironmentType, OperatorAssumption
    DEF M!ClusterAssumption, M!MigrationAssumption, MP!TypeInv
  <2> QED BY <2>1 DEF MP!TypeInv
<1> QED BY <1>1, <1>2

(* The same of the CRs. *)
LEMMA CRsKeepTypes == HP!HInv /\ [HP!Next]_(HP!vars) => HP!HInv'
BY HP!HInvStep, OperatorAssumption
DEF M!ClusterAssumption, M!MigrationAssumption, H!HibernationAssumption

(* Both hold at first. *)
LEMMA TypesAtFirst == Init => Inv
<1> SUFFICES ASSUME Init PROVE Inv
  OBVIOUS
<1>1. MP!Init /\ HP!Init
  BY SetStates, CRStates DEF Init
<1>2. MP!TypeInv
  BY <1>1, MP!TypeInit, OperatorAssumption DEF M!ClusterAssumption, M!MigrationAssumption
<1>3. HP!HInv
  BY <1>1, HP!HInvInit, OperatorAssumption
  DEF M!ClusterAssumption, M!MigrationAssumption, H!HibernationAssumption
<1> QED BY <1>2, <1>3 DEF Inv

(* A step of the set is one of Migration's, whatever the CRs then claim. *)
LEMMA SetSteps ==
    ASSUME SetReconcile \/ SetStep \/ EditPin \/ Schedule \/ Evict \/ VkActs
    PROVE  /\ \/ MP!Reconcile \/ MP!EditPin \/ MP!Schedule \/ MP!VkActs
              \/ MP!Evict(podsRestorableByCR)
              \/ MP!PassStep(podsHibernatedByCR, podsTrackedByHibernationCR, podsRestorableByCR)
           /\ UNCHANGED crVars
BY SetEvents, SetVk, SetPasses DEF SetReconcile, SetStep, EditPin, Schedule, Evict, VkActs

(* A step of the CRs is one of Hibernation's, and the set only watches. *)
LEMMA CRSteps ==
    ASSUME SyncPod \/ \E c \in CRs : CRReconcile(c) \/ CRStep(c) \/ CRSync(c) \/ CREdit(c)
    PROVE  HP!Next /\ MP!Watched /\ UNCHANGED <<cs, place, run, boots>>
<1>0. Main \in VMs
  BY OperatorAssumption DEF M!MigrationAssumption
<1>1. CASE SyncPod
  BY <1>0, <1>1, CREvents, SetEvents DEF SyncPod, SetWatches, HP!Next
<1>2. ASSUME NEW c \in CRs, CRReconcile(c) \/ CRStep(c) \/ CRSync(c) \/ CREdit(c)
      PROVE  HP!Next /\ MP!Watched /\ UNCHANGED <<cs, place, run, boots>>
  BY <1>2, CREvents, CRPasses, SetEvents
  DEF CRReconcile, CRStep, CRSync, CREdit, SetWatches, HP!Next
<1> QED BY <1>1, <1>2

(* Every step keeps both: a step of one reconciler leaves the other's record alone. *)
LEMMA TypesKept == Inv /\ [Next]_vars => Inv'
<1> SUFFICES ASSUME Inv, [Next]_vars PROVE Inv'
  OBVIOUS
<1>0. MP!TypeInv /\ HP!HInv
  BY DEF Inv
<1>1. CASE SetReconcile \/ SetStep \/ EditPin \/ Schedule \/ Evict \/ VkActs
  <2>1. MP!TypeInv'
    BY <1>0, <1>1, SetSteps, SetKeepsTypes
  <2>2. HP!ClusterTypeOK' /\ (cs.gen \in HP!Generations)'
    BY <2>1 DEF MP!TypeInv, MP!TypeOK, MP!ClusterTypeOK, MP!Sets, MP!Pods, MP!VkStates,
                MP!Generations, HP!ClusterTypeOK, HP!Pods, HP!VkStates, HP!Generations
  <2>3. UNCHANGED crVars
    BY <1>1, SetSteps
  <2>4. HP!HInv'
    BY <1>0, <2>2, <2>3
    DEF HP!HInv, HP!PassType, HP!LockInv, HP!CRType, HP!NoteType, HP!RestType, crVars
  <2> QED BY <2>1, <2>4 DEF Inv
<1>2. CASE SyncPod \/ \E c \in CRs : CRReconcile(c) \/ CRStep(c) \/ CRSync(c) \/ CREdit(c)
  <2>1. HP!Next /\ MP!Watched /\ UNCHANGED <<cs, place, run, boots>>
    BY <1>2, CRSteps
  <2>2. HP!HInv'
    BY <1>0, <2>1, CRsKeepTypes
  <2>3. MP!ClusterTypeOK'
    BY <2>2 DEF HP!HInv, MP!ClusterTypeOK, MP!Pods, MP!VkStates,
                MP!Generations, HP!ClusterTypeOK, HP!Pods, HP!VkStates, HP!Generations
  <2>4. queued' \in BOOLEAN
    BY <1>0, <2>1 DEF MP!Watched, MP!Watch, MP!TypeInv, MP!TypeOK
  <2>5. MP!TypeInv'
    BY <1>0, <2>1, <2>3, <2>4 DEF MP!TypeInv, MP!TypeOK
  <2> QED BY <2>2, <2>5 DEF Inv
<1>3. CASE UNCHANGED vars
  <2>1. UNCHANGED <<pod, tag, vk, vkGen, faults, setVars, crVars>>
    BY <1>3 DEF vars
  <2>2. MP!TypeInv'
    BY <1>0, <2>1 DEF setVars, MP!TypeInv, MP!TypeOK, MP!ClusterTypeOK
  <2>3. HP!HInv'
    BY <1>0, <2>1 DEF setVars, crVars, HP!HInv, HP!ClusterTypeOK, HP!PassType, HP!LockInv,
                      HP!CRType, HP!NoteType, HP!RestType
  <2> QED BY <2>2, <2>3 DEF Inv
<1> QED BY <1>1, <1>2, <1>3 DEF Next

(* And they say what TypeOK says. *)
LEMMA InvTypes == Inv => TypeOK
<1> SUFFICES ASSUME Inv PROVE TypeOK
  OBVIOUS
<1>1. M!TypeOK
  BY SetStates DEF Inv, MP!TypeInv
<1>2. HP!TypeOK
  BY HP!TypeParts, OperatorAssumption
  DEF M!ClusterAssumption, M!MigrationAssumption, H!HibernationAssumption, Inv, HP!HInv
<1>3. H!TypeOK
  BY <1>2, CRStates
<1> QED BY <1>1, <1>3 DEF TypeOK

(* Both reconcilers stay well typed while they work on one pod, each between any two
   calls of the other: neither ever writes a record the other could not hold, for any
   CRs, nodes, cache lag, failures and pace of the user. *)
THEOREM OperatorTypeCorrect == Spec => []TypeOK
BY TypesAtFirst, TypesKept, InvTypes, PTL DEF Spec

-----------------------------------------------------------------------------
(* What the two reconcilers keep together: the inductive invariant *)

(* The setting of the run Operator: one CR, a user who waits for both to settle, caches
   that are current when a pass starts, pushes that outlast a pass, no registry errors. *)
TheCR == CHOOSE c : c \in CRs

Setting ==
    /\ \E c : CRs = {c}
    /\ Patient = TRUE /\ SlowPush = TRUE /\ CacheLag = FALSE /\ "registry" \notin Faults

(* The main, its tag and its VM; the CR, the pass that works on it and what its informers
   hold. *)
P == pod[Main]
T == tag[Main]
K == vk[Main]
G == vkGen[Main]
R == cr[TheCR]
A == pass[TheCR]
RC == crCache[TheCR]
PC == podCache[Main]
W == queue[TheCR]
X == expired[TheCR]

Live == K \in {"running", "pushing"}
OffPin == place.node # NoNode /\ cs.pin \notin {NoNode, place.node}
Asleep(q) == q.state = "hibernated" /\ q.obs >= q.gen
Mig == cs.phase = "Migrating"

(* The CR asks for the main asleep; it holds the intent to restore; it leaves the main to
   the set. *)
Asked == R.at = "present" /\ R.desire = "Hibernate"
Keeps == R.phase \in {"Hibernated", "Waking"}
Calm == R.at = "absent" \/ (R.desire = "Wake" /\ R.phase = "Active")

(* The VM never boots from its image again: it runs, or the tag holds its state, and a pod
   without a VM is marked to restore. *)
VmOK ==
    /\ boots = "one" /\ P.state # "failed"
    /\ P.at = "absent" => place.node = NoNode
    /\ P.at # "absent" => P.named
    /\ P.at = "present" /\ place.node = NoNode => place.aff = cs.pin
    /\ (T = "fresh") <=> ~Live
    /\ K = "off" => P.obs = 0 /\ (P.at = "present" => P.restore)
    /\ K # "off" => place.node # NoNode
    /\ P.at = "terminating" => K \in {"pushed", "asleep"}
    /\ P.live => K \in {"running", "pushing", "pushed"}
    /\ K \in {"pushing", "pushed"} => P.hib
    /\ K = "asleep" => P.state = "hibernated"
    /\ P.state = "hibernated" => K \in {"asleep", "waking"} /\ (P.hib => K = "asleep")

(* No report is newer than its stamp, no stamp newer than the spec. *)
GenOK ==
    /\ 1 <= cs.gen /\ P.obs <= P.gen /\ P.gen <= cs.gen
    /\ K \in {"pushing", "pushed", "waking"} => G <= P.gen
    /\ A.pc # "idle" => A.pod.gen <= cs.gen

(* Nothing fails or is deleted; a CR that reverses its desire has settled before. *)
CROK ==
    /\ R.at # "deleting" /\ (R.at = "absent" => R.desire = "Wake" /\ R.phase = "")
    /\ R.phase # "Failed" /\ X = 0
    /\ R.desire = "Hibernate" => R.phase # "Waking"
    /\ R.desire = "Wake" => R.phase # "Hibernating"
    /\ R.desire = "Wake" /\ R.phase = "Active" => R.obsGen = R.gen

(* At any moment one of the two owns the transition of the VM.  While the main is
   quiesced, saved or gone and the CR is calm, the phase says Migrating; a main that is
   gone without that is kept by the CR; a main off its pin that the CR asked for is left
   asleep, and one it wakes still has its snapshot. *)
IntentOK ==
    /\ P.state = "hibernated" /\ ~P.hib => R.desire = "Wake" /\ Keeps
    /\ R.desire = "Wake" /\ R.phase \in {"", "Pending", "Waking"} /\ R.at = "present" =>
         ~P.hib /\ (R.phase # "Waking" => ~OffPin)
    /\ R.desire = "Wake" /\ R.phase = "Hibernated" /\ P.hib =>
         K = "asleep" /\ (P.at = "present" => run.pc = "idle" /\ ~queued /\ P.obs = P.gen)
    /\ P.hib /\ Calm => Mig /\ OffPin /\ (Live => T = "none")
    /\ OffPin /\ Asked => P.hib
    /\ OffPin /\ R.desire = "Wake" /\ Keeps => T # "none"
    /\ OffPin /\ Mig => Calm
    /\ Calm /\ ~Live => Mig
    /\ P.at # "present" /\ ~Mig => Keeps
    /\ P.at = "terminating" /\ Asked => Asleep(P) /\ P.gen = cs.gen
    /\ Calm /\ OffPin => K \notin {"off", "waking"}

(* The phase a pass of the CR is about to write is the one its desire leads to. *)
PhaseOK ==
    /\ A.to \in {"Hibernating", "Hibernated", "Waking", "Active"}
    /\ (A.to \in {"Hibernating", "Hibernated"}) <=> (R.desire = "Hibernate")
    /\ (A.then = "drop") <=> (A.to = "Active")
    /\ ~(R.desire = "Wake" /\ R.phase = "Active")
    /\ A.to = "Hibernating" => P.at = "present" /\ (Asleep(A.pod) => ~P.hib)
    /\ A.to = "Waking" => ~P.hib
    /\ A.to = "Active" => A.pod.live /\ ~A.pod.hib

(* What a pass of the CR may still conclude from its copies.  A hibernating pass: a main
   seen awake has not been quiesced since, one seen asleep sleeps as long as it is asked
   to, and a main that is missing had been seen asleep. *)
HibPCs == {"lock", "hibPatch", "hibProbe"}

ViewOK ==
    /\ A.pc \notin {"delLock", "delFinalizer", "delList", "delTag"}
    /\ A.pc # "idle" => R.at = "present" /\ RC.at = "present" /\ (A.pc # "drop" => A.cr = R)
    /\ A.pc # "idle" /\ ~A.pod.hib /\ A.pod.live => Live
    /\ A.pc \in {"lock", "hibPatch"} /\ Asked /\ ~A.pod.hib => ~P.hib
    /\ A.pc \in HibPCs /\ Asked /\ A.pod.state = "hibernated" => (P.hib => K = "asleep")
    /\ A.pc \in HibPCs /\ Asked /\ P.at # "present" => Asleep(A.pod)
    /\ A.pc \in {"hibPatch", "hibProbe"} => R.desire = "Hibernate"
    /\ A.pc = "wakePatch" => R.desire = "Wake"
    /\ A.pc \in {"lock", "wakePatch"} /\ R.desire = "Wake" /\ ~Calm /\ ~A.pod.hib => ~P.hib
    /\ A.pc = "markPending" => ~OffPin
    /\ A.pc = "setPhase" => PhaseOK
    /\ A.pc = "drop" => Calm /\ A.pod.live /\ ~A.pod.hib

(* A CR that settles Hibernated while nothing is queued has settled over a main that is
   asleep at its stamp. *)
SeenOK ==
    /\ A.pc = "idle" /\ Asked /\ R.phase = "Hibernated" /\ ~W /\ RC = R => Asleep(PC)
    /\ A.pc = "hibProbe" /\ ~W => Asleep(PC)
    /\ A.pc = "setPhase" /\ A.to = "Hibernated" /\ ~W => Asleep(PC)
    /\ A.pc \in {"lock", "hibPatch"} /\ ~W =>
         PC.state = A.pod.state /\ PC.obs = A.pod.obs /\ PC.gen = A.pod.gen

(* What a pass of the set may still conclude from its copies. *)
HM == run.pod.at = "present"
Off == HM /\ cs.pin # NoNode /\ run.place.node \notin {NoNode, cs.pin}

CopyOK ==
    /\ run.cs = cs /\ run.pod.state # "failed"
    /\ run.pc # "status" => run.last = ""
    /\ ~HM /\ run.pc # "mark" => P.at # "present"
    /\ HM => /\ P.at # "absent" => run.place.node \in {NoNode, place.node}
             /\ run.place.node = NoNode => run.place.aff = cs.pin
             /\ run.pod.live => run.place.node # NoNode
             /\ P.at # "present" /\ run.pc \notin {"deleteOld", "mark"} => Keeps
    /\ HM /\ run.pod.hib =>
         /\ Asked \/ Off
         /\ ~Asked /\ run.pc \notin {"deleteOld", "mark", "quiesce"} => Calm /\ P.hib
    /\ HM /\ ~run.pod.hib =>
         /\ run.pod.live => Live
         /\ P.at # "absent" /\ ~Asked => ~P.hib
         /\ Off => ~Asked

(* What each label of the pass relies on; the labels that wake or re-create a main in
   place are not reached. *)
StepOK ==
    /\ run.pc \notin {"recreate", "wakeInPlace", "clear", "reclaim", "forget"}
    /\ run.pc \in {"owner", "status"} => HM
    /\ run.pc = "probe" /\ HM /\ run.pod.hib => ~Asked
    /\ run.pc \in {"startStatus", "quiesce"} =>
         HM /\ (IF run.pod.hib THEN ~Asked ELSE Off /\ T = "none")
    /\ run.pc = "quiesce" => Mig
    /\ run.pc \in {"tracked", "dropStale", "dropRestored"} => HM /\ run.pod.live /\ ~run.pod.hib
    /\ run.pc = "tracked" => Off
    /\ run.pc = "dropStale" => Calm /\ OffPin
    /\ run.pc = "dropRestored" => ~OffPin
    /\ run.pc = "deleteOld" =>
         HM /\ run.pod.hib /\ ~Asked /\ Mig /\ (P.at = "present" => ~Live)
    /\ run.pc = "mark" /\ OffPin => Calm
    /\ run.pc \in {"restore", "intent"} => ~HM
    /\ run.pc = "intent" => ~Mig
    /\ run.pc = "create" => run.restore
    /\ run.pc \in {"unsuspend", "status"} /\ HM =>
         (run.pod.hib => Asked) /\ (Mig /\ Calm => Live)
    /\ run.pc = "unsuspend" /\ ~HM => ~Mig
    /\ run.pc = "status" => run.last \in {"Pending", "Running"}

RunOK == cs.owed = 0 /\ (run.pc # "idle" => CopyOK /\ StepOK)

Joint == VmOK /\ GenOK /\ CROK /\ IntentOK /\ ViewOK /\ SeenOK /\ RunOK

-----------------------------------------------------------------------------
(* Types and frames *)

(* There is one CR, and it targets the main. *)
LEMMA OneCR ==
    ASSUME Setting
    PROVE  /\ TheCR \in CRs /\ (\A c \in CRs : c = TheCR) /\ Main \in VMs /\ VMs = {Main}
           /\ PodRef[TheCR] = Main
<1>1. TheCR \in CRs /\ \A c \in CRs : c = TheCR
  BY DEF Setting, TheCR
<1>2. VMs = {Main} /\ \A c \in CRs : PodRef[c] \in VMs
  BY OperatorAssumption DEF M!MigrationAssumption, H!HibernationAssumption
<1> QED BY <1>1, <1>2

(* The values of the main and its VM, of the set and its pass, of the CR and its pass. *)
LEMMA VmTypes ==
    ASSUME Inv
    PROVE  /\ P.at \in {"absent", "present", "terminating"}
           /\ P.state \in {"none", "ready", "hibernated", "failed"}
           /\ P.named \in BOOLEAN /\ P.restore \in BOOLEAN /\ P.hib \in BOOLEAN /\ P.live \in BOOLEAN
           /\ P.gen \in Nat /\ P.obs \in Nat /\ G \in Nat
           /\ T \in {"none", "fresh", "stale"}
           /\ K \in {"off", "running", "pushing", "pushed", "asleep", "waking"}
<1>1. Main \in VMs /\ MP!ClusterTypeOK
  BY OperatorAssumption DEF M!MigrationAssumption, Inv, MP!TypeInv, MP!TypeOK
<1>2. P \in MP!Pods /\ T \in {"none", "fresh", "stale"} /\ K \in MP!VkStates /\ G \in MP!Generations
  BY <1>1 DEF MP!ClusterTypeOK, P, T, K, G
<1>3. \A n \in MP!Generations : n \in Nat
  BY OperatorAssumption DEF M!ClusterAssumption, MP!Generations
<1> QED BY <1>2, <1>3 DEF MP!Pods, MP!VkStates

LEMMA SetTypes ==
    ASSUME Inv
    PROVE  /\ cs.gen \in Nat /\ cs.owed \in Nat /\ cs.phase \in {"Pending", "Running", "Failed", "Migrating"}
           /\ queued \in BOOLEAN /\ run.restore \in BOOLEAN /\ run \in MP!Runs /\ cs \in MP!Sets
           /\ run.pc \in MP!PCs /\ place \in MP!Places
           /\ run.pod.at \in {"absent", "present", "terminating"}
           /\ run.pod.hib \in BOOLEAN /\ run.pod.live \in BOOLEAN
<1>1. /\ cs \in MP!Sets /\ queued \in BOOLEAN /\ run \in MP!Runs /\ place \in MP!Places
  BY DEF Inv, MP!TypeInv, MP!TypeOK
<1>2. run.pod \in MP!Pods /\ run.pc \in MP!PCs /\ run.restore \in BOOLEAN
  BY <1>1 DEF MP!Runs
<1>3. \A n \in MP!Generations : n \in Nat
  BY OperatorAssumption DEF M!ClusterAssumption, MP!Generations
<1> QED BY <1>1, <1>2, <1>3 DEF MP!Pods, MP!Sets, MP!Phases

LEMMA CRTypes ==
    ASSUME Inv, Setting
    PROVE  /\ R \in HP!CRRecords /\ RC \in HP!CRRecords /\ A \in HP!Passes /\ W \in BOOLEAN
           /\ R.at \in {"absent", "present", "deleting"} /\ R.desire \in {"Hibernate", "Wake"}
           /\ R.phase \in {"", "Pending", "Failed", "Hibernated", "Active", "Hibernating", "Waking"}
           /\ R.gen \in Nat /\ R.obsGen \in Nat /\ X \in Nat
           /\ A.pc \in HP!PCs /\ A.pod \in HP!Pods
           /\ A.pod.hib \in BOOLEAN /\ A.pod.live \in BOOLEAN /\ A.pod.gen \in Nat /\ A.pod.obs \in Nat
           /\ PC \in HP!Pods /\ PC.gen \in Nat /\ PC.obs \in Nat
<1>1. HP!TypeOK
  BY HP!TypeParts, OperatorAssumption DEF Inv, HP!HInv
<1>2. /\ R \in HP!CRRecords /\ RC \in HP!CRRecords /\ A \in HP!Passes /\ W \in BOOLEAN /\ X \in Nat
      /\ PC \in HP!Pods
  BY <1>1, OneCR DEF HP!TypeOK, R, RC, A, W, X, PC
<1>3. A.pc \in HP!PCs /\ A.pod \in HP!Pods
  BY <1>2 DEF HP!Passes
<1>4. \A n \in HP!Generations : n \in Nat
  BY OperatorAssumption DEF M!ClusterAssumption, HP!Generations
<1> QED BY <1>2, <1>3, <1>4 DEF HP!CRRecords, HP!Phases, HP!InFlight, HP!Pods

(* What the set's lists say of the one CR. *)
LEMMA Lists ==
    ASSUME Setting
    PROVE  /\ Main \in podsHibernatedByCR <=>
                R.at # "absent" /\ (R.desire = "Hibernate" \/ R.phase = "Hibernating")
           /\ Main \in podsTrackedByHibernationCR <=>
                R.at = "present" /\ (R.obsGen # R.gen \/ R.phase # "Active")
           /\ Main \in podsRestorableByCR <=> R.at # "absent" /\ Keeps
BY OneCR DEF podsHibernatedByCR, podsTrackedByHibernationCR, podsRestorableByCR,
             hibernationPodNames, R, Keeps

(* A step of the set leaves what is said of the CR alone. *)
LEMMA CRFrame ==
    ASSUME UNCHANGED crVars
    PROVE  R' = R /\ A' = A /\ RC' = RC /\ PC' = PC /\ (W' <=> W) /\ X' = X
BY DEF crVars, R, A, RC, PC, W, X

(* So what is said of the CR alone stays true. *)
LEMMA CRKept ==
    ASSUME UNCHANGED crVars, CROK, SeenOK
    PROVE  CROK' /\ SeenOK'
<1>1. CROK'
  BY CRFrame DEF CROK
<1>2. SeenOK'
  BY CRFrame DEF SeenOK, Asked, Asleep
<1> QED BY <1>1, <1>2

(* A step that leaves the cluster alone leaves the main and its VM alone. *)
LEMMA VmFrame ==
    ASSUME UNCHANGED <<pod, tag, vk, vkGen>>
    PROVE  P' = P /\ T' = T /\ K' = K /\ G' = G
BY DEF P, T, K, G

(* A step of a pass that neither patches the main nor drops its tag. *)
LEMMA PassFrame ==
    ASSUME Setting, Inv, Joint, UNCHANGED crVars, UNCHANGED <<pod, tag, vk, vkGen, place, boots>>,
           cs'.gen = cs.gen, cs'.pin = cs.pin
    PROVE  VmOK' /\ GenOK' /\ CROK' /\ ViewOK' /\ SeenOK'
<1>0. /\ R' = R /\ A' = A /\ RC' = RC /\ PC' = PC /\ X' = X
      /\ P' = P /\ T' = T /\ K' = K /\ G' = G
      /\ place' = place /\ boots' = boots
  BY CRFrame, VmFrame
<1>1. VmOK'
  BY <1>0 DEF Joint, VmOK, Live
<1>2. GenOK'
  BY <1>0 DEF Joint, GenOK
<1>3. ViewOK'
  BY <1>0 DEF Joint, ViewOK, PhaseOK, OffPin, Live, Asked, Calm, Asleep, HibPCs
<1> QED BY <1>1, <1>2, <1>3, CRKept DEF Joint

(* A step that only moves the pass on: what its copies say stays true. *)
LEMMA PassMoves ==
    ASSUME Setting, Inv, Joint, UNCHANGED crVars,
           UNCHANGED <<pod, tag, vk, vkGen, cs, place, boots>>, run.pc # "idle",
           \/ run'.pc = "idle"
           \/ /\ run'.cs = run.cs /\ run'.pod = run.pod /\ run'.place = run.place
              /\ run.pc \notin {"deleteOld", "mark", "quiesce"}
              /\ run'.pc # "status" => run'.last = ""
              /\ StepOK'
    PROVE  Joint'
<1>0. R' = R /\ P' = P /\ T' = T /\ K' = K /\ place' = place /\ cs' = cs
  BY CRFrame, VmFrame
<1>1. IntentOK'
  BY <1>0 DEF Joint, IntentOK, Keeps, Calm, OffPin, Live, Asked, Mig, Asleep
<1>2. ASSUME run'.pc # "idle" PROVE CopyOK'
  BY <1>0, <1>2 DEF Joint, RunOK, CopyOK, HM, Off, Keeps, Asked, Calm, Live
<1>3. RunOK'
  BY <1>0, <1>2 DEF Joint, RunOK
<1> QED BY <1>1, <1>3, PassFrame DEF Joint

-----------------------------------------------------------------------------
(* The set's pass *)

SameCopies ==
    /\ run'.cs = run.cs /\ run'.pod = run.pod /\ run'.place = run.place
    /\ run'.last = run.last /\ run'.restore = run.restore

(* A pass that goes on keeps its copies. *)
LEMMA GotoFields ==
    ASSUME Inv, NEW l, MP!Goto(l)
    PROVE  run'.pc = l /\ SameCopies
BY SetTypes DEF MP!Goto, MP!Runs, SameCopies

(* The steps that ask the CRs or the registry. *)
LEMMA AsksKeep ==
    ASSUME Setting, Inv, Joint, UNCHANGED crVars,
           \/ MP!SkipClaimed(podsHibernatedByCR) \/ MP!SkipTracked(podsTrackedByHibernationCR)
           \/ MP!HasHibernateSnapshot \/ MP!markRestoreFromIntent(podsRestorableByCR)
           \/ MP!PodNotFound
    PROVE  Joint'
<1>0. /\ R' = R /\ P' = P /\ T' = T /\ K' = K /\ G' = G
      /\ UNCHANGED <<pod, tag, vk, vkGen, cs, place, boots>>
  <2>1. UNCHANGED <<pod, tag, vk, vkGen, cs, place, boots>>
    BY DEF MP!SkipClaimed, MP!SkipTracked, MP!HasHibernateSnapshot, MP!markRestoreFromIntent,
           MP!PodNotFound, MP!PodUnchanged, MP!RestUnchanged
  <2> QED BY <2>1, CRFrame, VmFrame
<1>s. VmOK /\ CROK /\ IntentOK /\ RunOK
  BY DEF Joint
<1>1. CASE MP!SkipClaimed(podsHibernatedByCR)
  <2>1. /\ run.pc = "owner" /\ SameCopies
        /\ run'.pc = IF Main \in podsHibernatedByCR THEN "unsuspend" ELSE "probe"
    BY <1>1, GotoFields DEF MP!SkipClaimed
  <2>2. CopyOK /\ StepOK
    BY <1>s, <2>1 DEF RunOK
  <2>3. StepOK'
    BY <1>0, <1>s, <2>1, <2>2, Lists, VmTypes, SetTypes, CRTypes
    DEF CROK, IntentOK, CopyOK, StepOK, SameCopies, HM, Off, Asked, Calm, Mig, OffPin, Live
  <2> QED BY <1>0, <2>1, <2>2, <2>3, PassMoves DEF CopyOK, SameCopies
<1>2. CASE MP!SkipTracked(podsTrackedByHibernationCR)
  <2>1. /\ run.pc = "tracked" /\ SameCopies
        /\ run'.pc = IF Main \in podsTrackedByHibernationCR THEN "unsuspend" ELSE "dropStale"
    BY <1>2, GotoFields DEF MP!SkipTracked
  <2>2. CopyOK /\ StepOK
    BY <1>s, <2>1 DEF RunOK
  <2>3. StepOK'
    BY <1>0, <1>s, <2>1, <2>2, Lists, VmTypes, SetTypes, CRTypes
    DEF VmOK, CROK, IntentOK, CopyOK, StepOK, SameCopies, HM, Off, Asked, Calm, Mig, OffPin, Live
  <2> QED BY <1>0, <2>1, <2>2, <2>3, PassMoves DEF CopyOK, SameCopies
<1>3. CASE MP!HasHibernateSnapshot
  <2>1. /\ run.pc = "probe" /\ SameCopies
        /\ run'.pc = IF T # "none" THEN MP!advanceMigration(run)
                     ELSE IF MP!mainOffTarget(run) THEN "startStatus" ELSE "unsuspend"
    BY <1>3, GotoFields DEF MP!HasHibernateSnapshot, T
  <2>2. CopyOK /\ StepOK
    BY <1>s, <2>1 DEF RunOK
  <2>a. run.cs = cs
    BY <2>2 DEF CopyOK
  <2>b. \/ run'.pc = "deleteOld" /\ T # "none" /\ Off /\ run.pod.hib
        \/ run'.pc = "tracked" /\ T # "none" /\ Off /\ ~run.pod.hib /\ run.pod.live
        \/ run'.pc = "restore" /\ T # "none" /\ ~HM
        \/ run'.pc = "dropRestored" /\ T # "none" /\ HM /\ ~Off /\ run.pod.live
        \/ run'.pc = "mark" /\ T # "none" /\ HM /\ ~Off /\ ~run.pod.live /\ Mig
        \/ run'.pc = "wakeInPlace" /\ T # "none" /\ HM /\ ~Off /\ run.pod.hib
        \/ /\ run'.pc = "unsuspend" /\ T # "none"
           /\ \/ Off /\ ~run.pod.hib /\ ~run.pod.live
              \/ HM /\ ~Off /\ (run.pod.hib \/ (~run.pod.live /\ ~Mig))
        \/ run'.pc = "startStatus" /\ T = "none" /\ Off
        \/ run'.pc = "unsuspend" /\ T = "none" /\ ~Off
    BY <2>1, <2>a DEF MP!advanceMigration, MP!mainOffTarget, MP!HasMain, MP!migrating, HM, Off, Mig
  <2>c. HM /\ run.pod.hib => ~Asked /\ Off /\ Calm /\ P.hib
    BY <2>1, <2>2 DEF CopyOK, StepOK
  <2>d. cs' = cs /\ run'.pod = run.pod /\ run'.place = run.place
    BY <1>0, <2>1 DEF SameCopies
  <2>3. StepOK'
    <3>1. CASE run'.pc = "deleteOld"
      BY <1>0, <1>s, <2>b, <2>c, <2>d, <3>1, VmTypes DEF VmOK, IntentOK, StepOK, HM, Off, Asked, Calm, Mig, Live
    <3>2. CASE run'.pc \in {"tracked", "restore", "startStatus"}
      BY <1>0, <2>b, <2>c, <2>d, <3>2 DEF StepOK, HM, Off, Asked
    <3>3. CASE run'.pc = "dropRestored"
      BY <1>0, <2>2, <2>b, <2>c, <2>d, <3>3, <1>s DEF StepOK, HM, Off, OffPin, CopyOK, VmOK, Live
    <3>4. CASE run'.pc = "mark"
      BY <1>0, <1>s, <2>b, <2>d, <3>4 DEF StepOK, OffPin, Calm, IntentOK
    <3>5. CASE run'.pc = "wakeInPlace"
      BY <2>b, <2>c, <3>5
    <3>6. CASE run'.pc = "unsuspend"
      <4>1. CASE T = "none"
        <5>1. HM /\ Live /\ ~run.pod.hib
          BY <1>s, <2>1, <2>2, <2>b, <2>c, <3>6, <4>1, VmTypes DEF VmOK, CopyOK, Live
        <5> QED BY <1>0, <2>d, <3>6, <5>1 DEF StepOK, HM, Live
      <4>2. CASE T # "none" /\ Off /\ ~run.pod.hib
        <5>1. ASSUME Calm PROVE Live
          <6>1. P.at = "present" /\ ~Asked /\ ~P.hib
            BY <1>s, <2>1, <2>2, <4>2, <5>1, VmTypes DEF CROK, CopyOK, Off, Calm, Asked, Keeps
          <6>2. OffPin /\ ~Keeps
            BY <1>s, <2>2, <4>2, <5>1, <6>1 DEF CROK, CopyOK, Off, OffPin, Calm, Keeps
          <6> QED BY <1>s, <5>1, <6>1, <6>2, VmTypes DEF VmOK, IntentOK, Live
        <5> QED BY <1>0, <2>d, <3>6, <4>2, <5>1 DEF StepOK, HM, Off, Calm, Mig, Live
      <4>3. CASE HM /\ ~Off /\ ~Mig
        BY <1>0, <2>c, <2>d, <3>6, <4>3 DEF StepOK, HM, Mig
      <4> QED BY <2>b, <2>c, <3>6, <4>1, <4>2, <4>3
    <3> QED BY <2>b, <3>1, <3>2, <3>3, <3>4, <3>5, <3>6
  <2>4. run'.pc # "status"
    BY <2>1 DEF MP!advanceMigration
  <2> QED BY <1>0, <2>1, <2>2, <2>3, <2>4, PassMoves DEF CopyOK, SameCopies
<1>4. CASE MP!markRestoreFromIntent(podsRestorableByCR)
  <2>1. /\ run.pc = "intent" /\ run'.pc = "create"
        /\ run'.cs = run.cs /\ run'.pod = run.pod /\ run'.place = run.place /\ run'.last = run.last
        /\ run'.restore <=> Main \in podsRestorableByCR /\ T # "none"
    BY <1>4, SetTypes DEF MP!markRestoreFromIntent, MP!Runs, T
  <2>2. CopyOK /\ StepOK
    BY <1>s, <2>1 DEF RunOK
  <2>3. Keeps /\ R.at # "absent" /\ T = "fresh"
    BY <1>s, <2>1, <2>2, VmTypes DEF VmOK, CROK, IntentOK, CopyOK, StepOK, Keeps, Live
  <2>4. StepOK'
    BY <2>1, <2>3, Lists DEF StepOK
  <2> QED BY <1>0, <2>1, <2>2, <2>4, PassMoves DEF CopyOK
<1>5. CASE MP!PodNotFound
  <2>1. run.pc # "idle" /\ run'.pc = "idle"
    BY <1>5, GotoFields DEF MP!PodNotFound, MP!Return
  <2> QED BY <1>0, <2>1, PassMoves
<1> QED BY <1>1, <1>2, <1>3, <1>4, <1>5

(* The un-suspend hands every pass on: a main asked for by the set alone never gets here. *)
LEMMA UnsuspendKeeps ==
    ASSUME Setting, Inv, Joint, UNCHANGED crVars, MP!applyUnsuspend(podsHibernatedByCR)
    PROVE  Joint'
<1>1. run.pc = "unsuspend" /\ CopyOK /\ StepOK /\ cs.owed = 0 /\ CROK
  BY DEF MP!applyUnsuspend, Joint, RunOK
<1>2. ~(MP!HasMain(run) /\ run.pod.hib /\ Main \notin podsHibernatedByCR)
  BY <1>1, Lists DEF StepOK, HM, Asked, MP!HasMain
<1>3. run' = MP!Unsuspended(run) /\ UNCHANGED <<pod, tag, vk, vkGen, cs, place, boots>>
  BY <1>2 DEF MP!applyUnsuspend, MP!PodUnchanged, MP!RestUnchanged
<1>4. run' = MP!EnsureMain(run)
  BY <1>1, <1>3 DEF MP!Unsuspended, CopyOK
<1>5. /\ run'.cs = run.cs /\ run'.pod = run.pod /\ run'.place = run.place
      /\ HM => run'.pc = "status" /\ run'.last \in {"Pending", "Running"}
      /\ ~HM => run'.pc = "intent" /\ run'.last = run.last
  BY <1>4, SetTypes DEF MP!EnsureMain, MP!Runs, MP!HasMain, HM
<1>6. R' = R /\ K' = K /\ cs' = cs
  BY <1>3, CRFrame, VmFrame
<1>7. StepOK'
  BY <1>1, <1>5, <1>6 DEF StepOK, HM, Asked, Calm, Mig, Live
<1> QED BY <1>1, <1>3, <1>5, <1>7, PassMoves DEF CopyOK

(* The phases the set writes. *)
LEMMA PhasesKeep ==
    ASSUME Setting, Inv, Joint, UNCHANGED crVars,
           MP!startMigration \/ MP!markMigrating \/ MP!WriteStatus
    PROVE  Joint'
<1>1. /\ UNCHANGED <<pod, tag, vk, vkGen, place, boots>>
      /\ cs'.pin = cs.pin /\ cs'.gen = cs.gen /\ cs'.owed = cs.owed
      /\ \/ /\ run.pc = "startStatus" /\ run'.pc = "quiesce" /\ cs'.phase = "Migrating"
            /\ run'.cs = cs' /\ run'.pod = run.pod /\ run'.place = run.place /\ run'.last = run.last
         \/ run.pc = "mark" /\ run'.pc = "idle" /\ cs'.phase = "Migrating"
         \/ run.pc = "status" /\ run'.pc = "idle" /\ cs'.phase = run.last
  <2>1. CASE MP!startMigration \/ MP!markMigrating
    BY <2>1, SetTypes
    DEF MP!startMigration, MP!markMigrating, MP!PatchSet, MP!PodUnchanged, MP!RestUnchanged,
        MP!Runs, MP!Sets
  <2>2. CASE MP!WriteStatus
    BY <2>2, SetTypes
    DEF MP!WriteStatus, MP!Return, MP!Goto, MP!PodUnchanged, MP!RestUnchanged, MP!Runs, MP!Sets
  <2> QED BY <2>1, <2>2
<1>2. R' = R /\ P' = P /\ T' = T /\ K' = K /\ place' = place
  BY <1>1, CRFrame, VmFrame
<1>3. CopyOK /\ StepOK /\ VmOK /\ CROK /\ IntentOK /\ cs.owed = 0
  BY <1>1 DEF Joint, RunOK
<1>4. CASE run.pc = "startStatus"
  <2>1. run.pod.hib => Calm /\ P.hib
    BY <1>3, <1>4 DEF CopyOK, StepOK
  <2>2. OffPin => Calm
    <3>1. ~run.pod.hib => ~Asked /\ T = "none"
      BY <1>3, <1>4 DEF CopyOK, StepOK
    <3> QED BY <1>3, <2>1, <3>1, CRTypes DEF CROK, IntentOK, Asked, Calm, Keeps
  <2>3. IntentOK'
    BY <1>1, <1>2, <1>3, <1>4, <2>2
    DEF IntentOK, OffPin, Asked, Calm, Keeps, Live, Mig, Asleep
  <2>4. CopyOK'
    BY <1>1, <1>2, <1>3, <1>4 DEF CopyOK, HM, Off, Asked, Calm, Keeps, Live
  <2>5. StepOK'
    BY <1>1, <1>2, <1>3, <1>4 DEF StepOK, HM, Off, Asked, Mig
  <2> QED BY <1>1, <1>3, <2>3, <2>4, <2>5, PassFrame DEF Joint, RunOK
<1>5. CASE run.pc = "mark"
  <2>1. IntentOK'
    BY <1>1, <1>2, <1>3, <1>5
    DEF StepOK, IntentOK, OffPin, Asked, Calm, Keeps, Live, Mig, Asleep
  <2> QED BY <1>1, <1>3, <1>5, <2>1, PassFrame DEF Joint, RunOK
<1>6. CASE run.pc = "status"
  <2>1. HM /\ ~(cs'.phase = "Migrating") /\ (run.pod.hib => Asked) /\ (P.at # "present" => Keeps)
    BY <1>1, <1>3, <1>6 DEF CopyOK, StepOK
  <2>2. Calm => ~P.hib /\ Live
    BY <1>3, <1>6, <2>1 DEF CROK, CopyOK, StepOK, IntentOK, Calm, Asked, Keeps, VmOK, Mig
  <2>3. IntentOK'
    BY <1>1, <1>2, <1>3, <1>6, <2>1, <2>2
    DEF IntentOK, OffPin, Asked, Calm, Keeps, Live, Mig, Asleep
  <2> QED BY <1>1, <1>3, <1>6, <2>3, PassFrame DEF Joint, RunOK
<1> QED BY <1>1, <1>4, <1>5, <1>6

(* The pass starts with copies of a set and a main that are as the invariant says. *)
LEMMA ReconcileKeeps ==
    ASSUME Setting, Inv, Joint, UNCHANGED crVars, MP!Reconcile
    PROVE  Joint'
<1>1. /\ run.pc = "idle" /\ queued /\ run'.pc = "stamp" /\ run'.cs = cs /\ run'.pod = P
      /\ run'.place = place /\ run'.last = ""
      /\ UNCHANGED <<pod, tag, vk, vkGen, cs, place, boots>>
  BY DEF MP!Reconcile, MP!clusterVars, P
<1>2. R' = R /\ P' = P /\ T' = T /\ K' = K /\ place' = place /\ cs' = cs
  BY <1>1, CRFrame, VmFrame
<1>3. VmOK /\ CROK /\ IntentOK /\ cs.owed = 0
  BY DEF Joint, RunOK
<1>4. IntentOK'
  BY <1>1, <1>2, <1>3 DEF IntentOK, Keeps, Calm, OffPin, Live, Asked, Mig, Asleep
<1>5. P.at = "present" /\ P.hib => Asked \/ (Calm /\ OffPin)
  BY <1>1, <1>3, CRTypes DEF CROK, IntentOK, Asked, Calm
<1>6. CopyOK'
  <2>1. P.at = "present" => /\ place.node = NoNode => place.aff = cs.pin
                            /\ P.live => place.node # NoNode
                            /\ ~P.hib /\ P.live => Live
                            /\ OffPin /\ Asked => P.hib
    BY <1>3, VmTypes DEF VmOK, IntentOK, Live
  <2>2. P.state # "failed"
    BY <1>3 DEF VmOK
  <2> QED BY <1>1, <1>2, <1>5, <2>1, <2>2 DEF CopyOK, HM, Off, OffPin, Calm, Asked, Live, Keeps
<1>7. StepOK'
  BY <1>1 DEF StepOK
<1> QED BY <1>1, <1>3, <1>4, <1>6, <1>7, PassFrame DEF Joint, RunOK

(* Labels the invariant rules out. *)
LEMMA NotReached ==
    ASSUME Joint
    PROVE  ~(\/ MP!RecreateUnscheduled \/ MP!WakeInPlace \/ MP!ClearHibernate
             \/ MP!reclaimSnapshots \/ MP!forgetReclaim)
<1>1. run.pc \notin {"recreate", "wakeInPlace", "clear", "reclaim", "forget"}
  BY DEF Joint, RunOK, StepOK
<1> QED BY <1>1 DEF MP!RecreateUnscheduled, MP!WakeInPlace, MP!ClearHibernate,
                    MP!reclaimSnapshots, MP!forgetReclaim

(* A tag the set drops is behind a running VM, and no CR needs it. *)
LEMMA DropKeeps ==
    ASSUME Setting, Inv, Joint, UNCHANGED crVars, MP!DeleteManifest
    PROVE  Joint'
<1>1. /\ run.pc \in {"dropStale", "dropRestored"} /\ run'.pc = "mark" /\ SameCopies
      /\ UNCHANGED <<pod, vk, vkGen, cs, place, boots>> /\ T' = "none"
  BY GotoFields, OneCR DEF MP!DeleteManifest, MP!PodUnchanged, MP!RestUnchanged, T, Inv,
     MP!TypeInv, MP!TypeOK, MP!ClusterTypeOK
<1>2. /\ R' = R /\ A' = A /\ RC' = RC /\ P' = P /\ K' = K /\ G' = G /\ cs' = cs /\ place' = place
      /\ boots' = boots
  BY <1>1, CRFrame DEF P, K, G
<1>3. CopyOK /\ StepOK /\ VmOK /\ CROK /\ IntentOK /\ GenOK /\ ViewOK /\ SeenOK /\ cs.owed = 0
  BY <1>1 DEF Joint, RunOK
<1>4. Live /\ (OffPin => Calm)
  BY <1>1, <1>3 DEF CopyOK, StepOK
<1>5. VmOK'
  BY <1>1, <1>2, <1>3, <1>4 DEF VmOK, Live
<1>6. IntentOK'
  BY <1>1, <1>2, <1>3, <1>4
  DEF CROK, IntentOK, OffPin, Asked, Calm, Keeps, Live, Mig, Asleep
<1>7. GenOK' /\ ViewOK'
  BY <1>2, <1>3
  DEF GenOK, ViewOK, PhaseOK, OffPin, Live, Asked, Calm, Asleep, HibPCs
<1>8. CopyOK'
  BY <1>1, <1>2, <1>3 DEF CopyOK, SameCopies, HM, Off, Asked, Calm, Keeps, Live
<1>9. StepOK'
  BY <1>1, <1>2, <1>4 DEF StepOK, OffPin, Calm
<1> QED BY <1>1, <1>2, <1>3, <1>5, <1>6, <1>7, <1>8, <1>9, CRKept DEF Joint, RunOK

(* Where a pass goes after the stamp: its main waits for no other node, did not fail. *)
LEMMA EntryMoves ==
    ASSUME NEW r \in MP!Runs, r.pod.state # "failed",
           r.pod.at = "present" /\ r.place.node = NoNode => r.place.aff = r.cs.pin
    PROVE  LET e == MP!Entry(r) IN
           /\ e.cs = r.cs /\ e.pod = r.pod /\ e.place = r.place /\ e.last = r.last
           /\ e.pc \in {"unsuspend", "owner", "probe"}
           /\ e.pc = "unsuspend" =>
                /\ r.cs.phase # "Migrating"
                /\ r.pod.at = "present" /\ r.pod.hib => r.cs.pin = NoNode
           /\ e.pc = "owner" => r.pod.at = "present"
           /\ e.pc = "probe" => ~(r.pod.at = "present" /\ r.pod.hib)
<1>1. /\ MP!SameCopies(r, MP!Entry(r)) /\ MP!Entry(r).last = r.last
      /\ MP!Entry(r).pc = IF MP!pinnedElsewhere(r) THEN "recreate"
                          ELSE IF MP!NoMigration(r) THEN "unsuspend"
                          ELSE IF MP!HasMain(r) /\ r.pod.hib THEN "owner" ELSE "probe"
  BY MP!EntryFields, OperatorAssumption DEF M!ClusterAssumption, M!MigrationAssumption
<1>2. ~MP!pinnedElsewhere(r)
  BY DEF MP!pinnedElsewhere, MP!HasMain
<1> QED BY <1>1, <1>2 DEF MP!SameCopies, MP!NoMigration, MP!HasMain, MP!migrating

(* The stamp: the pass goes on with the main as the patch answers it. *)
LEMMA StampKeeps ==
    ASSUME Setting, Inv, Joint, UNCHANGED crVars, MP!syncCocoonSetGeneration
    PROVE  Joint'
<1> DEFINE q == [P EXCEPT !.gen = run.cs.gen]
<1>1. /\ run.pc = "stamp" /\ UNCHANGED <<tag, vk, vkGen, cs, place, boots>>
      /\ \/ MP!Stale(run) /\ P.at # "absent" /\ pod' = [pod EXCEPT ![Main] = q]
            /\ run' = MP!Entry(MP!Patched(q))
         \/ ~MP!Stale(run) /\ pod' = pod /\ run' = MP!Entry(run)
  BY DEF MP!syncCocoonSetGeneration, MP!PatchMain, MP!RestUnchanged, P
<1>2. CopyOK /\ StepOK /\ VmOK /\ GenOK /\ CROK /\ IntentOK /\ ViewOK /\ SeenOK /\ cs.owed = 0
  BY <1>1 DEF Joint, RunOK
<1>3. /\ R' = R /\ A' = A /\ RC' = RC /\ T' = T /\ K' = K /\ G' = G /\ cs' = cs /\ place' = place
      /\ boots' = boots
  BY <1>1, CRFrame DEF T, K, G
<1>4. CASE ~MP!Stale(run)
  <2>1. run' = MP!Entry(run) /\ pod' = pod
    BY <1>1, <1>4
  <2>2. /\ run'.cs = run.cs /\ run'.pod = run.pod /\ run'.place = run.place /\ run'.last = run.last
        /\ run'.pc \in {"unsuspend", "owner", "probe"}
        /\ run'.pc = "unsuspend" => ~Mig /\ (HM /\ run.pod.hib => cs.pin = NoNode)
        /\ run'.pc = "owner" => HM
        /\ run'.pc = "probe" => ~(HM /\ run.pod.hib)
    BY <1>2, <2>1, SetTypes, EntryMoves DEF CopyOK, HM, Mig
  <2>3. StepOK'
    BY <1>2, <1>3, <2>2 DEF CopyOK, StepOK, HM, Off, Mig, Asked
  <2> QED BY <1>1, <1>2, <2>1, <2>2, <2>3, PassMoves DEF CopyOK
<1>5. CASE MP!Stale(run)
  <2>0. P \in MP!Pods /\ MP!TypeOK /\ run.cs.gen \in MP!Generations /\ pod \in [VMs -> MP!Pods]
    BY SetTypes, OneCR DEF P, Inv, MP!TypeInv, MP!TypeOK, MP!ClusterTypeOK, MP!Runs, MP!Sets
  <2>1. /\ P' = q /\ P.at # "absent" /\ HM /\ run' = MP!Entry(MP!Patched(q))
    BY <1>1, <1>5, <2>0, OneCR DEF P, MP!Stale, MP!HasMain, HM
  <2>2. /\ q \in MP!Pods /\ P'.at = P.at /\ P'.state = P.state /\ (P'.named <=> P.named)
        /\ (P'.restore <=> P.restore) /\ (P'.hib <=> P.hib) /\ (P'.live <=> P.live)
        /\ P'.obs = P.obs /\ P'.gen = cs.gen
    BY <1>2, <2>0, <2>1 DEF MP!Pods, CopyOK
  <2>3. /\ MP!Patched(q) \in MP!Runs /\ MP!Patched(q).cs = run.cs /\ MP!Patched(q).place = place
        /\ MP!Patched(q).last = run.last /\ MP!Patched(q).pod.at = "present"
        /\ (MP!Patched(q).pod.hib <=> q.hib) /\ (MP!Patched(q).pod.live <=> q.live)
        /\ MP!Patched(q).pod.state = q.state
    BY <2>0, <2>2, MP!PatchedFields, OperatorAssumption DEF M!ClusterAssumption, M!MigrationAssumption
  <2>4. P.at = "terminating" => place.node # NoNode
    BY <1>2 DEF VmOK
  <2>5. /\ run'.cs = cs /\ HM' /\ (run'.pod.hib <=> P.hib) /\ (run'.pod.live <=> P.live)
        /\ run'.place = place /\ run'.last = "" /\ run'.pod.state = P.state
        /\ run'.pc \in {"unsuspend", "owner", "probe"}
        /\ run'.pc = "unsuspend" => ~Mig /\ (P.hib => cs.pin = NoNode)
        /\ run'.pc = "probe" => ~P.hib
    <3>1. /\ P.state # "failed" /\ (place.node = NoNode => place.aff = cs.pin)
          /\ run.cs = cs /\ run.last = ""
      BY <1>1, <1>2, <2>1, <2>4, VmTypes DEF VmOK, CopyOK
    <3> DEFINE r == MP!Patched(q)
    <3>2. /\ r \in MP!Runs /\ r.cs = cs /\ r.place = place /\ r.last = "" /\ r.pod.at = "present"
          /\ (r.pod.hib <=> P.hib) /\ (r.pod.live <=> P.live) /\ r.pod.state = P.state
      BY <2>1, <2>2, <2>3, <3>1
    <3> HIDE DEF r
    <3>3. run' = MP!Entry(r)
      BY <2>1 DEF r
    <3> QED BY <3>1, <3>2, <3>3, EntryMoves DEF HM, Mig
  <2>6. P.hib /\ ~Asked => Calm /\ OffPin
    BY <1>1, <1>2, <2>1 DEF CopyOK, IntentOK
  <2>7. CopyOK'
    <3>1. /\ P.state # "failed" /\ (P.live => place.node # NoNode)
          /\ (place.node = NoNode => place.aff = cs.pin)
          /\ (~P.hib /\ P.live => Live) /\ (OffPin /\ Asked => P.hib)
          /\ (P.at # "present" => Keeps)
      BY <1>1, <1>2, <2>1, <2>4, VmTypes DEF VmOK, IntentOK, CopyOK, Live
    <3> QED BY <1>3, <2>1, <2>2, <2>5, <2>6, <3>1 DEF CopyOK, HM, Off, OffPin, Asked, Calm, Keeps, Live
  <2>8. StepOK'
    BY <1>3, <2>2, <2>5, <2>6 DEF StepOK, HM, Mig, Asked, Calm, Live, OffPin
  <2>9. VmOK'
    BY <1>2, <1>3, <2>2 DEF VmOK, Live
  <2>10. GenOK'
    BY <1>2, <1>3, <2>2, VmTypes, SetTypes DEF GenOK
  <2>11. IntentOK'
    BY <1>1, <1>2, <1>3, <2>2 DEF IntentOK, OffPin, Asked, Calm, Keeps, Live, Mig, Asleep
  <2>12. ViewOK'
    BY <1>2, <1>3, <2>2 DEF ViewOK, PhaseOK, OffPin, Live, Asked, Calm, Asleep, HibPCs
  <2> QED BY <1>2, <1>3, <2>7, <2>8, <2>9, <2>10, <2>11, <2>12, CRKept DEF Joint, RunOK
<1> QED BY <1>4, <1>5

(* The set quiesces a main only while it runs, off its pin, and no CR wants it. *)
LEMMA QuiesceKeeps ==
    ASSUME Setting, Inv, Joint, UNCHANGED crVars, MP!Quiesce
    PROVE  Joint'
<1> DEFINE q == [P EXCEPT !.hib = TRUE]
<1>0. P \in MP!Pods /\ pod \in [VMs -> MP!Pods]
  BY OneCR DEF P, Inv, MP!TypeInv, MP!TypeOK, MP!ClusterTypeOK
<1>1. /\ run.pc = "quiesce" /\ UNCHANGED <<tag, vk, vkGen, cs, place, boots>> /\ run'.pc = "idle"
      /\ \/ ~run.pod.hib /\ P.at # "absent" /\ pod' = [pod EXCEPT ![Main] = q]
         \/ run.pod.hib /\ pod' = pod
  <2>1. run \in MP!Runs /\ (q \in MP!Pods => MP!Patched(q) \in MP!Runs)
    BY <1>0, SetTypes, MP!PatchedFields, OperatorAssumption
    DEF Inv, MP!TypeInv, M!ClusterAssumption, M!MigrationAssumption
  <2>2. q \in MP!Pods
    BY <1>0 DEF MP!Pods
  <2>3. \A r \in MP!Runs : [r EXCEPT !.pc = "idle"].pc = "idle"
    BY DEF MP!Runs
  <2> QED BY <2>1, <2>2, <2>3 DEF MP!Quiesce, MP!PatchMain, MP!RestUnchanged, P
<1>2. CASE run.pod.hib
  BY <1>1, <1>2, PassMoves
<1>3. CASE ~run.pod.hib
  <2>1. CopyOK /\ StepOK /\ VmOK /\ GenOK /\ CROK /\ IntentOK /\ ViewOK /\ SeenOK /\ cs.owed = 0
    BY <1>1 DEF Joint, RunOK
  <2>2. /\ R' = R /\ A' = A /\ RC' = RC /\ T' = T /\ K' = K /\ G' = G /\ cs' = cs
        /\ place' = place /\ boots' = boots
    BY <1>1, CRFrame DEF T, K, G
  <2>3. P' = q
    BY <1>0, <1>1, <1>3, OneCR DEF P
  <2>4. /\ P'.at = P.at /\ P'.state = P.state /\ (P'.named <=> P.named) /\ P'.hib
        /\ (P'.restore <=> P.restore) /\ (P'.live <=> P.live) /\ P'.obs = P.obs /\ P'.gen = P.gen
    BY <1>0, <2>3 DEF MP!Pods
  <2>5. Off /\ T = "none" /\ Mig /\ ~Asked /\ P.at # "absent" /\ ~P.hib
    BY <1>1, <1>3, <2>1, <2>4 DEF CopyOK, StepOK
  <2>6. OffPin /\ Calm /\ Live
    BY <1>1, <2>1, <2>5, VmTypes DEF CopyOK, Off, OffPin, IntentOK, VmOK, Live
  <2>7. K = "running" /\ P.at = "present" /\ P.state # "hibernated"
    BY <2>1, <2>5, <2>6, VmTypes DEF VmOK, Live
  <2>8. VmOK'
    BY <2>1, <2>2, <2>4, <2>7 DEF VmOK, Live
  <2>9. GenOK'
    BY <2>1, <2>2, <2>4 DEF GenOK
  <2>10. IntentOK'
    BY <2>1, <2>2, <2>4, <2>5, <2>6, <2>7
    DEF CROK, IntentOK, OffPin, Asked, Calm, Keeps, Live, Mig, Asleep
  <2>11. ViewOK'
    BY <2>1, <2>2, <2>4, <2>5, <2>6, CRTypes
    DEF CROK, ViewOK, PhaseOK, OffPin, Live, Asked, Calm, Asleep, HibPCs
  <2> QED BY <1>1, <2>1, <2>2, <2>8, <2>9, <2>10, <2>11, CRKept DEF Joint, RunOK
<1> QED BY <1>2, <1>3

(* The migration deletes the old main only once its VM is saved. *)
LEMMA DeleteOldKeeps ==
    ASSUME Setting, Inv, Joint, UNCHANGED crVars, MP!DeleteOld
    PROVE  Joint'
<1>0. P \in MP!Pods /\ pod \in [VMs -> MP!Pods]
  BY OneCR DEF P, Inv, MP!TypeInv, MP!TypeOK, MP!ClusterTypeOK
<1>1. /\ run.pc = "deleteOld" /\ UNCHANGED <<tag, vk, vkGen, cs, place, boots>> /\ run'.pc = "mark"
      /\ SameCopies /\ pod' = MP!Deleted
  BY GotoFields DEF MP!DeleteOld, MP!RestUnchanged
<1>2. CopyOK /\ StepOK /\ VmOK /\ GenOK /\ CROK /\ IntentOK /\ ViewOK /\ SeenOK /\ cs.owed = 0
  BY <1>1 DEF Joint, RunOK
<1>3. /\ R' = R /\ A' = A /\ RC' = RC /\ T' = T /\ K' = K /\ G' = G /\ cs' = cs
      /\ place' = place /\ boots' = boots
  BY <1>1, CRFrame DEF T, K, G
<1>4. /\ P'.at = (IF P.at = "present" THEN "terminating" ELSE P.at)
      /\ P'.state = P.state /\ (P'.named <=> P.named) /\ (P'.hib <=> P.hib)
      /\ (P'.restore <=> P.restore) /\ (P'.live <=> P.live) /\ P'.obs = P.obs /\ P'.gen = P.gen
  BY <1>0, <1>1, OneCR DEF P, MP!Deleted, MP!Pods
<1>5. HM /\ run.pod.hib /\ ~Asked /\ Mig /\ Off /\ (P.at = "present" => ~Live)
  BY <1>1, <1>2 DEF CopyOK, StepOK
<1>6. P.at # "absent" => OffPin /\ Calm
  BY <1>2, <1>5 DEF CopyOK, Off, OffPin, IntentOK
<1>7. P.at = "present" => K \in {"pushed", "asleep"}
  BY <1>2, <1>5, <1>6, VmTypes DEF IntentOK, Live
<1>8. VmOK'
  BY <1>2, <1>3, <1>4, <1>7, VmTypes DEF VmOK, Live
<1>9. GenOK'
  BY <1>2, <1>3, <1>4 DEF GenOK
<1>10. IntentOK'
  BY <1>2, <1>3, <1>4, <1>5, <1>6, <1>7, VmTypes
  DEF CROK, IntentOK, OffPin, Asked, Calm, Keeps, Live, Mig, Asleep
<1>11. ViewOK'
  BY <1>2, <1>3, <1>4, <1>5, <1>6, CRTypes
  DEF CROK, ViewOK, PhaseOK, OffPin, Live, Asked, Calm, Asleep, HibPCs
<1>12. CopyOK'
  BY <1>1, <1>2, <1>3, <1>4, <1>5 DEF CopyOK, SameCopies, HM, Off, Asked
<1>13. StepOK'
  BY <1>1, <1>2, <1>3, <1>5 DEF StepOK, CopyOK, VmOK, IntentOK, OffPin, Calm, Mig
<1> QED BY <1>2, <1>3, <1>8, <1>9, <1>10, <1>11, <1>12, <1>13, CRKept DEF Joint, RunOK

(* Every pod the set creates is marked to restore, and its tag holds the VM. *)
LEMMA CreateKeeps ==
    ASSUME Setting, Inv, Joint, UNCHANGED crVars, MP!RestoreMain \/ MP!createMainAgent
    PROVE  Joint'
<1>1. /\ run.pc \in {"restore", "create"} /\ UNCHANGED <<tag, vk, vkGen, cs, boots>>
      /\ run'.pc \in {"mark", "idle"} /\ (run'.pc = "mark" => run.pc = "restore") /\ SameCopies
      /\ \/ P.at # "absent" /\ pod' = pod /\ place' = place /\ run'.pc = "idle"
         \/ /\ P.at = "absent" /\ place' = [aff |-> run.cs.pin, node |-> NoNode]
            /\ \/ /\ run.pc = "restore"
                  /\ pod' = [pod EXCEPT ![Main] = MP!NewPod(TRUE, TRUE, run.cs.gen)]
               \/ /\ run.pc = "create"
                  /\ pod' = [pod EXCEPT ![Main] = MP!NewPod(TRUE, run.restore, run.cs.gen)]
  <2>1. CASE MP!RestoreMain
    BY <2>1, GotoFields DEF MP!RestoreMain, MP!CreateMain, MP!RestUnchanged, MP!Return, P
  <2>2. CASE MP!createMainAgent
    <3>1. MP!Goto("idle")
      BY <2>2, Zenon DEF MP!createMainAgent, MP!CreateMain, MP!Return
    <3>2. run'.pc = "idle" /\ SameCopies
      BY <3>1, GotoFields
    <3> QED BY <2>2, <3>2 DEF MP!createMainAgent, MP!CreateMain, MP!RestUnchanged, P
  <2> QED BY <2>1, <2>2
<1>2. CASE P.at # "absent"
  BY <1>1, <1>2, PassMoves
<1>3. CASE P.at = "absent"
  <2>1. CopyOK /\ StepOK /\ VmOK /\ GenOK /\ CROK /\ IntentOK /\ ViewOK /\ SeenOK /\ cs.owed = 0
    BY <1>1 DEF Joint, RunOK
  <2>2. /\ R' = R /\ A' = A /\ RC' = RC /\ T' = T /\ K' = K /\ G' = G /\ cs' = cs /\ boots' = boots
    BY <1>1, CRFrame DEF T, K, G
  <2>3. pod' = [pod EXCEPT ![Main] = MP!NewPod(TRUE, TRUE, cs.gen)]
    <3>1. run.cs = cs /\ (run.pc = "create" => run.restore = TRUE)
      BY <2>1, SetTypes DEF StepOK, CopyOK
    <3> QED BY <1>1, <1>3, <3>1
  <2>4. /\ P'.at = "present" /\ P'.state = "none" /\ P'.named /\ ~P'.hib /\ P'.restore /\ ~P'.live
        /\ P'.obs = 0 /\ P'.gen = cs.gen
    <3>1. P' = MP!NewPod(TRUE, TRUE, cs.gen)
      BY <2>3, OneCR DEF P, Inv, MP!TypeInv, MP!TypeOK, MP!ClusterTypeOK
    <3> QED BY <3>1 DEF MP!NewPod, MP!NoPod
  <2>5. place'.node = NoNode /\ place'.aff = cs.pin /\ place.node = NoNode /\ K = "off" /\ ~OffPin'
    <3>1. run.cs = cs
      BY <2>1 DEF CopyOK
    <3>2. place.node = NoNode /\ K = "off"
      BY <1>3, <2>1 DEF VmOK
    <3> QED BY <1>1, <1>3, <3>1, <3>2 DEF OffPin
  <2>6. VmOK'
    BY <2>1, <2>2, <2>4, <2>5 DEF VmOK, Live
  <2>7. GenOK'
    BY <2>1, <2>2, <2>4, <2>5, SetTypes DEF GenOK
  <2>8. IntentOK'
    BY <2>1, <2>2, <2>4, <2>5
    DEF CROK, IntentOK, Asked, Calm, Keeps, Live, Mig
  <2>9. ViewOK'
    BY <1>3, <2>1, <2>2, <2>4, <2>5, CRTypes
    DEF CROK, ViewOK, PhaseOK, Live, Asked, Calm, Asleep, HibPCs
  <2>10. ASSUME run'.pc = "mark" PROVE CopyOK'
    <3>1. ~HM
      BY <1>1, <2>1, <2>10 DEF StepOK
    <3> QED BY <1>1, <2>1, <2>2, <2>10, <3>1 DEF CopyOK, SameCopies, HM
  <2>11. ASSUME run'.pc = "mark" PROVE StepOK'
    BY <2>5, <2>11 DEF StepOK
  <2> QED BY <1>1, <2>1, <2>2, <2>6, <2>7, <2>8, <2>9, <2>10, <2>11, CRKept DEF Joint, RunOK
<1> QED BY <1>2, <1>3

(* Every step of the set's pass keeps what both rely on. *)
LEMMA SetPassKeeps ==
    ASSUME Setting, Inv, Joint, UNCHANGED crVars,
           MP!PassStep(podsHibernatedByCR, podsTrackedByHibernationCR, podsRestorableByCR)
    PROVE  Joint'
BY AsksKeep, UnsuspendKeeps, PhasesKeep, NotReached, DropKeeps, StampKeeps, QuiesceKeeps,
   DeleteOldKeeps, CreateKeeps DEF MP!PassStep

-----------------------------------------------------------------------------
(* The user, the scheduler, evictions *)

(* A patient user moves the pin of a set at rest: its VM runs awake, or sleeps for a CR. *)
LEMMA EditPinKeeps ==
    ASSUME Setting, Inv, Joint, EditPin
    PROVE  Joint'
<1>1. /\ UNCHANGED <<pod, tag, vk, vkGen, place, run, boots>> /\ UNCHANGED crVars
      /\ cs'.gen = cs.gen + 1 /\ cs'.phase = cs.phase /\ cs'.owed = cs.owed
      /\ ~(P.hib /\ K # "asleep") /\ AtRest /\ Settled(TheCR)
  <2>1. MP!EditPin /\ UNCHANGED crVars /\ AtRest /\ Settled(TheCR)
    BY SetEvents, OneCR DEF EditPin, Setting
  <2>2. \A n : LET d == [cs EXCEPT !.gen = @ + 1, !.pin = n] IN
               d.gen = cs.gen + 1 /\ d.phase = cs.phase /\ d.owed = cs.owed
    BY SetTypes DEF MP!Sets
  <2> QED BY <2>1, <2>2 DEF MP!EditPin, MP!Quiescing, MP!clusterVars, Setting, P, K
<1>2. /\ R' = R /\ A' = A /\ RC' = RC /\ P' = P /\ T' = T /\ K' = K /\ G' = G
      /\ place' = place /\ boots' = boots /\ run' = run
  BY <1>1, CRFrame, VmFrame
<1>3. /\ run.pc = "idle" /\ ~queued /\ ~Mig /\ P.at = "present" /\ A.pc = "idle"
      /\ R.at = "present" => /\ R.phase = IF R.desire = "Hibernate" THEN "Hibernated" ELSE "Active"
                             /\ P.hib <=> R.desire = "Hibernate"
  BY <1>1 DEF AtRest, Settled, Mig, P, A, R, H!TerminalPhase
<1>4. VmOK /\ GenOK /\ CROK /\ IntentOK /\ SeenOK /\ cs.owed = 0
  BY DEF Joint, RunOK
<1>5. Calm \/ Asked
  BY <1>3, <1>4, CRTypes DEF CROK, Calm, Asked
<1>6. Calm => Live /\ ~P.hib
  BY <1>3, <1>4 DEF IntentOK
<1>7. K # "off" /\ K # "waking" /\ (Asked => P.hib /\ K = "asleep" /\ R.phase = "Hibernated")
  BY <1>1, <1>3, <1>5, <1>6 DEF Asked, Live
<1>8. VmOK'
  BY <1>2, <1>4, <1>7 DEF VmOK, Live
<1>9. GenOK'
  BY <1>1, <1>2, <1>3, <1>4, SetTypes, VmTypes DEF GenOK
<1>10. IntentOK'
  <2>1. /\ P.at = "present" /\ ~Mig' /\ (Calm' <=> Calm) /\ (Asked' <=> Asked) /\ (Live' <=> Live)
    BY <1>1, <1>2, <1>3 DEF Mig, Calm, Asked, Live
  <2>2. ~(R.desire = "Wake" /\ Keeps) /\ ~(P.hib /\ Calm) /\ ~(R.desire = "Wake" /\ R.phase = "Hibernated")
    BY <1>3, <1>4, <1>6, CRTypes DEF CROK, Keeps
  <2>3. ~(R.desire = "Wake" /\ R.phase \in {"", "Pending", "Waking"} /\ R.at = "present")
    BY <1>3
  <2> QED BY <1>2, <1>4, <1>6, <1>7, <2>1, <2>2, <2>3 DEF IntentOK, Keeps, Live
<1>11. ViewOK'
  BY <1>2, <1>3 DEF ViewOK, HibPCs
<1> QED BY <1>1, <1>2, <1>3, <1>4, <1>8, <1>9, <1>10, <1>11, CRKept DEF Joint, RunOK

(* The scheduler binds a main that waits on its pin. *)
LEMMA ScheduleKeeps ==
    ASSUME Setting, Inv, Joint, Schedule
    PROVE  Joint'
<1>1. /\ UNCHANGED <<pod, tag, vk, vkGen, cs, run, boots>> /\ UNCHANGED crVars
      /\ P.at = "present" /\ place.node = NoNode
      /\ place'.node # NoNode /\ place.aff \in {NoNode, place'.node} /\ place'.aff = place.aff
  <2>1. MP!Schedule /\ UNCHANGED crVars
    BY SetEvents DEF Schedule
  <2>2. PICK n \in Nodes : place.aff \in {NoNode, n} /\ place' = [place EXCEPT !.node = n]
    BY <2>1 DEF MP!Schedule
  <2>3. n # NoNode
    BY OperatorAssumption DEF M!MigrationAssumption
  <2>4. place'.node = n /\ place'.aff = place.aff
    BY <2>2, SetTypes DEF MP!Places
  <2> QED BY <2>1, <2>2, <2>3, <2>4 DEF MP!Schedule, MP!clusterVars, P
<1>2. /\ R' = R /\ A' = A /\ RC' = RC /\ P' = P /\ T' = T /\ K' = K /\ G' = G
      /\ cs' = cs /\ boots' = boots /\ run' = run
  BY <1>1, CRFrame, VmFrame
<1>3. VmOK /\ GenOK /\ CROK /\ IntentOK /\ ViewOK /\ SeenOK /\ RunOK
  BY DEF Joint
<1>4. K = "off" /\ ~OffPin /\ ~OffPin'
  BY <1>1, <1>2, <1>3 DEF VmOK, OffPin
<1>5. VmOK'
  BY <1>1, <1>2, <1>3 DEF VmOK, Live
<1>6. GenOK'
  BY <1>2, <1>3 DEF GenOK
<1>7. IntentOK'
  BY <1>2, <1>3, <1>4 DEF IntentOK, Asked, Calm, Keeps, Live, Mig, Asleep
<1>8. ViewOK'
  BY <1>2, <1>3, <1>4 DEF ViewOK, PhaseOK, Live, Asked, Calm, Asleep, HibPCs
<1>9. RunOK'
  <2>1. CopyOK => CopyOK'
    BY <1>1, <1>2 DEF CopyOK, HM, Off, Asked, Calm, Keeps, Live
  <2>2. StepOK => StepOK'
    BY <1>2, <1>4 DEF StepOK, HM, Off, Asked, Calm, Live, Mig
  <2> QED BY <1>2, <1>3, <2>1, <2>2 DEF RunOK
<1> QED BY <1>1, <1>3, <1>5, <1>6, <1>7, <1>8, <1>9, CRKept DEF Joint

(* An eviction takes a sleeping main whose way back the migration or the CR holds. *)
LEMMA EvictKeeps ==
    ASSUME Setting, Inv, Joint, Evict
    PROVE  Joint'
<1>0. P \in MP!Pods /\ pod \in [VMs -> MP!Pods]
  BY OneCR DEF P, Inv, MP!TypeInv, MP!TypeOK, MP!ClusterTypeOK
<1>1. /\ UNCHANGED <<tag, vk, vkGen, cs, place, run, boots>> /\ UNCHANGED crVars
      /\ pod' = MP!Deleted /\ P.at = "present" /\ K \in {"asleep", "off"} /\ P.obs = cs.gen
      /\ A.pc # "idle" => A.pod.state = "hibernated" /\ A.pod.obs = cs.gen
      /\ boots # "none" =>
           \/ Mig /\ run.pc \in {"idle", "deleteOld", "restore", "wakeInPlace", "mark"}
           \/ Keeps
  <2>1. MP!Evict(podsRestorableByCR) /\ UNCHANGED crVars /\ P.obs = cs.gen
    BY SetEvents DEF Evict, P
  <2>2. A.pc # "idle" => A.pod.state = "hibernated" /\ A.pod.obs = cs.gen
    BY OneCR DEF Evict, A
  <2> QED BY <2>1, <2>2, Lists DEF MP!Evict, MP!Migrates, Setting, Mig, P, K
<1>2. /\ R' = R /\ A' = A /\ RC' = RC /\ T' = T /\ K' = K /\ G' = G
      /\ cs' = cs /\ place' = place /\ boots' = boots /\ run' = run
  BY <1>1, CRFrame DEF T, K, G
<1>3. /\ P'.at = "terminating"
      /\ P'.state = P.state /\ (P'.named <=> P.named) /\ (P'.hib <=> P.hib)
      /\ (P'.restore <=> P.restore) /\ (P'.live <=> P.live) /\ P'.obs = P.obs /\ P'.gen = P.gen
  BY <1>0, <1>1, OneCR DEF P, MP!Deleted, MP!Pods
<1>4. VmOK /\ GenOK /\ CROK /\ IntentOK /\ ViewOK /\ SeenOK /\ RunOK
  BY DEF Joint
<1>5. P.gen = cs.gen /\ (A.pc # "idle" => A.pod.obs >= A.pod.gen) /\ P.obs # 0 /\ P.obs >= P.gen
  <2>1. A.pod.gen \in Nat /\ A.pod.obs \in Nat
    BY CRTypes
  <2> QED BY <1>1, <1>4, <2>1, VmTypes, SetTypes DEF GenOK
<1>6. K = "asleep" /\ P.state = "hibernated" /\ ~Live
  BY <1>1, <1>4, <1>5 DEF VmOK, Live
<1>7. /\ A.pc # "idle" => Asleep(A.pod)
      /\ \/ Mig /\ run.pc \in {"idle", "deleteOld", "restore", "wakeInPlace", "mark"}
         \/ Keeps
  BY <1>1, <1>4, <1>5 DEF Asleep, VmOK
<1>8. VmOK'
  BY <1>2, <1>3, <1>4, <1>6 DEF VmOK, Live
<1>9. GenOK'
  BY <1>2, <1>3, <1>4 DEF GenOK
<1>10. IntentOK'
  BY <1>2, <1>3, <1>4, <1>5, <1>6, <1>7 DEF IntentOK, OffPin, Asked, Calm, Keeps, Live, Mig, Asleep
<1>11. ViewOK'
  <2>1. A.pc = "setPhase" => A.to # "Hibernating"
    BY <1>4, <1>6, <1>7 DEF ViewOK, PhaseOK, IntentOK
  <2> QED BY <1>2, <1>3, <1>4, <1>6, <1>7, <2>1
          DEF ViewOK, PhaseOK, OffPin, Live, Asked, Calm, Asleep, HibPCs
<1>12. RunOK'
  <2>1. ASSUME run.pc # "idle" PROVE CopyOK'
    <3>1. CopyOK /\ StepOK
      BY <1>4, <2>1 DEF RunOK
    <3>2. HM /\ run.pc \notin {"deleteOld", "mark"} => Keeps
      BY <1>7, <2>1, <3>1 DEF StepOK
    <3> QED BY <1>1, <1>2, <1>3, <3>1, <3>2 DEF CopyOK, HM, Off, Asked, Calm, Keeps, Live
  <2>2. StepOK => StepOK'
    BY <1>2, <1>3 DEF StepOK, HM, Off, OffPin, Asked, Calm, Live, Mig
  <2> QED BY <1>2, <1>4, <2>1, <2>2 DEF RunOK
<1> QED BY <1>1, <1>4, <1>8, <1>9, <1>10, <1>11, <1>12, CRKept DEF Joint

-----------------------------------------------------------------------------
(* vk-cocoon *)

(* What every step of vk-cocoon leaves alone, and when a push may land. *)
VkFrame ==
    /\ UNCHANGED crVars /\ cs' = cs /\ run' = run
    /\ R' = R /\ A' = A /\ RC' = RC

(* What vk-cocoon's step leaves alone, and where it may act. *)
LEMMA VkFacts ==
    ASSUME Setting, VkActs
    PROVE  /\ MP!VkStep(Main) /\ VkFrame /\ MP!Watched
           /\ K = "pushing" => (run.pc # "idle" => run.pod.hib) /\ (A.pc # "idle" => A.pod.hib)
           /\ K = "off" /\ P.at = "present" => place.node # NoNode
           /\ place' = IF P'.at = "absent" THEN MP!Nowhere ELSE place
           /\ K # "off" \/ K' # "running" => boots' = boots
<1>1. MP!VkActs /\ UNCHANGED crVars
  BY SetVk DEF VkActs
<1>2. K = "pushing" => (run.pc # "idle" => run.pod.hib) /\ (A.pc # "idle" => A.pod.hib)
  BY OneCR DEF VkActs, Setting, K, A
<1> QED BY <1>1, <1>2, CRFrame DEF MP!VkActs, VkFrame, K, P

(* Where nothing changes but what the VM does and reports, and it stays live or saved. *)
LEMMA QuietVk ==
    ASSUME Setting, Inv, Joint, VkFrame, place' = place, boots' = boots,
           P'.at = P.at, P'.hib <=> P.hib, P'.gen = P.gen, T' = T, Live' <=> Live,
           K = "asleep" /\ P.hib => K' = "asleep",
           P'.state = "hibernated" /\ ~P.hib => P.state = "hibernated",
           R.desire = "Wake" /\ R.phase = "Hibernated" /\ P.hib /\ K = "asleep" /\ P.at = "present" =>
             (queued' <=> queued) /\ P'.obs = P.obs,
           P.at = "terminating" /\ Asked => P'.state = P.state /\ P'.obs = P.obs,
           Calm /\ OffPin => K' \notin {"off", "waking"}
    PROVE  IntentOK' /\ ViewOK' /\ RunOK' /\ CROK' /\ SeenOK'
<1>1. VmOK /\ CROK /\ IntentOK /\ ViewOK /\ SeenOK /\ RunOK
  BY DEF Joint
<1>2. R' = R /\ A' = A /\ RC' = RC /\ cs' = cs /\ run' = run /\ place' = place /\ UNCHANGED crVars
  BY DEF VkFrame
<1>3. IntentOK'
  BY <1>1, <1>2 DEF IntentOK, OffPin, Asked, Calm, Keeps, Mig, Asleep
<1>4. ViewOK'
  BY <1>1, <1>2 DEF ViewOK, PhaseOK, OffPin, Asked, Calm, Asleep, HibPCs
<1>5. CopyOK => CopyOK'
  BY <1>2 DEF CopyOK, HM, Off, Asked, Calm, Keeps
<1>6. StepOK => StepOK'
  BY <1>2 DEF StepOK, HM, Off, OffPin, Asked, Calm, Mig
<1>7. RunOK'
  BY <1>1, <1>2, <1>5, <1>6 DEF RunOK
<1> QED BY <1>1, <1>2, <1>3, <1>4, <1>7, CRKept

(* A main without a VM is marked to restore and its tag is there: it is never booted
   from its image, nor refused. *)
LEMMA NeverBoots ==
    ASSUME Inv, Joint
    PROVE  ~MP!VkBoot(Main) /\ ~MP!VkRefuse(Main)
<1>1. VmOK
  BY DEF Joint
<1>2. K = "off" /\ P.at = "present" => P.restore /\ T = "fresh"
  BY <1>1 DEF VmOK, Live
<1> QED BY <1>2 DEF MP!VkBoot, MP!VkRefuse, P, T, K

(* A transition starts: a restore, a hibernate or a wake. *)
LEMMA VkStartKeeps ==
    ASSUME Setting, Inv, Joint, VkActs,
           MP!VkRestore(Main) \/ MP!VkHibernate(Main) \/ MP!VkWake(Main)
    PROVE  Joint'
<1>1. VmOK /\ GenOK /\ CROK /\ IntentOK
  BY DEF Joint
<1>2. /\ pod' = pod /\ P' = P /\ T' = T /\ G' = P.gen /\ P.at = "present"
      /\ \/ K = "off" /\ K' = "waking" /\ T # "none"
         \/ K = "running" /\ K' = "pushing" /\ P.hib
         \/ K = "asleep" /\ K' = "waking" /\ ~P.hib
  BY OneCR DEF MP!VkRestore, MP!VkHibernate, MP!VkWake, MP!VkStart, P, T, K, G, Inv, MP!TypeInv,
     MP!TypeOK, MP!ClusterTypeOK
<1>3. VkFrame /\ boots' = boots /\ place' = place /\ (K = "off" => place.node # NoNode)
  BY <1>2, VkFacts
<1>4. queued' <=> queued
  BY <1>2, <1>3, VkFacts, SetTypes DEF MP!Watched, MP!Watch, VkFrame
<1>5. K = "asleep" /\ ~P.hib => ~Calm
  BY <1>1 DEF VmOK, CROK, IntentOK, Calm, Keeps
<1>6. IntentOK' /\ ViewOK' /\ RunOK' /\ CROK' /\ SeenOK'
  <2>1. Live' <=> Live
    BY <1>2 DEF Live
  <2>2. Calm /\ OffPin => K' \notin {"off", "waking"}
    BY <1>1, <1>2, <1>5 DEF IntentOK
  <2> QED BY <1>2, <1>3, <1>4, <2>1, <2>2, QuietVk
<1>7. VmOK'
  BY <1>1, <1>2, <1>3 DEF VmOK, Live, VkFrame
<1>8. GenOK'
  BY <1>1, <1>2, <1>3, VmTypes DEF GenOK, VkFrame
<1> QED BY <1>6, <1>7, <1>8 DEF Joint

(* The push of a main no running pass has seen awake lands. *)
LEMMA VkPushKeeps ==
    ASSUME Setting, Inv, Joint, VkActs, MP!VkPush(Main)
    PROVE  Joint'
<1>1. VmOK /\ GenOK /\ CROK /\ IntentOK /\ ViewOK /\ SeenOK /\ RunOK
  BY DEF Joint
<1>2. pod' = pod /\ P' = P /\ T' = "fresh" /\ G' = G /\ K = "pushing" /\ K' = "pushed"
  BY OneCR DEF MP!VkPush, P, T, K, G, Inv, MP!TypeInv, MP!TypeOK, MP!ClusterTypeOK
<1>3. P.hib /\ P.at = "present" /\ place.node # NoNode /\ Live /\ ~Live'
  BY <1>1, <1>2, VmTypes DEF VmOK, Live
<1>4. /\ VkFrame /\ boots' = boots /\ place' = place
      /\ (run.pc # "idle" => run.pod.hib) /\ (A.pc # "idle" => A.pod.hib)
  BY <1>2, <1>3, VkFacts
<1>5. queued' <=> queued
  BY <1>2, <1>4, VkFacts, SetTypes DEF MP!Watched, MP!Watch, VkFrame
<1>6. R' = R /\ A' = A /\ RC' = RC /\ cs' = cs /\ run' = run /\ UNCHANGED crVars
  BY <1>4 DEF VkFrame
<1>7. VmOK'
  BY <1>1, <1>2, <1>3, <1>4, <1>6 DEF VmOK, Live
<1>8. GenOK'
  BY <1>1, <1>2, <1>6 DEF GenOK
<1>9. IntentOK'
  BY <1>1, <1>2, <1>3, <1>4, <1>5, <1>6 DEF IntentOK, OffPin, Asked, Calm, Keeps, Mig, Asleep
<1>10. ViewOK'
  BY <1>1, <1>2, <1>3, <1>4, <1>6 DEF ViewOK, PhaseOK, OffPin, Asked, Calm, Asleep, HibPCs
<1>11. ASSUME run.pc # "idle" PROVE CopyOK' /\ StepOK'
  <2>1. CopyOK /\ StepOK /\ run.pod.hib
    BY <1>1, <1>4, <1>11 DEF RunOK
  <2>2. CopyOK'
    BY <1>2, <1>4, <1>6, <2>1 DEF CopyOK, HM, Off, Asked, Calm, Keeps
  <2>3. ~(Asked /\ Calm)
    BY DEF Asked, Calm
  <2>4. StepOK'
    BY <1>2, <1>3, <1>4, <1>6, <2>1, <2>3 DEF StepOK, HM, Off, OffPin, Asked, Calm, Mig
  <2> QED BY <2>2, <2>4
<1>12. RunOK'
  BY <1>1, <1>6, <1>11 DEF RunOK
<1> QED BY <1>1, <1>6, <1>7, <1>8, <1>9, <1>10, <1>12, CRKept DEF Joint

(* vk-cocoon reports a main asleep once its push has landed. *)
LEMMA VkReportKeeps ==
    ASSUME Setting, Inv, Joint, VkActs, MP!VkReportHibernated(Main)
    PROVE  Joint'
<1>0. P \in MP!Pods /\ pod \in [VMs -> MP!Pods]
  BY OneCR DEF P, Inv, MP!TypeInv, MP!TypeOK, MP!ClusterTypeOK
<1>1. VmOK /\ GenOK /\ CROK /\ IntentOK
  BY DEF Joint
<1>2. /\ P.at # "absent" /\ K = "pushed" /\ K' = "asleep" /\ T' = T /\ G' = G
      /\ pod' = [pod EXCEPT ![Main] = [P EXCEPT !.state = "hibernated", !.obs = G, !.live = FALSE,
                                                !.named = TRUE]]
  BY OneCR DEF MP!VkReportHibernated, MP!Report, P, T, K, G, Inv, MP!TypeInv, MP!TypeOK,
     MP!ClusterTypeOK
<1>3. /\ P'.at = P.at /\ P'.state = "hibernated" /\ P'.obs = G /\ ~P'.live /\ P'.named
      /\ (P'.hib <=> P.hib) /\ (P'.restore <=> P.restore) /\ P'.gen = P.gen
  <2>1. P' = [P EXCEPT !.state = "hibernated", !.obs = G, !.live = FALSE, !.named = TRUE]
    BY <1>0, <1>2, OneCR DEF P
  <2> QED BY <1>0, <2>1 DEF MP!Pods
<1>4. VkFrame /\ boots' = boots /\ place' = place
  BY <1>2, <1>3, VkFacts
<1>5. P.hib /\ P.state # "hibernated"
  BY <1>1, <1>2 DEF VmOK
<1>6. IntentOK' /\ ViewOK' /\ RunOK' /\ CROK' /\ SeenOK'
  <2>1. (Live' <=> Live) /\ ~(P.at = "terminating" /\ Asked)
    BY <1>1, <1>2, <1>5 DEF Live, IntentOK, Asleep
  <2> QED BY <1>2, <1>3, <1>4, <1>5, <2>1, QuietVk
<1>7. VmOK'
  BY <1>1, <1>2, <1>3, <1>4, <1>5 DEF VmOK, Live, VkFrame
<1>8. GenOK'
  BY <1>1, <1>2, <1>3, <1>4, VmTypes DEF GenOK, VkFrame
<1> QED BY <1>6, <1>7, <1>8 DEF Joint

(* A wake or a restore ends: no pass is about to take the main for a sleeping one. *)
LEMMA VkWokenKeeps ==
    ASSUME Setting, Inv, Joint, VkActs, MP!VkWoken(Main)
    PROVE  Joint'
<1>0. P \in MP!Pods /\ pod \in [VMs -> MP!Pods]
  BY OneCR DEF P, Inv, MP!TypeInv, MP!TypeOK, MP!ClusterTypeOK
<1>1. VmOK /\ GenOK /\ CROK /\ IntentOK /\ ViewOK /\ SeenOK /\ RunOK
  BY DEF Joint
<1>2. /\ P.at # "absent" /\ K = "waking" /\ K' = "running" /\ G' = G
      /\ T' = (IF T = "fresh" THEN "stale" ELSE T)
      /\ pod' = [pod EXCEPT ![Main] = [P EXCEPT !.state = "ready", !.obs = G, !.live = TRUE,
                                                !.named = TRUE]]
  BY OneCR DEF MP!VkWoken, MP!Report, MP!Spent, P, T, K, G, Inv, MP!TypeInv, MP!TypeOK,
     MP!ClusterTypeOK
<1>3. /\ P'.at = P.at /\ P'.state = "ready" /\ P'.obs = G /\ P'.live /\ P'.named
      /\ (P'.hib <=> P.hib) /\ (P'.restore <=> P.restore) /\ P'.gen = P.gen
  <2>1. P' = [P EXCEPT !.state = "ready", !.obs = G, !.live = TRUE, !.named = TRUE]
    BY <1>0, <1>2, OneCR DEF P
  <2> QED BY <1>0, <2>1 DEF MP!Pods
<1>4. VkFrame /\ boots' = boots /\ place' = place
  BY <1>2, <1>3, VkFacts
<1>5. /\ P.at = "present" /\ T = "fresh" /\ T' = "stale" /\ ~Live /\ Live' /\ place.node # NoNode
      /\ ~(Calm /\ OffPin) /\ ~(P.hib /\ Calm)
  BY <1>1, <1>2, VmTypes DEF VmOK, IntentOK, Live
<1>6. R' = R /\ A' = A /\ RC' = RC /\ cs' = cs /\ run' = run /\ UNCHANGED crVars
  BY <1>4 DEF VkFrame
<1>7. VmOK'
  BY <1>1, <1>2, <1>3, <1>4, <1>5, <1>6 DEF VmOK
<1>8. GenOK'
  BY <1>1, <1>2, <1>3, <1>6, VmTypes DEF GenOK
<1>9. IntentOK'
  BY <1>1, <1>2, <1>3, <1>4, <1>5, <1>6 DEF IntentOK, OffPin, Asked, Calm, Keeps, Mig, Asleep
<1>10. ViewOK'
  BY <1>1, <1>2, <1>3, <1>4, <1>5, <1>6 DEF ViewOK, PhaseOK, OffPin, Asked, Calm, Asleep, HibPCs
<1>11. ASSUME run.pc # "idle" PROVE CopyOK' /\ StepOK'
  <2>1. CopyOK /\ StepOK
    BY <1>1, <1>11 DEF RunOK
  <2>2. CopyOK'
    BY <1>3, <1>4, <1>5, <1>6, <2>1 DEF CopyOK, HM, Off, Asked, Calm, Keeps
  <2>3. run.pc # "deleteOld"
    <3>1. run.pc = "deleteOld" => Off /\ Mig
      BY <2>1 DEF CopyOK, StepOK
    <3>2. run.pc = "deleteOld" => OffPin
      BY <1>5, <2>1, <3>1 DEF CopyOK, Off, OffPin
    <3> QED BY <1>1, <1>5, <3>1, <3>2 DEF IntentOK
  <2>4. StepOK'
    BY <1>3, <1>4, <1>5, <1>6, <2>1, <2>3 DEF StepOK, HM, Off, OffPin, Asked, Calm, Mig
  <2> QED BY <2>2, <2>4
<1>12. RunOK'
  BY <1>1, <1>6, <1>11 DEF RunOK
<1> QED BY <1>1, <1>6, <1>7, <1>8, <1>9, <1>10, <1>12, CRKept DEF Joint

(* A VM at rest echoes the stamp. *)
LEMMA VkEchoKeeps ==
    ASSUME Setting, Inv, Joint, VkActs, MP!VkEcho(Main)
    PROVE  Joint'
<1>0. P \in MP!Pods /\ pod \in [VMs -> MP!Pods]
  BY OneCR DEF P, Inv, MP!TypeInv, MP!TypeOK, MP!ClusterTypeOK
<1>1. VmOK /\ GenOK /\ CROK /\ IntentOK
  BY DEF Joint
<1>2. /\ P.at = "present" /\ T' = T /\ G' = G /\ K' = K
      /\ \E s \in {"ready", "hibernated"} :
           /\ pod' = [pod EXCEPT ![Main] = [P EXCEPT !.state = s, !.obs = P.gen]]
           /\ <<P.state, P.obs>> # <<s, P.gen>>
           /\ \/ s = "ready" /\ K = "running" /\ ~P.hib
              \/ s = "hibernated" /\ K = "asleep" /\ P.hib
  <2>1. PICK rest \in {[of |-> "running", hib |-> FALSE, state |-> "ready"],
                       [of |-> "asleep", hib |-> TRUE, state |-> "hibernated"]} :
          /\ vk[Main] = rest.of /\ pod[Main].hib = rest.hib
          /\ <<pod[Main].state, pod[Main].obs>> # <<rest.state, pod[Main].gen>>
          /\ pod' = [pod EXCEPT ![Main].state = rest.state, ![Main].obs = pod[Main].gen]
    BY DEF MP!VkEcho
  <2>2. CASE rest = [of |-> "running", hib |-> FALSE, state |-> "ready"]
    BY <2>1, <2>2 DEF MP!VkEcho, P, T, K, G
  <2>3. CASE rest = [of |-> "asleep", hib |-> TRUE, state |-> "hibernated"]
    BY <2>1, <2>3 DEF MP!VkEcho, P, T, K, G
  <2> QED BY <2>1, <2>2, <2>3
<1>3. /\ P'.at = P.at /\ P'.obs = P.gen /\ (P'.live <=> P.live) /\ (P'.named <=> P.named)
      /\ (P'.hib <=> P.hib) /\ (P'.restore <=> P.restore) /\ P'.gen = P.gen
      /\ \/ P'.state = "ready" /\ K = "running" /\ ~P.hib
         \/ P'.state = "hibernated" /\ K = "asleep" /\ P.hib /\ P.obs # P.gen
  <2>1. PICK s \in {"ready", "hibernated"} :
           /\ pod' = [pod EXCEPT ![Main] = [P EXCEPT !.state = s, !.obs = P.gen]]
           /\ <<P.state, P.obs>> # <<s, P.gen>>
           /\ \/ s = "ready" /\ K = "running" /\ ~P.hib
              \/ s = "hibernated" /\ K = "asleep" /\ P.hib
    BY <1>2
  <2>2. P' = [P EXCEPT !.state = s, !.obs = P.gen]
    BY <1>0, <2>1, OneCR DEF P
  <2>3. /\ P'.state = s /\ P'.at = P.at /\ P'.obs = P.gen /\ (P'.live <=> P.live)
        /\ (P'.named <=> P.named) /\ (P'.hib <=> P.hib) /\ (P'.restore <=> P.restore)
        /\ P'.gen = P.gen
    BY <1>0, <2>2 DEF MP!Pods
  <2>4. K = "asleep" => P.state = "hibernated"
    BY <1>1 DEF VmOK
  <2> QED BY <2>1, <2>3, <2>4
<1>4. VkFrame /\ boots' = boots /\ place' = place
  BY <1>2, <1>3, VkFacts
<1>5. IntentOK' /\ ViewOK' /\ RunOK' /\ CROK' /\ SeenOK'
  <2>1. (Live' <=> Live) /\ P.at # "terminating"
    BY <1>2 DEF Live
  <2>2. Calm /\ OffPin => K' \notin {"off", "waking"}
    BY <1>1, <1>2 DEF IntentOK
  <2>3. ~(R.desire = "Wake" /\ R.phase = "Hibernated" /\ P.hib /\ K = "asleep" /\ P.at = "present")
    BY <1>1, <1>3 DEF IntentOK
  <2> QED BY <1>2, <1>3, <1>4, <2>1, <2>2, <2>3, QuietVk
<1>6. VmOK'
  BY <1>1, <1>2, <1>3, <1>4 DEF VmOK, Live, VkFrame
<1>7. GenOK'
  BY <1>1, <1>2, <1>3, <1>4, VmTypes DEF GenOK, VkFrame
<1> QED BY <1>5, <1>6, <1>7 DEF Joint

(* The VM goes with its pod, after its state was saved. *)
LEMMA VkDeleteKeeps ==
    ASSUME Setting, Inv, Joint, VkActs, MP!VkDelete(Main)
    PROVE  Joint'
<1>1. VmOK /\ GenOK /\ CROK /\ IntentOK /\ ViewOK /\ SeenOK /\ RunOK
  BY DEF Joint
<1>2. /\ P.at = "terminating" /\ P' = MP!NoPod /\ T' = T /\ G' = G /\ K' = "off"
  BY OneCR DEF MP!VkDelete, P, T, K, G, Inv, MP!TypeInv, MP!TypeOK, MP!ClusterTypeOK
<1>3. /\ P'.at = "absent" /\ P'.state = "none" /\ P'.obs = 0 /\ P'.gen = 0
      /\ ~P'.live /\ ~P'.hib
  BY <1>2 DEF MP!NoPod
<1>4. K \in {"pushed", "asleep"} /\ ~Live /\ ~Live' /\ T = "fresh"
  BY <1>1, <1>2 DEF VmOK, Live
<1>5. VkFrame /\ boots' = boots /\ place' = MP!Nowhere
  BY <1>2, <1>3, <1>4, VkFacts
<1>6. R' = R /\ A' = A /\ RC' = RC /\ cs' = cs /\ run' = run /\ UNCHANGED crVars
  BY <1>5 DEF VkFrame
<1>7. place'.node = NoNode /\ ~OffPin'
  BY <1>5 DEF MP!Nowhere, OffPin
<1>8. VmOK'
  BY <1>1, <1>2, <1>3, <1>4, <1>5, <1>7 DEF VmOK
<1>9. GenOK'
  BY <1>1, <1>2, <1>3, <1>6, SetTypes DEF GenOK
<1>10. IntentOK'
  BY <1>1, <1>2, <1>3, <1>4, <1>6, <1>7 DEF IntentOK, Asked, Calm, Keeps, Mig
<1>11. ViewOK'
  BY <1>1, <1>2, <1>3, <1>4, <1>6, <1>7 DEF ViewOK, PhaseOK, Asked, Calm, Asleep, HibPCs
<1>12. ASSUME run.pc # "idle" PROVE CopyOK' /\ StepOK'
  <2>1. CopyOK /\ StepOK
    BY <1>1, <1>12 DEF RunOK
  <2>2. ~(Calm /\ Keeps)
    BY <1>1 DEF CROK, Calm, Keeps
  <2>3. CopyOK'
    BY <1>2, <1>3, <1>4, <1>6, <2>1, <2>2 DEF CopyOK, HM, Off, Asked, Calm, Keeps
  <2>4. run.pc \notin {"tracked", "dropStale", "dropRestored"}
    BY <1>4, <2>1 DEF StepOK, CopyOK
  <2>5. StepOK'
    BY <1>2, <1>3, <1>4, <1>6, <1>7, <2>1, <2>4 DEF StepOK, HM, Off, Asked, Calm, Mig
  <2> QED BY <2>3, <2>5
<1>13. RunOK'
  BY <1>1, <1>6, <1>12 DEF RunOK
<1> QED BY <1>1, <1>6, <1>8, <1>9, <1>10, <1>11, <1>13, CRKept DEF Joint

(* Every step of the set and of its environment keeps what both rely on. *)
LEMMA SetSideKeeps ==
    ASSUME Setting, Inv, Joint,
           SetReconcile \/ SetStep \/ EditPin \/ Schedule \/ Evict \/ VkActs
    PROVE  Joint'
<1>1. CASE SetReconcile \/ SetStep
  BY <1>1, SetEvents, SetPasses, ReconcileKeeps, SetPassKeeps DEF SetReconcile, SetStep
<1>2. CASE VkActs
  <2>1. MP!VkStep(Main)
    BY <1>2, VkFacts
  <2> QED BY <1>2, <2>1, NeverBoots, VkStartKeeps, VkPushKeeps, VkReportKeeps, VkWokenKeeps,
             VkEchoKeeps, VkDeleteKeeps DEF MP!VkStep
<1> QED BY <1>1, <1>2, EditPinKeeps, ScheduleKeeps, EvictKeeps

-----------------------------------------------------------------------------
(* The CR's pass *)

(* A step of the CR reconciler leaves the set and its pass alone, and vk-cocoon. *)
CRSide ==
    /\ cs' = cs /\ place' = place /\ run' = run /\ boots' = boots
    /\ K' = K /\ G' = G /\ X' = X /\ (pod' = pod => (queued' <=> queued))

(* What the CR says to the set. *)
SameCR ==
    /\ R'.at = R.at /\ R'.desire = R.desire /\ R'.phase = R.phase
    /\ R'.obsGen = R.obsGen /\ R'.gen = R.gen

(* That is what SetWatches and the frames of the CR's actions say. *)
LEMMA CRSideFrame ==
    ASSUME Inv, MP!Watched, UNCHANGED <<cs, place, run, boots, vk, vkGen, expired>>
    PROVE  CRSide
<1>1. K' = K /\ G' = G /\ X' = X
  BY DEF K, G, X
<1>2. pod' = pod => (queued' <=> queued)
  BY SetTypes DEF MP!Watched, MP!Watch
<1> QED BY <1>1, <1>2 DEF CRSide

(* A step that only moves the pass or the informers. *)
LEMMA CRMoves ==
    ASSUME Setting, Inv, Joint, CRSide, SameCR, pod' = pod, tag' = tag
    PROVE  /\ VmOK' /\ CROK' /\ IntentOK' /\ RunOK'
           /\ (A'.pc # "idle" => A'.pod.gen <= cs.gen) => GenOK'
<1>1. VmOK /\ GenOK /\ CROK /\ IntentOK /\ RunOK
  BY DEF Joint
<1>2. P' = P /\ T' = T
  BY DEF P, T
<1>3. /\ cs' = cs /\ place' = place /\ run' = run /\ boots' = boots /\ K' = K /\ G' = G /\ X' = X
      /\ (queued' <=> queued)
  BY DEF CRSide
<1>4. /\ R'.at = R.at /\ R'.desire = R.desire /\ R'.phase = R.phase /\ R'.obsGen = R.obsGen
      /\ R'.gen = R.gen
  BY DEF SameCR
<1>5. VmOK'
  BY <1>1, <1>2, <1>3 DEF VmOK, Live
<1>6. CROK'
  BY <1>1, <1>3, <1>4 DEF CROK
<1>7. IntentOK'
  BY <1>1, <1>2, <1>3, <1>4 DEF IntentOK, OffPin, Asked, Calm, Keeps, Live, Mig, Asleep
<1>8. CopyOK => CopyOK'
  BY <1>2, <1>3, <1>4 DEF CopyOK, HM, Off, Asked, Calm, Keeps, Live
<1>9. StepOK => StepOK'
  BY <1>2, <1>3, <1>4 DEF StepOK, HM, Off, OffPin, Asked, Calm, Mig, Live
<1>10. RunOK'
  BY <1>1, <1>3, <1>8, <1>9 DEF RunOK
<1>11. (A'.pc # "idle" => A'.pod.gen <= cs.gen) => GenOK'
  BY <1>1, <1>2, <1>3 DEF GenOK
<1> QED BY <1>5, <1>6, <1>7, <1>10, <1>11

(* A pass that returns, goes on, or is about to write a phase. *)
LEMMA CRReturns ==
    ASSUME Setting, Inv, NEW again \in BOOLEAN, HP!Return(TheCR, again)
    PROVE  A'.pc = "idle" /\ (W' <=> W \/ again)
<1>1. pass' = [pass EXCEPT ![TheCR] = HP!Idle] /\ queue' = [queue EXCEPT ![TheCR] = @ \/ again]
  BY DEF HP!Return
<1>2. HP!TypeOK
  BY HP!TypeParts, OperatorAssumption DEF Inv, HP!HInv
<1>3. A' = HP!Idle /\ W' = (W \/ again)
  BY <1>1, <1>2, OneCR DEF HP!TypeOK, A, W
<1> QED BY <1>3 DEF HP!Idle

LEMMA CRGoes ==
    ASSUME Setting, Inv, NEW next, HP!Goto(TheCR, next)
    PROVE  A' = next /\ (W' <=> W)
<1>1. HP!TypeOK
  BY HP!TypeParts, OperatorAssumption DEF Inv, HP!HInv
<1> QED BY <1>1, OneCR DEF HP!TypeOK, HP!Goto, A, W

LEMMA CRWrites ==
    ASSUME NEW view \in HP!Passes, NEW to, NEW then
    PROVE  LET n == HP!Writing(view, to, then) IN
           n.pc = "setPhase" /\ n.cr = view.cr /\ n.pod = view.pod /\ n.to = to /\ n.then = then
BY DEF HP!Writing, HP!Passes

(* No deadline passes here. *)
LEMMA NoDeadline ==
    ASSUME Setting, Inv, Joint, NEW h \in HP!CRRecords, NEW phase
    PROVE  ~HP!phaseDeadlineExceeded(TheCR, h, phase)
<1>1. X = 0 /\ h.ltt \in Nat
  BY DEF Joint, CROK, HP!CRRecords
<1> QED BY <1>1 DEF HP!phaseDeadlineExceeded, X

(* A pass starts on copies that are current. *)
LEMMA CRReconcileKeeps ==
    ASSUME Setting, Inv, Joint, CRSide, HP!Reconcile(TheCR)
    PROVE  Joint'
<1>1. VmOK /\ GenOK /\ CROK /\ IntentOK /\ ViewOK /\ SeenOK
  BY DEF Joint
<1>2. /\ A.pc = "idle" /\ RC = R /\ PC = P /\ ~W' /\ pod' = pod /\ tag' = tag
      /\ R' = R /\ RC' = RC /\ PC' = PC
      /\ A' = IF RC.at = "absent" THEN HP!Idle
              ELSE [HP!Idle EXCEPT !.pc = HP!FirstCall(RC, PC), !.cr = RC, !.pod = PC]
  <2>1. HP!TypeOK
    BY HP!TypeParts, OperatorAssumption DEF Inv, HP!HInv
  <2>2. HP!Idle.pc = "idle"
    BY DEF HP!Idle
  <2> QED BY <2>1, <2>2, OneCR
          DEF HP!Reconcile, HP!CaughtUp, HP!VM, HP!clusterVars, HP!TypeOK, Setting,
              A, R, RC, P, PC, W
<1>3. CASE RC.at = "absent"
  <2>1. A'.pc = "idle" /\ ~Asked'
    BY <1>2, <1>3 DEF HP!Idle, Asked
  <2>2. ViewOK' /\ SeenOK'
    BY <1>2, <2>1 DEF ViewOK, SeenOK, HibPCs
  <2> QED BY <1>2, <2>1, <2>2, CRMoves DEF Joint, SameCR
<1>4. CASE RC.at # "absent"
  <2>1. A'.pc = HP!FirstCall(R, P) /\ A'.cr = R /\ A'.pod = P /\ R.at = "present"
    <3>1. R.at = "present"
      BY <1>1, <1>2, <1>4, CRTypes DEF CROK
    <3> QED BY <1>2, <1>4, <3>1 DEF HP!Idle
  <2>2. /\ A'.pc \in {"addFinalizer", "markPending", "lock"}
        /\ A'.pc = "markPending" => P.at = "absent"
        /\ A'.pc = "lock" => P.at # "absent"
    BY <1>1, <2>1 DEF HP!FirstCall, VmOK
  <2>3. /\ A'.pc = "markPending" => ~OffPin
        /\ ~P.hib /\ P.live => Live
        /\ P.state = "hibernated" => (P.hib => K = "asleep")
        /\ A'.pc = "lock" /\ Asked /\ P.at # "present" => Asleep(P)
    BY <1>1, <2>2, VmTypes DEF VmOK, IntentOK, OffPin, Live
  <2>4. P' = P /\ K' = K /\ cs' = cs /\ place' = place
    BY <1>2 DEF P, CRSide
  <2>5. ViewOK'
    BY <1>2, <2>1, <2>2, <2>3, <2>4 DEF ViewOK, Live, OffPin, Asked, Calm, Asleep, HibPCs
  <2>6. SeenOK'
    BY <1>2, <2>1, <2>2 DEF SeenOK
  <2>7. A'.pod.gen <= cs.gen
    BY <1>1, <2>1 DEF GenOK
  <2> QED BY <1>2, <2>5, <2>6, <2>7, CRMoves DEF Joint, SameCR
<1> QED BY <1>3, <1>4

(* The finalizer is no matter of the set. *)
LEMMA AddFinalizerKeeps ==
    ASSUME Setting, Inv, Joint, CRSide, HP!AddFinalizer(TheCR)
    PROVE  Joint'
<1>1. /\ R' = IF R = A.cr THEN [R EXCEPT !.fin = TRUE] ELSE R
      /\ pod' = pod /\ tag' = tag /\ A'.pc = "idle" /\ W'
  <2>1. HP!Return(TheCR, TRUE)
    BY DEF HP!AddFinalizer
  <2>2. HP!TypeOK
    BY HP!TypeParts, OperatorAssumption DEF Inv, HP!HInv
  <2> QED BY <2>1, <2>2, CRReturns, OneCR DEF HP!AddFinalizer, HP!clusterVars, HP!TypeOK, A, R
<1>2. SameCR
  BY <1>1, CRTypes DEF HP!CRRecords, SameCR
<1>3. ViewOK' /\ SeenOK'
  BY <1>1 DEF ViewOK, SeenOK, HibPCs
<1> QED BY <1>1, <1>2, <1>3, CRMoves DEF Joint

(* Past the lock the pass takes the branch its desire names. *)
LEMMA LockKeeps ==
    ASSUME Setting, Inv, Joint, CRSide, HP!lockVM(TheCR)
    PROVE  Joint'
<1>1. GenOK /\ CROK /\ ViewOK /\ SeenOK
  BY DEF Joint
<1>2. /\ A.pc = "lock" /\ A'.pc = (IF HP!HibernateBranch(A.cr) THEN "hibPatch" ELSE "wakePatch")
      /\ A'.cr = A.cr /\ A'.pod = A.pod /\ A'.to = A.to /\ A'.then = A.then
      /\ pod' = pod /\ tag' = tag /\ R' = R /\ RC' = RC /\ PC' = PC /\ (W' <=> W)
  <2>1. HP!TypeOK
    BY HP!TypeParts, OperatorAssumption DEF Inv, HP!HInv
  <2>2. A' = [A EXCEPT !.pc = IF HP!HibernateBranch(A.cr) THEN "hibPatch" ELSE "wakePatch"]
    BY <2>1, OneCR DEF HP!lockVM, HP!TypeOK, A
  <2>3. /\ pod' = pod /\ tag' = tag /\ R' = R /\ RC' = RC /\ PC' = PC /\ (W' <=> W) /\ A.pc = "lock"
    BY DEF HP!lockVM, HP!clusterVars, R, RC, PC, W, A
  <2> QED BY <2>2, <2>3, CRTypes DEF HP!Passes
<1>3. A'.pc \in {"hibPatch", "wakePatch"} /\ (A'.pc = "hibPatch" <=> R.desire = "Hibernate")
  BY <1>1, <1>2, CRTypes DEF HP!HibernateBranch, CROK, ViewOK
<1>4. P' = P /\ K' = K /\ cs' = cs /\ place' = place
  BY <1>2 DEF P, CRSide
<1>5. ViewOK'
  BY <1>1, <1>2, <1>3, <1>4, CRTypes DEF ViewOK, Live, OffPin, Asked, Calm, Asleep, HibPCs
<1>6. SeenOK'
  BY <1>1, <1>2, <1>3 DEF SeenOK
<1>7. A'.pod.gen <= cs.gen
  BY <1>1, <1>2 DEF GenOK
<1> QED BY <1>2, <1>5, <1>6, <1>7, CRMoves DEF Joint, SameCR

(* The probe of a main that was seen asleep at its stamp. *)
LEMMA CRProbeKeeps ==
    ASSUME Setting, Inv, Joint, CRSide, HP!HasHibernateSnapshot(TheCR)
    PROVE  Joint'
<1>1. VmOK /\ GenOK /\ CROK /\ ViewOK /\ SeenOK
  BY DEF Joint
<1>2. /\ A.pc = "hibProbe" /\ pod' = pod /\ tag' = tag /\ R' = R /\ RC' = RC /\ PC' = PC
      /\ \/ T # "none" /\ HP!Goto(TheCR, HP!Writing(A, "Hibernated", "done"))
         \/ T = "none" /\ HP!Goto(TheCR, HP!Writing(A, "Hibernating", "requeue"))
  <2>1. A.cr \in HP!CRRecords
    BY CRTypes DEF HP!Passes
  <2> QED BY <2>1, NoDeadline, OneCR
          DEF HP!HasHibernateSnapshot, HP!PollHibernate, HP!VM, Setting, A, R, RC, PC, T
<1>3. /\ A'.pc = "setPhase" /\ A'.cr = A.cr /\ A'.pod = A.pod /\ (W' <=> W)
      /\ \/ T # "none" /\ A'.to = "Hibernated" /\ A'.then = "done"
         \/ T = "none" /\ A'.to = "Hibernating" /\ A'.then = "requeue"
  <2>1. A \in HP!Passes
    BY CRTypes
  <2>2. CASE T # "none"
    <3>1. A' = HP!Writing(A, "Hibernated", "done") /\ (W' <=> W)
      BY <1>2, <2>2, CRGoes
    <3> QED BY <2>1, <2>2, <3>1, CRWrites
  <2>3. CASE T = "none"
    <3>1. A' = HP!Writing(A, "Hibernating", "requeue") /\ (W' <=> W)
      BY <1>2, <2>3, CRGoes
    <3> QED BY <2>1, <2>3, <3>1, CRWrites
  <2> QED BY <2>2, <2>3
<1>4. P' = P /\ K' = K /\ cs' = cs /\ place' = place
  BY <1>2 DEF P, CRSide
<1>5. R.desire = "Hibernate" /\ Asked
  BY <1>1, <1>2 DEF ViewOK, Asked
<1>6. T = "none" => P.at = "present" /\ (Asleep(A.pod) => ~P.hib)
  BY <1>1, <1>2, <1>5, VmTypes DEF VmOK, ViewOK, Live, HibPCs, Asleep
<1>7. PhaseOK'
  BY <1>2, <1>3, <1>4, <1>5, <1>6 DEF PhaseOK, Asleep
<1>8. ViewOK'
  BY <1>1, <1>2, <1>3, <1>4, <1>7 DEF ViewOK, Live, HibPCs
<1>9. SeenOK'
  BY <1>1, <1>2, <1>3 DEF SeenOK, Asleep
<1>10. A'.pod.gen <= cs.gen
  BY <1>1, <1>2, <1>3 DEF GenOK
<1> QED BY <1>2, <1>8, <1>9, <1>10, CRMoves DEF Joint, SameCR

(* A wake that has ended drops the tag of a VM that runs. *)
LEMMA CRDropKeeps ==
    ASSUME Setting, Inv, Joint, CRSide, HP!DeleteManifestIfPresent(TheCR)
    PROVE  Joint'
<1>1. VmOK /\ GenOK /\ CROK /\ IntentOK /\ ViewOK /\ RunOK
  BY DEF Joint
<1>2. A.pc = "drop" /\ T' = "none" /\ pod' = pod /\ R' = R /\ A'.pc = "idle"
  <2>1. HP!Return(TheCR, FALSE)
    BY DEF HP!DeleteManifestIfPresent
  <2> QED BY <2>1, CRReturns, OneCR
          DEF HP!DeleteManifestIfPresent, HP!VM, A, R, T, Inv, MP!TypeInv, MP!TypeOK, MP!ClusterTypeOK
<1>3. /\ P' = P /\ K' = K /\ G' = G /\ X' = X /\ cs' = cs /\ place' = place /\ run' = run
      /\ boots' = boots /\ (queued' <=> queued)
  BY <1>2 DEF P, CRSide
<1>4. Live /\ Calm /\ R.at = "present"
  BY <1>1, <1>2 DEF ViewOK
<1>5. R.desire = "Wake" /\ R.phase = "Active"
  BY <1>4 DEF Calm
<1>6. VmOK'
  BY <1>1, <1>2, <1>3, <1>4 DEF VmOK, Live
<1>7. GenOK'
  BY <1>1, <1>2, <1>3 DEF GenOK
<1>8. CROK'
  BY <1>1, <1>2, <1>3 DEF CROK
<1>9. IntentOK'
  BY <1>1, <1>2, <1>3, <1>4, <1>5 DEF IntentOK, OffPin, Asked, Calm, Keeps, Live, Mig, Asleep
<1>10. ViewOK' /\ SeenOK'
  BY <1>2, <1>5 DEF ViewOK, SeenOK, HibPCs, Asked
<1>11. CopyOK => CopyOK'
  BY <1>2, <1>3 DEF CopyOK, HM, Off, Asked, Calm, Keeps, Live
<1>12. StepOK => StepOK'
  BY <1>2, <1>3 DEF StepOK, HM, Off, OffPin, Asked, Calm, Mig, Live
<1>13. RunOK'
  BY <1>1, <1>3, <1>11, <1>12 DEF RunOK
<1> QED BY <1>6, <1>7, <1>8, <1>9, <1>10, <1>13 DEF Joint

(* The informers. *)
LEMMA SyncCRKeeps ==
    ASSUME Setting, Inv, Joint, CRSide, HP!SyncCR(TheCR)
    PROVE  Joint'
<1>1. GenOK /\ ViewOK
  BY DEF Joint
<1>2. pod' = pod /\ tag' = tag /\ R' = R /\ RC' = R /\ A' = A /\ W'
  <2>1. HP!TypeOK
    BY HP!TypeParts, OperatorAssumption DEF Inv, HP!HInv
  <2> QED BY <2>1, OneCR DEF HP!SyncCR, HP!clusterVars, HP!TypeOK, A, R, RC, W
<1>3. P' = P /\ K' = K /\ cs' = cs /\ place' = place
  BY <1>2 DEF P, CRSide
<1>4. ViewOK'
  BY <1>1, <1>2, <1>3 DEF ViewOK, PhaseOK, OffPin, Live, Asked, Calm, Asleep, HibPCs
<1>5. SeenOK'
  BY <1>2 DEF SeenOK
<1>6. A'.pc # "idle" => A'.pod.gen <= cs.gen
  BY <1>1, <1>2 DEF GenOK
<1> QED BY <1>2, <1>4, <1>5, <1>6, CRMoves DEF Joint, SameCR

(* A pod event the predicate drops shows no other state and no other stamp. *)
LEMMA SyncPodKeeps ==
    ASSUME Setting, Inv, Joint, CRSide, HP!SyncPod(Main)
    PROVE  Joint'
<1>1. GenOK /\ ViewOK /\ SeenOK
  BY DEF Joint
<1>2. /\ pod' = pod /\ tag' = tag /\ R' = R /\ RC' = RC /\ A' = A /\ PC' = P
      /\ W' <=> W \/ (HP!podWatchPredicate(PC, P) /\ RC.at # "absent")
  <2>1. HP!TypeOK
    BY HP!TypeParts, OperatorAssumption DEF Inv, HP!HInv
  <2> QED BY <2>1, OneCR DEF HP!SyncPod, HP!hibernationsTargetingPod, HP!clusterVars, HP!TypeOK,
                             A, R, RC, P, PC, W
<1>3. ~HP!podWatchPredicate(PC, P) => P.state = PC.state /\ P.obs = PC.obs /\ P.gen = PC.gen
  BY CRTypes DEF HP!podWatchPredicate, HP!Pods
<1>4. P' = P /\ K' = K /\ cs' = cs /\ place' = place
  BY <1>2 DEF P, CRSide
<1>5. ViewOK'
  BY <1>1, <1>2, <1>4 DEF ViewOK, PhaseOK, OffPin, Live, Asked, Calm, Asleep, HibPCs
<1>6. SeenOK'
  <2>1. RC.at # "absent" /\ ~W' => ~W /\ PC'.state = PC.state /\ PC'.obs = PC.obs /\ PC'.gen = PC.gen
    BY <1>2, <1>3
  <2>2. A.pc # "idle" => RC.at # "absent"
    BY <1>1 DEF ViewOK
  <2> QED BY <1>1, <1>2, <2>1, <2>2 DEF SeenOK, Asked, Asleep
<1>7. A'.pc # "idle" => A'.pod.gen <= cs.gen
  BY <1>1, <1>2 DEF GenOK
<1> QED BY <1>2, <1>5, <1>6, <1>7, CRMoves DEF Joint, SameCR

(* A status patch on a CR that is as the pass read it. *)
LEMMA StatusWritten ==
    ASSUME Setting, Inv, NEW to, HP!WriteStatus(TheCR, to), A.cr = R, R.at # "absent"
    PROVE  /\ R'.at = R.at /\ R'.desire = R.desire /\ R'.gen = R.gen
           /\ R'.phase = to /\ R'.obsGen = R.gen
<1> DEFINE n == HP!NewStatus(R, to, now[TheCR])
<1>1. R \in HP!CRRecords
  BY CRTypes
<1>2. n.phase = to /\ n.obsGen = R.gen
  BY <1>1 DEF HP!NewStatus, HP!CRRecords
<1>3. R' = HP!MergePatch(R, R, n)
  <2>1. HP!TypeOK
    BY HP!TypeParts, OperatorAssumption DEF Inv, HP!HInv
  <2> QED BY <2>1, OneCR DEF HP!WriteStatus, HP!TypeOK, A, R
<1> HIDE DEF n
<1> QED BY <1>1, <1>2, <1>3 DEF HP!MergePatch, HP!CRRecords

(* Pending is written over no intent, and while the main is gone. *)
LEMMA MarkPendingKeeps ==
    ASSUME Setting, Inv, Joint, CRSide, HP!markPending(TheCR)
    PROVE  Joint'
<1>1. VmOK /\ GenOK /\ CROK /\ IntentOK /\ ViewOK /\ SeenOK /\ RunOK
  BY DEF Joint
<1>2. A.pc = "markPending" /\ pod' = pod /\ tag' = tag /\ A'.pc = "idle" /\ W' /\ RC' = RC
  <2>1. HP!Return(TheCR, TRUE)
    BY DEF HP!markPending
  <2> QED BY <2>1, CRReturns DEF HP!markPending, HP!clusterVars, A, RC
<1>3. A.cr = R /\ R.at = "present" /\ ~OffPin
  BY <1>1, <1>2 DEF ViewOK
<1>4. ViewOK' /\ SeenOK'
  BY <1>2 DEF ViewOK, SeenOK, HibPCs
<1>5. CASE HP!markPendingIsNoop(R)
  <2>1. R' = R
    BY <1>3, <1>5 DEF HP!markPending, HP!NoWrite, R, A
  <2> QED BY <1>2, <1>4, <2>1, CRMoves DEF Joint, SameCR
<1>6. CASE ~HP!markPendingIsNoop(R)
  <2>1. /\ R'.at = "present" /\ R'.desire = R.desire /\ R'.gen = R.gen
        /\ R'.phase = "Pending" /\ R'.obsGen = R.gen
    <3>1. HP!WriteStatus(TheCR, "Pending")
      BY <1>3, <1>6 DEF HP!markPending, R, A
    <3> QED BY <1>3, <3>1, StatusWritten
  <2>2. ~Keeps /\ ~Keeps' /\ ~Calm'
    BY <1>6, <2>1 DEF HP!markPendingIsNoop, Keeps, Calm
  <2>3. /\ P' = P /\ T' = T /\ K' = K /\ G' = G /\ X' = X /\ cs' = cs /\ place' = place
        /\ run' = run /\ boots' = boots /\ (queued' <=> queued)
    BY <1>2 DEF P, T, CRSide
  <2>4. R.desire = "Wake" => ~P.hib
    BY <1>1, <1>3, <2>2, CRTypes DEF CROK, IntentOK, Calm, Keeps
  <2>5. VmOK'
    BY <1>1, <2>3 DEF VmOK, Live
  <2>6. GenOK'
    BY <1>1, <1>2, <2>3 DEF GenOK
  <2>7. CROK'
    BY <1>1, <2>1, <2>3 DEF CROK
  <2>8. IntentOK'
    BY <1>1, <1>3, <2>1, <2>2, <2>3, <2>4 DEF IntentOK, OffPin, Asked, Live, Mig, Asleep, Keeps
  <2>9. ASSUME run.pc # "idle" PROVE CopyOK' /\ StepOK'
    <3>1. CopyOK /\ StepOK
      BY <1>1, <2>9 DEF RunOK
    <3>2. ~(Calm /\ P.hib)
      BY <1>1, <1>3 DEF IntentOK
    <3>3. CopyOK'
      BY <1>3, <2>1, <2>2, <2>3, <3>1, <3>2 DEF CopyOK, HM, Off, Asked, Live
    <3>4. StepOK'
      BY <1>3, <2>1, <2>2, <2>3, <3>1 DEF StepOK, HM, Off, OffPin, Asked, Live, Mig
    <3> QED BY <3>3, <3>4
  <2>10. RunOK'
    BY <1>1, <2>3, <2>9 DEF RunOK
  <2> QED BY <1>4, <2>5, <2>6, <2>7, <2>8, <2>10 DEF Joint
<1> QED BY <1>5, <1>6

(* What a phase write does to the CR and its pass. *)
LEMMA SetPhaseEffect ==
    ASSUME Setting, Inv, Joint, HP!setPhase(TheCR)
    PROVE  /\ A.pc = "setPhase" /\ R.at = "present" /\ R'.at = "present"
           /\ R'.desire = R.desire /\ R'.gen = R.gen /\ R'.phase = A.to /\ R'.obsGen = R.gen
           /\ pod' = pod /\ tag' = tag /\ RC' = RC /\ PC' = PC
           /\ A.to = "Active" => A'.pc = "drop" /\ A'.pod = A.pod
           /\ A.to # "Active" => A'.pc = "idle" /\ (W' <=> W \/ A.then # "done")
<1>1. A.pc = "setPhase" /\ pod' = pod /\ tag' = tag /\ RC' = RC /\ PC' = PC
  BY DEF HP!setPhase, HP!clusterVars, A, RC, PC
<1>2. A.cr = R /\ R.at = "present" /\ (A.then = "drop" <=> A.to = "Active")
  BY <1>1 DEF Joint, ViewOK, PhaseOK
<1>3. R'.at = "present" /\ R'.desire = R.desire /\ R'.gen = R.gen /\ R'.phase = A.to /\ R'.obsGen = R.gen
  <2>1. CASE HP!setPhaseIsNoop(R, A.to)
    BY <1>2, <2>1 DEF HP!setPhase, HP!NoWrite, HP!setPhaseIsNoop, R, A
  <2>2. CASE ~HP!setPhaseIsNoop(R, A.to)
    <3>1. HP!WriteStatus(TheCR, A.to)
      BY <1>2, <2>2 DEF HP!setPhase, R, A
    <3> QED BY <1>2, <3>1, StatusWritten
  <2> QED BY <2>1, <2>2
<1>4. CASE A.to = "Active"
  <2>1. HP!Goto(TheCR, [A EXCEPT !.pc = "drop"])
    BY <1>2, <1>4 DEF HP!setPhase, A, R
  <2>2. A' = [A EXCEPT !.pc = "drop"]
    BY <2>1, CRGoes
  <2>3. A \in HP!Passes
    BY CRTypes
  <2> QED BY <1>1, <1>2, <1>3, <1>4, <2>2, <2>3 DEF HP!Passes
<1>5. CASE A.to # "Active"
  <2>1. A.then # "drop"
    BY <1>2, <1>5
  <2>2. \E again \in BOOLEAN : HP!Return(TheCR, again) /\ (again <=> A.then # "done")
    BY <1>2, <2>1 DEF HP!setPhase, A, R
  <2> QED BY <1>1, <1>2, <1>3, <1>5, <2>2, CRReturns
<1> QED BY <1>4, <1>5

(* The phase a pass writes says again who owns the main's transition. *)
LEMMA SetPhaseKeeps ==
    ASSUME Setting, Inv, Joint, CRSide, HP!setPhase(TheCR)
    PROVE  Joint'
<1>1. VmOK /\ GenOK /\ CROK /\ IntentOK /\ ViewOK /\ SeenOK /\ RunOK
  BY DEF Joint
<1>2. /\ A.pc = "setPhase" /\ R.at = "present" /\ R'.at = "present"
      /\ R'.desire = R.desire /\ R'.gen = R.gen /\ R'.phase = A.to /\ R'.obsGen = R.gen
      /\ pod' = pod /\ tag' = tag /\ RC' = RC /\ PC' = PC
      /\ A.to = "Active" => A'.pc = "drop" /\ A'.pod = A.pod
      /\ A.to # "Active" => A'.pc = "idle" /\ (W' <=> W \/ A.then # "done")
  BY SetPhaseEffect
<1>3. /\ P' = P /\ T' = T /\ K' = K /\ G' = G /\ X' = X /\ cs' = cs /\ place' = place
      /\ run' = run /\ boots' = boots /\ (queued' <=> queued)
  BY <1>2 DEF P, T, CRSide
<1>4. PhaseOK /\ RC.at = "present" /\ (~A.pod.hib /\ A.pod.live => Live)
  BY <1>1, <1>2 DEF ViewOK
<1>5. ~Calm /\ (Asked <=> R.desire = "Hibernate") /\ (Asked' <=> Asked)
  BY <1>2, <1>4 DEF PhaseOK, Calm, Asked
<1>6. VmOK'
  BY <1>1, <1>3 DEF VmOK, Live
<1>7. GenOK'
  BY <1>1, <1>2, <1>3 DEF GenOK
<1>8. CROK'
  BY <1>1, <1>2, <1>3, <1>4, CRTypes DEF CROK, PhaseOK
<1>9. A.to = "Active" => Calm' /\ Live /\ ~P.hib /\ P.at = "present" /\ R.desire = "Wake"
  <2>1. A.to = "Active" => Live /\ R.desire = "Wake" /\ R.phase \in {"", "Pending", "Waking", "Hibernated"}
    BY <1>1, <1>4, CRTypes DEF PhaseOK, CROK
  <2>2. A.to = "Active" => ~P.hib /\ P.at = "present"
    BY <1>1, <1>2, <2>1, VmTypes DEF IntentOK, VmOK, Live
  <2> QED BY <1>2, <2>1, <2>2 DEF Calm
<1>10. A.to # "Active" => ~Calm'
  BY <1>2, <1>4 DEF Calm, PhaseOK
<1>11. P.at # "present" => Keeps'
  BY <1>2, <1>4, <1>9 DEF PhaseOK, Keeps
<1>12. IntentOK'
  <2>1. CASE A.to \in {"Hibernating", "Hibernated"}
    <3>1. R.desire = "Hibernate" /\ A.to # "Active" /\ A.to \notin {"", "Pending", "Waking"}
      BY <1>4, <2>1 DEF PhaseOK
    <3> QED BY <1>1, <1>2, <1>3, <1>5, <1>10, <1>11, <3>1 DEF IntentOK, OffPin, Live, Mig, Asleep
  <2>2. CASE A.to = "Waking"
    <3>1. R.desire = "Wake" /\ ~P.hib /\ Keeps' /\ R.phase \in {"", "Pending", "Waking", "Hibernated"}
      BY <1>1, <1>2, <1>4, <2>2, CRTypes DEF PhaseOK, CROK, Keeps
    <3>2. OffPin => T # "none"
      BY <1>1, <1>2, <3>1 DEF IntentOK, Keeps
    <3> QED BY <1>1, <1>2, <1>3, <1>5, <1>10, <2>2, <3>1, <3>2 DEF IntentOK, OffPin, Live, Mig, Asleep
  <2>3. CASE A.to = "Active"
    <3>1. P.state # "hibernated" /\ ~Keeps'
      BY <1>1, <1>2, <1>9, <2>3 DEF VmOK, Live, Keeps
    <3> QED BY <1>1, <1>2, <1>3, <1>5, <1>9, <2>3, <3>1 DEF IntentOK, OffPin, Live, Mig, Asleep
  <2> QED BY <1>4, <2>1, <2>2, <2>3 DEF PhaseOK
<1>13. ViewOK'
  <2>1. CASE A.to = "Active"
    BY <1>2, <1>3, <1>4, <1>9, <2>1 DEF ViewOK, PhaseOK, HibPCs, Live
  <2>2. CASE A.to # "Active"
    BY <1>2, <2>2 DEF ViewOK, HibPCs
  <2> QED BY <2>1, <2>2
<1>14. SeenOK'
  <2>1. CASE A.to = "Active"
    BY <1>2, <2>1 DEF SeenOK
  <2>2. CASE A.to # "Active"
    BY <1>1, <1>2, <2>2 DEF SeenOK, Asleep
  <2> QED BY <2>1, <2>2
<1>15. ASSUME run.pc # "idle" PROVE CopyOK' /\ StepOK'
  <2>1. CopyOK /\ StepOK
    BY <1>1, <1>15 DEF RunOK
  <2>2. CopyOK'
    BY <1>3, <1>5, <1>11, <2>1 DEF CopyOK, HM, Off, Live
  <2>3. Calm' => Live
    BY <1>9, <1>10
  <2>4. StepOK'
    BY <1>3, <1>5, <2>1, <2>3 DEF StepOK, HM, Off, OffPin, Live, Mig
  <2> QED BY <2>2, <2>4
<1>16. RunOK'
  BY <1>1, <1>3, <1>15 DEF RunOK
<1> QED BY <1>6, <1>7, <1>8, <1>12, <1>13, <1>14, <1>16 DEF Joint

(* The hibernate patch: a main seen awake is still awake, and present. *)
LEMMA HibernateKeeps ==
    ASSUME Setting, Inv, Joint, CRSide, HP!reconcileHibernate(TheCR)
    PROVE  Joint'
<1>1. VmOK /\ GenOK /\ CROK /\ IntentOK /\ ViewOK /\ SeenOK /\ RunOK
  BY DEF Joint
<1>2. A.pc = "hibPatch" /\ tag' = tag /\ R' = R /\ RC' = RC /\ PC' = PC
  BY DEF HP!reconcileHibernate, A, R, RC, PC
<1>3. R.desire = "Hibernate" /\ Asked /\ A.cr = R /\ R.at = "present" /\ RC.at = "present" /\ ~Calm
  BY <1>1, <1>2 DEF ViewOK, Asked, Calm
<1>t. A \in HP!Passes /\ P \in HP!Pods /\ A.cr \in HP!CRRecords /\ pod \in [VMs -> HP!Pods]
  <2>1. HP!TypeOK
    BY HP!TypeParts, OperatorAssumption DEF Inv, HP!HInv
  <2> QED BY <1>3, <2>1, CRTypes, OneCR DEF HP!TypeOK, HP!ClusterTypeOK, P
<1>4. CASE ~A.pod.hib /\ P.at = "absent"
  <2>1. pod' = pod /\ HP!Return(TheCR, TRUE)
    <3>1. HP!PodGone(TheCR, TRUE)
      BY <1>4, OneCR, CRTypes DEF HP!PodGone, HP!VM, A, P
    <3> QED BY <3>1 DEF HP!reconcileHibernate
  <2>2. A'.pc = "idle" /\ W'
    BY <2>1, CRReturns
  <2>3. ViewOK' /\ SeenOK'
    BY <2>2 DEF ViewOK, SeenOK, HibPCs
  <2> QED BY <1>2, <2>1, <2>2, <2>3, CRMoves DEF Joint, SameCR
<1>5. CASE A.pod.hib
  <2>1. /\ pod' = pod
        /\ \/ Asleep(A.pod) /\ HP!Goto(TheCR, [A EXCEPT !.pc = "hibProbe"])
           \/ ~Asleep(A.pod) /\ HP!Goto(TheCR, HP!Writing(A, "Hibernating", "requeue"))
    <3>1. ~HP!PodGone(TheCR, TRUE) /\ HP!Answer(TheCR, TRUE) = A.pod
      BY <1>5, CRTypes DEF HP!PodGone, HP!Answer, A
    <3>2. [A EXCEPT !.pod = A.pod] = A
      BY <1>t DEF HP!Passes
    <3> QED BY <1>5, <1>t, <3>1, <3>2, CRTypes, NoDeadline
            DEF HP!reconcileHibernate, HP!HibernateState, HP!PollHibernate, HP!Completed, Asleep, A
  <2>2. P' = P /\ K' = K /\ cs' = cs /\ place' = place
    BY <2>1 DEF P, CRSide
  <2>3. CASE Asleep(A.pod)
    <3>1. A'.pc = "hibProbe" /\ A'.cr = A.cr /\ A'.pod = A.pod /\ (W' <=> W)
      BY <1>t, <2>1, <2>3, CRGoes DEF HP!Passes
    <3>2. ViewOK'
      BY <1>1, <1>2, <1>3, <2>2, <3>1 DEF ViewOK, Live, OffPin, Asked, Asleep, HibPCs
    <3>3. SeenOK'
      BY <1>1, <1>2, <2>3, <3>1 DEF SeenOK, Asleep
    <3>4. A'.pod.gen <= cs.gen
      BY <1>1, <1>2, <3>1 DEF GenOK
    <3> QED BY <1>2, <2>1, <3>2, <3>3, <3>4, CRMoves DEF Joint, SameCR
  <2>4. CASE ~Asleep(A.pod)
    <3>1. /\ A'.pc = "setPhase" /\ A'.cr = A.cr /\ A'.pod = A.pod /\ A'.to = "Hibernating"
          /\ A'.then = "requeue" /\ (W' <=> W)
      <4>1. A' = HP!Writing(A, "Hibernating", "requeue") /\ (W' <=> W)
        BY <2>1, <2>4, CRGoes
      <4> QED BY <1>t, <4>1, CRWrites
    <3>2. P.at = "present"
      BY <1>1, <1>2, <1>3, <2>4 DEF ViewOK, HibPCs
    <3>3. PhaseOK'
      BY <1>2, <1>3, <2>2, <2>4, <3>1, <3>2 DEF PhaseOK, Asleep
    <3>4. ViewOK'
      BY <1>1, <1>2, <1>3, <2>2, <3>1, <3>3 DEF ViewOK, Live, HibPCs
    <3>5. SeenOK'
      BY <3>1 DEF SeenOK
    <3>6. A'.pod.gen <= cs.gen
      BY <1>1, <1>2, <3>1 DEF GenOK
    <3> QED BY <1>2, <2>1, <3>4, <3>5, <3>6, CRMoves DEF Joint, SameCR
  <2> QED BY <2>3, <2>4
<1>6. CASE ~A.pod.hib /\ P.at # "absent"
  <2> DEFINE q == [P EXCEPT !.hib = TRUE]
  <2>1. ~P.hib /\ P.state # "hibernated" /\ P.at = "present"
    BY <1>1, <1>2, <1>3, <1>6, VmTypes DEF ViewOK, IntentOK, Asleep
  <2>2. /\ q \in HP!Pods /\ q.at = P.at /\ q.state = P.state /\ (q.named <=> P.named) /\ q.hib
        /\ (q.restore <=> P.restore) /\ (q.live <=> P.live) /\ q.obs = P.obs /\ q.gen = P.gen
    BY <1>t DEF HP!Pods
  <2>3. /\ pod' = [pod EXCEPT ![Main].hib = TRUE]
        /\ HP!Goto(TheCR, HP!Writing([A EXCEPT !.pod = q], "Hibernating", "requeue"))
    <3>1. ~HP!PodGone(TheCR, TRUE) /\ HP!Answer(TheCR, TRUE) = q
      BY <1>6, OneCR, CRTypes DEF HP!PodGone, HP!Answer, HP!VM, A, P
    <3>2. ~HP!Completed(q)
      BY <2>1, <2>2 DEF HP!Completed
    <3>3. [A EXCEPT !.pod = q].pod = q /\ [A EXCEPT !.pod = q].cr = A.cr
      BY <1>t DEF HP!Passes
    <3> HIDE DEF q
    <3> QED BY <1>6, <1>t, <3>1, <3>2, <3>3, OneCR, NoDeadline
            DEF HP!reconcileHibernate, HP!HibernateState, HP!PollHibernate, HP!VM, A
  <2>4. P' = q
    BY <1>t, <2>3, OneCR DEF P
  <2>5. /\ A'.pc = "setPhase" /\ A'.cr = A.cr /\ A'.pod = q /\ A'.to = "Hibernating"
        /\ A'.then = "requeue" /\ (W' <=> W)
    <3> DEFINE view == [A EXCEPT !.pod = q]
    <3>1. view \in HP!Passes /\ view.pod = q /\ view.cr = A.cr
      BY <1>t, <2>2 DEF HP!Passes
    <3>2. A' = HP!Writing(view, "Hibernating", "requeue") /\ (W' <=> W)
      BY <2>3, CRGoes
    <3> HIDE DEF view
    <3> QED BY <3>1, <3>2, CRWrites
  <2>6. /\ P'.at = "present" /\ P'.state = P.state /\ (P'.named <=> P.named) /\ P'.hib
        /\ (P'.restore <=> P.restore) /\ (P'.live <=> P.live) /\ P'.obs = P.obs /\ P'.gen = P.gen
        /\ A'.pod = P'
    BY <2>1, <2>2, <2>4, <2>5
  <2>7. /\ T' = T /\ K' = K /\ G' = G /\ X' = X /\ cs' = cs /\ place' = place /\ run' = run
        /\ boots' = boots
    BY <1>2 DEF T, CRSide
  <2> HIDE DEF q
  <2>8. VmOK'
    BY <1>1, <2>1, <2>6, <2>7 DEF VmOK, Live
  <2>9. GenOK'
    BY <1>1, <2>6, <2>7 DEF GenOK
  <2>10. CROK'
    BY <1>1, <1>2, <2>7 DEF CROK
  <2>11. IntentOK'
    BY <1>1, <1>2, <1>3, <2>1, <2>6, <2>7 DEF IntentOK, OffPin, Asked, Calm, Live, Mig
  <2>12. PhaseOK'
    BY <1>2, <1>3, <2>1, <2>5, <2>6 DEF PhaseOK, Asleep
  <2>13. ViewOK'
    BY <1>2, <1>3, <2>5, <2>6, <2>12 DEF ViewOK, HibPCs
  <2>14. SeenOK'
    BY <2>5 DEF SeenOK
  <2>15. CopyOK => CopyOK'
    BY <1>2, <1>3, <2>1, <2>6, <2>7 DEF CopyOK, HM, Off, Asked, Calm, Keeps, Live
  <2>16. StepOK => StepOK'
    BY <1>2, <2>1, <2>6, <2>7 DEF StepOK, HM, Off, OffPin, Asked, Calm, Live, Mig
  <2>17. RunOK'
    BY <1>1, <2>7, <2>15, <2>16 DEF RunOK
  <2> QED BY <2>8, <2>9, <2>10, <2>11, <2>13, <2>14, <2>17 DEF Joint
<1> QED BY <1>4, <1>5, <1>6, CRTypes

(* Where a wake goes once the annotation is gone. *)
LEMMA AfterWake ==
    ASSUME Setting, Inv, Joint, NEW view \in HP!Passes, HP!AfterWakePatch(TheCR, view),
           view.cr = R, R.desire = "Wake"
    PROVE  \/ /\ A'.pc = "idle" /\ R.phase = "Active"
           \/ /\ A'.cr = R /\ A'.pod = view.pod
              /\ \/ A'.pc = "drop" /\ R.phase = "Active" /\ view.pod.live
                 \/ /\ A'.pc = "setPhase" /\ R.phase # "Active" /\ view.pod.live
                    /\ A'.to = "Active" /\ A'.then = "drop"
                 \/ /\ A'.pc = "setPhase" /\ R.phase # "Active"
                    /\ A'.to = "Waking" /\ A'.then = "requeue"
<1>1. HP!Settled(view.cr) <=> R.phase = "Active"
  BY DEF HP!Settled, Joint, CROK
<1>2. view.pod.live \in BOOLEAN /\ view.cr \in HP!CRRecords
  BY DEF HP!Passes, HP!Pods
<1>3. CASE view.pod.live /\ R.phase = "Active"
  <2>1. HP!Goto(TheCR, [view EXCEPT !.pc = "drop"])
    BY <1>1, <1>3 DEF HP!AfterWakePatch
  <2>2. A' = [view EXCEPT !.pc = "drop"]
    BY <2>1, CRGoes
  <2> QED BY <1>3, <2>2 DEF HP!Passes
<1>4. CASE view.pod.live /\ R.phase # "Active"
  <2>1. HP!Goto(TheCR, HP!Writing(view, "Active", "drop"))
    BY <1>1, <1>4 DEF HP!AfterWakePatch
  <2>2. A' = HP!Writing(view, "Active", "drop")
    BY <2>1, CRGoes
  <2> QED BY <1>4, <2>2, CRWrites
<1>5. CASE ~view.pod.live /\ R.phase = "Active"
  <2>1. HP!Return(TheCR, FALSE)
    BY <1>1, <1>5 DEF HP!AfterWakePatch
  <2> QED BY <1>5, <2>1, CRReturns
<1>6. CASE ~view.pod.live /\ R.phase # "Active"
  <2>1. HP!Goto(TheCR, HP!Writing(view, "Waking", "requeue"))
    BY <1>1, <1>2, <1>6, NoDeadline DEF HP!AfterWakePatch
  <2>2. A' = HP!Writing(view, "Waking", "requeue")
    BY <2>1, CRGoes
  <2> QED BY <1>6, <2>2, CRWrites
<1> QED BY <1>2, <1>3, <1>4, <1>5, <1>6

(* The wake patch: it takes the annotation of a main the CR put to sleep, and no other. *)
LEMMA WakeKeeps ==
    ASSUME Setting, Inv, Joint, CRSide, HP!reconcileWake(TheCR)
    PROVE  Joint'
<1>1. VmOK /\ GenOK /\ CROK /\ IntentOK /\ ViewOK /\ SeenOK /\ RunOK
  BY DEF Joint
<1>2. A.pc = "wakePatch" /\ tag' = tag /\ R' = R /\ RC' = RC /\ PC' = PC
  BY DEF HP!reconcileWake, A, R, RC, PC
<1>3. R.desire = "Wake" /\ ~Asked /\ A.cr = R /\ R.at = "present" /\ RC.at = "present"
  BY <1>1, <1>2 DEF ViewOK, Asked
<1>4. (HP!Settled(A.cr) <=> R.phase = "Active") /\ (Calm <=> R.phase = "Active")
  BY <1>1, <1>3 DEF HP!Settled, CROK, Calm
<1>t. A \in HP!Passes /\ P \in HP!Pods /\ A.cr \in HP!CRRecords /\ pod \in [VMs -> HP!Pods]
  <2>1. HP!TypeOK
    BY HP!TypeParts, OperatorAssumption DEF Inv, HP!HInv
  <2> QED BY <1>3, <2>1, CRTypes, OneCR DEF HP!TypeOK, HP!ClusterTypeOK, P
<1>g. HP!PodGone(TheCR, FALSE) <=> A.pod.hib /\ P.at = "absent"
  BY OneCR, CRTypes DEF HP!PodGone, HP!VM, A, P
<1>5. CASE A.pod.hib /\ (R.phase = "Active" \/ P.at = "absent")
  <2>1. pod' = pod /\ A'.pc = "idle"
    <3>1. pod' = pod /\ \E again \in BOOLEAN : HP!Return(TheCR, again)
      BY <1>4, <1>5, <1>g DEF HP!reconcileWake, A
    <3> QED BY <3>1, CRReturns
  <2>2. ViewOK' /\ SeenOK'
    BY <1>2, <1>3, <2>1 DEF ViewOK, SeenOK, HibPCs, Asked
  <2> QED BY <1>2, <2>1, <2>2, CRMoves DEF Joint, SameCR
<1>6. CASE ~A.pod.hib
  <2>1. pod' = pod /\ HP!AfterWakePatch(TheCR, A)
    <3>1. HP!Answer(TheCR, FALSE) = A.pod /\ [A EXCEPT !.pod = A.pod] = A
      BY <1>6, <1>t, CRTypes DEF HP!Answer, HP!Passes, A
    <3> QED BY <1>4, <1>6, <1>g, <3>1, CRTypes DEF HP!reconcileWake, HP!HibernateState, A
  <2>2. P' = P /\ K' = K /\ cs' = cs /\ place' = place
    BY <2>1 DEF P, CRSide
  <2>3. \/ /\ A'.pc = "idle" /\ R.phase = "Active"
        \/ /\ A'.cr = R /\ A'.pod = A.pod
           /\ \/ A'.pc = "drop" /\ R.phase = "Active" /\ A.pod.live
              \/ /\ A'.pc = "setPhase" /\ R.phase # "Active" /\ A.pod.live
                 /\ A'.to = "Active" /\ A'.then = "drop"
              \/ /\ A'.pc = "setPhase" /\ R.phase # "Active"
                 /\ A'.to = "Waking" /\ A'.then = "requeue"
    BY <1>3, <1>t, <2>1, AfterWake
  <2>4. A.pod.live => Live
    BY <1>1, <1>2, <1>6 DEF ViewOK
  <2>5. R.phase # "Active" => ~P.hib
    BY <1>1, <1>2, <1>3, <1>4, <1>6 DEF ViewOK
  <2>6. A'.pc = "setPhase" => PhaseOK'
    BY <1>2, <1>3, <1>6, <2>2, <2>3, <2>5 DEF PhaseOK
  <2>7. ViewOK'
    BY <1>2, <1>3, <1>6, <2>2, <2>3, <2>4, <2>6 DEF ViewOK, HibPCs, Live, Calm
  <2>8. SeenOK'
    BY <1>2, <1>3, <2>3 DEF SeenOK, Asked
  <2>9. A'.pc # "idle" => A'.pod.gen <= cs.gen
    BY <1>1, <1>2, <2>3 DEF GenOK
  <2> QED BY <1>2, <2>1, <2>7, <2>8, <2>9, CRMoves DEF Joint, SameCR
<1>7. CASE A.pod.hib /\ R.phase # "Active" /\ P.at # "absent"
  <2> DEFINE q == [P EXCEPT !.hib = FALSE]
             view == [A EXCEPT !.pod = q]
  <2>1. P.hib => K = "asleep" /\ R.phase = "Hibernated"
    BY <1>1, <1>3, <1>7, CRTypes DEF CROK, IntentOK
  <2>2. /\ q \in HP!Pods /\ q.at = P.at /\ q.state = P.state /\ (q.named <=> P.named) /\ ~q.hib
        /\ (q.restore <=> P.restore) /\ (q.live <=> P.live) /\ q.obs = P.obs /\ q.gen = P.gen
    BY <1>t DEF HP!Pods
  <2>3. view \in HP!Passes /\ view.pod = q /\ view.cr = R
    BY <1>3, <1>t, <2>2 DEF HP!Passes
  <2>4. pod' = [pod EXCEPT ![Main].hib = FALSE] /\ HP!AfterWakePatch(TheCR, view)
    <3>1. HP!Answer(TheCR, FALSE) = q
      BY <1>7, OneCR, CRTypes DEF HP!Answer, HP!VM, A, P
    <3> QED BY <1>4, <1>7, <1>g, <3>1, OneCR, CRTypes DEF HP!reconcileWake, HP!HibernateState, HP!VM, A
  <2>5. P' = q
    BY <1>t, <2>4, OneCR DEF P
  <2> HIDE DEF view
  <2>6. /\ A'.cr = R /\ A'.pod = q /\ A'.pc = "setPhase"
        /\ \/ q.live /\ A'.to = "Active" /\ A'.then = "drop"
           \/ A'.to = "Waking" /\ A'.then = "requeue"
    BY <1>3, <1>7, <2>3, <2>4, AfterWake
  <2> HIDE DEF q
  <2>7. /\ P'.at = P.at /\ P'.state = P.state /\ (P'.named <=> P.named) /\ ~P'.hib
        /\ (P'.restore <=> P.restore) /\ (P'.live <=> P.live) /\ P'.obs = P.obs /\ P'.gen = P.gen
        /\ A'.pod = P'
    BY <2>2, <2>5, <2>6
  <2>8. /\ T' = T /\ K' = K /\ G' = G /\ X' = X /\ cs' = cs /\ place' = place /\ run' = run
        /\ boots' = boots
    BY <1>2 DEF T, CRSide
  <2>9. VmOK'
    BY <1>1, <2>1, <2>7, <2>8 DEF VmOK, Live
  <2>10. GenOK'
    BY <1>1, <2>7, <2>8 DEF GenOK
  <2>11. CROK'
    BY <1>1, <1>2, <2>8 DEF CROK
  <2>12. IntentOK'
    BY <1>1, <1>2, <1>3, <2>1, <2>7, <2>8 DEF IntentOK, OffPin, Asked, Calm, Keeps, Live, Mig, Asleep
  <2>13. PhaseOK'
    BY <1>2, <1>3, <1>7, <2>5, <2>6, <2>7 DEF PhaseOK
  <2>14. P.live => Live
    BY <1>1, <2>1, VmTypes DEF VmOK, Live
  <2>15. ViewOK'
    BY <1>2, <1>3, <2>6, <2>7, <2>8, <2>13, <2>14 DEF ViewOK, HibPCs, Live
  <2>16. SeenOK'
    BY <2>6 DEF SeenOK
  <2>17. CopyOK => CopyOK'
    BY <1>2, <1>4, <1>7, <2>7, <2>8 DEF CopyOK, HM, Off, Asked, Calm, Keeps, Live
  <2>18. StepOK => StepOK'
    BY <1>2, <2>7, <2>8 DEF StepOK, HM, Off, OffPin, Asked, Calm, Live, Mig
  <2>19. RunOK'
    BY <1>1, <2>8, <2>17, <2>18 DEF RunOK
  <2> QED BY <2>9, <2>10, <2>11, <2>12, <2>15, <2>16, <2>19 DEF Joint
<1> QED BY <1>5, <1>6, <1>7, CRTypes

-----------------------------------------------------------------------------
(* The user *)

(* The effect of a patient user's edit of the CR, but for the record it leaves. *)
EditFrame ==
    /\ AtRest /\ ~ToMove /\ Settled(TheCR)
    /\ UNCHANGED <<pod, tag, queue, pass, crCache, podCache>>

(* What both edits meet: the set and the CR are at rest, the main is not about to move. *)
LEMMA AtEdit ==
    ASSUME Setting, Inv, Joint, CRSide, EditFrame
    PROVE  /\ ~queued /\ run.pc = "idle" /\ ~Mig /\ P.at = "present" /\ A.pc = "idle" /\ ~W
           /\ RC = R /\ PC = P /\ (OffPin => P.hib)
           /\ R.at = "present" => /\ R.phase = IF R.desire = "Hibernate" THEN "Hibernated" ELSE "Active"
                                  /\ P.hib <=> R.desire = "Hibernate"
           /\ P' = P /\ T' = T /\ A' = A /\ RC' = RC /\ PC' = PC /\ (W' <=> W)
           /\ cs' = cs /\ place' = place /\ run' = run /\ boots' = boots
           /\ K' = K /\ G' = G /\ X' = X /\ (queued' <=> queued)
           /\ VmOK' /\ GenOK' /\ ViewOK' /\ RunOK'
<1>1. /\ ~queued /\ run.pc = "idle" /\ ~Mig /\ P.at = "present" /\ A.pc = "idle" /\ ~W
      /\ R.at = "present" => /\ R.phase = IF R.desire = "Hibernate" THEN "Hibernated" ELSE "Active"
                             /\ P.hib <=> R.desire = "Hibernate"
  BY DEF EditFrame, AtRest, Settled, Mig, P, A, R, W, H!TerminalPhase
<1>2. RC = R /\ PC = P /\ (OffPin => P.hib)
  BY OneCR DEF EditFrame, Settled, Setting, ToMove, OffPin, H!CaughtUp, H!VM, RC, R, PC, P
<1>3. /\ P' = P /\ T' = T /\ A' = A /\ RC' = RC /\ PC' = PC /\ (W' <=> W)
      /\ cs' = cs /\ place' = place /\ run' = run /\ boots' = boots
      /\ K' = K /\ G' = G /\ X' = X /\ (queued' <=> queued)
  BY DEF EditFrame, CRSide, P, T, A, RC, PC, W
<1>4. VmOK /\ GenOK /\ RunOK
  BY DEF Joint
<1>5. VmOK'
  BY <1>3, <1>4 DEF VmOK, Live
<1>6. GenOK'
  BY <1>3, <1>4 DEF GenOK
<1>7. ViewOK'
  BY <1>1, <1>3 DEF ViewOK, HibPCs
<1>8. RunOK'
  BY <1>1, <1>3, <1>4 DEF RunOK
<1> QED BY <1>1, <1>2, <1>3, <1>5, <1>6, <1>7, <1>8

(* A CR is created over a main that runs on its node. *)
LEMMA CreateCRKeeps ==
    ASSUME Setting, Inv, Joint, CRSide, EditFrame, HP!CreateCR(TheCR)
    PROVE  Joint'
<1>1. CROK /\ IntentOK
  BY DEF Joint
<1>2. /\ R.at = "absent" /\ R'.at = "present" /\ R'.desire \in {"Hibernate", "Wake"}
      /\ R'.phase = ""
  <2>1. HP!TypeOK /\ Desires[TheCR] \subseteq {"Hibernate", "Wake"}
    BY HP!TypeParts, OneCR, OperatorAssumption DEF Inv, HP!HInv, H!HibernationAssumption
  <2>2. PICK d \in Desires[TheCR] :
          R' = [HP!NoRecord EXCEPT !.at = "present", !.desire = d, !.gen = 1]
    BY <2>1, OneCR DEF HP!CreateCR, HP!TypeOK, R
  <2>3. R.at = "absent"
    BY DEF HP!CreateCR, R
  <2> QED BY <2>1, <2>2, <2>3 DEF HP!NoRecord
<1>3. Calm /\ Live /\ ~P.hib /\ ~OffPin /\ P.at = "present" /\ ~Mig
  BY <1>1, <1>2, AtEdit DEF IntentOK, Calm
<1>4. P.state # "hibernated"
  BY <1>1, <1>2, <1>3 DEF CROK, IntentOK, Keeps
<1>5. CROK'
  BY <1>1, <1>2, AtEdit DEF CROK
<1>6. /\ P' = P /\ T' = T /\ K' = K /\ cs' = cs /\ place' = place /\ run' = run
      /\ (OffPin' <=> OffPin) /\ (Live' <=> Live) /\ (Mig' <=> Mig)
  BY AtEdit DEF OffPin, Live, Mig
<1>7. ~Calm' /\ ~Keeps'
  BY <1>2 DEF Calm, Keeps
<1>8. IntentOK'
  BY <1>2, <1>3, <1>4, <1>6, <1>7 DEF IntentOK
<1>9. SeenOK'
  BY <1>2, AtEdit DEF SeenOK
<1> QED BY <1>5, <1>8, <1>9, AtEdit DEF Joint

(* A settled desire is reversed: a main that sleeps still has its snapshot, one that runs
   is on its pin. *)
LEMMA EditDesireKeeps ==
    ASSUME Setting, Inv, Joint, CRSide, EditFrame, HP!EditDesire(TheCR)
    PROVE  Joint'
<1>1. VmOK /\ GenOK /\ CROK /\ IntentOK /\ SeenOK
  BY DEF Joint
<1>2. /\ R.at = "present" /\ R'.at = "present" /\ R'.phase = R.phase
      /\ R'.desire \in {"Hibernate", "Wake"} /\ R'.desire # R.desire
  <2>1. HP!TypeOK /\ Desires[TheCR] \subseteq {"Hibernate", "Wake"}
    BY HP!TypeParts, OneCR, OperatorAssumption DEF Inv, HP!HInv, H!HibernationAssumption
  <2>2. PICK d \in Desires[TheCR] \ {R.desire} :
          cr' = [cr EXCEPT ![TheCR].desire = d, ![TheCR].gen = @ + 1]
    BY DEF HP!EditDesire, R
  <2>3. R' = [R EXCEPT !.desire = d, !.gen = @ + 1]
    BY <2>1, <2>2, OneCR DEF HP!TypeOK, R
  <2>4. R.at = "present"
    BY DEF HP!EditDesire, R
  <2>5. R \in HP!CRRecords
    BY CRTypes
  <2> HIDE DEF R
  <2> QED BY <2>1, <2>2, <2>3, <2>4, <2>5 DEF HP!CRRecords
<1>3. /\ P' = P /\ T' = T /\ K' = K /\ cs' = cs /\ place' = place /\ run' = run /\ X' = X
      /\ (queued' <=> queued) /\ A' = A
      /\ (OffPin' <=> OffPin) /\ (Live' <=> Live) /\ (Mig' <=> Mig)
      /\ ~queued /\ run.pc = "idle" /\ ~Mig /\ P.at = "present" /\ A.pc = "idle"
  BY AtEdit DEF OffPin, Live, Mig
<1>4. CASE R.desire = "Hibernate"
  <2>1. R'.desire = "Wake" /\ R.phase = "Hibernated" /\ P.hib
    BY <1>2, <1>4, AtEdit
  <2>2. Asleep(PC) /\ PC = P
    BY <1>1, <1>2, <1>4, <2>1, AtEdit DEF SeenOK, Asked
  <2>3. K = "asleep" /\ P.obs = P.gen
    <3>1. P.state = "hibernated" /\ P.obs >= P.gen /\ P.obs <= P.gen /\ P.obs \in Nat /\ P.gen \in Nat
      BY <1>1, <2>2, VmTypes DEF Asleep, GenOK
    <3>2. P.obs = P.gen
      BY <3>1
    <3> QED BY <1>1, <2>1, <3>1, <3>2 DEF VmOK
  <2>4. T = "fresh"
    BY <1>1, <2>3 DEF VmOK, Live
  <2>5. CROK'
    BY <1>1, <1>2, <1>3, <2>1 DEF CROK
  <2>6. ~Calm' /\ Keeps' /\ ~Asked'
    BY <1>2, <2>1 DEF Calm, Keeps, Asked
  <2>7. IntentOK'
    BY <1>2, <1>3, <2>1, <2>3, <2>4, <2>6 DEF IntentOK
  <2>8. SeenOK'
    BY <1>3, <2>6 DEF SeenOK
  <2> QED BY <2>5, <2>7, <2>8, AtEdit DEF Joint
<1>5. CASE R.desire # "Hibernate"
  <2>1. R'.desire = "Hibernate" /\ R.phase = "Active" /\ ~P.hib /\ ~OffPin
    BY <1>2, <1>5, CRTypes, AtEdit
  <2>2. P.state # "hibernated"
    BY <1>1, <2>1 DEF IntentOK, Keeps
  <2>3. CROK'
    BY <1>1, <1>2, <1>3, <2>1 DEF CROK
  <2>4. ~Calm' /\ ~Keeps'
    BY <1>2, <2>1 DEF Calm, Keeps
  <2>5. IntentOK'
    BY <1>2, <1>3, <2>1, <2>2, <2>4 DEF IntentOK
  <2>6. SeenOK'
    BY <1>2, <1>3, <2>1 DEF SeenOK
  <2> QED BY <2>3, <2>5, <2>6, AtEdit DEF Joint
<1> QED BY <1>4, <1>5

-----------------------------------------------------------------------------
(* The steps together *)

(* A step of the CR's reconciler, informers or user leaves vk-cocoon and the deadlines
   alone. *)
LEMMA CRStepFrame ==
    ASSUME Inv,
           \/ CRReconcile(TheCR) \/ CRStep(TheCR) \/ CRSync(TheCR) \/ CREdit(TheCR) \/ SyncPod
    PROVE  CRSide
<1>1. MP!Watched /\ UNCHANGED <<cs, place, run, boots>>
  BY SetEvents DEF CRReconcile, CRStep, CRSync, CREdit, SyncPod, SetWatches
<1>2. \/ HP!Reconcile(TheCR) \/ HP!PassStep(TheCR) \/ HP!SyncCR(TheCR) \/ HP!CreateCR(TheCR)
      \/ HP!EditDesire(TheCR) \/ HP!SyncPod(Main)
  BY CREvents, CRPasses DEF CRReconcile, CRStep, CRSync, CREdit, SyncPod
<1>3. UNCHANGED <<vk, vkGen, expired>>
  <2>1. CASE HP!PassStep(TheCR)
    BY <2>1 DEF HP!PassStep, HP!AddFinalizer, HP!markPending, HP!lockVM, HP!setPhase,
                HP!reconcileHibernate, HP!HasHibernateSnapshot, HP!reconcileWake,
                HP!DeleteManifestIfPresent, HP!deleteLockVM, HP!listHolders, HP!deleteHeldTag,
                HP!RemoveFinalizer, HP!clusterVars, HP!envVars
  <2>2. CASE \/ HP!Reconcile(TheCR) \/ HP!SyncCR(TheCR) \/ HP!CreateCR(TheCR)
             \/ HP!EditDesire(TheCR) \/ HP!SyncPod(Main)
    BY <2>2 DEF HP!Reconcile, HP!SyncCR, HP!CreateCR, HP!EditDesire, HP!SyncPod,
                HP!clusterVars, HP!envVars
  <2> QED BY <1>2, <2>1, <2>2
<1> QED BY <1>1, <1>3, CRSideFrame

(* A step of the CR's pass: a CR that is never deleted does not take the deletion's. *)
LEMMA CRPassKeeps ==
    ASSUME Setting, Inv, Joint, CRSide, HP!PassStep(TheCR)
    PROVE  Joint'
<1>1. A.pc \notin {"delLock", "delFinalizer", "delList", "delTag"}
  BY DEF Joint, ViewOK
<1>2. ~(HP!deleteLockVM(TheCR) \/ HP!listHolders(TheCR) \/ HP!deleteHeldTag(TheCR)
        \/ HP!RemoveFinalizer(TheCR))
  BY <1>1 DEF HP!deleteLockVM, HP!listHolders, HP!deleteHeldTag, HP!RemoveFinalizer, A
<1> QED BY <1>2, AddFinalizerKeeps, MarkPendingKeeps, LockKeeps, SetPhaseKeeps, HibernateKeeps,
           CRProbeKeeps, WakeKeeps, CRDropKeeps DEF HP!PassStep

(* A step of the CR's side. *)
LEMMA CRSideKeeps ==
    ASSUME Setting, Inv, Joint,
           \/ CRReconcile(TheCR) \/ CRStep(TheCR) \/ CRSync(TheCR) \/ CREdit(TheCR) \/ SyncPod
    PROVE  Joint'
<1>0. CRSide
  BY CRStepFrame
<1>1. CASE CREdit(TheCR)
  <2>1. AtRest /\ ~ToMove /\ Settled(TheCR) /\ (HP!CreateCR(TheCR) \/ HP!EditDesire(TheCR))
    BY <1>1, CREvents DEF CREdit, Setting
  <2>2. UNCHANGED <<pod, tag, queue, pass, crCache, podCache>>
    BY <2>1 DEF HP!CreateCR, HP!EditDesire, HP!EnvStep, HP!passVars, HP!clusterVars
  <2> QED BY <1>0, <2>1, <2>2, CreateCRKeeps, EditDesireKeeps DEF EditFrame
<1>2. CASE CRStep(TheCR)
  BY <1>0, <1>2, CRPasses, CRPassKeeps DEF CRStep
<1>3. CASE CRReconcile(TheCR) \/ CRSync(TheCR) \/ SyncPod
  BY <1>0, <1>3, CREvents, CRReconcileKeeps, SyncCRKeeps, SyncPodKeeps
  DEF CRReconcile, CRSync, SyncPod
<1> QED BY <1>1, <1>2, <1>3

(* A main that runs under a new pod on its pin, and no CR: what the two keep holds. *)
LEMMA JointAtFirst ==
    ASSUME Setting, Init
    PROVE  Joint
<1>1. /\ P = [MP!NewPod(TRUE, FALSE, 1) EXCEPT !.state = "ready", !.obs = 1, !.live = TRUE]
      /\ T = "none" /\ K = "running" /\ G = 1
  BY SetStates, OneCR DEF Init, MP!Running, MP!ClusterInit, P, T, K, G
<1>2. /\ P.at = "present" /\ P.state = "ready" /\ P.named /\ P.live /\ ~P.hib
      /\ P.gen = 1 /\ P.obs = 1
  BY <1>1 DEF MP!NewPod, MP!NoPod
<1>3. /\ boots = "one" /\ place.node # NoNode /\ ~OffPin /\ cs.gen = 1 /\ cs.owed = 0
      /\ cs.phase = "Running"
  <2>1. boots = "one" /\ NoNode \notin Nodes
    BY SetStates, OperatorAssumption DEF Init, MP!Running, M!MigrationAssumption
  <2>2. PICK n \in Nodes, pinned \in BOOLEAN :
          /\ cs = [gen |-> 1, pin |-> IF pinned THEN n ELSE NoNode, phase |-> "Running", owed |-> 0]
          /\ place = [aff |-> cs.pin, node |-> n]
    BY SetStates DEF Init, MP!Running
  <2> QED BY <2>1, <2>2 DEF OffPin
<1>4. run.pc = "idle"
  <2>1. MP!Init
    BY SetStates DEF Init
  <2> QED BY <2>1 DEF MP!Init
<1>5. R = HP!NoRecord /\ A = HP!Idle /\ X = 0
  BY CRStates, OneCR DEF Init, HP!Init, R, A, X
<1>6. R.at = "absent" /\ R.desire = "Wake" /\ R.phase = ""
  BY <1>5 DEF HP!NoRecord
<1>13. A.pc = "idle"
  BY <1>5 DEF HP!Idle
<1>7. Live /\ Calm /\ ~Mig /\ ~Asked /\ ~Keeps
  BY <1>1, <1>3, <1>6 DEF Live, Calm, Mig, Asked, Keeps
<1>8. VmOK
  BY <1>1, <1>2, <1>3, <1>7 DEF VmOK
<1>9. GenOK
  <2>1. K = "running" /\ G = 1
    BY <1>1
  <2> QED BY <1>2, <1>3, <1>13, <2>1 DEF GenOK
<1>10. CROK
  BY <1>5, <1>6 DEF CROK
<1>11. IntentOK
  BY <1>2, <1>3, <1>6, <1>7 DEF IntentOK
<1>12. ViewOK /\ SeenOK /\ RunOK
  BY <1>3, <1>4, <1>7, <1>13 DEF ViewOK, HibPCs, SeenOK, RunOK
<1> QED BY <1>8, <1>9, <1>10, <1>11, <1>12 DEF Joint

(* Every step keeps it. *)
LEMMA JointStep ==
    ASSUME Setting, Inv, Joint, [Next]_vars
    PROVE  Joint'
<1>1. CASE SetReconcile \/ SetStep \/ EditPin \/ Schedule \/ Evict \/ VkActs
  BY <1>1, SetSideKeeps
<1>2. CASE SyncPod \/ \E c \in CRs : CRReconcile(c) \/ CRStep(c) \/ CRSync(c) \/ CREdit(c)
  <2>1. \/ CRReconcile(TheCR) \/ CRStep(TheCR) \/ CRSync(TheCR) \/ CREdit(TheCR) \/ SyncPod
    <3>1. ASSUME NEW c \in CRs, CRReconcile(c) \/ CRStep(c) \/ CRSync(c) \/ CREdit(c)
          PROVE  CRReconcile(TheCR) \/ CRStep(TheCR) \/ CRSync(TheCR) \/ CREdit(TheCR)
      <4>1. c = TheCR
        BY OneCR
      <4> QED BY <3>1, <4>1
    <3> QED BY <1>2, <3>1
  <2> QED BY <2>1, CRSideKeeps
<1>3. CASE UNCHANGED vars
  <2>1. UNCHANGED <<pod, tag, vk, vkGen, cs, place, queued, run, boots>> /\ UNCHANGED crVars
    BY <1>3 DEF vars, setVars
  <2>2. R' = R /\ A' = A /\ X' = X
    BY <2>1, CRFrame
  <2>3. CRSide /\ SameCR /\ pod' = pod /\ tag' = tag
    BY <2>1, <2>2, VmFrame DEF CRSide, SameCR
  <2>4. VmOK' /\ CROK' /\ IntentOK' /\ RunOK' /\ GenOK'
    BY <2>2, <2>3, CRMoves DEF Joint, GenOK
  <2>5. ViewOK' /\ SeenOK'
    BY <2>1, PassFrame
  <2> QED BY <2>4, <2>5 DEF Joint
<1> QED BY <1>1, <1>2, <1>3 DEF Next

-----------------------------------------------------------------------------
(* The refinement of VMState *)

(* The VM runs on the state, or the tag holds it. *)
HomeOK ==
    /\ Live => M!Home = place.node /\ M!Home \in Nodes
    /\ ~Live => M!Home = Registry

(* The invariant leaves no other place. *)
LEMMA HomeCases == Inv /\ Joint => HomeOK
<1> SUFFICES ASSUME Inv, Joint PROVE HomeOK
  OBVIOUS
<1>1. M!Home = IF boots = "none" THEN Unborn
               ELSE IF T = "fresh" THEN Registry
               ELSE IF Live /\ boots = "one" THEN place.node
               ELSE NoNode
  BY DEF M!Home, T, K, Live
<1>2. place.node \in Nodes \cup {NoNode}
  BY SetTypes DEF MP!Places, MP!Pins
<1> QED BY <1>1, <1>2 DEF Joint, VmOK, Live, HomeOK

(* A running VM stays on its node: only a main without one is placed. *)
LEMMA StaysOnNode ==
    ASSUME Setting, Inv, VmOK, VmOK', [Next]_vars, Live, Live'
    PROVE  place'.node = place.node
<1>1. K # "off" /\ K' # "off" /\ place.node # NoNode /\ P.at # "absent" /\ P'.at # "absent"
  BY DEF VmOK, Live
<1>2. CASE SetStep
  <2>1. MP!PassStep(podsHibernatedByCR, podsTrackedByHibernationCR, podsRestorableByCR)
    BY <1>2, SetPasses DEF SetStep
  <2>2. pod[Main].at # "absent"
    BY <1>1 DEF P
  <2>3. place' = place
    BY <2>1, <2>2
    DEF MP!PassStep, MP!syncCocoonSetGeneration, MP!RecreateUnscheduled, MP!SkipClaimed,
        MP!HasHibernateSnapshot, MP!startMigration, MP!Quiesce, MP!SkipTracked, MP!DeleteManifest,
        MP!DeleteOld, MP!RestoreMain, MP!WakeInPlace, MP!markMigrating, MP!applyUnsuspend,
        MP!ClearHibernate, MP!reclaimSnapshots, MP!forgetReclaim, MP!markRestoreFromIntent,
        MP!createMainAgent, MP!WriteStatus, MP!PodNotFound, MP!PodUnchanged, MP!PatchMain,
        MP!CreateMain
  <2> QED BY <2>3
<1>3. CASE SetReconcile \/ EditPin \/ Evict
  BY <1>3, SetEvents DEF SetReconcile, EditPin, Evict, MP!Reconcile, MP!EditPin, MP!Evict
<1>4. CASE Schedule
  BY <1>1, <1>4, SetEvents DEF Schedule, MP!Schedule
<1>5. CASE VkActs
  BY <1>1, <1>5, SetVk DEF VkActs, MP!VkActs, P
<1>6. CASE SyncPod \/ \E c \in CRs : CRReconcile(c) \/ CRStep(c) \/ CRSync(c) \/ CREdit(c)
  BY <1>6, CRSteps
<1>7. CASE UNCHANGED vars
  BY <1>7 DEF vars, setVars
<1> QED BY <1>2, <1>3, <1>4, <1>5, <1>6, <1>7 DEF Next

(* So a step that moves the state is a push that lands or a VM that runs again. *)
LEMMA StateMoves ==
    ASSUME Setting, Inv, Joint, Joint', HomeOK, HomeOK', [Next]_vars
    PROVE  [M!State!Next]_(M!Home)
<1>1. Live /\ Live' => place'.node = place.node
  BY StaysOnNode DEF Joint
<1> QED BY <1>1 DEF HomeOK, M!State!Next, M!State!Save, M!State!Restore

(* The two reconcilers never lose the main's live state to each other, for any nodes, any
   number of pin edits, desire edits, evictions and of VMs' generations: from the first
   boot on it is on the main's node or in the registry, and only a push and a restore or
   a wake move it.  One CR targets the main, edits wait until both have settled, a pass
   reads a cache that is current, and a push outlasts the passes that run when it starts. *)
THEOREM LiveStateIsKeptJointly ==
    ASSUME Setting
    PROVE  Spec => KeepsLiveState
<1>1. Init => Inv /\ Joint
  BY TypesAtFirst, JointAtFirst
<1>2. Inv /\ Joint /\ [Next]_vars => Inv' /\ Joint'
  BY TypesKept, JointStep
<1>3. Inv /\ Joint => HomeOK
  BY HomeCases
<1>4. Init => M!State!Init
  <2> SUFFICES ASSUME Init PROVE M!State!Init
    OBVIOUS
  <2>1. K = "running"
    BY SetStates, OneCR DEF Init, MP!Running, MP!ClusterInit, K
  <2> QED BY <1>1, <1>3, <2>1 DEF Live, HomeOK, M!State!Init
<1>5. Inv /\ Joint /\ Joint' /\ HomeOK /\ HomeOK' /\ [Next]_vars => [M!State!Next]_(M!Home)
  BY StateMoves
<1> QED BY <1>1, <1>2, <1>3, <1>4, <1>5, PTL DEF Spec, KeepsLiveState, M!KeepsLiveState, M!State!Spec

-----------------------------------------------------------------------------
(* The gap between two pods *)

(* Only two calls of a pass write the phase. *)
LEMMA PhaseWriters ==
    ASSUME Setting, Inv, Joint, HP!PassStep(TheCR), R'.phase # R.phase
    PROVE  HP!markPending(TheCR) \/ HP!setPhase(TheCR)
<1>1. A.pc \notin {"delLock", "delFinalizer", "delList", "delTag"}
  BY DEF Joint, ViewOK
<1>2. ~(HP!deleteLockVM(TheCR) \/ HP!listHolders(TheCR) \/ HP!deleteHeldTag(TheCR)
        \/ HP!RemoveFinalizer(TheCR))
  BY <1>1 DEF HP!deleteLockVM, HP!listHolders, HP!deleteHeldTag, HP!RemoveFinalizer, A
<1>3. ~HP!AddFinalizer(TheCR)
  <2>1. HP!TypeOK
    BY HP!TypeParts, OperatorAssumption DEF Inv, HP!HInv
  <2>2. ASSUME HP!AddFinalizer(TheCR) PROVE R' = IF R = A.cr THEN [R EXCEPT !.fin = TRUE] ELSE R
    BY <2>1, <2>2, OneCR DEF HP!AddFinalizer, HP!TypeOK, A, R
  <2> QED BY <2>2, CRTypes DEF HP!CRRecords
<1>4. ASSUME \/ HP!lockVM(TheCR) \/ HP!reconcileHibernate(TheCR) \/ HP!reconcileWake(TheCR)
             \/ HP!HasHibernateSnapshot(TheCR) \/ HP!DeleteManifestIfPresent(TheCR)
      PROVE  R' = R
  BY <1>4 DEF HP!lockVM, HP!reconcileHibernate, HP!reconcileWake, HP!HasHibernateSnapshot,
              HP!DeleteManifestIfPresent, R
<1> QED BY <1>2, <1>3, <1>4 DEF HP!PassStep

(* A pass that is about to write anything but an intent over an intent has seen the pod,
   or the VM runs. *)
LEMMA GapStep ==
    ASSUME Setting, Inv, Joint, [Next]_vars, Keeps, T = "fresh", P.at = "absent", R'.at # "absent"
    PROVE  Keeps'
<1>1. CASE SetReconcile \/ SetStep \/ EditPin \/ Schedule \/ Evict \/ VkActs
  BY <1>1, SetSteps, CRFrame DEF Keeps
<1>2. CASE UNCHANGED vars
  BY <1>2, CRFrame DEF vars, Keeps
<1>3. CASE SyncPod \/ CRReconcile(TheCR) \/ CRSync(TheCR)
  BY <1>3, CREvents
  DEF SyncPod, CRReconcile, CRSync, HP!SyncPod, HP!Reconcile, HP!SyncCR, R, Keeps
<1>4. CASE CREdit(TheCR)
  <2>1. P.at = "present"
    BY <1>4 DEF CREdit, Setting, AtRest, P
  <2> QED BY <2>1
<1>5. CASE CRStep(TheCR)
  <2>1. HP!PassStep(TheCR)
    BY <1>5, CRPasses DEF CRStep
  <2>2. CASE HP!markPending(TheCR)
    <3>1. A.cr = R
      BY <2>2 DEF Joint, ViewOK, HP!markPending, A
    <3>2. HP!markPendingIsNoop(pass[TheCR].cr)
      BY <3>1 DEF HP!markPendingIsNoop, Keeps, A
    <3> QED BY <2>2, <3>2 DEF HP!markPending, HP!NoWrite, R, Keeps
  <2>3. CASE HP!setPhase(TheCR)
    <3>1. A.pc = "setPhase" /\ R'.phase = A.to
      BY <2>3, SetPhaseEffect
    <3>2. PhaseOK /\ (~A.pod.hib /\ A.pod.live => Live)
      BY <3>1 DEF Joint, ViewOK
    <3>3. ~Live
      BY DEF Joint, VmOK
    <3> QED BY <3>1, <3>2, <3>3 DEF PhaseOK, Keeps
  <2> QED BY <2>1, <2>2, <2>3, PhaseWriters DEF Keeps
<1>6. ASSUME NEW c \in CRs, CRReconcile(c) \/ CRStep(c) \/ CRSync(c) \/ CREdit(c)
      PROVE  CRReconcile(TheCR) \/ CRStep(TheCR) \/ CRSync(TheCR) \/ CREdit(TheCR)
  <2>1. c = TheCR
    BY OneCR
  <2> QED BY <1>6, <2>1
<1> QED BY <1>1, <1>2, <1>3, <1>4, <1>5, <1>6 DEF Next

(* While the snapshot is the only copy of the VM and its pod is missing, after an eviction
   or in the middle of a migration, the CR keeps the phase that makes the set restore the
   new pod: no Pending and no write of a pass that started before the gap replaces it, for
   any constants of the setting of LiveStateIsKeptJointly. *)
THEOREM IntentSurvivesGap ==
    ASSUME Setting
    PROVE  Spec => KeepsIntentThroughGap
<1> DEFINE Step ==
      \A c \in CRs : /\ cr[c].phase \in {"Hibernated", "Waking"} /\ tag[H!VM(c)] = "fresh"
                     /\ pod[H!VM(c)].at = "absent" /\ cr'[c].at # "absent"
                     => cr'[c].phase \in {"Hibernated", "Waking"}
<1>1. Init => Inv /\ Joint
  BY TypesAtFirst, JointAtFirst
<1>2. Inv /\ Joint /\ [Next]_vars => Inv' /\ Joint'
  BY TypesKept, JointStep
<1>3. Inv /\ Joint /\ [Next]_vars => Step
  <2> SUFFICES ASSUME Inv, Joint, [Next]_vars, NEW c \in CRs,
                      cr[c].phase \in {"Hibernated", "Waking"}, tag[H!VM(c)] = "fresh",
                      pod[H!VM(c)].at = "absent", cr'[c].at # "absent"
               PROVE  cr'[c].phase \in {"Hibernated", "Waking"}
    OBVIOUS
  <2>1. c = TheCR /\ H!VM(c) = Main
    BY OneCR DEF H!VM
  <2>2. Keeps /\ T = "fresh" /\ P.at = "absent" /\ R'.at # "absent"
    BY <2>1 DEF Keeps, T, P, R
  <2>3. Keeps'
    BY <2>2, GapStep
  <2> QED BY <2>1, <2>3 DEF Keeps, R
<1> QED BY <1>1, <1>2, <1>3, PTL DEF Spec, KeepsIntentThroughGap, H!KeepsIntentThroughGap
=============================================================================
