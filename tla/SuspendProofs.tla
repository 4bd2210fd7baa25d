--------------------------- MODULE SuspendProofs ---------------------------
(* Proofs about Suspend: type correctness, that a deleted set leaves nothing behind, and
   that rounds of suspend and un-suspend lose no tag and no state. *)
EXTENDS Suspend, ClusterProofs

-----------------------------------------------------------------------------
(* Types, and what a pass's copy of the set has in common with the set *)

Closed(r) == r.restore \cup r.suspended \subseteq r.vms

DeletePCs == {"stashAll", "teardown", "gc"}

(* Only passes write annotations and status, and there is one pass at a time: between
   its calls its copy differs from the set in nothing but what the user edits. *)
Tracks ==
    /\ view.reclaim = cs.reclaim /\ view.names = cs.names /\ view.listed = cs.listed
    /\ view.gen <= cs.gen
    /\ cs.at # "gone"
    /\ pc \in DeletePCs => cs.at # "live"

SetInv == /\ cs \in Sets /\ view \in Sets
          /\ Closed(cs.reclaim)
          /\ pc # "idle" => Tracks

PassInv ==
    /\ overdue \in BOOLEAN /\ queued \in BOOLEAN
    /\ pc \in PCs /\ seen \in [VMs -> Pods]
    /\ todo \in SUBSET VMs /\ slot \in VMs /\ mark \in BOOLEAN /\ got \in SUBSET VMs
    /\ last \in [phase : Phases \cup {""}, again : BOOLEAN]
    /\ bad \in BOOLEAN /\ changed \in BOOLEAN
    /\ excused \in SUBSET VMs /\ left \in 0..MaxDeletes

SuspendInv == ClusterTypeOK /\ SetInv /\ PassInv

LEMMA SuspendTypes == SuspendInv => TypeOK
BY DEF SuspendInv, SetInv, PassInv, TypeOK, Closed

(* What a reconcile request leaves of the queue. *)
LEMMA WatchType == ASSUME queued \in BOOLEAN, NEW again, Watch(again) PROVE queued' \in BOOLEAN
BY DEF Watch

LEMMA WatchedType == ASSUME queued \in BOOLEAN, Watched PROVE queued' \in BOOLEAN
BY DEF Watched, Watch

LEMMA MainIsVM == Main \in VMs /\ Subs \subseteq VMs /\ Toolboxes \subseteq VMs
BY SuspendAssumption

(* Every record a pass computes is a record of its set's VMs. *)
LEMMA RecordType ==
    ASSUME NEW c \in Sets, Closed(c.reclaim), NEW r \in Reclaims, Closed(r)
    PROVE  /\ [c EXCEPT !.reclaim = r] \in Sets
           /\ NoReclaim \in Reclaims /\ Closed(NoReclaim)
           /\ [c EXCEPT !.reclaim = r].reclaim = r
           /\ [c EXCEPT !.reclaim = r].gen = c.gen
           /\ [c EXCEPT !.reclaim = r].at = c.at
           /\ [c EXCEPT !.reclaim = r].names = c.names
           /\ [c EXCEPT !.reclaim = r].listed = c.listed
<1>1. NoReclaim \in Reclaims /\ Closed(NoReclaim)
  BY ClusterAssumption DEF NoReclaim, Reclaims, Closed, Generations
<1> QED BY <1>1 DEF Sets

(* A step that writes neither the set nor the pass's copy of it. *)
LEMMA SetKept ==
    ASSUME SetInv, UNCHANGED <<cs, view>>, pc # "idle", pc' \in DeletePCs => pc \in DeletePCs
    PROVE  SetInv'
BY DEF SetInv, Tracks, DeletePCs

(* A patch of the set that leaves the spec alone. *)
LEMMA SetPatched ==
    ASSUME SetInv, NEW needed, NEW c \in Sets, PatchSet(needed, c), Closed(c.reclaim),
           c.gen = cs.gen, c.at = cs.at, pc # "idle", pc' \in DeletePCs => pc \in DeletePCs
    PROVE  SetInv'
<1>1. c.gen \in Nat
  BY DEF Sets, Generations
<1>2. CASE needed
  BY <1>1, <1>2 DEF SetInv, Tracks, PatchSet, DeletePCs
<1>3. CASE ~needed
  BY <1>3 DEF SetInv, Tracks, PatchSet, DeletePCs
<1> QED BY <1>2, <1>3

(* writeHibernateReclaim leaves the record it was given, or none. *)
LEMMA ReclaimWritten ==
    ASSUME SetInv, NEW r \in Reclaims, Closed(r), writeHibernateReclaim(r),
           pc # "idle", pc' \in DeletePCs => pc \in DeletePCs
    PROVE  /\ SetInv'
           /\ cs'.reclaim = (IF r.vms = {} THEN NoReclaim ELSE r)
           /\ cs'.at = cs.at /\ cs'.gen = cs.gen /\ cs'.suspend = cs.suspend
           /\ cs'.names = cs.names /\ cs'.listed = cs.listed /\ cs'.phase = cs.phase
           /\ view' \in {view, cs'}
<1> DEFINE value == IF r.vms = {} THEN NoReclaim ELSE r
<1>1. value \in Reclaims /\ Closed(value)
  BY RecordType DEF SetInv
<1>2. PatchSet(view.reclaim # value, [cs EXCEPT !.reclaim = value])
  BY DEF writeHibernateReclaim
<1>3. view.reclaim = cs.reclaim
  BY DEF SetInv, Tracks
<1> HIDE DEF value
<1>4. /\ [cs EXCEPT !.reclaim = value] \in Sets
      /\ [cs EXCEPT !.reclaim = value].reclaim = value
      /\ [cs EXCEPT !.reclaim = value].gen = cs.gen
      /\ [cs EXCEPT !.reclaim = value].at = cs.at
      /\ [cs EXCEPT !.reclaim = value].names = cs.names
      /\ [cs EXCEPT !.reclaim = value].listed = cs.listed
      /\ [cs EXCEPT !.reclaim = value].suspend = cs.suspend
      /\ [cs EXCEPT !.reclaim = value].phase = cs.phase
  BY <1>1, RecordType DEF SetInv, Sets
<1>5. SetInv'
  BY <1>1, <1>2, <1>4, SetPatched
<1>6. cs'.reclaim = value
  BY <1>2, <1>3, <1>4 DEF PatchSet
<1>7. /\ cs'.at = cs.at /\ cs'.gen = cs.gen /\ cs'.suspend = cs.suspend
      /\ cs'.names = cs.names /\ cs'.listed = cs.listed /\ cs'.phase = cs.phase
      /\ view' \in {view, cs'}
  BY <1>2, <1>4 DEF PatchSet
<1> QED BY <1>5, <1>6, <1>7 DEF value

(* A patch of a pod keeps the pods and the pass's copies well typed. *)
LEMMA PodPatched ==
    ASSUME pod \in [VMs -> Pods], seen \in [VMs -> Pods], NEW v \in VMs, NEW q \in Pods,
           NEW needed, PatchPod(v, needed, q)
    PROVE  pod' \in [VMs -> Pods] /\ seen' \in [VMs -> Pods]
<1>1. [q EXCEPT !.at = seen[v].at] \in Pods
  BY DEF Pods
<1> QED BY <1>1 DEF PatchPod

(* A deletion marks a pod that is there and touches no other one. *)
LEMMA DeletedPods ==
    ASSUME pod \in [VMs -> Pods], NEW v \in VMs, pod' = Deleted(v)
    PROVE  /\ pod' \in [VMs -> Pods]
           /\ \A w \in VMs : w # v => pod'[w] = pod[w]
           /\ pod[v].at = "present" => /\ pod'[v] = [pod[v] EXCEPT !.at = "terminating"]
                                      /\ pod'[v].at = "terminating"
           /\ pod[v].at # "present" => pod'[v] = pod[v]
           /\ pod'[v].at # "present"
           /\ (pod'[v].at = "absent") <=> (pod[v].at = "absent")
           /\ pod'[v].hib = pod[v].hib /\ pod'[v].state = pod[v].state
           /\ pod'[v].live = pod[v].live
<1>1. pod' = [pod EXCEPT ![v] = [pod[v] EXCEPT !.at = IF @ = "present" THEN "terminating" ELSE @]]
  BY DEF Deleted
<1>2. pod[v] \in Pods /\ pod'[v] = [pod[v] EXCEPT !.at = IF @ = "present" THEN "terminating" ELSE @]
  BY <1>1
<1>3. \A w \in VMs : w # v => pod'[w] = pod[w]
  BY <1>1
<1>4. CASE pod[v].at = "present"
  <2>1. pod'[v] = [pod[v] EXCEPT !.at = "terminating"]
    BY <1>2, <1>4
  <2>2. [pod[v] EXCEPT !.at = "terminating"] \in Pods
    BY <1>2, PodRecordType
  <2>3. /\ [pod[v] EXCEPT !.at = "terminating"].at = "terminating"
        /\ [pod[v] EXCEPT !.at = "terminating"].hib = pod[v].hib
        /\ [pod[v] EXCEPT !.at = "terminating"].state = pod[v].state
        /\ [pod[v] EXCEPT !.at = "terminating"].live = pod[v].live
    BY <1>2 DEF Pods
  <2> QED BY <1>1, <1>3, <1>4, <2>1, <2>2, <2>3
<1>5. CASE pod[v].at # "present"
  <2>1. pod'[v] = pod[v]
    BY <1>2, <1>5 DEF Pods
  <2> QED BY <1>1, <1>2, <1>3, <1>5, <2>1
<1> QED BY <1>4, <1>5

(* The cluster stays well typed. *)
LEMMA ClusterStep == SuspendInv /\ [Next]_vars => ClusterTypeOK'
<1> SUFFICES ASSUME SuspendInv, [Next]_vars PROVE ClusterTypeOK'
  OBVIOUS
<1> USE DEF SuspendInv
<1>0. /\ view.gen \in Generations /\ slot \in VMs /\ mark \in BOOLEAN
      /\ pod \in [VMs -> Pods] /\ seen \in [VMs -> Pods]
  BY DEF SetInv, Sets, PassInv, ClusterTypeOK
<1>1. CASE UNCHANGED clusterVars
  BY <1>1 DEF clusterVars, ClusterTypeOK
<1>2. CASE \/ DropWoken
           \/ \E v \in VMs : DeleteManifestIfPresent(v) \/ CollectTag(v)
  BY <1>2, MainIsVM DEF DropWoken, DeleteManifestIfPresent, CollectTag, ClusterTypeOK
<1>3. CASE ProbeFails \/ Abandon \/ \E v \in VMs : DeleteFails(v)
  BY <1>3, ClusterAssumption DEF ProbeFails, Abandon, DeleteFails, ClusterTypeOK
<1>4. ASSUME NEW v \in VMs,
             ReleaseSlot(v) \/ triagePod(v) \/ DeleteOwned(v) \/ DeletePod(v)
      PROVE  ClusterTypeOK'
  <2>1. pod' = Deleted(v) \/ pod' = pod
    BY <1>4 DEF ReleaseSlot, triagePod, DeleteOwned, DeletePod
  <2>2. pod' \in [VMs -> Pods]
    BY <1>0, <2>1, DeletedPods
  <2> QED BY <1>4, <2>2 DEF ReleaseSlot, triagePod, DeleteOwned, DeletePod, ClusterTypeOK
<1>5. ASSUME NEW v \in VMs,
             syncCocoonSetGeneration(v) \/ HibernateState(v) \/ ClearHibernate(v)
      PROVE  ClusterTypeOK'
  <2>1. \E needed \in BOOLEAN, q \in Pods : PatchPod(v, needed, q)
    BY <1>0, <1>5, PodRecordType DEF syncCocoonSetGeneration, HibernateState, ClearHibernate, PatchPod
  <2>2. pod' \in [VMs -> Pods]
    BY <1>0, <2>1, PodPatched
  <2> QED BY <1>5, <2>2 DEF syncCocoonSetGeneration, HibernateState, ClearHibernate, ClusterTypeOK
<1>6. CASE CreatePod
  <2>1. NewPod(TRUE, mark, view.gen) \in Pods
    BY <1>0, PodRecordType
  <2> QED BY <1>0, <1>6, <2>1 DEF CreatePod, ClusterTypeOK
<1>7. ASSUME NEW v \in VMs, VkActs(v) \/ VkFails(v) PROVE ClusterTypeOK'
  BY <1>7, VkStepType DEF VkActs, VkFails
<1>8. CASE \/ Branch \/ WriteStatus \/ applySuspend \/ pollSuspend \/ clearSuspendDeadline
           \/ StashReleased \/ StashHint \/ startReleasedWake \/ PersistWaking
           \/ ClearHint \/ confirmReleasedDelete \/ applyUnsuspend \/ ForgetSuspended
           \/ EndReclaim \/ reclaimUnrestoredForks \/ EndForks \/ EndSubs \/ EndToolboxes
           \/ reconcileDelete \/ RemoveFinalizer \/ EndLoop
           \/ Reconcile \/ EditSpec \/ DeleteSet \/ DeadlinePasses
           \/ \E v \in VMs : allOwnedPodsHibernated(v) \/ markRestoreFromIntent(v) \/ PodNotFound(v)
  <2>1. UNCHANGED clusterVars
    BY <1>8 DEF Branch, WriteStatus, applySuspend, pollSuspend, clearSuspendDeadline,
         StashReleased, StashHint, startReleasedWake, PersistWaking, ClearHint,
         confirmReleasedDelete, applyUnsuspend, ForgetSuspended, EndReclaim,
         reclaimUnrestoredForks, EndForks, EndSubs, EndToolboxes, reconcileDelete,
         RemoveFinalizer, EndLoop, Reconcile, EditSpec, DeleteSet, DeadlinePasses,
         allOwnedPodsHibernated, markRestoreFromIntent, PodNotFound
  <2> QED BY <2>1, <1>1
<1>9. CASE UNCHANGED vars
  BY <1>1, <1>9 DEF vars
<1> QED BY <1>2, <1>3, <1>4, <1>5, <1>6, <1>7, <1>8, <1>9 DEF Next, PassStep

(* The set and the pass's copy of it stay well typed and in step. *)
LEMMA SetStep == SuspendInv /\ [Next]_vars => SetInv'
<1> SUFFICES ASSUME SuspendInv, [Next]_vars PROVE SetInv'
  OBVIOUS
<1> USE DEF SuspendInv
<1>0. /\ cs \in Sets /\ view \in Sets /\ Closed(cs.reclaim)
      /\ got \in SUBSET VMs
      /\ pc # "idle" => Tracks
  BY DEF SetInv, PassInv
<1>a. cs.reclaim \in Reclaims /\ cs.gen \in Nat /\ cs.gen \in Generations
  BY <1>0, ClusterAssumption DEF Sets, Generations
<1>b. allByName \in SUBSET VMs /\ owned \in SUBSET VMs /\ hibernated \in SUBSET VMs
  BY DEF allByName, owned, hibernated
<1>c. ASSUME pc # "idle" PROVE view.reclaim = cs.reclaim /\ view.names = cs.names /\ view.listed = cs.listed
  BY <1>0, <1>c DEF Tracks
<1>1. CASE \/ Branch \/ DropWoken \/ confirmReleasedDelete
           \/ reclaimUnrestoredForks \/ EndSubs \/ EndToolboxes \/ CreatePod \/ EndLoop
           \/ ProbeFails \/ Abandon
           \/ \E v \in VMs :
                \/ syncCocoonSetGeneration(v) \/ HibernateState(v) \/ allOwnedPodsHibernated(v)
                \/ ReleaseSlot(v) \/ ClearHibernate(v) \/ DeleteManifestIfPresent(v) \/ triagePod(v)
                \/ markRestoreFromIntent(v) \/ DeleteOwned(v) \/ CollectTag(v) \/ PodNotFound(v)
                \/ DeleteFails(v)
  <2>1. UNCHANGED <<cs, view>> /\ pc # "idle" /\ (pc' \in DeletePCs => pc \in DeletePCs)
    BY <1>1 DEF Branch, reconcileWake, DropWoken, confirmReleasedDelete, reclaimUnrestoredForks,
         EndSubs, EndToolboxes, CreatePod, EndLoop, ProbeFails, Abandon,
         syncCocoonSetGeneration, HibernateState, allOwnedPodsHibernated, ReleaseSlot,
         ClearHibernate, DeleteManifestIfPresent, triagePod, markRestoreFromIntent,
         DeleteOwned, CollectTag, PodNotFound, DeleteFails, Goto, Return, DeletePCs
  <2> QED BY <2>1, SetKept
<1>2. CASE DeadlinePasses \/ \E v \in VMs : DeletePod(v) \/ VkActs(v) \/ VkFails(v)
  <2>1. UNCHANGED <<cs, view, pc>>
    BY <1>2 DEF DeadlinePasses, DeletePod, VkActs, VkFails, passVars
  <2> QED BY <2>1 DEF SetInv, Tracks
<1>3. CASE UNCHANGED vars
  BY <1>3 DEF SetInv, Tracks, vars, passVars
<1>4. CASE Reconcile
  <2>1. cs' = cs /\ view' = cs /\ cs.at # "gone" /\ (pc' \in DeletePCs => cs.at = "deleting")
    BY <1>4 DEF Reconcile, DeletePCs
  <2> QED BY <1>0, <1>a, <2>1 DEF SetInv, Tracks
<1>5. CASE pollSuspend \/ clearSuspendDeadline
  <2>2. PICK needed \in BOOLEAN, b \in BOOLEAN : PatchSet(needed, [cs EXCEPT !.since = b])
    BY <1>5 DEF pollSuspend, clearSuspendDeadline, PatchSet
  <2>3. /\ [cs EXCEPT !.since = b] \in Sets /\ [cs EXCEPT !.since = b].reclaim = cs.reclaim
        /\ [cs EXCEPT !.since = b].gen = cs.gen /\ [cs EXCEPT !.since = b].at = cs.at
    BY <1>0 DEF Sets
  <2>4. pc # "idle" /\ pc' \notin DeletePCs
    BY <1>5 DEF pollSuspend, clearSuspendDeadline, Goto, DeletePCs
  <2> QED BY <1>0, <2>2, <2>3, <2>4, SetPatched
<1>6. CASE StashHint \/ startReleasedWake \/ ClearHint
  <2>1. PICK needed \in BOOLEAN, b \in BOOLEAN : PatchSet(needed, [cs EXCEPT !.hint = b])
    BY <1>6 DEF StashHint, startReleasedWake, ClearHint, PatchSet
  <2>2. /\ [cs EXCEPT !.hint = b] \in Sets /\ [cs EXCEPT !.hint = b].reclaim = cs.reclaim
        /\ [cs EXCEPT !.hint = b].gen = cs.gen /\ [cs EXCEPT !.hint = b].at = cs.at
    BY <1>0 DEF Sets
  <2>3. pc # "idle" /\ pc' \notin DeletePCs
    BY <1>6 DEF StashHint, startReleasedWake, ClearHint, Goto, DeletePCs
  <2> QED BY <1>0, <2>1, <2>2, <2>3, SetPatched
<1>7. CASE StashReleased \/ reconcileDelete
  <2>0. pc # "idle" /\ (pc' \in DeletePCs => pc \in DeletePCs)
    BY <1>7 DEF StashReleased, reconcileDelete, Goto, DeletePCs
  <2>1. PICK names \in SUBSET VMs : PatchSet(view.names # names, [cs EXCEPT !.names = names])
    BY <1>0, <1>a, <1>b, <1>7 DEF StashReleased, reconcileDelete, stashDeleteVMNames, Sets, Reclaims
  <2>2. /\ [cs EXCEPT !.names = names] \in Sets /\ [cs EXCEPT !.names = names].reclaim = cs.reclaim
        /\ [cs EXCEPT !.names = names].gen = cs.gen /\ [cs EXCEPT !.names = names].at = cs.at
    BY <1>0 DEF Sets
  <2> QED BY <1>0, <2>0, <2>1, <2>2, SetPatched
<1>8. CASE WriteStatus \/ PersistWaking
  <2>0. PICK phase \in Phases : cs' = StatusOf(phase)
    BY <1>8 DEF WriteStatus, PersistWaking, derivePhase, Phases, PassInv
  <2>1. cs' \in Sets /\ cs'.reclaim = cs.reclaim /\ cs'.gen = cs.gen /\ cs'.at = cs.at
    BY <1>0, <1>b, <2>0 DEF StatusOf, Sets
  <2>2. CASE WriteStatus
    <3>1. pc' = "idle" /\ view' = view
      BY <2>2 DEF WriteStatus, Return
    <3> QED BY <1>0, <2>1, <3>1 DEF SetInv
  <2>3. CASE PersistWaking
    <3>1. /\ view' = [view EXCEPT !.phase = cs'.phase, !.listed = cs'.listed]
          /\ pc # "idle" /\ pc' = "create" /\ cs'.names = cs.names
      BY <1>0, <2>0, <2>3 DEF PersistWaking, Goto, StatusOf, Sets
    <3>2. cs'.phase \in Phases /\ cs'.listed \in SUBSET VMs
      BY <2>1 DEF Sets
    <3>3. /\ view' \in Sets /\ view'.reclaim = view.reclaim /\ view'.names = view.names
          /\ view'.gen = view.gen /\ view'.at = view.at /\ view'.listed = cs'.listed
      BY <1>0, <3>1, <3>2 DEF Sets
    <3> QED BY <1>0, <1>a, <2>1, <3>1, <3>3 DEF SetInv, Tracks, DeletePCs
  <2> QED BY <1>8, <2>2, <2>3
<1>9. CASE applySuspend \/ applyUnsuspend \/ ForgetSuspended \/ EndReclaim \/ EndForks
  <2>0. pc # "idle" /\ pc' \notin DeletePCs
    BY <1>9 DEF applySuspend, applyUnsuspend, ForgetSuspended, EndReclaim, EndForks, Unsuspended,
                Goto, Return, DeletePCs
  <2>1. CASE UNCHANGED <<cs, view>>
    BY <2>0, <2>1, SetKept
  <2>2. CASE \E r \in Reclaims : Closed(r) /\ writeHibernateReclaim(r)
    BY <2>0, <2>2, ReclaimWritten
  <2>3. UNCHANGED <<cs, view>> \/ \E r \in Reclaims : Closed(r) /\ writeHibernateReclaim(r)
    <3>1. view.gen \in Generations
      BY <1>0 DEF Sets
    <3>2. CASE applySuspend
      <4> DEFINE r == [cs.reclaim EXCEPT !.vms = @ \cup allByName, !.suspended = @ \cup allByName]
      <4>1. r \in Reclaims /\ Closed(r)
        BY <1>0, <1>a, <1>b DEF Reclaims, Closed
      <4> QED BY <1>c, <2>0, <3>2, <4>1 DEF applySuspend
    <3>3. CASE applyUnsuspend
      <4>1. OwedBy(cs.reclaim) \in Reclaims /\ Closed(OwedBy(cs.reclaim))
        BY <1>0, <1>a, <1>b, <3>1 DEF OwedBy, Reclaims, Closed
      <4> QED BY <1>c, <2>0, <3>3, <4>1 DEF applyUnsuspend
    <3>4. CASE ForgetSuspended
      <4> DEFINE r == [cs.reclaim EXCEPT !.suspended = {}]
      <4>1. r \in Reclaims /\ Closed(r)
        BY <1>0, <1>a DEF Reclaims, Closed
      <4> QED BY <1>c, <2>0, <3>4, <4>1 DEF ForgetSuspended
    <3>5. CASE EndReclaim \/ EndForks
      <4>1. Without(cs.reclaim, got) \in Reclaims /\ Closed(Without(cs.reclaim, got))
        BY <1>0, <1>a DEF Without, Reclaims, Closed
      <4> QED BY <1>c, <2>0, <3>5, <4>1 DEF EndReclaim, EndForks, forgetReclaim
    <3> QED BY <1>9, <3>2, <3>3, <3>4, <3>5
  <2> QED BY <2>1, <2>2, <2>3
<1>10. CASE EditSpec
  <2>1. PICK b \in BOOLEAN, p \in Policies : cs' = [cs EXCEPT !.gen = @ + 1, !.suspend = b, !.policy = p]
    BY <1>10 DEF EditSpec
  <2>2. cs.gen + 1 \in Generations
    BY <1>10, <1>a, ClusterAssumption DEF EditSpec, Generations
  <2>3. /\ cs' \in Sets /\ cs'.reclaim = cs.reclaim /\ cs'.names = cs.names
        /\ cs'.listed = cs.listed /\ cs'.gen = cs.gen + 1 /\ cs'.at = cs.at
    BY <1>0, <2>1, <2>2 DEF Sets
  <2>4. view' = view /\ pc' = pc
    BY <1>10 DEF EditSpec, passVars
  <2>5. pc # "idle" => view.gen <= cs.gen + 1
    BY <1>0, <1>a, ClusterAssumption DEF Tracks, Sets, Generations
  <2> QED BY <1>0, <2>3, <2>4, <2>5 DEF SetInv, Tracks
<1>11. CASE DeleteSet
  <2>1. cs' = [cs EXCEPT !.at = "deleting"] /\ view' = view /\ pc' = pc
    BY <1>11 DEF DeleteSet, passVars
  <2> QED BY <1>0, <2>1 DEF SetInv, Tracks, Sets
<1>12. CASE RemoveFinalizer
  <2>1. cs' \in {cs, [cs EXCEPT !.at = "gone"]} /\ view' = view /\ pc' = "idle"
    BY <1>12 DEF RemoveFinalizer, Return
  <2> QED BY <1>0, <2>1 DEF SetInv, Sets
<1> QED BY <1>1, <1>2, <1>3, <1>4, <1>5, <1>6, <1>7, <1>8, <1>9, <1>10, <1>11, <1>12
        DEF Next, PassStep

(* The variables of a pass and of the user stay well typed. *)
LEMMA PassTypes == SuspendInv /\ [Next]_vars => PassInv'
<1> SUFFICES ASSUME SuspendInv, [Next]_vars PROVE PassInv'
  OBVIOUS
<1> USE DEF SuspendInv
<1>0. /\ cs \in Sets /\ view \in Sets /\ pod \in [VMs -> Pods] /\ seen \in [VMs -> Pods]
      /\ queued \in BOOLEAN /\ pc \in PCs /\ overdue \in BOOLEAN
      /\ todo \in SUBSET VMs /\ got \in SUBSET VMs
  BY DEF SetInv, ClusterTypeOK, PassInv
<1>1. /\ allByName \in SUBSET VMs /\ owned \in SUBSET VMs /\ hibernated \in SUBSET VMs
      /\ missing \in SUBSET VMs /\ Main \in VMs /\ Subs \in SUBSET VMs /\ Toolboxes \in SUBSET VMs
  BY MainIsVM DEF allByName, owned, hibernated, missing
<1>2. CASE \/ DropWoken \/ confirmReleasedDelete \/ EndSubs \/ EndToolboxes \/ CreatePod
           \/ EndLoop \/ ProbeFails \/ Abandon \/ reclaimUnrestoredForks \/ StashReleased
           \/ StashHint \/ startReleasedWake \/ PersistWaking \/ applySuspend
  <2>1. queued' \in BOOLEAN
    BY <1>0, <1>2, WatchedType DEF DropWoken, confirmReleasedDelete, EndSubs, EndToolboxes, CreatePod,
       EndLoop, ProbeFails, Abandon, reclaimUnrestoredForks, StashReleased,
       StashHint, startReleasedWake, PersistWaking, applySuspend
  <2> QED
    BY <1>1, <1>2, <2>1 DEF PassInv, DropWoken, confirmReleasedDelete, EndSubs, EndToolboxes, CreatePod,
       EndLoop, ProbeFails, Abandon, reclaimUnrestoredForks, StashReleased,
       StashHint, startReleasedWake, PersistWaking, applySuspend, Goto, Return, PCs, userVars
<1>3. CASE \/ Branch \/ pollSuspend \/ clearSuspendDeadline \/ ClearHint \/ EndReclaim
  <2>1. queued' \in BOOLEAN
    BY <1>0, <1>3, WatchedType DEF Branch, pollSuspend, clearSuspendDeadline, ClearHint, EndReclaim
  <2>2. last' \in [phase : Phases \cup {""}, again : BOOLEAN]
    <3>0. \A p \in Phases, b \in BOOLEAN :
            [phase |-> p, again |-> b] \in [phase : Phases \cup {""}, again : BOOLEAN]
      OBVIOUS
    <3>1. CASE Branch
      <4>1. \/ last' = last
            \/ \E p \in {"Suspended", "Failed", "Waking"}, b \in BOOLEAN : last' = [phase |-> p, again |-> b]
        BY <3>1 DEF Branch
      <4>2. last \in [phase : Phases \cup {""}, again : BOOLEAN]
        BY DEF PassInv
      <4>3. {"Suspended", "Failed", "Waking"} \subseteq Phases
        BY DEF Phases
      <4> QED BY <3>0, <4>1, <4>2, <4>3
    <3>2. CASE pollSuspend
      <4>1. last' = [phase |-> IF overdue' THEN "Failed" ELSE "Suspending", again |-> TRUE]
        BY <3>2 DEF pollSuspend
      <4>2. (IF overdue' THEN "Failed" ELSE "Suspending") \in Phases
        BY DEF Phases
      <4> QED BY <3>0, <4>1, <4>2
    <3>3. CASE clearSuspendDeadline \/ ClearHint \/ EndReclaim
      <4>1. last' \in {last, [phase |-> "", again |-> TRUE], [phase |-> "Pending", again |-> TRUE]}
        BY <3>3 DEF clearSuspendDeadline, ClearHint, EndReclaim
      <4>2. last \in [phase : Phases \cup {""}, again : BOOLEAN]
        BY DEF PassInv
      <4>3. /\ [phase |-> "", again |-> TRUE] \in [phase : Phases \cup {""}, again : BOOLEAN]
            /\ "Pending" \in Phases
        BY DEF Phases
      <4> QED BY <3>0, <4>1, <4>2, <4>3
    <3> QED BY <1>3, <3>1, <3>2, <3>3
  <2>3. reconcileWake \in PCs
    BY DEF reconcileWake, PCs
  <2> QED
    BY <1>0, <1>1, <1>3, <2>1, <2>2, <2>3 DEF PassInv, Branch, pollSuspend, clearSuspendDeadline,
       ClearHint, EndReclaim, Goto, Return, PCs, userVars
<1>4. CASE applyUnsuspend \/ ForgetSuspended \/ EndForks \/ reconcileDelete
  <2>1. queued' \in BOOLEAN
    BY <1>0, <1>4, WatchedType DEF applyUnsuspend, ForgetSuspended, EndForks, reconcileDelete
  <2>2. view'.names \in SUBSET VMs
    BY SetStep DEF SetInv, Sets
  <2> QED
    BY <1>0, <1>1, <1>4, <2>1, <2>2 DEF PassInv, applyUnsuspend, ForgetSuspended, EndForks,
       reconcileDelete, Unsuspended, Goto, Return, PCs, userVars
<1>5. CASE WriteStatus \/ RemoveFinalizer
  <2>1. queued' \in BOOLEAN
    BY <1>0, <1>5, WatchType DEF WriteStatus, RemoveFinalizer
  <2> QED BY <1>5, <2>1 DEF PassInv, WriteStatus, RemoveFinalizer, Return, PCs, userVars
<1>6. ASSUME NEW v \in VMs,
             syncCocoonSetGeneration(v) \/ HibernateState(v) \/ ClearHibernate(v)
      PROVE  PassInv'
  <2>1. \E needed \in BOOLEAN, q \in Pods : PatchPod(v, needed, q)
    <3>1. view.gen \in Generations /\ pod[v] \in Pods
      BY <1>0 DEF Sets
    <3> QED BY <1>6, <3>1, PodRecordType
        DEF syncCocoonSetGeneration, HibernateState, ClearHibernate, PatchPod
  <2>2. seen' \in [VMs -> Pods]
    BY <1>0, <2>1, PodPatched
  <2>3. queued' \in BOOLEAN
    BY <1>0, <1>6, WatchedType DEF syncCocoonSetGeneration, HibernateState, ClearHibernate
  <2> QED BY <1>6, <2>2, <2>3 DEF PassInv, syncCocoonSetGeneration, HibernateState, ClearHibernate,
                                  Goto, PCs, userVars
<1>7. ASSUME NEW v \in VMs,
             \/ allOwnedPodsHibernated(v) \/ ReleaseSlot(v) \/ DeleteManifestIfPresent(v)
             \/ triagePod(v) \/ markRestoreFromIntent(v) \/ DeleteOwned(v) \/ CollectTag(v)
             \/ PodNotFound(v) \/ DeleteFails(v)
      PROVE  PassInv'
  <2>1. queued' \in BOOLEAN
    BY <1>0, <1>7, WatchedType DEF allOwnedPodsHibernated, ReleaseSlot, DeleteManifestIfPresent,
       triagePod, markRestoreFromIntent, DeleteOwned, CollectTag, PodNotFound, DeleteFails
  <2>2. CASE markRestoreFromIntent(v)
    BY <1>7, <2>1, <2>2 DEF PassInv, markRestoreFromIntent, Goto, PCs, userVars
  <2>3. CASE ~markRestoreFromIntent(v)
    BY <1>7, <2>1, <2>3 DEF PassInv, allOwnedPodsHibernated, ReleaseSlot, DeleteManifestIfPresent,
       triagePod, DeleteOwned, CollectTag, PodNotFound, DeleteFails, Goto, Return, PCs, userVars
  <2> QED BY <2>2, <2>3
<1>8. CASE Reconcile
  BY <1>0, <1>1, <1>8 DEF Reconcile, PassInv, PCs, userVars
<1>9. CASE EditSpec \/ DeleteSet \/ DeadlinePasses \/ UNCHANGED vars
  <2>1. queued' \in BOOLEAN
    BY <1>0, <1>9, WatchedType DEF EditSpec, DeleteSet, DeadlinePasses, vars
  <2> QED BY <1>9, <2>1 DEF EditSpec, DeleteSet, DeadlinePasses, vars, PassInv, passVars, userVars
<1>10. ASSUME NEW v \in VMs, DeletePod(v) \/ VkActs(v) \/ VkFails(v)
       PROVE  PassInv'
  <2>1. queued' \in BOOLEAN
    BY <1>0, <1>10, WatchedType DEF DeletePod, VkActs, VkFails
  <2>2. left' \in 0..MaxDeletes
    <3>1. left' = left \/ (left > 0 /\ left' = left - 1)
      BY <1>10 DEF DeletePod, VkActs, VkFails, userVars
    <3>2. left \in 0..MaxDeletes /\ MaxDeletes \in Nat
      BY SuspendAssumption DEF PassInv
    <3> QED BY <3>1, <3>2
  <2> QED BY <1>10, <2>1, <2>2 DEF DeletePod, VkActs, VkFails, PassInv, passVars, userVars
<1> QED BY <1>2, <1>3, <1>4, <1>5, <1>6, <1>7, <1>8, <1>9, <1>10 DEF Next, PassStep

LEMMA SuspendStep == SuspendInv /\ [Next]_vars => SuspendInv'
BY ClusterStep, SetStep, PassTypes DEF SuspendInv

LEMMA SuspendInit == Init => SuspendInv
<1> SUFFICES ASSUME Init PROVE SuspendInv
  OBVIOUS
<1>0. 1 \in Generations /\ 0 \in Generations
  BY ClusterAssumption DEF Generations
<1>1. NewPod(TRUE, FALSE, 1) \in Pods /\ 1 \in Generations /\ 0 \in Generations
  BY <1>0, PodRecordType
<1>2. [NewPod(TRUE, FALSE, 1) EXCEPT !.state = "ready", !.obs = 1, !.live = TRUE] \in Pods
  BY <1>1 DEF Pods
<1>3. ClusterTypeOK
  <2>0. faults = MaxFaults
    BY DEF Init
  <2>1. faults \in 0..MaxFaults
    BY <2>0, ClusterAssumption
  <2> QED BY <1>1, <1>2, <2>1 DEF Init, ClusterInit, ClusterTypeOK, VkStates
<1>4. cs \in Sets /\ Closed(cs.reclaim)
  <2>1. NoReclaim \in Reclaims /\ Closed(NoReclaim)
    BY <1>1 DEF NoReclaim, Reclaims, Closed
  <2> QED BY <1>1, <2>1 DEF Init, Sets, Phases
<1>5. SetInv
  BY <1>4 DEF Init, SetInv
<1>6. PassInv
  <2>0. left = MaxDeletes
    BY DEF Init
  <2>1. left \in 0..MaxDeletes
    BY <2>0, SuspendAssumption
  <2> QED BY <1>3, <2>1, MainIsVM DEF Init, PassInv, PCs, ClusterTypeOK
<1> QED BY <1>3, <1>5, <1>6 DEF SuspendInv

(* Every reachable state of Suspend is well typed, for any slots, policies and bounds;
   what the reclaim record owes a restore or lists as suspended it owes a reclaim too,
   whatever was edited, deleted or failed between its writes. *)
THEOREM SuspendTypeCorrect == Spec => []TypeOK
BY SuspendStep, SuspendInit, SuspendTypes, PTL DEF Spec

-----------------------------------------------------------------------------
(* What a pass knows of the pods, and why no tag outlives the set *)

CreatePCs == {"idle", "main", "sleepingMain", "create", "subs", "toolboxes", "status"}

(* A pass's copy of a pod: only a pass creates pods, and writes the annotation, so until
   it creates one it has seen every pod there is and knows its annotation.  One that the
   user deletes meanwhile slept, and the pass never takes it for awake. *)
SeenOK(v) ==
    /\ pc \in {"wake", "waking"} => seen[Main].at # "present"
    /\ pc = "create" => seen[slot].at # "present"
    /\ pc # "idle" /\ pod[v].at = "present" /\ seen[v].at = "present" =>
         pod[v].hib = seen[v].hib /\ (seen[v].state = "failed" => pod[v].state = "failed")
    /\ pc \notin CreatePCs =>
         /\ pod[v].at = "present" => seen[v].at = "present"
         /\ pod[v].at # "absent" => seen[v].at # "absent"
    /\ pc \in {"stamp", "wake", "confirm", "unsuspend", "clear"} =>
         (seen[v].at = "present" /\ pod[v].at # "present" =>
            /\ seen[v].hib \/ ~seen[v].live
            /\ pod[v].at = "terminating" => vk[v] = "asleep")

(* A pod that may come to push is on the record; one that is going or gone pushes
   nothing that the set's delete does not look for. *)
VmOK(v) ==
    /\ pod[v].at = "absent" => vk[v] = "off"
    /\ vk[v] = "asleep" => ~pod[v].live
    /\ pod[v].state = "failed" => vk[v] = "off" /\ tag[v] = "none"
    /\ pod[v].at = "present" /\ pod[v].hib => v \in cs.reclaim.vms
    /\ pod[v].at # "present" /\ v \notin cs.names =>
         /\ vk[v] # "pushing"
         /\ tag[v] # "none" => v \in cs.reclaim.vms

(* What the loops of a pass have established when they act on v. *)
LoopOK(v) ==
    /\ pc = "hibernate" => (seen[v].at = "present" => v \in cs.reclaim.vms)
    /\ pc \in {"hint", "release"} => (seen[v].at = "present" => v \in cs.names)
    /\ pc \in {"hibernate", "release"} => (v \in todo => seen[v].at = "present")
    /\ pc \notin {"idle", "reclaim", "forks"} => v \notin got
    /\ pc = "reclaim" => (v \in todo \cup got => pod[v].at = "present" /\ ~pod[v].hib)
    /\ pc = "forks" => (v \in todo \cup got => pod[v].at # "present")
    /\ pc = "forks" => (v \in got /\ v \notin cs.names => tag[v] = "none")
    /\ pc = "teardown" => (v \in todo => v \in cs.names)
    /\ pc = "gc" => pod[v].at = "absent" /\ (tag[v] # "none" => v \in todo)
    /\ cs.at = "gone" => pc = "idle" /\ pod[v].at = "absent" /\ tag[v] = "none"

LeakOK(v) == SeenOK(v) /\ VmOK(v) /\ LoopOK(v)
LeakInv == \A v \in VMs : LeakOK(v)

SameRecord == cs'.reclaim = cs.reclaim /\ cs'.names = cs.names /\ cs'.at = cs.at
SameVM(v) == pod'[v] = pod[v] /\ tag'[v] = tag[v] /\ vk'[v] = vk[v]

(* What a step of vk-cocoon can do to a pod, its tag and its VM. *)
LEMMA VkEffect ==
    ASSUME ClusterTypeOK, NEW v \in VMs, VkStep(v)
    PROVE  /\ \A w \in VMs : w # v => SameVM(w)
           /\ pod[v].at = "absent" => vk[v] = "pushing"
           /\ pod[v].at = "present" => pod'[v].at = "present"
           /\ \/ pod'[v].at = pod[v].at /\ pod'[v].hib = pod[v].hib
              \/ /\ pod[v].at = "terminating" /\ pod'[v] = NoPod /\ tag'[v] = tag[v]
                 /\ vk'[v] = "off"
           /\ tag[v] = "none" /\ vk[v] # "pushing" => tag'[v] = "none"
           /\ vk'[v] = "pushing" => pod[v].at = "present" \/ vk[v] = "pushing"
           /\ pod[v].at = "present" /\ pod[v].state = "failed" /\ vk[v] = "off" /\ tag[v] = "none"
                => pod'[v].state = "failed"
           /\ (pod[v].state = "failed" => vk[v] = "off" /\ tag[v] = "none")
                => (pod'[v].state = "failed" => vk'[v] = "off" /\ tag'[v] = "none")
           /\ (vk[v] = "asleep" => ~pod[v].live) => (vk'[v] = "asleep" => ~pod'[v].live)
           /\ pod[v].at = "terminating" /\ vk[v] = "asleep" => pod'[v] = NoPod
<1> USE DEF SameVM
<1>0. pod[v] \in Pods /\ vk \in [VMs -> VkStates] /\ tag \in [VMs -> {"none", "fresh", "stale"}]
      /\ pod \in [VMs -> Pods]
  BY DEF ClusterTypeOK
<1>r. ASSUME NEW s, NEW g, NEW l, Report(v, s, g, l)
      PROVE  /\ pod'[v].at = pod[v].at /\ pod'[v].hib = pod[v].hib /\ pod'[v].state = s
             /\ pod'[v].live = l
             /\ \A w \in VMs : w # v => pod'[w] = pod[w]
  <2>1. pod' = [pod EXCEPT ![v] = [pod[v] EXCEPT !.state = s, !.obs = g, !.live = l, !.named = TRUE]]
    BY <1>r DEF Report
  <2>2. pod'[v] = [pod[v] EXCEPT !.state = s, !.obs = g, !.live = l, !.named = TRUE]
    BY <1>0, <2>1
  <2>3. \A w \in VMs : w # v => pod'[w] = pod[w]
    BY <1>0, <2>1
  <2> QED BY <1>0, <2>2, <2>3 DEF Pods
<1>1. CASE VkBoot(v)
  <2>1. /\ pod'[v].at = pod[v].at /\ pod'[v].hib = pod[v].hib /\ pod'[v].state = "ready"
        /\ \A w \in VMs : w # v => pod'[w] = pod[w]
    BY <1>1, <1>r DEF VkBoot
  <2>2. /\ pod[v].at = "present" /\ vk'[v] = "running" /\ (tag[v] = "none" => tag'[v] = "none")
        /\ (pod[v].state = "failed" => vk[v] # "off")
        /\ \A w \in VMs : w # v => vk'[w] = vk[w] /\ tag'[w] = tag[w]
    BY <1>0, <1>1 DEF VkBoot, Spent
  <2> QED BY <2>1, <2>2
<1>2. CASE VkRefuse(v)
  BY <1>0, <1>2, <1>r DEF VkRefuse
<1>3. CASE VkRestore(v) \/ VkHibernate(v) \/ VkWake(v)
  BY <1>0, <1>3 DEF VkRestore, VkHibernate, VkWake, VkStart
<1>4. CASE VkPush(v)
  BY <1>0, <1>4 DEF VkPush
<1>5. CASE VkReportHibernated(v)
  <2>1. /\ pod'[v].at = pod[v].at /\ pod'[v].hib = pod[v].hib /\ pod'[v].state = "hibernated"
        /\ pod'[v].live = FALSE
        /\ \A w \in VMs : w # v => pod'[w] = pod[w]
    BY <1>5, <1>r DEF VkReportHibernated
  <2>2. /\ pod[v].at # "absent" /\ vk[v] = "pushed" /\ vk'[v] = "asleep" /\ (tag[v] = "none" => tag'[v] = "none")
        /\ (pod[v].state = "failed" => vk[v] # "off")
        /\ \A w \in VMs : w # v => vk'[w] = vk[w] /\ tag'[w] = tag[w]
    BY <1>0, <1>5 DEF VkReportHibernated
  <2> QED BY <2>1, <2>2
<1>6. CASE VkWoken(v)
  <2>1. /\ pod'[v].at = pod[v].at /\ pod'[v].hib = pod[v].hib /\ pod'[v].state = "ready"
        /\ \A w \in VMs : w # v => pod'[w] = pod[w]
    BY <1>6, <1>r DEF VkWoken
  <2>2. /\ pod[v].at # "absent" /\ vk[v] = "waking" /\ vk'[v] = "running" /\ (tag[v] = "none" => tag'[v] = "none")
        /\ (pod[v].state = "failed" => vk[v] # "off")
        /\ \A w \in VMs : w # v => vk'[w] = vk[w] /\ tag'[w] = tag[w]
    BY <1>0, <1>6 DEF VkWoken, Spent
  <2> QED BY <2>1, <2>2
<1>7. CASE VkEcho(v)
  <2>1. PICK rest \in {[of |-> "running", hib |-> FALSE, state |-> "ready"],
                       [of |-> "asleep", hib |-> TRUE, state |-> "hibernated"]} :
          /\ vk[v] = rest.of
          /\ pod' = [pod EXCEPT ![v].state = rest.state, ![v].obs = pod[v].gen]
    BY <1>7 DEF VkEcho
  <2>2. rest.state \in {"ready", "hibernated"} /\ rest.of # "off" /\ rest.of # "pushing"
    OBVIOUS
  <2>3. pod' = [pod EXCEPT ![v] = [pod[v] EXCEPT !.state = rest.state, !.obs = pod[v].gen]]
    BY <2>1
  <2>4. pod'[v] = [pod[v] EXCEPT !.state = rest.state, !.obs = pod[v].gen]
    BY <1>0, <2>3
  <2>5. /\ pod'[v].at = pod[v].at /\ pod'[v].hib = pod[v].hib /\ pod'[v].state = rest.state
        /\ pod'[v].live = pod[v].live
    BY <1>0, <2>4 DEF Pods
  <2>6. \A w \in VMs : w # v => pod'[w] = pod[w]
    BY <1>0, <2>3
  <2> QED BY <1>7, <2>1, <2>2, <2>5, <2>6 DEF VkEcho
<1>8. CASE VkDelete(v)
  <2>1. pod'[v] = NoPod /\ NoPod.state = "none" /\ \A w \in VMs : w # v => pod'[w] = pod[w]
    BY <1>0, <1>8 DEF VkDelete, NoPod
  <2> QED BY <1>0, <1>8, <2>1 DEF VkDelete
<1> QED BY <1>1, <1>2, <1>3, <1>4, <1>5, <1>6, <1>7, <1>8 DEF VkStep

(* The steps that write the set and leave its records alone. *)
LEMMA RecordKept ==
    ASSUME SuspendInv,
           \/ pollSuspend \/ clearSuspendDeadline \/ StashHint \/ startReleasedWake \/ ClearHint
           \/ WriteStatus \/ PersistWaking \/ EditSpec
    PROVE  SameRecord
<1>0. cs \in Sets
  BY DEF SuspendInv, SetInv
<1>1. CASE pollSuspend \/ clearSuspendDeadline
  <2>1. PICK b \in BOOLEAN : cs' = cs \/ cs' = [cs EXCEPT !.since = b]
    BY <1>1 DEF pollSuspend, clearSuspendDeadline, PatchSet
  <2> QED BY <1>0, <2>1 DEF SameRecord, Sets
<1>2. CASE StashHint \/ startReleasedWake \/ ClearHint
  <2>1. PICK b \in BOOLEAN : cs' = cs \/ cs' = [cs EXCEPT !.hint = b]
    BY <1>2 DEF StashHint, startReleasedWake, ClearHint, PatchSet
  <2> QED BY <1>0, <2>1 DEF SameRecord, Sets
<1>3. CASE WriteStatus \/ PersistWaking
  <2>1. PICK phase : cs' = [cs EXCEPT !.phase = phase, !.listed = allByName]
    BY <1>3 DEF WriteStatus, PersistWaking, StatusOf
  <2> QED BY <1>0, <2>1 DEF SameRecord, Sets
<1>4. CASE EditSpec
  <2>1. PICK b \in BOOLEAN, p \in Policies : cs' = [cs EXCEPT !.gen = @ + 1, !.suspend = b, !.policy = p]
    BY <1>4 DEF EditSpec
  <2> QED BY <1>0, <2>1 DEF SameRecord, Sets
<1> QED BY <1>1, <1>2, <1>3, <1>4

(* Records only grow around a VM that does not move. *)
LEMMA VmKept ==
    ASSUME NEW v \in VMs, VmOK(v), SameVM(v),
           v \in cs.reclaim.vms => v \in cs'.reclaim.vms, v \in cs.names => v \in cs'.names
    PROVE  VmOK(v)'
BY DEF VmOK, SameVM

(* What happens outside a pass: vk-cocoon, the user, time. *)
LEMMA LeakOutside ==
    ASSUME SuspendInv, LeakInv, UserDeletes = "asleep", NEW w \in VMs,
           \/ EditSpec \/ DeleteSet \/ DeadlinePasses \/ UNCHANGED vars
           \/ \E v \in VMs : DeletePod(v) \/ VkActs(v)
    PROVE  LeakOK(w)'
<1>0. LeakOK(w) /\ pod \in [VMs -> Pods] /\ cs \in Sets
  BY DEF LeakInv, SuspendInv, ClusterTypeOK, SetInv
<1>1. UNCHANGED <<pc, view, seen, todo, slot, got>>
  BY DEF EditSpec, DeleteSet, DeadlinePasses, vars, DeletePod, VkActs, passVars
<1>2. CASE EditSpec \/ DeleteSet \/ DeadlinePasses \/ UNCHANGED vars
  <2>1. SameVM(w)
    BY <1>2 DEF EditSpec, DeleteSet, DeadlinePasses, vars, clusterVars, SameVM
  <2>2. cs'.reclaim = cs.reclaim /\ cs'.names = cs.names /\ (cs'.at = "gone" => cs.at = "gone")
    <3>1. CASE EditSpec
      BY <3>1, RecordKept DEF SameRecord
    <3>2. CASE DeleteSet
      BY <1>0, <3>2 DEF DeleteSet, Sets
    <3>3. CASE DeadlinePasses \/ UNCHANGED vars
      BY <3>3 DEF DeadlinePasses, vars
    <3> QED BY <1>2, <3>1, <3>2, <3>3
  <2>3. VmOK(w)'
    BY <1>0, <2>1, <2>2, VmKept DEF LeakOK
  <2>4. SeenOK(w)'
    BY <1>0, <1>1, <2>1 DEF LeakOK, SeenOK, SameVM
  <2>5. LoopOK(w)'
    BY <1>0, <1>1, <2>1, <2>2 DEF LeakOK, LoopOK, SameVM
  <2> QED BY <2>3, <2>4, <2>5 DEF LeakOK
<1>3. ASSUME NEW v \in VMs, DeletePod(v) PROVE LeakOK(w)'
  <2>1. /\ vk[v] = "asleep" /\ pod[v].hib /\ pod[v].at = "present" /\ cs.at = "live"
        /\ pod' = Deleted(v) /\ UNCHANGED <<tag, vk, cs>>
    BY <1>3 DEF DeletePod
  <2>2. VmOK(w)'
    <3>1. CASE w = v
      BY <1>0, <2>1, <3>1, DeletedPods DEF LeakOK, VmOK
    <3>2. CASE w # v
      BY <1>0, <2>1, <3>2, DeletedPods DEF LeakOK, VmOK
    <3> QED BY <3>1, <3>2
  <2>3. CASE w # v
    <3>1. pod'[w] = pod[w]
      BY <1>0, <2>1, <2>3, DeletedPods
    <3>2. SeenOK(w)' /\ LoopOK(w)'
      BY <1>0, <1>1, <2>1, <3>1 DEF LeakOK, SeenOK, LoopOK
    <3> QED BY <2>2, <3>2 DEF LeakOK
  <2>4. CASE w = v
    <3>1. pod'[w].at = "terminating" /\ pod'[w].hib = pod[w].hib /\ pod'[w].state = pod[w].state
      BY <1>0, <2>1, <2>4, DeletedPods
    <3>2. pc \notin DeletePCs
      BY <2>1 DEF SuspendInv, SetInv, Tracks, DeletePCs
    <3>h. pc # "idle" /\ seen[w].at = "present" => seen[w].hib
      BY <1>0, <2>1, <2>4 DEF LeakOK, SeenOK
    <3>3. SeenOK(w)'
      BY <1>0, <1>1, <2>1, <2>4, <3>1, <3>h DEF LeakOK, SeenOK
    <3>4. LoopOK(w)'
      BY <1>0, <1>1, <2>1, <2>4, <3>1, <3>2 DEF LeakOK, LoopOK, DeletePCs
    <3> QED BY <2>2, <3>3, <3>4 DEF LeakOK
  <2> QED BY <2>3, <2>4
<1>4. ASSUME NEW v \in VMs, VkActs(v) PROVE LeakOK(w)'
  <2>1. VkStep(v) /\ cs' = cs
    BY <1>4 DEF VkActs
  <2>2. ClusterTypeOK
    BY DEF SuspendInv
  <2>3. CASE w # v
    <3>1. SameVM(w)
      BY <2>1, <2>2, <2>3, VkEffect
    <3> QED BY <1>0, <1>1, <2>1, <3>1 DEF LeakOK, SeenOK, VmOK, LoopOK, SameVM
  <2>4. CASE w = v
    <3>1. /\ pod[v].at = "absent" => vk[v] = "pushing"
          /\ pod[v].at = "present" => pod'[v].at = "present"
          /\ \/ pod'[v].at = pod[v].at /\ pod'[v].hib = pod[v].hib
             \/ /\ pod[v].at = "terminating" /\ pod'[v] = NoPod /\ tag'[v] = tag[v]
                /\ vk'[v] = "off"
          /\ tag[v] = "none" /\ vk[v] # "pushing" => tag'[v] = "none"
          /\ vk'[v] = "pushing" => pod[v].at = "present" \/ vk[v] = "pushing"
          /\ pod[v].at = "present" /\ pod[v].state = "failed" /\ vk[v] = "off" /\ tag[v] = "none"
               => pod'[v].state = "failed"
          /\ (pod[v].state = "failed" => vk[v] = "off" /\ tag[v] = "none")
               => (pod'[v].state = "failed" => vk'[v] = "off" /\ tag'[v] = "none")
          /\ (vk[v] = "asleep" => ~pod[v].live) => (vk'[v] = "asleep" => ~pod'[v].live)
          /\ pod[v].at = "terminating" /\ vk[v] = "asleep" => pod'[v] = NoPod
      BY <2>1, <2>2, VkEffect
    <3>2. NoPod.at = "absent" /\ NoPod.hib = FALSE
      BY DEF NoPod
    <3>3. VmOK(v) /\ SeenOK(v) /\ LoopOK(v)
      BY <1>0, <2>4 DEF LeakOK
    <3>4. pod[v].at # "absent"
      BY <3>1, <3>3 DEF VmOK
    <3>5. VmOK(v)'
      BY <2>1, <3>1, <3>2, <3>3, <3>4 DEF VmOK
    <3>6. SeenOK(v)'
      BY <1>1, <3>1, <3>2, <3>3, <3>4 DEF SeenOK, VmOK
    <3>7. LoopOK(v)'
      BY <1>1, <2>1, <3>1, <3>2, <3>3, <3>4 DEF LoopOK, VmOK
    <3> QED BY <2>4, <3>5, <3>6, <3>7 DEF LeakOK
  <2> QED BY <2>3, <2>4
<1> QED BY <1>2, <1>3, <1>4

(* The steps of a pass that only decide where it goes. *)
LEMMA LeakControl ==
    ASSUME SuspendInv, LeakInv, NEW w \in VMs,
           \/ Reconcile \/ Branch \/ confirmReleasedDelete \/ reclaimUnrestoredForks \/ EndSubs
           \/ EndToolboxes \/ EndLoop \/ ProbeFails \/ Abandon
           \/ pollSuspend \/ clearSuspendDeadline \/ StashHint \/ startReleasedWake \/ ClearHint
           \/ WriteStatus \/ PersistWaking
           \/ \E v \in VMs : \/ allOwnedPodsHibernated(v) \/ markRestoreFromIntent(v)
                              \/ PodNotFound(v) \/ DeleteFails(v)
    PROVE  LeakOK(w)'
<1>0. SeenOK(w) /\ VmOK(w) /\ LoopOK(w) /\ Main \in VMs /\ SeenOK(Main) /\ Subs \subseteq VMs
  BY MainIsVM DEF LeakInv, LeakOK
<1>1. SameVM(w)
  BY DEF Reconcile, Branch, confirmReleasedDelete, reclaimUnrestoredForks, EndSubs, EndToolboxes,
     EndLoop, ProbeFails, Abandon, pollSuspend, clearSuspendDeadline, StashHint, startReleasedWake,
     ClearHint, WriteStatus, PersistWaking, allOwnedPodsHibernated, markRestoreFromIntent,
     PodNotFound, DeleteFails, clusterVars, SameVM
<1>2. SameRecord
  <2>1. CASE \/ pollSuspend \/ clearSuspendDeadline \/ StashHint \/ startReleasedWake \/ ClearHint
             \/ WriteStatus \/ PersistWaking
    BY <2>1, RecordKept
  <2>2. CASE UNCHANGED cs
    BY <2>2 DEF SameRecord
  <2> QED
    BY <2>1, <2>2 DEF Reconcile, Branch, confirmReleasedDelete, reclaimUnrestoredForks, EndSubs,
       EndToolboxes, EndLoop, ProbeFails, Abandon, allOwnedPodsHibernated, markRestoreFromIntent,
       PodNotFound, DeleteFails
<1>3. VmOK(w)'
  BY <1>0, <1>1, <1>2, VmKept DEF SameRecord
<1>4. CASE Reconcile
  <2>1. seen'[w] = pod[w] /\ pc' \in {"stamp", "stashAll"} /\ got' = {} /\ cs.at # "gone"
    BY <1>4 DEF Reconcile
  <2>2. SeenOK(w)' /\ LoopOK(w)'
    BY <1>1, <1>2, <2>1 DEF SeenOK, LoopOK, SameVM, SameRecord, CreatePCs
  <2> QED BY <1>3, <2>2 DEF LeakOK
<1>5. CASE Branch
  <2>1. /\ pc = "stamp" /\ UNCHANGED <<seen, slot, got>>
        /\ pc' \in {"clearDeadline", "sleepingMain", "record", "unsuspend", "wake", "status", "dropWoken", "confirm"}
        /\ pc' = "wake" => Main \notin allByName
    BY <1>5 DEF Branch, reconcileWake, Goto
  <2>2. SeenOK(w)' /\ LoopOK(w)'
    BY <1>0, <1>1, <1>2, <2>1 DEF SeenOK, LoopOK, SameVM, SameRecord, CreatePCs, allByName
  <2> QED BY <1>3, <2>2 DEF LeakOK
<1>6. CASE reclaimUnrestoredForks
  <2>1. /\ pc = "triage" /\ pc' = "forks" /\ UNCHANGED <<seen, slot, got>> /\ cs' = cs
        /\ todo' \subseteq missing
    BY <1>6 DEF reclaimUnrestoredForks, Goto
  <2>2. w \in todo' => seen[w].at # "present"
    BY <2>1 DEF missing, allByName
  <2>3. SeenOK(w)' /\ LoopOK(w)'
    BY <1>0, <1>1, <1>2, <2>1, <2>2 DEF SeenOK, LoopOK, SameVM, SameRecord, CreatePCs
  <2> QED BY <1>3, <2>3 DEF LeakOK
<1>7. ASSUME NEW v \in VMs, markRestoreFromIntent(v) PROVE LeakOK(w)'
  <2>1. /\ pc \in {"main", "sleepingMain", "subs", "toolboxes"} /\ pc' = "create" /\ slot' = v
        /\ UNCHANGED <<seen, got>> /\ v \notin allByName
    BY <1>7 DEF markRestoreFromIntent, Goto
  <2>2. SeenOK(w)' /\ LoopOK(w)'
    BY <1>0, <1>1, <1>2, <2>1 DEF SeenOK, LoopOK, SameVM, SameRecord, CreatePCs, allByName
  <2> QED BY <1>3, <2>2 DEF LeakOK
<1>8. CASE PersistWaking
  <2>1. pc = "waking" /\ pc' = "create" /\ slot' = Main /\ UNCHANGED <<seen, got>>
    BY <1>8 DEF PersistWaking, Goto
  <2>2. SeenOK(w)' /\ LoopOK(w)'
    BY <1>0, <1>1, <1>2, <2>1 DEF SeenOK, LoopOK, SameVM, SameRecord, CreatePCs
  <2> QED BY <1>3, <2>2 DEF LeakOK
<1>9. CASE StashHint
  <2>1. pc = "hint" /\ pc' = "release" /\ todo' = allByName /\ UNCHANGED <<seen, slot, got>>
    BY <1>9 DEF StashHint, Goto
  <2>2. SeenOK(w)' /\ LoopOK(w)'
    BY <1>0, <1>1, <1>2, <2>1 DEF SeenOK, LoopOK, SameVM, SameRecord, CreatePCs, allByName
  <2> QED BY <1>3, <2>2 DEF LeakOK
<1>10. CASE confirmReleasedDelete \/ startReleasedWake
  <2>1. /\ pc \in {"confirm", "wake"} /\ pc' \in {"idle", "waking", "unsuspend"}
        /\ pc' = "waking" => pc = "wake"
        /\ UNCHANGED <<seen, slot, got, todo>>
    BY <1>10 DEF confirmReleasedDelete, startReleasedWake, Goto, Return
  <2>2. SeenOK(w)' /\ LoopOK(w)'
    BY <1>0, <1>1, <1>2, <2>1 DEF SeenOK, LoopOK, SameVM, SameRecord, CreatePCs
  <2> QED BY <1>3, <2>2 DEF LeakOK
<1>11. CASE \/ EndSubs \/ EndToolboxes \/ EndLoop \/ ProbeFails \/ Abandon
            \/ pollSuspend \/ clearSuspendDeadline \/ ClearHint \/ WriteStatus
            \/ \E v \in VMs : allOwnedPodsHibernated(v) \/ PodNotFound(v)
  <2>1. /\ UNCHANGED <<seen, slot, got>>
        /\ pc # "idle" /\ pc' \in {"idle", "observe", "deadline", "clearDeadline", "stash", "status", "toolboxes"}
        /\ pc' # "idle" => pc \notin {"reclaim", "forks"} /\ cs.at # "gone"
        /\ pc' \notin CreatePCs => pc \notin CreatePCs
    BY <1>0, <1>11 DEF EndSubs, EndToolboxes, EndLoop, ProbeFails, Abandon,
       pollSuspend, clearSuspendDeadline, ClearHint, WriteStatus, allOwnedPodsHibernated,
       PodNotFound, Goto, Return, CreatePCs, LoopOK
  <2>2. SeenOK(w)' /\ LoopOK(w)'
    BY <1>0, <1>1, <1>2, <2>1 DEF SeenOK, LoopOK, SameVM, SameRecord, CreatePCs
  <2> QED BY <1>3, <2>2 DEF LeakOK
<1>12. ASSUME NEW v \in VMs, DeleteFails(v) PROVE LeakOK(w)'
  <2>1. pc \in {"reclaim", "forks"} /\ pc' = pc /\ UNCHANGED <<seen, slot, got>> /\ todo' = todo \ {v}
    BY <1>12 DEF DeleteFails, Goto
  <2>2. SeenOK(w)' /\ LoopOK(w)'
    BY <1>0, <1>1, <1>2, <2>1 DEF SeenOK, LoopOK, SameVM, SameRecord, CreatePCs
  <2> QED BY <1>3, <2>2 DEF LeakOK
<1> QED BY <1>4, <1>5, <1>6, <1>7, <1>8, <1>9, <1>10, <1>11, <1>12

(* The pass's copy of v's pod says what q says, but for its being deleted. *)
SeenAs(v, q) ==
    /\ seen'[v].hib = q.hib /\ seen'[v].state = q.state /\ seen'[v].gen = q.gen
    /\ seen'[v].obs = q.obs /\ seen'[v].live = q.live /\ seen'[v].restore = q.restore

(* What a patch of v's pod leaves: the copy is the pod as it then is, except that the
   pass goes on counting it as it was listed. *)
LEMMA PatchEffect ==
    ASSUME pod \in [VMs -> Pods], seen \in [VMs -> Pods], NEW v \in VMs, NEW needed \in BOOLEAN,
           NEW q \in Pods, PatchPod(v, needed, q)
    PROVE  /\ \A w \in VMs : w # v => pod'[w] = pod[w] /\ seen'[w] = seen[w]
           /\ needed => pod'[v] = q /\ SeenAs(v, q) /\ pod[v].at # "absent"
           /\ ~needed => pod'[v] = pod[v] /\ seen'[v] = seen[v]
           /\ seen'[v].at = seen[v].at
           /\ needed /\ q.at = seen[v].at => seen'[v] = q
<1> DEFINE s == [q EXCEPT !.at = seen[v].at]
<1>1. /\ s.at = seen[v].at /\ s.hib = q.hib /\ s.state = q.state /\ s.gen = q.gen
      /\ s.obs = q.obs /\ s.live = q.live /\ s.restore = q.restore
      /\ q.at = seen[v].at => s = q
  BY DEF Pods
<1> HIDE DEF s
<1>2. /\ pod' = IF needed THEN [pod EXCEPT ![v] = q] ELSE pod
      /\ seen' = IF needed THEN [seen EXCEPT ![v] = s] ELSE seen
      /\ needed => pod[v].at # "absent"
  BY DEF PatchPod, s
<1> QED BY <1>1, <1>2 DEF SeenAs

(* The steps of a pass that patch, delete or create a pod. *)
LEMMA LeakPods ==
    ASSUME SuspendInv, LeakInv, NEW w \in VMs,
           \/ CreatePod
           \/ \E v \in VMs :
                \/ syncCocoonSetGeneration(v) \/ HibernateState(v) \/ ClearHibernate(v)
                \/ ReleaseSlot(v) \/ triagePod(v) \/ DeleteOwned(v)
    PROVE  LeakOK(w)'
<1>0. /\ SeenOK(w) /\ VmOK(w) /\ LoopOK(w)
      /\ pod \in [VMs -> Pods] /\ seen \in [VMs -> Pods] /\ slot \in VMs /\ Main \in VMs
  BY MainIsVM DEF LeakInv, LeakOK, SuspendInv, ClusterTypeOK, PassInv
<1>g. view.gen \in Generations
  BY DEF SuspendInv, SetInv, Sets
<1>1. UNCHANGED <<cs, tag, vk, slot, got>>
  BY DEF CreatePod, syncCocoonSetGeneration, HibernateState, ClearHibernate, ReleaseSlot,
         triagePod, DeleteOwned
<1>2. ASSUME NEW v \in VMs, syncCocoonSetGeneration(v) PROVE LeakOK(w)'
  <2> DEFINE q == [pod[v] EXCEPT !.gen = view.gen]
  <2>1. pc = "stamp" /\ pc' = "stamp" /\ PatchPod(v, seen[v].gen # view.gen, q)
    BY <1>2 DEF syncCocoonSetGeneration, Goto
  <2>p. q \in Pods
    BY <1>0, <1>g, PodRecordType
  <2>2. q.at = pod[v].at /\ q.hib = pod[v].hib /\ q.state = pod[v].state /\ q.live = pod[v].live
    BY <1>0 DEF Pods
  <2> HIDE DEF q
  <2>3. /\ pod'[w].at = pod[w].at /\ pod'[w].hib = pod[w].hib /\ pod'[w].state = pod[w].state
        /\ pod'[w].live = pod[w].live /\ seen'[w].at = seen[w].at
        /\ \/ seen'[w] = seen[w]
           \/ /\ seen'[w].hib = pod'[w].hib /\ seen'[w].state = pod'[w].state
              /\ seen'[w].live = pod'[w].live /\ pod[w].at # "absent"
    <3>1. (seen[v].gen # view.gen) \in BOOLEAN
      OBVIOUS
    <3>2. CASE w # v
      BY <1>0, <2>p, <2>1, <3>1, <3>2, PatchEffect
    <3>3. CASE w = v
      <4>1. /\ seen[v].gen # view.gen => pod'[v] = q /\ SeenAs(v, q) /\ pod[v].at # "absent"
            /\ ~(seen[v].gen # view.gen) => pod'[v] = pod[v] /\ seen'[v] = seen[v]
            /\ seen'[v].at = seen[v].at
        BY <1>0, <2>p, <2>1, <3>1, PatchEffect
      <4> QED BY <2>2, <3>3, <4>1 DEF SeenAs
    <3> QED BY <3>2, <3>3
  <2>4. VmOK(w)'
    BY <1>0, <1>1, <2>3 DEF VmOK
  <2>5. SeenOK(w)'
    <3>1. CASE seen'[w] = seen[w]
      BY <1>0, <1>1, <2>1, <2>3, <3>1 DEF SeenOK, CreatePCs
    <3>2. CASE /\ seen'[w].hib = pod'[w].hib /\ seen'[w].state = pod'[w].state
               /\ seen'[w].live = pod'[w].live /\ pod[w].at # "absent"
      <4>1. pod[w].at = "terminating" /\ seen[w].at = "present" => vk[w] = "asleep" /\ ~seen'[w].live
        BY <1>0, <2>1, <2>3, <3>2 DEF SeenOK, VmOK
      <4>2. pod[w].at \in {"present", "terminating"}
        BY <1>0, <3>2 DEF Pods
      <4> QED BY <1>0, <1>1, <2>1, <2>3, <3>2, <4>1, <4>2 DEF SeenOK, CreatePCs
    <3> QED BY <2>3, <3>1, <3>2
  <2>6. LoopOK(w)'
    BY <1>0, <1>1, <2>1, <2>3 DEF LoopOK
  <2> QED BY <2>4, <2>5, <2>6 DEF LeakOK
<1>3. ASSUME NEW v \in VMs, NEW b \in BOOLEAN,
             \/ HibernateState(v) /\ b = TRUE
             \/ ClearHibernate(v) /\ b = FALSE
      PROVE  LeakOK(w)'
  <2> DEFINE q == [pod[v] EXCEPT !.hib = b]
  <2>1. /\ pc = IF b THEN "hibernate" ELSE "clear"
        /\ pc' = pc /\ v \in todo /\ todo' = todo \ {v}
        /\ PatchPod(v, seen[v].hib # b, q)
    <3>1. CASE HibernateState(v) /\ b = TRUE
      <4>1. PatchPod(v, ~seen[v].hib, [pod[v] EXCEPT !.hib = TRUE])
        BY <3>1 DEF HibernateState
      <4>2. (~seen[v].hib) = (seen[v].hib # b)
        BY <1>0, <3>1 DEF Pods
      <4> QED BY <3>1, <4>1, <4>2 DEF HibernateState, Goto
    <3>2. CASE ClearHibernate(v) /\ b = FALSE
      <4>1. PatchPod(v, seen[v].hib, [pod[v] EXCEPT !.hib = FALSE])
        BY <3>2 DEF ClearHibernate
      <4>2. seen[v].hib = (seen[v].hib # b)
        BY <1>0, <3>2 DEF Pods
      <4> QED BY <3>2, <4>1, <4>2 DEF ClearHibernate, Goto
    <3> QED BY <1>3, <3>1, <3>2
  <2>p. q \in Pods
    BY <1>0, PodRecordType
  <2>2. q.at = pod[v].at /\ q.hib = b /\ q.state = pod[v].state /\ q.live = pod[v].live
    BY <1>0 DEF Pods
  <2> HIDE DEF q
  <2>3. CASE w # v
    <3>1. pod'[w] = pod[w] /\ seen'[w] = seen[w]
      BY <1>0, <2>p, <2>1, <2>3, PatchEffect
    <3>2. VmOK(w)'
      BY <1>0, <1>1, <3>1 DEF VmOK
    <3>3. SeenOK(w)' /\ LoopOK(w)'
      BY <1>0, <1>1, <2>1, <3>1 DEF SeenOK, LoopOK, CreatePCs
    <3> QED BY <3>2, <3>3 DEF LeakOK
  <2>4. CASE w = v
    <3>1. \/ pod'[w] = pod[w] /\ seen'[w] = seen[w]
          \/ /\ pod'[w].at = pod[w].at /\ pod'[w].state = pod[w].state /\ pod'[w].hib = b
             /\ seen'[w].hib = b /\ seen'[w].state = pod'[w].state /\ seen'[w].at = seen[w].at
             /\ pod'[w].live = pod[w].live /\ seen'[w].live = pod'[w].live /\ pod[w].at # "absent"
      <4>1. (seen[v].hib # b) \in BOOLEAN
        OBVIOUS
      <4>2. CASE seen[v].hib # b
        <5>1. pod'[v] = q /\ SeenAs(v, q) /\ pod[v].at # "absent" /\ seen'[v].at = seen[v].at
          BY <1>0, <2>p, <2>1, <4>1, <4>2, PatchEffect
        <5> QED BY <2>2, <2>4, <5>1 DEF SeenAs
      <4>3. CASE ~(seen[v].hib # b)
        BY <1>0, <2>p, <2>1, <2>4, <4>1, <4>3, PatchEffect
      <4> QED BY <4>2, <4>3
    <3>2. b => w \in cs.reclaim.vms
      BY <1>0, <2>1, <2>4 DEF LoopOK
    <3>3. VmOK(w)'
      BY <1>0, <1>1, <3>1, <3>2 DEF VmOK
    <3>4. SeenOK(w)'
      <4>1. CASE pod'[w] = pod[w] /\ seen'[w] = seen[w]
        BY <1>0, <1>1, <2>1, <4>1 DEF SeenOK, CreatePCs
      <4>2. CASE /\ pod'[w].at = pod[w].at /\ pod'[w].state = pod[w].state /\ pod'[w].hib = b
                 /\ seen'[w].hib = b /\ seen'[w].state = pod'[w].state /\ seen'[w].at = seen[w].at
                 /\ pod'[w].live = pod[w].live /\ seen'[w].live = pod'[w].live /\ pod[w].at # "absent"
        <5>1. pod[w].at \in {"present", "terminating"}
          BY <1>0, <4>2 DEF Pods
        <5>2. pc = "clear" /\ pod[w].at = "terminating" /\ seen[w].at = "present" =>
                vk[w] = "asleep" /\ ~seen'[w].live
          BY <1>0, <4>2 DEF SeenOK, VmOK
        <5> QED BY <1>0, <1>1, <2>1, <4>2, <5>1, <5>2 DEF SeenOK, CreatePCs
      <4> QED BY <3>1, <4>1, <4>2
    <3>5. LoopOK(w)'
      BY <1>0, <1>1, <2>1, <2>4, <3>1, <3>2 DEF LoopOK
    <3> QED BY <3>3, <3>4, <3>5 DEF LeakOK
  <2> QED BY <2>3, <2>4
<1>4. ASSUME NEW v \in VMs, ReleaseSlot(v) \/ triagePod(v) \/ DeleteOwned(v) PROVE LeakOK(w)'
  <2>1. /\ pc \in {"release", "triage", "toolboxes", "teardown"}
        /\ pc' = pc \/ pc' = "idle"
        /\ UNCHANGED seen /\ todo' \subseteq todo
        /\ \/ pod' = pod
           \/ /\ pod' = Deleted(v)
              /\ pc \in {"triage", "toolboxes"} => PodFailed(seen[v]) /\ seen[v].at = "present"
              /\ pc \in {"release", "teardown"} => v \in todo
    BY <1>4 DEF ReleaseSlot, triagePod, DeleteOwned, Goto, Return, allByName
  <2>2. CASE w # v \/ pod' = pod
    <3>1. pod'[w] = pod[w]
      BY <1>0, <2>1, <2>2, DeletedPods
    <3>2. VmOK(w)'
      BY <1>0, <1>1, <3>1 DEF VmOK
    <3>3. SeenOK(w)' /\ LoopOK(w)'
      BY <1>0, <1>1, <2>1, <3>1 DEF SeenOK, LoopOK, CreatePCs
    <3> QED BY <3>2, <3>3 DEF LeakOK
  <2>3. CASE w = v /\ pod' # pod
    <3>1. /\ pod[w].at # "present" => pod'[w] = pod[w]
          /\ pod'[w].at # "present" /\ pod'[w].state = pod[w].state /\ pod'[w].live = pod[w].live
          /\ (pod'[w].at = "absent") <=> (pod[w].at = "absent")
      BY <1>0, <2>1, <2>3, DeletedPods
    <3>2. pc \in {"release", "teardown"} => w \in cs.names
      BY <1>0, <2>1, <2>3 DEF LoopOK, VmOK
    <3>3. pod[w].at = "present" /\ pc \in {"triage", "toolboxes"} => pod[w].state = "failed"
      BY <1>0, <2>1, <2>3 DEF SeenOK, PodFailed, VmOK
    <3>4. VmOK(w)'
      BY <1>0, <1>1, <2>1, <3>1, <3>2, <3>3 DEF VmOK, LoopOK
    <3>5. SeenOK(w)' /\ LoopOK(w)'
      BY <1>0, <1>1, <2>1, <3>1 DEF SeenOK, LoopOK, CreatePCs
    <3> QED BY <3>4, <3>5 DEF LeakOK
  <2> QED BY <2>1, <2>2, <2>3
<1>5. CASE CreatePod
  <2>1. /\ pc = "create" /\ pc' \in {"idle", "subs", "toolboxes"} /\ UNCHANGED <<seen, todo>>
        /\ pod' = [pod EXCEPT ![slot] = IF @.at = "absent" THEN NewPod(TRUE, mark, view.gen) ELSE @]
    BY <1>5 DEF CreatePod, Goto, Return
  <2>2. CASE w # slot \/ pod[slot].at # "absent"
    <3>1. pod'[w] = pod[w]
      BY <1>0, <2>1, <2>2
    <3>2. VmOK(w)'
      BY <1>0, <1>1, <3>1 DEF VmOK
    <3>3. SeenOK(w)' /\ LoopOK(w)'
      BY <1>0, <1>1, <2>1, <3>1 DEF SeenOK, LoopOK, CreatePCs
    <3> QED BY <3>2, <3>3 DEF LeakOK
  <2>3. CASE w = slot /\ pod[slot].at = "absent"
    <3>1. pod'[w] = NewPod(TRUE, mark, view.gen)
      BY <1>0, <2>1, <2>3
    <3>2. pod'[w].at = "present" /\ ~pod'[w].hib /\ pod'[w].state = "none" /\ ~pod'[w].live
      BY <3>1 DEF NewPod, NoPod
    <3>3. VmOK(w)'
      BY <1>0, <1>1, <3>2 DEF VmOK
    <3>4. SeenOK(w)' /\ LoopOK(w)'
      BY <1>0, <1>1, <2>1, <2>3, <3>2 DEF SeenOK, LoopOK, CreatePCs
    <3> QED BY <3>3, <3>4 DEF LeakOK
  <2> QED BY <2>2, <2>3
<1> QED BY <1>2, <1>3, <1>4, <1>5

(* The steps of a pass that delete a tag or write a record. *)
LEMMA LeakRecords ==
    ASSUME SuspendInv, LeakInv, NEW w \in VMs,
           \/ DropWoken \/ applySuspend \/ applyUnsuspend \/ ForgetSuspended \/ EndReclaim \/ EndForks
           \/ StashReleased \/ reconcileDelete \/ RemoveFinalizer
           \/ \E v \in VMs : DeleteManifestIfPresent(v) \/ CollectTag(v)
    PROVE  LeakOK(w)'
<1>0. /\ SeenOK(w) /\ VmOK(w) /\ LoopOK(w) /\ Main \in VMs
      /\ tag \in [VMs -> {"none", "fresh", "stale"}]
      /\ cs \in Sets /\ cs.reclaim \in Reclaims /\ Closed(cs.reclaim)
      /\ got \in SUBSET VMs /\ view.gen \in Generations
      /\ allByName \in SUBSET VMs /\ hibernated \in SUBSET VMs
  BY MainIsVM DEF LeakInv, LeakOK, SuspendInv, ClusterTypeOK, SetInv, PassInv, Sets, allByName, hibernated
<1>1. UNCHANGED <<pod, vk, seen, slot>>
  BY DEF DropWoken, applySuspend, applyUnsuspend, ForgetSuspended, EndReclaim, EndForks, StashReleased,
         reconcileDelete, RemoveFinalizer, DeleteManifestIfPresent, CollectTag, clusterVars
<1>c. ASSUME pc # "idle" PROVE view.reclaim = cs.reclaim /\ view.names = cs.names /\ view.listed = cs.listed
  BY <1>c DEF SuspendInv, SetInv, Tracks
<1>2. ASSUME NEW v \in VMs, \/ DropWoken \/ DeleteManifestIfPresent(v) \/ CollectTag(v)
      PROVE  LeakOK(w)'
  <2>1. /\ cs' = cs /\ (tag'[w] = tag[w] \/ tag'[w] = "none")
        /\ \/ pc = "dropWoken" /\ pc' = "clearHint" /\ UNCHANGED <<got, todo>>
           \/ /\ pc \in {"reclaim", "forks"} /\ pc' = pc /\ v \in todo
              /\ todo' = todo \ {v} /\ got' = got \cup {v} /\ tag'[v] = "none"
           \/ /\ pc = "gc" /\ pc' = pc /\ v \in todo
              /\ todo' = todo \ {v} /\ got' = got /\ tag'[v] = "none"
    BY <1>0, <1>2 DEF DropWoken, DeleteManifestIfPresent, CollectTag, Goto
  <2>2. VmOK(w)'
    BY <1>0, <1>1, <2>1 DEF VmOK
  <2>3. SeenOK(w)'
    BY <1>0, <1>1, <2>1 DEF SeenOK, CreatePCs
  <2>4. LoopOK(w)'
    BY <1>0, <1>1, <2>1 DEF LoopOK
  <2> QED BY <2>2, <2>3, <2>4 DEF LeakOK
<1>3. CASE applySuspend
  <2> DEFINE r == [cs.reclaim EXCEPT !.vms = @ \cup allByName, !.suspended = @ \cup allByName]
  <2>1. r \in Reclaims /\ Closed(r) /\ r.vms = cs.reclaim.vms \cup allByName
    BY <1>0 DEF Reclaims, Closed
  <2>2. pc = "record" /\ pc' = "hibernate" /\ todo' = allByName /\ UNCHANGED <<got, tag>>
    BY <1>3 DEF applySuspend, Goto, clusterVars
  <2>3. writeHibernateReclaim(r)
    BY <1>3, <1>c, <2>2 DEF applySuspend
  <2> HIDE DEF r
  <2>4. cs'.reclaim = (IF r.vms = {} THEN NoReclaim ELSE r) /\ cs'.at = cs.at /\ cs'.names = cs.names
    BY <2>1, <2>2, <2>3, ReclaimWritten DEF SuspendInv, DeletePCs
  <2>5. cs'.reclaim.vms = cs.reclaim.vms \cup allByName
    BY <2>1, <2>4 DEF NoReclaim
  <2>6. VmOK(w)'
    BY <1>0, <1>1, <2>2, <2>4, <2>5 DEF VmOK
  <2>7. SeenOK(w)' /\ LoopOK(w)'
    BY <1>0, <1>1, <2>2, <2>4, <2>5 DEF SeenOK, LoopOK, CreatePCs, allByName
  <2> QED BY <2>6, <2>7 DEF LeakOK
<1>4. CASE applyUnsuspend \/ ForgetSuspended
  <2>1. /\ pc \in {"unsuspend", "clear"} /\ pc' \in {"clear", "status", "reclaim"}
        /\ UNCHANGED <<got, tag>>
    BY <1>4 DEF applyUnsuspend, ForgetSuspended, Unsuspended, Goto, clusterVars
  <2>2. cs'.reclaim.vms \in {cs.reclaim.vms, cs.reclaim.vms \cup hibernated} /\ cs'.at = cs.at /\ cs'.names = cs.names
    <3>1. CASE cs' = cs
      BY <3>1
    <3>2. CASE applyUnsuspend /\ cs' # cs
      <4>1. OwedBy(cs.reclaim) \in Reclaims /\ Closed(OwedBy(cs.reclaim))
            /\ OwedBy(cs.reclaim).vms = cs.reclaim.vms \cup hibernated
        BY <1>0 DEF OwedBy, Reclaims, Closed
      <4>2. writeHibernateReclaim(OwedBy(cs.reclaim))
        BY <1>c, <2>1, <3>2 DEF applyUnsuspend
      <4>3. /\ cs'.reclaim = (IF OwedBy(cs.reclaim).vms = {} THEN NoReclaim ELSE OwedBy(cs.reclaim))
            /\ cs'.at = cs.at /\ cs'.names = cs.names
        BY <2>1, <4>1, <4>2, ReclaimWritten DEF SuspendInv, DeletePCs
      <4> QED BY <4>1, <4>3 DEF NoReclaim
    <3>3. CASE ForgetSuspended
      <4> DEFINE r == [cs.reclaim EXCEPT !.suspended = {}]
      <4>1. r \in Reclaims /\ Closed(r) /\ r.vms = cs.reclaim.vms
        BY <1>0 DEF Reclaims, Closed
      <4>2. writeHibernateReclaim(r)
        BY <1>c, <2>1, <3>3 DEF ForgetSuspended
      <4> HIDE DEF r
      <4>3. cs'.reclaim = (IF r.vms = {} THEN NoReclaim ELSE r) /\ cs'.at = cs.at /\ cs'.names = cs.names
        BY <2>1, <4>1, <4>2, ReclaimWritten DEF SuspendInv, DeletePCs
      <4> QED BY <4>1, <4>3 DEF NoReclaim
    <3> QED BY <1>4, <3>1, <3>2, <3>3
  <2>3. pc' = "reclaim" /\ w \in todo' => seen[w].at = "present" /\ ~seen[w].hib /\ seen[w].live
    BY <1>4, <2>1 DEF applyUnsuspend, ForgetSuspended, Unsuspended, wokenAt, allByName, Goto
  <2>4. VmOK(w)'
    BY <1>0, <1>1, <2>1, <2>2 DEF VmOK
  <2>5. SeenOK(w)'
    BY <1>0, <1>1, <2>1 DEF SeenOK, CreatePCs
  <2>6. LoopOK(w)'
    BY <1>0, <1>1, <2>1, <2>2, <2>3 DEF LoopOK, SeenOK
  <2> QED BY <2>4, <2>5, <2>6 DEF LeakOK
<1>5. CASE EndReclaim \/ EndForks
  <2>1. /\ pc \in {"reclaim", "forks"} /\ pc' \in {"idle", "main", "status", "triage", "subs"}
        /\ pc' = "triage" => pc = "reclaim"
        /\ got' = {} /\ UNCHANGED tag /\ writeHibernateReclaim(Without(cs.reclaim, got))
    BY <1>5, <1>c DEF EndReclaim, EndForks, forgetReclaim, Goto, Return, clusterVars
  <2>2. /\ Without(cs.reclaim, got) \in Reclaims /\ Closed(Without(cs.reclaim, got))
        /\ Without(cs.reclaim, got).vms = cs.reclaim.vms \ got
    BY <1>0 DEF Without, Reclaims, Closed
  <2>3. /\ cs'.reclaim = (IF Without(cs.reclaim, got).vms = {} THEN NoReclaim ELSE Without(cs.reclaim, got))
        /\ cs'.at = cs.at /\ cs'.names = cs.names
    BY <2>1, <2>2, ReclaimWritten DEF SuspendInv, DeletePCs
  <2>4. cs'.reclaim.vms = cs.reclaim.vms \ got
    BY <2>2, <2>3 DEF NoReclaim
  <2>5. VmOK(w)'
    BY <1>0, <1>1, <2>1, <2>3, <2>4 DEF VmOK, LoopOK
  <2>6. SeenOK(w)' /\ LoopOK(w)'
    BY <1>0, <1>1, <2>1, <2>3 DEF SeenOK, LoopOK, CreatePCs
  <2> QED BY <2>5, <2>6 DEF LeakOK
<1>6. CASE StashReleased \/ reconcileDelete
  <2>1. /\ pc \in {"stash", "stashAll"} /\ pc' \in {"hint", "teardown", "gc"} /\ UNCHANGED <<got, tag>>
        /\ pc' = "hint" <=> pc = "stash"
    BY <1>6 DEF StashReleased, reconcileDelete, Goto, clusterVars
  <2> DEFINE names == cs.listed \cup cs.names \cup cs.reclaim.vms
                      \cup (IF pc = "stash" THEN allByName ELSE owned)
  <2>2. PatchSet(view.names # names, [cs EXCEPT !.names = names])
    BY <1>6, <1>c, <2>1 DEF StashReleased, reconcileDelete, stashDeleteVMNames
  <2>3. /\ [cs EXCEPT !.names = names].names = names /\ [cs EXCEPT !.names = names].at = cs.at
        /\ [cs EXCEPT !.names = names].reclaim = cs.reclaim
    BY <1>0 DEF Sets
  <2>4. cs'.names = names /\ cs'.at = cs.at /\ cs'.reclaim = cs.reclaim /\ view'.names = names
    BY <1>c, <2>1, <2>2, <2>3 DEF PatchSet
  <2>5. VmOK(w)'
    BY <1>0, <1>1, <2>1, <2>4 DEF VmOK
  <2>6. SeenOK(w)'
    BY <1>0, <1>1, <2>1 DEF SeenOK, CreatePCs
  <2>7. CASE pc' = "hint"
    <3>1. LoopOK(w)'
      BY <1>0, <1>1, <2>1, <2>4, <2>7 DEF LoopOK, allByName
    <3> QED BY <2>5, <2>6, <3>1 DEF LeakOK
  <2>8. CASE pc' = "teardown"
    <3>1. todo' = owned
      BY <1>6, <2>1, <2>8 DEF StashReleased, reconcileDelete, Goto
    <3>2. LoopOK(w)'
      BY <1>0, <1>1, <2>1, <2>4, <2>8, <3>1 DEF LoopOK
    <3> QED BY <2>5, <2>6, <3>2 DEF LeakOK
  <2>9. CASE pc' = "gc"
    <3>1. todo' = names /\ owned = {}
      BY <1>6, <2>1, <2>4, <2>9 DEF StashReleased, reconcileDelete, Goto
    <3>2. pod[w].at = "absent"
      BY <1>0, <2>1, <2>9, <3>1 DEF SeenOK, CreatePCs, owned
    <3>3. LoopOK(w)'
      BY <1>0, <1>1, <2>1, <2>4, <2>9, <3>1, <3>2 DEF LoopOK, VmOK
    <3> QED BY <2>5, <2>6, <3>3 DEF LeakOK
  <2> QED BY <2>1, <2>7, <2>8, <2>9
<1>7. CASE RemoveFinalizer
  <2>1. /\ pc = "gc" /\ todo = {} /\ pc' = "idle" /\ UNCHANGED <<got, tag, todo>>
        /\ cs' \in {cs, [cs EXCEPT !.at = "gone"]}
    BY <1>7 DEF RemoveFinalizer, Return, clusterVars
  <2>2. cs'.reclaim = cs.reclaim /\ cs'.names = cs.names
    BY <1>0, <2>1 DEF Sets
  <2>3. VmOK(w)'
    BY <1>0, <1>1, <2>1, <2>2 DEF VmOK
  <2>4. SeenOK(w)' /\ LoopOK(w)'
    BY <1>0, <1>1, <2>1 DEF SeenOK, LoopOK, CreatePCs
  <2> QED BY <2>3, <2>4 DEF LeakOK
<1> QED BY <1>2, <1>3, <1>4, <1>5, <1>6, <1>7

(* A set that goes leaves no pod and no :hibernate tag, for any slots, policies,
   generations and edits, through restarts and failed calls, as long as vk-cocoon
   fails no transition and the user deletes only pods that sleep: reconcileDelete
   collects names only once no pod is left, and each of them was written down first. *)
THEOREM DeleteCollectsAll ==
    ASSUME VkMayFail = FALSE, UserDeletes = "asleep"
    PROVE  Spec => []DeleteLeavesNothing
<1> DEFINE Inv == SuspendInv /\ LeakInv
<1>1. Init => LeakInv
  <2> SUFFICES ASSUME Init, NEW v \in VMs PROVE LeakOK(v)
    BY DEF LeakInv
  <2>1. /\ pc = "idle" /\ cs.at = "live" /\ tag[v] = "none" /\ vk[v] = "running"
        /\ pod[v].at = "present" /\ ~pod[v].hib /\ pod[v].state = "ready"
    BY DEF Init, ClusterInit, NewPod, NoPod
  <2> QED BY <2>1 DEF LeakOK, SeenOK, VmOK, LoopOK, CreatePCs
<1>2. Inv /\ [Next]_vars => Inv'
  <2> SUFFICES ASSUME Inv, [Next]_vars PROVE SuspendInv' /\ LeakInv'
    OBVIOUS
  <2>1. SuspendInv'
    BY SuspendStep
  <2>2. ASSUME NEW w \in VMs PROVE LeakOK(w)'
    BY LeakOutside, LeakControl, LeakPods, LeakRecords DEF Next, PassStep, VkFails
  <2>3. LeakInv'
    BY <2>2 DEF LeakInv
  <2> QED BY <2>1, <2>3
<1>3. Inv => DeleteLeavesNothing
  BY DEF LeakInv, LeakOK, LoopOK, DeleteLeavesNothing
<1> QED BY <1>1, <1>2, <1>3, SuspendInit, PTL DEF Spec

-----------------------------------------------------------------------------
(* Rounds of suspend and un-suspend under the retain policy: why no tag is lost sight
   of, none is dropped that a VM needs, and no set is called Suspended too early *)

(* The set is live, or a pass that began while it was is still under way. *)
Alive == cs.at = "live" \/ pc \notin {"idle", "stashAll", "teardown", "gc"}

(* A generation older than the spec's, or the spec's own when that one suspends: no
   un-suspend has been recorded at it. *)
Before(g) == g < cs.gen \/ (g = cs.gen /\ cs.suspend)

(* The generation a VM reports, or will report when it has woken. *)
Mark(v) == IF vk[v] = "waking" THEN vkGen[v] ELSE pod[v].obs

(* v is to hibernate and does not sleep yet. *)
Awaited(v) == pod[v].hib /\ vk[v] # "asleep"

(* v sleeps, and nobody has asked it to wake. *)
Saved(v) == pod[v].hib /\ vk[v] = "asleep"

(* The record's generation is one at which the spec did not suspend. *)
SpecOK ==
    /\ 0 < cs.gen /\ cs.reclaim.gen <= cs.gen /\ (cs.reclaim.gen = cs.gen => ~cs.suspend)
    /\ pc # "idle" =>
         /\ 0 < view.gen /\ cs.reclaim.gen <= view.gen /\ (cs.reclaim.gen = view.gen => ~view.suspend)
         /\ view.gen = cs.gen => view.suspend = cs.suspend

(* Where a pass is never found, and what is settled where it is. *)
PathOK ==
    /\ pc \notin {"stash", "hint", "release", "wake", "waking", "dropWoken", "clearHint", "main",
                "sleepingMain", "create"}
    /\ pc \in {"record", "hibernate", "observe", "clearDeadline"} => ~last.again
    /\ cs.phase # "Waking" /\ last.phase # "Waking" /\ (pc # "idle" => view.phase # "Waking")
    /\ last.phase = "Suspended" =>
         pc \in {"idle", "record", "hibernate", "observe", "deadline", "clearDeadline", "status"}
    /\ pc \in {"record", "hibernate", "observe"} => cs.reclaim.gen < view.gen
    /\ pc \in {"confirm", "unsuspend"} => ~view.suspend

(* Every slot keeps its pod, and the pass knows its annotation. *)
PresentOK(v) ==
    /\ pod[v].at = "present" /\ ~pod[v].restore /\ pod[v].state # "failed" /\ vk[v] # "off"
    /\ pc # "idle" => /\ seen[v].at = "present" /\ ~seen[v].restore /\ seen[v].state # "failed"
                      /\ seen[v].hib = pod[v].hib

ClockOK(v) ==
    /\ pod[v].obs <= pod[v].gen /\ vkGen[v] <= pod[v].gen /\ pod[v].gen <= cs.gen
    /\ pc # "idle" => pod[v].gen <= view.gen

(* Where a VM is in its round.  A VM that is asked to hibernate answers with a report
   from before the next un-suspend; one that still pushes after it was asked to wake, or
   that has not woken yet, reports nothing as late as the record's generation asks. *)
RoundOK(v) ==
    /\ pod[v].hib \/ vk[v] # "running" \/ tag[v] # "none" => v \in cs.reclaim.vms
    /\ Awaited(v) => Before(Mark(v))
    /\ ~pod[v].hib /\ vk[v] \in {"pushing", "pushed"} =>
         pod[v].obs < cs.reclaim.gen /\ vkGen[v] <= cs.reclaim.gen
    /\ (vk[v] = "asleep" /\ ~pod[v].hib) \/ vk[v] = "waking" => pod[v].obs <= cs.reclaim.gen
    /\ (pod[v].state = "hibernated") <=> (vk[v] \in {"asleep", "waking"})
    /\ (tag[v] = "fresh") <=> (vk[v] \in {"pushed", "asleep", "waking"})

(* What the steps of a pass have established when they act on v. *)
StepOK(v) ==
    /\ pc \in {"record", "hibernate"} => Before(pod[v].gen)
    /\ pc = "hibernate" => v \in cs.reclaim.vms
    /\ (pc = "stamp" /\ view.suspend) \/ pc \in {"record", "hibernate", "observe"} =>
         (HibernatedAt(seen[v], view.gen) => Saved(v))
    /\ (pc = "observe" /\ v \notin todo) \/ pc = "clearDeadline"
         \/ (pc = "status" /\ last.phase = "Suspended") => Saved(v)
    /\ (pc = "stamp" /\ ~view.suspend) \/ pc \in {"confirm", "unsuspend"} =>
         (Awaited(v) => Mark(v) < view.gen)
    /\ pc = "clear" => /\ Awaited(v) => Mark(v) < cs.reclaim.gen
                       /\ pod[v].hib => pod[v].gen <= cs.reclaim.gen
    /\ pc \in {"stamp", "confirm", "unsuspend", "clear"} =>
         (wokenAt(seen[v], cs.reclaim.gen) => vk[v] = "running")
    /\ pc \notin {"idle", "reclaim"} => v \notin got
    /\ pc = "reclaim" => (v \in todo \cup got => vk[v] = "running" /\ ~pod[v].hib)
    /\ pc = "reclaim" => (v \in got => tag[v] = "none")
    /\ pc = "forks" => v \notin todo

RoundsOK(v) == PresentOK(v) /\ ClockOK(v) /\ RoundOK(v) /\ StepOK(v)
OwedOK == SpecOK /\ PathOK /\ \A v \in VMs : RoundsOK(v)
OwedInv == Alive => OwedOK

SameClock(v) == SameVM(v) /\ vkGen'[v] = vkGen[v]
SameSpec == /\ cs'.gen = cs.gen /\ cs'.suspend = cs.suspend
            /\ \/ view'.gen = view.gen /\ view'.suspend = view.suspend
               \/ view'.gen = cs.gen /\ view'.suspend = cs.suspend

(* Every step of vk-cocoon, on any pod. *)
LEMMA VkTurns ==
    ASSUME ClusterTypeOK, NEW v \in VMs, VkStep(v)
    PROVE  /\ \A w \in VMs : w # v => SameClock(w)
           /\ \/ /\ pod'[v].at = pod[v].at /\ pod'[v].hib = pod[v].hib /\ pod'[v].gen = pod[v].gen
                 /\ pod'[v].restore = pod[v].restore
              \/ pod[v].at = "terminating" /\ pod'[v] = NoPod /\ vk'[v] = "off"
           /\ \/ /\ pod[v].at = "present" /\ vk[v] = "off" /\ vk'[v] = "running" /\ tag'[v] \in {"none", "stale"}
                 /\ pod'[v].state = "ready" /\ pod'[v].obs = pod[v].gen /\ vkGen'[v] = vkGen[v]
              \/ /\ pod[v].at = "present" /\ vk[v] = "off" /\ vk'[v] = "off" /\ tag'[v] = tag[v]
                 /\ pod'[v].state = "failed" /\ pod'[v].obs = pod[v].gen /\ vkGen'[v] = vkGen[v]
              \/ /\ pod[v].at = "present" /\ vk[v] = "off" /\ vk'[v] = "waking" /\ tag'[v] = tag[v]
                 /\ pod'[v] = pod[v] /\ vkGen'[v] = pod[v].gen /\ pod[v].restore
              \/ /\ vk[v] = "running" /\ vk'[v] = "pushing" /\ pod[v].hib /\ tag'[v] = tag[v]
                 /\ pod'[v] = pod[v] /\ vkGen'[v] = pod[v].gen /\ pod[v].at = "present"
              \/ /\ vk[v] = "asleep" /\ vk'[v] = "waking" /\ ~pod[v].hib /\ tag'[v] = tag[v]
                 /\ pod'[v] = pod[v] /\ vkGen'[v] = pod[v].gen /\ pod[v].at = "present"
              \/ /\ vk[v] = "pushing" /\ vk'[v] = "pushed" /\ tag'[v] = "fresh"
                 /\ pod'[v] = pod[v] /\ vkGen'[v] = vkGen[v]
              \/ /\ vk[v] = "pushed" /\ vk'[v] = "asleep" /\ tag'[v] = tag[v]
                 /\ pod'[v].state = "hibernated" /\ pod'[v].obs = vkGen[v] /\ vkGen'[v] = vkGen[v]
                 /\ pod[v].at # "absent"
              \/ /\ vk[v] = "waking" /\ vk'[v] = "running" /\ tag[v] # "none" /\ tag'[v] = "stale"
                 /\ pod'[v].state = "ready" /\ pod'[v].obs = vkGen[v] /\ vkGen'[v] = vkGen[v]
                 /\ pod[v].at # "absent"
              \/ /\ vk[v] = "running" /\ vk'[v] = "running" /\ ~pod[v].hib /\ tag'[v] = tag[v]
                 /\ pod'[v].state = "ready" /\ pod'[v].obs = pod[v].gen /\ vkGen'[v] = vkGen[v]
                 /\ pod[v].at = "present"
              \/ /\ vk[v] = "asleep" /\ vk'[v] = "asleep" /\ pod[v].hib /\ tag'[v] = tag[v]
                 /\ pod'[v].state = "hibernated" /\ pod'[v].obs = pod[v].gen /\ vkGen'[v] = vkGen[v]
                 /\ pod[v].at = "present"
              \/ /\ pod[v].at = "terminating" /\ vk'[v] = "off" /\ tag'[v] = tag[v]
                 /\ pod'[v] = NoPod /\ vkGen'[v] = vkGen[v] /\ vk[v] # "pushing"
<1> USE DEF SameVM, SameClock
<1>0. /\ pod[v] \in Pods /\ vk \in [VMs -> VkStates] /\ tag \in [VMs -> {"none", "fresh", "stale"}]
      /\ pod \in [VMs -> Pods] /\ vkGen \in [VMs -> Generations]
  BY DEF ClusterTypeOK
<1>r. ASSUME NEW s, NEW g, NEW l, Report(v, s, g, l)
      PROVE  /\ pod'[v].at = pod[v].at /\ pod'[v].hib = pod[v].hib /\ pod'[v].gen = pod[v].gen
             /\ pod'[v].restore = pod[v].restore /\ pod'[v].state = s /\ pod'[v].obs = g
             /\ \A w \in VMs : w # v => pod'[w] = pod[w]
  <2>1. pod' = [pod EXCEPT ![v] = [pod[v] EXCEPT !.state = s, !.obs = g, !.live = l, !.named = TRUE]]
    BY <1>r DEF Report
  <2>2. pod'[v] = [pod[v] EXCEPT !.state = s, !.obs = g, !.live = l, !.named = TRUE]
    BY <1>0, <2>1
  <2>3. \A w \in VMs : w # v => pod'[w] = pod[w]
    BY <1>0, <2>1
  <2> QED BY <1>0, <2>2, <2>3 DEF Pods
<1>1. CASE VkBoot(v)
  <2>1. Report(v, "ready", pod[v].gen, TRUE)
    BY <1>1 DEF VkBoot
  <2>2. /\ pod[v].at = "present" /\ vk[v] = "off" /\ vk'[v] = "running" /\ tag'[v] \in {"none", "stale"}
        /\ vkGen' = vkGen /\ \A w \in VMs : w # v => vk'[w] = vk[w] /\ tag'[w] = tag[w]
    BY <1>0, <1>1 DEF VkBoot, Spent
  <2> QED BY <1>r, <2>1, <2>2
<1>2. CASE VkRefuse(v)
  <2>1. Report(v, "failed", pod[v].gen, FALSE)
    BY <1>2 DEF VkRefuse
  <2> QED BY <1>2, <1>r, <2>1 DEF VkRefuse
<1>3. CASE VkRestore(v) \/ VkHibernate(v) \/ VkWake(v)
  BY <1>0, <1>3 DEF VkRestore, VkHibernate, VkWake, VkStart
<1>4. CASE VkPush(v)
  BY <1>0, <1>4 DEF VkPush
<1>5. CASE VkReportHibernated(v)
  <2>1. Report(v, "hibernated", vkGen[v], FALSE)
    BY <1>5 DEF VkReportHibernated
  <2>2. /\ vk[v] = "pushed" /\ vk'[v] = "asleep" /\ tag' = tag /\ vkGen' = vkGen /\ pod[v].at # "absent"
        /\ \A w \in VMs : w # v => vk'[w] = vk[w]
    BY <1>0, <1>5 DEF VkReportHibernated
  <2> QED BY <1>r, <2>1, <2>2
<1>6. CASE VkWoken(v)
  <2>1. Report(v, "ready", vkGen[v], TRUE)
    BY <1>6 DEF VkWoken
  <2>2. /\ vk[v] = "waking" /\ vk'[v] = "running" /\ tag[v] # "none" /\ tag'[v] = "stale"
        /\ vkGen' = vkGen /\ pod[v].at # "absent"
        /\ \A w \in VMs : w # v => vk'[w] = vk[w] /\ tag'[w] = tag[w]
    BY <1>0, <1>6 DEF VkWoken, Spent
  <2> QED BY <1>r, <2>1, <2>2
<1>7. CASE VkEcho(v)
  <2>1. PICK rest \in {[of |-> "running", hib |-> FALSE, state |-> "ready"],
                       [of |-> "asleep", hib |-> TRUE, state |-> "hibernated"]} :
          /\ vk[v] = rest.of /\ pod[v].hib = rest.hib
          /\ pod' = [pod EXCEPT ![v].state = rest.state, ![v].obs = pod[v].gen]
    BY <1>7 DEF VkEcho
  <2>2. pod' = [pod EXCEPT ![v] = [pod[v] EXCEPT !.state = rest.state, !.obs = pod[v].gen]]
    BY <2>1
  <2>3. pod'[v] = [pod[v] EXCEPT !.state = rest.state, !.obs = pod[v].gen]
    BY <1>0, <2>2
  <2>4. /\ pod'[v].at = pod[v].at /\ pod'[v].hib = pod[v].hib /\ pod'[v].gen = pod[v].gen
        /\ pod'[v].restore = pod[v].restore /\ pod'[v].state = rest.state /\ pod'[v].obs = pod[v].gen
    BY <1>0, <2>3 DEF Pods
  <2>5. \A w \in VMs : w # v => pod'[w] = pod[w]
    BY <1>0, <2>2
  <2>6. tag' = tag /\ vk' = vk /\ vkGen' = vkGen /\ pod[v].at = "present"
    BY <1>7 DEF VkEcho
  <2> QED BY <1>0, <2>1, <2>4, <2>5, <2>6
<1>8. CASE VkDelete(v)
  <2>1. /\ pod[v].at = "terminating" /\ pod'[v] = NoPod /\ vk'[v] = "off" /\ vk[v] # "pushing"
        /\ tag' = tag /\ vkGen' = vkGen
        /\ \A w \in VMs : w # v => pod'[w] = pod[w] /\ vk'[w] = vk[w]
    BY <1>0, <1>8 DEF VkDelete
  <2> QED BY <2>1
<1> QED BY <1>1, <1>2, <1>3, <1>4, <1>5, <1>6, <1>7, <1>8 DEF VkStep

(* A step of vk-cocoon on a pod that is there, not marked for a restore and not failed. *)
LEMMA VkMoves ==
    ASSUME ClusterTypeOK, NEW v \in VMs, VkStep(v), PresentOK(v)
    PROVE  /\ \A w \in VMs : w # v => SameClock(w)
           /\ pod'[v].at = "present" /\ pod'[v].hib = pod[v].hib /\ pod'[v].gen = pod[v].gen
           /\ ~pod'[v].restore
           /\ \/ /\ vk[v] = "running" /\ vk'[v] = "pushing" /\ pod[v].hib /\ tag'[v] = tag[v]
                 /\ pod'[v] = pod[v] /\ vkGen'[v] = pod[v].gen
              \/ /\ vk[v] = "asleep" /\ vk'[v] = "waking" /\ ~pod[v].hib /\ tag'[v] = tag[v]
                 /\ pod'[v] = pod[v] /\ vkGen'[v] = pod[v].gen
              \/ /\ vk[v] = "pushing" /\ vk'[v] = "pushed" /\ tag'[v] = "fresh"
                 /\ pod'[v] = pod[v] /\ vkGen'[v] = vkGen[v]
              \/ /\ vk[v] = "pushed" /\ vk'[v] = "asleep" /\ tag'[v] = tag[v]
                 /\ pod'[v].state = "hibernated" /\ pod'[v].obs = vkGen[v] /\ vkGen'[v] = vkGen[v]
              \/ /\ vk[v] = "waking" /\ vk'[v] = "running" /\ tag'[v] = "stale"
                 /\ pod'[v].state = "ready" /\ pod'[v].obs = vkGen[v] /\ vkGen'[v] = vkGen[v]
              \/ /\ vk[v] = "running" /\ vk'[v] = "running" /\ ~pod[v].hib /\ tag'[v] = tag[v]
                 /\ pod'[v].state = "ready" /\ pod'[v].obs = pod[v].gen /\ vkGen'[v] = vkGen[v]
              \/ /\ vk[v] = "asleep" /\ vk'[v] = "asleep" /\ pod[v].hib /\ tag'[v] = tag[v]
                 /\ pod'[v].state = "hibernated" /\ pod'[v].obs = pod[v].gen /\ vkGen'[v] = vkGen[v]
BY VkTurns DEF PresentOK

(* The numbers compared. *)
LEMMA Clocks ==
    ASSUME SuspendInv, NEW v \in VMs
    PROVE  /\ pod[v].gen \in Nat /\ pod[v].obs \in Nat /\ vkGen[v] \in Nat
           /\ seen[v].obs \in Nat /\ seen[v].gen \in Nat
           /\ cs.gen \in Nat /\ view.gen \in Nat /\ cs.reclaim.gen \in Nat
           /\ cs.suspend \in BOOLEAN /\ view.suspend \in BOOLEAN /\ pod[v].hib \in BOOLEAN
           /\ seen[v].hib \in BOOLEAN
           /\ pc # "idle" => view.gen <= cs.gen /\ view.reclaim = cs.reclaim
<1>1. pod[v] \in Pods /\ seen[v] \in Pods /\ cs \in Sets /\ view \in Sets /\ vkGen[v] \in Generations
  BY DEF SuspendInv, ClusterTypeOK, SetInv, PassInv
<1>2. cs.reclaim \in Reclaims
  BY <1>1 DEF Sets
<1>3. pc # "idle" => Tracks
  BY DEF SuspendInv, SetInv
<1> QED BY <1>1, <1>2, <1>3, ClusterAssumption DEF Pods, Sets, Reclaims, Generations, Tracks

(* A pod's own numbers and state decide that its VM has woken for good. *)
LEMMA Woken ==
    ASSUME SuspendInv, NEW v \in VMs, PresentOK(v), RoundOK(v)
    PROVE  wokenAt(pod[v], cs.reclaim.gen) => vk[v] = "running"
<1>1. vk[v] \in VkStates
  BY DEF SuspendInv, ClusterTypeOK
<1> QED BY <1>1, Clocks DEF PresentOK, RoundOK, wokenAt, VkStates

(* A report of this suspend's generation is a VM that sleeps for it. *)
LEMMA SavedAt ==
    ASSUME SuspendInv, NEW v \in VMs, RoundOK(v), cs.reclaim.gen < view.gen,
           HibernatedAt(pod[v], view.gen)
    PROVE  Saved(v)
BY Clocks DEF RoundOK, HibernatedAt, Saved

(* The control of a pass leaves the rounds alone. *)
LEMMA RoundsKept ==
    ASSUME SuspendInv, NEW w \in VMs, RoundsOK(w), SameClock(w), SameSpec,
           seen'[w] = seen[w], got' = got, cs'.reclaim = cs.reclaim,
           pc # "idle",
           pc' \in {"record", "hibernate"} => pc = pc' /\ view' = view,
           pc' \in {"observe", "reclaim", "forks"} => pc = pc' /\ (w \in todo' <=> w \in todo) /\ view' = view,
           pc' = "clearDeadline" \/ (pc' = "status" /\ last'.phase = "Suspended") =>
             Saved(w),
           pc' \in {"confirm", "unsuspend"} =>
             view' = view /\ (pc \in {"confirm", "unsuspend"} \/ (pc = "stamp" /\ ~view.suspend)),
           pc' \notin {"stamp", "clear"},
           pc = "reclaim" => pc' \in {"idle", "reclaim"}
    PROVE  RoundsOK(w)'
<1>0. PresentOK(w) /\ ClockOK(w) /\ RoundOK(w) /\ StepOK(w)
  BY DEF RoundsOK
<1>1. PresentOK(w)'
  BY <1>0 DEF PresentOK, SameClock, SameVM
<1>2. ClockOK(w)'
  BY <1>0, Clocks DEF ClockOK, SameClock, SameVM, SameSpec
<1>3. RoundOK(w)'
  BY <1>0 DEF RoundOK, SameClock, SameVM, SameSpec, Awaited, Before, Mark
<1>4. StepOK(w)'
  BY <1>0 DEF StepOK, SameClock, SameVM, SameSpec, Awaited, Before, Mark, Saved
<1> QED BY <1>1, <1>2, <1>3, <1>4 DEF RoundsOK
(* What happens outside a pass: vk-cocoon, the user, time. *)
LEMMA RoundsOutside ==
    ASSUME SuspendInv, OwedOK, SuspendInv', NEW w \in VMs,
           \/ EditSpec \/ DeleteSet \/ DeadlinePasses \/ UNCHANGED vars
           \/ \E v \in VMs : VkActs(v)
    PROVE  SpecOK' /\ PathOK' /\ RoundsOK(w)'
<1>0. /\ PresentOK(w) /\ ClockOK(w) /\ RoundOK(w) /\ StepOK(w) /\ SpecOK /\ PathOK
      /\ cs \in Sets /\ ClusterTypeOK
  BY DEF OwedOK, RoundsOK, SuspendInv, SetInv
<1>1. UNCHANGED <<pc, view, seen, todo, got, last>>
  BY DEF EditSpec, DeleteSet, DeadlinePasses, vars, VkActs, passVars
<1>2. CASE EditSpec
  <2>1. PICK b \in BOOLEAN, p \in Policies : cs' = [cs EXCEPT !.gen = @ + 1, !.suspend = b, !.policy = p]
    BY <1>2 DEF EditSpec
  <2>2. cs'.gen = cs.gen + 1 /\ cs'.reclaim = cs.reclaim /\ cs'.phase = cs.phase
    BY <1>0, <2>1 DEF Sets
  <2>3. SameClock(w)
    BY <1>2 DEF EditSpec, clusterVars, SameClock, SameVM
  <2>4. SpecOK'
    BY <1>0, <1>1, <2>2, Clocks DEF SpecOK
  <2>5. PathOK'
    BY <1>0, <1>1, <2>2 DEF PathOK
  <2>6. PresentOK(w)' /\ ClockOK(w)'
    BY <1>0, <1>1, <2>2, <2>3, Clocks DEF PresentOK, ClockOK, SameClock, SameVM
  <2>7. \A g \in Nat : g <= cs.gen => Before(g)'
    BY <2>2, Clocks DEF Before
  <2>8. Mark(w) \in Nat /\ Mark(w) <= cs.gen /\ Mark(w)' = Mark(w) /\ (Awaited(w)' <=> Awaited(w))
    BY <1>0, <2>3, Clocks DEF Mark, ClockOK, SameClock, SameVM, Awaited
  <2>9. RoundOK(w)'
    <3>1. Awaited(w)' => Before(Mark(w))'
      BY <2>7, <2>8
    <3> QED BY <1>0, <2>2, <2>3, <3>1 DEF RoundOK, SameClock, SameVM
  <2>10. StepOK(w)'
    <3>1. pod'[w].gen = pod[w].gen /\ Before(pod[w].gen)'
      BY <1>0, <2>3, <2>7, Clocks DEF ClockOK, SameClock, SameVM
    <3> QED BY <1>0, <1>1, <2>2, <2>3, <2>8, <3>1 DEF StepOK, SameClock, SameVM, Saved
  <2> QED BY <2>4, <2>5, <2>6, <2>9, <2>10 DEF RoundsOK
<1>3. CASE DeleteSet \/ DeadlinePasses \/ UNCHANGED vars
  <2>1. SameClock(w)
    BY <1>3 DEF DeleteSet, DeadlinePasses, vars, clusterVars, SameClock, SameVM
  <2>2. cs'.gen = cs.gen /\ cs'.suspend = cs.suspend /\ cs'.reclaim = cs.reclaim /\ cs'.phase = cs.phase
    BY <1>0, <1>3 DEF DeleteSet, DeadlinePasses, vars, Sets
  <2>3. SpecOK' /\ PathOK'
    BY <1>0, <1>1, <2>2 DEF SpecOK, PathOK
  <2>4. PresentOK(w)' /\ ClockOK(w)' /\ RoundOK(w)'
    BY <1>0, <1>1, <2>1, <2>2 DEF PresentOK, ClockOK, RoundOK, SameClock, SameVM, Awaited, Before, Mark
  <2>5. StepOK(w)'
    BY <1>0, <1>1, <2>1, <2>2 DEF StepOK, SameClock, SameVM, Awaited, Before, Mark, Saved
  <2> QED BY <2>3, <2>4, <2>5 DEF RoundsOK
<1>4. ASSUME NEW v \in VMs, VkActs(v) PROVE SpecOK' /\ PathOK' /\ RoundsOK(w)'
  <2>1. VkStep(v) /\ cs' = cs
    BY <1>4 DEF VkActs
  <2>2. SpecOK' /\ PathOK'
    BY <1>0, <1>1, <2>1 DEF SpecOK, PathOK
  <2>3. PresentOK(v)
    BY DEF OwedOK, RoundsOK
  <2>4. CASE w # v
    <3>1. SameClock(w)
      BY <1>0, <2>1, <2>3, <2>4, VkMoves
    <3>2. PresentOK(w)' /\ ClockOK(w)' /\ RoundOK(w)'
      BY <1>0, <1>1, <2>1, <3>1 DEF PresentOK, ClockOK, RoundOK, SameClock, SameVM, Awaited, Before, Mark
    <3>3. StepOK(w)'
      BY <1>0, <1>1, <2>1, <3>1 DEF StepOK, SameClock, SameVM, Awaited, Before, Mark, Saved
    <3> QED BY <2>2, <3>2, <3>3 DEF RoundsOK
  <2>5. CASE w = v
    <3> DEFINE Moved ==
              \/ /\ vk[w] = "running" /\ vk'[w] = "pushing" /\ pod[w].hib /\ tag'[w] = tag[w]
                 /\ pod'[w] = pod[w] /\ vkGen'[w] = pod[w].gen
              \/ /\ vk[w] = "asleep" /\ vk'[w] = "waking" /\ ~pod[w].hib /\ tag'[w] = tag[w]
                 /\ pod'[w] = pod[w] /\ vkGen'[w] = pod[w].gen
              \/ /\ vk[w] = "pushing" /\ vk'[w] = "pushed" /\ tag'[w] = "fresh"
                 /\ pod'[w] = pod[w] /\ vkGen'[w] = vkGen[w]
              \/ /\ vk[w] = "pushed" /\ vk'[w] = "asleep" /\ tag'[w] = tag[w]
                 /\ pod'[w].state = "hibernated" /\ pod'[w].obs = vkGen[w] /\ vkGen'[w] = vkGen[w]
              \/ /\ vk[w] = "waking" /\ vk'[w] = "running" /\ tag'[w] = "stale"
                 /\ pod'[w].state = "ready" /\ pod'[w].obs = vkGen[w] /\ vkGen'[w] = vkGen[w]
              \/ /\ vk[w] = "running" /\ vk'[w] = "running" /\ ~pod[w].hib /\ tag'[w] = tag[w]
                 /\ pod'[w].state = "ready" /\ pod'[w].obs = pod[w].gen /\ vkGen'[w] = vkGen[w]
              \/ /\ vk[w] = "asleep" /\ vk'[w] = "asleep" /\ pod[w].hib /\ tag'[w] = tag[w]
                 /\ pod'[w].state = "hibernated" /\ pod'[w].obs = pod[w].gen /\ vkGen'[w] = vkGen[w]
    <3>1. /\ pod'[w].at = "present" /\ pod'[w].hib = pod[w].hib /\ pod'[w].gen = pod[w].gen
          /\ ~pod'[w].restore /\ Moved
      BY <1>0, <2>1, <2>3, <2>5, VkMoves
    <3>2. PresentOK(w)'
      BY <1>0, <1>1, <3>1 DEF PresentOK
    <3>3. ClockOK(w)'
      BY <1>0, <1>1, <2>1, <3>1, Clocks DEF ClockOK
    <3>4. Awaited(w)' => Awaited(w) /\ Mark(w)' = Mark(w)
      BY <1>0, <3>1 DEF Awaited, Mark, RoundOK
    <3>5. RoundOK(w)'
      <4>1. Awaited(w)' => Before(Mark(w))'
        BY <1>0, <2>1, <3>4 DEF RoundOK, Before
      <4>2. /\ ~pod'[w].hib /\ vk'[w] \in {"pushing", "pushed"} =>
                 pod'[w].obs < cs'.reclaim.gen /\ vkGen'[w] <= cs'.reclaim.gen
            /\ (vk'[w] = "asleep" /\ ~pod'[w].hib) \/ vk'[w] = "waking" => pod'[w].obs <= cs'.reclaim.gen
        BY <1>0, <2>1, <3>1, Clocks DEF RoundOK
      <4> QED BY <1>0, <2>1, <3>1, <4>1, <4>2 DEF RoundOK
    <3>6. Saved(w) => Saved(w)'
      BY <3>1 DEF Saved
    <3>7. ~pod[w].hib /\ vk[w] = "running" => vk'[w] = "running" /\ tag'[w] = tag[w]
      BY <3>1
    <3>8. StepOK(w)'
      <4>1. pc \in {"stamp", "confirm", "unsuspend", "clear"} =>
              (wokenAt(seen[w], cs.reclaim.gen) => vk'[w] = "running")
        BY <1>0, <3>7 DEF StepOK, PresentOK, wokenAt
      <4> HIDE DEF Moved
      <4> QED BY <1>0, <1>1, <2>1, <3>1, <3>4, <3>6, <3>7, <4>1 DEF StepOK, Before
    <3> QED BY <2>2, <3>2, <3>3, <3>5, <3>8 DEF RoundsOK
  <2> QED BY <2>4, <2>5
<1> QED BY <1>2, <1>3, <1>4
(* The steps of a pass that write the status or the deadline. *)
LEMMA SpecKept ==
    ASSUME SuspendInv, PathOK, pollSuspend \/ clearSuspendDeadline \/ WriteStatus
    PROVE  /\ SameSpec /\ cs'.reclaim = cs.reclaim
           /\ cs'.phase # "Waking" /\ view'.phase \in {view.phase, cs.phase}
<1>0. cs \in Sets /\ view \in Sets /\ last \in [phase : Phases \cup {""}, again : BOOLEAN]
  BY DEF SuspendInv, SetInv, PassInv
<1>1. CASE pollSuspend \/ clearSuspendDeadline
  <2>1. PICK b \in BOOLEAN :
          \/ cs' = cs /\ view' = view
          \/ cs' = [cs EXCEPT !.since = b] /\ view' = cs'
    BY <1>1 DEF pollSuspend, clearSuspendDeadline, PatchSet
  <2>2. cs' \in Sets /\ cs'.gen = cs.gen /\ cs'.suspend = cs.suspend /\ cs'.reclaim = cs.reclaim /\ cs'.phase = cs.phase
    BY <1>0, <2>1 DEF Sets
  <2>3. view' = view \/ view' = cs'
    BY <2>1
  <2> QED BY <2>2, <2>3 DEF SameSpec, PathOK
<1>2. CASE WriteStatus
  <2>1. PICK phase : cs' = [cs EXCEPT !.phase = phase, !.listed = allByName] /\ phase # "Waking"
    BY <1>2 DEF WriteStatus, StatusOf, derivePhase, PathOK
  <2>2. view' = view
    BY <1>2 DEF WriteStatus
  <2> QED BY <1>0, <2>1, <2>2 DEF SameSpec, Sets
<1> QED BY <1>1, <1>2

LEMMA AllSeen == ASSUME OwedOK, pc # "idle" PROVE allByName = VMs
BY DEF OwedOK, RoundsOK, PresentOK, allByName

(* A pass begins, or decides where it goes. *)
LEMMA RoundsControl ==
    ASSUME SuspendInv, OwedOK, NEW w \in VMs, "release" \notin Policies,
           \/ Reconcile /\ cs.at = "live"
           \/ Branch \/ confirmReleasedDelete \/ reclaimUnrestoredForks \/ EndSubs
           \/ EndToolboxes \/ EndLoop \/ ProbeFails \/ Abandon
           \/ pollSuspend \/ clearSuspendDeadline \/ WriteStatus
           \/ \E v \in VMs : allOwnedPodsHibernated(v) \/ DeleteFails(v)
    PROVE  SpecOK' /\ PathOK' /\ RoundsOK(w)'
<1>0. /\ PresentOK(w) /\ ClockOK(w) /\ RoundOK(w) /\ StepOK(w) /\ SpecOK /\ PathOK /\ RoundsOK(w)
      /\ Main \in VMs /\ Subs \subseteq VMs /\ view \in Sets
      /\ last \in [phase : Phases \cup {""}, again : BOOLEAN]
  BY MainIsVM DEF OwedOK, RoundsOK, SuspendInv, SetInv, PassInv
<1>n. /\ pod[w].gen \in Nat /\ pod[w].obs \in Nat /\ cs.gen \in Nat /\ view.gen \in Nat
      /\ cs.reclaim.gen \in Nat /\ (pc # "idle" => view.gen <= cs.gen)
  BY Clocks
<1>s. SpecOK
  BY <1>0
<1>r. ClockOK(w) /\ RoundOK(w)
  BY <1>0
<1>1. SameClock(w)
  BY DEF Reconcile, Branch, confirmReleasedDelete, reclaimUnrestoredForks, EndSubs, EndToolboxes,
     EndLoop, ProbeFails, Abandon, pollSuspend, clearSuspendDeadline, WriteStatus,
     allOwnedPodsHibernated, DeleteFails, clusterVars, SameClock, SameVM
<1>2. CASE Reconcile /\ cs.at = "live"
  <2>1. /\ pc' = "stamp" /\ seen'[w] = pod[w] /\ got' = {} /\ cs' = cs /\ view' = cs
        /\ last'.phase = ""
    BY <1>2 DEF Reconcile
  <2>2. SpecOK' /\ PathOK'
    BY <1>0, <2>1 DEF SpecOK, PathOK
  <2>3. PresentOK(w)' /\ ClockOK(w)' /\ RoundOK(w)'
    BY <1>0, <1>1, <2>1 DEF PresentOK, ClockOK, RoundOK, SameClock, SameVM, Awaited, Before, Mark
  <2>4. wokenAt(pod[w], cs.reclaim.gen) => vk[w] = "running"
    BY <1>0, Woken
  <2>5. cs.suspend /\ HibernatedAt(pod[w], cs.gen) => Saved(w)
    <3>1. cs.suspend => cs.reclaim.gen < cs.gen
      BY <1>s, <1>n DEF SpecOK
    <3>2. HibernatedAt(pod[w], cs.gen) /\ ~Saved(w) => cs.gen <= cs.reclaim.gen
      BY <1>r, <1>n DEF RoundOK, HibernatedAt, Saved
    <3> QED BY <1>n, <3>1, <3>2
  <2>6. ~cs.suspend /\ Awaited(w) => Mark(w) < cs.gen
    BY <1>0 DEF RoundOK, Before
  <2>7. StepOK(w)'
    BY <1>0, <1>1, <2>1, <2>4, <2>5, <2>6 DEF StepOK, SameClock, SameVM, Awaited, Mark, Saved
  <2> QED BY <2>2, <2>3, <2>7 DEF RoundsOK
<1>3. CASE Branch
  <2>0. pc = "stamp" /\ allByName = VMs /\ view.policy # "release"
    BY <1>0, <1>3, AllSeen DEF Branch, Sets
  <2>1. seen[Main].state # "failed" /\ ~seen[Main].restore
    BY <1>0, <2>0 DEF OwedOK, RoundsOK, PresentOK
  <2>2. UNCHANGED <<cs, view, seen, got, todo>> /\ todo = {}
    BY <1>0, <1>3, <2>0 DEF Branch
  <2>3. \/ view.suspend /\ pc' = "record" /\ last' = [phase |-> "Suspended", again |-> FALSE]
        \/ ~view.suspend /\ pc' \in {"unsuspend", "confirm"} /\ last' = last
    BY <1>0, <1>3, <2>0, <2>1 DEF Branch, reconcileWake, PathOK, PodFailed, Goto
  <2>4. CASE view.suspend
    <3>1. SpecOK' /\ PathOK'
      <4>1. cs.reclaim.gen < view.gen
        BY <1>s, <1>n, <2>0, <2>4 DEF SpecOK
      <4>2. UNCHANGED <<cs, view>> /\ pc' = "record" /\ last'.phase = "Suspended" /\ ~last'.again /\ pc # "idle"
        BY <2>0, <2>2, <2>3, <2>4
      <4>3. SpecOK'
        BY <1>s, <4>2 DEF SpecOK
      <4>4. PathOK
        BY <1>0
      <4>5. PathOK'
        BY <4>1, <4>2, <4>4 DEF PathOK
      <4> QED BY <4>3, <4>5
    <3>2. PresentOK(w)' /\ ClockOK(w)' /\ RoundOK(w)'
      BY <1>0, <1>1, <2>0, <2>2 DEF PresentOK, ClockOK, RoundOK, SameClock, SameVM, Awaited, Before, Mark
    <3>3. Before(pod[w].gen)
      <4>1. pc # "idle"
        BY <2>0
      <4>2. pod[w].gen <= view.gen /\ view.gen <= cs.gen
        BY <1>r, <1>n, <4>1 DEF ClockOK
      <4>3. view.gen = cs.gen => cs.suspend
        BY <1>s, <2>4, <4>1 DEF SpecOK
      <4> QED BY <1>n, <4>2, <4>3 DEF Before
    <3>4. StepOK(w)'
      BY <1>0, <1>1, <2>0, <2>2, <2>3, <2>4, <3>3 DEF StepOK, SameClock, SameVM, Before, Saved
    <3> QED BY <3>1, <3>2, <3>4 DEF RoundsOK
  <2>5. CASE ~view.suspend
    <3>1. SpecOK' /\ PathOK'
      BY <1>0, <2>0, <2>2, <2>3, <2>5 DEF SpecOK, PathOK
    <3>2. PresentOK(w)' /\ ClockOK(w)' /\ RoundOK(w)'
      BY <1>0, <1>1, <2>0, <2>2 DEF PresentOK, ClockOK, RoundOK, SameClock, SameVM, Awaited, Before, Mark
    <3>3. StepOK(w)'
      BY <1>0, <1>1, <2>0, <2>2, <2>3, <2>5 DEF StepOK, SameClock, SameVM, Awaited, Mark
    <3> QED BY <3>1, <3>2, <3>3 DEF RoundsOK
  <2> QED BY <2>4, <2>5
<1>4. CASE pollSuspend \/ clearSuspendDeadline \/ WriteStatus
  <2>1. SameSpec /\ cs'.reclaim = cs.reclaim /\ cs'.phase # "Waking" /\ view'.phase \in {view.phase, cs.phase}
    BY <1>0, <1>4, SpecKept
  <2>2. /\ pc \in {"deadline", "clearDeadline", "status"} /\ pc' \in {"idle", "status"}
        /\ UNCHANGED <<seen, got, todo>>
        /\ last'.phase \in {last.phase, "Failed", "Suspending"}
        /\ pc' = "status" /\ last'.phase = "Suspended" => pc = "clearDeadline"
    <3>1. CASE pollSuspend
      <4>1. last' = [phase |-> IF overdue' THEN "Failed" ELSE "Suspending", again |-> TRUE]
        BY <3>1 DEF pollSuspend
      <4> QED BY <3>1, <4>1 DEF pollSuspend, Goto
    <3>2. CASE clearSuspendDeadline
      BY <1>0, <3>2 DEF clearSuspendDeadline, PathOK, Goto
    <3>3. CASE WriteStatus
      BY <3>3 DEF WriteStatus, Return
    <3> QED BY <1>4, <3>1, <3>2, <3>3
  <2>3. SpecOK'
    BY <1>0, <2>1, <2>2, Clocks DEF SpecOK, SameSpec
  <2>4. PathOK'
    BY <1>0, <2>1, <2>2 DEF PathOK
  <2>5. pc = "clearDeadline" => Saved(w)
    BY <1>0 DEF StepOK
  <2>6. RoundsOK(w)'
    BY <1>0, <1>1, <2>1, <2>2, <2>5, RoundsKept
  <2> QED BY <2>3, <2>4, <2>6
<1>5. CASE \/ confirmReleasedDelete \/ EndSubs \/ EndToolboxes \/ ProbeFails \/ Abandon
  <2>1. UNCHANGED <<cs, view, seen, got, last>> /\ pc # "idle"
    BY <1>5 DEF confirmReleasedDelete, EndSubs, EndToolboxes, ProbeFails, Abandon
  <2>2. /\ pc' \in {"idle", "unsuspend", "toolboxes", "status", "deadline"}
        /\ pc' = "unsuspend" => pc = "confirm"
        /\ pc' = "status" => pc = "toolboxes"
        /\ pc' = "toolboxes" => pc = "subs"
        /\ pc' = "deadline" => pc = "observe"
    BY <1>5 DEF confirmReleasedDelete, EndSubs, EndToolboxes, ProbeFails, Abandon, Goto, Return
  <2>3. SpecOK' /\ PathOK'
    BY <1>0, <2>1, <2>2 DEF SpecOK, PathOK
  <2>4. SameSpec
    BY <2>1 DEF SameSpec
  <2>5. pc' = "status" => last.phase # "Suspended"
    BY <1>0, <2>2 DEF PathOK
  <2>6. RoundsOK(w)'
    BY <1>0, <1>1, <2>1, <2>2, <2>4, <2>5, RoundsKept
  <2> QED BY <2>3, <2>6
<1>6. CASE reclaimUnrestoredForks
  <2>1. UNCHANGED <<cs, view, seen, got, last>> /\ pc = "triage" /\ pc' = "forks"
    BY <1>6 DEF reclaimUnrestoredForks, Goto
  <2>2. todo' = {}
    BY <1>0, <1>6, <2>1, AllSeen DEF reclaimUnrestoredForks, missing
  <2>3. SpecOK' /\ PathOK'
    BY <1>0, <2>1 DEF SpecOK, PathOK
  <2>4. PresentOK(w)' /\ ClockOK(w)' /\ RoundOK(w)'
    BY <1>0, <1>1, <2>1 DEF PresentOK, ClockOK, RoundOK, SameClock, SameVM, Awaited, Before, Mark
  <2>5. StepOK(w)'
    BY <1>0, <2>1, <2>2 DEF StepOK
  <2> QED BY <2>3, <2>4, <2>5 DEF RoundsOK
<1>7. CASE EndLoop
  <2>1. /\ UNCHANGED <<cs, view, seen, got, last>> /\ todo = {}
        /\ \/ pc = "hibernate" /\ pc' = "observe" /\ todo' = VMs
           \/ pc = "observe" /\ pc' = "clearDeadline"
    BY <1>0, <1>7, AllSeen DEF EndLoop, PathOK, Goto
  <2>2. SpecOK' /\ PathOK'
    BY <1>0, <2>1 DEF SpecOK, PathOK
  <2>3. PresentOK(w)' /\ ClockOK(w)' /\ RoundOK(w)'
    BY <1>0, <1>1, <2>1 DEF PresentOK, ClockOK, RoundOK, SameClock, SameVM, Awaited, Before, Mark
  <2>4. StepOK(w)'
    BY <1>0, <1>1, <2>1 DEF StepOK, SameClock, SameVM, Saved
  <2> QED BY <2>2, <2>3, <2>4 DEF RoundsOK
<1>8. ASSUME NEW v \in VMs, allOwnedPodsHibernated(v) PROVE SpecOK' /\ PathOK' /\ RoundsOK(w)'
  <2>1. /\ UNCHANGED <<cs, view, seen, got, last>> /\ pc = "observe"
        /\ \/ pc' = "observe" /\ HibernatedAt(seen[v], view.gen) /\ todo' = todo \ {v}
           \/ pc' = "deadline"
    BY <1>8 DEF allOwnedPodsHibernated, Goto
  <2>2. SpecOK' /\ PathOK'
    BY <1>0, <2>1 DEF SpecOK, PathOK
  <2>3. PresentOK(w)' /\ ClockOK(w)' /\ RoundOK(w)'
    BY <1>0, <1>1, <2>1 DEF PresentOK, ClockOK, RoundOK, SameClock, SameVM, Awaited, Before, Mark
  <2>4. StepOK(w)'
    BY <1>0, <1>1, <2>1 DEF StepOK, SameClock, SameVM, Saved
  <2> QED BY <2>2, <2>3, <2>4 DEF RoundsOK
<1>9. ASSUME NEW v \in VMs, DeleteFails(v) PROVE SpecOK' /\ PathOK' /\ RoundsOK(w)'
  <2>1. /\ UNCHANGED <<cs, view, seen, got, last>> /\ pc \in {"reclaim", "forks"} /\ pc' = pc
        /\ todo' = todo \ {v}
    BY <1>9 DEF DeleteFails, Goto
  <2>2. SpecOK' /\ PathOK'
    BY <1>0, <2>1 DEF SpecOK, PathOK
  <2>3. PresentOK(w)' /\ ClockOK(w)' /\ RoundOK(w)'
    BY <1>0, <1>1, <2>1 DEF PresentOK, ClockOK, RoundOK, SameClock, SameVM, Awaited, Before, Mark
  <2>4. StepOK(w)'
    BY <1>0, <1>1, <2>1 DEF StepOK, SameClock, SameVM
  <2> QED BY <2>2, <2>3, <2>4 DEF RoundsOK
<1> QED BY <1>2, <1>3, <1>4, <1>5, <1>6, <1>7, <1>8, <1>9
(* The steps of a pass that patch a pod, or would delete one. *)
LEMMA RoundsPods ==
    ASSUME SuspendInv, OwedOK, NEW w \in VMs,
           \E v \in VMs : \/ syncCocoonSetGeneration(v) \/ HibernateState(v) \/ ClearHibernate(v)
                           \/ triagePod(v)
    PROVE  SpecOK' /\ PathOK' /\ RoundsOK(w)'
<1>0. /\ PresentOK(w) /\ ClockOK(w) /\ RoundOK(w) /\ StepOK(w) /\ SpecOK /\ PathOK /\ RoundsOK(w)
      /\ pod \in [VMs -> Pods] /\ seen \in [VMs -> Pods] /\ view.gen \in Generations
  BY DEF OwedOK, RoundsOK, SuspendInv, ClusterTypeOK, PassInv, SetInv, Sets
<1>n. /\ pod[w].gen \in Nat /\ pod[w].obs \in Nat /\ cs.gen \in Nat /\ view.gen \in Nat /\ vkGen[w] \in Nat
      /\ cs.reclaim.gen \in Nat /\ (pc # "idle" => view.gen <= cs.gen)
      /\ pod[w].hib \in BOOLEAN /\ seen[w].hib \in BOOLEAN
  BY Clocks
<1>s. SpecOK
  BY <1>0
<1>r. ClockOK(w) /\ RoundOK(w) /\ PresentOK(w)
  BY <1>0
<1>1. UNCHANGED <<cs, view, tag, vk, vkGen, got, last>> /\ pc' = pc
  BY DEF syncCocoonSetGeneration, HibernateState, ClearHibernate, triagePod, Goto
<1>2. SpecOK' /\ PathOK'
  BY <1>0, <1>1 DEF SpecOK, PathOK
<1>3. ASSUME pod'[w] = pod[w], seen'[w] = seen[w], pc \in {"stamp", "hibernate", "clear", "triage", "toolboxes"}
      PROVE  RoundsOK(w)'
  <2>1. PresentOK(w)' /\ ClockOK(w)' /\ RoundOK(w)'
    BY <1>0, <1>1, <1>3 DEF PresentOK, ClockOK, RoundOK, Awaited, Before, Mark
  <2>2. StepOK(w)'
    BY <1>0, <1>1, <1>3 DEF StepOK, Awaited, Before, Mark, Saved
  <2> QED BY <2>1, <2>2 DEF RoundsOK
<1>4. ASSUME NEW v \in VMs, triagePod(v) PROVE RoundsOK(w)'
  <2>1. pc \in {"triage", "toolboxes"} /\ seen' = seen
    BY <1>4 DEF triagePod
  <2>2. seen[v].state # "failed"
    BY <2>1 DEF OwedOK, RoundsOK, PresentOK
  <2>3. pod' = pod
    BY <1>4, <2>2 DEF triagePod, PodFailed
  <2> QED BY <1>3, <2>1, <2>3
<1>5. ASSUME NEW v \in VMs, syncCocoonSetGeneration(v) PROVE RoundsOK(w)'
  <2> DEFINE q == [pod[v] EXCEPT !.gen = view.gen]
  <2>1. pc = "stamp" /\ PatchPod(v, seen[v].gen # view.gen, q)
    BY <1>5 DEF syncCocoonSetGeneration
  <2>2. /\ q.at = pod[v].at /\ q.hib = pod[v].hib /\ q.state = pod[v].state /\ q.obs = pod[v].obs
        /\ q.restore = pod[v].restore /\ q.live = pod[v].live /\ q.gen = view.gen
    BY <1>0 DEF Pods
  <2>p. q \in Pods
    BY <1>0, PodRecordType
  <2> HIDE DEF q
  <2>3. CASE w # v \/ ~(seen[v].gen # view.gen)
    <3>1. pod'[w] = pod[w] /\ seen'[w] = seen[w]
      BY <1>0, <2>p, <2>1, <2>3, PatchEffect
    <3> QED BY <1>3, <2>1, <3>1
  <2>4. CASE w = v /\ seen[v].gen # view.gen
    <3>0. q.at = seen[v].at /\ (seen[v].gen # view.gen) \in BOOLEAN
      BY <1>r, <2>1, <2>2, <2>4 DEF PresentOK
    <3>1. pod'[w] = q /\ seen'[w] = q
      BY <1>0, <2>p, <2>1, <2>4, <3>0, PatchEffect
    <3>2. PresentOK(w)'
      BY <1>r, <1>1, <2>2, <2>4, <3>1 DEF PresentOK
    <3>3. ClockOK(w)'
      BY <1>r, <1>n, <1>1, <2>1, <2>2, <2>4, <3>1 DEF ClockOK
    <3>4. RoundOK(w)'
      BY <1>r, <1>1, <2>2, <2>4, <3>1 DEF RoundOK, Awaited, Before, Mark
    <3>5. wokenAt(q, cs.reclaim.gen) => vk[w] = "running"
      BY <1>r, <2>2, <2>4, Woken DEF wokenAt
    <3>6. view.suspend /\ HibernatedAt(q, view.gen) => Saved(w)
      <4>1. view.suspend => cs.reclaim.gen < view.gen
        BY <1>s, <1>n, <2>1 DEF SpecOK
      <4>2. HibernatedAt(q, view.gen) => HibernatedAt(pod[w], view.gen)
        BY <2>2, <2>4 DEF HibernatedAt
      <4> QED BY <1>r, <4>1, <4>2, SavedAt
    <3>7. (Saved(w) => Saved(w)') /\ (Awaited(w)' => Awaited(w)) /\ Mark(w)' = Mark(w)
      BY <1>1, <2>2, <2>4, <3>1 DEF Saved, Awaited, Mark
    <3>8. StepOK(w)'
      BY <1>0, <1>1, <2>1, <3>1, <3>5, <3>6, <3>7 DEF StepOK
    <3> QED BY <3>2, <3>3, <3>4, <3>8 DEF RoundsOK
  <2> QED BY <2>3, <2>4
<1>6. ASSUME NEW v \in VMs, HibernateState(v) PROVE RoundsOK(w)'
  <2> DEFINE q == [pod[v] EXCEPT !.hib = TRUE]
  <2>1. pc = "hibernate" /\ PatchPod(v, ~seen[v].hib, q)
    BY <1>6 DEF HibernateState
  <2>2. /\ q.at = pod[v].at /\ q.hib = TRUE /\ q.state = pod[v].state /\ q.obs = pod[v].obs
        /\ q.restore = pod[v].restore /\ q.gen = pod[v].gen
    BY <1>0 DEF Pods
  <2>p. q \in Pods
    BY <1>0, PodRecordType
  <2> HIDE DEF q
  <2>3. CASE w # v \/ seen[v].hib
    <3>1. pod'[w] = pod[w] /\ seen'[w] = seen[w]
      BY <1>0, <2>p, <2>1, <2>3, PatchEffect
    <3> QED BY <1>3, <2>1, <3>1
  <2>4. CASE w = v /\ ~seen[v].hib
    <3>0. q.at = seen[v].at /\ (~seen[v].hib) \in BOOLEAN /\ ~pod[w].hib
      BY <1>r, <2>1, <2>2, <2>4 DEF PresentOK
    <3>1. pod'[w] = q /\ seen'[w] = q /\ ~pod[w].hib
      BY <1>0, <2>p, <2>1, <2>4, <3>0, PatchEffect
    <3>2. PresentOK(w)'
      BY <1>r, <1>1, <2>2, <2>4, <3>1 DEF PresentOK
    <3>3. ClockOK(w)'
      BY <1>r, <1>1, <2>2, <2>4, <3>1 DEF ClockOK
    <3>4. w \in cs.reclaim.vms /\ Before(pod[w].gen)
      BY <1>0, <2>1 DEF StepOK
    <3>5. Mark(w) \in Nat /\ Mark(w) <= pod[w].gen /\ Mark(w)' = Mark(w)
      BY <1>r, <1>n, <1>1, <2>2, <2>4, <3>1 DEF Mark, ClockOK
    <3>6. Before(Mark(w))'
      BY <1>n, <1>1, <3>4, <3>5 DEF Before
    <3>7. RoundOK(w)'
      BY <1>r, <1>1, <2>2, <2>4, <3>1, <3>4, <3>6 DEF RoundOK
    <3>8. ~HibernatedAt(q, view.gen)
      <4>1. cs.reclaim.gen < view.gen
        BY <1>0, <2>1 DEF PathOK
      <4>2. HibernatedAt(q, view.gen) => HibernatedAt(pod[w], view.gen)
        BY <2>2, <2>4 DEF HibernatedAt
      <4> QED BY <1>r, <3>1, <4>1, <4>2, SavedAt DEF Saved
    <3>9. Before(pod[w].gen)'
      BY <1>1, <2>2, <2>4, <3>1, <3>4 DEF Before
    <3>10. StepOK(w)'
      BY <1>0, <1>1, <2>1, <3>1, <3>4, <3>8, <3>9 DEF StepOK
    <3> QED BY <3>2, <3>3, <3>7, <3>10 DEF RoundsOK
  <2> QED BY <2>3, <2>4
<1>7. ASSUME NEW v \in VMs, ClearHibernate(v) PROVE RoundsOK(w)'
  <2> DEFINE q == [pod[v] EXCEPT !.hib = FALSE]
  <2>1. pc = "clear" /\ PatchPod(v, seen[v].hib, q)
    BY <1>7 DEF ClearHibernate
  <2>2. /\ q.at = pod[v].at /\ q.hib = FALSE /\ q.state = pod[v].state /\ q.obs = pod[v].obs
        /\ q.restore = pod[v].restore /\ q.gen = pod[v].gen /\ q.live = pod[v].live
    BY <1>0 DEF Pods
  <2>p. q \in Pods
    BY <1>0, PodRecordType
  <2>b. seen[v].hib \in BOOLEAN
    BY <1>0 DEF Pods
  <2> HIDE DEF q
  <2>3. CASE w # v \/ ~seen[v].hib
    <3>1. pod'[w] = pod[w] /\ seen'[w] = seen[w]
      BY <1>0, <2>p, <2>b, <2>1, <2>3, PatchEffect
    <3> QED BY <1>3, <2>1, <3>1
  <2>4. CASE w = v /\ seen[v].hib
    <3>0. q.at = seen[v].at /\ pod[w].hib
      BY <1>r, <2>1, <2>2, <2>4 DEF PresentOK
    <3>1. pod'[w] = q /\ seen'[w] = q /\ pod[w].hib
      BY <1>0, <2>p, <2>b, <2>1, <2>4, <3>0, PatchEffect
    <3>2. PresentOK(w)'
      BY <1>r, <1>1, <2>2, <2>4, <3>1 DEF PresentOK
    <3>3. ClockOK(w)'
      BY <1>r, <1>1, <2>2, <2>4, <3>1 DEF ClockOK
    <3>4. (vk[w] # "asleep" => Mark(w) < cs.reclaim.gen) /\ pod[w].gen <= cs.reclaim.gen
      BY <1>0, <2>1, <3>1 DEF StepOK, Awaited
    <3>5. pod[w].obs <= cs.reclaim.gen /\ vkGen[w] <= cs.reclaim.gen
      BY <1>r, <1>n, <3>4 DEF ClockOK
    <3>6. vk[w] \in {"pushing", "pushed"} => pod[w].obs < cs.reclaim.gen
      BY <3>4 DEF Mark
    <3>7. RoundOK(w)'
      BY <1>r, <1>1, <2>2, <2>4, <3>1, <3>5, <3>6 DEF RoundOK, Awaited
    <3>8. wokenAt(q, cs.reclaim.gen) => vk[w] = "running"
      <4>1. vk[w] \in VkStates
        BY DEF SuspendInv, ClusterTypeOK
      <4> QED BY <1>r, <1>n, <2>2, <2>4, <3>6, <4>1 DEF wokenAt, RoundOK, PresentOK, VkStates
    <3>9. StepOK(w)'
      BY <1>0, <1>1, <2>1, <2>2, <3>1, <3>8 DEF StepOK, Awaited
    <3> QED BY <3>2, <3>3, <3>7, <3>9 DEF RoundsOK
  <2> QED BY <2>3, <2>4
<1> QED BY <1>2, <1>4, <1>5, <1>6, <1>7

(* A record that keeps w and its generation, or raises it to the pass's. *)
LEMMA RecordRaised ==
    ASSUME SuspendInv, NEW w \in VMs, RoundsOK(w), SpecOK, SameClock(w), SameSpec, pc # "idle",
           seen'[w] = seen[w],
           w \in cs.reclaim.vms => cs'.reclaim.gen \in {cs.reclaim.gen, view.gen},
           (pod[w].hib \/ vk[w] # "running" \/ tag[w] # "none") => w \in cs'.reclaim.vms
    PROVE  PresentOK(w)' /\ ClockOK(w)' /\ RoundOK(w)'
<1>n. /\ pod[w].gen \in Nat /\ pod[w].obs \in Nat /\ cs.gen \in Nat /\ view.gen \in Nat /\ vkGen[w] \in Nat
      /\ cs.reclaim.gen \in Nat /\ (pc # "idle" => view.gen <= cs.gen)
  BY Clocks
<1>1. PresentOK(w) /\ ClockOK(w) /\ RoundOK(w)
  BY DEF RoundsOK
<1>2. PresentOK(w)'
  BY <1>1 DEF PresentOK, SameClock, SameVM
<1>3. ClockOK(w)'
  BY <1>n, <1>1 DEF ClockOK, SameClock, SameVM, SameSpec
<1>4. CASE w \in cs.reclaim.vms
  <2>1. cs.reclaim.gen <= cs'.reclaim.gen /\ cs'.reclaim.gen \in Nat
    BY <1>n, <1>4 DEF SpecOK
  <2>2. Awaited(w)' => Before(Mark(w))'
    BY <1>1 DEF RoundOK, SameClock, SameVM, SameSpec, Awaited, Before, Mark
  <2>3. /\ ~pod[w].hib /\ vk[w] \in {"pushing", "pushed"} =>
             pod[w].obs < cs'.reclaim.gen /\ vkGen[w] <= cs'.reclaim.gen
        /\ (vk[w] = "asleep" /\ ~pod[w].hib) \/ vk[w] = "waking" => pod[w].obs <= cs'.reclaim.gen
    BY <1>n, <1>1, <2>1 DEF RoundOK
  <2>4. RoundOK(w)'
    BY <1>1, <2>2, <2>3 DEF RoundOK, SameClock, SameVM
  <2> QED BY <1>2, <1>3, <2>4
<1>5. CASE w \notin cs.reclaim.vms
  <2>1. ~pod[w].hib /\ vk[w] = "running" /\ tag[w] = "none"
    BY <1>1, <1>5 DEF RoundOK
  <2>2. RoundOK(w)'
    BY <1>1, <2>1 DEF RoundOK, SameClock, SameVM, Awaited
  <2> QED BY <1>2, <1>3, <2>2
<1> QED BY <1>4, <1>5
LEMMA SpecRaised ==
    ASSUME SuspendInv, SpecOK, SameSpec, pc # "idle",
           \/ cs'.reclaim.gen \in {0, cs.reclaim.gen}
           \/ cs'.reclaim.gen = view.gen /\ ~view.suspend
    PROVE  SpecOK'
<1>1. Main \in VMs
  BY MainIsVM
<1>2. /\ cs.gen \in Nat /\ view.gen \in Nat /\ cs.reclaim.gen \in Nat /\ view.gen <= cs.gen
      /\ cs.suspend \in BOOLEAN /\ view.suspend \in BOOLEAN
  BY <1>1, Clocks
<1>3. \/ view'.gen = view.gen /\ view'.suspend = view.suspend
      \/ view'.gen = cs.gen /\ view'.suspend = cs.suspend
  BY DEF SameSpec
<1>4. CASE view'.gen = view.gen /\ view'.suspend = view.suspend
  BY <1>2, <1>4 DEF SpecOK, SameSpec
<1>5. CASE view'.gen = cs.gen /\ view'.suspend = cs.suspend
  BY <1>2, <1>5 DEF SpecOK, SameSpec
<1> QED BY <1>3, <1>4, <1>5

(* What writing the record r leaves of it, of the spec and of the phases. *)
LEMMA RoundRecord ==
    ASSUME SuspendInv, PathOK, NEW r \in Reclaims, Closed(r), writeHibernateReclaim(r),
           pc # "idle", pc' \notin DeletePCs
    PROVE  /\ SameSpec
           /\ cs'.reclaim.vms = r.vms /\ cs'.reclaim.gen \in {0, r.gen}
           /\ r.vms # {} => cs'.reclaim.gen = r.gen
           /\ cs'.phase # "Waking" /\ view'.phase # "Waking"
<1>1. /\ cs'.reclaim = (IF r.vms = {} THEN NoReclaim ELSE r)
      /\ cs'.gen = cs.gen /\ cs'.suspend = cs.suspend /\ cs'.phase = cs.phase
      /\ view' \in {view, cs'}
  BY ReclaimWritten DEF SuspendInv
<1>2. NoReclaim.vms = {} /\ NoReclaim.gen = 0
  BY DEF NoReclaim
<1> QED BY <1>1, <1>2 DEF SameSpec, PathOK

(* The steps of a pass that write a record or delete a tag. *)
LEMMA RoundsRecords ==
    ASSUME SuspendInv, OwedOK, NEW w \in VMs,
           \/ applySuspend \/ applyUnsuspend \/ ForgetSuspended \/ EndReclaim \/ EndForks
           \/ \E v \in VMs : DeleteManifestIfPresent(v)
    PROVE  SpecOK' /\ PathOK' /\ RoundsOK(w)'
<1>0. /\ PresentOK(w) /\ ClockOK(w) /\ RoundOK(w) /\ StepOK(w) /\ SpecOK /\ PathOK /\ RoundsOK(w)
      /\ pc # "idle" /\ allByName = VMs
  <2>1. pc # "idle"
    BY DEF applySuspend, applyUnsuspend, ForgetSuspended, EndReclaim, EndForks, DeleteManifestIfPresent
  <2> QED BY <2>1, AllSeen DEF OwedOK, RoundsOK
<1>n. /\ pod[w].gen \in Nat /\ pod[w].obs \in Nat /\ cs.gen \in Nat /\ view.gen \in Nat /\ vkGen[w] \in Nat
      /\ cs.reclaim.gen \in Nat /\ view.gen <= cs.gen /\ view.reclaim = cs.reclaim
      /\ pod[w].hib \in BOOLEAN /\ seen[w].hib \in BOOLEAN /\ seen[w].obs \in Nat
  BY <1>0, Clocks
<1>t. /\ cs.reclaim \in Reclaims /\ Closed(cs.reclaim) /\ got \in SUBSET VMs /\ view.gen \in Generations
      /\ hibernated \in SUBSET VMs /\ tag \in [VMs -> {"none", "fresh", "stale"}]
  BY DEF SuspendInv, ClusterTypeOK, SetInv, PassInv, Sets, hibernated, allByName
<1>s. SpecOK
  BY <1>0
<1>r. ClockOK(w) /\ RoundOK(w) /\ PresentOK(w)
  BY <1>0
<1>1. ASSUME NEW v \in VMs, DeleteManifestIfPresent(v) PROVE SpecOK' /\ PathOK' /\ RoundsOK(w)'
  <2>1. /\ pc \in {"reclaim", "forks"} /\ pc' = pc /\ UNCHANGED <<pod, vk, vkGen, cs, view, seen, last>>
        /\ v \in todo /\ todo' = todo \ {v} /\ got' = got \cup {v}
        /\ tag' = [tag EXCEPT ![v] = "none"]
    BY <1>1 DEF DeleteManifestIfPresent, Goto
  <2>2. pc = "reclaim" /\ vk[v] = "running" /\ ~pod[v].hib
    BY <2>1 DEF OwedOK, RoundsOK, StepOK
  <2>3. SpecOK' /\ PathOK'
    BY <1>0, <2>1 DEF SpecOK, PathOK
  <2>4. (w = v => tag'[w] = "none") /\ (w # v => tag'[w] = tag[w])
    BY <1>t, <2>1
  <2>5. PresentOK(w)' /\ ClockOK(w)'
    BY <1>r, <2>1 DEF PresentOK, ClockOK
  <2>6. RoundOK(w)'
    BY <1>r, <2>1, <2>2, <2>4 DEF RoundOK, Awaited, Before, Mark
  <2>7. StepOK(w)'
    BY <1>0, <2>1, <2>2, <2>4 DEF StepOK
  <2> QED BY <2>3, <2>5, <2>6, <2>7 DEF RoundsOK
<1>2. CASE applySuspend
  <2> DEFINE r == [cs.reclaim EXCEPT !.vms = @ \cup VMs, !.suspended = @ \cup VMs]
  <2>1. r \in Reclaims /\ Closed(r) /\ r.vms = cs.reclaim.vms \cup VMs /\ r.gen = cs.reclaim.gen
    BY <1>t DEF Reclaims, Closed
  <2>2. pc = "record" /\ pc' = "hibernate" /\ UNCHANGED <<got, seen, last>> /\ SameClock(w)
    BY <1>2 DEF applySuspend, Goto, clusterVars, SameClock, SameVM
  <2>3. writeHibernateReclaim(r)
    BY <1>0, <1>2, <1>n DEF applySuspend
  <2> HIDE DEF r
  <2>4. /\ SameSpec /\ cs'.reclaim.vms = r.vms /\ cs'.reclaim.gen = cs.reclaim.gen
        /\ cs'.phase # "Waking" /\ view'.phase # "Waking"
    BY <1>0, <2>1, <2>2, <2>3, RoundRecord DEF DeletePCs
  <2>5. SpecOK'
    BY <1>0, <2>4, SpecRaised
  <2>6. view'.gen \in Nat /\ view.gen <= view'.gen
    BY <1>n, <2>4 DEF SameSpec
  <2>7. PathOK'
    <3>1. cs.reclaim.gen < view.gen /\ PathOK
      BY <1>0, <2>2 DEF PathOK
    <3> QED BY <1>n, <2>2, <2>4, <2>6, <3>1 DEF PathOK
  <2>8. PresentOK(w)' /\ ClockOK(w)' /\ RoundOK(w)'
    BY <1>0, <2>1, <2>2, <2>4, RecordRaised
  <2>9. Before(pod[w].gen)'
    BY <1>0, <2>2, <2>4 DEF StepOK, Before, SameSpec, SameClock, SameVM
  <2>10. HibernatedAt(seen'[w], view'.gen) => Saved(w)'
    <3>1. HibernatedAt(seen'[w], view'.gen) => HibernatedAt(seen[w], view.gen)
      BY <1>n, <2>2, <2>6 DEF HibernatedAt
    <3> QED BY <1>0, <2>2, <3>1 DEF StepOK, Saved, SameClock, SameVM
  <2>11. StepOK(w)'
    BY <1>0, <2>1, <2>2, <2>4, <2>9, <2>10 DEF StepOK
  <2> QED BY <2>5, <2>7, <2>8, <2>11 DEF RoundsOK
<1>3. CASE applyUnsuspend
  <2>0. pc = "unsuspend" /\ UNCHANGED <<got, seen, last>> /\ SameClock(w)
    BY <1>3 DEF applyUnsuspend, clusterVars, SameClock, SameVM
  <2>1. CASE hibernated = {} /\ cs.reclaim.suspended = {}
    <3>1. UNCHANGED <<cs, view>> /\ Unsuspended(cs.reclaim)
      BY <1>3, <1>n, <2>1 DEF applyUnsuspend
    <3>2. \/ pc' = "status" /\ last.phase = "Failed"
          \/ pc' = "reclaim" /\ (w \in todo' => wokenAt(seen[w], cs.reclaim.gen))
      BY <3>1 DEF Unsuspended, Goto
    <3>3. SpecOK' /\ PathOK'
      BY <1>0, <2>0, <3>1, <3>2 DEF SpecOK, PathOK
    <3>4. PresentOK(w)' /\ ClockOK(w)' /\ RoundOK(w)'
      BY <1>0, <2>0, <3>1 DEF PresentOK, ClockOK, RoundOK, SameClock, SameVM, Awaited, Before, Mark
    <3>5. w \notin got /\ (wokenAt(seen[w], cs.reclaim.gen) => vk[w] = "running" /\ ~pod[w].hib)
      BY <1>0, <2>0 DEF StepOK, PresentOK, wokenAt
    <3>6. StepOK(w)'
      BY <2>0, <3>1, <3>2, <3>5 DEF StepOK, SameClock, SameVM
    <3> QED BY <3>3, <3>4, <3>6 DEF RoundsOK
  <2>2. CASE ~(hibernated = {} /\ cs.reclaim.suspended = {})
    <3>1. /\ OwedBy(cs.reclaim) \in Reclaims /\ Closed(OwedBy(cs.reclaim))
          /\ OwedBy(cs.reclaim).vms = cs.reclaim.vms \cup hibernated
          /\ OwedBy(cs.reclaim).gen = view.gen
      BY <1>0, <1>t DEF OwedBy, Reclaims, Closed
    <3>2. writeHibernateReclaim(OwedBy(cs.reclaim)) /\ pc' = "clear"
      BY <1>3, <1>n, <2>2 DEF applyUnsuspend, Goto
    <3>3. /\ SameSpec /\ cs'.reclaim.vms = cs.reclaim.vms \cup hibernated
          /\ cs'.reclaim.gen \in {0, view.gen}
          /\ w \in cs.reclaim.vms => cs'.reclaim.gen = view.gen
          /\ cs'.phase # "Waking" /\ view'.phase # "Waking"
      BY <1>0, <3>1, <3>2, RoundRecord DEF DeletePCs
    <3>4. ~view.suspend
      BY <1>0, <2>0 DEF PathOK
    <3>5. SpecOK'
      BY <1>0, <3>3, <3>4, SpecRaised
    <3>6. PathOK'
      BY <1>0, <2>0, <3>2, <3>3 DEF PathOK
    <3>7. PresentOK(w)' /\ ClockOK(w)' /\ RoundOK(w)'
      <4>1. pod[w].hib \/ vk[w] # "running" \/ tag[w] # "none" => w \in cs'.reclaim.vms
        BY <1>r, <3>3 DEF RoundOK
      <4> QED BY <1>0, <2>0, <3>3, <4>1, RecordRaised
    <3>8. pod[w].hib => cs'.reclaim.gen = view.gen
      BY <1>r, <3>3 DEF RoundOK
    <3>9. /\ Awaited(w) => Mark(w) < view.gen
          /\ pod[w].gen <= view.gen /\ w \notin got
      BY <1>0, <2>0 DEF StepOK, ClockOK
    <3>10. wokenAt(seen[w], cs'.reclaim.gen) => vk[w] = "running"
      <4>1. CASE w \in cs.reclaim.vms
        <5>1. cs.reclaim.gen <= cs'.reclaim.gen /\ cs'.reclaim.gen \in Nat
          BY <1>s, <1>n, <1>0, <3>3, <4>1 DEF SpecOK
        <5>2. wokenAt(seen[w], cs'.reclaim.gen) => wokenAt(seen[w], cs.reclaim.gen)
          BY <1>n, <5>1 DEF wokenAt
        <5> QED BY <1>0, <2>0, <5>2 DEF StepOK
      <4>2. CASE w \notin cs.reclaim.vms
        BY <1>r, <4>2 DEF RoundOK
      <4> QED BY <4>1, <4>2
    <3>11. (Awaited(w)' <=> Awaited(w)) /\ Mark(w)' = Mark(w) /\ (Awaited(w) => pod[w].hib)
      BY <2>0 DEF Awaited, Mark, SameClock, SameVM
    <3>12. StepOK(w)'
      BY <2>0, <3>2, <3>8, <3>9, <3>10, <3>11 DEF StepOK, SameClock, SameVM
    <3> QED BY <3>5, <3>6, <3>7, <3>12 DEF RoundsOK
  <2> QED BY <2>1, <2>2
<1>4. CASE ForgetSuspended
  <2> DEFINE r == [cs.reclaim EXCEPT !.suspended = {}]
  <2>1. r \in Reclaims /\ Closed(r) /\ r.vms = cs.reclaim.vms /\ r.gen = cs.reclaim.gen
    BY <1>t DEF Reclaims, Closed
  <2>2. pc = "clear" /\ UNCHANGED <<got, seen, last>> /\ SameClock(w) /\ Unsuspended(cs.reclaim)
    BY <1>4, <1>n DEF ForgetSuspended, clusterVars, SameClock, SameVM
  <2>3. writeHibernateReclaim(r)
    BY <1>4, <1>n DEF ForgetSuspended
  <2> HIDE DEF r
  <2>4. \/ pc' = "status" /\ last.phase = "Failed"
        \/ pc' = "reclaim" /\ (w \in todo' => wokenAt(seen[w], cs.reclaim.gen))
    BY <2>2 DEF Unsuspended, Goto
  <2>5. /\ SameSpec /\ cs'.reclaim.vms = cs.reclaim.vms /\ cs'.reclaim.gen \in {0, cs.reclaim.gen}
        /\ w \in cs.reclaim.vms => cs'.reclaim.gen = cs.reclaim.gen
        /\ cs'.phase # "Waking" /\ view'.phase # "Waking"
    BY <1>0, <2>1, <2>3, <2>4, RoundRecord DEF DeletePCs
  <2>6. SpecOK'
    BY <1>0, <2>5, SpecRaised
  <2>7. PathOK'
    BY <1>0, <2>2, <2>4, <2>5 DEF PathOK
  <2>8. PresentOK(w)' /\ ClockOK(w)' /\ RoundOK(w)'
    <3>1. pod[w].hib \/ vk[w] # "running" \/ tag[w] # "none" => w \in cs'.reclaim.vms
      BY <1>r, <2>5 DEF RoundOK
    <3> QED BY <1>0, <2>2, <2>5, <3>1, RecordRaised
  <2>9. w \notin got /\ (wokenAt(seen[w], cs.reclaim.gen) => vk[w] = "running" /\ ~pod[w].hib)
    BY <1>0, <2>2 DEF StepOK, PresentOK, wokenAt
  <2>10. StepOK(w)'
    BY <2>2, <2>4, <2>9 DEF StepOK, SameClock, SameVM
  <2> QED BY <2>6, <2>7, <2>8, <2>10 DEF RoundsOK
<1>5. CASE EndReclaim \/ EndForks
  <2>1. /\ pc \in {"reclaim", "forks"} /\ got' = {} /\ UNCHANGED seen /\ SameClock(w)
        /\ writeHibernateReclaim(Without(cs.reclaim, got))
    BY <1>5, <1>n DEF EndReclaim, EndForks, forgetReclaim, clusterVars, SameClock, SameVM
  <2>2. /\ pc' \in {"idle", "status", "triage", "subs"}
        /\ last'.phase = "Pending" \/ (last' = last /\ pc' # "status")
    <3>1. Main \in allByName
      BY <1>0, MainIsVM
    <3> QED BY <1>5, <3>1 DEF EndReclaim, EndForks, Goto, Return
  <2>3. /\ Without(cs.reclaim, got) \in Reclaims /\ Closed(Without(cs.reclaim, got))
        /\ Without(cs.reclaim, got).vms = cs.reclaim.vms \ got
        /\ Without(cs.reclaim, got).gen = cs.reclaim.gen
    BY <1>t DEF Without, Reclaims, Closed
  <2>4. /\ SameSpec /\ cs'.reclaim.vms = cs.reclaim.vms \ got /\ cs'.reclaim.gen \in {0, cs.reclaim.gen}
        /\ w \in cs.reclaim.vms \ got => cs'.reclaim.gen = cs.reclaim.gen
        /\ cs'.phase # "Waking" /\ view'.phase # "Waking"
    BY <1>0, <2>1, <2>2, <2>3, RoundRecord DEF DeletePCs
  <2>5. SpecOK'
    BY <1>0, <2>4, SpecRaised
  <2>6. PathOK'
    BY <1>0, <2>1, <2>2, <2>4 DEF PathOK
  <2>7. w \in got => ~pod[w].hib /\ vk[w] = "running" /\ tag[w] = "none"
    BY <1>0, <2>1 DEF StepOK
  <2>8. PresentOK(w)' /\ ClockOK(w)' /\ RoundOK(w)'
    <3>1. CASE w \in got
      <4>1. PresentOK(w)'
        BY <1>r, <2>1 , <1>0 DEF PresentOK, SameClock, SameVM
      <4>2. ClockOK(w)'
        BY <1>r, <1>n, <1>0, <2>1, <2>4 DEF ClockOK, SameClock, SameVM, SameSpec
      <4>3. RoundOK(w)'
        BY <1>r, <2>1, <2>7, <3>1 DEF RoundOK, SameClock, SameVM, Awaited
      <4> QED BY <4>1, <4>2, <4>3
    <3>2. CASE w \notin got
      <4>1. pod[w].hib \/ vk[w] # "running" \/ tag[w] # "none" => w \in cs'.reclaim.vms
        BY <1>r, <2>4, <3>2 DEF RoundOK
      <4> QED BY <1>0, <2>1, <2>4, <3>2, <4>1, RecordRaised
    <3> QED BY <3>1, <3>2
  <2>9. StepOK(w)'
    BY <2>1, <2>2 DEF StepOK
  <2> QED BY <2>5, <2>6, <2>8, <2>9 DEF RoundsOK
<1> QED BY <1>1, <1>2, <1>3, <1>4, <1>5
(* Nothing brings a deleted set back. *)
LEMMA StaysDeleted == SuspendInv /\ [Next]_vars /\ cs'.at = "live" => cs.at = "live"
<1> SUFFICES ASSUME SuspendInv, [Next]_vars, cs'.at = "live" PROVE cs.at = "live"
  OBVIOUS
<1>0. cs \in Sets
  BY DEF SuspendInv, SetInv
<1>1. CASE \/ pollSuspend \/ clearSuspendDeadline \/ StashHint \/ startReleasedWake \/ ClearHint
           \/ WriteStatus \/ PersistWaking \/ EditSpec
  BY <1>1, RecordKept DEF SameRecord
<1>2. CASE \/ applySuspend \/ applyUnsuspend \/ ForgetSuspended \/ EndReclaim \/ EndForks
  <2>1. cs' = cs \/ \E r : cs' = [cs EXCEPT !.reclaim = r]
    BY <1>2 DEF applySuspend, applyUnsuspend, ForgetSuspended, EndReclaim, EndForks, forgetReclaim,
                writeHibernateReclaim, PatchSet
  <2> QED BY <1>0, <2>1 DEF Sets
<1>3. CASE StashReleased \/ reconcileDelete
  <2>1. cs' = cs \/ \E names : cs' = [cs EXCEPT !.names = names]
    BY <1>3 DEF StashReleased, reconcileDelete, stashDeleteVMNames, PatchSet
  <2> QED BY <1>0, <2>1 DEF Sets
<1>4. CASE RemoveFinalizer \/ DeleteSet
  <2>1. cs' = cs \/ \E at \in {"gone", "deleting"} : cs' = [cs EXCEPT !.at = at]
    BY <1>4 DEF RemoveFinalizer, DeleteSet
  <2> QED BY <1>0, <2>1 DEF Sets
<1>5. CASE UNCHANGED cs
  BY <1>5
<1>6. \/ UNCHANGED cs
      \/ pollSuspend \/ clearSuspendDeadline \/ StashHint \/ startReleasedWake \/ ClearHint
      \/ WriteStatus \/ PersistWaking \/ EditSpec
      \/ applySuspend \/ applyUnsuspend \/ ForgetSuspended \/ EndReclaim \/ EndForks
      \/ StashReleased \/ reconcileDelete \/ RemoveFinalizer \/ DeleteSet
  <2>1. CASE \/ Branch \/ DropWoken \/ confirmReleasedDelete
             \/ reclaimUnrestoredForks \/ EndSubs \/ EndToolboxes \/ CreatePod \/ EndLoop
             \/ ProbeFails \/ Abandon \/ Reconcile \/ DeadlinePasses
             \/ \E v \in VMs :
                  \/ syncCocoonSetGeneration(v) \/ HibernateState(v) \/ allOwnedPodsHibernated(v)
                  \/ ReleaseSlot(v) \/ ClearHibernate(v) \/ DeleteManifestIfPresent(v) \/ triagePod(v)
                  \/ markRestoreFromIntent(v) \/ DeleteOwned(v) \/ CollectTag(v) \/ PodNotFound(v)
                  \/ DeleteFails(v) \/ DeletePod(v) \/ VkActs(v) \/ VkFails(v)
             \/ UNCHANGED vars
    BY <2>1 DEF Branch, DropWoken, confirmReleasedDelete, reclaimUnrestoredForks,
         EndSubs, EndToolboxes, CreatePod, EndLoop, ProbeFails, Abandon, Reconcile, DeadlinePasses,
         syncCocoonSetGeneration, HibernateState, allOwnedPodsHibernated, ReleaseSlot,
         ClearHibernate, DeleteManifestIfPresent, triagePod, markRestoreFromIntent,
         DeleteOwned, CollectTag, PodNotFound, DeleteFails, DeletePod, VkActs, VkFails, vars
  <2> QED BY <2>1 DEF Next, PassStep
<1> QED BY <1>1, <1>2, <1>3, <1>4, <1>5, <1>6

(* Where a pass over a set being deleted goes, and where a pass comes from. *)
LEMMA DeletePasses ==
    ASSUME SuspendInv, [Next]_vars
    PROVE  /\ pc \in DeletePCs => pc' \in DeletePCs \cup {"idle"} /\ cs.at # "live"
           /\ pc = "idle" => pc' = "idle" \/ (Reconcile /\ (pc' \notin DeletePCs => cs.at = "live"))
<1>1. pc \in DeletePCs => cs.at # "live"
  BY DEF SuspendInv, SetInv, Tracks, DeletePCs
<1>2. ASSUME pc \in DeletePCs PROVE pc' \in DeletePCs \cup {"idle"}
  <2>1. CASE reconcileDelete \/ RemoveFinalizer \/ \E v \in VMs : DeleteOwned(v) \/ CollectTag(v)
    BY <2>1 DEF reconcileDelete, RemoveFinalizer, DeleteOwned, CollectTag, Goto, Return, DeletePCs
  <2>2. CASE \/ Abandon \/ EditSpec \/ DeleteSet \/ DeadlinePasses \/ UNCHANGED vars
             \/ \E v \in VMs : DeletePod(v) \/ VkActs(v) \/ VkFails(v) \/ PodNotFound(v)
    BY <1>2, <2>2 DEF Abandon, EditSpec, DeleteSet, DeadlinePasses, vars, DeletePod, VkActs, VkFails,
                PodNotFound, passVars, Return
  <2> QED BY <1>2, <2>1, <2>2 DEF Next, PassStep, DeletePCs,
         Branch, DropWoken, confirmReleasedDelete, reclaimUnrestoredForks,
         EndSubs, EndToolboxes, CreatePod, EndLoop, ProbeFails, Reconcile,
         syncCocoonSetGeneration, HibernateState, allOwnedPodsHibernated, ReleaseSlot,
         ClearHibernate, DeleteManifestIfPresent, triagePod, markRestoreFromIntent, DeleteFails,
         pollSuspend, clearSuspendDeadline, StashHint, startReleasedWake, ClearHint,
         WriteStatus, PersistWaking, applySuspend, applyUnsuspend, ForgetSuspended, EndReclaim,
         EndForks, StashReleased
<1>3. ASSUME pc = "idle" PROVE pc' = "idle" \/ (Reconcile /\ (pc' \notin DeletePCs => cs.at = "live"))
  <2>0. cs.at \in {"live", "deleting", "gone"}
    BY DEF SuspendInv, SetInv, Sets
  <2>1. CASE Reconcile
    BY <2>0, <2>1 DEF Reconcile, DeletePCs
  <2>2. CASE \/ EditSpec \/ DeleteSet \/ DeadlinePasses \/ UNCHANGED vars
             \/ \E v \in VMs : DeletePod(v) \/ VkActs(v) \/ VkFails(v)
    BY <1>3, <2>2 DEF EditSpec, DeleteSet, DeadlinePasses, vars, DeletePod, VkActs, VkFails, passVars
  <2> QED BY <1>3, <2>1, <2>2 DEF Next, PassStep,
         Branch, DropWoken, confirmReleasedDelete, reclaimUnrestoredForks, Abandon, PodNotFound,
         EndSubs, EndToolboxes, CreatePod, EndLoop, ProbeFails, reconcileDelete, RemoveFinalizer,
         syncCocoonSetGeneration, HibernateState, allOwnedPodsHibernated, ReleaseSlot,
         ClearHibernate, DeleteManifestIfPresent, triagePod, markRestoreFromIntent, DeleteFails,
         pollSuspend, clearSuspendDeadline, StashHint, startReleasedWake, ClearHint, DeleteOwned,
         WriteStatus, PersistWaking, applySuspend, applyUnsuspend, ForgetSuspended, EndReclaim,
         EndForks, StashReleased, CollectTag
<1> QED BY <1>1, <1>2, <1>3

(* The steps that a live set under the retain policy never takes. *)
LEMMA NeverTaken ==
    ASSUME SuspendInv, OwedOK, VkMayFail = FALSE, MaxDeletes = 0, pc \notin DeletePCs
    PROVE  /\ ~StashReleased /\ ~StashHint /\ ~startReleasedWake /\ ~PersistWaking /\ ~DropWoken
           /\ ~ClearHint /\ ~CreatePod /\ ~reconcileDelete /\ ~RemoveFinalizer
           /\ \A v \in VMs : /\ ~ReleaseSlot(v) /\ ~markRestoreFromIntent(v) /\ ~DeleteOwned(v)
                              /\ ~CollectTag(v) /\ ~PodNotFound(v) /\ ~DeletePod(v) /\ ~VkFails(v)
<1>1. PathOK /\ \A v \in VMs : pod[v].at = "present"
  BY DEF OwedOK, RoundsOK, PresentOK
<1>2. /\ ~StashReleased /\ ~StashHint /\ ~startReleasedWake /\ ~PersistWaking /\ ~DropWoken
      /\ ~ClearHint /\ ~CreatePod /\ ~reconcileDelete /\ ~RemoveFinalizer
  BY <1>1 DEF PathOK, DeletePCs, StashReleased, StashHint, startReleasedWake, PersistWaking, DropWoken,
              ClearHint, CreatePod, reconcileDelete, RemoveFinalizer
<1>3. ASSUME NEW v \in VMs
      PROVE  ~ReleaseSlot(v) /\ ~DeleteOwned(v) /\ ~CollectTag(v) /\ ~PodNotFound(v) /\ ~VkFails(v)
  BY <1>1 DEF PathOK, DeletePCs, ReleaseSlot, DeleteOwned, CollectTag, PodNotFound, VkFails
<1>4. ASSUME NEW v \in VMs PROVE ~markRestoreFromIntent(v)
  <2>1. markRestoreFromIntent(v) => pc # "idle" /\ v \notin allByName
    BY DEF markRestoreFromIntent
  <2> QED BY <2>1, AllSeen
<1>5. ASSUME NEW v \in VMs PROVE ~DeletePod(v)
  <2>1. left \in 0..0
    BY DEF SuspendInv, PassInv
  <2>2. ~(left > 0)
    BY <2>1
  <2> QED BY <2>2 DEF DeletePod
<1> QED BY <1>2, <1>3, <1>4, <1>5

LEMMA OwedStep ==
    ASSUME VkMayFail = FALSE, MaxDeletes = 0, "release" \notin Policies,
           SuspendInv, OwedInv, [Next]_vars
    PROVE  OwedInv'
<1> SUFFICES ASSUME Alive' PROVE OwedOK'
  BY DEF OwedInv
<1>1. pc \in PCs /\ SuspendInv'
  BY SuspendStep DEF SuspendInv, PassInv
<1>2. Alive /\ pc \notin DeletePCs
  BY DeletePasses, StaysDeleted DEF Alive, DeletePCs
<1>3. OwedOK
  BY <1>2 DEF OwedInv
<1>4. Reconcile => cs.at = "live"
  BY <1>2 DEF Alive, Reconcile, DeletePCs
<1>5. ASSUME NEW w \in VMs PROVE SpecOK' /\ PathOK' /\ RoundsOK(w)'
  BY <1>1, <1>2, <1>3, <1>4, NeverTaken, RoundsOutside, RoundsControl, RoundsPods, RoundsRecords
     DEF Next, PassStep
<1> QED BY <1>5, MainIsVM DEF OwedOK

LEMMA OwedInit == Init => OwedInv
<1> SUFFICES ASSUME Init PROVE OwedOK
  BY DEF OwedInv
<1>a. /\ cs.gen = 1 /\ cs.suspend = FALSE /\ cs.reclaim = NoReclaim /\ cs.phase = "Running"
      /\ pc = "idle" /\ last = [phase |-> "", again |-> FALSE]
  BY DEF Init
<1>b. NoReclaim.gen = 0
  BY DEF NoReclaim
<1>1. pc = "idle" /\ cs.gen = 1 /\ ~cs.suspend /\ cs.reclaim.gen = 0 /\ cs.phase = "Running" /\ last.phase = ""
  BY <1>a, <1>b
<1>2. SpecOK /\ PathOK
  <2>0. 0 < 1 /\ 0 <= 1 /\ 0 # 1
    OBVIOUS
  <2>1. SpecOK
    BY <1>1, <2>0, Zenon DEF SpecOK
  <2>2. PathOK
    BY <1>1 DEF PathOK
  <2> QED BY <2>1, <2>2
<1>3. ASSUME NEW v \in VMs PROVE RoundsOK(v)
  <2>1. /\ tag[v] = "none" /\ vk[v] = "running" /\ vkGen[v] = 1
        /\ pod[v].at = "present" /\ ~pod[v].hib /\ pod[v].state = "ready" /\ ~pod[v].restore
        /\ pod[v].gen = 1 /\ pod[v].obs = 1
    BY DEF Init, ClusterInit, NewPod, NoPod
  <2>2. PresentOK(v)
    BY <1>1, <2>1 DEF PresentOK
  <2>3. ClockOK(v)
    <3>1. 1 <= 1
      OBVIOUS
    <3> QED BY <1>1, <2>1, <3>1, Zenon DEF ClockOK
  <2>4. RoundOK(v)
    BY <2>1 DEF RoundOK, Awaited
  <2>5. StepOK(v)
    BY <1>1 DEF StepOK
  <2> QED BY <2>2, <2>3, <2>4, <2>5 DEF RoundsOK
<1> QED BY <1>2, <1>3 DEF OwedOK

(* What a step of a live set does to a tag that is the only copy of a VM's state. *)
LEMMA FreshTagKept ==
    ASSUME SuspendInv, OwedInv, VkMayFail = FALSE, MaxDeletes = 0, [Next]_vars,
           NEW v \in VMs, cs.at = "live", tag[v] = "fresh", tag'[v] # "fresh"
    PROVE  vk[v] = "waking" /\ vk'[v] = "running"
<1>0. OwedOK /\ pc \notin DeletePCs /\ ClusterTypeOK
  BY DEF OwedInv, Alive, SuspendInv, SetInv, Tracks, DeletePCs
<1>1. PresentOK(v) /\ RoundOK(v) /\ StepOK(v)
  BY <1>0 DEF OwedOK, RoundsOK
<1>2. ASSUME NEW u \in VMs, VkActs(u) PROVE vk[v] = "waking" /\ vk'[v] = "running"
  <2>1. VkStep(u) /\ PresentOK(u)
    BY <1>0, <1>2 DEF VkActs, OwedOK, RoundsOK
  <2>2. u = v
    BY <1>0, <2>1, VkMoves DEF SameClock, SameVM
  <2> QED BY <1>0, <2>1, <2>2, VkMoves
<1>3. ASSUME NEW u \in VMs, DeleteManifestIfPresent(u) PROVE FALSE
  <2>1. pc \in {"reclaim", "forks"} /\ u \in todo /\ tag' = [tag EXCEPT ![u] = "none"]
    BY <1>3 DEF DeleteManifestIfPresent
  <2>2. v = u
    BY <1>0, <2>1 DEF ClusterTypeOK
  <2> QED BY <1>1, <2>1, <2>2 DEF StepOK, RoundOK
<1>4. \/ UNCHANGED tag
      \/ \E u \in VMs : VkActs(u) \/ DeleteManifestIfPresent(u)
  <2>1. CASE \/ Reconcile \/ Branch \/ WriteStatus \/ applySuspend \/ pollSuspend \/ clearSuspendDeadline
             \/ confirmReleasedDelete \/ applyUnsuspend \/ ForgetSuspended \/ EndReclaim
             \/ reclaimUnrestoredForks \/ EndForks \/ EndSubs \/ EndToolboxes \/ EndLoop
             \/ ProbeFails \/ Abandon \/ EditSpec \/ DeleteSet \/ DeadlinePasses \/ UNCHANGED vars
             \/ \E u \in VMs : \/ syncCocoonSetGeneration(u) \/ HibernateState(u) \/ ClearHibernate(u)
                                \/ allOwnedPodsHibernated(u) \/ triagePod(u) \/ DeleteFails(u)
    BY <2>1 DEF Reconcile, Branch, WriteStatus, applySuspend, pollSuspend, clearSuspendDeadline,
         confirmReleasedDelete, applyUnsuspend, ForgetSuspended, EndReclaim, reclaimUnrestoredForks,
         EndForks, EndSubs, EndToolboxes, EndLoop, ProbeFails, Abandon, EditSpec, DeleteSet,
         DeadlinePasses, vars, syncCocoonSetGeneration, HibernateState, ClearHibernate,
         allOwnedPodsHibernated, triagePod, DeleteFails, clusterVars
  <2> QED BY <1>0, <2>1, NeverTaken DEF Next, PassStep
<1> QED BY <1>2, <1>3, <1>4

(* A set's phase turns Suspended only in a status write that ends a poll of its pods. *)
LEMMA SuspendedByStatus ==
    ASSUME SuspendInv, [Next]_vars, cs.phase # "Suspended", cs'.phase = "Suspended"
    PROVE  pc = "status" /\ last.phase = "Suspended"
<1>0. cs \in Sets
  BY DEF SuspendInv, SetInv
<1>1. CASE WriteStatus
  <2>1. pc = "status" /\ cs' = [cs EXCEPT !.phase = IF last.phase = "" THEN derivePhase ELSE last.phase,
                                          !.listed = allByName]
    BY <1>1 DEF WriteStatus, StatusOf
  <2>2. derivePhase # "Suspended"
    BY DEF derivePhase
  <2>3. cs'.phase = IF last.phase = "" THEN derivePhase ELSE last.phase
    BY <1>0, <2>1 DEF Sets
  <2> QED BY <2>1, <2>2, <2>3
<1>2. CASE PersistWaking
  <2>1. cs' = [cs EXCEPT !.phase = "Waking", !.listed = allByName]
    BY <1>2 DEF PersistWaking, StatusOf
  <2> QED BY <1>0, <2>1 DEF Sets
<1>3. CASE \/ pollSuspend \/ clearSuspendDeadline \/ StashHint \/ startReleasedWake \/ ClearHint
           \/ StashReleased \/ reconcileDelete
  <2>1. \/ cs' = cs
        \/ \E b : cs' = [cs EXCEPT !.since = b] \/ cs' = [cs EXCEPT !.hint = b] \/ cs' = [cs EXCEPT !.names = b]
    BY <1>3 DEF pollSuspend, clearSuspendDeadline, StashHint, startReleasedWake, ClearHint,
                StashReleased, reconcileDelete, stashDeleteVMNames, PatchSet
  <2> QED BY <1>0, <2>1 DEF Sets
<1>4. CASE \/ applySuspend \/ applyUnsuspend \/ ForgetSuspended \/ EndReclaim \/ EndForks
  <2>1. cs' = cs \/ \E r : cs' = [cs EXCEPT !.reclaim = r]
    BY <1>4 DEF applySuspend, applyUnsuspend, ForgetSuspended, EndReclaim, EndForks, forgetReclaim,
                writeHibernateReclaim, PatchSet
  <2> QED BY <1>0, <2>1 DEF Sets
<1>5. CASE RemoveFinalizer \/ DeleteSet
  <2>1. cs' = cs \/ \E at \in {"gone", "deleting"} : cs' = [cs EXCEPT !.at = at]
    BY <1>5 DEF RemoveFinalizer, DeleteSet
  <2> QED BY <1>0, <2>1 DEF Sets
<1>6. CASE EditSpec
  <2>1. PICK b \in BOOLEAN, p \in Policies : cs' = [cs EXCEPT !.gen = @ + 1, !.suspend = b, !.policy = p]
    BY <1>6 DEF EditSpec
  <2> QED BY <1>0, <2>1 DEF Sets
<1>7. CASE \/ Branch \/ DropWoken \/ confirmReleasedDelete
           \/ reclaimUnrestoredForks \/ EndSubs \/ EndToolboxes \/ CreatePod \/ EndLoop
           \/ ProbeFails \/ Abandon \/ Reconcile \/ DeadlinePasses
           \/ \E v \in VMs :
                \/ syncCocoonSetGeneration(v) \/ HibernateState(v) \/ allOwnedPodsHibernated(v)
                \/ ReleaseSlot(v) \/ ClearHibernate(v) \/ DeleteManifestIfPresent(v) \/ triagePod(v)
                \/ markRestoreFromIntent(v) \/ DeleteOwned(v) \/ CollectTag(v) \/ PodNotFound(v)
                \/ DeleteFails(v) \/ DeletePod(v) \/ VkActs(v) \/ VkFails(v)
           \/ UNCHANGED vars
  <2>1. UNCHANGED cs
    BY <1>7 DEF Branch, DropWoken, confirmReleasedDelete, reclaimUnrestoredForks,
         EndSubs, EndToolboxes, CreatePod, EndLoop, ProbeFails, Abandon, Reconcile, DeadlinePasses,
         syncCocoonSetGeneration, HibernateState, allOwnedPodsHibernated, ReleaseSlot,
         ClearHibernate, DeleteManifestIfPresent, triagePod, markRestoreFromIntent,
         DeleteOwned, CollectTag, PodNotFound, DeleteFails, DeletePod, VkActs, VkFails, vars
  <2> QED BY <2>1
<1> QED BY <1>1, <1>2, <1>3, <1>4, <1>5, <1>6, <1>7 DEF Next, PassStep

(* Under the retain policy every tag in the registry stays on the reclaim record until
   it has been deleted, for any slots and any number of suspends and un-suspends at any
   moment, through restarts and failed calls, as long as no pod is deleted and no VM
   transition fails. *)
THEOREM TagsAreOwed ==
    ASSUME VkMayFail = FALSE, MaxDeletes = 0, "release" \notin Policies
    PROVE  Spec => []TagIsOwed
<1> DEFINE Inv == SuspendInv /\ OwedInv
<1>1. Inv /\ [Next]_vars => Inv'
  BY SuspendStep, OwedStep
<1>2. Inv => TagIsOwed
  BY DEF OwedInv, Alive, OwedOK, RoundsOK, RoundOK, TagIsOwed
<1> QED BY <1>1, <1>2, SuspendInit, OwedInit, PTL DEF Spec

(* In the same setting no pass deletes the only copy of a suspended VM's state, and no
   boot passes it by: reclaimSnapshots trusts a ready report only at the record's
   generation, and a VM that still pushes, sleeps or wakes cannot have made one. *)
THEOREM SuspendedStateIsKept ==
    ASSUME VkMayFail = FALSE, MaxDeletes = 0, "release" \notin Policies
    PROVE  Spec => KeepsSuspendedState
<1> DEFINE Inv == SuspendInv /\ OwedInv
           Kept == \A v \in VMs : tag[v] = "fresh" /\ tag'[v] # "fresh"
                                  => \/ vk[v] = "waking" /\ vk'[v] = "running"
                                     \/ v \in excused \/ cs.at # "live"
<1>1. Inv /\ [Next]_vars => Inv'
  BY SuspendStep, OwedStep
<1>2. Inv /\ [Next]_vars => [Kept]_vars
  BY FreshTagKept
<1> QED BY <1>1, <1>2, SuspendInit, OwedInit, PTL DEF Spec, KeepsSuspendedState

-----------------------------------------------------------------------------
(* Releases, deletes and restores: why a report that a suspend waits for is never one of
   an earlier round, whatever became of the pods in between *)

(* The spec has wanted the VM awake at generation g or later. *)
Past(g) == g < cs.gen \/ (g = cs.gen /\ ~cs.suspend)

(* A report of hibernation that no longer holds, or a push that nobody waits for. *)
Undone(v) == pod[v].state = "hibernated" /\ ~Saved(v)
Recalled(v) == ~pod[v].hib /\ vk[v] \in {"pushing", "pushed"}

AskPCs == {"record", "hibernate", "observe"}
DonePCs == {"clearDeadline", "stash", "hint", "release"}
WakePCs == {"wake", "confirm", "unsuspend", "clear"}

(* The pass hibernates the pods it sees, or it wakes them. *)
Asks == (pc = "stamp" /\ view.suspend) \/ pc \in AskPCs
Wakes == (pc = "stamp" /\ ~view.suspend) \/ pc \in WakePCs

(* The pass takes v for saved, if it has a pod. *)
Done(v) == \/ pc = "observe" /\ v \notin todo
           \/ pc \in DonePCs
           \/ pc = "status" /\ last.phase = "Suspended"

(* No report is newer than its stamp, no stamp newer than the spec, and a VM that sleeps
   has not run past its snapshot. *)
TimeOK(v) ==
    /\ pod[v].at = "absent" => vk[v] = "off"
    /\ vk[v] \in {"pushed", "asleep"} => tag[v] # "stale"
    /\ pod[v].state = "hibernated" => vk[v] \in {"asleep", "waking"}
    /\ pod[v].obs <= pod[v].gen /\ pod[v].gen <= cs.gen
    /\ vk[v] \in {"pushing", "pushed", "waking"} => vkGen[v] <= pod[v].gen
    /\ pc # "idle" => pod[v].gen <= view.gen

(* A VM that wakes after its report, or that will sleep unasked, was stamped no later than
   the spec that wanted it awake; so was every pod a waking pass is about to touch. *)
ReportOK(v) ==
    /\ Undone(v) => Past(pod[v].obs)
    /\ Recalled(v) => Past(vkGen[v])
    /\ Asks => /\ Undone(v) => pod[v].obs < view.gen
               /\ Recalled(v) => vkGen[v] < view.gen
    /\ Wakes => ~view.suspend \/ pod[v].gen < view.gen

(* What the copies of a suspending pass say of the pods that are still there. *)
PollOK(v) ==
    /\ Asks \/ pc \in DonePCs => (pod[v].at = "present" => seen[v].at = "present")
    /\ Asks /\ pod[v].at = "present" /\ HibernatedAt(seen[v], view.gen) => Saved(v)
    /\ Done(v) /\ pod[v].at = "present" => Saved(v) /\ tag[v] = "fresh"

ViewOK ==
    /\ pc # "idle" /\ view.gen = cs.gen => view.suspend = cs.suspend
    /\ last.phase = "Suspended" => pc \in {"idle", "status", "deadline"} \cup AskPCs \cup DonePCs

PollVM(v) == TimeOK(v) /\ ReportOK(v) /\ PollOK(v)
PollInv == ViewOK /\ \A v \in VMs : PollVM(v)

(* A step that moves neither the VM nor the pass's copy of its pod. *)
LEMMA PollKept ==
    ASSUME SuspendInv, SuspendInv', ViewOK, NEW w \in VMs, PollVM(w), SameClock(w), SameSpec, seen'[w] = seen[w],
           pc # "idle", Asks' => Asks, Wakes' => Wakes, pc' \in DonePCs => Asks \/ pc \in DonePCs,
           Done(w)' => Done(w) \/ (pod[w].at = "present" => Saved(w) /\ tag[w] = "fresh")
    PROVE  PollVM(w)'
<1>0. TimeOK(w) /\ ReportOK(w) /\ PollOK(w)
  BY DEF PollVM
<1>1. /\ \/ view'.gen = view.gen /\ view'.suspend = view.suspend
         \/ view'.gen = cs.gen /\ view'.suspend = cs.suspend
      /\ view.gen <= cs.gen /\ (view.gen = cs.gen => view.suspend = cs.suspend)
      /\ cs'.gen = cs.gen /\ (cs'.suspend <=> cs.suspend)
  BY Clocks DEF SameSpec, ViewOK
<1>2. /\ pod[w].gen \in Nat /\ pod[w].obs \in Nat /\ vkGen[w] \in Nat /\ seen[w].obs \in Nat
      /\ cs.gen \in Nat /\ view.gen \in Nat
  BY Clocks
<1>3. pod'[w] = pod[w] /\ tag'[w] = tag[w] /\ vk'[w] = vk[w] /\ vkGen'[w] = vkGen[w]
  BY DEF SameClock, SameVM
<1>4. (Saved(w)' <=> Saved(w)) /\ (Undone(w)' <=> Undone(w)) /\ (Recalled(w)' <=> Recalled(w))
  BY <1>3 DEF Saved, Undone, Recalled
<1>5. /\ view.gen <= view'.gen /\ (view'.gen = view.gen => (view'.suspend <=> view.suspend))
      /\ view'.gen \in Nat
  BY <1>1, <1>2
<1>6. TimeOK(w)'
  BY <1>0, <1>1, <1>2, <1>3, <1>5 DEF TimeOK
<1>7. ReportOK(w)'
  <2>1. (Past(pod[w].obs)' <=> Past(pod[w].obs)) /\ (Past(vkGen[w])' <=> Past(vkGen[w]))
    BY <1>1, <1>3 DEF Past
  <2>2. (Undone(w) => Past(pod[w].obs))' /\ (Recalled(w) => Past(vkGen[w]))'
    BY <1>0, <1>4, <2>1 DEF ReportOK
  <2>3. Asks' => (Undone(w)' => pod'[w].obs < view'.gen) /\ (Recalled(w)' => vkGen'[w] < view'.gen)
    BY <1>0, <1>2, <1>3, <1>4, <1>5 DEF ReportOK
  <2>4. Wakes' => ~view'.suspend \/ pod'[w].gen < view'.gen
    BY <1>0, <1>2, <1>3, <1>5 DEF ReportOK, TimeOK
  <2> QED BY <2>2, <2>3, <2>4 DEF ReportOK
<1>8. PollOK(w)'
  <2>1. HibernatedAt(seen'[w], view'.gen) => HibernatedAt(seen[w], view.gen)
    BY <1>2, <1>5 DEF HibernatedAt
  <2>2. HibernatedAt(seen[w], view.gen)' = HibernatedAt(seen'[w], view'.gen)
    BY DEF HibernatedAt
  <2> QED BY <1>0, <1>3, <1>4, <2>1, <2>2 DEF PollOK
<1> QED BY <1>6, <1>7, <1>8 DEF PollVM

(* A pass never writes the spec, and what it reads back is the spec as it then is. *)
LEMMA SpecWritten ==
    ASSUME SuspendInv, PassStep \/ ProbeFails \/ Abandon \/ \E v \in VMs : DeleteFails(v)
    PROVE  SameSpec /\ pc # "idle"
<1>0. cs \in Sets
  BY DEF SuspendInv, SetInv
<1>v. view \in Sets
  BY DEF SuspendInv, SetInv
<1>1. CASE WriteStatus \/ PersistWaking
  <2>1. PICK phase : cs' = [cs EXCEPT !.phase = phase, !.listed = allByName]
    BY <1>1 DEF WriteStatus, PersistWaking, StatusOf
  <2>2. view'.gen = view.gen /\ view'.suspend = view.suspend /\ pc # "idle"
    BY <1>v, <1>1 DEF WriteStatus, PersistWaking, Sets
  <2> QED BY <1>0, <2>1, <2>2 DEF SameSpec, Sets
<1>2. CASE \/ pollSuspend \/ clearSuspendDeadline \/ StashHint \/ startReleasedWake \/ ClearHint
           \/ StashReleased \/ reconcileDelete
  <2>1. \/ cs' = cs /\ view' = view
        \/ /\ view' = cs'
           /\ \E b : cs' = [cs EXCEPT !.since = b] \/ cs' = [cs EXCEPT !.hint = b] \/ cs' = [cs EXCEPT !.names = b]
    BY <1>2 DEF pollSuspend, clearSuspendDeadline, StashHint, startReleasedWake, ClearHint,
                StashReleased, reconcileDelete, stashDeleteVMNames, PatchSet
  <2>2. pc # "idle"
    BY <1>2 DEF pollSuspend, clearSuspendDeadline, StashHint, startReleasedWake, ClearHint,
                StashReleased, reconcileDelete
  <2> QED BY <1>0, <2>1, <2>2 DEF SameSpec, Sets
<1>3. CASE \/ applySuspend \/ applyUnsuspend \/ ForgetSuspended \/ EndReclaim \/ EndForks
  <2>1. \/ cs' = cs /\ view' = view
        \/ view' = cs' /\ \E r : cs' = [cs EXCEPT !.reclaim = r]
    BY <1>3 DEF applySuspend, applyUnsuspend, ForgetSuspended, EndReclaim, EndForks, forgetReclaim,
                writeHibernateReclaim, PatchSet
  <2>2. pc # "idle"
    BY <1>3 DEF applySuspend, applyUnsuspend, ForgetSuspended, EndReclaim, EndForks
  <2> QED BY <1>0, <2>1, <2>2 DEF SameSpec, Sets
<1>4. CASE RemoveFinalizer
  <2>1. (cs' = cs \/ cs' = [cs EXCEPT !.at = "gone"]) /\ view' = view /\ pc # "idle"
    BY <1>4 DEF RemoveFinalizer
  <2> QED BY <1>0, <2>1 DEF SameSpec, Sets
<1>5. CASE \/ Branch \/ DropWoken \/ confirmReleasedDelete
           \/ reclaimUnrestoredForks \/ EndSubs \/ EndToolboxes \/ CreatePod \/ EndLoop
           \/ ProbeFails \/ Abandon
           \/ \E v \in VMs :
                \/ syncCocoonSetGeneration(v) \/ HibernateState(v) \/ allOwnedPodsHibernated(v)
                \/ ReleaseSlot(v) \/ ClearHibernate(v) \/ DeleteManifestIfPresent(v) \/ triagePod(v)
                \/ markRestoreFromIntent(v) \/ DeleteOwned(v) \/ CollectTag(v) \/ PodNotFound(v)
                \/ DeleteFails(v)
  <2>1. UNCHANGED <<cs, view>> /\ pc # "idle"
    BY <1>5 DEF Branch, DropWoken, confirmReleasedDelete, reclaimUnrestoredForks,
         EndSubs, EndToolboxes, CreatePod, EndLoop, ProbeFails, Abandon,
         syncCocoonSetGeneration, HibernateState, allOwnedPodsHibernated, ReleaseSlot,
         ClearHibernate, DeleteManifestIfPresent, triagePod, markRestoreFromIntent,
         DeleteOwned, CollectTag, PodNotFound, DeleteFails
  <2> QED BY <2>1 DEF SameSpec
<1> QED BY <1>1, <1>2, <1>3, <1>4, <1>5 DEF PassStep

(* A pass ends in Suspended only along the suspending branch. *)
LEMMA ViewStep ==
    ASSUME SuspendInv, ViewOK, [Next]_vars
    PROVE  ViewOK'
<1>0. /\ cs.gen \in Nat /\ view.gen \in Nat /\ (pc # "idle" => view.gen <= cs.gen)
      /\ last \in [phase : Phases \cup {""}, again : BOOLEAN] /\ cs \in Sets
  BY MainIsVM, Clocks DEF SuspendInv, PassInv, SetInv
<1> DEFINE Way == {"idle", "status", "deadline"} \cup AskPCs \cup DonePCs
<1>1. CASE PassStep \/ ProbeFails \/ Abandon \/ \E v \in VMs : DeleteFails(v)
  <2>1. SameSpec /\ pc # "idle"
    BY <1>1, SpecWritten
  <2>2. view'.gen = cs'.gen => view'.suspend = cs'.suspend
    BY <2>1 DEF SameSpec, ViewOK
  <2>3. last'.phase = "Suspended" => pc' \in Way
    <3>1. CASE Branch
      <4>1. last.phase # "Suspended"
        BY <3>1 DEF Branch, ViewOK, AskPCs, DonePCs
      <4>2. \/ last' = last
            \/ \E a : last' = [phase |-> "Waking", again |-> a] \/ last' = [phase |-> "Failed", again |-> a]
            \/ pc' \in {"record", "clearDeadline"}
        BY <3>1 DEF Branch, Goto
      <4> QED BY <4>1, <4>2 DEF AskPCs, DonePCs
    <3>2. CASE pollSuspend \/ EndReclaim \/ ClearHint \/ WriteStatus \/ Abandon
      BY <1>0, <3>2 DEF pollSuspend, EndReclaim, ClearHint, WriteStatus, Abandon, Goto, Return, AskPCs, DonePCs, ViewOK
    <3>3. CASE \/ applySuspend \/ clearSuspendDeadline
               \/ StashReleased \/ StashHint \/ startReleasedWake \/ PersistWaking \/ DropWoken
               \/ confirmReleasedDelete \/ applyUnsuspend \/ ForgetSuspended
               \/ reclaimUnrestoredForks \/ EndForks \/ EndSubs \/ EndToolboxes
               \/ CreatePod \/ reconcileDelete \/ RemoveFinalizer \/ EndLoop \/ ProbeFails
               \/ \E v \in VMs :
                    \/ syncCocoonSetGeneration(v) \/ HibernateState(v) \/ allOwnedPodsHibernated(v)
                    \/ ReleaseSlot(v) \/ ClearHibernate(v) \/ DeleteManifestIfPresent(v) \/ triagePod(v)
                    \/ markRestoreFromIntent(v) \/ DeleteOwned(v) \/ CollectTag(v) \/ PodNotFound(v)
                    \/ DeleteFails(v)
      <4>1. last' = last /\ (pc \in Way => pc' \in Way)
        BY <3>3 DEF applySuspend, clearSuspendDeadline, AskPCs, DonePCs,
               StashReleased, StashHint, startReleasedWake, PersistWaking, DropWoken,
               confirmReleasedDelete, applyUnsuspend, ForgetSuspended, reclaimUnrestoredForks,
               EndForks, EndSubs, EndToolboxes, CreatePod, reconcileDelete, RemoveFinalizer, EndLoop,
               ProbeFails, syncCocoonSetGeneration, HibernateState, allOwnedPodsHibernated, ReleaseSlot,
               ClearHibernate, DeleteManifestIfPresent, triagePod, markRestoreFromIntent, DeleteOwned,
               CollectTag, PodNotFound, DeleteFails, Goto, Return
      <4> QED BY <4>1 DEF ViewOK
    <3> QED BY <1>1, <3>1, <3>2, <3>3 DEF PassStep
  <2> QED BY <2>2, <2>3 DEF ViewOK
<1>2. CASE Reconcile
  <2>1. view' = cs /\ cs' = cs /\ last'.phase = ""
    BY <1>2 DEF Reconcile
  <2> QED BY <2>1 DEF ViewOK
<1>3. CASE DeadlinePasses \/ UNCHANGED vars \/ \E v \in VMs : DeletePod(v) \/ VkActs(v) \/ VkFails(v)
  <2>1. UNCHANGED <<pc, view, last, cs>>
    BY <1>3 DEF DeadlinePasses, vars, DeletePod, VkActs, VkFails, passVars
  <2> QED BY <2>1 DEF ViewOK
<1>4. CASE EditSpec \/ DeleteSet
  <2>1. UNCHANGED <<pc, view, last>>
    BY <1>4 DEF EditSpec, DeleteSet, passVars
  <2>2. cs'.gen = cs.gen + 1 \/ (cs'.gen = cs.gen /\ cs'.suspend = cs.suspend)
    <3>1. CASE EditSpec
      <4>1. PICK b \in BOOLEAN, p \in Policies : cs' = [cs EXCEPT !.gen = @ + 1, !.suspend = b, !.policy = p]
        BY <3>1 DEF EditSpec
      <4> QED BY <1>0, <4>1 DEF Sets
    <3>2. CASE DeleteSet
      BY <1>0, <3>2 DEF DeleteSet, Sets
    <3> QED BY <1>4, <3>1, <3>2
  <2>3. pc' # "idle" /\ view'.gen = cs'.gen => view'.suspend = cs'.suspend
    <3>1. CASE cs'.gen = cs.gen + 1
      <4>1. view'.gen = view.gen /\ (pc' # "idle" => view.gen <= cs.gen)
        BY <1>0, <2>1
      <4>2. \A m, n \in Nat : m <= n => m # n + 1
        OBVIOUS
      <4>3. view.gen <= cs.gen => view.gen # cs'.gen
        BY <1>0, <3>1, <4>2, Zenon
      <4> QED BY <4>1, <4>3
    <3>2. CASE cs'.gen = cs.gen /\ cs'.suspend = cs.suspend
      BY <2>1, <3>2 DEF ViewOK
    <3> QED BY <2>2, <3>1, <3>2
  <2> QED BY <2>1, <2>3 DEF ViewOK
<1> QED BY <1>1, <1>2, <1>3, <1>4 DEF Next

(* The steps of a pass that touch no pod and no tag. *)
LEMMA PollControl ==
    ASSUME SuspendInv, SuspendInv', PollInv, NEW w \in VMs,
           \/ Branch \/ WriteStatus \/ applySuspend \/ pollSuspend \/ clearSuspendDeadline
           \/ StashReleased \/ StashHint \/ startReleasedWake \/ PersistWaking
           \/ ClearHint \/ confirmReleasedDelete \/ applyUnsuspend \/ ForgetSuspended
           \/ EndReclaim \/ reclaimUnrestoredForks \/ EndForks \/ EndSubs \/ EndToolboxes
           \/ reconcileDelete \/ RemoveFinalizer \/ EndLoop \/ ProbeFails \/ Abandon
           \/ \E v \in VMs : \/ allOwnedPodsHibernated(v) \/ markRestoreFromIntent(v)
                              \/ PodNotFound(v) \/ DeleteFails(v)
    PROVE  PollVM(w)'
<1>0. ViewOK /\ PollVM(w) /\ TimeOK(w) /\ PollOK(w)
  BY DEF PollInv, PollVM
<1>1. SameSpec /\ pc # "idle"
  BY SpecWritten DEF PassStep
<1>2. SameClock(w) /\ seen'[w] = seen[w]
  BY DEF Branch, WriteStatus, applySuspend, pollSuspend, clearSuspendDeadline, StashReleased,
     StashHint, startReleasedWake, PersistWaking, ClearHint, confirmReleasedDelete,
     applyUnsuspend, ForgetSuspended, EndReclaim, reclaimUnrestoredForks, EndForks, EndSubs,
     EndToolboxes, reconcileDelete, RemoveFinalizer, EndLoop, ProbeFails, Abandon,
     allOwnedPodsHibernated, markRestoreFromIntent, PodNotFound, DeleteFails,
     clusterVars, SameClock, SameVM
<1> DEFINE Quiet == /\ pc' \notin {"stamp"} \cup AskPCs \cup DonePCs \cup WakePCs
                    /\ pc' = "status" => last'.phase # "Suspended"
<1>3. Quiet => PollVM(w)'
  BY <1>0, <1>1, <1>2, PollKept DEF Asks, Wakes, Done, AskPCs, DonePCs, WakePCs
<1>4. CASE \/ WriteStatus \/ pollSuspend \/ PersistWaking \/ ClearHint \/ ForgetSuspended \/ EndReclaim
           \/ reclaimUnrestoredForks \/ EndForks \/ EndSubs \/ EndToolboxes \/ reconcileDelete
           \/ RemoveFinalizer \/ ProbeFails \/ Abandon
           \/ \E v \in VMs : markRestoreFromIntent(v) \/ PodNotFound(v) \/ DeleteFails(v)
  <2>1. CASE ForgetSuspended \/ EndReclaim \/ EndToolboxes
    <3>1. last.phase # "Suspended"
      BY <1>0, <2>1 DEF ForgetSuspended, EndReclaim, EndToolboxes, ViewOK, AskPCs, DonePCs
    <3>2. /\ pc' \in {"idle", "status", "reclaim", "main", "triage"}
          /\ last' = last \/ last' = [phase |-> "Pending", again |-> TRUE]
      BY <2>1 DEF ForgetSuspended, EndReclaim, EndToolboxes, Unsuspended, Goto, Return
    <3> QED BY <1>3, <3>1, <3>2 DEF AskPCs, DonePCs, WakePCs
  <2>2. CASE \/ WriteStatus \/ pollSuspend \/ PersistWaking \/ ClearHint
             \/ reclaimUnrestoredForks \/ EndForks \/ EndSubs \/ reconcileDelete
             \/ RemoveFinalizer \/ ProbeFails \/ Abandon
             \/ \E v \in VMs : markRestoreFromIntent(v) \/ PodNotFound(v) \/ DeleteFails(v)
    <3>1. \/ pc' \in {"idle", "create", "forks", "subs", "toolboxes", "teardown", "gc", "deadline", "reclaim"}
          \/ pc' = "status" /\ last'.phase # "Suspended"
      <4>1. CASE pollSuspend
        <5>1. PICK p \in {"Failed", "Suspending"} : last' = [phase |-> p, again |-> TRUE]
          BY <4>1 DEF pollSuspend
        <5>2. pc' = "status"
          BY <4>1 DEF pollSuspend, Goto
        <5> QED BY <5>1, <5>2
      <4>2. CASE ClearHint
        BY <4>2 DEF ClearHint, Goto
      <4>3. CASE \/ WriteStatus \/ PersistWaking \/ reclaimUnrestoredForks \/ EndForks \/ EndSubs
                 \/ reconcileDelete \/ RemoveFinalizer \/ ProbeFails \/ Abandon
        BY <4>3 DEF WriteStatus, PersistWaking, reclaimUnrestoredForks,
             EndForks, EndSubs, reconcileDelete, RemoveFinalizer, ProbeFails, Abandon, Goto, Return
      <4>4. CASE \E v \in VMs : markRestoreFromIntent(v) \/ PodNotFound(v) \/ DeleteFails(v)
        BY <4>4 DEF markRestoreFromIntent, PodNotFound, DeleteFails, Goto, Return
      <4> QED BY <2>2, <4>1, <4>2, <4>3, <4>4
    <3> QED BY <1>3, <3>1 DEF AskPCs, DonePCs, WakePCs
  <2> QED BY <1>4, <2>1, <2>2
<1>5. CASE Branch
  <2>1. pc = "stamp" /\ UNCHANGED view
    BY <1>5 DEF Branch
  <2>2. CASE view.suspend
    <3>1. \/ pc' \in {"sleepingMain", "record"}
          \/ pc' = "clearDeadline" /\ allByName = {}
      BY <1>5, <2>2 DEF Branch, Goto
    <3>2. pc' = "clearDeadline" => pod[w].at # "present"
      BY <1>0, <2>1, <2>2, <3>1 DEF PollOK, Asks, allByName
    <3> QED BY <1>0, <1>1, <1>2, <2>1, <2>2, <3>1, <3>2, PollKept DEF Asks, Wakes, Done, AskPCs, DonePCs, WakePCs
  <2>3. CASE ~view.suspend
    <3>1. \/ pc' \in {"unsuspend", "wake", "confirm", "dropWoken"}
          \/ pc' = "status" /\ last'.phase = "Waking"
      BY <1>5, <2>3 DEF Branch, reconcileWake, Goto
    <3> QED BY <1>0, <1>1, <1>2, <2>1, <2>3, <3>1, PollKept DEF Asks, Wakes, Done, AskPCs, DonePCs, WakePCs
  <2> QED BY <2>2, <2>3
<1>6. CASE applySuspend \/ startReleasedWake \/ confirmReleasedDelete \/ applyUnsuspend
  <2>1. \/ pc = "record" /\ pc' = "hibernate"
        \/ pc \in WakePCs /\ pc' \in {"waking", "unsuspend", "idle", "clear", "reclaim"}
        \/ Quiet
    BY <1>0, <1>6 DEF applySuspend, startReleasedWake, confirmReleasedDelete, applyUnsuspend, Unsuspended,
         ViewOK, Goto, Return, AskPCs, DonePCs, WakePCs
  <2> QED BY <1>0, <1>1, <1>2, <1>3, <2>1, PollKept DEF Asks, Wakes, Done, AskPCs, DonePCs, WakePCs
<1>7. CASE clearSuspendDeadline \/ StashReleased \/ StashHint
  <2>1. pc \in DonePCs /\ pc' \in {"stash", "hint", "release", "status"}
    BY <1>7 DEF clearSuspendDeadline, StashReleased, StashHint, Goto, DonePCs
  <2> QED BY <1>0, <1>1, <1>2, <2>1, PollKept DEF Asks, Wakes, Done, AskPCs, DonePCs, WakePCs
<1>8. CASE EndLoop
  <2>1. \/ pc = "hibernate" /\ pc' = "observe" /\ todo' = allByName
        \/ pc = "observe" /\ pc' = "clearDeadline" /\ todo = {}
        \/ pc = "release" /\ pc' = "status"
    BY <1>8 DEF EndLoop, Goto
  <2>2. pc = "hibernate" /\ w \notin allByName => pod[w].at # "present"
    BY <1>0 DEF PollOK, Asks, AskPCs, allByName
  <2> QED BY <1>0, <1>1, <1>2, <2>1, <2>2, PollKept DEF Asks, Wakes, Done, AskPCs, DonePCs, WakePCs
<1>9. ASSUME NEW v \in VMs, allOwnedPodsHibernated(v) PROVE PollVM(w)'
  <2>1. /\ pc = "observe"
        /\ \/ pc' = "observe" /\ todo' = todo \ {v} /\ HibernatedAt(seen[v], view.gen) /\ tag[v] # "none"
           \/ pc' = "deadline"
    BY <1>9 DEF allOwnedPodsHibernated, Goto
  <2>2. tag[w] \in {"none", "fresh", "stale"}
    BY DEF SuspendInv, ClusterTypeOK
  <2>3. pc' = "observe" /\ w = v /\ pod[w].at = "present" => Saved(w) /\ tag[w] = "fresh"
    BY <1>0, <2>1, <2>2 DEF PollOK, TimeOK, Saved, Asks, AskPCs
  <2> QED BY <1>0, <1>1, <1>2, <2>1, <2>3, PollKept DEF Asks, Wakes, Done, AskPCs, DonePCs, WakePCs
<1> QED BY <1>4, <1>5, <1>6, <1>7, <1>8, <1>9

(* The steps of a pass that delete a tag: no pass does so while it polls. *)
LEMMA PollTags ==
    ASSUME SuspendInv, PollInv, NEW w \in VMs,
           DropWoken \/ \E v \in VMs : DeleteManifestIfPresent(v) \/ CollectTag(v)
    PROVE  PollVM(w)'
<1>0. TimeOK(w) /\ ReportOK(w) /\ tag \in [VMs -> {"none", "fresh", "stale"}] /\ Main \in VMs
  BY MainIsVM DEF PollInv, PollVM, SuspendInv, ClusterTypeOK
<1>1. /\ pc \in {"dropWoken", "reclaim", "forks", "gc"} /\ pc' \in {"clearHint", "reclaim", "forks", "gc"}
      /\ UNCHANGED <<pod, vk, vkGen, cs, view, seen>>
  BY DEF DropWoken, DeleteManifestIfPresent, CollectTag, Goto
<1>2. tag'[w] \in {tag[w], "none"}
  BY <1>0 DEF DropWoken, DeleteManifestIfPresent, CollectTag
<1>3. TimeOK(w)'
  BY <1>0, <1>1, <1>2 DEF TimeOK
<1>4. ReportOK(w)' /\ PollOK(w)'
  BY <1>0, <1>1 DEF ReportOK, PollOK, Past, Undone, Recalled, Saved, Asks, Wakes, Done, AskPCs, DonePCs, WakePCs
<1> QED BY <1>3, <1>4 DEF PollVM

(* A pass begins: what it reads is the spec and the pods as they are. *)
LEMMA PollReconcile ==
    ASSUME SuspendInv, PollInv, NEW w \in VMs, Reconcile
    PROVE  PollVM(w)'
<1>0. TimeOK(w) /\ ReportOK(w)
  BY DEF PollInv, PollVM
<1>1. /\ pod[w].gen \in Nat /\ pod[w].obs \in Nat /\ vkGen[w] \in Nat /\ cs.gen \in Nat
  BY Clocks
<1>2. /\ pc = "idle" /\ pc' \in {"stamp", "stashAll"}
      /\ view' = cs /\ seen' = pod /\ UNCHANGED <<pod, tag, vk, vkGen, cs>>
  BY DEF Reconcile, clusterVars
<1>3. TimeOK(w)'
  BY <1>0, <1>1, <1>2 DEF TimeOK
<1>4. ReportOK(w)'
  BY <1>0, <1>1, <1>2 DEF ReportOK, Past, Undone, Recalled, Saved, Asks, Wakes, AskPCs, WakePCs
<1>5. PollOK(w)'
  <2>1. Asks' /\ HibernatedAt(pod[w], cs.gen) => Saved(w)
    BY <1>0, <1>1, <1>2 DEF ReportOK, Past, Undone, HibernatedAt, Asks, AskPCs
  <2>2. ~Done(w)' /\ pc' \notin DonePCs
    BY <1>2 DEF Done, DonePCs
  <2> QED BY <1>2, <2>1, <2>2 DEF PollOK, HibernatedAt, Saved
<1> QED BY <1>3, <1>4, <1>5 DEF PollVM

(* A pod deleted by a pass or by the user: nothing is claimed of it any more. *)
LEMMA PollDeleted ==
    ASSUME SuspendInv, PollInv, NEW w \in VMs, NEW v \in VMs, pod' = Deleted(v) \/ pod' = pod,
           UNCHANGED <<tag, vk, vkGen, cs, view, seen>>, Asks' => Asks, Wakes' => Wakes,
           pc' \in DonePCs => pc \in DonePCs, Done(w)' => Done(w), pc' # "idle" => pc # "idle"
    PROVE  PollVM(w)'
<1>0. TimeOK(w) /\ ReportOK(w) /\ PollOK(w) /\ pod \in [VMs -> Pods]
  BY DEF PollInv, PollVM, SuspendInv, ClusterTypeOK
<1>1. \/ pod'[w] = pod[w]
      \/ pod[w].at = "present" /\ pod'[w] = [pod[w] EXCEPT !.at = "terminating"]
  BY <1>0, DeletedPods
<1>2. /\ pod'[w].hib <=> pod[w].hib
      /\ pod'[w].state = pod[w].state /\ pod'[w].gen = pod[w].gen /\ pod'[w].obs = pod[w].obs
      /\ pod'[w].at = "present" => pod[w].at = "present"
      /\ pod'[w].at = "absent" => pod[w].at = "absent"
  BY <1>0, <1>1 DEF Pods
<1>3. (Saved(w)' <=> Saved(w)) /\ (Undone(w)' <=> Undone(w)) /\ (Recalled(w)' <=> Recalled(w))
  BY <1>2 DEF Saved, Undone, Recalled
<1>4. TimeOK(w)'
  BY <1>0, <1>2 DEF TimeOK
<1>5. ReportOK(w)'
  BY <1>0, <1>2, <1>3 DEF ReportOK, Past
<1>6. PollOK(w)'
  BY <1>0, <1>2, <1>3 DEF PollOK, HibernatedAt
<1> QED BY <1>4, <1>5, <1>6 DEF PollVM

(* The steps of a pass that patch, delete or create a pod. *)
LEMMA PollPods ==
    ASSUME SuspendInv, SuspendInv', PollInv, NEW w \in VMs,
           \/ CreatePod
           \/ \E v \in VMs :
                \/ syncCocoonSetGeneration(v) \/ HibernateState(v) \/ ClearHibernate(v)
                \/ ReleaseSlot(v) \/ triagePod(v) \/ DeleteOwned(v)
    PROVE  PollVM(w)'
<1>0. /\ ViewOK /\ PollVM(w) /\ TimeOK(w) /\ ReportOK(w) /\ PollOK(w)
      /\ pod \in [VMs -> Pods] /\ seen \in [VMs -> Pods] /\ slot \in VMs /\ view.gen \in Generations
  BY DEF PollInv, PollVM, SuspendInv, ClusterTypeOK, PassInv, SetInv, Sets
<1>1. /\ pod[w].gen \in Nat /\ pod[w].obs \in Nat /\ vkGen[w] \in Nat /\ seen[w].obs \in Nat
      /\ cs.gen \in Nat /\ view.gen \in Nat /\ (pc # "idle" => view.gen <= cs.gen)
      /\ pod[w].hib \in BOOLEAN /\ view.suspend \in BOOLEAN /\ cs.suspend \in BOOLEAN
  BY Clocks
<1>2. CASE CreatePod
  <2>1. /\ pc = "create" /\ pc' \in {"idle", "subs", "toolboxes"}
        /\ UNCHANGED <<tag, vk, vkGen, cs, view, seen>>
        /\ pod' = [pod EXCEPT ![slot] = IF @.at = "absent" THEN NewPod(TRUE, mark, view.gen) ELSE @]
    BY <1>2 DEF CreatePod, Goto, Return
  <2>2. ~Asks' /\ ~Wakes' /\ ~Done(w)' /\ pc' \notin DonePCs
    BY <2>1 DEF Asks, Wakes, Done, AskPCs, DonePCs, WakePCs
  <2>3. \/ pod'[w] = pod[w]
        \/ /\ pod[w].at = "absent" /\ pod'[w].at = "present" /\ pod'[w].state = "none" /\ ~pod'[w].hib
           /\ pod'[w].gen = view.gen /\ pod'[w].obs = 0
    <3>1. CASE w = slot /\ pod[w].at = "absent"
      <4>1. pod'[w] = NewPod(TRUE, mark, view.gen)
        BY <1>0, <2>1, <3>1
      <4> QED BY <3>1, <4>1 DEF NewPod, NoPod
    <3>2. CASE ~(w = slot /\ pod[w].at = "absent")
      BY <1>0, <2>1, <3>2
    <3> QED BY <3>1, <3>2
  <2>4. TimeOK(w)'
    <3>1. CASE pod'[w] = pod[w]
      BY <1>0, <2>1, <3>1 DEF TimeOK
    <3>2. CASE /\ pod[w].at = "absent" /\ pod'[w].at = "present" /\ pod'[w].state = "none"
               /\ pod'[w].gen = view.gen /\ pod'[w].obs = 0
      <4>1. vk'[w] = "off" /\ 0 <= view.gen /\ view.gen <= cs.gen /\ view.gen <= view.gen
        BY <1>0, <1>1, <2>1, <3>2 DEF TimeOK
      <4> QED BY <2>1, <3>2, <4>1 DEF TimeOK
    <3> QED BY <2>3, <3>1, <3>2
  <2>5. ReportOK(w)'
    <3>1. CASE pod'[w] = pod[w]
      BY <1>0, <2>1, <2>2, <3>1 DEF ReportOK, Past, Undone, Recalled, Saved
    <3>2. CASE pod[w].at = "absent" /\ pod'[w].state = "none"
      <4>1. vk'[w] = "off"
        BY <1>0, <2>1, <3>2 DEF TimeOK
      <4>2. ~Undone(w)' /\ ~Recalled(w)'
        BY <3>2, <4>1 DEF Undone, Recalled
      <4> QED BY <2>2, <4>2 DEF ReportOK
    <3> QED BY <2>3, <3>1, <3>2
  <2>6. PollOK(w)'
    BY <2>2 DEF PollOK
  <2> QED BY <2>4, <2>5, <2>6 DEF PollVM
<1>3. ASSUME NEW v \in VMs, ReleaseSlot(v) \/ triagePod(v) \/ DeleteOwned(v) PROVE PollVM(w)'
  <2>1. /\ pod' = Deleted(v) \/ pod' = pod
        /\ UNCHANGED <<tag, vk, vkGen, cs, view, seen, last>> /\ pc # "idle"
        /\ \/ pc = "release" /\ pc' = "release"
           \/ pc' \in {"triage", "toolboxes", "teardown", "idle"}
    BY <1>3 DEF ReleaseSlot, triagePod, DeleteOwned, Goto, Return
  <2> QED BY <2>1, PollDeleted DEF Asks, Wakes, Done, AskPCs, DonePCs, WakePCs
<1>4. ASSUME NEW v \in VMs, syncCocoonSetGeneration(v) PROVE PollVM(w)'
  <2>1. /\ pc = "stamp" /\ pc' = "stamp" /\ UNCHANGED <<tag, vk, vkGen, cs, view>>
        /\ PatchPod(v, seen[v].gen # view.gen, [pod[v] EXCEPT !.gen = view.gen])
    BY <1>4 DEF syncCocoonSetGeneration, Goto
  <2>2. \/ pod'[w] = pod[w] /\ seen'[w] = seen[w]
        \/ /\ pod'[w] = [pod[w] EXCEPT !.gen = view.gen] /\ seen'[w].at = seen[w].at
           /\ seen'[w].state = pod'[w].state /\ seen'[w].obs = pod'[w].obs
    <3> DEFINE q == [pod[v] EXCEPT !.gen = view.gen]
    <3>1. q \in Pods
      BY <1>0, PodRecordType
    <3>2. (seen[v].gen # view.gen) \in BOOLEAN /\ PatchPod(v, seen[v].gen # view.gen, q)
      BY <2>1
    <3> HIDE DEF q
    <3>3. /\ w # v => pod'[w] = pod[w] /\ seen'[w] = seen[w]
          /\ ~(seen[v].gen # view.gen) => pod'[v] = pod[v] /\ seen'[v] = seen[v]
          /\ seen[v].gen # view.gen => pod'[v] = q /\ SeenAs(v, q) /\ seen'[v].at = seen[v].at
      BY <1>0, <3>1, <3>2, PatchEffect
    <3> QED BY <3>3 DEF SeenAs, q
  <2>3. /\ pod'[w].at = pod[w].at /\ pod'[w].state = pod[w].state /\ pod'[w].obs = pod[w].obs
        /\ (pod'[w].hib <=> pod[w].hib) /\ (pod'[w].gen = pod[w].gen \/ pod'[w].gen = view.gen)
    BY <1>0, <2>2 DEF Pods
  <2>4. (Saved(w)' <=> Saved(w)) /\ (Undone(w)' <=> Undone(w)) /\ (Recalled(w)' <=> Recalled(w))
    BY <2>1, <2>3 DEF Saved, Undone, Recalled
  <2>5. TimeOK(w)'
    BY <1>0, <1>1, <2>1, <2>3 DEF TimeOK
  <2>6. (Asks' <=> Asks) /\ (Wakes' <=> Wakes) /\ (Wakes => ~view.suspend) /\ ~Done(w)' /\ pc' \notin DonePCs
    BY <2>1 DEF Asks, Wakes, Done, AskPCs, DonePCs, WakePCs
  <2>7. ReportOK(w)'
    BY <1>0, <2>1, <2>3, <2>4, <2>6 DEF ReportOK, Past
  <2>8. PollOK(w)'
    <3>1. CASE pod'[w] = pod[w] /\ seen'[w] = seen[w]
      BY <1>0, <2>1, <2>4, <2>6, <3>1 DEF PollOK, HibernatedAt
    <3>2. CASE /\ seen'[w].at = seen[w].at /\ seen'[w].state = pod'[w].state
               /\ seen'[w].obs = pod'[w].obs
      <4>1. Asks /\ HibernatedAt(pod'[w], view.gen) => Saved(w)
        BY <1>0, <1>1, <2>3 DEF HibernatedAt, ReportOK, Undone
      <4> QED BY <1>0, <2>1, <2>3, <2>4, <2>6, <3>2, <4>1 DEF PollOK, HibernatedAt
    <3> QED BY <2>2, <3>1, <3>2
  <2> QED BY <2>5, <2>7, <2>8 DEF PollVM
<1>5. ASSUME NEW v \in VMs, HibernateState(v) PROVE PollVM(w)'
  <2>1. /\ pc = "hibernate" /\ pc' = "hibernate" /\ UNCHANGED <<tag, vk, vkGen, cs, view>>
        /\ PatchPod(v, ~seen[v].hib, [pod[v] EXCEPT !.hib = TRUE])
    BY <1>5 DEF HibernateState, Goto
  <2>2. \/ pod'[w] = pod[w] /\ seen'[w] = seen[w]
        \/ /\ pod'[w] = [pod[w] EXCEPT !.hib = TRUE] /\ seen'[w].at = seen[w].at
           /\ seen'[w].state = pod'[w].state /\ seen'[w].obs = pod'[w].obs
    <3> DEFINE q == [pod[v] EXCEPT !.hib = TRUE]
    <3>1. q \in Pods
      BY <1>0, PodRecordType
    <3>2. (~seen[v].hib) \in BOOLEAN /\ PatchPod(v, ~seen[v].hib, q)
      BY <2>1
    <3> HIDE DEF q
    <3>3. /\ w # v => pod'[w] = pod[w] /\ seen'[w] = seen[w]
          /\ ~(~seen[v].hib) => pod'[v] = pod[v] /\ seen'[v] = seen[v]
          /\ ~seen[v].hib => pod'[v] = q /\ SeenAs(v, q) /\ seen'[v].at = seen[v].at
      BY <1>0, <3>1, <3>2, PatchEffect
    <3> QED BY <3>3 DEF SeenAs, q
  <2>3. /\ pod'[w].at = pod[w].at /\ pod'[w].state = pod[w].state /\ pod'[w].obs = pod[w].obs
        /\ (pod[w].hib => pod'[w].hib) /\ pod'[w].gen = pod[w].gen
    BY <1>0, <2>2 DEF Pods
  <2>4. (Saved(w) => Saved(w)') /\ (Undone(w)' => Undone(w)) /\ (Recalled(w)' => Recalled(w))
    BY <2>1, <2>3 DEF Saved, Undone, Recalled
  <2>5. TimeOK(w)'
    BY <1>0, <1>1, <2>1, <2>3 DEF TimeOK
  <2>6. Asks /\ Asks' /\ ~Wakes' /\ ~Done(w)' /\ pc' \notin DonePCs
    BY <2>1 DEF Asks, Wakes, Done, AskPCs, DonePCs, WakePCs
  <2>7. ReportOK(w)'
    BY <1>0, <2>1, <2>3, <2>4, <2>6 DEF ReportOK, Past
  <2>8. PollOK(w)'
    <3>1. CASE pod'[w] = pod[w] /\ seen'[w] = seen[w]
      BY <1>0, <2>1, <2>4, <2>6, <3>1 DEF PollOK, HibernatedAt
    <3>2. CASE /\ seen'[w].at = seen[w].at /\ seen'[w].state = pod'[w].state
               /\ seen'[w].obs = pod'[w].obs
      <4>1. HibernatedAt(pod'[w], view.gen) => Saved(w)
        BY <1>0, <1>1, <2>3, <2>6 DEF HibernatedAt, ReportOK, Undone
      <4> QED BY <1>0, <2>1, <2>3, <2>4, <2>6, <3>2, <4>1 DEF PollOK, HibernatedAt
    <3> QED BY <2>2, <3>1, <3>2
  <2> QED BY <2>5, <2>7, <2>8 DEF PollVM
<1>6. ASSUME NEW v \in VMs, ClearHibernate(v) PROVE PollVM(w)'
  <2>1. /\ pc = "clear" /\ pc' = "clear" /\ UNCHANGED <<tag, vk, vkGen, cs, view>>
        /\ PatchPod(v, seen[v].hib, [pod[v] EXCEPT !.hib = FALSE])
    BY <1>6 DEF ClearHibernate, Goto
  <2>2. pod'[w] = pod[w] \/ pod'[w] = [pod[w] EXCEPT !.hib = FALSE]
    <3> DEFINE q == [pod[v] EXCEPT !.hib = FALSE]
    <3>1. q \in Pods
      BY <1>0, PodRecordType
    <3>2. seen[v].hib \in BOOLEAN
      BY <1>0 DEF Pods
    <3>3. PatchPod(v, seen[v].hib, q)
      BY <2>1
    <3> HIDE DEF q
    <3>4. /\ w # v => pod'[w] = pod[w]
          /\ pod'[v] = pod[v] \/ pod'[v] = q
      BY <1>0, <3>1, <3>2, <3>3, PatchEffect
    <3> QED BY <3>4 DEF q
  <2>3. /\ pod'[w].at = pod[w].at /\ pod'[w].state = pod[w].state /\ pod'[w].obs = pod[w].obs
        /\ pod'[w].gen = pod[w].gen
    BY <1>0, <2>2 DEF Pods
  <2>4. TimeOK(w)'
    BY <1>0, <1>1, <2>1, <2>3 DEF TimeOK
  <2>5. ~Asks' /\ Wakes /\ ~Done(w)' /\ pc' \notin DonePCs
    BY <2>1 DEF Asks, Wakes, Done, AskPCs, DonePCs, WakePCs
  <2>6. \A n \in Nat : n <= pod[w].gen => Past(n)
    BY <1>0, <1>1, <2>1, <2>5 DEF ReportOK, TimeOK, ViewOK, Past
  <2>7. ReportOK(w)'
    <3>1. Past(pod[w].obs)' /\ (vk[w] \in {"pushing", "pushed"} => Past(vkGen[w]))'
      BY <1>0, <1>1, <2>1, <2>3, <2>6 DEF TimeOK, Past
    <3> QED BY <1>0, <2>1, <2>3, <2>5, <3>1 DEF ReportOK, Recalled, Past
  <2>8. PollOK(w)'
    BY <2>5 DEF PollOK
  <2> QED BY <2>4, <2>7, <2>8 DEF PollVM
<1> QED BY <1>2, <1>3, <1>4, <1>5, <1>6

(* The user, vk-cocoon and time. *)
LEMMA PollOutside ==
    ASSUME SuspendInv, PollInv, NEW w \in VMs,
           \/ EditSpec \/ DeleteSet \/ DeadlinePasses \/ UNCHANGED vars
           \/ \E v \in VMs : DeletePod(v) \/ VkActs(v)
    PROVE  PollVM(w)'
<1>0. /\ TimeOK(w) /\ ReportOK(w) /\ PollOK(w) /\ cs \in Sets /\ ClusterTypeOK
  BY DEF PollInv, PollVM, SuspendInv, SetInv
<1>1. /\ pod[w].gen \in Nat /\ pod[w].obs \in Nat /\ vkGen[w] \in Nat
      /\ cs.gen \in Nat /\ view.gen \in Nat
  BY Clocks
<1> DEFINE SamePass == UNCHANGED <<pc, view, seen, todo, last>>
<1>2. ASSUME SameClock(w), SamePass, cs'.gen = cs.gen, cs'.suspend <=> cs.suspend PROVE PollVM(w)'
  <2>1. pod'[w] = pod[w] /\ tag'[w] = tag[w] /\ vk'[w] = vk[w] /\ vkGen'[w] = vkGen[w]
    BY <1>2 DEF SameClock, SameVM
  <2>2. (Saved(w)' <=> Saved(w)) /\ (Undone(w)' <=> Undone(w)) /\ (Recalled(w)' <=> Recalled(w))
    BY <2>1 DEF Saved, Undone, Recalled
  <2>3. (Asks' <=> Asks) /\ (Wakes' <=> Wakes) /\ (Done(w)' <=> Done(w))
    BY <1>2 DEF Asks, Wakes, Done
  <2>4. TimeOK(w)'
    BY <1>0, <1>2, <2>1 DEF TimeOK
  <2>5. ReportOK(w)'
    BY <1>0, <1>2, <2>1, <2>2, <2>3 DEF ReportOK, Past
  <2>6. PollOK(w)'
    BY <1>0, <1>2, <2>1, <2>2, <2>3 DEF PollOK, HibernatedAt
  <2> QED BY <2>4, <2>5, <2>6 DEF PollVM
<1>3. CASE EditSpec
  <2>1. /\ UNCHANGED <<pod, tag, vk, vkGen>> /\ SamePass
        /\ \E b \in BOOLEAN, p \in Policies : cs' = [cs EXCEPT !.gen = @ + 1, !.suspend = b, !.policy = p]
    BY <1>3 DEF EditSpec, clusterVars, passVars
  <2>2. cs'.gen = cs.gen + 1
    BY <1>0, <2>1 DEF Sets
  <2>3. (Saved(w)' <=> Saved(w)) /\ (Undone(w)' <=> Undone(w)) /\ (Recalled(w)' <=> Recalled(w))
    BY <2>1 DEF Saved, Undone, Recalled
  <2>4. (Asks' <=> Asks) /\ (Wakes' <=> Wakes) /\ (Done(w)' <=> Done(w))
    BY <2>1 DEF Asks, Wakes, Done
  <2>5. TimeOK(w)'
    BY <1>0, <1>1, <2>1, <2>2 DEF TimeOK
  <2>6. Past(pod[w].obs)' /\ (vk[w] \in {"pushing", "pushed"} => Past(vkGen[w])')
    BY <1>0, <1>1, <2>1, <2>2 DEF TimeOK, Past
  <2>7. ReportOK(w)'
    BY <1>0, <2>1, <2>3, <2>4, <2>6 DEF ReportOK, Recalled
  <2>8. PollOK(w)'
    BY <1>0, <2>1, <2>3, <2>4 DEF PollOK, HibernatedAt
  <2> QED BY <2>5, <2>7, <2>8 DEF PollVM
<1>4. CASE DeleteSet \/ DeadlinePasses \/ UNCHANGED vars
  <2>1. SameClock(w) /\ SamePass
    BY <1>4 DEF DeleteSet, DeadlinePasses, vars, clusterVars, passVars, SameClock, SameVM
  <2>2. cs' = cs \/ cs' = [cs EXCEPT !.at = "deleting"]
    BY <1>4 DEF DeleteSet, DeadlinePasses, vars
  <2>3. cs'.gen = cs.gen /\ (cs'.suspend <=> cs.suspend)
    BY <1>0, <2>2 DEF Sets
  <2> QED BY <1>2, <2>1, <2>3
<1>5. ASSUME NEW v \in VMs, DeletePod(v) PROVE PollVM(w)'
  <2>1. pod' = Deleted(v) /\ UNCHANGED <<tag, vk, vkGen, cs>> /\ SamePass
    BY <1>5 DEF DeletePod, passVars
  <2> QED BY <2>1, PollDeleted DEF Asks, Wakes, Done
<1>6. ASSUME NEW v \in VMs, VkActs(v) PROVE PollVM(w)'
  <2>1. VkStep(v) /\ cs' = cs /\ SamePass
    BY <1>6 DEF VkActs, passVars
  <2>2. CASE w # v
    BY <1>0, <1>2, <2>1, <2>2, VkTurns
  <2>3. CASE w = v
    <3>1. (Asks' <=> Asks) /\ (Wakes' <=> Wakes) /\ (Done(w)' <=> Done(w))
      BY <2>1 DEF Asks, Wakes, Done
    <3>2. \/ /\ pod'[w].at = pod[w].at /\ (pod'[w].hib <=> pod[w].hib) /\ pod'[w].gen = pod[w].gen
          \/ pod'[w].at = "absent" /\ vk'[w] = "off" /\ pod'[w].state = "none" /\ pod'[w].gen = 0
             /\ pod'[w].obs = 0
      BY <1>0, <2>1, <2>3, VkTurns DEF NoPod
    <3>3. TimeOK(w)'
      BY <1>0, <1>1, <2>1, <2>3, <3>2, VkTurns DEF TimeOK, NoPod
    <3>4. /\ Undone(w)' => \/ Undone(w) /\ pod'[w].obs = pod[w].obs
                           \/ Recalled(w) /\ pod'[w].obs = vkGen[w]
          /\ Recalled(w)' => Recalled(w) /\ vkGen'[w] = vkGen[w]
      BY <1>0, <2>1, <2>3, <3>2, VkTurns DEF TimeOK, Undone, Recalled, Saved, NoPod
    <3>5. Wakes' => ~view'.suspend \/ pod'[w].gen < view'.gen
      BY <1>0, <1>1, <2>1, <3>1, <3>2 DEF ReportOK
    <3>6. ReportOK(w)'
      BY <1>0, <2>1, <3>1, <3>4, <3>5 DEF ReportOK, Past
    <3>7. Saved(w) /\ pod'[w].at = "present" => Saved(w)' /\ tag'[w] = tag[w]
      BY <1>0, <2>1, <2>3, <3>2, VkTurns DEF Saved
    <3>8. PollOK(w)'
      BY <1>0, <2>1, <3>1, <3>2, <3>7 DEF PollOK, HibernatedAt
    <3> QED BY <3>3, <3>6, <3>8 DEF PollVM
  <2> QED BY <2>2, <2>3
<1> QED BY <1>3, <1>4, <1>5, <1>6

LEMMA PollStep ==
    ASSUME VkMayFail = FALSE, SuspendInv, PollInv, [Next]_vars
    PROVE  PollInv'
<1>1. SuspendInv' /\ ViewOK'
  BY SuspendStep, ViewStep DEF PollInv
<1>2. ASSUME NEW w \in VMs PROVE PollVM(w)'
  <2>1. CASE Reconcile
    BY <2>1, PollReconcile
  <2>2. CASE PassStep \/ ProbeFails \/ Abandon \/ \E v \in VMs : DeleteFails(v)
    BY <1>1, <2>2, PollControl, PollTags, PollPods DEF PassStep
  <2>3. CASE \/ EditSpec \/ DeleteSet \/ DeadlinePasses \/ UNCHANGED vars
             \/ \E v \in VMs : DeletePod(v) \/ VkActs(v)
    BY <2>3, PollOutside
  <2>4. \A v \in VMs : ~VkFails(v)
    BY DEF VkFails
  <2> QED BY <2>1, <2>2, <2>3, <2>4 DEF Next
<1> QED BY <1>1, <1>2 DEF PollInv

LEMMA PollInit == Init => PollInv
<1> SUFFICES ASSUME Init PROVE PollInv
  OBVIOUS
<1>1. pc = "idle" /\ last.phase = "" /\ cs.gen = 1
  BY DEF Init
<1>2. ASSUME NEW w \in VMs
      PROVE  /\ pod[w].at = "present" /\ pod[w].state = "ready" /\ pod[w].gen = 1 /\ pod[w].obs = 1
             /\ vk[w] = "running"
  BY <1>2 DEF Init, ClusterInit, NewPod, NoPod
<1>3. ASSUME NEW w \in VMs PROVE PollVM(w)
  <2>1. /\ pod[w].at = "present" /\ pod[w].state = "ready" /\ vk[w] = "running"
        /\ pod[w].obs <= pod[w].gen /\ pod[w].gen <= cs.gen
    <3>1. 1 <= 1
      OBVIOUS
    <3>2. pod[w].gen = 1 /\ pod[w].obs = 1
      BY <1>2
    <3>3. pod[w].obs <= pod[w].gen /\ pod[w].gen <= cs.gen
      BY <1>1, <3>1, <3>2, Zenon
    <3> QED BY <1>2, <3>3
  <2>2. TimeOK(w)
    BY <1>1, <2>1 DEF TimeOK
  <2>3. ReportOK(w)
    BY <1>1, <2>1 DEF ReportOK, Undone, Recalled, Asks, Wakes, AskPCs, WakePCs
  <2>4. PollOK(w)
    BY <1>1 DEF PollOK, Asks, Done, AskPCs, DonePCs
  <2> QED BY <2>2, <2>3, <2>4 DEF PollVM
<1>4. ViewOK
  BY <1>1 DEF ViewOK
<1> QED BY <1>3, <1>4 DEF PollInv

(* Whatever the user edits and deletes, under either policy and across any failed call or
   restart, a set turns Suspended only once every VM that has a pod has pushed the state
   this suspend asked for: allOwnedPodsHibernated accepts no report of an earlier round.
   Only a vk-cocoon that fails its transitions is left out: it counts a failed restore of
   an old tag as asleep. *)
THEOREM SuspendedMeansSaved ==
    ASSUME VkMayFail = FALSE
    PROVE  Spec => SuspendedIsSaved
<1> DEFINE Inv == SuspendInv /\ PollInv
           IsSaved == cs.phase # "Suspended" /\ cs'.phase = "Suspended"
                      => \A v \in VMs : pod[v].at = "present" => tag[v] = "fresh"
<1>1. Inv /\ [Next]_vars => Inv'
  BY SuspendStep, PollStep
<1>2. Inv /\ [Next]_vars => IsSaved
  <2> SUFFICES ASSUME Inv, [Next]_vars, cs.phase # "Suspended", cs'.phase = "Suspended",
                      NEW v \in VMs, pod[v].at = "present"
               PROVE  tag[v] = "fresh"
    OBVIOUS
  <2>1. Done(v)
    BY SuspendedByStatus DEF Done
  <2> QED BY <2>1 DEF PollInv, PollVM, PollOK
<1>3. IsSaved => [IsSaved]_vars
  OBVIOUS
<1> QED BY <1>1, <1>2, <1>3, SuspendInit, PollInit, PTL DEF Spec, SuspendedIsSaved

(* In the same setting releaseSlot deletes a pod only when the registry holds its VM's
   state: neither a spec edit nor a delete of another pod between the poll and the release
   can make the snapshot old. *)
THEOREM ReleasedMeansSaved ==
    ASSUME VkMayFail = FALSE
    PROVE  Spec => ReleasedIsSaved
<1> DEFINE Inv == SuspendInv /\ PollInv
           IsSaved == \A v \in VMs : pc = "release" /\ v \in todo \ todo' /\ pod[v].at = "present"
                                     => tag[v] = "fresh"
<1>1. Inv /\ [Next]_vars => Inv'
  BY SuspendStep, PollStep
<1>2. Inv => IsSaved
  BY DEF PollInv, PollVM, PollOK, Done, DonePCs
<1>3. IsSaved => [IsSaved]_vars
  OBVIOUS
<1> QED BY <1>1, <1>2, <1>3, SuspendInit, PollInit, PTL DEF Spec, ReleasedIsSaved
=============================================================================
