------------------------- MODULE HibernationProofs -------------------------
(* Proofs about Hibernation: its types, the mutual exclusion of vmLocks, what a pass knows
   of its CR, and how the phase serializes the reversals of a desire. *)
EXTENDS Hibernation, ClusterProofs

-----------------------------------------------------------------------------
(* Types of what a pass computes and writes *)

(* The status a pass computes is that of a CR, and so is what its patch leaves. *)
LEMMA StatusType ==
    ASSUME NEW h \in CRRecords, NEW r \in CRRecords, NEW to \in Phases, NEW t \in Nat
    PROVE  /\ NewStatus(h, to, t) \in CRRecords
           /\ MergePatch(r, h, NewStatus(h, to, t)) \in CRRecords
<1>1. ASSUME NEW o \in Nat, NEW m \in BOOLEAN, NEW l \in Nat, NEW p \in Phases, NEW q \in CRRecords
      PROVE  [q EXCEPT !.phase = p, !.obsGen = o, !.vmName = m, !.ltt = l] \in CRRecords
  BY DEF CRRecords
<1>2. ASSUME NEW q \in CRRecords
      PROVE  q.gen \in Nat /\ q.obsGen \in Nat /\ q.ltt \in Nat /\ q.phase \in Phases
             /\ q.vmName \in BOOLEAN
  BY DEF CRRecords
<1> DEFINE n == NewStatus(h, to, t)
<1>3. n \in CRRecords
  <2>1. (h.vmName \/ to \in SetByPhase) \in BOOLEAN
    OBVIOUS
  <2>2. (IF Ready(h.phase) # Ready(to) \/ (h.phase # to /\ to \in InFlight) THEN t ELSE h.ltt) \in Nat
    BY <1>2
  <2> QED BY <1>1, <1>2, <2>1, <2>2 DEF NewStatus
<1> HIDE DEF n
<1>4. MergePatch(r, h, n) \in CRRecords
  <2>1. /\ (IF n.phase # h.phase THEN n.phase ELSE r.phase) \in Phases
        /\ (IF n.obsGen # h.obsGen THEN n.obsGen ELSE r.obsGen) \in Nat
        /\ (IF <<n.phase, n.obsGen, n.ltt>> # <<h.phase, h.obsGen, h.ltt>> THEN n.ltt ELSE r.ltt) \in Nat
    BY <1>2, <1>3
  <2>2. (IF n.vmName # h.vmName THEN n.vmName ELSE r.vmName) \in BOOLEAN
    BY <1>2, <1>3
  <2> QED BY <1>1, <2>1, <2>2 DEF MergePatch
<1> QED BY <1>3, <1>4 DEF n

(* The CRs the user and the finalizer write are well typed. *)
LEMMA CRRecordType ==
    /\ NoRecord \in CRRecords
    /\ \A d \in {"Hibernate", "Wake"} :
         [NoRecord EXCEPT !.at = "present", !.desire = d, !.gen = 1] \in CRRecords
    /\ \A h \in CRRecords : [h EXCEPT !.fin = TRUE] \in CRRecords
    /\ \A h \in CRRecords : [h EXCEPT !.at = "deleting"] \in CRRecords
    /\ \A h \in CRRecords : \A d \in {"Hibernate", "Wake"} :
         [h EXCEPT !.desire = d, !.gen = h.gen + 1] \in CRRecords
<1>1. NoRecord \in CRRecords
  BY DEF NoRecord, CRRecords, Phases
<1>2. ASSUME NEW h \in CRRecords, NEW d \in {"Hibernate", "Wake"}
      PROVE  [h EXCEPT !.at = "present", !.desire = d, !.gen = 1] \in CRRecords
  BY DEF CRRecords
<1>3. ASSUME NEW h \in CRRecords
      PROVE  [h EXCEPT !.fin = TRUE] \in CRRecords /\ [h EXCEPT !.at = "deleting"] \in CRRecords
  BY DEF CRRecords
<1>4. ASSUME NEW h \in CRRecords, NEW d \in {"Hibernate", "Wake"}
      PROVE  [h EXCEPT !.desire = d, !.gen = h.gen + 1] \in CRRecords
  <2>1. h.gen + 1 \in Nat
    BY DEF CRRecords
  <2> QED BY <2>1 DEF CRRecords
<1> QED BY <1>1, <1>2, <1>3, <1>4

(* The passes the actions write are well typed. *)
LEMMA PassRecordType ==
    /\ Idle \in Passes
    /\ \A p \in PCs : \A h \in CRRecords : \A q \in Pods :
         [Idle EXCEPT !.pc = p, !.cr = h, !.pod = q] \in Passes
    /\ \A a \in Passes : \A p \in PCs : [a EXCEPT !.pc = p] \in Passes
    /\ \A a \in Passes : \A q \in Pods : [a EXCEPT !.pod = q] \in Passes
    /\ \A a \in Passes : \A to \in Phases : \A then \in {"done", "requeue", "drop"} :
         Writing(a, to, then) \in Passes /\ Writing(a, to, then).pc = "setPhase"
<1>1. Idle \in Passes
  BY CRRecordType, PodRecordType DEF Idle, Passes, PCs, Phases
<1>2. ASSUME NEW p \in PCs, NEW h \in CRRecords, NEW q \in Pods, NEW a \in Passes
      PROVE  [a EXCEPT !.pc = p, !.cr = h, !.pod = q] \in Passes
  BY DEF Passes
<1>3. ASSUME NEW a \in Passes, NEW p \in PCs PROVE [a EXCEPT !.pc = p] \in Passes
  BY DEF Passes
<1>4. ASSUME NEW a \in Passes, NEW q \in Pods PROVE [a EXCEPT !.pod = q] \in Passes
  BY DEF Passes
<1>5. ASSUME NEW a \in Passes, NEW to \in Phases, NEW then \in {"done", "requeue", "drop"}
      PROVE  Writing(a, to, then) \in Passes /\ Writing(a, to, then).pc = "setPhase"
  BY DEF Writing, Passes, PCs, Locked
<1> QED BY <1>1, <1>2, <1>3, <1>4, <1>5

(* A pass starts outside the lock, and at its finalizer only when it names no VM. *)
LEMMA FirstCallResult ==
    ASSUME NEW h, NEW p
    PROVE  /\ FirstCall(h, p) \in PCs \ Locked
           /\ FirstCall(h, p) = "delFinalizer" => ~h.vmName
BY DEF FirstCall, PCs, Locked

-----------------------------------------------------------------------------
(* The invariant *)

Holds(a) == a.pc \in Locked \/ (a.pc = "delFinalizer" /\ a.cr.vmName)

(* vmLocks: a pass past lockVM is the one its stripe names. *)
LockInv == \A c \in CRs : Holds(pass[c]) => lock[StripeOf(c)] = c

PassType ==
    /\ pass \in [CRs -> Passes]
    /\ queue \in [CRs -> BOOLEAN]
    /\ lock \in [{Stripe[v] : v \in VMs} -> CRs \cup {NoCR}]

CRType ==
    /\ cr \in [CRs -> CRRecords]
    /\ now \in [CRs -> Nat \ {0}]
    /\ entries \in [CRs -> Nat]

NoteType == observed \in [CRs -> Nat] /\ exits \in [CRs -> Nat]

(* The rest of TypeOK: the caches and the environment. *)
RestType ==
    /\ crCache \in [CRs -> CRRecords] /\ podCache \in [VMs -> Pods]
    /\ expired \in [CRs -> Nat] /\ setGen \in Generations
    /\ left \in [flips : 0..MaxFlips, timeouts : 0..MaxTimeouts,
                 deletes : 0..MaxDeletes, patient : BOOLEAN]

HInv == ClusterTypeOK /\ PassType /\ LockInv /\ CRType /\ NoteType /\ RestType

(* The parts are the whole. *)
LEMMA TypeParts == (ClusterTypeOK /\ PassType /\ CRType /\ NoteType /\ RestType) <=> TypeOK
BY DEF TypeOK, PassType, CRType, NoteType, RestType

(* A CR's stripe is one of the lock array's. *)
LEMMA StripeType == \A c \in CRs : VM(c) \in VMs /\ StripeOf(c) \in {Stripe[v] : v \in VMs}
BY HibernationAssumption DEF VM, StripeOf

(* An idle pass holds nothing. *)
LEMMA IdleHoldsNothing == ~Holds(Idle)
BY DEF Holds, Idle, Locked

(* Returning releases what the pass held and nothing else. *)
LEMMA ReturnKeeps ==
    ASSUME PassType, LockInv, NEW c \in CRs, NEW again \in BOOLEAN, Return(c, again)
    PROVE  PassType' /\ LockInv'
<1>1. pass' \in [CRs -> Passes]
  BY PassRecordType DEF Return, PassType
<1>2. lock' \in [{Stripe[v] : v \in VMs} -> CRs \cup {NoCR}]
  BY DEF Return, Unlock, PassType
<1>3. queue' \in [CRs -> BOOLEAN]
  BY DEF Return, PassType
<1>4. ASSUME NEW d \in CRs, Holds(pass'[d]) PROVE lock'[StripeOf(d)] = d
  <2>1. d # c /\ pass'[d] = pass[d]
    BY <1>4, IdleHoldsNothing DEF Return, PassType
  <2>2. lock[StripeOf(d)] = d
    BY <1>4, <2>1 DEF LockInv
  <2> QED BY <2>1, <2>2, StripeType DEF Return, Unlock, PassType
<1> QED BY <1>1, <1>2, <1>3, <1>4 DEF PassType, LockInv, StripeOf, VM

(* Going on keeps the lock a pass holds, and takes none. *)
LEMMA GotoKeeps ==
    ASSUME PassType, LockInv, NEW c \in CRs, NEW next \in Passes, Goto(c, next),
           Holds(next) => Holds(pass[c])
    PROVE  PassType' /\ LockInv'
<1>1. PassType'
  BY DEF Goto, PassType
<1>2. ASSUME NEW d \in CRs, Holds(pass'[d]) PROVE lock'[StripeOf(d)] = d
  BY <1>2 DEF Goto, PassType, LockInv
<1> QED BY <1>1, <1>2 DEF LockInv, StripeOf, VM

(* Taking a free stripe. *)
LEMMA LockKeeps ==
    ASSUME PassType, LockInv, NEW c \in CRs, NEW next \in Passes,
           lock[StripeOf(c)] = NoCR, lock' = [lock EXCEPT ![StripeOf(c)] = c],
           pass' = [pass EXCEPT ![c] = next], UNCHANGED queue
    PROVE  PassType' /\ LockInv'
<1>1. PassType'
  BY DEF PassType
<1>2. ASSUME NEW d \in CRs, Holds(pass'[d]) PROVE lock'[StripeOf(d)] = d
  <2>1. CASE d = c
    BY <2>1, StripeType DEF PassType
  <2>2. CASE d # c
    <3>1. lock[StripeOf(d)] = d
      BY <1>2, <2>2 DEF LockInv, PassType
    <3> QED BY <2>2, <3>1, StripeType, HibernationAssumption DEF PassType
  <2> QED BY <2>1, <2>2
<1> QED BY <1>1, <1>2 DEF LockInv, StripeOf, VM

(* Announcing keeps its counters well typed. *)
LEMMA AnnounceType ==
    ASSUME NoteType, NEW c \in CRs, NEW h \in CRRecords, Announce(c, h) \/ Quiet
    PROVE  NoteType'
<1>1. h.ltt \in Nat
  BY DEF CRRecords
<1> QED BY <1>1 DEF NoteType, Announce, Quiet

(* A status write keeps the CRs well typed. *)
LEMMA WriteStatusType ==
    ASSUME PassType, CRType, NEW c \in CRs, NEW to \in Phases, WriteStatus(c, to) \/ NoWrite
    PROVE  CRType'
<1>1. pass[c].cr \in CRRecords /\ now[c] \in Nat /\ cr[c] \in CRRecords
  BY DEF PassType, Passes, CRType
<1>2. CASE WriteStatus(c, to)
  <2>1. MergePatch(cr[c], pass[c].cr, NewStatus(pass[c].cr, to, now[c])) \in CRRecords
    BY <1>1, StatusType
  <2>2. cr' \in [CRs -> CRRecords]
    BY <1>1, <1>2, <2>1 DEF WriteStatus, CRType
  <2>3. now' \in [CRs -> Nat \ {0}] /\ entries' \in [CRs -> Nat]
    BY <1>2 DEF WriteStatus, CRType
  <2> QED BY <2>2, <2>3 DEF CRType
<1>3. CASE NoWrite
  BY <1>3 DEF NoWrite, CRType
<1> QED BY <1>2, <1>3

-----------------------------------------------------------------------------
(* One lemma per group of actions *)

(* What a pass holds in hand is well typed. *)
LEMMA InHandType ==
    ASSUME HInv, NEW c \in CRs
    PROVE  /\ pass[c] \in Passes /\ pass[c].cr \in CRRecords /\ pass[c].pod \in Pods
           /\ pass[c].to \in Phases /\ cr[c] \in CRRecords /\ crCache[c] \in CRRecords
           /\ VM(c) \in VMs /\ pod[VM(c)] \in Pods /\ podCache[VM(c)] \in Pods
BY StripeType DEF HInv, PassType, Passes, CRType, RestType, ClusterTypeOK

(* The steps before the lock and of the deletion keep the invariant. *)
LEMMA ControlStep ==
    ASSUME HInv, NEW c \in CRs,
           \/ Reconcile(c) \/ AddFinalizer(c) \/ markPending(c) \/ lockVM(c) \/ setPhase(c)
           \/ deleteLockVM(c) \/ listHolders(c) \/ deleteHeldTag(c) \/ RemoveFinalizer(c)
           \/ DeleteManifestIfPresent(c) \/ CallFails(c)
    PROVE  HInv'
<1> USE InHandType DEF HInv
<1>1. CASE Reconcile(c)
  <2> DEFINE next == IF crCache[c].at = "absent" THEN Idle
                     ELSE [Idle EXCEPT !.pc = FirstCall(crCache[c], podCache[VM(c)]),
                                       !.cr = crCache[c], !.pod = podCache[VM(c)]]
  <2>1. next \in Passes
    BY FirstCallResult, PassRecordType
  <2>2. ~Holds(next)
    <3>1. CASE crCache[c].at = "absent"
      BY <3>1, IdleHoldsNothing
    <3>2. CASE crCache[c].at # "absent"
      <4>1. next.pc = FirstCall(crCache[c], podCache[VM(c)]) /\ next.cr = crCache[c]
        BY <3>2 DEF Idle
      <4> HIDE DEF next
      <4> QED BY <4>1, FirstCallResult DEF Holds
    <3> QED BY <3>1, <3>2
  <2>3. pass' = [pass EXCEPT ![c] = next] /\ queue' \in [CRs -> BOOLEAN] /\ UNCHANGED lock
    BY <1>1 DEF Reconcile, PassType
  <2> HIDE DEF next
  <2>4. PassType'
    BY <2>1, <2>3 DEF PassType
  <2>5. ASSUME NEW d \in CRs, Holds(pass'[d]) PROVE lock'[StripeOf(d)] = d
    BY <2>2, <2>3, <2>5 DEF PassType, LockInv
  <2>6. LockInv'
    BY <2>5 DEF LockInv, StripeOf, VM
  <2> QED BY <1>1, <2>4, <2>6
      DEF Reconcile, clusterVars, envVars, ClusterTypeOK, CRType, NoteType, RestType
<1>2. CASE AddFinalizer(c)
  <2>1. PassType' /\ LockInv'
    BY <1>2, ReturnKeeps DEF AddFinalizer
  <2>2. CRType'
    BY <1>2, CRRecordType DEF AddFinalizer, CRType, envVars
  <2> QED BY <1>2, <2>1, <2>2 DEF AddFinalizer, clusterVars, envVars, ClusterTypeOK, NoteType, RestType
<1>3. CASE markPending(c)
  <2>1. PassType' /\ LockInv'
    BY <1>3, ReturnKeeps DEF markPending
  <2>2. CRType'
    BY <1>3, WriteStatusType DEF markPending, Phases
  <2> QED BY <1>3, <2>1, <2>2 DEF markPending, clusterVars, ClusterTypeOK, NoteType, RestType
<1>4. CASE lockVM(c) \/ deleteLockVM(c)
  <2>1. PICK q \in PCs : pass' = [pass EXCEPT ![c] = [pass[c] EXCEPT !.pc = q]]
    BY <1>4 DEF lockVM, deleteLockVM, PCs, Locked
  <2>2. [pass[c] EXCEPT !.pc = q] \in Passes
    BY PassRecordType
  <2>3. PassType' /\ LockInv'
    BY <1>4, <2>1, <2>2, LockKeeps DEF lockVM, deleteLockVM
  <2> QED BY <1>4, <2>3
      DEF lockVM, deleteLockVM, clusterVars, envVars, ClusterTypeOK, CRType, NoteType, RestType
<1>5. CASE setPhase(c)
  <2>1. CRType'
    BY <1>5, WriteStatusType DEF setPhase
  <2>2. Holds(pass[c])
    BY <1>5 DEF setPhase, Holds, Locked
  <2>3. [pass[c] EXCEPT !.pc = "drop"] \in Passes
    BY PassRecordType DEF PCs, Locked
  <2>4. PassType' /\ LockInv'
    BY <1>5, <2>2, <2>3, ReturnKeeps, GotoKeeps DEF setPhase
  <2> QED BY <1>5, <2>1, <2>4 DEF setPhase, clusterVars, ClusterTypeOK, NoteType, RestType
<1>6. CASE listHolders(c) \/ deleteHeldTag(c)
  <2>1. Holds(pass[c])
    BY <1>6 DEF listHolders, deleteHeldTag, Holds, Locked
  <2>2. \E q \in PCs : Goto(c, [pass[c] EXCEPT !.pc = q])
    BY <1>6 DEF listHolders, deleteHeldTag, PCs, Locked
  <2>3. PassType' /\ LockInv'
    BY <2>1, <2>2, PassRecordType, GotoKeeps
  <2>4. ClusterTypeOK'
    BY <1>6, ClusterAssumption DEF listHolders, deleteHeldTag, clusterVars, ClusterTypeOK
  <2> QED BY <1>6, <2>3, <2>4 DEF listHolders, deleteHeldTag, envVars, CRType, NoteType, RestType
<1>7. CASE RemoveFinalizer(c)
  <2>1. PassType' /\ LockInv'
    BY <1>7, ReturnKeeps DEF RemoveFinalizer
  <2>2. CRType' /\ NoteType'
    BY <1>7, CRRecordType DEF RemoveFinalizer, CRType, NoteType, envVars
  <2> QED BY <1>7, <2>1, <2>2 DEF RemoveFinalizer, clusterVars, envVars, ClusterTypeOK, RestType
<1>8. CASE DeleteManifestIfPresent(c) \/ CallFails(c)
  <2>1. PassType' /\ LockInv'
    BY <1>8, ReturnKeeps DEF DeleteManifestIfPresent, CallFails
  <2>2. ClusterTypeOK'
    <3>1. faults' \in 0..MaxFaults
      <4>1. faults' = faults \/ (faults > 0 /\ faults' = faults - 1)
        BY <1>8 DEF DeleteManifestIfPresent, CallFails
      <4> QED BY <4>1, ClusterAssumption DEF ClusterTypeOK
    <3>2. tag' \in [VMs -> {"none", "fresh", "stale"}]
      BY <1>8 DEF DeleteManifestIfPresent, CallFails, ClusterTypeOK
    <3> QED BY <1>8, <3>1, <3>2 DEF DeleteManifestIfPresent, CallFails, ClusterTypeOK
  <2> QED BY <1>8, <2>1, <2>2 DEF DeleteManifestIfPresent, CallFails, envVars, CRType, NoteType, RestType
<1> QED BY <1>1, <1>2, <1>3, <1>4, <1>5, <1>6, <1>7, <1>8

(* A pass that polls writes Hibernating or Failed next, under its lock. *)
LEMMA PollKeeps ==
    ASSUME HInv, NEW c \in CRs, Holds(pass[c]), NEW view \in Passes, PollHibernate(c, view)
    PROVE  PassType' /\ LockInv' /\ NoteType'
<1>1. view.cr \in CRRecords
  BY DEF Passes
<1>2. NoteType'
  BY <1>1, AnnounceType DEF PollHibernate, HInv
<1>3. PassType' /\ LockInv'
  BY PassRecordType, GotoKeeps DEF PollHibernate, HInv, Phases, InFlight
<1> QED BY <1>2, <1>3

(* A wake's annotation patch leads on under the lock, or returns. *)
LEMMA AfterWakePatchKeeps ==
    ASSUME HInv, NEW c \in CRs, Holds(pass[c]), NEW view \in Passes, AfterWakePatch(c, view)
    PROVE  PassType' /\ LockInv' /\ NoteType'
<1>1. view.cr \in CRRecords /\ [view EXCEPT !.pc = "drop"] \in Passes
  BY PassRecordType DEF Passes, PCs, Locked
<1>2. NoteType'
  BY <1>1, AnnounceType DEF AfterWakePatch, HInv
<1>3. PassType' /\ LockInv'
  BY <1>1, PassRecordType, GotoKeeps, ReturnKeeps DEF AfterWakePatch, HInv, Phases, InFlight
<1> QED BY <1>2, <1>3

(* The steps of the hibernate and the wake branch keep the invariant. *)
LEMMA BranchStep ==
    ASSUME HInv, NEW c \in CRs,
           reconcileHibernate(c) \/ HasHibernateSnapshot(c) \/ reconcileWake(c)
    PROVE  HInv'
<1> USE InHandType DEF HInv
<1>0. Holds(pass[c])
  BY DEF reconcileHibernate, HasHibernateSnapshot, reconcileWake, Holds, Locked
<1>1. ASSUME NEW want \in BOOLEAN
      PROVE  /\ Answer(c, want) \in Pods
             /\ [pass[c] EXCEPT !.pod = Answer(c, want)] \in Passes
             /\ HibernateState(c, want) => pod' \in [VMs -> Pods]
  <2>1. [pod[VM(c)] EXCEPT !.hib = want] \in Pods
    BY PodRecordType
  <2>2. Answer(c, want) \in Pods
    BY <2>1 DEF Answer
  <2>3. ASSUME HibernateState(c, want) PROVE pod' \in [VMs -> Pods]
    BY <2>1, <2>3 DEF HibernateState, ClusterTypeOK
  <2> QED BY <2>2, <2>3, PassRecordType
<1>2. CASE reconcileHibernate(c)
  <2> DEFINE view == [pass[c] EXCEPT !.pod = Answer(c, TRUE)]
  <2>1. view \in Passes /\ [view EXCEPT !.pc = "hibProbe"] \in Passes
    BY <1>1, PassRecordType DEF PCs, Locked
  <2>2. CASE PodGone(c, TRUE)
    <3>1. PassType' /\ LockInv'
      BY <1>2, <2>2, ReturnKeeps DEF reconcileHibernate
    <3>2. UNCHANGED <<pod, observed, exits>>
      BY <1>2, <2>2 DEF reconcileHibernate, Quiet
    <3> QED BY <1>2, <3>1, <3>2
        DEF reconcileHibernate, envVars, ClusterTypeOK, CRType, NoteType, RestType
  <2>3. CASE ~PodGone(c, TRUE)
    <3>1. /\ HibernateState(c, TRUE)
          /\ \/ Quiet /\ Goto(c, [view EXCEPT !.pc = "hibProbe"])
             \/ PollHibernate(c, view)
      BY <1>2, <2>3 DEF reconcileHibernate
    <3> HIDE DEF view
    <3>2. PassType' /\ LockInv' /\ NoteType'
      BY <1>0, <2>1, <3>1, PollKeeps, GotoKeeps, AnnounceType
    <3>3. pod' \in [VMs -> Pods]
      BY <1>1, <3>1
    <3> QED BY <1>2, <3>2, <3>3 DEF reconcileHibernate, envVars, ClusterTypeOK, CRType, RestType
  <2> QED BY <2>2, <2>3
<1>3. CASE HasHibernateSnapshot(c)
  <2>1. PassType' /\ LockInv' /\ NoteType'
    <3>1. CASE PollHibernate(c, pass[c])
      BY <1>0, <3>1, PollKeeps
    <3>2. CASE Announce(c, pass[c].cr) /\ Goto(c, Writing(pass[c], "Hibernated", "done"))
      BY <1>0, <3>2, PassRecordType, GotoKeeps, AnnounceType DEF Phases
    <3> QED BY <1>3, <3>1, <3>2 DEF HasHibernateSnapshot
  <2>2. faults' \in 0..MaxFaults
    BY <1>3, ClusterAssumption DEF HasHibernateSnapshot, ClusterTypeOK
  <2> QED BY <1>3, <2>1, <2>2 DEF HasHibernateSnapshot, envVars, ClusterTypeOK, CRType, RestType
<1>4. CASE reconcileWake(c)
  <2> DEFINE view == [pass[c] EXCEPT !.pod = Answer(c, FALSE)]
  <2>1. view \in Passes
    BY <1>1
  <2>2. \/ \E again \in BOOLEAN : Return(c, again) /\ Quiet /\ UNCHANGED pod
        \/ HibernateState(c, FALSE) /\ AfterWakePatch(c, view)
    BY <1>4 DEF reconcileWake
  <2> HIDE DEF view
  <2>3. PassType' /\ LockInv' /\ NoteType'
    BY <1>0, <2>1, <2>2, ReturnKeeps, AfterWakePatchKeeps, AnnounceType
  <2>4. pod' \in [VMs -> Pods]
    BY <1>1, <2>2 DEF ClusterTypeOK
  <2> QED BY <1>4, <2>3, <2>4 DEF reconcileWake, envVars, ClusterTypeOK, CRType, RestType
<1> QED BY <1>2, <1>3, <1>4

(* The user, time, the informers, the CocoonSet, vk-cocoon and a restart keep it. *)
LEMMA EnvironmentStep ==
    ASSUME HInv,
           \/ \E c \in CRs : \/ SyncCR(c) \/ CreateCR(c) \/ EditDesire(c) \/ DeleteCR(c)
                              \/ DeadlinePasses(c)
           \/ \E v \in VMs : \/ SyncPod(v) \/ syncCocoonSetGeneration(v) \/ CreatePod(v)
                              \/ VkActs(v) \/ VkFails(v)
           \/ EditSet \/ Restart \/ UNCHANGED vars
    PROVE  HInv'
<1> USE DEF HInv
<1>0. ASSUME EnvStep \/ UNCHANGED passVars PROVE PassType' /\ LockInv' /\ NoteType' /\ UNCHANGED entries
  BY <1>0 DEF EnvStep, passVars, PassType, LockInv, NoteType, StripeOf, VM
<1>1. ASSUME NEW w \in {"flips", "timeouts", "deletes"}, Spend(w)
      PROVE  left' \in [flips : 0..MaxFlips, timeouts : 0..MaxTimeouts,
                        deletes : 0..MaxDeletes, patient : BOOLEAN]
  BY <1>1, HibernationAssumption DEF Spend, RestType
<1>2. ASSUME NEW c \in CRs, SyncCR(c) PROVE HInv'
  <2>1. PassType' /\ LockInv'
    BY <1>2 DEF SyncCR, PassType, LockInv, StripeOf, VM
  <2> QED BY <1>2, <2>1 DEF SyncCR, clusterVars, envVars, ClusterTypeOK, CRType, NoteType, RestType
<1>3. ASSUME NEW c \in CRs, CreateCR(c) \/ EditDesire(c) \/ DeleteCR(c) PROVE HInv'
  <2>1. cr' \in [CRs -> CRRecords]
    <3>1. cr[c] \in CRRecords /\ Desires[c] \subseteq {"Hibernate", "Wake"}
      BY HibernationAssumption DEF CRType
    <3>2. CASE CreateCR(c)
      BY <3>1, <3>2, CRRecordType DEF CreateCR, CRType
    <3>3. CASE EditDesire(c)
      <4>1. PICK d \in Desires[c] : cr' = [cr EXCEPT ![c] = [cr[c] EXCEPT !.desire = d, !.gen = cr[c].gen + 1]]
        BY <3>3 DEF EditDesire
      <4>2. [cr[c] EXCEPT !.desire = d, !.gen = cr[c].gen + 1] \in CRRecords
        BY <3>1, CRRecordType
      <4> QED BY <4>1, <4>2 DEF CRType
    <3>4. CASE DeleteCR(c)
      BY <3>1, <3>4, CRRecordType DEF DeleteCR, CRType
    <3> QED BY <1>3, <3>2, <3>3, <3>4
  <2>2. left' \in [flips : 0..MaxFlips, timeouts : 0..MaxTimeouts,
                   deletes : 0..MaxDeletes, patient : BOOLEAN]
    BY <1>1, <1>3 DEF CreateCR, EditDesire, DeleteCR
  <2>3. EnvStep /\ UNCHANGED <<clusterVars, now, expired, setGen>>
    BY <1>3 DEF CreateCR, EditDesire, DeleteCR
  <2> QED BY <1>0, <2>1, <2>2, <2>3 DEF EnvStep, clusterVars, ClusterTypeOK, CRType, RestType
<1>4. ASSUME NEW c \in CRs, DeadlinePasses(c) PROVE HInv'
  <2>1. expired' \in [CRs -> Nat]
    BY <1>4 DEF DeadlinePasses, CRType, CRRecords, RestType
  <2>2. left' \in [flips : 0..MaxFlips, timeouts : 0..MaxTimeouts,
                   deletes : 0..MaxDeletes, patient : BOOLEAN]
    BY <1>1, <1>4 DEF DeadlinePasses
  <2> QED BY <1>0, <1>4, <2>1, <2>2
      DEF DeadlinePasses, EnvStep, clusterVars, ClusterTypeOK, CRType, RestType
<1>5. ASSUME NEW v \in VMs, SyncPod(v) PROVE HInv'
  <2>1. PassType' /\ LockInv'
    BY <1>5 DEF SyncPod, PassType, LockInv, StripeOf, VM
  <2>2. podCache' \in [VMs -> Pods]
    BY <1>5 DEF SyncPod, ClusterTypeOK, RestType
  <2> QED BY <1>5, <2>1, <2>2 DEF SyncPod, clusterVars, envVars, ClusterTypeOK, CRType, NoteType, RestType
<1>6. ASSUME NEW v \in VMs, syncCocoonSetGeneration(v) \/ CreatePod(v) PROVE HInv'
  <2>1. CASE syncCocoonSetGeneration(v)
    <3>1. pod' \in [VMs -> Pods]
      BY <2>1, PodRecordType DEF syncCocoonSetGeneration, ClusterTypeOK, RestType
    <3> QED BY <1>0, <2>1, <3>1
        DEF syncCocoonSetGeneration, EnvStep, envVars, ClusterTypeOK, CRType, RestType
  <2>2. CASE CreatePod(v)
    <3>1. PICK named \in BOOLEAN : pod' = [pod EXCEPT ![v] = NewPod(named, FALSE, setGen)]
      BY <2>2 DEF CreatePod
    <3>2. NewPod(named, FALSE, setGen) \in Pods
      BY PodRecordType DEF RestType
    <3>3. pod' \in [VMs -> Pods]
      BY <3>1, <3>2 DEF ClusterTypeOK
    <3> QED BY <1>0, <2>2, <3>3
        DEF CreatePod, EnvStep, envVars, ClusterTypeOK, CRType, RestType
  <2> QED BY <1>6, <2>1, <2>2
<1>7. ASSUME NEW v \in VMs, VkActs(v) \/ VkFails(v) PROVE HInv'
  BY <1>0, <1>7, VkStepType DEF VkActs, VkFails, EnvStep, envVars, CRType, RestType
<1>8. CASE EditSet
  <2>1. setGen' \in Generations
    BY <1>8, ClusterAssumption DEF EditSet, RestType, Generations
  <2> QED BY <1>0, <1>8, <2>1 DEF EditSet, EnvStep, clusterVars, ClusterTypeOK, CRType, RestType
<1>9. CASE Restart
  <2>1. PassType'
    BY <1>9, PassRecordType DEF Restart, PassType
  <2>2. LockInv'
    BY <1>9, IdleHoldsNothing DEF Restart, LockInv
  <2>3. faults' \in 0..MaxFaults
    BY <1>9, ClusterAssumption DEF Restart, ClusterTypeOK
  <2>4. CRType' /\ NoteType'
    BY <1>9 DEF Restart, CRType, NoteType
  <2>5. RestType'
    BY <1>9 DEF Restart, RestType, CRType, ClusterTypeOK
  <2> QED BY <1>9, <2>1, <2>2, <2>3, <2>4, <2>5 DEF Restart, ClusterTypeOK
<1>10. CASE UNCHANGED vars
  BY <1>0, <1>10 DEF vars, clusterVars, envVars, ClusterTypeOK, CRType, RestType
<1> QED BY <1>2, <1>3, <1>4, <1>5, <1>6, <1>7, <1>8, <1>9, <1>10

-----------------------------------------------------------------------------
(* Every step keeps the invariant. *)
LEMMA HInvStep == HInv /\ [Next]_vars => HInv'
BY ControlStep, BranchStep, EnvironmentStep DEF Next, PassStep

(* The initial states satisfy it. *)
LEMMA HInvInit == Init => HInv
<1> SUFFICES ASSUME Init PROVE HInv
  OBVIOUS
<1>1. ClusterTypeOK
  <2>1. 1 \in Generations
    BY ClusterAssumption DEF Generations
  <2>2. ASSUME NEW q \in Pods
        PROVE  [q EXCEPT !.state = "ready", !.obs = 1, !.live = TRUE] \in Pods
    BY <2>1 DEF Pods
  <2>3. NewPod(TRUE, FALSE, 1) \in Pods
    BY <2>1, PodRecordType
  <2>4. pod \in [VMs -> Pods]
    BY <2>2, <2>3, PodRecordType DEF Init, ClusterInit, NotBooted
  <2>5. /\ tag \in [VMs -> {"none", "fresh", "stale"}] /\ vk \in [VMs -> VkStates]
        /\ vkGen \in [VMs -> Generations]
    BY <2>1, ClusterAssumption DEF Init, ClusterInit, NotBooted, VkStates, Generations
  <2>6. faults \in 0..MaxFaults
    BY HibernationAssumption DEF Init
  <2> QED BY <2>4, <2>5, <2>6 DEF ClusterTypeOK
<1>2. PassType
  BY PassRecordType DEF Init, PassType
<1>3. LockInv
  BY IdleHoldsNothing DEF Init, LockInv
<1>4. CRType /\ NoteType
  <2>1. cr \in [CRs -> CRRecords]
    BY CRRecordType DEF Init
  <2>2. now \in [CRs -> Nat \ {0}] /\ entries \in [CRs -> Nat]
    BY DEF Init
  <2>3. observed \in [CRs -> Nat] /\ exits \in [CRs -> Nat]
    BY DEF Init
  <2> QED BY <2>1, <2>2, <2>3 DEF CRType, NoteType
<1>5. crCache \in [CRs -> CRRecords] /\ podCache \in [VMs -> Pods]
  BY <1>1, <1>4 DEF Init, CRType, ClusterTypeOK
<1>6. left \in [flips : 0..MaxFlips, timeouts : 0..MaxTimeouts,
               deletes : 0..MaxDeletes, patient : BOOLEAN]
  <2>1. PICK r \in Regimes : left = [flips |-> r.flips, timeouts |-> r.timeouts,
                                    deletes |-> MaxDeletes, patient |-> r.patient]
    BY DEF Init
  <2>2. r \in [patient : BOOLEAN, faults : 0..MaxFaults, flips : 0..MaxFlips,
               timeouts : 0..MaxTimeouts, booted : BOOLEAN] /\ MaxDeletes \in Nat
    BY HibernationAssumption
  <2> QED BY <2>1, <2>2
<1>7. RestType
  BY <1>5, <1>6, ClusterAssumption, HibernationAssumption DEF Init, RestType, Generations
<1> QED BY <1>1, <1>2, <1>3, <1>4, <1>7 DEF HInv

(* Every reachable state of the CocoonHibernation reconciler is well typed, for any
   number of CRs, VMs and lock stripes: in particular every pass writes a phase. *)
THEOREM TypeCorrect == Spec => []TypeOK
<1>1. HInv => TypeOK
  BY TypeParts DEF HInv
<1> QED BY <1>1, HInvInit, HInvStep, PTL DEF Spec

(* vmLocks excludes: two passes past lockVM never share a VM or a stripe, whatever
   fails, restarts or is deleted between their calls. *)
THEOREM MutualExclusion == Spec => []OnePassPerVM
<1>1. HInv => OnePassPerVM
  BY DEF HInv, LockInv, OnePassPerVM, HoldsVM, Holds
<1> QED BY <1>1, HInvInit, HInvStep, PTL DEF Spec

-----------------------------------------------------------------------------
(* What a pass knows, when the informer cache has caught up *)

Status(h) == <<h.phase, h.obsGen, h.vmName, h.ltt>>

Deletion == {"delLock", "delList", "delTag", "delFinalizer"}

(* h is the CR as the API server holds it, a the pass on it.  The finalizer keeps the CR
   there while a pass works on it, and nobody but the pass writes its status: what the
   pass copied is what the API server holds. *)
CopyOK(h, a) ==
    /\ h.at = "absent" => h = NoRecord
    /\ h.at = "deleting" => h.fin
    /\ a.pc # "idle" => a.cr.at # "absent"
    /\ a.pc \in Deletion => h = a.cr /\ h.at = "deleting"
    /\ a.pc \notin {"idle", "addFinalizer"} => h.at # "absent" /\ h.fin
    /\ a.pc \notin {"idle", "addFinalizer", "drop"} => Status(h) = Status(a.cr)

CopyInv == \A c \in CRs : CopyOK(cr[c], pass[c])

(* The fields of no CR and of no pass. *)
LEMMA NullFields ==
    /\ NoRecord.at = "absent" /\ NoRecord.phase = "" /\ NoRecord.ltt = 0 /\ NoRecord.desire = "Wake"
    /\ Idle.pc = "idle" /\ "" \notin InFlight
BY DEF NoRecord, Idle, InFlight

(* An idle pass knows nothing. *)
LEMMA CopyIdle ==
    ASSUME NEW h, h.at = "absent" => h = NoRecord, h.at = "deleting" => h.fin
    PROVE  CopyOK(h, Idle)
BY NullFields DEF CopyOK, Deletion

(* A status patch by the pass that copied the CR leaves the status it computed. *)
LEMMA MergeFields ==
    ASSUME NEW h \in CRRecords, NEW b \in CRRecords, NEW to \in Phases, NEW t \in Nat,
           Status(h) = Status(b)
    PROVE  LET n == NewStatus(b, to, t)
               m == MergePatch(h, b, n) IN
           /\ m.at = h.at /\ m.fin = h.fin /\ m.desire = h.desire
           /\ m.phase = to /\ m.ltt = n.ltt
           /\ n.ltt = (IF Ready(h.phase) # Ready(to) \/ (h.phase # to /\ to \in InFlight)
                       THEN t ELSE h.ltt)
<1> DEFINE n == NewStatus(b, to, t)
<1>1. /\ n.phase = to
      /\ n.ltt = (IF Ready(b.phase) # Ready(to) \/ (b.phase # to /\ to \in InFlight)
                  THEN t ELSE b.ltt)
  BY DEF NewStatus, CRRecords
<1>2. h.phase = b.phase /\ h.obsGen = b.obsGen /\ h.ltt = b.ltt
  BY DEF Status
<1> HIDE DEF n
<1> DEFINE m == MergePatch(h, b, n)
<1>3. /\ m.at = h.at /\ m.fin = h.fin /\ m.desire = h.desire
      /\ m.phase = (IF n.phase # b.phase THEN n.phase ELSE h.phase)
      /\ m.ltt = (IF <<n.phase, n.obsGen, n.ltt>> # <<b.phase, b.obsGen, b.ltt>>
                  THEN n.ltt ELSE h.ltt)
  BY DEF MergePatch, CRRecords
<1>4. m.phase = to
  BY <1>1, <1>2, <1>3
<1>5. m.ltt = n.ltt
  BY <1>2, <1>3
<1>6. n.ltt = (IF Ready(h.phase) # Ready(to) \/ (h.phase # to /\ to \in InFlight)
               THEN t ELSE h.ltt)
  BY <1>1, <1>2
<1> HIDE DEF m
<1> QED BY <1>3, <1>4, <1>5, <1>6 DEF n, m

(* Where a pass may stand after each of its steps. *)
LEMMA PassMoves ==
    ASSUME HInv, NEW c \in CRs, NEW next \in Passes, NEW again \in BOOLEAN,
           Goto(c, next) \/ Return(c, again) \/ pass' = [pass EXCEPT ![c] = next]
    PROVE  /\ \A d \in CRs \ {c} : pass'[d] = pass[d]
           /\ pass'[c] \in {next, Idle}
           /\ Return(c, again) => pass'[c] = Idle
           /\ Goto(c, next) => pass'[c] = next
BY DEF HInv, PassType, Goto, Return

(* A view that goes on to setPhase. *)
LEMMA WritingFields ==
    ASSUME NEW view \in Passes, NEW to \in Phases, NEW then \in {"done", "requeue", "drop"}
    PROVE  /\ Writing(view, to, then) \in Passes
           /\ Writing(view, to, then).pc = "setPhase" /\ Writing(view, to, then).cr = view.cr
           /\ Writing(view, to, then).to = to /\ Writing(view, to, then).then = then
BY PassRecordType DEF Writing, Passes

(* What the hibernate and the wake branch do: they write no status yet, and observe the
   exit of a phase only on the way to a status that leaves it. *)
Moves(c) ==
    \/ pass'[c] = Idle /\ Quiet
    \/ /\ pass'[c].cr = pass[c].cr
       /\ \/ Quiet /\ pass[c].pc = "hibPatch" /\ pass'[c].pc = "hibProbe"
          \/ /\ Quiet /\ pass[c].pc = "wakePatch" /\ pass'[c].pc = "drop"
             /\ Settled(pass[c].cr)
          \/ /\ pass'[c].pc = "setPhase" /\ Announce(c, pass[c].cr)
             /\ pass'[c].to = "Failed" /\ pass'[c].then = "done"
          \/ /\ pass'[c].pc = "setPhase" /\ Quiet /\ pass[c].pc # "wakePatch"
             /\ pass'[c].to = "Hibernating" /\ pass'[c].then = "requeue"
          \/ /\ pass'[c].pc = "setPhase" /\ Announce(c, pass[c].cr) /\ tag[VM(c)] # "none"
             /\ pass'[c].to = "Hibernated" /\ pass'[c].then = "done"
          \/ /\ pass'[c].pc = "setPhase" /\ Announce(c, pass[c].cr) /\ pass[c].pc = "wakePatch"
             /\ pass'[c].to = "Active" /\ pass'[c].then = "drop"
          \/ /\ pass'[c].pc = "setPhase" /\ Quiet /\ pass[c].pc = "wakePatch"
             /\ pass'[c].to = "Waking" /\ pass'[c].then = "requeue"

(* Polling goes on to write Hibernating, or Failed past the deadline. *)
LEMMA PollEffect ==
    ASSUME HInv, NEW c \in CRs, NEW view \in Passes, view.cr = pass[c].cr,
           pass[c].pc # "wakePatch", PollHibernate(c, view)
    PROVE  Moves(c) /\ \A d \in CRs \ {c} : pass'[d] = pass[d]
<1>1. /\ "Failed" \in Phases /\ "Hibernating" \in Phases
  BY DEF Phases, InFlight
<1>2. CASE Announce(c, view.cr) /\ Goto(c, Writing(view, "Failed", "done"))
  <2>1. pass'[c] = Writing(view, "Failed", "done") /\ \A d \in CRs \ {c} : pass'[d] = pass[d]
    BY <1>1, <1>2, WritingFields, PassMoves
  <2> QED BY <1>1, <1>2, <2>1, WritingFields DEF Moves
<1>3. CASE Quiet /\ Goto(c, Writing(view, "Hibernating", "requeue"))
  <2>1. pass'[c] = Writing(view, "Hibernating", "requeue") /\ \A d \in CRs \ {c} : pass'[d] = pass[d]
    BY <1>1, <1>3, WritingFields, PassMoves
  <2> QED BY <1>1, <1>3, <2>1, WritingFields DEF Moves
<1> QED BY <1>2, <1>3 DEF PollHibernate

(* What follows a wake's patch. *)
LEMMA WakeEffect ==
    ASSUME HInv, NEW c \in CRs, NEW view \in Passes, view.cr = pass[c].cr,
           pass[c].pc = "wakePatch", AfterWakePatch(c, view)
    PROVE  Moves(c) /\ \A d \in CRs \ {c} : pass'[d] = pass[d]
<1>1. "Failed" \in Phases /\ "Waking" \in Phases /\ "Active" \in Phases /\ FALSE \in BOOLEAN
  BY DEF Phases, InFlight
<1>2. CASE Settled(view.cr) /\ Quiet /\ Goto(c, [view EXCEPT !.pc = "drop"])
  <2> DEFINE next == [view EXCEPT !.pc = "drop"]
  <2>1. next \in Passes /\ next.pc = "drop" /\ next.cr = view.cr
    BY PassRecordType DEF Passes, PCs, Locked
  <2> HIDE DEF next
  <2>2. pass'[c] = next /\ \A d \in CRs \ {c} : pass'[d] = pass[d]
    BY <1>2, <2>1, PassMoves DEF next
  <2> QED BY <1>2, <2>1, <2>2 DEF Moves
<1>3. CASE Quiet /\ Return(c, FALSE)
  <2>1. pass'[c] = Idle /\ \A d \in CRs \ {c} : pass'[d] = pass[d]
    BY <1>1, <1>3 DEF Return, HInv, PassType
  <2> QED BY <1>3, <2>1 DEF Moves
<1>4. ASSUME NEW to \in Phases, NEW then \in {"done", "requeue", "drop"},
             Goto(c, Writing(view, to, then))
      PROVE  /\ pass'[c].pc = "setPhase" /\ pass'[c].cr = view.cr /\ pass'[c].to = to
             /\ pass'[c].then = then /\ \A d \in CRs \ {c} : pass'[d] = pass[d]
  <2>1. Writing(view, to, then) \in Passes
    BY WritingFields
  <2>2. pass'[c] = Writing(view, to, then) /\ \A d \in CRs \ {c} : pass'[d] = pass[d]
    BY <1>4, <2>1, PassMoves
  <2> QED BY <2>2, WritingFields
<1>5. CASE Announce(c, view.cr) /\ Goto(c, Writing(view, "Active", "drop"))
  BY <1>1, <1>4, <1>5 DEF Moves
<1>6. CASE Announce(c, view.cr) /\ Goto(c, Writing(view, "Failed", "done"))
  BY <1>1, <1>4, <1>6 DEF Moves
<1>7. CASE Quiet /\ Goto(c, Writing(view, "Waking", "requeue"))
  BY <1>1, <1>4, <1>7 DEF Moves
<1> QED BY <1>2, <1>3, <1>5, <1>6, <1>7 DEF AfterWakePatch

(* The branches as a whole. *)
LEMMA BranchEffect ==
    ASSUME HInv, NEW c \in CRs,
           reconcileHibernate(c) \/ HasHibernateSnapshot(c) \/ reconcileWake(c)
    PROVE  /\ Moves(c) /\ \A d \in CRs \ {c} : pass'[d] = pass[d]
           /\ UNCHANGED <<cr, now, entries, tag>>
           /\ pass[c].pc \in {"hibPatch", "hibProbe", "wakePatch"}
<1>0. /\ UNCHANGED <<cr, now, entries, tag>>
      /\ pass[c].pc \in {"hibPatch", "hibProbe", "wakePatch"}
  BY DEF reconcileHibernate, HasHibernateSnapshot, reconcileWake, envVars
<1>1. ASSUME NEW want \in BOOLEAN
      PROVE  /\ [pass[c] EXCEPT !.pod = Answer(c, want)] \in Passes
             /\ [pass[c] EXCEPT !.pod = Answer(c, want)].cr = pass[c].cr
  <2>1. pass[c] \in Passes /\ pass[c].pod \in Pods /\ pod[VM(c)] \in Pods
    BY InHandType
  <2>2. Answer(c, want) \in Pods
    BY <2>1, PodRecordType DEF Answer
  <2> QED BY <2>1, <2>2, PassRecordType DEF Passes
<1>r. ASSUME NEW again \in BOOLEAN, Return(c, again), Quiet
      PROVE  Moves(c) /\ \A d \in CRs \ {c} : pass'[d] = pass[d]
  BY <1>r DEF Return, HInv, PassType, Moves
<1>2. CASE reconcileHibernate(c)
  <2> DEFINE view == [pass[c] EXCEPT !.pod = Answer(c, TRUE)]
             next == [view EXCEPT !.pc = "hibProbe"]
  <2>1. view \in Passes /\ view.cr = pass[c].cr
    BY <1>1
  <2>2. next \in Passes /\ next.pc = "hibProbe" /\ next.cr = pass[c].cr
    <3> HIDE DEF view
    <3> QED BY <2>1, PassRecordType DEF Passes, PCs, Locked
  <2>3. \/ Return(c, TRUE) /\ Quiet
        \/ Quiet /\ Goto(c, next)
        \/ PollHibernate(c, view)
    BY <1>2 DEF reconcileHibernate
  <2>4. pass[c].pc = "hibPatch"
    BY <1>2 DEF reconcileHibernate
  <2> HIDE DEF view, next
  <2>5. CASE Quiet /\ Goto(c, next)
    <3>1. pass'[c] = next /\ \A d \in CRs \ {c} : pass'[d] = pass[d]
      BY <2>2, <2>5, PassMoves
    <3> QED BY <1>0, <2>2, <2>4, <2>5, <3>1 DEF Moves
  <2>6. CASE PollHibernate(c, view)
    BY <1>0, <2>1, <2>4, <2>6, PollEffect
  <2> QED BY <1>0, <1>r, <2>3, <2>5, <2>6
<1>3. CASE HasHibernateSnapshot(c)
  <2>1. pass[c] \in Passes /\ pass[c].pc = "hibProbe" /\ "Hibernated" \in Phases
    BY <1>3, InHandType DEF HasHibernateSnapshot, Phases
  <2>2. CASE PollHibernate(c, pass[c])
    BY <1>0, <2>1, <2>2, PollEffect
  <2>3. CASE /\ tag[VM(c)] # "none" /\ Announce(c, pass[c].cr)
             /\ Goto(c, Writing(pass[c], "Hibernated", "done"))
    <3>1. pass'[c] = Writing(pass[c], "Hibernated", "done") /\ \A d \in CRs \ {c} : pass'[d] = pass[d]
      BY <2>1, <2>3, WritingFields, PassMoves
    <3> QED BY <1>0, <2>1, <2>3, <3>1, WritingFields DEF Moves
  <2> QED BY <1>3, <2>2, <2>3 DEF HasHibernateSnapshot
<1>4. CASE reconcileWake(c)
  <2> DEFINE view == [pass[c] EXCEPT !.pod = Answer(c, FALSE)]
  <2>1. view \in Passes /\ view.cr = pass[c].cr
    BY <1>1
  <2>2. pass[c].pc = "wakePatch"
    BY <1>4 DEF reconcileWake
  <2>3. \/ \E again \in BOOLEAN : Return(c, again) /\ Quiet
        \/ AfterWakePatch(c, view)
    BY <1>4 DEF reconcileWake
  <2> HIDE DEF view
  <2> QED BY <1>0, <1>r, <2>1, <2>2, <2>3, WakeEffect
<1> QED BY <1>2, <1>3, <1>4

(* The transition time of a status that reports a phase. *)
Epoch(c, to) ==
    IF Ready(cr[c].phase) # Ready(to) \/ (cr[c].phase # to /\ to \in InFlight)
    THEN now[c] ELSE cr[c].ltt

(* What a status write by the pass that copied the CR does to it. *)
Writes(c, to) ==
    /\ cr'[c].at = cr[c].at /\ cr'[c].fin = cr[c].fin /\ cr'[c].desire = cr[c].desire
    /\ cr'[c].phase = to /\ cr'[c].ltt = Epoch(c, to)
    /\ now'[c] = (IF Epoch(c, to) # cr[c].ltt THEN now[c] + 1 ELSE now[c])
    /\ entries'[c] = (IF to \in InFlight /\ cr[c].phase # to THEN entries[c] + 1 ELSE entries[c])
    /\ \A d \in CRs \ {c} : cr'[d] = cr[d] /\ now'[d] = now[d] /\ entries'[d] = entries[d]

LEMMA WriteStatusEffect ==
    ASSUME HInv, CopyInv, NEW c \in CRs, NEW to \in Phases, WriteStatus(c, to),
           pass[c].pc \in {"markPending", "setPhase"}
    PROVE  Writes(c, to)
<1>0. /\ pass[c].cr \in CRRecords /\ cr[c] \in CRRecords /\ now[c] \in Nat
      /\ cr \in [CRs -> CRRecords] /\ now \in [CRs -> Nat \ {0}] /\ entries \in [CRs -> Nat]
  BY InHandType DEF HInv, CRType
<1>1. cr[c].at # "absent" /\ Status(cr[c]) = Status(pass[c].cr)
  BY DEF CopyInv, CopyOK
<1> DEFINE n == NewStatus(pass[c].cr, to, now[c])
           m == MergePatch(cr[c], pass[c].cr, n)
<1>2. /\ m.at = cr[c].at /\ m.fin = cr[c].fin /\ m.desire = cr[c].desire
      /\ m.phase = to /\ m.ltt = n.ltt /\ n.ltt = Epoch(c, to)
  BY <1>0, <1>1, MergeFields DEF Epoch
<1>3. pass[c].cr.ltt = cr[c].ltt /\ pass[c].cr.phase = cr[c].phase
  BY <1>1 DEF Status
<1>4. /\ cr' = [cr EXCEPT ![c] = m]
      /\ now' = [now EXCEPT ![c] = IF n.ltt # pass[c].cr.ltt THEN @ + 1 ELSE @]
      /\ entries' = [entries EXCEPT ![c] = IF to \in InFlight /\ pass[c].cr.phase # to
                                           THEN @ + 1 ELSE @]
  BY <1>1 DEF WriteStatus
<1> HIDE DEF n, m
<1> QED BY <1>0, <1>2, <1>3, <1>4 DEF Writes

(* setPhase leaves its phase on the CR, written now or before, and goes on to the drop or
   returns. *)
LEMMA SetPhaseEffect ==
    ASSUME HInv, CopyInv, NEW c \in CRs, setPhase(c)
    PROVE  /\ Writes(c, pass[c].to) /\ UNCHANGED <<observed, exits, tag>>
           /\ \A d \in CRs \ {c} : pass'[d] = pass[d]
           /\ \/ pass'[c] = Idle
              \/ pass[c].then = "drop" /\ pass'[c].pc = "drop" /\ pass'[c].cr = pass[c].cr
<1>0. /\ pass[c] \in Passes /\ pass[c].to \in Phases /\ pass[c].pc = "setPhase"
  BY InHandType DEF setPhase
<1>1. Writes(c, pass[c].to)
  <2>1. CASE setPhaseIsNoop(pass[c].cr, pass[c].to)
    <3>1. cr' = cr /\ now' = now /\ entries' = entries
      BY <2>1 DEF setPhase, NoWrite
    <3>2. Status(cr[c]) = Status(pass[c].cr)
      BY <1>0 DEF CopyInv, CopyOK
    <3>3. cr[c].phase = pass[c].to
      BY <2>1, <3>2 DEF setPhaseIsNoop, Status
    <3> QED BY <3>1, <3>3 DEF Writes, Epoch
  <2>2. CASE ~setPhaseIsNoop(pass[c].cr, pass[c].to)
    BY <2>2, <1>0, WriteStatusEffect DEF setPhase
  <2> QED BY <2>1, <2>2
<1> DEFINE next == [pass[c] EXCEPT !.pc = "drop"]
<1>2. next \in Passes /\ next.pc = "drop" /\ next.cr = pass[c].cr
  BY <1>0, PassRecordType DEF Passes, PCs, Locked
<1>3. \/ pass[c].then = "drop" /\ Goto(c, next)
      \/ \E again \in BOOLEAN : Return(c, again)
  BY DEF setPhase
<1> HIDE DEF next
<1>4. \/ pass'[c] = Idle /\ \A d \in CRs \ {c} : pass'[d] = pass[d]
      \/ pass[c].then = "drop" /\ pass'[c] = next /\ \A d \in CRs \ {c} : pass'[d] = pass[d]
  BY <1>2, <1>3, PassMoves
<1>5. UNCHANGED <<observed, exits, tag>>
  BY DEF setPhase, clusterVars
<1> QED BY <1>1, <1>2, <1>4, <1>5

(* markPending writes Pending, or leaves the CR alone. *)
LEMMA PendingEffect ==
    ASSUME HInv, CopyInv, NEW c \in CRs, markPending(c)
    PROVE  /\ Writes(c, "Pending") \/ UNCHANGED <<cr, now, entries>>
           /\ UNCHANGED <<observed, exits, tag>>
           /\ pass'[c] = Idle /\ \A d \in CRs \ {c} : pass'[d] = pass[d]
<1>1. Writes(c, "Pending") \/ UNCHANGED <<cr, now, entries>>
  <2>1. "Pending" \in Phases /\ pass[c].pc = "markPending"
    BY DEF Phases, markPending
  <2>2. CASE WriteStatus(c, "Pending")
    BY <2>1, <2>2, WriteStatusEffect
  <2> QED BY <2>2 DEF markPending, NoWrite
<1>2. pass'[c] = Idle /\ \A d \in CRs \ {c} : pass'[d] = pass[d]
  BY DEF markPending, Return, HInv, PassType
<1> QED BY <1>1, <1>2 DEF markPending, clusterVars

(* A pass starts with the CR the API server holds. *)
LEMMA StartEffect ==
    ASSUME HInv, CopyInv, CacheLag = FALSE, NEW c \in CRs, Reconcile(c)
    PROVE  /\ UNCHANGED <<cr, now, entries, observed, exits, tag>>
           /\ \A d \in CRs \ {c} : pass'[d] = pass[d]
           /\ \/ pass'[c] = Idle
              \/ /\ cr[c].at # "absent" /\ pass'[c].cr = cr[c]
                 /\ pass'[c].pc = FirstCall(cr[c], podCache[VM(c)])
<1>1. crCache[c] = cr[c]
  BY DEF Reconcile, CaughtUp
<1> DEFINE next == [Idle EXCEPT !.pc = FirstCall(cr[c], podCache[VM(c)]),
                                !.cr = cr[c], !.pod = podCache[VM(c)]]
<1>2. next.cr = cr[c] /\ next.pc = FirstCall(cr[c], podCache[VM(c)])
  BY DEF Idle
<1>3. pass' = [pass EXCEPT ![c] = IF cr[c].at = "absent" THEN Idle ELSE next]
  BY <1>1 DEF Reconcile
<1> HIDE DEF next
<1>4. \A d \in CRs \ {c} : pass'[d] = pass[d]
  BY <1>3 DEF HInv, PassType
<1>5. pass'[c] = IF cr[c].at = "absent" THEN Idle ELSE next
  BY <1>3 DEF HInv, PassType
<1> QED BY <1>2, <1>4, <1>5 DEF Reconcile, clusterVars, envVars

(* The other steps of a pass move its counter and keep its copies. *)
LEMMA MoveEffect ==
    ASSUME HInv, NEW c \in CRs,
           \/ lockVM(c) \/ deleteLockVM(c) \/ listHolders(c) \/ deleteHeldTag(c)
    PROVE  /\ UNCHANGED <<cr, now, entries, observed, exits>>
           /\ \A d \in CRs \ {c} : pass'[d] = pass[d]
           /\ pass'[c].cr = pass[c].cr
           /\ \/ /\ pass[c].pc = "lock" /\ UNCHANGED tag
                 /\ pass'[c].pc = IF HibernateBranch(pass[c].cr) THEN "hibPatch" ELSE "wakePatch"
              \/ pass[c].pc = "delLock" /\ pass'[c].pc = "delList" /\ UNCHANGED tag
              \/ /\ pass[c].pc = "delList" /\ UNCHANGED tag
                 /\ \/ pass'[c].pc = "delFinalizer"
                    \/ pass'[c].pc = "delTag" /\ ~vmHeldByAnotherCR(c)
              \/ /\ pass[c].pc = "delTag" /\ pass'[c].pc = "delFinalizer"
                 /\ \A v \in VMs \ {VM(c)} : tag'[v] = tag[v]
<1>0. pass \in [CRs -> Passes] /\ pass[c] \in Passes /\ tag \in [VMs -> {"none", "fresh", "stale"}]
  BY DEF HInv, PassType, ClusterTypeOK
<1>1. ASSUME NEW p \in PCs, pass' = [pass EXCEPT ![c] = [pass[c] EXCEPT !.pc = p]]
      PROVE  /\ \A d \in CRs \ {c} : pass'[d] = pass[d]
             /\ pass'[c].cr = pass[c].cr /\ pass'[c].pc = p
  <2> DEFINE next == [pass[c] EXCEPT !.pc = p]
  <2>1. next.cr = pass[c].cr /\ next.pc = p
    BY <1>0 DEF Passes
  <2>2. pass'[c] = next /\ \A d \in CRs \ {c} : pass'[d] = pass[d]
    BY <1>0, <1>1
  <2> HIDE DEF next
  <2> QED BY <2>1, <2>2
<1>2. UNCHANGED <<cr, now, entries, observed, exits>>
  BY DEF lockVM, deleteLockVM, listHolders, deleteHeldTag, envVars
<1>3. CASE lockVM(c)
  <2> DEFINE p == IF HibernateBranch(pass[c].cr) THEN "hibPatch" ELSE "wakePatch"
  <2>1. p \in PCs
    BY DEF PCs, Locked
  <2>2. pass[c].pc = "lock" /\ UNCHANGED tag /\ pass' = [pass EXCEPT ![c] = [pass[c] EXCEPT !.pc = p]]
    BY <1>3 DEF lockVM, clusterVars
  <2> HIDE DEF p
  <2> QED BY <1>1, <1>2, <2>1, <2>2 DEF p
<1>4. CASE deleteLockVM(c)
  <2>1. "delList" \in PCs /\ pass[c].pc = "delLock" /\ UNCHANGED tag
    BY <1>4 DEF deleteLockVM, clusterVars, PCs, Locked
  <2>2. pass' = [pass EXCEPT ![c] = [pass[c] EXCEPT !.pc = "delList"]]
    BY <1>4 DEF deleteLockVM
  <2> QED BY <1>1, <1>2, <2>1, <2>2
<1>5. CASE listHolders(c)
  <2> DEFINE p == IF vmHeldByAnotherCR(c) THEN "delFinalizer" ELSE "delTag"
  <2>1. p \in PCs
    BY DEF PCs, Locked
  <2>2. pass[c].pc = "delList" /\ UNCHANGED tag /\ pass' = [pass EXCEPT ![c] = [pass[c] EXCEPT !.pc = p]]
    BY <1>5 DEF listHolders, clusterVars, Goto
  <2> HIDE DEF p
  <2> QED BY <1>1, <1>2, <2>1, <2>2 DEF p
<1>6. CASE deleteHeldTag(c)
  <2>1. "delFinalizer" \in PCs /\ pass[c].pc = "delTag"
    BY <1>6 DEF deleteHeldTag, PCs
  <2>2. pass' = [pass EXCEPT ![c] = [pass[c] EXCEPT !.pc = "delFinalizer"]]
    BY <1>6 DEF deleteHeldTag, Goto
  <2>3. \A v \in VMs \ {VM(c)} : tag'[v] = tag[v]
    BY <1>0, <1>6 DEF deleteHeldTag
  <2> QED BY <1>1, <1>2, <2>1, <2>2, <2>3
<1> QED BY <1>3, <1>4, <1>5, <1>6

(* The steps that end a pass without a status. *)
LEMMA EndEffect ==
    ASSUME HInv, NEW c \in CRs,
           \/ AddFinalizer(c) \/ RemoveFinalizer(c) \/ DeleteManifestIfPresent(c) \/ CallFails(c)
    PROVE  /\ UNCHANGED <<now, entries, exits>>
           /\ pass'[c] = Idle
           /\ \A d \in CRs \ {c} : pass'[d] = pass[d] /\ cr'[d] = cr[d] /\ observed'[d] = observed[d]
           /\ \/ /\ AddFinalizer(c) /\ UNCHANGED <<tag, observed>>
                 /\ cr'[c] = IF cr[c] = pass[c].cr THEN [cr[c] EXCEPT !.fin = TRUE] ELSE cr[c]
              \/ /\ RemoveFinalizer(c) /\ UNCHANGED tag /\ observed'[c] = 0
                 /\ cr'[c] = IF cr[c] = pass[c].cr THEN NoRecord ELSE cr[c]
              \/ /\ DeleteManifestIfPresent(c) /\ UNCHANGED <<cr, observed>>
                 /\ \A v \in VMs \ {VM(c)} : tag'[v] = tag[v]
              \/ CallFails(c) /\ UNCHANGED <<tag, cr, observed>>
<1>0. /\ pass \in [CRs -> Passes] /\ tag \in [VMs -> {"none", "fresh", "stale"}]
      /\ cr \in [CRs -> CRRecords] /\ observed \in [CRs -> Nat]
  BY DEF HInv, PassType, ClusterTypeOK, CRType, NoteType
<1>1. pass'[c] = Idle /\ \A d \in CRs \ {c} : pass'[d] = pass[d]
  BY <1>0 DEF AddFinalizer, RemoveFinalizer, DeleteManifestIfPresent, CallFails, Return
<1>2. UNCHANGED <<now, entries, exits>>
  BY DEF AddFinalizer, RemoveFinalizer, DeleteManifestIfPresent, CallFails, envVars
<1>3. CASE AddFinalizer(c)
  BY <1>0, <1>1, <1>2, <1>3 DEF AddFinalizer, clusterVars
<1>4. CASE RemoveFinalizer(c)
  BY <1>0, <1>1, <1>2, <1>4 DEF RemoveFinalizer, clusterVars
<1>5. CASE DeleteManifestIfPresent(c)
  BY <1>0, <1>1, <1>2, <1>5 DEF DeleteManifestIfPresent
<1>6. CASE CallFails(c)
  BY <1>0, <1>1, <1>2, <1>6 DEF CallFails
<1> QED BY <1>3, <1>4, <1>5, <1>6

(* The user's edits of a CR. *)
LEMMA UserEffect ==
    ASSUME HInv, NEW c \in CRs, CreateCR(c) \/ EditDesire(c) \/ DeleteCR(c)
    PROVE  /\ UNCHANGED <<tag, pass, now, entries, observed, exits>>
           /\ \A d \in CRs \ {c} : cr'[d] = cr[d]
           /\ \/ /\ cr[c].at = "absent" /\ cr'[c].at = "present" /\ cr'[c].desire \in Desires[c]
                 /\ cr'[c].phase = "" /\ cr'[c].ltt = 0
              \/ /\ cr[c].at = "present" /\ cr'[c].at = "present" /\ cr'[c].fin = cr[c].fin
                 /\ cr'[c].desire \in Desires[c] /\ Status(cr'[c]) = Status(cr[c])
              \/ /\ cr[c].at = "present" /\ cr[c].fin /\ cr'[c].at = "deleting" /\ cr'[c].fin
                 /\ cr'[c].desire = cr[c].desire /\ Status(cr'[c]) = Status(cr[c])
              \/ cr[c].at = "present" /\ ~cr[c].fin /\ cr'[c] = NoRecord
<1>0. cr \in [CRs -> CRRecords] /\ cr[c] \in CRRecords
  BY DEF HInv, CRType
<1>1. UNCHANGED <<tag, pass, now, entries, observed, exits>>
  BY DEF CreateCR, EditDesire, DeleteCR, EnvStep, passVars, clusterVars
<1>2. CASE CreateCR(c)
  <2>1. PICK e \in Desires[c] :
          cr' = [cr EXCEPT ![c] = [NoRecord EXCEPT !.at = "present", !.desire = e, !.gen = 1]]
    BY <1>2 DEF CreateCR
  <2>2. LET h == [NoRecord EXCEPT !.at = "present", !.desire = e, !.gen = 1]
        IN  h.at = "present" /\ h.desire = e /\ h.phase = "" /\ h.ltt = 0
    BY DEF NoRecord
  <2>3. cr[c].at = "absent"
    BY <1>2 DEF CreateCR
  <2> QED BY <1>0, <1>1, <2>1, <2>2, <2>3
<1>3. CASE EditDesire(c)
  <2>1. PICK e \in Desires[c] :
          cr' = [cr EXCEPT ![c] = [cr[c] EXCEPT !.desire = e, !.gen = cr[c].gen + 1]]
    BY <1>3 DEF EditDesire
  <2>2. LET h == [cr[c] EXCEPT !.desire = e, !.gen = cr[c].gen + 1]
        IN  /\ h.at = cr[c].at /\ h.fin = cr[c].fin /\ h.desire = e
            /\ Status(h) = Status(cr[c])
    BY <1>0 DEF CRRecords, Status
  <2>3. cr[c].at = "present"
    BY <1>3 DEF EditDesire
  <2> QED BY <1>0, <1>1, <2>1, <2>2, <2>3
<1>4. CASE DeleteCR(c)
  <2>1. LET h == [cr[c] EXCEPT !.at = "deleting"]
        IN  /\ h.at = "deleting" /\ h.fin = cr[c].fin /\ h.desire = cr[c].desire
            /\ Status(h) = Status(cr[c])
    BY <1>0 DEF CRRecords, Status
  <2>2. /\ cr[c].at = "present"
        /\ cr' = [cr EXCEPT ![c] = IF cr[c].fin THEN [cr[c] EXCEPT !.at = "deleting"] ELSE NoRecord]
    BY <1>4 DEF DeleteCR
  <2> QED BY <1>0, <1>1, <2>1, <2>2
<1> QED BY <1>2, <1>3, <1>4

(* What the others do leaves CRs, passes and counters alone, and drops no tag. *)
LEMMA OtherEffect ==
    ASSUME HInv,
           \/ \E c \in CRs : SyncCR(c) \/ DeadlinePasses(c)
           \/ \E v \in VMs : \/ SyncPod(v) \/ syncCocoonSetGeneration(v) \/ CreatePod(v)
                              \/ VkActs(v) \/ VkFails(v)
           \/ EditSet \/ UNCHANGED vars
    PROVE  /\ UNCHANGED <<cr, pass, now, entries, observed, exits>>
           /\ \A v \in VMs : tag[v] # "none" => tag'[v] # "none"
<1>1. UNCHANGED <<cr, pass, now, entries, observed, exits>>
  BY DEF SyncCR, DeadlinePasses, SyncPod, syncCocoonSetGeneration, CreatePod, VkActs, VkFails,
         EditSet, EnvStep, passVars, envVars, vars
<1>2. ASSUME NEW v \in VMs, VkActs(v) \/ VkFails(v)
      PROVE  \A w \in VMs : tag[w] # "none" => tag'[w] # "none"
  <2>1. tag \in [VMs -> {"none", "fresh", "stale"}]
    BY DEF HInv, ClusterTypeOK
  <2>2. \/ UNCHANGED tag \/ Spent(v) \/ tag' = [tag EXCEPT ![v] = "fresh"]
    BY <1>2 DEF VkActs, VkFails, VkStep, VkFail, VkBoot, VkRefuse, VkStart, VkRestore,
                VkHibernate, VkWake, VkPush, VkReportHibernated, VkWoken, VkEcho, VkDelete
  <2> QED BY <2>1, <2>2 DEF Spent
<1>3. CASE UNCHANGED tag
  BY <1>1, <1>3
<1>4. CASE \E v \in VMs : VkActs(v) \/ VkFails(v)
  BY <1>1, <1>2, <1>4
<1> QED BY <1>3, <1>4
        DEF SyncCR, DeadlinePasses, SyncPod, syncCocoonSetGeneration, CreatePod, EditSet,
            clusterVars, vars

(* The pass on one CR, and an edit of it, leave the other CRs alone. *)
LEMMA Frame ==
    ASSUME HInv, CopyInv, CacheLag = FALSE, NEW c \in CRs, NEW e \in CRs, c # e,
           Reconcile(c) \/ PassStep(c) \/ CallFails(c) \/ CreateCR(c) \/ EditDesire(c) \/ DeleteCR(c)
    PROVE  cr'[e] = cr[e] /\ pass'[e] = pass[e]
<1>1. CASE Reconcile(c)
  BY <1>1, StartEffect
<1>2. CASE setPhase(c)
  BY <1>2, SetPhaseEffect DEF Writes
<1>3. CASE markPending(c)
  BY <1>3, PendingEffect DEF Writes
<1>4. CASE reconcileHibernate(c) \/ HasHibernateSnapshot(c) \/ reconcileWake(c)
  BY <1>4, BranchEffect
<1>5. CASE lockVM(c) \/ deleteLockVM(c) \/ listHolders(c) \/ deleteHeldTag(c)
  BY <1>5, MoveEffect
<1>6. CASE AddFinalizer(c) \/ RemoveFinalizer(c) \/ DeleteManifestIfPresent(c) \/ CallFails(c)
  BY <1>6, EndEffect
<1>7. CASE CreateCR(c) \/ EditDesire(c) \/ DeleteCR(c)
  BY <1>7, UserEffect
<1> QED BY <1>1, <1>2, <1>3, <1>4, <1>5, <1>6, <1>7 DEF PassStep

-----------------------------------------------------------------------------
(* The copies stay right. *)
LEMMA CopyStep ==
    ASSUME HInv, CopyInv, CacheLag = FALSE, [Next]_vars PROVE CopyInv'
<1>o. ASSUME NEW c \in CRs, \A d \in CRs \ {c} : cr'[d] = cr[d] /\ pass'[d] = pass[d],
             CopyOK(cr'[c], pass'[c])
      PROVE  CopyInv'
  BY <1>o DEF CopyInv
<1>1. ASSUME NEW c \in CRs, Reconcile(c) PROVE CopyInv'
  <2>0. CopyOK(cr[c], pass[c]) /\ cr' = cr /\ \A d \in CRs \ {c} : pass'[d] = pass[d]
    BY <1>1, StartEffect DEF CopyInv
  <2>1. CASE pass'[c] = Idle
    BY <2>0, <2>1, <1>o, CopyIdle DEF CopyOK
  <2>2. CASE /\ cr[c].at # "absent" /\ pass'[c].cr = cr[c]
             /\ pass'[c].pc = FirstCall(cr[c], podCache[VM(c)])
    <3>1. cr[c].at \in {"present", "deleting"}
      BY <2>2, InHandType DEF CRRecords
    <3>2. /\ FirstCall(cr[c], podCache[VM(c)]) \in Deletion => cr[c].at = "deleting"
          /\ FirstCall(cr[c], podCache[VM(c)]) # "addFinalizer" /\ cr[c].at = "present" => cr[c].fin
      BY <3>1 DEF FirstCall, Deletion
    <3>3. CopyOK(cr[c], pass'[c])
      BY <2>0, <2>2, <3>1, <3>2 DEF CopyOK
    <3> QED BY <2>0, <3>3, <1>o
  <2> QED BY <1>1, <2>1, <2>2, StartEffect
<1>2. ASSUME NEW c \in CRs, markPending(c) \/ setPhase(c) PROVE CopyInv'
  <2>0. CopyOK(cr[c], pass[c]) /\ pass[c].pc \in {"markPending", "setPhase"}
    BY <1>2 DEF CopyInv, markPending, setPhase
  <2>1. /\ \A d \in CRs \ {c} : cr'[d] = cr[d] /\ pass'[d] = pass[d]
        /\ cr'[c].at = cr[c].at /\ cr'[c].fin = cr[c].fin
        /\ \/ pass'[c] = Idle
           \/ pass'[c].pc = "drop" /\ pass'[c].cr = pass[c].cr
    BY <1>2, SetPhaseEffect, PendingEffect DEF Writes
  <2>2. CopyOK(cr'[c], pass'[c])
    BY <2>0, <2>1, NullFields DEF CopyOK, Deletion
  <2> QED BY <2>1, <2>2, <1>o
<1>3. ASSUME NEW c \in CRs, reconcileHibernate(c) \/ HasHibernateSnapshot(c) \/ reconcileWake(c)
      PROVE  CopyInv'
  <2>0. CopyOK(cr[c], pass[c]) /\ pass[c].pc \in {"hibPatch", "hibProbe", "wakePatch"} /\ cr' = cr
    BY <1>3, BranchEffect DEF CopyInv
  <2>1. \/ pass'[c] = Idle
        \/ pass'[c].cr = pass[c].cr /\ pass'[c].pc \in {"hibProbe", "drop", "setPhase"}
    BY <1>3, BranchEffect DEF Moves
  <2>2. CopyOK(cr'[c], pass'[c])
    BY <2>0, <2>1, NullFields DEF CopyOK, Deletion
  <2> QED BY <1>3, <2>0, <2>2, <1>o, BranchEffect
<1>4. ASSUME NEW c \in CRs, lockVM(c) \/ deleteLockVM(c) \/ listHolders(c) \/ deleteHeldTag(c)
      PROVE  CopyInv'
  <2>0. CopyOK(cr[c], pass[c]) /\ cr' = cr /\ pass'[c].cr = pass[c].cr
    BY <1>4, MoveEffect DEF CopyInv
  <2>1. \/ pass[c].pc = "lock" /\ pass'[c].pc \in {"hibPatch", "wakePatch"}
        \/ pass[c].pc \in Deletion /\ pass'[c].pc \in Deletion
    BY <1>4, MoveEffect DEF Deletion
  <2>2. CopyOK(cr'[c], pass'[c])
    BY <2>0, <2>1 DEF CopyOK, Deletion
  <2> QED BY <1>4, <2>0, <2>2, <1>o, MoveEffect
<1>5. ASSUME NEW c \in CRs,
             \/ AddFinalizer(c) \/ RemoveFinalizer(c) \/ DeleteManifestIfPresent(c) \/ CallFails(c)
      PROVE  CopyInv'
  <2>0. CopyOK(cr[c], pass[c]) /\ pass'[c] = Idle /\ cr[c] \in CRRecords
    BY <1>5, EndEffect, InHandType DEF CopyInv
  <2>1. cr'[c] = cr[c] \/ cr'[c] = NoRecord \/ (AddFinalizer(c) /\ cr[c] = pass[c].cr
                                                /\ cr'[c] = [cr[c] EXCEPT !.fin = TRUE])
    BY <1>5, EndEffect
  <2>2. cr'[c].at = "absent" => cr'[c] = NoRecord
    <3>1. CASE cr'[c] = [cr[c] EXCEPT !.fin = TRUE] /\ cr[c] = pass[c].cr /\ AddFinalizer(c)
      <4>1. cr[c].at # "absent"
        BY <2>0, <3>1 DEF AddFinalizer, CopyOK
      <4>2. cr'[c].at = cr[c].at
        BY <2>0, <3>1 DEF CRRecords
      <4> QED BY <4>1, <4>2
    <3> QED BY <2>0, <2>1, <3>1 DEF CopyOK
  <2>3. cr'[c].at = "deleting" => cr'[c].fin
    <3>1. CASE cr'[c] = [cr[c] EXCEPT !.fin = TRUE]
      BY <2>0, <3>1 DEF CRRecords
    <3> QED BY <2>0, <2>1, <3>1, NullFields DEF CopyOK
  <2>5. CopyOK(cr'[c], pass'[c])
    BY <2>0, <2>2, <2>3, CopyIdle
  <2> QED BY <1>5, <2>5, <1>o, EndEffect
<1>6. ASSUME NEW c \in CRs, CreateCR(c) \/ EditDesire(c) \/ DeleteCR(c) PROVE CopyInv'
  <2>0. CopyOK(cr[c], pass[c]) /\ pass' = pass
    BY <1>6, UserEffect DEF CopyInv
  <2>1. CopyOK(cr'[c], pass'[c])
    BY <1>6, <2>0, UserEffect, NullFields DEF CopyOK, Deletion
  <2> QED BY <1>6, <2>0, <2>1, <1>o, UserEffect
<1>7. CASE Restart
  <2>1. cr' = cr /\ \A c \in CRs : pass'[c] = Idle
    BY <1>7 DEF Restart
  <2> QED BY <2>1, CopyIdle DEF CopyInv, CopyOK
<1>8. CASE UNCHANGED <<cr, pass>>
  BY <1>8 DEF CopyInv
<1> QED BY <1>1, <1>2, <1>3, <1>4, <1>5, <1>6, <1>7, <1>8, OtherEffect DEF Next, PassStep

-----------------------------------------------------------------------------
(* The exit of a phase is observed once. *)

(* h is the CR, t its next epoch, o the epoch last observed.  An entry into an in-flight
   phase pays for one observation of its exit. *)
ExitOK(h, t, o, ex, en) ==
    /\ h.ltt < t /\ o < t
    /\ ex <= en
    /\ h.phase \in InFlight /\ h.ltt > o => ex < en

ExitInv == \A c \in CRs : ExitOK(cr[c], now[c], observed[c], exits[c], entries[c])

LEMMA ExitStep ==
    ASSUME HInv, CopyInv, ExitInv, CacheLag = FALSE, "crash" \notin Faults, [Next]_vars
    PROVE  ExitInv'
<1>n. \A c \in CRs : /\ cr[c].ltt \in Nat /\ now[c] \in Nat /\ observed[c] \in Nat
                     /\ exits[c] \in Nat /\ entries[c] \in Nat
  BY DEF HInv, CRType, NoteType, CRRecords
<1>o. ASSUME NEW c \in CRs,
             \A d \in CRs \ {c} : /\ cr'[d] = cr[d] /\ now'[d] = now[d] /\ observed'[d] = observed[d]
                                  /\ exits'[d] = exits[d] /\ entries'[d] = entries[d],
             ExitOK(cr'[c], now'[c], observed'[c], exits'[c], entries'[c])
      PROVE  ExitInv'
  BY <1>o DEF ExitInv
<1>s. CASE UNCHANGED <<cr, now, observed, exits, entries>>
  BY <1>s DEF ExitInv
<1>1. ASSUME NEW c \in CRs, markPending(c) \/ setPhase(c) PROVE ExitInv'
  <2>1. UNCHANGED <<observed, exits>>
    BY <1>1, SetPhaseEffect, PendingEffect
  <2>2. ASSUME NEW to, Writes(c, to) PROVE ExitInv'
    <3>0. ExitOK(cr[c], now[c], observed[c], exits[c], entries[c])
      BY DEF ExitInv
    <3>1. CASE to \in InFlight /\ cr[c].phase # to
      BY <2>1, <2>2, <3>0, <3>1, <1>n, <1>o DEF Writes, Epoch, ExitOK
    <3>2. CASE to \in InFlight /\ cr[c].phase = to
      BY <2>1, <2>2, <3>0, <3>2, <1>n, <1>o DEF Writes, Epoch, ExitOK
    <3>3. CASE to \notin InFlight
      BY <2>1, <2>2, <3>0, <3>3, <1>n, <1>o DEF Writes, Epoch, ExitOK
    <3> QED BY <3>1, <3>2, <3>3
  <2> QED BY <1>1, <1>s, <2>1, <2>2, SetPhaseEffect, PendingEffect
<1>2. ASSUME NEW c \in CRs, reconcileHibernate(c) \/ HasHibernateSnapshot(c) \/ reconcileWake(c)
      PROVE  ExitInv'
  <2>0. /\ ExitOK(cr[c], now[c], observed[c], exits[c], entries[c])
        /\ UNCHANGED <<cr, now, entries>>
    BY <1>2, BranchEffect DEF ExitInv
  <2>1. CASE Quiet
    BY <2>0, <2>1, <1>s DEF Quiet
  <2>2. CASE Announce(c, pass[c].cr)
    <3>1. Status(cr[c]) = Status(pass[c].cr)
      BY <1>2, BranchEffect DEF CopyInv, CopyOK
    <3>2. pass[c].cr.ltt = cr[c].ltt /\ pass[c].cr.phase = cr[c].phase
      BY <3>1 DEF Status
    <3>3. observed \in [CRs -> Nat] /\ exits \in [CRs -> Nat]
      BY DEF HInv, NoteType
    <3>4. /\ observed'[c] = (IF cr[c].ltt # 0 /\ cr[c].ltt > observed[c] THEN cr[c].ltt ELSE observed[c])
          /\ exits'[c] = (IF cr[c].ltt # 0 /\ cr[c].ltt > observed[c] /\ cr[c].phase \in InFlight
                          THEN exits[c] + 1 ELSE exits[c])
          /\ \A d \in CRs \ {c} : observed'[d] = observed[d] /\ exits'[d] = exits[d]
      BY <2>2, <3>2, <3>3 DEF Announce, firstTransitionAt
    <3>5. ExitOK(cr'[c], now'[c], observed'[c], exits'[c], entries'[c])
      BY <2>0, <3>4, <1>n DEF ExitOK
    <3> QED BY <2>0, <3>4, <3>5, <1>o
  <2> QED BY <1>2, <2>1, <2>2, BranchEffect DEF Moves
<1>3. ASSUME NEW c \in CRs, AddFinalizer(c) PROVE ExitInv'
  <2>1. cr[c] \in CRRecords /\ cr'[c] \in {cr[c], [cr[c] EXCEPT !.fin = TRUE]}
    BY <1>3, EndEffect, InHandType DEF AddFinalizer, RemoveFinalizer, DeleteManifestIfPresent, CallFails
  <2>2. cr'[c].phase = cr[c].phase /\ cr'[c].ltt = cr[c].ltt
    BY <2>1 DEF CRRecords
  <2>3. UNCHANGED <<now, entries, exits, observed>> /\ \A d \in CRs \ {c} : cr'[d] = cr[d]
    BY <1>3, EndEffect DEF AddFinalizer
  <2>4. ExitOK(cr'[c], now'[c], observed'[c], exits'[c], entries'[c])
    BY <2>2, <2>3 DEF ExitInv, ExitOK
  <2> QED BY <2>3, <2>4, <1>o
<1>4. ASSUME NEW c \in CRs, RemoveFinalizer(c) PROVE ExitInv'
  <2>1. cr[c] = pass[c].cr
    BY <1>4 DEF RemoveFinalizer, CopyInv, CopyOK, Deletion
  <2>2. cr'[c] = NoRecord /\ observed'[c] = 0
    BY <1>4, <2>1 DEF RemoveFinalizer, HInv, CRType, NoteType
  <2>3. /\ UNCHANGED <<now, entries, exits>>
        /\ \A d \in CRs \ {c} : cr'[d] = cr[d] /\ observed'[d] = observed[d]
    BY <1>4, EndEffect
  <2>4. now[c] > 0
    BY DEF HInv, CRType
  <2>5. ExitOK(cr'[c], now'[c], observed'[c], exits'[c], entries'[c])
    BY <2>2, <2>3, <2>4, <1>n, NullFields DEF ExitInv, ExitOK
  <2> QED BY <2>3, <2>5, <1>o
<1>5. ASSUME NEW c \in CRs, CreateCR(c) \/ EditDesire(c) \/ DeleteCR(c) PROVE ExitInv'
  <2>1. /\ UNCHANGED <<now, entries, exits, observed>>
        /\ \A d \in CRs \ {c} : cr'[d] = cr[d]
    BY <1>5, UserEffect
  <2>2. \/ cr'[c].phase = "" /\ cr'[c].ltt = 0
        \/ cr'[c].phase = cr[c].phase /\ cr'[c].ltt = cr[c].ltt
    BY <1>5, UserEffect, NullFields DEF Status
  <2>3. ExitOK(cr[c], now[c], observed[c], exits[c], entries[c]) /\ now[c] > 0
    BY DEF ExitInv, HInv, CRType
  <2>4. ExitOK(cr'[c], now'[c], observed'[c], exits'[c], entries'[c])
    BY <2>1, <2>2, <2>3, <1>n, NullFields DEF ExitOK
  <2> QED BY <2>1, <2>4, <1>o
<1>6. ASSUME NEW c \in CRs, DeleteManifestIfPresent(c) \/ CallFails(c) PROVE ExitInv'
  BY <1>6, <1>s DEF DeleteManifestIfPresent, CallFails, envVars
<1>7. ~Restart
  BY DEF Restart
<1> QED BY <1>s, <1>1, <1>2, <1>3, <1>4, <1>5, <1>6, <1>7, StartEffect, MoveEffect, OtherEffect
        DEF Next, PassStep

(* Each entry into Hibernating or Waking is observed at most once on its way out, for any
   CRs, edits, deletions and failed calls (hibernation/reconciler.go, announcePhaseExitf),
   as long as the operator, whose memory of what it observed is lost in a restart, keeps
   running and its informer cache catches up before a pass. *)
THEOREM ExitsAreObservedOnce ==
    ASSUME CacheLag = FALSE, "crash" \notin Faults
    PROVE  Spec => []ExitObservedOnce
<1> DEFINE Inv == HInv /\ CopyInv /\ ExitInv
<1>1. Init => CopyInv /\ ExitInv
  <2> SUFFICES ASSUME Init, NEW c \in CRs
               PROVE  /\ CopyOK(cr[c], pass[c])
                      /\ ExitOK(cr[c], now[c], observed[c], exits[c], entries[c])
    BY DEF CopyInv, ExitInv
  <2>1. /\ cr[c] = NoRecord /\ pass[c] = Idle /\ now[c] = 1 /\ observed[c] = 0
        /\ exits[c] = 0 /\ entries[c] = 0
    BY DEF Init
  <2>2. CopyOK(NoRecord, Idle)
    BY NullFields, CopyIdle
  <2>3. ExitOK(NoRecord, 1, 0, 0, 0)
    <3>1. NoRecord.ltt = 0 /\ NoRecord.phase \notin InFlight
      BY NullFields
    <3>2. 0 < 1 /\ 0 <= 0
      OBVIOUS
    <3> QED BY <3>1, <3>2 DEF ExitOK
  <2> QED BY <2>1, <2>2, <2>3
<1>2. Init => Inv
  BY <1>1, HInvInit
<1>3. Inv /\ [Next]_vars => Inv'
  BY HInvStep, CopyStep, ExitStep
<1>4. Inv => ExitObservedOnce
  BY DEF ExitInv, ExitOK, ExitObservedOnce
<1> QED BY <1>2, <1>3, <1>4, PTL DEF Spec

-----------------------------------------------------------------------------
(* A settled hibernation keeps its tag. *)

Shared(c) == \E d \in CRs \ {c} : VM(d) = VM(c)

(* CRs that share a VM all ask for it to be hibernated. *)
SharersAgree == \A c \in CRs : Shared(c) => Desires[c] \subseteq {"Hibernate"}

(* The pass a on the CR h never wakes. *)
NeverWakes(h, a) ==
    /\ h.at # "absent" => h.desire = "Hibernate"
    /\ h.phase # "Waking"
    /\ a.pc # "idle" => a.cr.desire = "Hibernate" /\ a.cr.phase # "Waking"
    /\ a.pc \notin {"wakePatch", "drop"}
    /\ a.pc = "setPhase" => a.to # "Waking" /\ a.then # "drop"

SharedInv == \A c \in CRs : Shared(c) => NeverWakes(cr[c], pass[c])

LEMMA SharedStep ==
    ASSUME HInv, CopyInv, SharedInv, CacheLag = FALSE, SharersAgree, [Next]_vars PROVE SharedInv'
<1> SUFFICES ASSUME NEW e \in CRs, Shared(e) PROVE NeverWakes(cr'[e], pass'[e])
  BY DEF SharedInv, Shared
<1>0. NeverWakes(cr[e], pass[e]) /\ CopyOK(cr[e], pass[e]) /\ cr[e] \in CRRecords
  BY InHandType DEF SharedInv, CopyInv
<1>s. ASSUME cr'[e] = cr[e], pass'[e] \in {pass[e], Idle} PROVE NeverWakes(cr'[e], pass'[e])
  BY <1>0, <1>s, NullFields DEF NeverWakes
<1>o. ASSUME NEW c \in CRs, c # e,
             Reconcile(c) \/ PassStep(c) \/ CallFails(c) \/ CreateCR(c) \/ EditDesire(c) \/ DeleteCR(c)
      PROVE  NeverWakes(cr'[e], pass'[e])
  BY <1>o, <1>s, Frame
<1>1. ASSUME Reconcile(e) PROVE NeverWakes(cr'[e], pass'[e])
  <2>1. CASE /\ cr[e].at # "absent" /\ pass'[e].cr = cr[e]
             /\ pass'[e].pc = FirstCall(cr[e], podCache[VM(e)])
    <3>1. cr'[e] = cr[e]
      BY <1>1, StartEffect
    <3> QED BY <1>0, <2>1, <3>1, FirstCallResult DEF NeverWakes, Locked
  <2> QED BY <1>1, <1>s, <2>1, StartEffect
<1>2. ASSUME markPending(e) \/ setPhase(e) PROVE NeverWakes(cr'[e], pass'[e])
  <2>1. pass'[e] = Idle
    BY <1>2, <1>0, SetPhaseEffect, PendingEffect DEF NeverWakes, setPhase
  <2>2. /\ cr'[e].at = cr[e].at /\ cr'[e].desire = cr[e].desire
        /\ cr'[e].phase # "Waking"
    BY <1>2, <1>0, SetPhaseEffect, PendingEffect DEF NeverWakes, setPhase, Writes
  <2> QED BY <1>0, <2>1, <2>2, NullFields DEF NeverWakes
<1>3. ASSUME reconcileHibernate(e) \/ HasHibernateSnapshot(e) \/ reconcileWake(e)
      PROVE  NeverWakes(cr'[e], pass'[e])
  <2>1. cr'[e] = cr[e] /\ pass[e].pc # "wakePatch" /\ pass[e].pc # "idle" /\ Moves(e)
    BY <1>3, <1>0, BranchEffect DEF NeverWakes
  <2>2. \/ pass'[e] = Idle
        \/ /\ pass'[e].cr = pass[e].cr /\ pass'[e].pc \in {"hibProbe", "setPhase"}
           /\ pass'[e].pc = "setPhase" => pass'[e].to # "Waking" /\ pass'[e].then # "drop"
    BY <2>1 DEF Moves
  <2> QED BY <1>0, <2>1, <2>2, NullFields DEF NeverWakes
<1>4. ASSUME lockVM(e) \/ deleteLockVM(e) \/ listHolders(e) \/ deleteHeldTag(e)
      PROVE  NeverWakes(cr'[e], pass'[e])
  <2>1. cr'[e] = cr[e] /\ pass'[e].cr = pass[e].cr
    BY <1>4, MoveEffect
  <2>2. pass[e].pc # "idle" /\ pass'[e].pc \in Deletion \cup {"hibPatch"}
    BY <1>0, <1>4, MoveEffect DEF NeverWakes, HibernateBranch, Deletion
  <2> QED BY <1>0, <2>1, <2>2 DEF NeverWakes, Deletion
<1>5. ASSUME AddFinalizer(e) \/ RemoveFinalizer(e) \/ DeleteManifestIfPresent(e) \/ CallFails(e)
      PROVE  NeverWakes(cr'[e], pass'[e])
  <2>1. pass'[e] = Idle /\ cr'[e] \in {cr[e], NoRecord, [cr[e] EXCEPT !.fin = TRUE]}
    BY <1>5, EndEffect
  <2>2. /\ cr'[e] # NoRecord => cr'[e].at = cr[e].at /\ cr'[e].desire = cr[e].desire
                                /\ cr'[e].phase = cr[e].phase
    BY <1>0, <2>1 DEF CRRecords
  <2> QED BY <1>0, <2>1, <2>2, NullFields DEF NeverWakes
<1>6. ASSUME CreateCR(e) \/ EditDesire(e) \/ DeleteCR(e) PROVE NeverWakes(cr'[e], pass'[e])
  <2>1. pass' = pass /\ Desires[e] \subseteq {"Hibernate"}
    BY <1>6, UserEffect DEF SharersAgree
  <2> QED BY <1>0, <1>6, <2>1, UserEffect, NullFields DEF NeverWakes, Status
<1>7. CASE Restart
  BY <1>7, <1>s DEF Restart
<1>8. CASE UNCHANGED <<cr, pass>>
  BY <1>8, <1>s
<1> QED BY <1>o, <1>1, <1>2, <1>3, <1>4, <1>5, <1>6, <1>7, <1>8, OtherEffect DEF Next, PassStep

Tagged(c) == cr[c].at = "present" /\ cr[c].phase = "Hibernated"

(* The tag stays while a CR reports Hibernated or is about to. *)
TagKept(c) ==
    /\ Tagged(c) => tag[VM(c)] # "none"
    /\ pass[c].pc = "setPhase" /\ pass[c].to = "Hibernated" => tag[VM(c)] # "none"
    /\ pass[c].pc = "setPhase" /\ pass[c].then = "drop" => pass[c].to = "Active"
    /\ pass[c].pc = "drop" => cr[c].phase = "Active"

(* A deletion that is about to drop the tag is of the last holder. *)
LastHolder(c) == pass[c].pc = "delTag" => \A d \in CRs \ {c} : VM(d) = VM(c) => ~Tagged(d)

TagInv == \A c \in CRs : TagKept(c) /\ LastHolder(c)

(* Only setPhase makes a CR Hibernated. *)
LEMMA TaggedStep ==
    ASSUME HInv, CopyInv, CacheLag = FALSE, [Next]_vars, NEW e \in CRs, Tagged(e)'
    PROVE  Tagged(e) \/ (setPhase(e) /\ pass[e].to = "Hibernated")
<1>0. cr[e] \in CRRecords
  BY InHandType
<1>s. CASE cr'[e] = cr[e]
  BY <1>s DEF Tagged
<1>1. ASSUME NEW c \in CRs, c # e,
             Reconcile(c) \/ PassStep(c) \/ CallFails(c) \/ CreateCR(c) \/ EditDesire(c) \/ DeleteCR(c)
      PROVE  cr'[e] = cr[e]
  BY <1>1, Frame
<1>2. CASE setPhase(e)
  BY <1>2, SetPhaseEffect DEF Writes, Tagged
<1>3. CASE markPending(e)
  BY <1>3, <1>s, PendingEffect DEF Writes, Tagged
<1>4. CASE AddFinalizer(e) \/ RemoveFinalizer(e) \/ DeleteManifestIfPresent(e) \/ CallFails(e)
  <2>1. cr'[e] \in {cr[e], NoRecord, [cr[e] EXCEPT !.fin = TRUE]}
    BY <1>4, EndEffect
  <2>2. cr'[e] # NoRecord => cr'[e].at = cr[e].at /\ cr'[e].phase = cr[e].phase
    BY <1>0, <2>1 DEF CRRecords
  <2> QED BY <2>2, NullFields DEF Tagged
<1>5. CASE CreateCR(e) \/ EditDesire(e) \/ DeleteCR(e)
  BY <1>5, UserEffect, NullFields DEF Tagged, Status
<1>6. CASE Reconcile(e) \/ Restart
  BY <1>6, <1>s, StartEffect DEF Restart
<1>7. CASE \/ reconcileHibernate(e) \/ HasHibernateSnapshot(e) \/ reconcileWake(e)
           \/ lockVM(e) \/ deleteLockVM(e) \/ listHolders(e) \/ deleteHeldTag(e)
  BY <1>7, <1>s, BranchEffect, MoveEffect
<1> QED BY <1>s, <1>1, <1>2, <1>3, <1>4, <1>5, <1>6, <1>7, OtherEffect DEF Next, PassStep

(* Only the drop of a wake and a deletion remove a tag. *)
LEMMA TagLoss ==
    ASSUME HInv, CopyInv, CacheLag = FALSE, [Next]_vars, NEW v \in VMs,
           tag[v] # "none", tag'[v] = "none"
    PROVE  \E c \in CRs : /\ VM(c) = v /\ pass[c].pc \in {"delTag", "drop"}
                          /\ UNCHANGED cr /\ \A d \in CRs \ {c} : pass'[d] = pass[d]
                          /\ pass'[c].pc \notin {"setPhase", "drop", "delTag"}
<1>1. ASSUME NEW c \in CRs, DeleteManifestIfPresent(c)
      PROVE  /\ VM(c) = v /\ pass[c].pc = "drop" /\ UNCHANGED cr /\ pass'[c] = Idle
             /\ \A d \in CRs \ {c} : pass'[d] = pass[d]
  <2>1. VM(c) = v /\ pass[c].pc = "drop" /\ UNCHANGED cr
    BY <1>1 DEF DeleteManifestIfPresent, HInv, ClusterTypeOK
  <2>2. pass'[c] = Idle /\ \A d \in CRs \ {c} : pass'[d] = pass[d]
    BY <1>1, EndEffect
  <2> QED BY <2>1, <2>2
<1>2. ASSUME NEW c \in CRs, deleteHeldTag(c)
      PROVE  /\ VM(c) = v /\ pass[c].pc = "delTag" /\ UNCHANGED cr
             /\ pass'[c].pc = "delFinalizer" /\ \A d \in CRs \ {c} : pass'[d] = pass[d]
  <2>1. VM(c) = v /\ pass[c].pc = "delTag" /\ UNCHANGED cr
    BY <1>2 DEF deleteHeldTag, HInv, ClusterTypeOK
  <2>2. pass'[c].pc = "delFinalizer" /\ \A d \in CRs \ {c} : pass'[d] = pass[d]
    BY <1>2, <2>1, MoveEffect
  <2> QED BY <2>1, <2>2
<1>3. ASSUME NEW c \in CRs,
             \/ Reconcile(c) \/ AddFinalizer(c) \/ markPending(c) \/ lockVM(c) \/ setPhase(c)
             \/ deleteLockVM(c) \/ listHolders(c) \/ RemoveFinalizer(c) \/ CallFails(c)
             \/ reconcileHibernate(c) \/ HasHibernateSnapshot(c) \/ reconcileWake(c)
             \/ CreateCR(c) \/ EditDesire(c) \/ DeleteCR(c) \/ Restart
      PROVE  FALSE
  <2>1. UNCHANGED tag
    BY <1>3 DEF Reconcile, AddFinalizer, markPending, lockVM, setPhase, deleteLockVM,
                listHolders, RemoveFinalizer, CallFails, reconcileHibernate,
                HasHibernateSnapshot, reconcileWake, CreateCR, EditDesire, DeleteCR, Restart,
                clusterVars
  <2> QED BY <2>1
<1>4. ~Restart
  BY DEF Restart
<1>5. PICK c \in CRs : DeleteManifestIfPresent(c) \/ deleteHeldTag(c)
  BY <1>3, <1>4, OtherEffect DEF Next, PassStep
<1> QED BY <1>1, <1>2, <1>5, NullFields

(* How a pass comes to setPhase, to the drop and to a deletion's tag. *)
LEMMA ArrivalStep ==
    ASSUME HInv, CopyInv, CacheLag = FALSE, [Next]_vars, NEW e \in CRs,
           pass'[e].pc \in {"setPhase", "drop", "delTag"}
    PROVE  \/ pass'[e] = pass[e]
           \/ /\ Moves(e) /\ UNCHANGED <<cr, tag>>
              /\ pass[e].pc \in {"hibPatch", "hibProbe", "wakePatch"}
           \/ /\ setPhase(e) /\ pass[e].then = "drop" /\ pass'[e].pc = "drop"
              /\ cr'[e].phase = pass[e].to
           \/ listHolders(e) /\ ~vmHeldByAnotherCR(e) /\ UNCHANGED cr /\ pass'[e].pc = "delTag"
<1>0. pass'[e] # Idle
  BY NullFields
<1>1. ASSUME NEW c \in CRs, c # e,
             Reconcile(c) \/ PassStep(c) \/ CallFails(c) \/ CreateCR(c) \/ EditDesire(c) \/ DeleteCR(c)
      PROVE  pass'[e] = pass[e]
  BY <1>1, Frame
<1>2. CASE setPhase(e)
  BY <1>0, <1>2, SetPhaseEffect DEF Writes
<1>3. CASE \/ markPending(e) \/ AddFinalizer(e) \/ RemoveFinalizer(e)
           \/ DeleteManifestIfPresent(e) \/ CallFails(e)
  BY <1>0, <1>3, PendingEffect, EndEffect
<1>4. CASE CreateCR(e) \/ EditDesire(e) \/ DeleteCR(e)
  BY <1>4, UserEffect
<1>5. CASE Reconcile(e)
  <2>1. pass'[e].pc = FirstCall(cr[e], podCache[VM(e)])
    BY <1>0, <1>5, StartEffect
  <2> QED BY <2>1, FirstCallResult DEF Locked
<1>6. CASE reconcileHibernate(e) \/ HasHibernateSnapshot(e) \/ reconcileWake(e)
  BY <1>6, BranchEffect
<1>7. CASE lockVM(e) \/ deleteLockVM(e) \/ listHolders(e) \/ deleteHeldTag(e)
  BY <1>7, MoveEffect DEF lockVM, deleteLockVM, listHolders, deleteHeldTag
<1>8. CASE Restart
  BY <1>0, <1>8 DEF Restart
<1> QED BY <1>1, <1>2, <1>3, <1>4, <1>5, <1>6, <1>7, <1>8, OtherEffect DEF Next, PassStep

(* While a pass is about to drop, nobody else writes the status of its CR. *)
LEMMA DropKeeps ==
    ASSUME HInv, CopyInv, CacheLag = FALSE, [Next]_vars, NEW e \in CRs,
           pass[e].pc = "drop", pass'[e].pc = "drop"
    PROVE  Status(cr'[e]) = Status(cr[e])
<1>0. CopyOK(cr[e], pass[e]) /\ pass'[e] # Idle
  BY NullFields DEF CopyInv
<1>1. ASSUME NEW c \in CRs, c # e,
             Reconcile(c) \/ PassStep(c) \/ CallFails(c) \/ CreateCR(c) \/ EditDesire(c) \/ DeleteCR(c)
      PROVE  cr'[e] = cr[e]
  BY <1>1, Frame
<1>2. ~(markPending(e) \/ setPhase(e))
  BY DEF markPending, setPhase
<1>3. ~(\/ AddFinalizer(e) \/ RemoveFinalizer(e) \/ DeleteManifestIfPresent(e) \/ CallFails(e))
  BY <1>0, EndEffect
<1>4. CASE CreateCR(e) \/ EditDesire(e) \/ DeleteCR(e)
  BY <1>0, <1>4, UserEffect DEF CopyOK, Deletion
<1>5. CASE Reconcile(e) \/ Restart
  BY <1>5, StartEffect DEF Restart
<1>6. CASE \/ reconcileHibernate(e) \/ HasHibernateSnapshot(e) \/ reconcileWake(e)
           \/ lockVM(e) \/ deleteLockVM(e) \/ listHolders(e) \/ deleteHeldTag(e)
  BY <1>6, BranchEffect, MoveEffect
<1> QED BY <1>1, <1>2, <1>3, <1>4, <1>5, <1>6, OtherEffect DEF Next, PassStep

(* Two passes that hold a lock do not hold that of one VM. *)
LEMMA HoldersDiffer ==
    ASSUME HInv, NEW c \in CRs, NEW d \in CRs, VM(c) = VM(d),
           pass[c].pc \in Locked, pass[d].pc \in Locked
    PROVE  c = d
BY DEF HInv, LockInv, Holds, StripeOf

(* The tag stays. *)
LEMMA TagStep ==
    ASSUME HInv, CopyInv, SharedInv, TagInv, CacheLag = FALSE, [Next]_vars PROVE TagInv'
<1> SUFFICES ASSUME NEW e \in CRs PROVE TagKept(e)' /\ LastHolder(e)'
  BY DEF TagInv
<1>0. TagKept(e) /\ CopyOK(cr[e], pass[e]) /\ VM(e) \in VMs /\ VM(e)' = VM(e)
  BY StripeType DEF TagInv, CopyInv, VM
<1>1. ASSUME Tagged(e)', tag'[VM(e)] = "none" PROVE FALSE
  <2>1. Tagged(e) \/ (setPhase(e) /\ pass[e].to = "Hibernated")
    BY <1>1, TaggedStep
  <2>2. tag[VM(e)] # "none"
    BY <2>1, <1>0 DEF TagKept, setPhase
  <2>3. PICK c \in CRs : /\ VM(c) = VM(e) /\ pass[c].pc \in {"delTag", "drop"} /\ UNCHANGED cr
    BY <1>0, <1>1, <2>2, TagLoss
  <2>4. Tagged(e)
    BY <1>1, <2>3 DEF Tagged
  <2>5. CASE c = e
    BY <2>3, <2>4, <2>5, <1>0 DEF TagKept, Tagged, CopyOK, Deletion
  <2>6. CASE c # e /\ pass[c].pc = "delTag"
    BY <2>3, <2>4, <2>6 DEF TagInv, LastHolder
  <2>7. CASE c # e /\ pass[c].pc = "drop"
    <3>1. Shared(c)
      BY <2>3, <2>7 DEF Shared
    <3> QED BY <2>7, <3>1 DEF SharedInv, NeverWakes
  <2> QED BY <2>3, <2>5, <2>6, <2>7
<1>2. ASSUME pass'[e].pc = "setPhase", pass'[e].to = "Hibernated" PROVE tag'[VM(e)] # "none"
  <2>1. CASE pass'[e] = pass[e]
    <3>1. tag[VM(e)] # "none"
      BY <1>0, <1>2, <2>1 DEF TagKept
    <3>2. SUFFICES ASSUME tag'[VM(e)] = "none" PROVE FALSE
      OBVIOUS
    <3>3. PICK c \in CRs : /\ VM(c) = VM(e) /\ pass[c].pc \in {"delTag", "drop"}
      BY <1>0, <3>1, <3>2, TagLoss
    <3> QED BY <1>2, <2>1, <3>3, HoldersDiffer DEF Locked
  <2>2. CASE Moves(e) /\ UNCHANGED <<cr, tag>>
    BY <1>2, <2>2, NullFields DEF Moves
  <2> QED BY <1>2, <2>1, <2>2, ArrivalStep
<1>3. ASSUME pass'[e].pc = "setPhase", pass'[e].then = "drop" PROVE pass'[e].to = "Active"
  <2>1. CASE pass'[e] = pass[e]
    BY <1>0, <1>3, <2>1 DEF TagKept
  <2>2. CASE Moves(e)
    BY <1>3, <2>2, NullFields DEF Moves
  <2> QED BY <1>3, <2>1, <2>2, ArrivalStep
<1>4. ASSUME pass'[e].pc = "drop" PROVE cr'[e].phase = "Active"
  <2>1. CASE pass'[e] = pass[e]
    <3>1. cr[e].phase = "Active" /\ cr[e].at # "absent" /\ cr[e].fin /\ pass[e].pc = "drop"
      BY <1>0, <1>4, <2>1 DEF TagKept, CopyOK, Deletion
    <3>2. Status(cr'[e]) = Status(cr[e])
      BY <1>4, <2>1, <3>1, DropKeeps
    <3> QED BY <3>1, <3>2 DEF Status
  <2>2. CASE /\ Moves(e) /\ UNCHANGED <<cr, tag>>
             /\ pass[e].pc \in {"hibPatch", "hibProbe", "wakePatch"}
    <3>1. Settled(pass[e].cr)
      BY <1>4, <2>2, NullFields DEF Moves
    <3>2. Status(cr[e]) = Status(pass[e].cr)
      BY <1>0, <2>2 DEF CopyOK
    <3> QED BY <2>2, <3>1, <3>2 DEF Settled, Status
  <2>3. CASE setPhase(e) /\ pass[e].then = "drop" /\ cr'[e].phase = pass[e].to
    BY <1>0, <2>3 DEF TagKept, setPhase
  <2> QED BY <1>4, <2>1, <2>2, <2>3, ArrivalStep
<1>5. TagKept(e)'
  BY <1>0, <1>1, <1>2, <1>3, <1>4 DEF TagKept
<1>6. LastHolder(e)'
  <2> SUFFICES ASSUME pass'[e].pc = "delTag", NEW d \in CRs \ {e}, VM(d) = VM(e), Tagged(d)'
               PROVE  FALSE
    BY DEF LastHolder, VM
  <2>1. CASE listHolders(e) /\ ~vmHeldByAnotherCR(e) /\ UNCHANGED cr
    <3>1. crCache[d] = cr[d]
      BY <2>1 DEF listHolders, CaughtUp
    <3> QED BY <2>1, <3>1 DEF vmHeldByAnotherCR, Tagged
  <2>2. CASE pass'[e] = pass[e]
    <3>1. ~Tagged(d)
      BY <2>2 DEF TagInv, LastHolder
    <3>2. setPhase(d)
      BY <3>1, TaggedStep
    <3> QED BY <2>2, <3>2, HoldersDiffer DEF setPhase, Locked
  <2>3. CASE Moves(e)
    BY <2>3, NullFields DEF Moves
  <2> QED BY <2>1, <2>2, <2>3, ArrivalStep
<1> QED BY <1>5, <1>6

(* No CR that is not being deleted reports Hibernated over a sleeping VM whose snapshot is
   gone, for any number of CRs: reconcileDelete leaves a shared tag to the last holder, and
   a wake drops the tag only of a CR that has left Hibernated.  The CRs that share a VM
   must agree to hibernate it, and the informer cache must have caught up. *)
THEOREM HibernatedKeepsItsTag ==
    ASSUME CacheLag = FALSE, SharersAgree
    PROVE  Spec => []NoTaglessHibernated
<1> DEFINE Inv == HInv /\ CopyInv /\ SharedInv /\ TagInv
<1>1. Init => CopyInv /\ SharedInv /\ TagInv
  <2> SUFFICES ASSUME Init, NEW c \in CRs
               PROVE  /\ CopyOK(cr[c], pass[c]) /\ NeverWakes(cr[c], pass[c])
                      /\ TagKept(c) /\ LastHolder(c)
    BY DEF CopyInv, SharedInv, TagInv
  <2>1. cr[c] = NoRecord /\ pass[c] = Idle
    BY DEF Init
  <2>2. CopyOK(NoRecord, Idle)
    BY NullFields, CopyIdle
  <2> QED BY <2>1, <2>2, NullFields DEF NeverWakes, TagKept, Tagged, LastHolder
<1>2. Init => Inv
  BY <1>1, HInvInit
<1>3. Inv /\ [Next]_vars => Inv'
  BY HInvStep, CopyStep, SharedStep, TagStep
<1>4. Inv => NoTaglessHibernated
  BY DEF TagInv, TagKept, Tagged, NoTaglessHibernated
<1> QED BY <1>2, <1>3, <1>4, PTL DEF Spec

-----------------------------------------------------------------------------
(* Reversals serialize *)

(* q is a pod, t its tag, s what vk-cocoon does with its VM.  Without deletions a fresh tag
   is one whose VM does not run, and vk-cocoon finishes what the annotation asked for. *)
SleepOK(q, t, s) ==
    /\ q.at # "terminating" /\ ~q.restore /\ (q.at = "absent" => ~q.named)
    /\ ~q.named => ~q.hib /\ s = "off"
    /\ (t = "fresh") <=> (s \in {"pushed", "asleep", "waking"})
    /\ q.live => s \in {"running", "pushing", "pushed"}
    /\ q.state = "hibernated" => s \in {"asleep", "waking"}
    /\ s \in {"pushing", "pushed"} => q.hib
    /\ s = "waking" => ~q.hib

(* Who remembers that a transition is under way: with a patient user the desire, with a
   hasty one the phase. *)
Asked(pt, desire, phase, want) ==
    IF pt THEN desire = want ELSE phase = (IF want = "Hibernate" THEN "Hibernating" ELSE "Waking")

(* A phase fits the annotation and the VM. *)
Coherent(pt, desire, phase, hib, s) ==
    /\ phase = "Hibernating" => hib
    /\ phase = "Waking" => ~hib
    /\ hib /\ phase = "Hibernated" => s = "asleep"
    /\ ~hib /\ phase = "Active" => s \notin {"asleep", "waking"}
    /\ hib /\ (s # "asleep" \/ phase = "Active") => Asked(pt, desire, phase, "Hibernate")
    /\ ~hib /\ (s \in {"asleep", "waking"} \/ phase = "Hibernated") => Asked(pt, desire, phase, "Wake")

(* h is a CR, a the pass on it, q its pod and s its VM. *)
IntentOK(pt, h, a, q, s) ==
    /\ h.at # "deleting"
    /\ h.at = "absent" => ~q.hib /\ s \in {"off", "running"}
    /\ a.pc # "setPhase" \/ pt => Coherent(pt, h.desire, h.phase, q.hib, s)
    /\ a.pc = "markPending" => ~q.hib /\ s \in {"off", "running"}
    /\ a.pc \in {"lock", "hibPatch", "wakePatch"} =>
         /\ Coherent(pt, a.cr.desire, a.cr.phase, q.hib, s)
         /\ q.named /\ a.pod.hib = q.hib
         /\ a.pod.hib /\ a.pod.state = "hibernated" => s = "asleep"
         /\ ~a.pod.hib /\ a.pod.live => s = "running"
         /\ pt => h.desire = a.cr.desire \/ a.cr.phase = TerminalPhase(a.cr.desire)
    /\ a.pc = "hibPatch" => HibernateBranch(a.cr)
    /\ a.pc = "wakePatch" => ~HibernateBranch(a.cr)
    /\ a.pc = "hibProbe" => s = "asleep" /\ q.hib
    /\ a.pc = "drop" => s = "running" /\ ~q.hib
    /\ a.pc = "setPhase" =>
         /\ Coherent(pt, h.desire, a.to, q.hib, s)
         /\ a.to = "Hibernated" => s = "asleep" /\ q.hib
         /\ a.to = "Active" => s = "running" /\ ~q.hib
         /\ a.then = "drop" => a.to = "Active"

(* Nothing is deleted; a hasty user meets no failure and no deadline. *)
Careful ==
    /\ left.deletes = 0
    /\ left.patient \/ (faults = 0 /\ left.timeouts = 0 /\ \A c \in CRs : expired[c] = 0)

IntentInv ==
    /\ Careful
    /\ \A v \in VMs : SleepOK(pod[v], tag[v], vk[v])
    /\ \A c \in CRs : IntentOK(left.patient, cr[c], pass[c], pod[VM(c)], vk[VM(c)])

(* No two CRs target one VM. *)
SoleCRs == \A c, d \in CRs : c # d => VM(c) # VM(d)

(* The values the invariant distinguishes. *)
LEMMA IntentTypes ==
    ASSUME HInv, NEW c \in CRs
    PROVE  /\ left.patient \in BOOLEAN /\ VM(c) \in VMs /\ vk[VM(c)] \in VkStates
           /\ pod[VM(c)].hib \in BOOLEAN /\ pod[VM(c)].named \in BOOLEAN
           /\ pod[VM(c)].live \in BOOLEAN
           /\ pass[c].pod.hib \in BOOLEAN /\ pass[c].pod.live \in BOOLEAN
           /\ cr[c].desire \in {"Hibernate", "Wake"} /\ pass[c].cr.desire \in {"Hibernate", "Wake"}
           /\ cr[c].at \in {"absent", "present", "deleting"}
<1>1. pass[c].cr \in CRRecords /\ pass[c].pod \in Pods /\ cr[c] \in CRRecords
      /\ VM(c) \in VMs /\ pod[VM(c)] \in Pods
  BY InHandType
<1>2. left.patient \in BOOLEAN
  BY DEF HInv, RestType
<1>3. vk[VM(c)] \in VkStates
  BY <1>1 DEF HInv, ClusterTypeOK
<1> QED BY <1>1, <1>2, <1>3 DEF CRRecords, Pods

(* A hasty user stays without failures and deadlines, and nobody changes temper. *)
LEMMA CarefulStep ==
    ASSUME HInv, Careful, [Next]_vars
    PROVE  Careful' /\ left'.patient = left.patient
<1>0. /\ left \in [flips : 0..MaxFlips, timeouts : 0..MaxTimeouts,
                   deletes : 0..MaxDeletes, patient : BOOLEAN]
      /\ faults \in 0..MaxFaults /\ expired \in [CRs -> Nat]
      /\ MaxFlips \in Nat /\ MaxTimeouts \in Nat /\ MaxDeletes \in Nat
  BY HibernationAssumption DEF HInv, RestType, ClusterTypeOK
<1>1. faults' = faults \/ faults > 0
  <2>1. ASSUME NEW v \in VMs, VkActs(v) PROVE faults' = faults
    BY <2>1 DEF VkActs, VkStep, VkBoot, VkRefuse, VkStart, VkRestore, VkHibernate, VkWake,
                VkPush, VkReportHibernated, VkWoken, VkEcho, VkDelete
  <2>2. ASSUME NEW v \in VMs, SyncPod(v) \/ syncCocoonSetGeneration(v) \/ CreatePod(v) \/ VkFails(v)
        PROVE  faults' = faults \/ faults > 0
    BY <2>2 DEF SyncPod, syncCocoonSetGeneration, CreatePod, VkFails, VkFail, clusterVars
  <2>3. ASSUME NEW c \in CRs,
               \/ Reconcile(c) \/ PassStep(c) \/ CallFails(c) \/ SyncCR(c)
               \/ CreateCR(c) \/ EditDesire(c) \/ DeleteCR(c) \/ DeadlinePasses(c)
        PROVE  faults' = faults \/ faults > 0
    BY <2>3 DEF Reconcile, PassStep, AddFinalizer, markPending, lockVM, setPhase,
                reconcileHibernate, HasHibernateSnapshot, reconcileWake,
                DeleteManifestIfPresent, deleteLockVM, listHolders, deleteHeldTag,
                RemoveFinalizer, CallFails, SyncCR, CreateCR, EditDesire, DeleteCR,
                DeadlinePasses, clusterVars
  <2>4. EditSet \/ Restart \/ UNCHANGED vars => faults' = faults \/ faults > 0
    BY DEF EditSet, Restart, vars, clusterVars
  <2> QED BY <2>1, <2>2, <2>3, <2>4 DEF Next
<1>2. \/ UNCHANGED <<left, expired>>
      \/ Spend("flips") /\ UNCHANGED expired
      \/ Spend("timeouts")
      \/ Spend("deletes") /\ UNCHANGED expired
  <2>1. ASSUME NEW v \in VMs, \/ VkActs(v) \/ SyncPod(v) \/ syncCocoonSetGeneration(v)
                               \/ CreatePod(v) \/ VkFails(v)
        PROVE  UNCHANGED <<left, expired>>
    BY <2>1 DEF VkActs, SyncPod, syncCocoonSetGeneration, CreatePod, VkFails, envVars
  <2>2. ASSUME NEW c \in CRs, Reconcile(c) \/ PassStep(c) \/ CallFails(c) \/ SyncCR(c)
        PROVE  UNCHANGED <<left, expired>>
    BY <2>2 DEF Reconcile, PassStep, AddFinalizer, markPending, lockVM, setPhase,
                reconcileHibernate, HasHibernateSnapshot, reconcileWake,
                DeleteManifestIfPresent, deleteLockVM, listHolders, deleteHeldTag,
                RemoveFinalizer, CallFails, SyncCR, envVars
  <2>3. ASSUME NEW c \in CRs, CreateCR(c) \/ EditDesire(c) \/ DeleteCR(c) \/ DeadlinePasses(c)
        PROVE  \/ Spend("flips") /\ UNCHANGED expired
               \/ Spend("timeouts")
               \/ Spend("deletes") /\ UNCHANGED expired
    BY <2>3 DEF CreateCR, EditDesire, DeleteCR, DeadlinePasses
  <2>4. EditSet \/ Restart \/ UNCHANGED vars => UNCHANGED <<left, expired>>
    BY DEF EditSet, Restart, vars, envVars
  <2> QED BY <2>1, <2>2, <2>3, <2>4 DEF Next
<1>3. /\ Spend("flips") => /\ left'.deletes = left.deletes /\ left'.timeouts = left.timeouts
                           /\ left'.patient = left.patient
      /\ Spend("timeouts") => /\ left.timeouts > 0 /\ left'.deletes = left.deletes
                              /\ left'.patient = left.patient
      /\ Spend("deletes") => left.deletes > 0
  BY <1>0 DEF Spend
<1>4. left'.patient = left.patient /\ left'.deletes = 0
  BY <1>0, <1>2, <1>3 DEF Careful
<1>5. CASE left.patient
  BY <1>4, <1>5 DEF Careful
<1>6. CASE ~left.patient
  <2>1. faults = 0 /\ left.timeouts = 0 /\ \A c \in CRs : expired[c] = 0
    BY <1>6 DEF Careful
  <2>2. ~(faults > 0) /\ ~(left.timeouts > 0) /\ ~(left.deletes > 0)
    BY <2>1 DEF Careful
  <2>3. faults' = 0 /\ left'.timeouts = 0 /\ expired' = expired
    BY <1>1, <1>2, <1>3, <2>1, <2>2
  <2> QED BY <1>4, <2>1, <2>3 DEF Careful
<1> QED BY <1>4, <1>5, <1>6

(* A deadline passes only for a patient user. *)
LEMMA DeadlineIsPatient ==
    ASSUME HInv, Careful, NEW c \in CRs, NEW phase, phaseDeadlineExceeded(c, pass[c].cr, phase)
    PROVE  left.patient /\ pass[c].cr.phase = phase
<1>1. pass[c].cr.ltt \in Nat /\ pass[c].cr.ltt # 0 /\ pass[c].cr.ltt <= expired[c]
  BY InHandType DEF phaseDeadlineExceeded, CRRecords
<1>2. expired[c] # 0
  BY <1>1
<1> QED BY <1>2 DEF Careful, phaseDeadlineExceeded

(* What a step on one CR leaves alone, it leaves right. *)
LEMMA IntentOne ==
    ASSUME IntentInv, Careful', left'.patient = left.patient, SoleCRs, NEW c \in CRs,
           \A d \in CRs \ {c} : cr'[d] = cr[d] /\ pass'[d] = pass[d],
           \A w \in VMs \ {VM(c)} : pod'[w] = pod[w] /\ tag'[w] = tag[w] /\ vk'[w] = vk[w],
           SleepOK(pod'[VM(c)], tag'[VM(c)], vk'[VM(c)]),
           IntentOK(left.patient, cr'[c], pass'[c], pod'[VM(c)], vk'[VM(c)])
    PROVE  IntentInv'
<1>1. ASSUME NEW v \in VMs PROVE SleepOK(pod'[v], tag'[v], vk'[v])
  BY DEF IntentInv
<1>2. ASSUME NEW d \in CRs
      PROVE  IntentOK(left.patient, cr'[d], pass'[d], pod'[VM(d)], vk'[VM(d)])
  <2>1. CASE d = c
    BY <2>1
  <2>2. CASE d # c
    <3>1. VM(d) \in VMs \ {VM(c)}
      BY <2>2, StripeType DEF SoleCRs
    <3>2. IntentOK(left.patient, cr[d], pass[d], pod[VM(d)], vk[VM(d)])
      BY DEF IntentInv
    <3> QED BY <2>2, <3>1, <3>2
  <2> QED BY <2>1, <2>2
<1> QED BY <1>1, <1>2 DEF IntentInv, VM

(* The same for a step that touches no pod and no VM. *)
LEMMA IntentQuiet ==
    ASSUME HInv, IntentInv, Careful', left'.patient = left.patient, NEW c \in CRs,
           \A d \in CRs \ {c} : cr'[d] = cr[d] /\ pass'[d] = pass[d],
           UNCHANGED <<pod, tag, vk>>,
           IntentOK(left.patient, cr'[c], pass'[c], pod[VM(c)], vk[VM(c)])
    PROVE  IntentInv'
<1>1. ASSUME NEW d \in CRs
      PROVE  IntentOK(left.patient, cr'[d], pass'[d], pod[VM(d)], vk[VM(d)])
  BY DEF IntentInv
<1> QED BY <1>1 DEF IntentInv, VM

-----------------------------------------------------------------------------
(* vk-cocoon *)

(* What vk-cocoon may do with a VM whose annotation is hib. *)
VkMoves(hib, s, t) ==
    \/ t = s
    \/ s = "off" /\ t = "running"
    \/ s = "running" /\ hib /\ t = "pushing"
    \/ s = "pushing" /\ t \in {"pushed", "running"}
    \/ s = "pushed" /\ t = "asleep"
    \/ s = "asleep" /\ ~hib /\ t = "waking"
    \/ s = "waking" /\ t \in {"running", "asleep"}

LEMMA VkSleep ==
    ASSUME HInv, NEW v \in VMs, VkStep(v) \/ VkFail(v), SleepOK(pod[v], tag[v], vk[v])
    PROVE  /\ SleepOK(pod'[v], tag'[v], vk'[v])
           /\ pod'[v].hib = pod[v].hib /\ (pod[v].named => pod'[v].named)
           /\ VkMoves(pod[v].hib, vk[v], vk'[v])
           /\ \A w \in VMs \ {v} : pod'[w] = pod[w] /\ tag'[w] = tag[w] /\ vk'[w] = vk[w]
<1>0. /\ pod \in [VMs -> Pods] /\ tag \in [VMs -> {"none", "fresh", "stale"}]
      /\ vk \in [VMs -> VkStates] /\ pod[v] \in Pods
  BY DEF HInv, ClusterTypeOK
<1>t. /\ pod[v].hib \in BOOLEAN /\ pod[v].named \in BOOLEAN /\ pod[v].live \in BOOLEAN
      /\ pod[v].restore \in BOOLEAN /\ pod[v].at \in {"absent", "present", "terminating"}
  BY <1>0 DEF Pods
<1>1. ASSUME NEW state, NEW g, NEW l, Report(v, state, g, l)
      PROVE  /\ pod'[v].at = pod[v].at /\ pod'[v].hib = pod[v].hib /\ pod'[v].restore = pod[v].restore
             /\ pod'[v].live = l /\ pod'[v].state = state /\ pod'[v].named = TRUE
             /\ \A w \in VMs \ {v} : pod'[w] = pod[w]
  <2>1. pod'[v] = [pod[v] EXCEPT !.state = state, !.obs = g, !.live = l, !.named = TRUE]
        /\ \A w \in VMs \ {v} : pod'[w] = pod[w]
    BY <1>0, <1>1 DEF Report
  <2> QED BY <1>0, <2>1 DEF Pods
<1>2. CASE VkBoot(v)
  <2>1. /\ Report(v, "ready", pod[v].gen, TRUE) /\ vk[v] = "off" /\ vk'[v] = "running"
        /\ pod[v].at = "present"
        /\ tag'[v] = (IF tag[v] = "fresh" THEN "stale" ELSE tag[v])
        /\ \A w \in VMs \ {v} : tag'[w] = tag[w] /\ vk'[w] = vk[w]
    BY <1>0, <1>2 DEF VkBoot, Spent
  <2> QED BY <1>1, <1>t, <2>1 DEF SleepOK, VkMoves
<1>3. ~VkRefuse(v) /\ ~VkRestore(v) /\ ~VkDelete(v)
  BY DEF SleepOK, VkRefuse, VkRestore, VkDelete
<1>4. CASE VkHibernate(v) \/ VkWake(v)
  <2>1. /\ UNCHANGED <<pod, tag>> /\ pod[v].at = "present"
        /\ \/ vk[v] = "running" /\ pod[v].hib /\ vk'[v] = "pushing"
           \/ vk[v] = "asleep" /\ ~pod[v].hib /\ vk'[v] = "waking"
        /\ \A w \in VMs \ {v} : vk'[w] = vk[w]
    BY <1>0, <1>4 DEF VkHibernate, VkWake, VkStart
  <2> QED BY <1>t, <2>1 DEF SleepOK, VkMoves
<1>5. CASE VkPush(v)
  <2>1. /\ pod' = pod /\ vk[v] = "pushing" /\ vk'[v] = "pushed" /\ tag'[v] = "fresh"
        /\ \A w \in VMs \ {v} : tag'[w] = tag[w] /\ vk'[w] = vk[w]
    BY <1>0, <1>5 DEF VkPush
  <2> QED BY <1>t, <2>1 DEF SleepOK, VkMoves
<1>6. CASE VkReportHibernated(v)
  <2>1. /\ Report(v, "hibernated", vkGen[v], FALSE) /\ vk[v] = "pushed" /\ vk'[v] = "asleep"
        /\ pod[v].at # "absent" /\ tag' = tag
        /\ \A w \in VMs \ {v} : vk'[w] = vk[w]
    BY <1>0, <1>6 DEF VkReportHibernated
  <2> QED BY <1>1, <1>t, <2>1 DEF SleepOK, VkMoves
<1>7. CASE VkWoken(v)
  <2>1. /\ Report(v, "ready", vkGen[v], TRUE) /\ vk[v] = "waking" /\ vk'[v] = "running"
        /\ pod[v].at # "absent"
        /\ tag'[v] = (IF tag[v] = "fresh" THEN "stale" ELSE tag[v])
        /\ \A w \in VMs \ {v} : tag'[w] = tag[w] /\ vk'[w] = vk[w]
    BY <1>0, <1>7 DEF VkWoken, Spent
  <2>2. /\ pod'[v].at = pod[v].at /\ pod'[v].hib = pod[v].hib /\ pod'[v].restore = pod[v].restore
        /\ pod'[v].live = TRUE /\ pod'[v].state = "ready" /\ pod'[v].named = TRUE
        /\ \A w \in VMs \ {v} : pod'[w] = pod[w]
    BY <1>1, <2>1
  <2>3. tag'[v] # "fresh" /\ VkMoves(pod[v].hib, vk[v], vk'[v])
    BY <2>1 DEF VkMoves
  <2> QED BY <1>t, <2>1, <2>2, <2>3 DEF SleepOK
<1>8. CASE VkEcho(v)
  <2>1. PICK rest \in {[of |-> "running", hib |-> FALSE, state |-> "ready"],
                       [of |-> "asleep", hib |-> TRUE, state |-> "hibernated"]} :
          /\ vk[v] = rest.of
          /\ pod' = [pod EXCEPT ![v].state = rest.state, ![v].obs = pod[v].gen]
    BY <1>8 DEF VkEcho
  <2>2. rest.state = "hibernated" => vk[v] = "asleep"
    BY <2>1
  <2>3. pod'[v] = [pod[v] EXCEPT !.state = rest.state, !.obs = pod[v].gen]
        /\ \A w \in VMs \ {v} : pod'[w] = pod[w]
    BY <1>0, <2>1
  <2>4. /\ pod'[v].at = pod[v].at /\ pod'[v].hib = pod[v].hib /\ pod'[v].restore = pod[v].restore
        /\ pod'[v].live = pod[v].live /\ pod'[v].state = rest.state /\ pod'[v].named = pod[v].named
    BY <1>0, <2>3 DEF Pods
  <2>5. vk' = vk /\ tag' = tag
    BY <1>8 DEF VkEcho
  <2> QED BY <1>t, <2>2, <2>3, <2>4, <2>5 DEF SleepOK, VkMoves
<1>9. CASE VkFail(v)
  <2>1. /\ pod[v].at # "absent" /\ tag' = tag
        /\ \/ /\ vk[v] = "pushing" /\ vk'[v] = "running" /\ Report(v, "failed", vkGen[v], TRUE)
           \/ /\ vk[v] = "waking" /\ vk'[v] = "asleep" /\ Report(v, "failed", vkGen[v], FALSE)
        /\ \A w \in VMs \ {v} : vk'[w] = vk[w]
    BY <1>0, <1>9 DEF VkFail
  <2>2. PICK l \in BOOLEAN : l = (vk[v] = "pushing") /\ Report(v, "failed", vkGen[v], l)
    BY <2>1
  <2>3. /\ pod'[v].at = pod[v].at /\ pod'[v].hib = pod[v].hib /\ pod'[v].restore = pod[v].restore
        /\ pod'[v].live = l /\ pod'[v].state = "failed" /\ pod'[v].named = TRUE
        /\ \A w \in VMs \ {v} : pod'[w] = pod[w]
    BY <1>1, <2>2
  <2>4. VkMoves(pod[v].hib, vk[v], vk'[v])
    BY <2>1 DEF VkMoves
  <2> QED BY <1>t, <2>1, <2>2, <2>3, <2>4 DEF SleepOK
<1> QED BY <1>2, <1>3, <1>4, <1>5, <1>6, <1>7, <1>8, <1>9 DEF VkStep

(* No transition of vk-cocoon contradicts what a CR reports or a pass has read. *)
LEMMA VkIntent ==
    ASSUME NEW pt \in BOOLEAN, NEW h, NEW a, NEW q, NEW r, NEW s \in VkStates, NEW t,
           q.hib \in BOOLEAN, q.named \in BOOLEAN, r.hib = q.hib, q.named => r.named,
           a.pod.hib \in BOOLEAN, a.pod.live \in BOOLEAN,
           IntentOK(pt, h, a, q, s), VkMoves(q.hib, s, t), s \in {"pushing", "pushed"} => q.hib
    PROVE  IntentOK(pt, h, a, r, t)
<1>1. ASSUME NEW d, NEW ph, Coherent(pt, d, ph, q.hib, s) PROVE Coherent(pt, d, ph, r.hib, t)
  BY <1>1 DEF Coherent, VkMoves
<1> QED BY <1>1 DEF IntentOK, VkMoves, VkStates

(* A step of vk-cocoon or of the CocoonSet on one VM keeps the intent of its CRs. *)
LEMMA IntentVM ==
    ASSUME HInv, IntentInv, Careful', left'.patient = left.patient, NEW v \in VMs,
           UNCHANGED <<cr, pass>>,
           \A w \in VMs \ {v} : pod'[w] = pod[w] /\ tag'[w] = tag[w] /\ vk'[w] = vk[w],
           SleepOK(pod'[v], tag'[v], vk'[v]),
           pod'[v].hib = pod[v].hib, pod[v].named => pod'[v].named,
           VkMoves(pod[v].hib, vk[v], vk'[v])
    PROVE  IntentInv'
<1>1. ASSUME NEW w \in VMs PROVE SleepOK(pod'[w], tag'[w], vk'[w])
  BY DEF IntentInv
<1>2. ASSUME NEW c \in CRs
      PROVE  IntentOK(left.patient, cr[c], pass[c], pod'[VM(c)], vk'[VM(c)])
  <2>0. IntentOK(left.patient, cr[c], pass[c], pod[VM(c)], vk[VM(c)]) /\ VM(c) \in VMs
    BY StripeType DEF IntentInv
  <2>1. CASE VM(c) # v
    BY <2>0, <2>1
  <2>2. CASE VM(c) = v
    <3>1. /\ left.patient \in BOOLEAN /\ vk[v] \in VkStates
          /\ pod[v].hib \in BOOLEAN /\ pod[v].named \in BOOLEAN
          /\ pass[c].pod.hib \in BOOLEAN /\ pass[c].pod.live \in BOOLEAN
      BY <2>2, IntentTypes
    <3>2. vk[v] \in {"pushing", "pushed"} => pod[v].hib
      BY DEF IntentInv, SleepOK
    <3>3. IntentOK(left.patient, cr[c], pass[c], pod[v], vk[v])
      BY <2>0, <2>2
    <3>4. IntentOK(left.patient, cr[c], pass[c], pod'[v], vk'[v])
      BY <3>1, <3>2, <3>3, VkIntent
    <3> QED BY <2>2, <3>4
  <2> QED BY <2>1, <2>2
<1> QED BY <1>1, <1>2 DEF IntentInv, VM

(* The steps of vk-cocoon and of the CocoonSet. *)
LEMMA VMStep ==
    ASSUME HInv, IntentInv, Careful', left'.patient = left.patient, NEW v \in VMs,
           VkActs(v) \/ VkFails(v) \/ syncCocoonSetGeneration(v) \/ CreatePod(v)
    PROVE  IntentInv'
<1>0. /\ UNCHANGED <<cr, pass>> /\ SleepOK(pod[v], tag[v], vk[v]) /\ pod[v] \in Pods
      /\ pod \in [VMs -> Pods]
  BY DEF VkActs, VkFails, syncCocoonSetGeneration, CreatePod, EnvStep, passVars, IntentInv, HInv, ClusterTypeOK
<1>1. CASE VkActs(v) \/ VkFails(v)
  <2>1. VkStep(v) \/ VkFail(v)
    BY <1>1 DEF VkActs, VkFails
  <2> QED BY <1>0, <2>1, VkSleep, IntentVM
<1>2. ASSUME UNCHANGED <<tag, vk>>, \A w \in VMs \ {v} : pod'[w] = pod[w],
             SleepOK(pod'[v], tag[v], vk[v]), pod'[v].hib = pod[v].hib,
             pod[v].named => pod'[v].named
      PROVE  IntentInv'
  <2>1. VkMoves(pod[v].hib, vk[v], vk'[v])
    BY <1>2 DEF VkMoves
  <2> QED BY <1>0, <1>2, <2>1, IntentVM
<1>3. CASE syncCocoonSetGeneration(v)
  <2>1. /\ UNCHANGED <<tag, vk>> /\ pod'[v] = [pod[v] EXCEPT !.gen = setGen]
        /\ \A w \in VMs \ {v} : pod'[w] = pod[w]
    BY <1>0, <1>3 DEF syncCocoonSetGeneration
  <2>2. /\ pod'[v].at = pod[v].at /\ pod'[v].hib = pod[v].hib /\ pod'[v].restore = pod[v].restore
        /\ pod'[v].live = pod[v].live /\ pod'[v].state = pod[v].state /\ pod'[v].named = pod[v].named
    BY <1>0, <2>1 DEF Pods
  <2>3. SleepOK(pod'[v], tag[v], vk[v])
    BY <1>0, <2>2 DEF SleepOK
  <2> QED BY <1>2, <2>1, <2>2, <2>3
<1>4. CASE CreatePod(v)
  <2>1. PICK named \in BOOLEAN : pod' = [pod EXCEPT ![v] = NewPod(named, FALSE, setGen)]
    BY <1>4 DEF CreatePod
  <2>2. LET q == NewPod(named, FALSE, setGen)
        IN  /\ q.at = "present" /\ ~q.hib /\ ~q.restore /\ ~q.live /\ q.state = "none"
    BY DEF NewPod, NoPod
  <2>3. pod'[v] = NewPod(named, FALSE, setGen) /\ \A w \in VMs \ {v} : pod'[w] = pod[w]
    BY <1>0, <2>1
  <2>4. ~pod[v].named /\ ~pod[v].hib /\ vk[v] = "off" /\ tag[v] # "fresh" /\ UNCHANGED <<tag, vk>>
    BY <1>0, <1>4 DEF CreatePod, SleepOK
  <2>5. pod[v].hib \in BOOLEAN
    BY <1>0 DEF Pods
  <2>6. pod'[v].hib = FALSE
    BY <2>3 DEF NewPod, NoPod
  <2>7. SleepOK(pod'[v], tag[v], vk[v])
    BY <2>2, <2>3, <2>4 DEF SleepOK
  <2> QED BY <1>2, <2>3, <2>4, <2>5, <2>6, <2>7
<1> QED BY <1>1, <1>3, <1>4

-----------------------------------------------------------------------------
(* What the branches do to the annotation *)

(* podpatch.HibernateState touches nothing but the annotation of its pod. *)
LEMMA PatchEffect ==
    ASSUME HInv, NEW c \in CRs, NEW want \in BOOLEAN, HibernateState(c, want)
    PROVE  /\ \A w \in VMs \ {VM(c)} : pod'[w] = pod[w]
           /\ pod'[VM(c)].hib = (IF pass[c].pod.hib = want THEN pod[VM(c)].hib ELSE want)
           /\ pod'[VM(c)].at = pod[VM(c)].at /\ pod'[VM(c)].named = pod[VM(c)].named
           /\ pod'[VM(c)].restore = pod[VM(c)].restore /\ pod'[VM(c)].live = pod[VM(c)].live
           /\ pod'[VM(c)].state = pod[VM(c)].state
           /\ Answer(c, want).state = (IF pass[c].pod.hib = want THEN pass[c].pod.state
                                       ELSE pod[VM(c)].state)
           /\ Answer(c, want).live = (IF pass[c].pod.hib = want THEN pass[c].pod.live
                                      ELSE pod[VM(c)].live)
<1>0. pod \in [VMs -> Pods] /\ VM(c) \in VMs /\ pod[VM(c)] \in Pods
  BY InHandType DEF HInv, ClusterTypeOK
<1> DEFINE q == [pod[VM(c)] EXCEPT !.hib = want]
<1>1. /\ q.hib = want /\ q.at = pod[VM(c)].at /\ q.named = pod[VM(c)].named
      /\ q.restore = pod[VM(c)].restore /\ q.live = pod[VM(c)].live /\ q.state = pod[VM(c)].state
  BY <1>0 DEF Pods
<1>2. CASE pass[c].pod.hib = want
  BY <1>2 DEF HibernateState, Answer
<1>3. CASE pass[c].pod.hib # want
  <2>1. pod' = [pod EXCEPT ![VM(c)] = q] /\ Answer(c, want) = q
    BY <1>3 DEF HibernateState, Answer
  <2> HIDE DEF q
  <2>2. pod'[VM(c)] = q /\ \A w \in VMs \ {VM(c)} : pod'[w] = pod[w]
    BY <1>0, <2>1
  <2> QED BY <1>1, <1>3, <2>1, <2>2
<1> QED BY <1>2, <1>3

(* Where a view that goes on to setPhase leads. *)
LEMMA WritingMoves ==
    ASSUME HInv, NEW c \in CRs, NEW view \in Passes, NEW to \in Phases,
           NEW then \in {"done", "requeue", "drop"}, Goto(c, Writing(view, to, then))
    PROVE  pass'[c].pc = "setPhase" /\ pass'[c].to = to /\ pass'[c].then = then
<1>1. Writing(view, to, then) \in Passes
  BY WritingFields
<1>2. pass'[c] = Writing(view, to, then)
  BY <1>1, PassMoves
<1> QED BY <1>2, WritingFields

(* A pass that polls goes on to write Hibernating, or Failed past the deadline. *)
Polls(c) ==
    /\ pass'[c].pc = "setPhase"
    /\ \/ pass'[c].to = "Hibernating" /\ pass'[c].then = "requeue"
       \/ /\ pass'[c].to = "Failed" /\ pass'[c].then = "done"
          /\ phaseDeadlineExceeded(c, pass[c].cr, "Hibernating")

LEMMA PollMoves ==
    ASSUME HInv, NEW c \in CRs, NEW view \in Passes, view.cr = pass[c].cr, PollHibernate(c, view)
    PROVE  Polls(c)
<1>1. "Failed" \in Phases /\ "Hibernating" \in Phases
  BY DEF Phases, InFlight
<1>2. CASE /\ phaseDeadlineExceeded(c, view.cr, "Hibernating")
           /\ Goto(c, Writing(view, "Failed", "done"))
  BY <1>1, <1>2, WritingMoves DEF Polls
<1>3. CASE Goto(c, Writing(view, "Hibernating", "requeue"))
  BY <1>1, <1>3, WritingMoves DEF Polls
<1> QED BY <1>2, <1>3 DEF PollHibernate

(* The view a pass goes on with after its patch. *)
LEMMA ViewType ==
    ASSUME HInv, NEW c \in CRs, NEW want \in BOOLEAN
    PROVE  LET view == [pass[c] EXCEPT !.pod = Answer(c, want)]
           IN  view \in Passes /\ view.cr = pass[c].cr /\ view.pod = Answer(c, want)
<1>1. pass[c] \in Passes /\ pass[c].pod \in Pods /\ pod[VM(c)] \in Pods
  BY InHandType
<1>2. Answer(c, want) \in Pods
  BY <1>1, PodRecordType DEF Answer
<1> QED BY <1>1, <1>2, PassRecordType DEF Passes

(* reconcileHibernate. *)
LEMMA HibernateEffect ==
    ASSUME HInv, NEW c \in CRs, reconcileHibernate(c)
    PROVE  /\ pass[c].pc = "hibPatch" /\ UNCHANGED <<cr, tag, vk>>
           /\ \/ pass'[c] = Idle /\ pod' = pod
              \/ /\ HibernateState(c, TRUE)
                 /\ \/ pass'[c].pc = "hibProbe" /\ Answer(c, TRUE).state = "hibernated"
                    \/ Polls(c)
<1> DEFINE view == [pass[c] EXCEPT !.pod = Answer(c, TRUE)]
           next == [view EXCEPT !.pc = "hibProbe"]
<1>1. view \in Passes /\ view.cr = pass[c].cr /\ view.pod = Answer(c, TRUE)
  BY ViewType
<1>2. next \in Passes /\ next.pc = "hibProbe"
  <2> HIDE DEF view
  <2> QED BY <1>1, PassRecordType DEF Passes, PCs, Locked
<1>3. \/ Return(c, TRUE) /\ pod' = pod
      \/ HibernateState(c, TRUE) /\ Completed(view.pod) /\ Goto(c, next)
      \/ HibernateState(c, TRUE) /\ PollHibernate(c, view)
  BY DEF reconcileHibernate
<1>4. pass[c].pc = "hibPatch" /\ UNCHANGED <<cr, tag, vk>>
  BY DEF reconcileHibernate
<1> HIDE DEF view, next
<1>5. CASE Return(c, TRUE) /\ pod' = pod
  <2>1. pass'[c] = Idle
    BY <1>5 DEF Return, HInv, PassType
  <2> QED BY <1>4, <1>5, <2>1
<1>6. CASE HibernateState(c, TRUE) /\ Completed(view.pod) /\ Goto(c, next)
  <2>1. pass'[c] = next
    BY <1>2, <1>6, PassMoves
  <2> QED BY <1>1, <1>2, <1>4, <1>6, <2>1 DEF Completed
<1>7. CASE HibernateState(c, TRUE) /\ PollHibernate(c, view)
  BY <1>1, <1>4, <1>7, PollMoves
<1> QED BY <1>3, <1>5, <1>6, <1>7

(* The registry's answer to a hibernate. *)
LEMMA ProbeEffect ==
    ASSUME HInv, NEW c \in CRs, HasHibernateSnapshot(c)
    PROVE  /\ pass[c].pc = "hibProbe" /\ UNCHANGED <<cr, pod, tag, vk>>
           /\ \/ /\ pass'[c].pc = "setPhase" /\ pass'[c].to = "Hibernated"
                 /\ pass'[c].then = "done"
              \/ Polls(c)
<1>1. pass[c] \in Passes /\ "Hibernated" \in Phases
  BY InHandType DEF Phases
<1>2. pass[c].pc = "hibProbe" /\ UNCHANGED <<cr, pod, tag, vk>>
  BY DEF HasHibernateSnapshot
<1>3. CASE PollHibernate(c, pass[c])
  BY <1>1, <1>2, <1>3, PollMoves
<1>4. CASE Goto(c, Writing(pass[c], "Hibernated", "done"))
  BY <1>1, <1>2, <1>4, WritingMoves
<1> QED BY <1>3, <1>4 DEF HasHibernateSnapshot

(* reconcileWake. *)
LEMMA WakePatchEffect ==
    ASSUME HInv, NEW c \in CRs, reconcileWake(c)
    PROVE  /\ pass[c].pc = "wakePatch" /\ UNCHANGED <<cr, tag, vk>>
           /\ \/ pass'[c] = Idle /\ pod' = pod
              \/ /\ HibernateState(c, FALSE) /\ ~(Settled(pass[c].cr) /\ pass[c].pod.hib)
                 /\ \/ pass'[c] = Idle /\ Settled(pass[c].cr)
                    \/ pass'[c].pc = "drop" /\ Answer(c, FALSE).live
                    \/ /\ pass'[c].pc = "setPhase" /\ pass'[c].to = "Active"
                       /\ Answer(c, FALSE).live
                    \/ /\ pass'[c].pc = "setPhase" /\ pass'[c].to = "Waking"
                       /\ pass'[c].then = "requeue"
                    \/ /\ pass'[c].pc = "setPhase" /\ pass'[c].to = "Failed"
                       /\ pass'[c].then = "done"
                       /\ phaseDeadlineExceeded(c, pass[c].cr, "Waking")
<1> DEFINE view == [pass[c] EXCEPT !.pod = Answer(c, FALSE)]
           next == [view EXCEPT !.pc = "drop"]
<1>1. view \in Passes /\ view.cr = pass[c].cr /\ view.pod = Answer(c, FALSE)
  BY ViewType
<1>2. next \in Passes /\ next.pc = "drop"
  <2> HIDE DEF view
  <2> QED BY <1>1, PassRecordType DEF Passes, PCs, Locked
<1>3. pass[c].pc = "wakePatch" /\ UNCHANGED <<cr, tag, vk>>
  BY DEF reconcileWake
<1>4. \/ \E again \in BOOLEAN : Return(c, again) /\ pod' = pod
      \/ /\ HibernateState(c, FALSE) /\ ~(Settled(pass[c].cr) /\ pass[c].pod.hib)
         /\ AfterWakePatch(c, view)
  BY DEF reconcileWake
<1>5. ASSUME NEW again \in BOOLEAN, Return(c, again) PROVE pass'[c] = Idle
  BY <1>5 DEF Return, HInv, PassType
<1>6. ASSUME AfterWakePatch(c, view)
      PROVE  \/ view.pod.live /\ Goto(c, next)
             \/ view.pod.live /\ Goto(c, Writing(view, "Active", "drop"))
             \/ Settled(view.cr) /\ Return(c, FALSE)
             \/ phaseDeadlineExceeded(c, view.cr, "Waking") /\ Goto(c, Writing(view, "Failed", "done"))
             \/ Goto(c, Writing(view, "Waking", "requeue"))
  BY <1>6 DEF AfterWakePatch
<1> HIDE DEF view, next
<1>7. CASE \E again \in BOOLEAN : Return(c, again) /\ pod' = pod
  BY <1>3, <1>5, <1>7
<1>8. CASE /\ HibernateState(c, FALSE) /\ ~(Settled(pass[c].cr) /\ pass[c].pod.hib)
           /\ AfterWakePatch(c, view)
  <2>0. "Failed" \in Phases /\ "Waking" \in Phases /\ "Active" \in Phases
    BY DEF Phases, InFlight
  <2>1. CASE view.pod.live /\ Goto(c, next)
    <3>1. pass'[c] = next
      BY <1>2, <2>1, PassMoves
    <3> QED BY <1>1, <1>2, <1>3, <1>8, <2>1, <3>1
  <2>2. CASE view.pod.live /\ Goto(c, Writing(view, "Active", "drop"))
    BY <1>1, <1>3, <1>8, <2>0, <2>2, WritingMoves
  <2>3. CASE Settled(view.cr) /\ Return(c, FALSE)
    <3>1. pass'[c] = Idle
      BY <1>5, <2>3
    <3> QED BY <1>1, <1>3, <1>8, <2>3, <3>1
  <2>4. CASE /\ phaseDeadlineExceeded(c, view.cr, "Waking")
             /\ Goto(c, Writing(view, "Failed", "done"))
    BY <1>1, <1>3, <1>8, <2>0, <2>4, WritingMoves
  <2>5. CASE Goto(c, Writing(view, "Waking", "requeue"))
    BY <1>1, <1>3, <1>8, <2>0, <2>5, WritingMoves
  <2> QED BY <1>6, <1>8, <2>1, <2>2, <2>3, <2>4, <2>5
<1> QED BY <1>4, <1>7, <1>8

-----------------------------------------------------------------------------
(* Each step keeps the intent *)

(* What the invariants say of one CR. *)
LEMMA IntentOf ==
    ASSUME HInv, CopyInv, IntentInv, NEW c \in CRs
    PROVE  /\ IntentOK(left.patient, cr[c], pass[c], pod[VM(c)], vk[VM(c)])
           /\ SleepOK(pod[VM(c)], tag[VM(c)], vk[VM(c)])
           /\ CopyOK(cr[c], pass[c])
BY StripeType DEF IntentInv, CopyInv

(* Polling writes Hibernating, or Failed when a patient user's deadline has passed. *)
LEMMA PollIntent ==
    ASSUME HInv, Careful, NEW c \in CRs, Polls(c), NEW q, NEW s, q.hib,
           cr[c].at = "present", left.patient => cr[c].desire = "Hibernate" \/ s = "asleep",
           left.patient => Coherent(left.patient, cr[c].desire, cr[c].phase, q.hib, s)
    PROVE  IntentOK(left.patient, cr[c], pass'[c], q, s)
<1>0. left.patient \in BOOLEAN
  BY IntentTypes
<1>1. pass'[c].to = "Failed" => left.patient
  BY DeadlineIsPatient DEF Polls
<1>2. /\ pass'[c].pc = "setPhase" /\ pass'[c].to \in {"Hibernating", "Failed"}
      /\ pass'[c].then # "drop"
  BY DEF Polls
<1>3. Coherent(left.patient, cr[c].desire, pass'[c].to, q.hib, s)
  BY <1>0, <1>1, <1>2 DEF Coherent, Asked
<1> QED BY <1>2, <1>3 DEF IntentOK

(* The hibernate branch: an annotation it sets is one the user still asks for, on a VM
   that is up. *)
LEMMA HibernateIntent ==
    ASSUME HInv, CopyInv, IntentInv, Careful', left'.patient = left.patient, SoleCRs,
           NEW c \in CRs, reconcileHibernate(c)
    PROVE  IntentInv'
<1> DEFINE q == pod[VM(c)]
           s == vk[VM(c)]
           pt == left.patient
<1>0. /\ IntentOK(pt, cr[c], pass[c], q, s) /\ SleepOK(q, tag[VM(c)], s) /\ CopyOK(cr[c], pass[c])
  BY IntentOf
<1>t. /\ pt \in BOOLEAN /\ s \in VkStates /\ q.hib \in BOOLEAN /\ q.named \in BOOLEAN
      /\ pass[c].pod.hib \in BOOLEAN /\ VM(c) \in VMs
      /\ cr[c].desire \in {"Hibernate", "Wake"} /\ pass[c].cr.desire \in {"Hibernate", "Wake"}
  BY IntentTypes
<1>f. /\ \A d \in CRs \ {c} : cr'[d] = cr[d] /\ pass'[d] = pass[d]
      /\ UNCHANGED <<cr, tag, vk>> /\ pass[c].pc = "hibPatch"
  BY BranchEffect, HibernateEffect
<1>p. Status(cr[c]) = Status(pass[c].cr) /\ cr[c].at = "present"
  BY <1>0, <1>f, IntentTypes DEF CopyOK, IntentOK
<1>h. cr[c].phase = pass[c].cr.phase
  BY <1>p DEF Status
<1>1. CASE pass'[c] = Idle /\ pod' = pod
  <2>1. IntentOK(pt, cr[c], Idle, q, s)
    BY <1>0, <1>f, NullFields DEF IntentOK
  <2> QED BY <1>1, <1>f, <2>1, IntentQuiet
<1>2. CASE /\ HibernateState(c, TRUE)
           /\ (pass'[c].pc = "hibProbe" /\ Answer(c, TRUE).state = "hibernated") \/ Polls(c)
  <2> DEFINE r == pod'[VM(c)]
  <2>1. /\ \A w \in VMs \ {VM(c)} : pod'[w] = pod[w]
        /\ r.hib = (IF pass[c].pod.hib = TRUE THEN q.hib ELSE TRUE)
        /\ r.at = q.at /\ r.named = q.named /\ r.restore = q.restore /\ r.live = q.live
        /\ r.state = q.state
        /\ Answer(c, TRUE).state = (IF pass[c].pod.hib = TRUE THEN pass[c].pod.state ELSE q.state)
    BY <1>2, PatchEffect
  <2> HIDE DEF q, r, s, pt
  <2>2. q.named /\ pass[c].pod.hib = q.hib /\ r.hib
    BY <1>0, <1>f, <1>t, <2>1 DEF IntentOK
  <2>3. CASE q.hib
    <3>1. SleepOK(r, tag[VM(c)], s)
      BY <1>0, <2>1, <2>2, <2>3 DEF SleepOK
    <3>2. Coherent(pt, cr[c].desire, cr[c].phase, r.hib, s)
      BY <1>0, <1>f, <2>2, <2>3, <1>t DEF IntentOK, Coherent
    <3>3. CASE pass'[c].pc = "hibProbe" /\ Answer(c, TRUE).state = "hibernated"
      <4>1. s = "asleep"
        BY <1>0, <1>f, <2>1, <2>2, <2>3, <3>3 DEF IntentOK
      <4>2. IntentOK(pt, cr[c], pass'[c], r, s)
        BY <1>p, <2>2, <3>2, <3>3, <4>1 DEF IntentOK
      <4> QED BY <1>f, <2>1, <3>1, <4>2, IntentOne DEF r, s, pt
    <3>4. CASE Polls(c)
      <4>1. pt => cr[c].desire = "Hibernate" \/ s = "asleep"
        BY <2>2, <3>2 DEF Coherent, Asked
      <4>2. IntentOK(pt, cr[c], pass'[c], r, s)
        BY <1>p, <2>2, <3>2, <3>4, <4>1, PollIntent DEF IntentInv, pt
      <4> QED BY <1>f, <2>1, <3>1, <4>2, IntentOne DEF r, s, pt
    <3> QED BY <1>2, <3>3, <3>4
  <2>4. CASE ~q.hib
    <3>1. /\ HibernateBranch(pass[c].cr)
          /\ Coherent(pt, pass[c].cr.desire, pass[c].cr.phase, q.hib, s)
          /\ pt => \/ cr[c].desire = pass[c].cr.desire
                   \/ pass[c].cr.phase = TerminalPhase(pass[c].cr.desire)
      BY <1>0, <1>f DEF IntentOK
    <3>2. pass[c].cr.desire = "Hibernate" /\ pass[c].cr.phase \notin {"Waking", "Hibernating"}
      BY <2>4, <3>1 DEF HibernateBranch, Coherent
    <3>3. s \notin {"asleep", "waking"} /\ pass[c].cr.phase # "Hibernated"
      BY <1>t, <2>4, <3>1, <3>2 DEF Coherent, Asked
    <3>4. pt => cr[c].desire = "Hibernate"
      BY <3>1, <3>2, <3>3 DEF TerminalPhase
    <3>5. SleepOK(r, tag[VM(c)], s)
      BY <1>0, <2>1, <2>2, <3>3 DEF SleepOK
    <3>6. pt => Coherent(pt, cr[c].desire, cr[c].phase, r.hib, s)
      BY <1>h, <2>2, <3>2, <3>3, <3>4 DEF Coherent, Asked
    <3>7. q.state # "hibernated"
      BY <1>0, <3>3 DEF SleepOK
    <3>8. Polls(c)
      BY <1>2, <2>1, <2>2, <2>4, <3>7
    <3>9. IntentOK(pt, cr[c], pass'[c], r, s)
      BY <1>p, <2>2, <3>4, <3>6, <3>8, PollIntent DEF IntentInv, pt
    <3> QED BY <1>f, <2>1, <3>5, <3>9, IntentOne DEF r, s, pt
  <2> QED BY <2>3, <2>4
<1> QED BY <1>1, <1>2, HibernateEffect

(* The registry's answer. *)
LEMMA ProbeIntent ==
    ASSUME HInv, CopyInv, IntentInv, Careful', left'.patient = left.patient,
           NEW c \in CRs, HasHibernateSnapshot(c)
    PROVE  IntentInv'
<1> DEFINE q == pod[VM(c)]
           s == vk[VM(c)]
           pt == left.patient
<1>0. /\ IntentOK(pt, cr[c], pass[c], q, s) /\ CopyOK(cr[c], pass[c])
  BY IntentOf
<1>f. /\ \A d \in CRs \ {c} : cr'[d] = cr[d] /\ pass'[d] = pass[d]
      /\ UNCHANGED <<cr, pod, tag, vk>> /\ pass[c].pc = "hibProbe"
  BY BranchEffect, ProbeEffect
<1>p. cr[c].at = "present"
  BY <1>0, <1>f, IntentTypes DEF CopyOK, IntentOK
<1>1. s = "asleep" /\ q.hib /\ Coherent(pt, cr[c].desire, cr[c].phase, q.hib, s)
  BY <1>0, <1>f DEF IntentOK
<1>2. IntentOK(pt, cr[c], pass'[c], q, s)
  <2> HIDE DEF q, s, pt
  <2>1. CASE Polls(c)
    BY <1>1, <1>p, <2>1, PollIntent DEF IntentInv, pt
  <2>2. CASE /\ pass'[c].pc = "setPhase" /\ pass'[c].to = "Hibernated" /\ pass'[c].then = "done"
    <3>1. Coherent(pt, cr[c].desire, pass'[c].to, q.hib, s)
      BY <1>1, <2>2 DEF Coherent
    <3> QED BY <1>1, <1>p, <2>2, <3>1 DEF IntentOK
  <2> QED BY <2>1, <2>2, ProbeEffect
<1> QED BY <1>f, <1>2, IntentQuiet

(* The wake branch: an annotation it clears is that of a VM that sleeps, and it drops the
   tag only of one that runs. *)
LEMMA WakeIntent ==
    ASSUME HInv, CopyInv, IntentInv, Careful', left'.patient = left.patient, SoleCRs,
           NEW c \in CRs, reconcileWake(c)
    PROVE  IntentInv'
<1> DEFINE q == pod[VM(c)]
           s == vk[VM(c)]
           pt == left.patient
<1>0. /\ IntentOK(pt, cr[c], pass[c], q, s) /\ SleepOK(q, tag[VM(c)], s) /\ CopyOK(cr[c], pass[c])
  BY IntentOf
<1>t. /\ pt \in BOOLEAN /\ s \in VkStates /\ q.hib \in BOOLEAN /\ q.named \in BOOLEAN
      /\ pass[c].pod.hib \in BOOLEAN /\ VM(c) \in VMs
      /\ cr[c].desire \in {"Hibernate", "Wake"} /\ pass[c].cr.desire \in {"Hibernate", "Wake"}
  BY IntentTypes
<1>f. /\ \A d \in CRs \ {c} : cr'[d] = cr[d] /\ pass'[d] = pass[d]
      /\ UNCHANGED <<cr, tag, vk>> /\ pass[c].pc = "wakePatch"
  BY BranchEffect, WakePatchEffect
<1>p. Status(cr[c]) = Status(pass[c].cr) /\ cr[c].at = "present"
  BY <1>0, <1>f, IntentTypes DEF CopyOK, IntentOK
<1>h. cr[c].phase = pass[c].cr.phase
  BY <1>p DEF Status
<1>1. CASE pass'[c] = Idle /\ pod' = pod
  <2>1. IntentOK(pt, cr[c], Idle, q, s)
    BY <1>0, <1>f, NullFields DEF IntentOK
  <2> QED BY <1>1, <1>f, <2>1, IntentQuiet
<1>2. CASE HibernateState(c, FALSE) /\ ~(Settled(pass[c].cr) /\ pass[c].pod.hib)
  <2> DEFINE r == pod'[VM(c)]
  <2>1. /\ \A w \in VMs \ {VM(c)} : pod'[w] = pod[w]
        /\ r.hib = (IF pass[c].pod.hib = FALSE THEN q.hib ELSE FALSE)
        /\ r.at = q.at /\ r.named = q.named /\ r.restore = q.restore /\ r.live = q.live
        /\ r.state = q.state
        /\ Answer(c, FALSE).live = (IF pass[c].pod.hib = FALSE THEN pass[c].pod.live ELSE q.live)
    BY <1>2, PatchEffect
  <2>e. \/ pass'[c] = Idle /\ (pod' = pod \/ Settled(pass[c].cr))
        \/ pass'[c].pc = "drop" /\ Answer(c, FALSE).live
        \/ pass'[c].pc = "setPhase" /\ pass'[c].to = "Active" /\ Answer(c, FALSE).live
        \/ pass'[c].pc = "setPhase" /\ pass'[c].to = "Waking" /\ pass'[c].then = "requeue"
        \/ /\ pass'[c].pc = "setPhase" /\ pass'[c].to = "Failed" /\ pass'[c].then = "done"
           /\ pt /\ pass[c].cr.phase = "Waking"
    BY WakePatchEffect, DeadlineIsPatient DEF IntentInv
  <2> HIDE DEF q, r, s, pt
  <2>2. q.named /\ pass[c].pod.hib = q.hib /\ ~r.hib
    BY <1>0, <1>f, <1>t, <2>1 DEF IntentOK
  <2>3. CASE ~q.hib
    <3>1. SleepOK(r, tag[VM(c)], s)
      BY <1>0, <2>1, <2>2, <2>3 DEF SleepOK
    <3>2. Coherent(pt, cr[c].desire, cr[c].phase, r.hib, s)
      BY <1>0, <1>f, <2>2, <2>3, <1>t DEF IntentOK, Coherent
    <3>3. Answer(c, FALSE).live => s = "running"
      BY <1>0, <1>f, <2>1, <2>2, <2>3, <1>t DEF IntentOK
    <3>4. ASSUME NEW to, to \in {"Waking", "Active"} \/ (to = "Failed" /\ pt),
                 to = "Active" => s = "running"
          PROVE  Coherent(pt, cr[c].desire, to, r.hib, s)
      BY <1>t, <2>2, <3>2, <3>4 DEF Coherent, Asked
    <3>5. IntentOK(pt, cr[c], pass'[c], r, s)
      <4>1. CASE pass'[c] = Idle
        BY <1>p, <3>2, <4>1, NullFields DEF IntentOK
      <4>2. CASE pass'[c].pc = "drop" /\ Answer(c, FALSE).live
        BY <1>p, <2>2, <3>2, <3>3, <4>2 DEF IntentOK
      <4>3. CASE pass'[c].pc = "setPhase" /\ pass'[c].to = "Active" /\ Answer(c, FALSE).live
        BY <1>p, <2>2, <3>2, <3>3, <3>4, <4>3 DEF IntentOK
      <4>4. CASE pass'[c].pc = "setPhase" /\ pass'[c].to = "Waking" /\ pass'[c].then = "requeue"
        BY <1>p, <3>2, <3>4, <4>4 DEF IntentOK
      <4>5. CASE /\ pass'[c].pc = "setPhase" /\ pass'[c].to = "Failed" /\ pass'[c].then = "done" /\ pt
        BY <1>p, <3>2, <3>4, <4>5 DEF IntentOK
      <4> QED BY <2>e, <4>1, <4>2, <4>3, <4>4, <4>5
    <3> QED BY <1>f, <2>1, <3>1, <3>5, IntentOne DEF r, s, pt
  <2>4. CASE q.hib
    <3>1. /\ ~HibernateBranch(pass[c].cr)
          /\ Coherent(pt, pass[c].cr.desire, pass[c].cr.phase, q.hib, s)
          /\ pt => \/ cr[c].desire = pass[c].cr.desire
                   \/ pass[c].cr.phase = TerminalPhase(pass[c].cr.desire)
      BY <1>0, <1>f DEF IntentOK
    <3>2. pass[c].cr.desire = "Wake" /\ pass[c].cr.phase \notin {"Waking", "Hibernating"}
      BY <1>t, <2>4, <3>1 DEF HibernateBranch, Coherent
    <3>3. s = "asleep" /\ pass[c].cr.phase # "Active"
      BY <1>t, <2>4, <3>1, <3>2 DEF Coherent, Asked
    <3>4. pt => cr[c].desire = "Wake"
      BY <3>1, <3>2, <3>3 DEF TerminalPhase
    <3>5. SleepOK(r, tag[VM(c)], s)
      BY <1>0, <2>1, <2>2, <3>3 DEF SleepOK
    <3>6. pt => Coherent(pt, cr[c].desire, cr[c].phase, r.hib, s)
      BY <1>h, <2>2, <3>2, <3>3, <3>4 DEF Coherent, Asked
    <3>7. ~q.live /\ ~Settled(pass[c].cr)
      BY <1>0, <3>3 DEF SleepOK, Settled
    <3>8. pod' # pod
      BY <2>2, <2>4 DEF q, r
    <3>9. pass'[c].pc = "setPhase" /\ pass'[c].to = "Waking" /\ pass'[c].then = "requeue"
      BY <2>1, <2>2, <2>4, <2>e, <3>2, <3>7, <3>8
    <3>10. Coherent(pt, cr[c].desire, pass'[c].to, r.hib, s)
      BY <2>2, <3>3, <3>4, <3>9 DEF Coherent, Asked
    <3>11. IntentOK(pt, cr[c], pass'[c], r, s)
      BY <1>p, <2>2, <3>6, <3>9, <3>10 DEF IntentOK
    <3> QED BY <1>f, <2>1, <3>5, <3>11, IntentOne DEF r, s, pt
  <2> QED BY <2>3, <2>4
<1> QED BY <1>1, <1>2, WakePatchEffect

(* A pass starts from the CR and the pod as they are. *)
LEMMA StartIntent ==
    ASSUME HInv, CopyInv, IntentInv, Careful', left'.patient = left.patient, CacheLag = FALSE,
           NEW c \in CRs, Reconcile(c)
    PROVE  IntentInv'
<1> DEFINE q == pod[VM(c)]
           s == vk[VM(c)]
           pt == left.patient
<1>0. IntentOK(pt, cr[c], pass[c], q, s) /\ SleepOK(q, tag[VM(c)], s)
  BY IntentOf
<1>t. /\ pt \in BOOLEAN /\ s \in VkStates /\ q.hib \in BOOLEAN /\ q.named \in BOOLEAN
      /\ q.live \in BOOLEAN /\ cr[c].at \in {"absent", "present", "deleting"}
  BY IntentTypes
<1>f. /\ \A d \in CRs \ {c} : cr'[d] = cr[d] /\ pass'[d] = pass[d]
      /\ UNCHANGED <<cr, pod, tag, vk>> /\ pass[c].pc = "idle"
      /\ crCache[c] = cr[c] /\ podCache[VM(c)] = q
  BY StartEffect, NullFields DEF Reconcile, CaughtUp, clusterVars
<1>1. Coherent(pt, cr[c].desire, cr[c].phase, q.hib, s) /\ cr[c].at # "deleting"
  BY <1>0, <1>f DEF IntentOK
<1>2. CASE pass'[c] = Idle
  <2>1. IntentOK(pt, cr[c], Idle, q, s)
    BY <1>0, <1>f, NullFields DEF IntentOK
  <2> QED BY <1>2, <1>f, <2>1, IntentQuiet
<1>3. CASE pass'[c] # Idle
  <2> DEFINE next == [Idle EXCEPT !.pc = FirstCall(cr[c], q), !.cr = cr[c], !.pod = q]
  <2>1. next.pc = FirstCall(cr[c], q) /\ next.cr = cr[c] /\ next.pod = q
    BY DEF Idle
  <2>2. pass'[c] = next /\ cr[c].at = "present"
    BY <1>1, <1>3, <1>f, <1>t DEF Reconcile, HInv, PassType
  <2>3. /\ FirstCall(cr[c], q) \in {"addFinalizer", "markPending", "lock"}
        /\ FirstCall(cr[c], q) = "markPending" => q.at = "absent" \/ ~q.named
        /\ FirstCall(cr[c], q) = "lock" => q.named
    BY <2>2 DEF FirstCall
  <2> HIDE DEF next, q, s, pt
  <2>4. FirstCall(cr[c], q) = "markPending" => ~q.hib /\ s = "off"
    BY <1>0, <2>3 DEF SleepOK
  <2>5. /\ q.hib /\ q.state = "hibernated" => s = "asleep"
        /\ ~q.hib /\ q.live => s = "running"
    BY <1>0 DEF SleepOK
  <2>6. IntentOK(pt, cr[c], pass'[c], q, s)
    BY <1>1, <2>1, <2>2, <2>3, <2>4, <2>5 DEF IntentOK
  <2> QED BY <1>f, <2>6, IntentQuiet DEF q, s, pt
<1> QED BY <1>2, <1>3

(* lockVM chooses a branch on what the pass has read. *)
LEMMA LockIntent ==
    ASSUME HInv, CopyInv, IntentInv, Careful', left'.patient = left.patient,
           NEW c \in CRs, lockVM(c)
    PROVE  IntentInv'
<1> DEFINE p == IF HibernateBranch(pass[c].cr) THEN "hibPatch" ELSE "wakePatch"
           next == [pass[c] EXCEPT !.pc = p]
<1>0. IntentOK(left.patient, cr[c], pass[c], pod[VM(c)], vk[VM(c)]) /\ pass[c].pc = "lock"
  BY IntentOf DEF lockVM
<1>1. UNCHANGED <<cr, pod, tag, vk>> /\ pass' = [pass EXCEPT ![c] = next]
  BY DEF lockVM, clusterVars
<1>2. next.pc = p /\ next.cr = pass[c].cr /\ next.pod = pass[c].pod
  BY InHandType DEF Passes
<1> HIDE DEF next
<1>3. pass'[c] = next /\ \A d \in CRs \ {c} : pass'[d] = pass[d]
  BY <1>1 DEF HInv, PassType
<1>4. IntentOK(left.patient, cr'[c], pass'[c], pod[VM(c)], vk[VM(c)])
  BY <1>0, <1>1, <1>2, <1>3 DEF IntentOK
<1> QED BY <1>1, <1>3, <1>4, IntentQuiet

(* A status write. *)
LEMMA WriteIntent ==
    ASSUME HInv, CopyInv, IntentInv, Careful', left'.patient = left.patient,
           NEW c \in CRs, markPending(c) \/ setPhase(c)
    PROVE  IntentInv'
<1> DEFINE q == pod[VM(c)]
           s == vk[VM(c)]
           pt == left.patient
<1>0. IntentOK(pt, cr[c], pass[c], q, s) /\ CopyOK(cr[c], pass[c])
  BY IntentOf
<1>f. /\ \A d \in CRs \ {c} : cr'[d] = cr[d] /\ pass'[d] = pass[d]
      /\ UNCHANGED <<pod, tag, vk>>
  BY SetPhaseEffect, PendingEffect DEF Writes, markPending, setPhase, clusterVars
<1>1. CASE markPending(c)
  <2>1. pass[c].pc = "markPending" /\ pass'[c] = Idle
    BY <1>1, PendingEffect DEF markPending
  <2>2. ~q.hib /\ s \in {"off", "running"}
    BY <1>0, <2>1 DEF IntentOK
  <2>3. CASE UNCHANGED cr
    <3>1. IntentOK(pt, cr'[c], pass'[c], q, s)
      BY <1>0, <2>1, <2>3, NullFields DEF IntentOK
    <3> QED BY <1>f, <3>1, IntentQuiet
  <2>4. CASE Writes(c, "Pending")
    <3>1. cr'[c].at = cr[c].at /\ cr'[c].phase = "Pending"
      BY <2>4 DEF Writes
    <3>2. Coherent(pt, cr'[c].desire, cr'[c].phase, q.hib, s)
      BY <2>2, <3>1 DEF Coherent
    <3>3. IntentOK(pt, cr'[c], pass'[c], q, s)
      BY <1>0, <2>1, <2>2, <3>1, <3>2, NullFields DEF IntentOK
    <3> QED BY <1>f, <3>3, IntentQuiet
  <2> QED BY <1>1, <2>3, <2>4, PendingEffect
<1>2. CASE setPhase(c)
  <2>1. /\ pass[c].pc = "setPhase" /\ Writes(c, pass[c].to)
        /\ pass'[c] = Idle \/ (pass[c].then = "drop" /\ pass'[c].pc = "drop")
    BY <1>2, SetPhaseEffect DEF setPhase
  <2>2. cr'[c].at = cr[c].at /\ cr'[c].desire = cr[c].desire /\ cr'[c].phase = pass[c].to
    BY <2>1 DEF Writes
  <2>3. Coherent(pt, cr'[c].desire, cr'[c].phase, q.hib, s)
    BY <1>0, <2>1, <2>2 DEF IntentOK
  <2>4. pass[c].then = "drop" => s = "running" /\ ~q.hib
    BY <1>0, <2>1 DEF IntentOK
  <2>5. IntentOK(pt, cr'[c], pass'[c], q, s)
    BY <1>0, <2>1, <2>2, <2>3, <2>4, NullFields DEF IntentOK
  <2> QED BY <1>f, <2>5, IntentQuiet
<1> QED BY <1>1, <1>2

(* The steps that end a pass: a failed call leaves the desire to remember the rest. *)
LEMMA EndIntent ==
    ASSUME HInv, CopyInv, IntentInv, Careful', left'.patient = left.patient, SoleCRs,
           NEW c \in CRs, AddFinalizer(c) \/ DeleteManifestIfPresent(c) \/ CallFails(c)
    PROVE  IntentInv'
<1> DEFINE q == pod[VM(c)]
           s == vk[VM(c)]
           pt == left.patient
<1>0. IntentOK(pt, cr[c], pass[c], q, s) /\ SleepOK(q, tag[VM(c)], s) /\ cr[c] \in CRRecords
  BY IntentOf, InHandType
<1>f. /\ \A d \in CRs \ {c} : cr'[d] = cr[d] /\ pass'[d] = pass[d]
      /\ UNCHANGED <<pod, vk>> /\ pass'[c] = Idle
  BY EndEffect DEF AddFinalizer, DeleteManifestIfPresent, CallFails, clusterVars
<1>1. CASE AddFinalizer(c)
  <2>1. /\ pass[c].pc = "addFinalizer" /\ UNCHANGED tag
        /\ cr'[c] \in {cr[c], [cr[c] EXCEPT !.fin = TRUE]}
    BY <1>1 DEF AddFinalizer, clusterVars, HInv, CRType
  <2>2. cr'[c].at = cr[c].at /\ cr'[c].desire = cr[c].desire /\ cr'[c].phase = cr[c].phase
    BY <1>0, <2>1 DEF CRRecords
  <2>3. IntentOK(pt, cr'[c], pass'[c], q, s)
    BY <1>0, <1>f, <2>1, <2>2, NullFields DEF IntentOK
  <2> QED BY <1>f, <2>1, <2>3, IntentQuiet
<1>2. CASE DeleteManifestIfPresent(c)
  <2>1. /\ pass[c].pc = "drop" /\ UNCHANGED cr /\ tag'[VM(c)] = "none" /\ VM(c) \in VMs
        /\ \A w \in VMs \ {VM(c)} : tag'[w] = tag[w]
    BY <1>2, StripeType DEF DeleteManifestIfPresent, HInv, ClusterTypeOK
  <2>2. s = "running"
    BY <1>0, <2>1 DEF IntentOK
  <2>3. SleepOK(q, tag'[VM(c)], s)
    BY <1>0, <2>1, <2>2 DEF SleepOK
  <2>4. IntentOK(pt, cr'[c], pass'[c], q, s)
    BY <1>0, <1>f, <2>1, NullFields DEF IntentOK
  <2> QED BY <1>f, <2>1, <2>3, <2>4, IntentOne
<1>3. CASE CallFails(c)
  <2>1. faults > 0 /\ UNCHANGED <<cr, tag>>
    BY <1>3 DEF CallFails
  <2>2. pt
    BY <2>1 DEF IntentInv, Careful
  <2>3. IntentOK(pt, cr'[c], pass'[c], q, s)
    BY <1>0, <1>f, <2>1, <2>2, NullFields DEF IntentOK
  <2> QED BY <1>f, <2>1, <2>3, IntentQuiet
<1> QED BY <1>1, <1>2, <1>3

(* A restart, which only a patient user meets. *)
LEMMA RestartIntent ==
    ASSUME HInv, IntentInv, Careful', left'.patient = left.patient, Restart
    PROVE  IntentInv'
<1>1. faults > 0 /\ UNCHANGED <<cr, pod, tag, vk>> /\ \A c \in CRs : pass'[c] = Idle
  BY DEF Restart
<1>2. left.patient
  BY <1>1 DEF IntentInv, Careful
<1>3. ASSUME NEW c \in CRs
      PROVE  IntentOK(left.patient, cr[c], Idle, pod[VM(c)], vk[VM(c)])
  BY <1>2, NullFields DEF IntentInv, IntentOK
<1> QED BY <1>1, <1>3 DEF IntentInv, VM

(* The user creates a CR, or edits its desire: a patient one once the last is met. *)
LEMMA UserIntent ==
    ASSUME HInv, CopyInv, IntentInv, Careful', left'.patient = left.patient,
           NEW c \in CRs, CreateCR(c) \/ EditDesire(c)
    PROVE  IntentInv'
<1> DEFINE q == pod[VM(c)]
           s == vk[VM(c)]
           pt == left.patient
           a == pass[c]
<1>0. IntentOK(pt, cr[c], a, q, s) /\ CopyOK(cr[c], a)
  BY IntentOf
<1>t. /\ pt \in BOOLEAN /\ s \in VkStates /\ q.hib \in BOOLEAN
      /\ cr[c].desire \in {"Hibernate", "Wake"} /\ a.cr.desire \in {"Hibernate", "Wake"}
      /\ Desires[c] \subseteq {"Hibernate", "Wake"}
  BY IntentTypes, HibernationAssumption
<1>f. /\ \A d \in CRs \ {c} : cr'[d] = cr[d]
      /\ UNCHANGED <<pod, tag, vk, pass>>
  BY UserEffect DEF CreateCR, EditDesire, clusterVars
<1>1. CASE CreateCR(c)
  <2>1. PICK d \in Desires[c] :
          cr' = [cr EXCEPT ![c] = [NoRecord EXCEPT !.at = "present", !.desire = d, !.gen = 1]]
    BY <1>1 DEF CreateCR
  <2>2. LET h == [NoRecord EXCEPT !.at = "present", !.desire = d, !.gen = 1]
        IN  h.at = "present" /\ h.phase = ""
    BY DEF NoRecord
  <2>3. cr[c].at = "absent" /\ cr'[c].at = "present" /\ cr'[c].phase = ""
    BY <1>1, <2>1, <2>2 DEF CreateCR, HInv, CRType
  <2>4. a.pc \in {"idle", "addFinalizer"} /\ ~q.hib /\ s \in {"off", "running"}
    BY <1>0, <2>3 DEF CopyOK, IntentOK
  <2>5. Coherent(pt, cr'[c].desire, cr'[c].phase, q.hib, s)
    BY <2>3, <2>4 DEF Coherent
  <2>6. IntentOK(pt, cr'[c], a, q, s)
    BY <2>3, <2>4, <2>5 DEF IntentOK
  <2> QED BY <1>f, <2>6, IntentQuiet
<1>2. CASE EditDesire(c)
  <2>1. PICK d \in Desires[c] \ {cr[c].desire} :
          cr' = [cr EXCEPT ![c] = [cr[c] EXCEPT !.desire = d, !.gen = cr[c].gen + 1]]
    BY <1>2 DEF EditDesire
  <2>2. /\ cr[c].at = "present" /\ cr'[c].at = "present" /\ cr'[c].desire = d
        /\ cr'[c].phase = cr[c].phase
    <3>1. cr'[c] = [cr[c] EXCEPT !.desire = d, !.gen = cr[c].gen + 1] /\ cr[c] \in CRRecords
      BY <2>1 DEF HInv, CRType
    <3> QED BY <1>2, <3>1 DEF EditDesire, CRRecords
  <2>3. pt => cr[c].phase = TerminalPhase(cr[c].desire)
    BY <1>2 DEF EditDesire
  <2>4. a.pc \notin {"idle", "addFinalizer", "drop"} => cr[c].phase = a.cr.phase
    BY <1>0 DEF CopyOK, Status
  <2> HIDE DEF q, s, pt, a
  <2>5. CASE ~pt
    <3>1. ASSUME NEW ph, Coherent(pt, cr[c].desire, ph, q.hib, s)
          PROVE  Coherent(pt, d, ph, q.hib, s)
      BY <2>5, <3>1 DEF Coherent, Asked
    <3>2. IntentOK(pt, cr'[c], a, q, s)
      BY <1>0, <2>2, <2>5, <3>1 DEF IntentOK
    <3> QED BY <1>f, <3>2, IntentQuiet DEF q, s, pt, a
  <2>6. CASE pt
    <3>1. Coherent(pt, cr[c].desire, cr[c].phase, q.hib, s)
      BY <1>0, <2>6 DEF IntentOK
    <3>2. \/ cr[c].desire = "Hibernate" /\ d = "Wake" /\ q.hib /\ s = "asleep"
             /\ cr[c].phase = "Hibernated"
          \/ cr[c].desire = "Wake" /\ d = "Hibernate" /\ ~q.hib /\ s \notin {"asleep", "waking"}
             /\ cr[c].phase = "Active"
      BY <1>t, <2>1, <2>3, <2>6, <3>1 DEF Coherent, Asked, TerminalPhase
    <3>3. Coherent(pt, d, cr[c].phase, q.hib, s)
      BY <2>6, <3>2 DEF Coherent, Asked
    <3>4. a.pc = "setPhase" => Coherent(pt, d, a.to, q.hib, s)
      BY <1>0, <2>6, <3>2 DEF IntentOK, Coherent, Asked
    <3>5. a.pc \in {"lock", "hibPatch", "wakePatch"} =>
            d = a.cr.desire \/ a.cr.phase = TerminalPhase(a.cr.desire)
      BY <1>t, <2>4, <3>2 DEF TerminalPhase
    <3>6. IntentOK(pt, cr'[c], a, q, s)
      BY <1>0, <2>2, <3>3, <3>4, <3>5 DEF IntentOK
    <3> QED BY <1>f, <3>6, IntentQuiet DEF q, s, pt, a
  <2> QED BY <1>t, <2>5, <2>6
<1> QED BY <1>1, <1>2

(* Every step keeps the intent. *)
LEMMA IntentStep ==
    ASSUME HInv, CopyInv, IntentInv, CacheLag = FALSE, SoleCRs, [Next]_vars
    PROVE  IntentInv'
<1>0. Careful' /\ left'.patient = left.patient
  BY CarefulStep DEF IntentInv
<1>1. ASSUME NEW c \in CRs,
             deleteLockVM(c) \/ listHolders(c) \/ deleteHeldTag(c) \/ RemoveFinalizer(c)
      PROVE  FALSE
  <2>1. pass[c].pc \in Deletion
    BY <1>1 DEF deleteLockVM, listHolders, deleteHeldTag, RemoveFinalizer, Deletion
  <2> QED BY <2>1, IntentOf DEF CopyOK, IntentOK
<1>2. ASSUME NEW c \in CRs PROVE ~DeleteCR(c)
  BY DEF DeleteCR, Spend, IntentInv, Careful
<1>3. ASSUME UNCHANGED <<cr, pass, pod, tag, vk>> PROVE IntentInv'
  BY <1>0, <1>3 DEF IntentInv, VM
<1>4. ASSUME \/ \E c \in CRs : SyncCR(c) \/ DeadlinePasses(c)
             \/ \E v \in VMs : SyncPod(v)
             \/ EditSet \/ UNCHANGED vars
      PROVE  UNCHANGED <<cr, pass, pod, tag, vk>>
  BY <1>4 DEF SyncCR, DeadlinePasses, SyncPod, EditSet, EnvStep, passVars, vars, clusterVars
<1>5. ASSUME NEW c \in CRs,
             \/ Reconcile(c) \/ AddFinalizer(c) \/ markPending(c) \/ lockVM(c) \/ setPhase(c)
             \/ reconcileHibernate(c) \/ HasHibernateSnapshot(c) \/ reconcileWake(c)
             \/ DeleteManifestIfPresent(c) \/ CallFails(c) \/ CreateCR(c) \/ EditDesire(c)
      PROVE  IntentInv'
  BY <1>0, <1>5, StartIntent, EndIntent, WriteIntent, LockIntent, HibernateIntent, ProbeIntent,
     WakeIntent, UserIntent
<1>6. ASSUME NEW v \in VMs,
             VkActs(v) \/ VkFails(v) \/ syncCocoonSetGeneration(v) \/ CreatePod(v)
      PROVE  IntentInv'
  BY <1>0, <1>6, VMStep
<1>7. CASE Restart
  BY <1>0, <1>7, RestartIntent
<1> QED BY <1>1, <1>2, <1>3, <1>4, <1>5, <1>6, <1>7 DEF Next, PassStep

(* Either the user waits for each transition to end, or nothing fails and no deadline
   passes: the two kinds of behaviour in which the phase serializes reversals. *)
CarefulRegimes == \A r \in Regimes : r.patient \/ (r.faults = 0 /\ r.timeouts = 0)

LEMMA IntentInit ==
    ASSUME MaxDeletes = 0, CarefulRegimes, Init PROVE CopyInv /\ IntentInv
<1>1. PICK r \in Regimes :
        /\ IF r.booted THEN ClusterInit ELSE NotBooted(NoPod)
        /\ faults = r.faults
        /\ left = [flips |-> r.flips, timeouts |-> r.timeouts,
                   deletes |-> MaxDeletes, patient |-> r.patient]
  BY DEF Init
<1>2. Careful
  <2>1. left.deletes = 0 /\ left.patient = r.patient /\ left.timeouts = r.timeouts
    BY <1>1
  <2>2. \A c \in CRs : expired[c] = 0
    BY DEF Init
  <2> QED BY <1>1, <2>1, <2>2 DEF Careful, CarefulRegimes
<1>3. ASSUME NEW v \in VMs
      PROVE  SleepOK(pod[v], tag[v], vk[v]) /\ ~pod[v].hib /\ vk[v] \in {"off", "running"}
  <2>1. CASE ClusterInit
    <3>1. LET q == [NewPod(TRUE, FALSE, 1) EXCEPT !.state = "ready", !.obs = 1, !.live = TRUE]
          IN  /\ q.at = "present" /\ q.named /\ ~q.restore /\ ~q.hib /\ q.state = "ready" /\ q.live
      BY DEF NewPod, NoPod
    <3>2. /\ pod[v] = [NewPod(TRUE, FALSE, 1) EXCEPT !.state = "ready", !.obs = 1, !.live = TRUE]
          /\ tag[v] = "none" /\ vk[v] = "running"
      BY <2>1 DEF ClusterInit
    <3> QED BY <3>1, <3>2 DEF SleepOK
  <2>2. CASE NotBooted(NoPod)
    <3>1. /\ NoPod.at = "absent" /\ ~NoPod.named /\ ~NoPod.restore /\ ~NoPod.hib
          /\ NoPod.state = "none" /\ ~NoPod.live
      BY DEF NoPod
    <3>2. pod[v] = NoPod /\ tag[v] = "none" /\ vk[v] = "off"
      BY <2>2 DEF NotBooted
    <3> QED BY <3>1, <3>2 DEF SleepOK
  <2> QED BY <1>1, <2>1, <2>2
<1>4. ASSUME NEW c \in CRs
      PROVE  /\ CopyOK(cr[c], pass[c])
             /\ IntentOK(left.patient, cr[c], pass[c], pod[VM(c)], vk[VM(c)])
  <2>1. cr[c] = NoRecord /\ pass[c] = Idle /\ VM(c) \in VMs
    BY StripeType DEF Init
  <2>2. CopyOK(NoRecord, Idle)
    BY NullFields, CopyIdle
  <2>3. ~pod[VM(c)].hib /\ vk[VM(c)] \in {"off", "running"}
    BY <1>3, <2>1
  <2>4. Coherent(left.patient, NoRecord.desire, NoRecord.phase, pod[VM(c)].hib, vk[VM(c)])
    BY <2>3, NullFields DEF Coherent
  <2> QED BY <2>1, <2>2, <2>3, <2>4, NullFields DEF IntentOK
<1> QED BY <1>2, <1>3, <1>4 DEF CopyInv, IntentInv

(* A CR settles Hibernated only on a snapshot that holds the VM's latest state, for any
   number of CRs of different VMs (hibernation/hibernate.go: vk's completion signal, read
   on a pod whose annotation this round set, before the probe).  The user edits a desire
   only once the last is met, whatever fails or times out, or edits at any time while
   nothing does; nothing is deleted, and the informer cache has caught up. *)
THEOREM SettlesOnFreshSnapshot ==
    ASSUME CacheLag = FALSE, MaxDeletes = 0, SoleCRs, CarefulRegimes
    PROVE  Spec => HibernatedOnFreshSnapshot
<1> DEFINE Inv == HInv /\ CopyInv /\ IntentInv
<1>1. Init => Inv
  BY HInvInit, IntentInit
<1>2. Inv /\ [Next]_vars => Inv'
  BY HInvStep, CopyStep, IntentStep
<1>3. Inv /\ Inv' /\ [Next]_vars =>
        [\A c \in CRs : cr[c].phase # "Hibernated" /\ cr'[c].phase = "Hibernated"
                         => tag[VM(c)] = "fresh"]_vars
  <2> SUFFICES ASSUME Inv, Inv', [Next]_vars, NEW c \in CRs,
                      cr[c].phase # "Hibernated", cr'[c].phase = "Hibernated"
               PROVE  tag[VM(c)] = "fresh"
    OBVIOUS
  <2>1. cr'[c].at # "deleting" /\ (cr'[c].at = "absent" => cr'[c] = NoRecord)
    BY DEF CopyInv, CopyOK, IntentInv, IntentOK
  <2>2. cr'[c].at = "present"
    <3>1. cr'[c] \in CRRecords
      BY DEF HInv, CRType
    <3>2. cr'[c].at \in {"absent", "present", "deleting"}
      BY <3>1 DEF CRRecords
    <3> QED BY <2>1, <3>2, NullFields
  <2>3. setPhase(c) /\ pass[c].to = "Hibernated"
    BY <2>2, TaggedStep DEF Tagged
  <2>4. vk[VM(c)] = "asleep"
    BY <2>3, IntentOf DEF IntentOK, setPhase
  <2> QED BY <2>4, IntentOf DEF SleepOK
<1> QED BY <1>1, <1>2, <1>3, PTL DEF Spec, HibernatedOnFreshSnapshot

(* A wake drops the tag only once the VM has run past it (hibernation/wake.go: meta.VMLive
   on the pod the annotation patch answered with), under the same assumptions. *)
THEOREM WakesDropOnlySpent ==
    ASSUME CacheLag = FALSE, MaxDeletes = 0, SoleCRs, CarefulRegimes
    PROVE  Spec => WakeDropsOnlySpent
<1> DEFINE Inv == HInv /\ CopyInv /\ IntentInv
<1>1. Init => Inv
  BY HInvInit, IntentInit
<1>2. Inv /\ [Next]_vars => Inv'
  BY HInvStep, CopyStep, IntentStep
<1>3. Inv /\ [Next]_vars =>
        [\A v \in VMs : tag[v] = "fresh" /\ tag'[v] = "none"
                         => \E c \in CRs : VM(c) = v /\ pass[c].pc = "delTag"]_vars
  <2> SUFFICES ASSUME Inv, [Next]_vars, NEW v \in VMs, tag[v] = "fresh", tag'[v] = "none"
               PROVE  \E c \in CRs : VM(c) = v /\ pass[c].pc = "delTag"
    OBVIOUS
  <2>1. PICK c \in CRs : VM(c) = v /\ pass[c].pc \in {"delTag", "drop"}
    BY TagLoss
  <2>2. pass[c].pc # "drop"
    BY <2>1, IntentOf DEF IntentOK, SleepOK
  <2> QED BY <2>1, <2>2
<1> QED BY <1>1, <1>2, <1>3, PTL DEF Spec, WakeDropsOnlySpent
=============================================================================
