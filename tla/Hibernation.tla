---------------------------- MODULE Hibernation ----------------------------
(* The CocoonHibernation reconciler: hibernation/reconciler.go, hibernate.go and
   wake.go, with the podpatch and snapshot helpers they call.

   A reconcile pass is a small process.  It reads its CR and its pod once, from
   the informer cache, keeps both as its view, and then takes one step per call
   to the API server or the registry, so other passes, vk-cocoon, the CocoonSet
   reconciler and the user act between any two of its calls.  Code between two
   calls is local and belongs to the step of the call before it.

   Simplifications:
     - podRef is immutable and spec.desire is Hibernate or Wake, as the CRD has it;
     - LastTransitionTime is an epoch: every refresh takes a later one, and
       expired[c] is the latest epoch whose deadline has passed;
     - RequeueAfter and the error backoff put the CR back in the queue without
       the delay;
     - DeleteManifestIfPresent is one step: it takes effect at its probe when there is no
       tag, else at its delete;
     - event texts and condition messages are left out.  What remains of an event
       is the phase-exit observation that announcePhaseExitf guards. *)
EXTENDS Cluster, FiniteSets

CONSTANTS CRs,          \* CocoonHibernation resources
          PodRef,       \* PodRef[c]: the pod, hence the VM, c targets
          Stripe,       \* Stripe[v]: the entry of vmLocks that v hashes to
          Desires,      \* Desires[c]: the values the user gives spec.desire
          CacheLag,     \* may a pass read the informer cache before it has caught up?
          Faults,       \* which calls fail: subset of {"api", "registry", "crash"}
          MaxFlips,     \* bound on spec.desire edits
          MaxTimeouts,  \* bound on expired deadlines
          MaxDeletes,   \* bound on CR deletions
          MaxEpochs,    \* bound on refreshes of a CR's LastTransitionTime
          Regimes,      \* what may happen in one behaviour, below
          NoCR

ASSUME HibernationAssumption ==
    /\ PodRef \in [CRs -> VMs]
    /\ DOMAIN Stripe = VMs
    /\ Desires \in [CRs -> SUBSET {"Hibernate", "Wake"}]
    /\ CacheLag \in BOOLEAN
    /\ Faults \subseteq {"api", "registry", "crash"}
    /\ MaxFlips \in Nat /\ MaxTimeouts \in Nat
    /\ MaxDeletes \in Nat /\ MaxEpochs \in Nat
    /\ NoCR \notin CRs
    /\ Regimes \subseteq [patient : BOOLEAN, faults : 0..MaxFaults, flips : 0..MaxFlips,
                          timeouts : 0..MaxTimeouts, booted : BOOLEAN]

VARIABLES cr,           \* cr[c]: the CR as the API server holds it
          crCache,      \* the informer's copy of it
          podCache,     \* the informer's copy of each pod
          queue,        \* queue[c]: the work queue holds c
          pass,         \* pass[c]: c's reconcile pass
          lock,         \* lock[s]: the CR whose pass holds stripe s of vmLocks
          observed,     \* observed[c]: Reconciler.observed, 0 when absent
          now,          \* now[c]: the next LastTransitionTime of c
          expired,      \* expired[c]: every epoch up to it is past its deadline
          setGen,       \* the CocoonSet's metadata.generation
          left,         \* edits, timeouts and deletions still allowed; does the user
                        \* edit spec.desire only once the last edit settled?
          exits,        \* exits[c]: phase exits observed (history)
          entries       \* entries[c]: in-flight phases entered (history)

envVars == <<now, expired, setGen, left>>
passVars == <<queue, pass, lock, observed, exits, entries>>
vars == <<clusterVars, cr, crCache, podCache, passVars, envVars>>

InFlight == {"Hibernating", "Waking"}
Phases == {"", "Pending", "Failed", "Hibernated", "Active"} \cup InFlight

(* vmName says whether Status.VMName is written: it can only name the VM of podRef. *)
CRRecords == [at      : {"absent", "present", "deleting"},
              fin     : BOOLEAN,
              desire  : {"Hibernate", "Wake"},
              gen     : Nat,
              phase   : Phases,
              obsGen  : Nat,
              vmName  : BOOLEAN,
              ltt     : Nat]        \* Ready.LastTransitionTime, 0 without a condition

NoRecord == [at |-> "absent", fin |-> FALSE, desire |-> "Wake", gen |-> 0, phase |-> "",
             obsGen |-> 0, vmName |-> FALSE, ltt |-> 0]

Locked == {"hibPatch", "hibProbe", "wakePatch", "setPhase", "drop", "delList", "delTag"}
PCs == {"idle", "addFinalizer", "markPending", "lock", "delLock", "delFinalizer"} \cup Locked

(* to and then: the phase setPhase or markFailed writes, and what the pass does
   after it: return, requeue, return an error, or drop the tag. *)
Passes == [pc : PCs, cr : CRRecords, pod : Pods, to : Phases,
           then : {"done", "requeue", "drop"}]

Idle == [pc |-> "idle", cr |-> NoRecord, pod |-> NoPod, to |-> "", then |-> "done"]

VM(c) == PodRef[c]
StripeOf(c) == Stripe[VM(c)]

-----------------------------------------------------------------------------
(* reconciler.go: status helpers *)

Ready(phase) == CASE phase \in {"Hibernated", "Active"} -> "True"
                  [] phase = ""                         -> "none"
                  [] OTHER                              -> "False"

SetByPhase == {"Hibernated", "Active"} \cup InFlight

(* The status setPhase, or patchNotReady for Pending and Failed, computes from the
   pass's copy h: SetStatusCondition moves the transition time when Ready flips,
   refreshDeadline moves it on entry into an in-flight phase. *)
NewStatus(h, to, t) ==
    [h EXCEPT !.phase = to, !.obsGen = h.gen,
              !.vmName = @ \/ to \in SetByPhase,
              !.ltt = IF Ready(h.phase) # Ready(to) \/ (h.phase # to /\ to \in InFlight)
                        THEN t ELSE @]

(* A merge patch carries what differs from the pass's copy; the conditions travel
   as one list. *)
MergePatch(server, h, n) ==
    [server EXCEPT
        !.phase  = IF n.phase # h.phase THEN n.phase ELSE @,
        !.obsGen = IF n.obsGen # h.obsGen THEN n.obsGen ELSE @,
        !.vmName = IF n.vmName # h.vmName THEN n.vmName ELSE @,
        !.ltt    = IF <<n.phase, n.obsGen, n.ltt>> # <<h.phase, h.obsGen, h.ltt>>
                     THEN n.ltt ELSE @]

setPhaseIsNoop(h, to) ==
    to \in SetByPhase /\ h.phase = to /\ h.vmName /\ h.obsGen = h.gen

(* Mutant: Pending overwrites a settled or waking CR. *)
markPendingDemotes(h) == h.phase = "Pending" /\ h.obsGen = h.gen

markPendingIsNoop(h) ==
    \/ h.phase \in {"Hibernated", "Waking"}
    \/ h.phase = "Pending" /\ h.obsGen = h.gen

phaseDeadlineExceeded(c, h, phase) ==
    h.phase = phase /\ h.ltt # 0 /\ h.ltt <= expired[c]

(* Mutant: every pass announces. *)
announceAlways(c, h) == h.ltt # 0

firstTransitionAt(c, h) == h.ltt # 0 /\ h.ltt > observed[c]

(* announcePhaseExitf: observe the exit of an in-flight phase once per epoch. *)
Announce(c, h) ==
    /\ observed' = [observed EXCEPT ![c] = IF firstTransitionAt(c, h) THEN h.ltt ELSE @]
    /\ exits' = [exits EXCEPT ![c] = IF firstTransitionAt(c, h) /\ h.phase \in InFlight
                                       THEN @ + 1 ELSE @]

Quiet == UNCHANGED <<observed, exits>>

TypeOK ==
    /\ ClusterTypeOK
    /\ cr \in [CRs -> CRRecords] /\ crCache \in [CRs -> CRRecords]
    /\ podCache \in [VMs -> Pods]
    /\ queue \in [CRs -> BOOLEAN]
    /\ pass \in [CRs -> Passes]
    /\ lock \in [{Stripe[v] : v \in VMs} -> CRs \cup {NoCR}]
    /\ observed \in [CRs -> Nat] /\ now \in [CRs -> Nat \ {0}] /\ expired \in [CRs -> Nat]
    /\ setGen \in Generations
    /\ left \in [flips : 0..MaxFlips, timeouts : 0..MaxTimeouts,
                 deletes : 0..MaxDeletes, patient : BOOLEAN]
    /\ exits \in [CRs -> Nat] /\ entries \in [CRs -> Nat]

Init ==
    /\ cr = [c \in CRs |-> NoRecord] /\ crCache = cr
    /\ queue = [c \in CRs |-> FALSE]
    /\ pass = [c \in CRs |-> Idle]
    /\ lock = [s \in {Stripe[v] : v \in VMs} |-> NoCR]
    /\ observed = [c \in CRs |-> 0]
    /\ now = [c \in CRs |-> 1] /\ expired = [c \in CRs |-> 0]
    /\ setGen = 1
    /\ \E r \in Regimes :
         /\ IF r.booted THEN ClusterInit ELSE NotBooted(NoPod)
         /\ faults = r.faults
         /\ left = [flips |-> r.flips, timeouts |-> r.timeouts,
                    deletes |-> MaxDeletes, patient |-> r.patient]
    /\ podCache = pod
    /\ exits = [c \in CRs |-> 0] /\ entries = [c \in CRs |-> 0]

-----------------------------------------------------------------------------
(* Control of a pass *)

Unlock(c) == lock' = [s \in DOMAIN lock |-> IF lock[s] = c THEN NoCR ELSE lock[s]]

(* Return from Reconcile; again is a RequeueAfter or an error's backoff. *)
Return(c, again) ==
    /\ pass' = [pass EXCEPT ![c] = Idle]
    /\ Unlock(c)
    /\ queue' = [queue EXCEPT ![c] = @ \/ again]

Goto(c, next) ==
    /\ pass' = [pass EXCEPT ![c] = next]
    /\ UNCHANGED <<lock, queue>>

Writing(view, to, then) == [view EXCEPT !.pc = "setPhase", !.to = to, !.then = then]

(* Reconcile up to its first call. *)
FirstCall(h, p) ==
    CASE h.at = "deleting" -> IF h.vmName THEN "delLock" ELSE "delFinalizer"
      [] h.at = "present" /\ ~h.fin -> "addFinalizer"
      [] h.at = "present" /\ h.fin /\ (p.at = "absent" \/ ~p.named) -> "markPending"
      [] OTHER -> "lock"

CaughtUp(c) == CacheLag \/ (crCache[c] = cr[c] /\ podCache[VM(c)] = pod[VM(c)])

Reconcile(c) ==
    /\ queue[c] /\ pass[c] = Idle /\ CaughtUp(c) /\ now[c] <= MaxEpochs
    /\ queue' = [queue EXCEPT ![c] = FALSE]
    /\ pass' = [pass EXCEPT ![c] =
         IF crCache[c].at = "absent" THEN Idle
         ELSE [Idle EXCEPT !.pc = FirstCall(crCache[c], podCache[VM(c)]),
                           !.cr = crCache[c], !.pod = podCache[VM(c)]]]
    /\ UNCHANGED <<clusterVars, cr, crCache, podCache, lock, observed, exits, entries, envVars>>

(* Update carries the resourceVersion, so it conflicts when the CR has moved on. *)
AddFinalizer(c) ==
    /\ pass[c].pc = "addFinalizer"
    /\ cr' = [cr EXCEPT ![c] = IF @ = pass[c].cr THEN [@ EXCEPT !.fin = TRUE] ELSE @]
    /\ Return(c, TRUE)
    /\ UNCHANGED <<clusterVars, crCache, podCache, observed, exits, entries, envVars>>

(* What a status patch leaves: a CR that is gone fails it. *)
WriteStatus(c, to) ==
    LET h == pass[c].cr
        n == NewStatus(h, to, now[c]) IN
    /\ cr' = [cr EXCEPT ![c] = IF @.at = "absent" THEN @ ELSE MergePatch(@, h, n)]
    /\ now' = [now EXCEPT ![c] = IF n.ltt # h.ltt THEN @ + 1 ELSE @]
    /\ entries' = [entries EXCEPT ![c] = IF to \in InFlight /\ h.phase # to THEN @ + 1 ELSE @]

NoWrite == UNCHANGED <<cr, now, entries>>

markPending(c) ==
    /\ pass[c].pc = "markPending"
    /\ IF markPendingIsNoop(pass[c].cr) THEN NoWrite ELSE WriteStatus(c, "Pending")
    /\ Return(c, TRUE)
    /\ UNCHANGED <<clusterVars, crCache, podCache, observed, exits, expired, setGen, left>>

(* Mutant: Hibernate is acted on while a wake is in flight. *)
HibernateAtOnce(h) == h.desire = "Hibernate" \/ h.phase = "Hibernating"

(* Mutant: Wake is acted on while a hibernate is in flight. *)
WakeAtOnce(h) == h.desire = "Hibernate" /\ h.phase # "Waking"

(* lockVM, then the switch on desire: a reversed desire first follows the
   transition in flight. *)
HibernateBranch(h) ==
    \/ h.desire = "Hibernate" /\ h.phase # "Waking"
    \/ h.desire = "Wake" /\ h.phase = "Hibernating"

lockVM(c) ==
    /\ pass[c].pc = "lock" /\ lock[StripeOf(c)] = NoCR
    /\ lock' = [lock EXCEPT ![StripeOf(c)] = c]
    /\ pass' = [pass EXCEPT ![c].pc = IF HibernateBranch(pass[c].cr) THEN "hibPatch" ELSE "wakePatch"]
    /\ UNCHANGED <<clusterVars, cr, crCache, podCache, queue, observed, exits, entries, envVars>>

(* setPhase or markFailed, the last call of both branches but for the drop. *)
setPhase(c) ==
    LET noop == setPhaseIsNoop(pass[c].cr, pass[c].to) IN
    /\ pass[c].pc = "setPhase"
    /\ IF noop THEN NoWrite ELSE WriteStatus(c, pass[c].to)
    /\ IF pass[c].then = "drop" /\ (noop \/ cr[c].at # "absent")
         THEN Goto(c, [pass[c] EXCEPT !.pc = "drop"])
         ELSE Return(c, pass[c].then # "done" \/ (~noop /\ cr[c].at = "absent"))
    /\ UNCHANGED <<clusterVars, crCache, podCache, observed, exits, expired, setGen, left>>

-----------------------------------------------------------------------------
(* hibernate.go *)

(* podpatch.HibernateState short-circuits on the pass's copy; a patch answers
   with the pod as it then is. *)
Answer(c, want) ==
    IF pass[c].pod.hib = want THEN pass[c].pod ELSE [pod[VM(c)] EXCEPT !.hib = want]

HibernateState(c, want) ==
    pod' = IF pass[c].pod.hib = want THEN pod ELSE [pod EXCEPT ![VM(c)].hib = want]

PodGone(c, want) == pass[c].pod.hib # want /\ pod[VM(c)].at = "absent"

PollHibernate(c, view) ==
    IF phaseDeadlineExceeded(c, view.cr, "Hibernating")
    THEN Announce(c, view.cr) /\ Goto(c, Writing(view, "Failed", "done"))
    ELSE Quiet /\ Goto(c, Writing(view, "Hibernating", "requeue"))

(* Mutant: the probe alone decides, without vk's completion signal. *)
CompletedByProbe(p) == p.hib

Completed(p) == p.state = "hibernated" /\ p.obs >= p.gen

reconcileHibernate(c) ==
    /\ pass[c].pc = "hibPatch"
    /\ IF PodGone(c, TRUE) THEN Return(c, TRUE) /\ Quiet /\ UNCHANGED pod
       ELSE LET view == [pass[c] EXCEPT !.pod = Answer(c, TRUE)] IN
            /\ HibernateState(c, TRUE)
            /\ IF Completed(view.pod)
                 THEN Quiet /\ Goto(c, [view EXCEPT !.pc = "hibProbe"])
                 ELSE PollHibernate(c, view)
    /\ UNCHANGED <<tag, vk, vkGen, faults, cr, crCache, podCache, entries, envVars>>

(* HasHibernateSnapshot: the tag is there, is not, or the registry fails; a failed
   probe writes the same status as an absent tag and comes back through the backoff. *)
HasHibernateSnapshot(c) ==
    /\ pass[c].pc = "hibProbe"
    /\ \/ /\ tag[VM(c)] # "none"
          /\ Announce(c, pass[c].cr)
          /\ Goto(c, Writing(pass[c], "Hibernated", "done"))
          /\ UNCHANGED faults
       \/ /\ \/ tag[VM(c)] = "none" /\ UNCHANGED faults
             \/ "registry" \in Faults /\ faults > 0 /\ faults' = faults - 1
          /\ PollHibernate(c, pass[c])
    /\ UNCHANGED <<pod, tag, vk, vkGen, cr, crCache, podCache, entries, envVars>>

-----------------------------------------------------------------------------
(* wake.go *)

Settled(h) == h.phase = "Active" /\ h.obsGen = h.gen

(* Mutant: the desire is written where the phase belongs. *)
WriteDesire(c, view) == Quiet /\ Goto(c, Writing(view, view.cr.desire, "requeue"))

(* Mutant: the wake settles without waiting for a live VM. *)
WakeWithoutLive(c, view) == Announce(c, view.cr) /\ Goto(c, Writing(view, "Active", "drop"))

(* Mutant: a settled CR does not retry the drop. *)
SettledSkipsDrop(c, view) ==
    CASE Settled(view.cr) -> Quiet /\ Return(c, FALSE)
      [] view.pod.live /\ ~Settled(view.cr) ->
           Announce(c, view.cr) /\ Goto(c, Writing(view, "Active", "drop"))
      [] OTHER ->
           IF phaseDeadlineExceeded(c, view.cr, "Waking")
           THEN Announce(c, view.cr) /\ Goto(c, Writing(view, "Failed", "done"))
           ELSE Quiet /\ Goto(c, Writing(view, "Waking", "requeue"))

AfterWakePatch(c, view) ==
    CASE view.pod.live /\ Settled(view.cr) ->
           Quiet /\ Goto(c, [view EXCEPT !.pc = "drop"])
      [] view.pod.live /\ ~Settled(view.cr) ->
           Announce(c, view.cr) /\ Goto(c, Writing(view, "Active", "drop"))
      [] ~view.pod.live /\ Settled(view.cr) ->
           Quiet /\ Return(c, FALSE)
      [] OTHER ->
           IF phaseDeadlineExceeded(c, view.cr, "Waking")
           THEN Announce(c, view.cr) /\ Goto(c, Writing(view, "Failed", "done"))
           ELSE Quiet /\ Goto(c, Writing(view, "Waking", "requeue"))

reconcileWake(c) ==
    /\ pass[c].pc = "wakePatch"
    /\ CASE Settled(pass[c].cr) /\ pass[c].pod.hib ->
              Return(c, FALSE) /\ Quiet /\ UNCHANGED pod
         [] ~Settled(pass[c].cr) /\ PodGone(c, FALSE) ->
              Return(c, TRUE) /\ Quiet /\ UNCHANGED pod
         [] OTHER ->
              HibernateState(c, FALSE) /\ AfterWakePatch(c, [pass[c] EXCEPT !.pod = Answer(c, FALSE)])
    /\ UNCHANGED <<tag, vk, vkGen, faults, cr, crCache, podCache, entries, envVars>>

(* The last call of a wake; the registry acts on the tag as it then is. *)
DeleteManifestIfPresent(c) ==
    /\ pass[c].pc = "drop"
    /\ tag' = [tag EXCEPT ![VM(c)] = "none"]
    /\ Return(c, FALSE)
    /\ UNCHANGED <<pod, vk, vkGen, faults, cr, crCache, podCache, observed, exits, entries, envVars>>

-----------------------------------------------------------------------------
(* reconcileDelete *)

(* Mutant: reconcileDelete does not wait for the stripe. *)
deleteUnlocked(c) ==
    /\ pass[c].pc = "delLock"
    /\ lock' = [lock EXCEPT ![StripeOf(c)] = c]
    /\ pass' = [pass EXCEPT ![c].pc = "delList"]
    /\ UNCHANGED <<clusterVars, cr, crCache, podCache, queue, observed, exits, entries, envVars>>

deleteLockVM(c) ==
    /\ pass[c].pc = "delLock" /\ lock[StripeOf(c)] = NoCR
    /\ lock' = [lock EXCEPT ![StripeOf(c)] = c]
    /\ pass' = [pass EXCEPT ![c].pc = "delList"]
    /\ UNCHANGED <<clusterVars, cr, crCache, podCache, queue, observed, exits, entries, envVars>>

(* Mutant: only a CR that is going away counts as a holder. *)
heldByDeletingCR(c) == \E d \in CRs \ {c} : crCache[d].at = "deleting" /\ VM(d) = VM(c)

vmHeldByAnotherCR(c) ==
    \E d \in CRs \ {c} : crCache[d].at = "present" /\ VM(d) = VM(c)

listHolders(c) ==
    /\ pass[c].pc = "delList"
    /\ \A d \in CRs : CaughtUp(d)
    /\ Goto(c, [pass[c] EXCEPT !.pc = IF vmHeldByAnotherCR(c) THEN "delFinalizer" ELSE "delTag"])
    /\ UNCHANGED <<clusterVars, cr, crCache, podCache, observed, exits, entries, envVars>>

(* Mutant: a registry failure ends the pass, and nothing brings it back. *)
deleteTagOrStop(c) ==
    /\ pass[c].pc = "delTag"
    /\ \/ /\ tag' = [tag EXCEPT ![VM(c)] = "none"] /\ UNCHANGED faults
          /\ Goto(c, [pass[c] EXCEPT !.pc = "delFinalizer"])
       \/ /\ "registry" \in Faults /\ faults > 0 /\ faults' = faults - 1 /\ UNCHANGED tag
          /\ Return(c, FALSE)
    /\ UNCHANGED <<pod, vk, vkGen, cr, crCache, podCache, observed, exits, entries, envVars>>

(* Best effort: a registry failure is logged and the deletion goes on. *)
deleteHeldTag(c) ==
    /\ pass[c].pc = "delTag"
    /\ \/ tag' = [tag EXCEPT ![VM(c)] = "none"] /\ UNCHANGED faults
       \/ "registry" \in Faults /\ faults > 0 /\ faults' = faults - 1 /\ UNCHANGED tag
    /\ Goto(c, [pass[c] EXCEPT !.pc = "delFinalizer"])
    /\ UNCHANGED <<pod, vk, vkGen, cr, crCache, podCache, observed, exits, entries, envVars>>

RemoveFinalizer(c) ==
    /\ pass[c].pc = "delFinalizer"
    /\ observed' = [observed EXCEPT ![c] = 0]
    /\ cr' = [cr EXCEPT ![c] = IF @ = pass[c].cr THEN NoRecord ELSE @]
    /\ Return(c, cr[c] # pass[c].cr)
    /\ UNCHANGED <<clusterVars, crCache, podCache, exits, entries, envVars>>

-----------------------------------------------------------------------------
(* Failures *)

(* Is the pass about to call the API server, or would its call short-circuit? *)
CallsAPI(c) ==
    CASE pass[c].pc \in {"addFinalizer", "delFinalizer"} -> TRUE
      [] pass[c].pc = "markPending" -> ~markPendingIsNoop(pass[c].cr)
      [] pass[c].pc = "setPhase"    -> ~setPhaseIsNoop(pass[c].cr, pass[c].to)
      [] pass[c].pc = "hibPatch"    -> ~pass[c].pod.hib
      [] pass[c].pc = "wakePatch"   -> ~Settled(pass[c].cr) /\ pass[c].pod.hib
      [] OTHER -> FALSE

(* The call fails, Reconcile returns its error and the queue backs off. *)
CallFails(c) ==
    /\ faults > 0
    /\ \/ "api" \in Faults /\ CallsAPI(c)
       \/ "registry" \in Faults /\ pass[c].pc = "drop"
    /\ faults' = faults - 1
    /\ Return(c, TRUE)
    /\ UNCHANGED <<pod, tag, vk, vkGen, cr, crCache, podCache, observed, exits, entries, envVars>>

(* The operator restarts: its memory is gone, and the informers list everything. *)
Restart ==
    /\ "crash" \in Faults /\ faults > 0 /\ faults' = faults - 1
    /\ pass' = [c \in CRs |-> Idle]
    /\ lock' = [s \in DOMAIN lock |-> NoCR]
    /\ observed' = [c \in CRs |-> 0]
    /\ crCache' = cr /\ podCache' = pod
    /\ queue' = [c \in CRs |-> cr[c].at # "absent"]
    /\ UNCHANGED <<pod, tag, vk, vkGen, cr, exits, entries, now, expired, setGen, left>>

-----------------------------------------------------------------------------
(* Informers *)

(* Mutant: the CR watch drops status changes. *)
SyncCRGenerationOnly(c) ==
    /\ crCache[c] # cr[c]
    /\ crCache' = [crCache EXCEPT ![c] = cr[c]]
    /\ queue' = [queue EXCEPT ![c] = @ \/ <<crCache[c].at, crCache[c].gen>> # <<cr[c].at, cr[c].gen>>]
    /\ UNCHANGED <<clusterVars, cr, podCache, pass, lock, observed, exits, entries, envVars>>

(* For(CocoonHibernation) has no predicate: every change is an event. *)
SyncCR(c) ==
    /\ crCache[c] # cr[c]
    /\ crCache' = [crCache EXCEPT ![c] = cr[c]]
    /\ queue' = [queue EXCEPT ![c] = TRUE]
    /\ UNCHANGED <<clusterVars, cr, podCache, pass, lock, observed, exits, entries, envVars>>

(* podWatchPredicate: creation, deletion and annotation changes; the deletion
   timestamp alone is none of these. *)
podWatchPredicate(old, new) ==
    \/ old.at = "absent" \/ new.at = "absent"
    \/ [old EXCEPT !.at = new.at] # new

hibernationsTargetingPod(v) == {c \in CRs : PodRef[c] = v /\ crCache[c].at # "absent"}

SyncPod(v) ==
    /\ podCache[v] # pod[v]
    /\ podCache' = [podCache EXCEPT ![v] = pod[v]]
    /\ queue' = [c \in CRs |-> queue[c] \/ (/\ podWatchPredicate(podCache[v], pod[v])
                                           /\ c \in hibernationsTargetingPod(v))]
    /\ UNCHANGED <<clusterVars, cr, crCache, pass, lock, observed, exits, entries, envVars>>

-----------------------------------------------------------------------------
(* Users, time, and the CocoonSet that owns the pods *)

Spend(what) == left[what] > 0 /\ left' = [left EXCEPT ![what] = @ - 1]

EnvStep == UNCHANGED <<crCache, podCache, passVars>>

CreateCR(c) ==
    /\ cr[c].at = "absent" /\ Spend("flips")
    /\ \E d \in Desires[c] :
         cr' = [cr EXCEPT ![c] = [NoRecord EXCEPT !.at = "present", !.desire = d, !.gen = 1]]
    /\ EnvStep /\ UNCHANGED <<clusterVars, now, expired, setGen>>

TerminalPhase(desire) == IF desire = "Hibernate" THEN "Hibernated" ELSE "Active"

EditDesire(c) ==
    /\ cr[c].at = "present" /\ Spend("flips")
    /\ left.patient => cr[c].phase = TerminalPhase(cr[c].desire) /\ cr[c].obsGen = cr[c].gen
    /\ \E d \in Desires[c] \ {cr[c].desire} :
         cr' = [cr EXCEPT ![c].desire = d, ![c].gen = @ + 1]
    /\ EnvStep /\ UNCHANGED <<clusterVars, now, expired, setGen>>

DeleteCR(c) ==
    /\ cr[c].at = "present" /\ Spend("deletes")
    /\ cr' = [cr EXCEPT ![c] = IF @.fin THEN [@ EXCEPT !.at = "deleting"] ELSE NoRecord]
    /\ EnvStep /\ UNCHANGED <<clusterVars, now, expired, setGen>>

DeadlinePasses(c) ==
    /\ cr[c].phase \in InFlight /\ expired[c] < cr[c].ltt /\ Spend("timeouts")
    /\ expired' = [expired EXCEPT ![c] = cr[c].ltt]
    /\ EnvStep /\ UNCHANGED <<clusterVars, cr, now, setGen>>

EditSet ==
    /\ setGen < MaxGen /\ setGen' = setGen + 1
    /\ EnvStep /\ UNCHANGED <<clusterVars, cr, now, expired, left>>

syncCocoonSetGeneration(v) ==
    /\ pod[v].at = "present" /\ pod[v].gen # setGen
    /\ pod' = [pod EXCEPT ![v].gen = setGen]
    /\ EnvStep /\ UNCHANGED <<tag, vk, vkGen, faults, cr, envVars>>

(* A pod may arrive after the CR; one the set did not build has no VM name until
   vk-cocoon gives it one. *)
CreatePod(v) ==
    /\ pod[v].at = "absent"
    /\ \E named \in BOOLEAN : pod' = [pod EXCEPT ![v] = NewPod(named, FALSE, setGen)]
    /\ EnvStep /\ UNCHANGED <<tag, vk, vkGen, faults, cr, envVars>>

VkActs(v) == VkStep(v) /\ EnvStep /\ UNCHANGED <<cr, envVars>>
VkFails(v) == VkFail(v) /\ EnvStep /\ UNCHANGED <<cr, envVars>>

-----------------------------------------------------------------------------
PassStep(c) ==
    \/ AddFinalizer(c) \/ markPending(c) \/ lockVM(c) \/ setPhase(c)
    \/ reconcileHibernate(c) \/ HasHibernateSnapshot(c)
    \/ reconcileWake(c) \/ DeleteManifestIfPresent(c)
    \/ deleteLockVM(c) \/ listHolders(c) \/ deleteHeldTag(c) \/ RemoveFinalizer(c)

Next ==
    \/ \E c \in CRs : \/ Reconcile(c) \/ PassStep(c) \/ CallFails(c) \/ SyncCR(c)
                       \/ CreateCR(c) \/ EditDesire(c) \/ DeleteCR(c) \/ DeadlinePasses(c)
    \/ \E v \in VMs : \/ SyncPod(v) \/ syncCocoonSetGeneration(v) \/ CreatePod(v)
                       \/ VkActs(v) \/ VkFails(v)
    \/ EditSet \/ Restart

Spec == Init /\ [][Next]_vars

(* The controller's workers, the informers, vk-cocoon and the CocoonSet keep
   working, and a mutex does not starve a waiter (sync.Mutex hands over to a worker
   that has waited long); nobody has to edit, delete, fail or time out. *)
Fairness ==
    /\ \A c \in CRs : /\ WF_vars(Reconcile(c)) /\ WF_vars(PassStep(c)) /\ WF_vars(SyncCR(c))
                      /\ SF_vars(lockVM(c)) /\ SF_vars(deleteLockVM(c))
    /\ \A v \in VMs : /\ WF_vars(SyncPod(v)) /\ WF_vars(VkActs(v))
                      /\ WF_vars(syncCocoonSetGeneration(v)) /\ WF_vars(CreatePod(v))

FairSpec == Spec /\ Fairness

-----------------------------------------------------------------------------
(* Properties *)

(* A CR settles Hibernated only on a snapshot that holds the VM's latest state:
   the tag a previous round left behind never passes for this round's. *)
HibernatedOnFreshSnapshot ==
    [][\A c \in CRs : cr[c].phase # "Hibernated" /\ cr'[c].phase = "Hibernated"
                       => tag[VM(c)] = "fresh"]_vars

(* A wake drops the tag only once the VM has run past it; the only other operation
   of this reconciler that drops one is the deletion of a CR. *)
WakeDropsOnlySpent ==
    [][\A v \in VMs : tag[v] = "fresh" /\ tag'[v] = "none"
                       => \E c \in CRs : VM(c) = v /\ pass[c].pc = "delTag"]_vars

(* While the snapshot is the VM's only copy and its pod is missing, the CR keeps a
   phase from which the recreated pod is restored: markPending never demotes it, and
   no write left over from an earlier pass does. *)
KeepsIntentThroughGap ==
    [][\A c \in CRs : /\ cr[c].phase \in {"Hibernated", "Waking"} /\ tag[VM(c)] = "fresh"
                      /\ pod[VM(c)].at = "absent" /\ cr'[c].at # "absent"
                      => cr'[c].phase \in {"Hibernated", "Waking"}]_vars

(* No CR that is not being deleted reports Hibernated over a sleeping VM whose
   snapshot is gone: reconcileDelete leaves the shared tag to the last holder. *)
NoTaglessHibernated ==
    \A c \in CRs : cr[c].at = "present" /\ cr[c].phase = "Hibernated" /\ vk[VM(c)] = "asleep"
                   => tag[VM(c)] # "none"

(* Each entry into Hibernating or Waking is observed at most once on its way out,
   however often the pass that leaves the phase is retried. *)
ExitObservedOnce == \A c \in CRs : exits[c] <= entries[c]

HoldsVM(c) == pass[c].pc \in Locked \/ (pass[c].pc = "delFinalizer" /\ pass[c].cr.vmName)

(* Two passes past lockVM never work on one VM, nor on two VMs of one stripe. *)
OnePassPerVM ==
    \A c, d \in CRs : HoldsVM(c) /\ HoldsVM(d) /\ StripeOf(c) = StripeOf(d) => c = d

(* A desire the user leaves alone is eventually met, and a wake leaves no tag. *)
DesireIsMet ==
    \A c \in CRs :
      /\ <>[](cr[c].at = "present" /\ cr[c].desire = "Hibernate")
           => <>[](cr[c].phase = "Hibernated" /\ tag[VM(c)] = "fresh")
      /\ <>[](cr[c].at = "present" /\ cr[c].desire = "Wake")
           => <>[](cr[c].phase = "Active" /\ tag[VM(c)] = "none" /\ vk[VM(c)] = "running")

(* A deleted CR is eventually gone. *)
DeletionEnds == \A c \in CRs : [](cr[c].at = "deleting" => <>(cr[c].at = "absent"))
=============================================================================
