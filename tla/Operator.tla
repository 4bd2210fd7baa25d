------------------------------ MODULE Operator ------------------------------
(* The two reconcilers on one pod: a CocoonSet whose main is moved by its pin (module
   Migration) and CocoonHibernations that hibernate and wake the same main (module
   Hibernation).  Each acts between any two calls of the other.

   The set tells the two apart by listing the CRs (cocoonset/restore.go, suspend.go); a
   CR that has settled leaves the set's own quiesce alone (hibernation/wake.go).

   Simplifications: those of both modules; the list of CRs is current when it is made,
   and no CR is deleted. *)
EXTENDS Naturals, FiniteSets

CONSTANTS VMs, MaxGen, MaxFaults,
          Main, Nodes, Full, NoNode, Registry, Unborn, Patient, BindRace, VkMayFail,
          CRs, PodRef, Stripe, Desires, CacheLag, Faults, MaxFlips, MaxTimeouts,
          MaxEpochs, Regimes, NoCR,
          SlowPush      \* does a pass end before a push that starts during it lands?

VARIABLES pod, tag, vk, vkGen, faults,
          cs, place, queued, run, boots,
          cr, crCache, podCache, queue, pass, lock, observed, now, expired, left, exits, entries

M == INSTANCE Migration
H == INSTANCE Hibernation WITH MaxDeletes <- 0, setGen <- cs.gen

ASSUME OperatorAssumption ==
    /\ M!ClusterAssumption /\ M!MigrationAssumption /\ H!HibernationAssumption
    /\ SlowPush \in BOOLEAN

setVars == <<cs, place, queued, run, boots>>
crVars == <<cr, crCache, podCache, queue, pass, lock, observed, now, expired, left, exits, entries>>
vars == <<pod, tag, vk, vkGen, faults, setVars, crVars>>

TypeOK == M!TypeOK /\ H!TypeOK

(* A set that runs. *)
Init == M!Init /\ M!Running /\ H!Init

-----------------------------------------------------------------------------
(* What the set's lists of CRs name *)

hibernationPodNames(accepted) == {PodRef[c] : c \in {d \in accepted : cr[d].at # "absent"}}

(* Mutant: a CR that has not begun to hibernate claims nothing. *)
ClaimedByPhase == hibernationPodNames({c \in CRs : cr[c].phase = "Hibernating"})

(* Mutant: every CR claims its pod. *)
ClaimedByAny == hibernationPodNames(CRs)

podsHibernatedByCR ==
    hibernationPodNames({c \in CRs : cr[c].desire = "Hibernate" \/ cr[c].phase = "Hibernating"})

podsTrackedByHibernationCR ==
    hibernationPodNames({c \in CRs : /\ cr[c].at = "present"
                                     /\ cr[c].obsGen # cr[c].gen \/ cr[c].phase # "Active"})

podsRestorableByCR ==
    hibernationPodNames({c \in CRs : cr[c].phase \in {"Hibernated", "Waking"}})

-----------------------------------------------------------------------------
(* A step of the set leaves the CRs alone; the CR reconciler sees it once SyncPod has. *)
SetReconcile == M!Reconcile /\ UNCHANGED crVars

SetStep ==
    /\ M!PassStep(podsHibernatedByCR, podsTrackedByHibernationCR, podsRestorableByCR)
    /\ UNCHANGED crVars

(* A patient user edits a pin or a desire only while the set and the CRs are at rest, and
   a desire only while the main is not about to move. *)
AtRest == ~queued /\ run.pc = "idle" /\ cs.phase # "Migrating" /\ pod[Main].at = "present"

ToMove == cs.pin \notin {NoNode, place.node} /\ ~pod[Main].hib

Settled(c) ==
    /\ ~queue[c] /\ pass[c].pc = "idle" /\ H!CaughtUp(c)
    /\ cr[c].at = "present" => /\ cr[c].phase = H!TerminalPhase(cr[c].desire)
                                /\ cr[c].obsGen = cr[c].gen
                                /\ pod[Main].hib = (cr[c].desire = "Hibernate")

EditPin ==
    /\ Patient => AtRest /\ \A c \in CRs : Settled(c)
    /\ M!EditPin /\ UNCHANGED crVars

Schedule == M!Schedule /\ UNCHANGED crVars

(* Once vk-cocoon has echoed the generation and every pass has seen the main asleep at
   it: before that the stamp itself demotes a Hibernated CR (hibernation/hibernate.go:45). *)
Evict ==
    /\ pod[Main].obs = cs.gen
    /\ \A c \in CRs : pass[c].pc # "idle" =>
         pass[c].pod.state = "hibernated" /\ pass[c].pod.obs = cs.gen
    /\ M!Evict(podsRestorableByCR) /\ UNCHANGED crVars

VkActs ==
    /\ SlowPush /\ vk[Main] = "pushing" =>
         /\ run.pc # "idle" => run.pod.hib
         /\ \A c \in CRs : pass[c].pc # "idle" => pass[c].pod.hib
    /\ M!VkActs /\ UNCHANGED crVars

(* A step of the CR reconciler; a change it makes to the pod is a request to the set. *)
SetWatches == UNCHANGED <<cs, place, run, boots>>

CRReconcile(c) == SetWatches /\ H!Reconcile(c) /\ M!Watched
CRStep(c) == SetWatches /\ H!PassStep(c) /\ M!Watched
CRSync(c) == SetWatches /\ H!SyncCR(c) /\ M!Watched
CREdit(c) ==
    /\ Patient => AtRest /\ ~ToMove /\ Settled(c)
    /\ SetWatches /\ (H!CreateCR(c) \/ H!EditDesire(c)) /\ M!Watched
SyncPod == SetWatches /\ H!SyncPod(Main) /\ M!Watched

Next ==
    \/ SetReconcile \/ SetStep \/ EditPin \/ Schedule \/ Evict \/ VkActs \/ SyncPod
    \/ \E c \in CRs : CRReconcile(c) \/ CRStep(c) \/ CRSync(c) \/ CREdit(c)

Spec == Init /\ [][Next]_vars

(* Both reconcilers, the informers, the scheduler and vk-cocoon keep working. *)
Fairness ==
    /\ WF_vars(SetReconcile) /\ WF_vars(SetStep) /\ WF_vars(Schedule)
    /\ WF_vars(VkActs) /\ WF_vars(SyncPod)
    /\ \A c \in CRs : WF_vars(CRReconcile(c)) /\ WF_vars(CRStep(c)) /\ WF_vars(CRSync(c))

FairSpec == Spec /\ Fairness

-----------------------------------------------------------------------------
(* Properties *)

(* Whatever the set and the CRs do to one pod between each other's calls, the main's
   live state is never lost: a CR's snapshot is not taken for the migration's leftover,
   a main a CR keeps asleep is not moved, woken or booted fresh. *)
KeepsLiveState == M!KeepsLiveState

(* An eviction of a hibernated main, and the gap a migration makes, leave the CR with
   the phase from which the set restores the new pod. *)
KeepsIntentThroughGap == H!KeepsIntentThroughGap

(* A desire left alone is met although the set stamps, moves and recreates the pod. *)
DesireIsMet == H!DesireIsMet

(* A pin left alone is met once no CR keeps the main asleep. *)
PinIsMet == <>[](\A c \in CRs : cr[c].desire = "Wake") => M!PinIsMet

(* The CR hibernated the main and the wake it now wants has not settled: the snapshot
   is still the CR's to wake from. *)
WakeInFlight(c) ==
    /\ cr[c].at = "present" /\ PodRef[c] = Main
    /\ cr[c].desire = "Wake" /\ cr[c].phase \in {"Hibernated", "Waking"}
    /\ tag[Main] # "none"

=============================================================================
