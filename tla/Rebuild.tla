------------------------------ MODULE Rebuild ------------------------------
(* The rebuild budget of a CocoonSet's pods: cocoonset/rebuild.go and the slot
   loops of agents.go and toolboxes.go that call it.

   A pass reads the CocoonSet and its pods once, then walks the slots.  Every
   patch of the CocoonSet answers with the object as the API server then holds
   it, spec and generation included, and the pass goes on with that answer.

   Simplifications:
     - slots are sub-agents and toolboxes alike, walked in any order;
     - a pod remembers the template version it was built from, and drifts when
       the spec's template moves on;
     - of the names stashDeleteVMNames writes before an extra pod goes, only the refresh of
       the pass's copy is kept: what they are for belongs to the suspend model;
     - a pod is created under its slot's own checks only: the restore marks and
       the image rule belong to the suspend model;
     - LastDeleted is an epoch, and elapsed[p] the latest epoch whose backoff is
       over;
     - a failed call and an operator restart both abandon the pass, which keeps
       nothing in memory that another pass could miss. *)
EXTENDS Naturals

CONSTANTS Slots,                \* pod names of sub-agents and toolboxes
          maxRebuildAttempts,   \* 4 in the code
          MaxGen,               \* bound on spec edits
          MaxFaults,            \* bound on abandoned passes
          CacheLag              \* may a pass read the CocoonSet before the cache caught up?

ASSUME RebuildAssumption ==
    /\ maxRebuildAttempts \in Nat \ {0}
    /\ MaxGen \in Nat \ {0} /\ MaxFaults \in Nat /\ CacheLag \in BOOLEAN

VARIABLES cs,           \* the CocoonSet as the API server holds it
          csCache,      \* the informer's copy
          pod,          \* pod[p]
          pc,           \* where the reconcile pass is
          view,         \* the pass's copy of the CocoonSet
          seen,         \* the pods the pass listed
          todo,         \* slots it has not walked yet
          slot,         \* the slot in hand
          charge,       \* the generation whose budget pays the delete in hand, or 0
          tick,         \* tick[p]: the next LastDeleted of p
          elapsed,      \* elapsed[p]: every LastDeleted up to it is past its backoff
          faults,       \* passes that may still be abandoned
          rebuilt       \* rebuilt[p][g]: deletes of p paid by generation g (history)

passVars == <<pc, view, seen, todo, slot, charge>>
vars == <<cs, csCache, pod, passVars, tick, elapsed, faults, rebuilt>>

Generations == 1..MaxGen

(* rebuildEntry; the zero value stands for a name the history does not hold. *)
Entries == [count : 0..maxRebuildAttempts, gen : 0..MaxGen, parked : BOOLEAN, last : Nat]
NoEntry == [count |-> 0, gen |-> 0, parked |-> FALSE, last |-> 0]

Sets == [gen : Generations, tmpl : Generations, want : SUBSET Slots, history : [Slots -> Entries]]

(* dead is the dead-letter annotation: the generation the pod is parked at, or 0. *)
Pods == [at : {"absent", "present", "terminating"}, tmpl : 0..MaxGen,
         terminal : BOOLEAN, dead : 0..MaxGen]
NoPod == [at |-> "absent", tmpl |-> 0, terminal |-> FALSE, dead |-> 0]

PCs == {"idle", "walk", "charge", "park", "letter", "reset", "delete", "create", "stash", "extra"}

TypeOK ==
    /\ cs \in Sets /\ csCache \in Sets /\ view \in Sets
    /\ pod \in [Slots -> Pods] /\ seen \in [Slots -> Pods]
    /\ pc \in PCs
    /\ todo \in SUBSET Slots
    /\ pc \notin {"idle", "walk"} => slot \in Slots
    /\ charge \in 0..MaxGen
    /\ tick \in [Slots -> Nat \ {0}] /\ elapsed \in [Slots -> Nat]
    /\ faults \in 0..MaxFaults
    /\ rebuilt \in [Slots -> [Generations -> Nat]]

Init ==
    /\ cs = [gen |-> 1, tmpl |-> 1, want |-> Slots, history |-> [p \in Slots |-> NoEntry]]
    /\ csCache = cs /\ view = cs
    /\ pod = [p \in Slots |-> NoPod] /\ seen = pod
    /\ pc = "idle" /\ todo = {} /\ slot = "none" /\ charge = 0
    /\ tick = [p \in Slots |-> 1] /\ elapsed = [p \in Slots |-> 0]
    /\ faults = MaxFaults
    /\ rebuilt = [p \in Slots |-> [g \in Generations |-> 0]]

-----------------------------------------------------------------------------
(* rebuild.go *)

(* The entry rebuildPod works with: a newer generation starts a fresh one. *)
CurrentEntry(c, p) ==
    IF c.history[p].gen = c.gen THEN c.history[p]
    ELSE [count |-> 0, gen |-> c.gen, parked |-> FALSE, last |-> 0]

budgetExhausted(c, p) == c.history[p].gen = c.gen /\ c.history[p].parked

(* backoffDelay is zero for the first attempt only. *)
BackingOff(p, e) == e.count > 0 /\ e.last > elapsed[p]

(* Mutant: one attempt too many. *)
rebuildPodOffByOne(c, p) ==
    LET e == CurrentEntry(c, p) IN
    CASE e.count > maxRebuildAttempts -> IF e.parked THEN "letter" ELSE "park"
      [] e.count <= maxRebuildAttempts /\ BackingOff(p, e) -> "walk"
      [] OTHER -> "charge"

(* Mutant: a slot on record as parked is taken to carry its dead-letter. *)
rebuildPodLettersOnce(c, p) ==
    LET e == CurrentEntry(c, p) IN
    CASE e.count >= maxRebuildAttempts -> IF e.parked THEN "walk" ELSE "park"
      [] e.count < maxRebuildAttempts /\ BackingOff(p, e) -> "walk"
      [] OTHER -> "charge"

rebuildPod(c, p) ==
    LET e == CurrentEntry(c, p) IN
    CASE e.count >= maxRebuildAttempts -> IF e.parked THEN "letter" ELSE "park"
      [] e.count < maxRebuildAttempts /\ BackingOff(p, e) -> "walk"
      [] OTHER -> "charge"

NeedsRebuild(c, q) == q.terminal \/ q.tmpl # c.tmpl

(* Mutant: any dead-letter is lifted, the current generation's too. *)
triagePodAlwaysLifts(c, p, q) ==
    CASE ~NeedsRebuild(c, q) -> "walk"
      [] NeedsRebuild(c, q) /\ q.dead = 0 -> rebuildPod(c, p)
      [] OTHER -> IF c.history[p] = NoEntry THEN "delete" ELSE "reset"

triagePod(c, p, q) ==
    CASE ~NeedsRebuild(c, q) -> "walk"
      [] NeedsRebuild(c, q) /\ q.dead = 0 -> rebuildPod(c, p)
      [] NeedsRebuild(c, q) /\ q.dead = c.gen -> "walk"
      [] OTHER -> IF c.history[p] = NoEntry THEN "delete" ELSE "reset"

(* patchRebuildHistory: encodeRebuildHistory keeps the names the pass's copy still
   wants, and the answer replaces that copy. *)
patchRebuildHistory(p, e) ==
    /\ cs' = [cs EXCEPT !.history =
                [s \in Slots |-> IF s \notin view.want THEN NoEntry
                                 ELSE IF s = p THEN e ELSE view.history[s]]]
    /\ view' = cs'

-----------------------------------------------------------------------------
(* A pass *)

Reconcile ==
    /\ pc = "idle" /\ (CacheLag \/ csCache = cs)
    /\ pc' = "walk" /\ view' = csCache /\ seen' = pod /\ todo' = Slots
    /\ UNCHANGED <<cs, csCache, pod, slot, charge, tick, elapsed, faults, rebuilt>>

(* Mutant: a missing pod is created whatever its budget says. *)
VisitCreatesMissing(c, p, q) ==
    CASE p \in c.want /\ q.at = "present" -> triagePod(c, p, q)
      [] p \in c.want /\ q.at # "present" -> "create"
      [] OTHER -> IF q.at = "present" THEN "stash" ELSE "walk"

(* What the loops of ensureSubAgents and ensureToolboxes do with a slot; classifyPods
   leaves out a pod that is being deleted. *)
Visit(c, p, q) ==
    CASE p \in c.want /\ q.at = "present" -> triagePod(c, p, q)
      [] p \in c.want /\ q.at # "present" -> IF budgetExhausted(c, p) THEN "walk" ELSE "create"
      [] OTHER -> IF q.at = "present" THEN "stash" ELSE "walk"

Walk(p) ==
    /\ pc = "walk" /\ p \in todo
    /\ pc' = Visit(view, p, seen[p])
    /\ todo' = todo \ {p} /\ slot' = p /\ charge' = 0
    /\ UNCHANGED <<cs, csCache, pod, view, seen, tick, elapsed, faults, rebuilt>>

(* Mutant: the entry is persisted before it counts the attempt. *)
ChargeUncounted ==
    /\ pc = "charge" /\ pc' = "delete"
    /\ patchRebuildHistory(slot, [CurrentEntry(view, slot) EXCEPT !.last = tick[slot]])
    /\ charge' = view.gen
    /\ tick' = [tick EXCEPT ![slot] = @ + 1]
    /\ UNCHANGED <<csCache, pod, seen, todo, slot, elapsed, faults, rebuilt>>

(* The attempt is on record before the delete, so a failed delete stays counted. *)
ChargeAttempt ==
    /\ pc = "charge" /\ pc' = "delete"
    /\ LET e == CurrentEntry(view, slot) IN
       patchRebuildHistory(slot, [e EXCEPT !.count = @ + 1, !.last = tick[slot]])
    /\ charge' = view.gen
    /\ tick' = [tick EXCEPT ![slot] = @ + 1]
    /\ UNCHANGED <<csCache, pod, seen, todo, slot, elapsed, faults, rebuilt>>

Park ==
    /\ pc = "park" /\ pc' = "letter"
    /\ patchRebuildHistory(slot, [CurrentEntry(view, slot) EXCEPT !.parked = TRUE])
    /\ UNCHANGED <<csCache, pod, seen, todo, slot, charge, tick, elapsed, faults, rebuilt>>

(* The dead-letter names the generation of the pass's copy, which the park before
   it may have refreshed. *)
DeadLetter ==
    /\ pc = "letter"
    /\ pc' = IF pod[slot].at = "absent" THEN "idle" ELSE "walk"
    /\ pod' = [pod EXCEPT ![slot] = IF @.at = "absent" THEN @ ELSE [@ EXCEPT !.dead = view.gen]]
    /\ UNCHANGED <<cs, csCache, view, seen, todo, slot, charge, tick, elapsed, faults, rebuilt>>

(* A dead-lettered pod after a spec edit: its history goes, then the pod. *)
ResetHistory ==
    /\ pc = "reset" /\ pc' = "delete"
    /\ patchRebuildHistory(slot, NoEntry)
    /\ UNCHANGED <<csCache, pod, seen, todo, slot, charge, tick, elapsed, faults, rebuilt>>

DeletePod(p) == pod' = [pod EXCEPT ![p].at = IF @ = "present" THEN "terminating" ELSE @]

DeleteForRebuild ==
    /\ pc = "delete" /\ pc' = "walk"
    /\ DeletePod(slot)
    /\ rebuilt' = IF charge = 0 \/ pod[slot].at # "present" THEN rebuilt
                  ELSE [rebuilt EXCEPT ![slot][charge] = @ + 1]
    /\ UNCHANGED <<cs, csCache, view, seen, todo, slot, charge, tick, elapsed, faults>>

CreatePod ==
    /\ pc = "create" /\ pc' = "walk"
    /\ pod' = [pod EXCEPT ![slot] = IF @.at = "absent"
                 THEN [at |-> "present", tmpl |-> view.tmpl, terminal |-> FALSE, dead |-> 0] ELSE @]
    /\ UNCHANGED <<cs, csCache, view, seen, todo, slot, charge, tick, elapsed, faults, rebuilt>>

(* stashDeleteVMNames before an extra pod is deleted: unless the CocoonSet already lists
   the VM, the patch refreshes the pass's copy. *)
StashExtra ==
    /\ pc = "stash" /\ pc' = "extra" /\ view' \in {view, cs}
    /\ UNCHANGED <<cs, csCache, pod, seen, todo, slot, charge, tick, elapsed, faults, rebuilt>>

DeleteExtra ==
    /\ pc = "extra" /\ pc' = "walk"
    /\ DeletePod(slot)
    /\ UNCHANGED <<cs, csCache, view, seen, todo, slot, charge, tick, elapsed, faults, rebuilt>>

EndPass ==
    /\ pc = "walk" /\ todo = {} /\ pc' = "idle"
    /\ UNCHANGED <<cs, csCache, pod, view, seen, todo, slot, charge, tick, elapsed, faults, rebuilt>>

(* A call fails or the operator restarts. *)
Abandon ==
    /\ pc # "idle" /\ faults > 0 /\ faults' = faults - 1 /\ pc' = "idle"
    /\ UNCHANGED <<cs, csCache, pod, view, seen, todo, slot, charge, tick, elapsed, rebuilt>>

PassStep ==
    \/ ChargeAttempt \/ Park \/ DeadLetter \/ ResetHistory \/ DeleteForRebuild
    \/ CreatePod \/ StashExtra \/ DeleteExtra \/ EndPass \/ \E p \in Slots : Walk(p)

-----------------------------------------------------------------------------
(* The user, the informer, the node and time *)

EditSpec ==
    /\ cs.gen < MaxGen
    /\ \E w \in SUBSET Slots, t \in {cs.tmpl, cs.gen + 1} :
         cs' = [cs EXCEPT !.gen = @ + 1, !.tmpl = t, !.want = w]
    /\ UNCHANGED <<csCache, pod, passVars, tick, elapsed, faults, rebuilt>>

Sync ==
    /\ csCache # cs /\ csCache' = cs
    /\ UNCHANGED <<cs, pod, passVars, tick, elapsed, faults, rebuilt>>

PodFails(p) ==
    /\ pod[p].at = "present" /\ ~pod[p].terminal
    /\ pod' = [pod EXCEPT ![p].terminal = TRUE]
    /\ UNCHANGED <<cs, csCache, passVars, tick, elapsed, faults, rebuilt>>

UserDeletes(p) ==
    /\ pod[p].at = "present" /\ pod[p].dead # 0
    /\ pod' = [pod EXCEPT ![p].at = "terminating"]
    /\ UNCHANGED <<cs, csCache, passVars, tick, elapsed, faults, rebuilt>>

PodGone(p) ==
    /\ pod[p].at = "terminating"
    /\ pod' = [pod EXCEPT ![p] = NoPod]
    /\ UNCHANGED <<cs, csCache, passVars, tick, elapsed, faults, rebuilt>>

BackoffElapses(p) ==
    /\ elapsed[p] < tick[p] - 1
    /\ elapsed' = [elapsed EXCEPT ![p] = tick[p] - 1]
    /\ UNCHANGED <<cs, csCache, pod, passVars, tick, faults, rebuilt>>

Next ==
    \/ Reconcile \/ PassStep \/ Abandon \/ EditSpec \/ Sync
    \/ \E p \in Slots : PodFails(p) \/ UserDeletes(p) \/ PodGone(p) \/ BackoffElapses(p)

Spec == Init /\ [][Next]_vars

Fairness ==
    /\ WF_vars(Reconcile) /\ WF_vars(PassStep) /\ WF_vars(Sync)
    /\ \A p \in Slots : WF_vars(PodGone(p)) /\ WF_vars(BackoffElapses(p))

FairSpec == Spec /\ Fairness

-----------------------------------------------------------------------------
(* Properties *)

(* However passes, failures and spec edits interleave, no generation pays for more
   than maxRebuildAttempts deletes of one pod. *)
RebuildBudget ==
    \A p \in Slots : \A g \in Generations : rebuilt[p][g] <= maxRebuildAttempts

(* A pod parked at the current generation is left in place: only its user, or a
   spec that no longer names it, deletes it before the next edit. *)
ParkedPodIsLeft ==
    [][\A p \in Slots :
         /\ pod[p].at = "present" /\ pod[p].dead = cs.gen /\ p \in cs.want
         /\ pod'[p].at = "terminating"
         => UNCHANGED pc]_vars

(* A slot whose budget is spent at the current generation stays empty once its pod
   is gone. *)
ParkedSlotStaysEmpty ==
    [][\A p \in Slots :
         pod[p].at = "absent" /\ budgetExhausted(cs, p) => pod'[p].at = "absent"]_vars

(* A spec edit lifts the dead-letter: a pod is parked at a generation only when its
   budget of that generation is spent. *)
ParkedOnItsOwnBudget ==
    \A p \in Slots : pod[p].at = "present" /\ pod[p].dead # 0 /\ pod[p].dead = cs.gen
                     => budgetExhausted(cs, p)

Settled(p) ==
    IF p \in cs.want
    THEN \/ pod[p].at = "present" /\ (NeedsRebuild(cs, pod[p]) => pod[p].dead = cs.gen)
         \/ pod[p].at = "absent" /\ budgetExhausted(cs, p)
    ELSE pod[p].at = "absent"

(* Every slot settles: a pod that matches, one parked, or an empty slot that is
   spent or no longer wanted.  The set stops churning VMs. *)
ChurnEnds == \A p \in Slots : <>[]Settled(p)
=============================================================================
