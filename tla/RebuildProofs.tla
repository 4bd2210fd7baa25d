--------------------------- MODULE RebuildProofs ---------------------------
(* Proofs about Rebuild: its types, and the rebuild budget of a generation when
   the CocoonSet a pass starts from is not stale. *)
EXTENDS Rebuild, TLAPS

(* An attempt is charged only while the entry in hand has budget left. *)
ChargeHasBudget ==
    pc = "charge" => CurrentEntry(view, slot).count < maxRebuildAttempts

TypeInv == TypeOK /\ ChargeHasBudget

(* The entry rebuildPod works with is an entry of the pass's generation. *)
LEMMA CurrentEntryType ==
    ASSUME NEW c \in Sets, NEW p \in Slots
    PROVE  /\ CurrentEntry(c, p) \in Entries
           /\ CurrentEntry(c, p).gen = c.gen
<1>1. c.history[p] \in Entries /\ c.gen \in 0..MaxGen
  BY RebuildAssumption DEF Sets, Generations
<1>2. 0 \in 0..maxRebuildAttempts /\ 0 \in Nat /\ FALSE \in BOOLEAN
  BY RebuildAssumption
<1>3. [count |-> 0, gen |-> c.gen, parked |-> FALSE, last |-> 0] \in Entries
  BY <1>1, <1>2 DEF Entries
<1> QED BY <1>1, <1>3 DEF CurrentEntry

(* A history write keeps the CocoonSet and the pass's copy well typed. *)
LEMMA PatchType ==
    ASSUME TypeOK, NEW p \in Slots, NEW e \in Entries, patchRebuildHistory(p, e)
    PROVE  cs' \in Sets /\ view' = cs'
<1>1. NoEntry \in Entries
  BY RebuildAssumption DEF NoEntry, Entries
<1>2. [s \in Slots |-> IF s \notin view.want THEN NoEntry
                        ELSE IF s = p THEN e ELSE view.history[s]] \in [Slots -> Entries]
  BY <1>1 DEF TypeOK, Sets
<1> QED BY <1>2 DEF patchRebuildHistory, TypeOK, Sets

(* The pods the actions write are well typed. *)
LEMMA PodRecordType ==
    /\ NoPod \in Pods
    /\ \A t \in Generations : [at |-> "present", tmpl |-> t, terminal |-> FALSE, dead |-> 0] \in Pods
    /\ \A q \in Pods : [q EXCEPT !.terminal = TRUE] \in Pods
    /\ \A q \in Pods : [q EXCEPT !.at = "terminating"] \in Pods
    /\ \A q \in Pods : \A g \in Generations : [q EXCEPT !.dead = g] \in Pods
<1>1. 0 \in 0..MaxGen /\ \A g \in Generations : g \in 0..MaxGen
  BY RebuildAssumption DEF Generations
<1>2. NoPod \in Pods
  BY <1>1 DEF NoPod, Pods
<1>3. ASSUME NEW t \in Generations
      PROVE  [at |-> "present", tmpl |-> t, terminal |-> FALSE, dead |-> 0] \in Pods
  BY <1>1 DEF Pods
<1>4. ASSUME NEW q \in Pods, NEW g \in Generations
      PROVE  [q EXCEPT !.dead = g] \in Pods
  BY <1>1 DEF Pods
<1>5. ASSUME NEW q \in Pods
      PROVE  /\ [q EXCEPT !.terminal = TRUE] \in Pods
             /\ [q EXCEPT !.at = "terminating"] \in Pods
  BY DEF Pods
<1> QED BY <1>2, <1>3, <1>4, <1>5

(* Deleting a pod keeps the pods well typed. *)
LEMMA DeleteType ==
    ASSUME pod \in [Slots -> Pods], NEW p \in Slots, DeletePod(p)
    PROVE  pod' \in [Slots -> Pods]
<1>1. [pod[p] EXCEPT !.at = IF @ = "present" THEN "terminating" ELSE @] \in Pods
  BY DEF Pods
<1> QED BY <1>1 DEF DeletePod

(* Where a slot leads: charging it means its current entry has budget left. *)
LEMMA VisitResult ==
    ASSUME TypeOK, NEW p \in Slots, NEW q \in Pods
    PROVE  /\ Visit(view, p, q) \in PCs \ {"idle"}
           /\ Visit(view, p, q) = "charge" => CurrentEntry(view, p).count < maxRebuildAttempts
           /\ Visit(view, p, q) \in {"charge", "park", "letter"} => p \in view.want /\ q.dead = 0
           /\ Visit(view, p, q) = "reset" => p \in view.want /\ q.dead # 0 /\ q.dead # view.gen
<1>1. CurrentEntry(view, p).count \in Nat
  BY CurrentEntryType, RebuildAssumption DEF TypeOK, Entries
<1>2. /\ rebuildPod(view, p) \in {"letter", "park", "walk", "charge"}
      /\ rebuildPod(view, p) = "charge" => CurrentEntry(view, p).count < maxRebuildAttempts
  BY <1>1, RebuildAssumption DEF rebuildPod
<1>3. /\ triagePod(view, p, q) \in {"letter", "park", "walk", "charge", "delete", "reset"}
      /\ triagePod(view, p, q) = "charge" => CurrentEntry(view, p).count < maxRebuildAttempts
      /\ triagePod(view, p, q) \in {"charge", "park", "letter"} => q.dead = 0
      /\ triagePod(view, p, q) = "reset" => q.dead # 0 /\ q.dead # view.gen
  BY <1>2 DEF triagePod, Pods
<1> QED BY <1>3 DEF Visit, PCs

(* Every step keeps the types: TypeInv is inductive. *)
LEMMA TypeStep == TypeInv /\ [Next]_vars => TypeInv'
<1> SUFFICES ASSUME TypeOK, ChargeHasBudget, [Next]_vars PROVE TypeInv'
  BY DEF TypeInv
<1> USE RebuildAssumption
<1>1. CASE Reconcile
  BY <1>1 DEF Reconcile, TypeOK, TypeInv, ChargeHasBudget, PCs
<1>2. ASSUME NEW p \in Slots, Walk(p) PROVE TypeInv'
  <2>1. seen[p] \in Pods
    BY DEF TypeOK
  <2>2. pc' \in PCs /\ slot' = p /\ view' = view /\ slot' \in Slots
    BY <1>2, <2>1, VisitResult DEF Walk
  <2>3. ChargeHasBudget'
    BY <1>2, <2>1, <2>2, VisitResult DEF ChargeHasBudget, Walk, CurrentEntry
  <2>4. TypeOK'
    BY <1>2, <2>2 DEF Walk, TypeOK
  <2> QED BY <2>3, <2>4 DEF TypeInv
<1>3. CASE ChargeAttempt
  <2> DEFINE e == CurrentEntry(view, slot)
             f == [e EXCEPT !.count = @ + 1, !.last = tick[slot]]
  <2>1. slot \in Slots /\ tick[slot] \in Nat /\ view.gen \in 0..MaxGen
    BY <1>3 DEF ChargeAttempt, TypeOK, Sets, Generations
  <2>2. e \in Entries /\ e.count < maxRebuildAttempts
    BY <1>3, <2>1, CurrentEntryType DEF ChargeAttempt, ChargeHasBudget, TypeOK
  <2>3. f \in Entries
    <3>1. e.count + 1 \in 0..maxRebuildAttempts
      BY <2>2 DEF Entries
    <3>2. f = [e EXCEPT !.count = e.count + 1, !.last = tick[slot]]
      BY <2>2 DEF Entries
    <3> HIDE DEF e, f
    <3>3. [e EXCEPT !.count = e.count + 1, !.last = tick[slot]] \in Entries
      BY <2>1, <2>2, <3>1 DEF Entries
    <3> QED BY <3>2, <3>3
  <2>4. cs' \in Sets /\ view' \in Sets
    BY <1>3, <2>1, <2>3, PatchType DEF ChargeAttempt
  <2>5. tick' \in [Slots -> Nat \ {0}]
    BY <1>3, <2>1 DEF ChargeAttempt, TypeOK
  <2> QED BY <1>3, <2>1, <2>4, <2>5 DEF ChargeAttempt, TypeInv, TypeOK, ChargeHasBudget, PCs
<1>4. CASE Park
  <2> DEFINE f == [CurrentEntry(view, slot) EXCEPT !.parked = TRUE]
  <2>1. slot \in Slots
    BY <1>4 DEF Park, TypeOK
  <2>2. f \in Entries
    BY <2>1, CurrentEntryType DEF Entries, TypeOK
  <2>3. cs' \in Sets /\ view' \in Sets
    BY <1>4, <2>1, <2>2, PatchType DEF Park
  <2> QED BY <1>4, <2>3 DEF Park, TypeInv, TypeOK, ChargeHasBudget, PCs
<1>5. CASE DeadLetter
  <2>1. slot \in Slots /\ view.gen \in Generations
    BY <1>5 DEF DeadLetter, TypeOK, Sets
  <2>2. pod' \in [Slots -> Pods]
    <3>1. [pod[slot] EXCEPT !.dead = view.gen] \in Pods
      BY <2>1, PodRecordType DEF TypeOK
    <3> QED BY <1>5, <2>1, <3>1 DEF DeadLetter, TypeOK
  <2> QED BY <1>5, <2>2 DEF DeadLetter, TypeInv, TypeOK, ChargeHasBudget, PCs
<1>6. CASE ResetHistory
  <2>1. slot \in Slots /\ NoEntry \in Entries
    BY <1>6 DEF ResetHistory, TypeOK, NoEntry, Entries
  <2>2. cs' \in Sets /\ view' \in Sets
    BY <1>6, <2>1, PatchType DEF ResetHistory
  <2> QED BY <1>6, <2>2 DEF ResetHistory, TypeInv, TypeOK, ChargeHasBudget, PCs
<1>7. CASE DeleteForRebuild
  <2>1. slot \in Slots
    BY <1>7 DEF DeleteForRebuild, TypeOK
  <2>2. pod' \in [Slots -> Pods]
    BY <1>7, <2>1, DeleteType DEF DeleteForRebuild, TypeOK
  <2>3. rebuilt' \in [Slots -> [Generations -> Nat]]
    BY <1>7, <2>1 DEF DeleteForRebuild, TypeOK, Generations
  <2> QED BY <1>7, <2>2, <2>3 DEF DeleteForRebuild, TypeInv, TypeOK, ChargeHasBudget, PCs
<1>8. CASE CreatePod
  <2>1. slot \in Slots /\ view.tmpl \in Generations
    BY <1>8 DEF CreatePod, TypeOK, Sets
  <2>2. pod' \in [Slots -> Pods]
    BY <1>8, <2>1, PodRecordType DEF CreatePod, TypeOK
  <2> QED BY <1>8, <2>2 DEF CreatePod, TypeInv, TypeOK, ChargeHasBudget, PCs
<1>e. CASE StashExtra
  BY <1>e DEF StashExtra, TypeInv, TypeOK, ChargeHasBudget, PCs
<1>9. CASE DeleteExtra
  <2>1. pod' \in [Slots -> Pods]
    BY <1>9, DeleteType DEF DeleteExtra, TypeOK
  <2> QED BY <1>9, <2>1 DEF DeleteExtra, TypeInv, TypeOK, ChargeHasBudget, PCs
<1>10. CASE EndPass
  BY <1>10 DEF EndPass, TypeInv, TypeOK, ChargeHasBudget, PCs
<1>11. CASE Abandon
  BY <1>11 DEF Abandon, TypeInv, TypeOK, ChargeHasBudget, PCs
<1>12. CASE EditSpec
  <2>1. cs' \in Sets
    <3>1. PICK w \in SUBSET Slots, t \in {cs.tmpl, cs.gen + 1} :
            cs' = [cs EXCEPT !.gen = @ + 1, !.tmpl = t, !.want = w]
      BY <1>12 DEF EditSpec
    <3>2. cs.gen + 1 \in Generations /\ t \in Generations
      BY <1>12 DEF EditSpec, TypeOK, Sets, Generations
    <3> QED BY <3>1, <3>2 DEF TypeOK, Sets
  <2> QED BY <1>12, <2>1 DEF EditSpec, passVars, TypeInv, TypeOK, ChargeHasBudget, CurrentEntry
<1>13. CASE Sync
  BY <1>13 DEF Sync, passVars, TypeInv, TypeOK, ChargeHasBudget, CurrentEntry
<1>14. ASSUME NEW p \in Slots, PodFails(p) \/ UserDeletes(p) \/ PodGone(p) PROVE TypeInv'
  <2>1. pod' \in [Slots -> Pods]
    <3>1. /\ [pod[p] EXCEPT !.terminal = TRUE] \in Pods
          /\ [pod[p] EXCEPT !.at = "terminating"] \in Pods
          /\ NoPod \in Pods
      BY PodRecordType DEF TypeOK
    <3> QED BY <1>14, <3>1 DEF PodFails, UserDeletes, PodGone, TypeOK
  <2> QED BY <1>14, <2>1 DEF PodFails, UserDeletes, PodGone, passVars, TypeInv, TypeOK,
                             ChargeHasBudget, CurrentEntry
<1>15. ASSUME NEW p \in Slots, BackoffElapses(p) PROVE TypeInv'
  BY <1>15 DEF BackoffElapses, passVars, TypeInv, TypeOK, ChargeHasBudget, CurrentEntry
<1>16. CASE UNCHANGED vars
  BY <1>16 DEF vars, passVars, TypeInv, TypeOK, ChargeHasBudget, CurrentEntry
<1> QED BY <1>1, <1>2, <1>3, <1>4, <1>5, <1>6, <1>7, <1>8, <1>e, <1>9, <1>10, <1>11, <1>12, <1>13,
           <1>14, <1>15, <1>16 DEF Next, PassStep

(* The rebuild bookkeeping is well typed in every reachable state: no history entry
   ever counts past maxRebuildAttempts, even when a pass starts from a stale copy of
   the CocoonSet. *)
THEOREM TypeCorrect == Spec => []TypeOK
<1>1. Init => TypeInv
  BY RebuildAssumption DEF Init, TypeInv, TypeOK, ChargeHasBudget, Sets, Entries, NoEntry,
                           Pods, NoPod, Generations, PCs
<1> QED BY <1>1, TypeStep, PTL DEF Spec, TypeInv

-----------------------------------------------------------------------------
(* The inductive invariant of the budget *)

(* The generation the next charge is made at, or a later one. *)
ChargeGen == IF pc = "idle" THEN cs.gen ELSE view.gen

(* A pass's copy has the history the API server holds, at its generation or an
   earlier one. *)
ViewTracksSet ==
    pc # "idle" => /\ view.history = cs.history /\ view.gen <= cs.gen
                   /\ view.gen = cs.gen => view.want = cs.want

(* No entry is from the future, and one of the current generation is of a slot the
   spec names, so no write prunes it. *)
EntriesAreWanted ==
    \A p \in Slots : /\ cs.history[p].gen <= ChargeGen
                     /\ cs.history[p].gen = cs.gen => p \in cs.want

(* What a generation paid is on record while that generation may pay again. *)
PaidIsRecorded ==
    \A p \in Slots : \A g \in Generations :
        IF cs.history[p].gen = g
        THEN rebuilt[p][g] <= cs.history[p].count
        ELSE g >= ChargeGen => rebuilt[p][g] = 0

(* The delete in hand is already on record. *)
DeleteIsCharged ==
    pc = "delete" /\ charge # 0 =>
        /\ cs.history[slot].gen = charge
        /\ rebuilt[slot][charge] < cs.history[slot].count

InHand(p) == p \in todo \/ (p = slot /\ pc \in {"charge", "park", "letter", "reset"})

(* A dead-letter is at least as new as its slot's entry, both as the pass saw it
   and as it stands. *)
DeadLetterIsNewest ==
    /\ \A p \in Slots : pod[p].dead # 0 =>
         cs.history[p].gen <= pod[p].dead /\ pod[p].dead <= cs.gen
    /\ pc # "idle" => \A p \in Slots :
         /\ seen[p].dead <= view.gen
         /\ InHand(p) => /\ pod[p].dead \in {0, seen[p].dead}
                         /\ seen[p].dead # 0 => cs.history[p].gen <= seen[p].dead

SlotInHand ==
    /\ pc \in {"charge", "park", "reset"} => slot \in view.want
    /\ pc \notin {"idle", "walk"} => slot \notin todo
    /\ pc \in {"charge", "park", "letter"} => seen[slot].dead = 0
    /\ pc = "reset" => seen[slot].dead # 0 /\ seen[slot].dead # view.gen

(* Rebuilding a dead-lettered pod after an edit is not charged. *)
ResetIsFree == pc = "reset" => charge = 0

BudgetInv ==
    /\ ViewTracksSet /\ EntriesAreWanted /\ PaidIsRecorded /\ DeleteIsCharged
    /\ DeadLetterIsNewest /\ SlotInHand /\ ResetIsFree /\ RebuildBudget

(* What the parts of the state the proof reasons about are. *)
LEMMA Fields ==
    ASSUME TypeOK
    PROVE  /\ cs.gen \in Nat /\ view.gen \in Nat
           /\ cs.gen \in Generations /\ view.gen \in Generations
           /\ \A p \in Slots : /\ cs.history[p].gen \in Nat /\ cs.history[p].count \in Nat
                              /\ cs.history[p].count <= maxRebuildAttempts
                              /\ pod[p].dead \in Nat /\ seen[p].dead \in Nat
                              /\ \A g \in Generations : rebuilt[p][g] \in Nat
<1>1. cs.gen \in Generations /\ view.gen \in Generations
  BY DEF TypeOK, Sets
<1>2. ASSUME NEW p \in Slots
      PROVE  /\ cs.history[p] \in Entries /\ pod[p] \in Pods /\ seen[p] \in Pods
             /\ \A g \in Generations : rebuilt[p][g] \in Nat
  BY DEF TypeOK, Sets
<1>3. ASSUME NEW e \in Entries
      PROVE  e.gen \in Nat /\ e.count \in Nat /\ e.count <= maxRebuildAttempts
  BY RebuildAssumption DEF Entries
<1>4. ASSUME NEW q \in Pods PROVE q.dead \in Nat
  BY RebuildAssumption DEF Pods
<1> QED BY <1>1, <1>2, <1>3, <1>4, RebuildAssumption DEF Generations

(* What a history write leaves behind, entry by entry. *)
LEMMA PatchEntries ==
    ASSUME TypeOK, ViewTracksSet, pc # "idle", NEW p \in Slots, NEW e \in Entries,
           patchRebuildHistory(p, e)
    PROVE  /\ cs'.gen = cs.gen /\ cs'.want = cs.want /\ view' = cs'
           /\ \A s \in Slots : cs'.history[s] =
                IF s \notin view.want THEN NoEntry ELSE IF s = p THEN e ELSE cs.history[s]
BY DEF patchRebuildHistory, TypeOK, Sets, ViewTracksSet

(* A history write that gives the slot in hand an entry of the pass's generation, or
   drops an older one, loses no attempt that the current generation paid for. *)
LEMMA PatchKeepsRecord ==
    ASSUME TypeOK, ViewTracksSet, EntriesAreWanted, PaidIsRecorded, pc # "idle", pc' # "idle",
           NEW p \in Slots, p \in view.want, NEW e \in Entries,
           patchRebuildHistory(p, e), UNCHANGED rebuilt,
           \/ e.gen = view.gen /\ rebuilt[p][view.gen] <= e.count
           \/ e = NoEntry /\ cs.history[p].gen < view.gen
    PROVE  ViewTracksSet' /\ EntriesAreWanted' /\ PaidIsRecorded'
<1>1. /\ cs'.gen = cs.gen /\ cs'.want = cs.want /\ view' = cs' /\ ChargeGen' = cs.gen
      /\ ChargeGen = view.gen /\ view.gen <= cs.gen
      /\ cs.gen \in Generations /\ view.gen \in Generations /\ cs.gen \in Nat /\ view.gen \in Nat
  BY PatchEntries, Fields DEF ChargeGen, ViewTracksSet
<1>2. ViewTracksSet'
  BY <1>1 DEF ViewTracksSet
<1>3. NoEntry.gen = 0 /\ NoEntry.count = 0 /\ \A g \in Generations : g \in Nat \ {0}
  BY RebuildAssumption DEF NoEntry, Generations
<1>4. ASSUME NEW s \in Slots
      PROVE  /\ cs'.history[s].gen <= cs.gen
             /\ cs'.history[s].gen = cs.gen => s \in cs.want
  <2>1. CASE s \notin view.want
    BY <1>1, <1>3, <2>1, PatchEntries
  <2>2. CASE s \in view.want /\ s # p
    BY <1>1, <2>2, PatchEntries, Fields DEF EntriesAreWanted
  <2>3. CASE s = p /\ e = NoEntry
    BY <1>1, <1>3, <2>3, PatchEntries
  <2>4. CASE s = p /\ e # NoEntry
    BY <1>1, <2>4, PatchEntries DEF ViewTracksSet
  <2> QED BY <2>1, <2>2, <2>3, <2>4
<1>5. EntriesAreWanted'
  BY <1>1, <1>4 DEF EntriesAreWanted
<1>6. ASSUME NEW s \in Slots, NEW g \in Generations
      PROVE  IF cs'.history[s].gen = g THEN rebuilt[s][g] <= cs'.history[s].count
             ELSE g >= cs.gen => rebuilt[s][g] = 0
  <2>0. g \in Nat \ {0} /\ rebuilt[s][g] \in Nat /\ cs.history[s].gen \in Nat
    BY <1>3, Fields
  <2>1. CASE s \notin view.want
    <3>1. cs'.history[s].gen # g
      BY <1>3, <2>1, PatchEntries
    <3>2. ASSUME g >= cs.gen PROVE cs.history[s].gen # g
      <4>1. SUFFICES ASSUME cs.history[s].gen = g PROVE FALSE
        OBVIOUS
      <4>2. cs.gen = g /\ view.gen = cs.gen
        BY <1>1, <2>0, <3>2, <4>1 DEF EntriesAreWanted
      <4> QED BY <2>1, <4>1, <4>2 DEF EntriesAreWanted, ViewTracksSet
    <3> QED BY <1>1, <2>0, <3>1, <3>2 DEF PaidIsRecorded
  <2>2. CASE s \in view.want /\ s # p
    <3>1. cs'.history[s] = cs.history[s]
      BY <2>2, PatchEntries
    <3> QED BY <1>1, <2>0, <3>1 DEF PaidIsRecorded
  <2>3. CASE s = p /\ e = NoEntry /\ cs.history[p].gen < view.gen
    <3>1. cs'.history[s].gen # g
      BY <1>3, <2>3, PatchEntries
    <3> QED BY <1>1, <2>0, <2>3, <3>1 DEF PaidIsRecorded
  <2>4. CASE s = p /\ e.gen = view.gen /\ rebuilt[p][view.gen] <= e.count
    <3>1. cs'.history[s] = e
      BY <2>4, PatchEntries
    <3>2. g > view.gen => cs.history[p].gen # g
      BY <1>1, <2>0 DEF EntriesAreWanted
    <3> QED BY <1>1, <2>0, <2>4, <3>1, <3>2 DEF PaidIsRecorded
  <2> QED BY <2>1, <2>2, <2>3, <2>4
<1>7. PaidIsRecorded'
  BY <1>1, <1>6 DEF PaidIsRecorded
<1> QED BY <1>2, <1>5, <1>7

(* A pass that writes no history and then ends or goes on keeps the record. *)
LEMMA PassMovesOn ==
    ASSUME TypeOK, ViewTracksSet, EntriesAreWanted, PaidIsRecorded, pc # "idle",
           UNCHANGED <<cs, view, rebuilt>>
    PROVE  ViewTracksSet' /\ EntriesAreWanted' /\ PaidIsRecorded'
<1>1. ChargeGen = view.gen /\ ChargeGen' \in {view.gen, cs.gen} /\ view.gen <= cs.gen
  BY DEF ViewTracksSet, ChargeGen
<1>2. ViewTracksSet'
  BY DEF ViewTracksSet
<1>3. EntriesAreWanted'
  BY <1>1, Fields DEF EntriesAreWanted
<1>4. PaidIsRecorded'
  <2>1. \A g \in Generations : g \in Nat
    BY RebuildAssumption DEF Generations
  <2> QED BY <1>1, <2>1, Fields DEF PaidIsRecorded
<1> QED BY <1>2, <1>3, <1>4

(* What happens to pods outside a pass moves no dead-letter, except that it goes with
   its pod. *)
LEMMA PodEvents ==
    ASSUME TypeOK, NEW q \in Slots, PodFails(q) \/ UserDeletes(q) \/ PodGone(q)
    PROVE  \A p \in Slots : pod'[p].dead = pod[p].dead \/ pod'[p].dead = 0
<1> SUFFICES ASSUME NEW p \in Slots PROVE pod'[p].dead = pod[p].dead \/ pod'[p].dead = 0
  OBVIOUS
<1>1. pod \in [Slots -> Pods] /\ pod[p] \in Pods /\ pod[q] \in Pods
  BY DEF TypeOK
<1>2. CASE p # q
  BY <1>1, <1>2 DEF PodFails, UserDeletes, PodGone
<1>3. CASE p = q
  BY <1>1, <1>3 DEF PodFails, UserDeletes, PodGone, Pods, NoPod
<1> QED BY <1>2, <1>3

(* What a delete does to each pod. *)
LEMMA DeleteEffect ==
    ASSUME TypeOK, NEW q \in Slots, DeletePod(q)
    PROVE  \A p \in Slots :
             /\ \/ pod'[p].at = pod[p].at
                \/ p = q /\ pod[p].at = "present" /\ pod'[p].at = "terminating"
             /\ pod'[p].dead = pod[p].dead
<1> SUFFICES ASSUME NEW p \in Slots
             PROVE  /\ \/ pod'[p].at = pod[p].at
                       \/ p = q /\ pod[p].at = "present" /\ pod'[p].at = "terminating"
                    /\ pod'[p].dead = pod[p].dead
  OBVIOUS
<1>1. pod \in [Slots -> Pods] /\ pod[p] \in Pods /\ pod[q] \in Pods
  BY DEF TypeOK
<1>2. pod' = [pod EXCEPT ![q] = [pod[q] EXCEPT !.at = IF @ = "present" THEN "terminating" ELSE @]]
  BY DEF DeletePod
<1>3. CASE p # q
  BY <1>1, <1>2, <1>3
<1>4. CASE p = q
  <2>1. pod'[p] = [pod[p] EXCEPT !.at = IF @ = "present" THEN "terminating" ELSE @]
    BY <1>1, <1>2, <1>4
  <2> QED BY <1>1, <1>4, <2>1 DEF Pods
<1> QED BY <1>3, <1>4

(* Every step keeps the budget's invariant while passes start from a fresh copy. *)
LEMMA BudgetStep ==
    ASSUME CacheLag = FALSE, TypeOK, TypeOK', BudgetInv, [Next]_vars
    PROVE  BudgetInv'
<1> USE DEF BudgetInv
<1>0. /\ \A g \in Generations : g \in Nat \ {0}
      /\ NoEntry.gen = 0 /\ NoEntry \in Entries
      /\ pc \notin {"idle", "walk"} => slot \in Slots
  BY RebuildAssumption DEF Generations, NoEntry, Entries, TypeOK
<1>1. CASE Reconcile
  <2>1. view' = cs /\ pc' = "walk" /\ seen' = pod
    BY <1>1 DEF Reconcile
  <2>2. ViewTracksSet' /\ EntriesAreWanted' /\ PaidIsRecorded'
    BY <1>1, <2>1, Fields DEF Reconcile, ViewTracksSet, EntriesAreWanted, PaidIsRecorded, ChargeGen
  <2>3. DeadLetterIsNewest'
    BY <1>1, <2>1, Fields DEF Reconcile, DeadLetterIsNewest
  <2> QED BY <1>1, <2>2, <2>3 DEF Reconcile, DeleteIsCharged, SlotInHand, ResetIsFree, RebuildBudget
<1>2. ASSUME NEW p \in Slots, Walk(p) PROVE BudgetInv'
  <2>1. seen[p] \in Pods /\ pc = "walk" /\ p \in todo /\ slot' = p /\ todo' = todo \ {p}
    BY <1>2 DEF Walk, TypeOK
  <2>2. pc' # "idle"
    BY <1>2, <2>1, VisitResult DEF Walk
  <2>3. ViewTracksSet' /\ EntriesAreWanted' /\ PaidIsRecorded'
    BY <1>2, <2>1, <2>2 DEF Walk, ViewTracksSet, EntriesAreWanted, PaidIsRecorded, ChargeGen
  <2>4. DeadLetterIsNewest'
    BY <1>2, <2>1, <2>2 DEF Walk, DeadLetterIsNewest, InHand
  <2>5. SlotInHand'
    BY <1>2, <2>1, VisitResult DEF Walk, SlotInHand
  <2>6. DeleteIsCharged' /\ ResetIsFree'
    BY <1>2 DEF Walk, DeleteIsCharged, ResetIsFree
  <2> QED BY <1>2, <2>3, <2>4, <2>5, <2>6 DEF Walk, RebuildBudget
<1>3. CASE ChargeAttempt
  <2> DEFINE e == CurrentEntry(view, slot)
             f == [e EXCEPT !.count = @ + 1, !.last = tick[slot]]
  <2>1. /\ pc = "charge" /\ pc' = "delete" /\ charge' = view.gen /\ patchRebuildHistory(slot, f)
        /\ slot \in Slots /\ slot \in view.want /\ view \in Sets
    BY <1>3, <1>0 DEF ChargeAttempt, SlotInHand, TypeOK
  <2>2. e \in Entries /\ e.gen = view.gen /\ f.gen = e.gen /\ f.count = e.count + 1 /\ e.count \in Nat
    BY <2>1, CurrentEntryType, RebuildAssumption DEF Entries
  <2>3. rebuilt[slot][view.gen] <= e.count
    <3>1. CASE view.history[slot].gen = view.gen
      BY <2>1, <3>1, Fields DEF CurrentEntry, ViewTracksSet, PaidIsRecorded
    <3>2. CASE view.history[slot].gen # view.gen
      <4>1. rebuilt[slot][view.gen] = 0
        BY <2>1, <3>2, Fields DEF PaidIsRecorded, ViewTracksSet, ChargeGen
      <4> QED BY <2>2, <4>1
    <3> QED BY <3>1, <3>2
  <2>4. f \in Entries
    <3>1. cs'.history[slot] = f
      BY <2>1 DEF patchRebuildHistory, TypeOK, Sets
    <3> QED BY <2>1, <3>1 DEF TypeOK, Sets
  <2>5. cs'.history[slot] = f
    BY <2>1, <2>4, PatchEntries
  <2>6. rebuilt[slot][view.gen] \in Nat /\ rebuilt[slot][view.gen] <= f.count
    BY <2>1, <2>2, <2>3, Fields
  <2>7. UNCHANGED <<pod, seen, todo, slot, rebuilt>>
    BY <1>3 DEF ChargeAttempt
  <2> HIDE DEF e, f
  <2>8. ViewTracksSet' /\ EntriesAreWanted' /\ PaidIsRecorded'
    BY <2>1, <2>2, <2>4, <2>6, <2>7, PatchKeepsRecord
  <2>9. DeleteIsCharged'
    BY <2>1, <2>2, <2>3, <2>5, <2>6, <2>7 DEF DeleteIsCharged
  <2>10. DeadLetterIsNewest'
    <3>1. pod[slot].dead = 0
      BY <2>1 DEF SlotInHand, DeadLetterIsNewest, InHand
    <3>2. \A s \in Slots : s = slot \/ cs'.history[s].gen = 0 \/ cs'.history[s] = cs.history[s]
      BY <1>0, <2>1, <2>4, PatchEntries
    <3>3. cs'.gen = cs.gen /\ view' = cs' /\ view.gen <= cs.gen
      BY <2>1, <2>4, PatchEntries DEF ViewTracksSet
    <3>4. slot \notin todo
      BY <2>1 DEF SlotInHand
    <3> QED BY <2>1, <2>7, <3>1, <3>2, <3>3, <3>4, Fields DEF DeadLetterIsNewest, InHand
  <2>11. SlotInHand' /\ ResetIsFree'
    BY <2>1, <2>7 DEF SlotInHand, ResetIsFree
  <2> QED BY <2>7, <2>8, <2>9, <2>10, <2>11 DEF RebuildBudget
<1>4. CASE Park
  <2> DEFINE e == CurrentEntry(view, slot)
             f == [e EXCEPT !.parked = TRUE]
  <2>1. /\ pc = "park" /\ pc' = "letter" /\ patchRebuildHistory(slot, f)
        /\ slot \in Slots /\ slot \in view.want /\ view \in Sets
        /\ UNCHANGED <<pod, seen, todo, slot, rebuilt>>
    BY <1>4, <1>0 DEF Park, SlotInHand, TypeOK
  <2>2. e \in Entries /\ e.gen = view.gen /\ f.gen = e.gen /\ f.count = e.count /\ e.count \in Nat
    BY <2>1, CurrentEntryType, RebuildAssumption DEF Entries
  <2>3. rebuilt[slot][view.gen] <= e.count
    <3>1. CASE view.history[slot].gen = view.gen
      BY <2>1, <3>1, Fields DEF CurrentEntry, ViewTracksSet, PaidIsRecorded
    <3>2. CASE view.history[slot].gen # view.gen
      <4>1. rebuilt[slot][view.gen] = 0
        BY <2>1, <3>2, Fields DEF PaidIsRecorded, ViewTracksSet, ChargeGen
      <4> QED BY <2>2, <4>1
    <3> QED BY <3>1, <3>2
  <2>4. f \in Entries
    BY <2>2 DEF Entries
  <2> HIDE DEF e, f
  <2>5. ViewTracksSet' /\ EntriesAreWanted' /\ PaidIsRecorded'
    BY <2>1, <2>2, <2>3, <2>4, PatchKeepsRecord
  <2>6. DeadLetterIsNewest'
    <3>1. pod[slot].dead = 0 /\ seen[slot].dead = 0 /\ slot \notin todo
      BY <2>1 DEF SlotInHand, DeadLetterIsNewest, InHand
    <3>2. \A s \in Slots : s = slot \/ cs'.history[s].gen = 0 \/ cs'.history[s] = cs.history[s]
      BY <1>0, <2>1, <2>4, PatchEntries
    <3>3. cs'.gen = cs.gen /\ view' = cs' /\ view.gen <= cs.gen
      BY <2>1, <2>4, PatchEntries DEF ViewTracksSet
    <3> QED BY <2>1, <3>1, <3>2, <3>3, Fields DEF DeadLetterIsNewest, InHand
  <2> QED BY <2>1, <2>5, <2>6 DEF RebuildBudget, DeleteIsCharged, SlotInHand, ResetIsFree
<1>5. CASE DeadLetter
  <2>1. /\ pc = "letter" /\ pc' \in {"idle", "walk"} /\ slot \in Slots
        /\ UNCHANGED <<cs, view, seen, todo, slot, charge, rebuilt>>
    BY <1>5, <1>0 DEF DeadLetter
  <2>2. \A p \in Slots : pod'[p].dead = pod[p].dead \/ (p = slot /\ pod'[p].dead = view.gen)
    BY <1>5, <2>1 DEF DeadLetter, TypeOK, Pods
  <2>3. ViewTracksSet' /\ EntriesAreWanted' /\ PaidIsRecorded'
    BY <2>1, PassMovesOn
  <2>4. DeadLetterIsNewest'
    BY <2>1, <2>2, Fields
    DEF DeadLetterIsNewest, InHand, SlotInHand, EntriesAreWanted, ChargeGen, ViewTracksSet
  <2> QED BY <2>1, <2>3, <2>4 DEF RebuildBudget, DeleteIsCharged, SlotInHand, ResetIsFree
<1>6. CASE ResetHistory
  <2>1. /\ pc = "reset" /\ pc' = "delete" /\ patchRebuildHistory(slot, NoEntry)
        /\ slot \in Slots /\ slot \in view.want
        /\ UNCHANGED <<pod, seen, todo, slot, charge, rebuilt>>
    BY <1>6, <1>0 DEF ResetHistory, SlotInHand
  <2>2. cs.history[slot].gen < view.gen
    BY <2>1, Fields DEF SlotInHand, DeadLetterIsNewest, InHand
  <2>3. ViewTracksSet' /\ EntriesAreWanted' /\ PaidIsRecorded'
    BY <1>0, <2>1, <2>2, PatchKeepsRecord
  <2>4. charge = 0
    BY <2>1 DEF ResetIsFree
  <2>5. DeadLetterIsNewest'
    <3>1. \A s \in Slots : cs'.history[s].gen = 0 \/ cs'.history[s] = cs.history[s]
      BY <1>0, <2>1, PatchEntries
    <3>2. cs'.gen = cs.gen /\ view' = cs' /\ view.gen <= cs.gen
      BY <1>0, <2>1, PatchEntries DEF ViewTracksSet
    <3> QED BY <2>1, <3>1, <3>2, Fields DEF DeadLetterIsNewest, InHand
  <2> QED BY <2>1, <2>3, <2>4, <2>5 DEF RebuildBudget, DeleteIsCharged, SlotInHand, ResetIsFree
<1>7. CASE DeleteForRebuild
  <2>1. /\ pc = "delete" /\ pc' = "walk" /\ slot \in Slots
        /\ UNCHANGED <<cs, view, seen, todo, slot, charge>>
    BY <1>7, <1>0 DEF DeleteForRebuild
  <2>2. \A p \in Slots : pod'[p].dead = pod[p].dead
    BY <1>7, <2>1, DeleteEffect DEF DeleteForRebuild
  <2>3. ViewTracksSet' /\ EntriesAreWanted'
    BY <2>1 DEF ViewTracksSet, EntriesAreWanted, ChargeGen
  <2>4. DeadLetterIsNewest' /\ SlotInHand' /\ DeleteIsCharged' /\ ResetIsFree'
    BY <2>1, <2>2 DEF DeadLetterIsNewest, InHand, SlotInHand, DeleteIsCharged, ResetIsFree
  <2>5. PaidIsRecorded' /\ RebuildBudget'
    <3>1. CASE rebuilt' = rebuilt
      BY <2>1, <3>1 DEF PaidIsRecorded, RebuildBudget, ChargeGen
    <3>2. CASE rebuilt' # rebuilt
      <4>1. charge \in Generations /\ rebuilt' = [rebuilt EXCEPT ![slot][charge] = @ + 1]
        BY <1>7, <3>2, RebuildAssumption DEF DeleteForRebuild, TypeOK, Generations
      <4>2. /\ rebuilt'[slot][charge] = rebuilt[slot][charge] + 1
            /\ \A p \in Slots : \A g \in Generations :
                  p # slot \/ g # charge => rebuilt'[p][g] = rebuilt[p][g]
        BY <2>1, <4>1 DEF TypeOK
      <4>3. /\ cs.history[slot].gen = charge
            /\ rebuilt'[slot][charge] <= cs.history[slot].count
            /\ rebuilt'[slot][charge] <= maxRebuildAttempts
        BY <1>0, <2>1, <4>1, <4>2, Fields, RebuildAssumption DEF DeleteIsCharged
      <4>4. RebuildBudget'
        BY <4>2, <4>3 DEF RebuildBudget
      <4>5. PaidIsRecorded'
        BY <2>1, <4>2, <4>3 DEF PaidIsRecorded, ChargeGen
      <4> QED BY <4>4, <4>5
    <3> QED BY <3>1, <3>2
  <2> QED BY <2>3, <2>4, <2>5
<1>8. CASE CreatePod \/ DeleteExtra
  <2>1. /\ pc \in {"create", "extra"} /\ pc' = "walk" /\ slot \in Slots
        /\ UNCHANGED <<cs, view, seen, todo, slot, charge, rebuilt>>
    BY <1>8, <1>0 DEF CreatePod, DeleteExtra
  <2>2. \A p \in Slots : pod'[p].dead = pod[p].dead \/ pod'[p].dead = 0
    BY <1>8, <2>1 DEF CreatePod, DeleteExtra, DeletePod, TypeOK, Pods
  <2>3. ViewTracksSet' /\ EntriesAreWanted' /\ PaidIsRecorded'
    BY <2>1 DEF ViewTracksSet, EntriesAreWanted, PaidIsRecorded, ChargeGen
  <2>4. DeadLetterIsNewest'
    BY <2>1, <2>2, Fields DEF DeadLetterIsNewest, InHand
  <2> QED BY <2>1, <2>3, <2>4 DEF RebuildBudget, DeleteIsCharged, SlotInHand, ResetIsFree
<1>e. CASE StashExtra
  <2>1. /\ pc = "stash" /\ pc' = "extra" /\ view' \in {view, cs} /\ slot \in Slots
        /\ UNCHANGED <<cs, pod, seen, todo, slot, charge, rebuilt>>
    BY <1>e, <1>0 DEF StashExtra
  <2>2. ViewTracksSet' /\ view.gen <= view'.gen /\ view'.gen \in Nat
    BY <2>1, Fields DEF ViewTracksSet
  <2>3. EntriesAreWanted'
    BY <2>1, <2>2, Fields DEF EntriesAreWanted, ChargeGen
  <2>4. PaidIsRecorded'
    BY <2>1, <2>2, Fields, RebuildAssumption DEF PaidIsRecorded, ChargeGen, Generations
  <2>5. DeadLetterIsNewest'
    BY <2>1, <2>2, Fields DEF DeadLetterIsNewest, InHand
  <2> QED BY <2>1, <2>2, <2>3, <2>4, <2>5 DEF RebuildBudget, DeleteIsCharged, SlotInHand, ResetIsFree
<1>9. CASE EndPass \/ Abandon
  <2>1. pc # "idle" /\ pc' = "idle" /\ UNCHANGED <<cs, pod, view, seen, todo, slot, charge, rebuilt>>
    BY <1>9 DEF EndPass, Abandon
  <2>2. ViewTracksSet' /\ EntriesAreWanted' /\ PaidIsRecorded'
    BY <2>1, PassMovesOn
  <2> QED BY <2>1, <2>2
      DEF RebuildBudget, DeleteIsCharged, SlotInHand, DeadLetterIsNewest, ResetIsFree
<1>10. CASE EditSpec
  <2>1. /\ cs'.gen = cs.gen + 1 /\ cs'.history = cs.history
        /\ UNCHANGED <<pod, pc, view, seen, todo, slot, charge, rebuilt>>
    BY <1>10 DEF EditSpec, passVars, TypeOK, Sets
  <2>2. ViewTracksSet'
    BY <2>1, Fields DEF ViewTracksSet
  <2>3. EntriesAreWanted' /\ PaidIsRecorded'
    BY <1>0, <2>1, Fields DEF EntriesAreWanted, PaidIsRecorded, ChargeGen, ViewTracksSet
  <2>4. DeadLetterIsNewest'
    BY <2>1, Fields DEF DeadLetterIsNewest, InHand
  <2> QED BY <2>1, <2>2, <2>3, <2>4 DEF RebuildBudget, DeleteIsCharged, SlotInHand, ResetIsFree
<1>11. ASSUME NEW q \in Slots, PodFails(q) \/ UserDeletes(q) \/ PodGone(q) PROVE BudgetInv'
  <2>1. UNCHANGED <<cs, pc, view, seen, todo, slot, charge, rebuilt>>
    BY <1>11 DEF PodFails, UserDeletes, PodGone, passVars
  <2>2. \A p \in Slots : pod'[p].dead = pod[p].dead \/ pod'[p].dead = 0
    BY <1>11, PodEvents
  <2>3. DeadLetterIsNewest'
    BY <2>1, <2>2, Fields DEF DeadLetterIsNewest, InHand
  <2> QED BY <2>1, <2>3 DEF ViewTracksSet, EntriesAreWanted, PaidIsRecorded, ChargeGen,
                            RebuildBudget, DeleteIsCharged, SlotInHand, ResetIsFree
<1>12. CASE Sync \/ (\E p \in Slots : BackoffElapses(p)) \/ UNCHANGED vars
  <2>1. UNCHANGED <<cs, pod, pc, view, seen, todo, slot, charge, rebuilt>>
    BY <1>12 DEF Sync, BackoffElapses, vars, passVars
  <2> QED BY <2>1 DEF ViewTracksSet, EntriesAreWanted, PaidIsRecorded, ChargeGen, InHand,
                      DeadLetterIsNewest, RebuildBudget, DeleteIsCharged, SlotInHand, ResetIsFree
<1> QED BY <1>1, <1>2, <1>3, <1>4, <1>5, <1>6, <1>7, <1>8, <1>e, <1>9, <1>10, <1>11, <1>12
        DEF Next, PassStep

(* The initial states satisfy the budget's invariant. *)
LEMMA BudgetInit == Init => TypeInv /\ BudgetInv
<1>1. Init => TypeInv
  BY RebuildAssumption DEF Init, TypeInv, TypeOK, ChargeHasBudget, Sets, Entries, NoEntry,
                           Pods, NoPod, Generations, PCs
<1>2. Init => BudgetInv
  BY RebuildAssumption DEF Init, BudgetInv, ViewTracksSet, EntriesAreWanted, PaidIsRecorded,
       DeleteIsCharged, DeadLetterIsNewest, SlotInHand, ResetIsFree, RebuildBudget, ChargeGen,
       NoEntry, NoPod, Generations
<1> QED BY <1>1, <1>2

(* However passes, crashes and spec edits interleave, no generation of a CocoonSet
   pays for more than maxRebuildAttempts deletes of one pod, provided that a pass
   starts from the CocoonSet as the last one left it. *)
THEOREM BudgetHolds ==
    ASSUME CacheLag = FALSE
    PROVE  Spec => []RebuildBudget
<1>1. Init => TypeInv /\ BudgetInv
  BY BudgetInit
<1>2. TypeInv /\ BudgetInv /\ [Next]_vars => (TypeInv /\ BudgetInv)'
  BY TypeStep, BudgetStep DEF TypeInv
<1>3. BudgetInv => RebuildBudget
  BY DEF BudgetInv
<1> QED BY <1>1, <1>2, <1>3, PTL DEF Spec

-----------------------------------------------------------------------------
(* Parked pods and spent slots *)

(* What the pass is about to delete carries no dead-letter of its generation, or is not
   named by the spec; what it is about to create has budget left. *)
DeleteSparesParked ==
    /\ pc = "delete" => /\ pod[slot].dead \in {0, seen[slot].dead}
                        /\ seen[slot].dead < view.gen
    /\ pc = "stash" => slot \notin view.want /\ pod[slot].dead \in {0, seen[slot].dead}
    /\ pc = "extra" /\ pod[slot].dead = cs.gen => slot \notin cs.want

CreateHasBudget == pc = "create" => ~budgetExhausted(view, slot)

ParkInv == DeleteSparesParked /\ CreateHasBudget

(* Which pods a pass deletes and which it creates. *)
LEMMA VisitSpares ==
    ASSUME TypeOK, NEW p \in Slots, NEW q \in Pods
    PROVE  /\ Visit(view, p, q) = "delete" => q.dead # 0 /\ q.dead # view.gen
           /\ Visit(view, p, q) # "extra"
           /\ Visit(view, p, q) = "stash" => p \notin view.want
           /\ Visit(view, p, q) = "create" => ~budgetExhausted(view, p)
<1>1. CurrentEntry(view, p).count \in Nat
  BY CurrentEntryType, RebuildAssumption DEF TypeOK, Entries
<1>2. rebuildPod(view, p) \in {"letter", "park", "walk", "charge"}
  BY <1>1, RebuildAssumption DEF rebuildPod
<1>3. /\ triagePod(view, p, q) \notin {"stash", "extra", "create"}
      /\ triagePod(view, p, q) = "delete" => q.dead # 0 /\ q.dead # view.gen
  BY <1>2 DEF triagePod, Pods
<1> QED BY <1>3 DEF Visit

(* Every step keeps the pass off parked pods and spent slots. *)
LEMMA ParkStep ==
    ASSUME TypeOK, BudgetInv, ParkInv, [Next]_vars
    PROVE  ParkInv'
<1> USE DEF ParkInv, BudgetInv
<1>0. /\ \A g \in Generations : g \in Nat \ {0}
      /\ pc \notin {"idle", "walk"} => slot \in Slots
  BY RebuildAssumption DEF Generations, TypeOK
<1>1. ASSUME NEW p \in Slots, Walk(p) PROVE ParkInv'
  <2>1. /\ pc = "walk" /\ slot' = p /\ pc' = Visit(view, p, seen[p]) /\ seen[p] \in Pods
        /\ UNCHANGED <<cs, pod, view, seen>>
    BY <1>1 DEF Walk, TypeOK
  <2>2. pod[p].dead \in {0, seen[p].dead} /\ seen[p].dead <= view.gen
    BY <1>1, <2>1 DEF Walk, DeadLetterIsNewest, InHand
  <2>3. DeleteSparesParked'
    BY <2>1, <2>2, VisitSpares, Fields DEF DeleteSparesParked
  <2>4. CreateHasBudget'
    BY <2>1, VisitSpares DEF CreateHasBudget, budgetExhausted
  <2> QED BY <2>3, <2>4
<1>2. CASE ChargeAttempt
  <2>1. pc = "charge" /\ pc' = "delete" /\ slot \in Slots /\ UNCHANGED <<pod, seen, slot>>
    BY <1>0, <1>2 DEF ChargeAttempt
  <2>2. pod[slot].dead = 0 /\ seen[slot].dead = 0
    BY <2>1 DEF DeadLetterIsNewest, InHand, SlotInHand
  <2>3. view'.gen = cs.gen
    BY <1>2 DEF ChargeAttempt, patchRebuildHistory, TypeOK, Sets
  <2> QED BY <1>0, <2>1, <2>2, <2>3, Fields DEF DeleteSparesParked, CreateHasBudget
<1>3. CASE ResetHistory
  <2>1. pc = "reset" /\ pc' = "delete" /\ slot \in Slots /\ UNCHANGED <<pod, seen, slot>>
    BY <1>0, <1>3 DEF ResetHistory
  <2>2. pod[slot].dead \in {0, seen[slot].dead} /\ seen[slot].dead < view.gen
    BY <2>1, Fields DEF DeadLetterIsNewest, InHand, SlotInHand
  <2>3. view'.gen = cs.gen /\ view.gen <= cs.gen
    BY <1>3, <2>1 DEF ResetHistory, patchRebuildHistory, TypeOK, Sets, ViewTracksSet
  <2> QED BY <2>1, <2>2, <2>3, Fields DEF DeleteSparesParked, CreateHasBudget
<1>e. CASE StashExtra
  <2>1. /\ pc = "stash" /\ pc' = "extra" /\ slot \in Slots
        /\ UNCHANGED <<cs, pod, seen, slot>>
    BY <1>0, <1>e DEF StashExtra
  <2>2. /\ pod[slot].dead \in {0, seen[slot].dead} /\ seen[slot].dead <= view.gen
        /\ view.gen <= cs.gen /\ (view.gen = cs.gen => slot \notin cs.want)
    BY <2>1 DEF DeleteSparesParked, DeadLetterIsNewest, ViewTracksSet
  <2> QED BY <1>0, <2>1, <2>2, Fields DEF DeleteSparesParked, CreateHasBudget
<1>4. ASSUME pc' \in {"idle", "walk", "letter"} PROVE ParkInv'
  BY <1>4 DEF DeleteSparesParked, CreateHasBudget
<1>5. ASSUME NEW q \in Slots, PodFails(q) \/ UserDeletes(q) \/ PodGone(q) PROVE ParkInv'
  <2>1. UNCHANGED <<cs, pc, view, seen, slot>> /\ cs.gen # 0
    BY <1>0, <1>5 DEF PodFails, UserDeletes, PodGone, passVars, TypeOK, Sets
  <2>2. \A p \in Slots : pod'[p].dead = pod[p].dead \/ pod'[p].dead = 0
    BY <1>5, PodEvents
  <2> QED BY <1>0, <2>1, <2>2 DEF DeleteSparesParked, CreateHasBudget, budgetExhausted
<1>d. CASE EditSpec
  <2>1. cs'.gen = cs.gen + 1 /\ UNCHANGED <<pod, pc, view, seen, slot>>
    BY <1>d DEF EditSpec, passVars, TypeOK, Sets
  <2>2. pc = "extra" => pod'[slot].dead # cs'.gen
    BY <1>0, <2>1, Fields DEF DeadLetterIsNewest
  <2> QED BY <2>1, <2>2 DEF DeleteSparesParked, CreateHasBudget, budgetExhausted
<1>6. CASE Sync \/ (\E p \in Slots : BackoffElapses(p)) \/ UNCHANGED vars
  BY <1>6 DEF Sync, BackoffElapses, vars, passVars, DeleteSparesParked,
              CreateHasBudget, budgetExhausted
<1>7. CASE Reconcile \/ Park \/ DeadLetter \/ DeleteForRebuild \/ CreatePod \/ DeleteExtra
           \/ EndPass \/ Abandon
  <2>1. pc' \in {"idle", "walk", "letter"}
    BY <1>7 DEF Reconcile, Park, DeadLetter, DeleteForRebuild, CreatePod, DeleteExtra, EndPass,
                Abandon
  <2> QED BY <1>4, <2>1
<1> QED BY <1>1, <1>2, <1>3, <1>e, <1>5, <1>d, <1>6, <1>7 DEF Next, PassStep

(* A delete of the pass spares a pod parked at the current generation. *)
LEMMA SpareStep ==
    ASSUME TypeOK, BudgetInv, ParkInv, [Next]_vars, NEW p \in Slots,
           pod[p].at = "present", pod[p].dead = cs.gen, p \in cs.want,
           pod'[p].at = "terminating"
    PROVE  UNCHANGED pc
<1> USE DEF BudgetInv, ParkInv
<1>0. /\ cs.gen \in Nat \ {0} /\ view.gen \in Nat
      /\ pc \notin {"idle", "walk"} => slot \in Slots
  BY Fields, RebuildAssumption DEF Generations, TypeOK
<1>1. CASE DeleteForRebuild \/ DeleteExtra
  <2>1. pc \in {"delete", "extra"} /\ slot \in Slots /\ slot = p
    BY <1>0, <1>1, DeleteEffect DEF DeleteForRebuild, DeleteExtra
  <2>2. pc = "delete" => /\ seen[p].dead = cs.gen /\ seen[p].dead < view.gen
                         /\ view.gen <= cs.gen
    BY <1>0, <2>1 DEF DeleteSparesParked, ViewTracksSet
  <2> QED BY <1>0, <2>1, <2>2 DEF DeleteSparesParked
<1>2. CASE DeadLetter \/ CreatePod
  <2>1. slot \in Slots /\ pod \in [Slots -> Pods] /\ pod[slot] \in Pods
    BY <1>0, <1>2 DEF DeadLetter, CreatePod, TypeOK
  <2>2. pod'[p].at \in {pod[p].at, "present"}
    <3>1. CASE p = slot
      BY <1>2, <2>1, <3>1 DEF DeadLetter, CreatePod, Pods
    <3>2. CASE p # slot
      BY <1>2, <2>1, <3>2 DEF DeadLetter, CreatePod
    <3> QED BY <3>1, <3>2
  <2> QED BY <2>2
<1>3. CASE Reconcile \/ ChargeAttempt \/ Park \/ ResetHistory \/ StashExtra
           \/ EndPass \/ Abandon \/ \E s \in Slots : Walk(s)
  BY <1>3 DEF Reconcile, ChargeAttempt, Park, ResetHistory, StashExtra, EndPass, Abandon, Walk
<1>4. ASSUME EditSpec \/ Sync \/ UNCHANGED vars
             \/ \E s \in Slots : PodFails(s) \/ UserDeletes(s) \/ PodGone(s) \/ BackoffElapses(s)
      PROVE  UNCHANGED pc
  BY <1>4 DEF EditSpec, Sync, vars, PodFails, UserDeletes, PodGone, BackoffElapses, passVars
<1> QED BY <1>1, <1>2, <1>3, <1>4 DEF Next, PassStep

(* No step fills a slot whose budget is spent at the current generation. *)
LEMMA EmptyStep ==
    ASSUME TypeOK, BudgetInv, ParkInv, [Next]_vars, NEW p \in Slots,
           pod[p].at = "absent", budgetExhausted(cs, p)
    PROVE  pod'[p].at = "absent"
<1> USE DEF BudgetInv, ParkInv
<1>0. pc \notin {"idle", "walk"} => slot \in Slots
  BY DEF TypeOK
<1>1. CASE CreatePod
  <2>1. pc = "create" /\ slot \in Slots
    BY <1>0, <1>1 DEF CreatePod
  <2>2. slot # p
    <3>1. SUFFICES ASSUME slot = p PROVE FALSE
      OBVIOUS
    <3>2. cs.history[p].gen = cs.gen /\ cs.gen <= view.gen /\ view.gen <= cs.gen
      BY <2>1 DEF budgetExhausted, EntriesAreWanted, ChargeGen, ViewTracksSet
    <3>3. view.gen = cs.gen /\ view.history = cs.history
      BY <2>1, <3>2, Fields DEF ViewTracksSet
    <3> QED BY <2>1, <3>1, <3>3 DEF CreateHasBudget, budgetExhausted
  <2> QED BY <1>1, <2>1, <2>2 DEF CreatePod, TypeOK
<1>2. CASE DeleteForRebuild \/ DeleteExtra
  BY <1>0, <1>2, DeleteEffect DEF DeleteForRebuild, DeleteExtra
<1>3. CASE DeadLetter
  BY <1>0, <1>3 DEF DeadLetter, TypeOK
<1>4. CASE Reconcile \/ ChargeAttempt \/ Park \/ ResetHistory \/ StashExtra
           \/ EndPass \/ Abandon \/ EditSpec \/ Sync \/ UNCHANGED vars
           \/ \E s \in Slots : Walk(s) \/ BackoffElapses(s)
  BY <1>4 DEF Reconcile, ChargeAttempt, Park, ResetHistory, StashExtra, EndPass, Abandon,
              EditSpec, Sync, vars, Walk, BackoffElapses
<1>5. CASE \E s \in Slots : PodFails(s) \/ UserDeletes(s) \/ PodGone(s)
  BY <1>5 DEF PodFails, UserDeletes, PodGone, TypeOK, NoPod
<1> QED BY <1>1, <1>2, <1>3, <1>4, <1>5 DEF Next, PassStep

(* The budget's invariant and the one above hold throughout. *)
LEMMA ParkInvariant ==
    ASSUME CacheLag = FALSE
    PROVE  Spec => [](TypeOK /\ BudgetInv /\ ParkInv)
<1>1. Init => TypeInv /\ BudgetInv /\ ParkInv
  BY BudgetInit DEF Init, ParkInv, DeleteSparesParked, CreateHasBudget
<1>2. TypeInv /\ BudgetInv /\ ParkInv /\ [Next]_vars => (TypeInv /\ BudgetInv /\ ParkInv)'
  BY TypeStep, BudgetStep, ParkStep DEF TypeInv
<1>3. TypeInv => TypeOK
  BY DEF TypeInv
<1> QED BY <1>1, <1>2, <1>3, PTL DEF Spec

(* However spec edits, failing pods and abandoned passes interleave, the operator never
   deletes a pod that is dead-lettered at the current generation of a spec that names it
   (triagePod's early return): only its user does. *)
THEOREM ParkedIsLeft ==
    ASSUME CacheLag = FALSE
    PROVE  Spec => ParkedPodIsLeft
<1>1. TypeOK /\ BudgetInv /\ ParkInv /\ [Next]_vars =>
        [\A p \in Slots :
           /\ pod[p].at = "present" /\ pod[p].dead = cs.gen /\ p \in cs.want
           /\ pod'[p].at = "terminating"
           => UNCHANGED pc]_vars
  BY SpareStep
<1> QED BY <1>1, ParkInvariant, PTL DEF Spec, ParkedPodIsLeft

(* A slot that has spent its budget at the current generation is not filled again once
   its pod is gone (budgetExhausted in the slot loops): no VM is created only to be
   parked again. *)
THEOREM SpentSlotStaysEmpty ==
    ASSUME CacheLag = FALSE
    PROVE  Spec => ParkedSlotStaysEmpty
<1>1. TypeOK /\ BudgetInv /\ ParkInv /\ [Next]_vars =>
        [\A p \in Slots :
           pod[p].at = "absent" /\ budgetExhausted(cs, p) => pod'[p].at = "absent"]_vars
  BY EmptyStep
<1> QED BY <1>1, ParkInvariant, PTL DEF Spec, ParkedSlotStaysEmpty
=============================================================================
