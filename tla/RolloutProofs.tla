--------------------------- MODULE RolloutProofs ---------------------------
(* Proofs about Rollout: a converged status stands for a rolled-out pod, and only a failed
   or a rewritten pod is dead-lettered, for every set of templates, every defaulter and
   any number of edits. *)
EXTENDS Rollout, DriftProofs

Active == run.pc # "idle"

(* The generation the next write of a pass speaks for. *)
PassGen == IF Active THEN run.cs.gen ELSE cs.gen

(* Nothing written runs ahead of the pass, and the pass not of the user. *)
GenOrder == PassGen <= cs.gen /\ cs.entry.gen <= PassGen /\ cs.status.obs <= PassGen

(* The pass's copy is the set at its generation. *)
CopyOfSet == Active /\ run.cs.gen = cs.gen => run.cs.tmpl = cs.tmpl

(* While a pass has seen the pod, the pod is not replaced. *)
CopyOfPod ==
    Active /\ Present(run) /\ pod.at # "absent"
    => pod.spec = run.pod.spec /\ (run.pod.failed => pod.failed)

Built(p) ==
    /\ p.at # "absent" => \E u \in Specs : p.spec = Stored(role, u)
    /\ p.terminal => p.failed

(* A slot with an attempt on record holds a pod of that generation. *)
Charged(c, p) ==
    p.at = "present" /\ c.entry.count > 0 /\ c.entry.gen = c.gen => p.spec = Stored(role, c.tmpl)

(* What a pass that reports the pod knows of it. *)
Judged ==
    run.pc \in {"ensure", "status"} /\ Present(run)
    => \/ UpToDate(role, run.pod.spec, run.cs.tmpl)
       \/ run.pod.dead = run.cs.gen
       \/ run.pc = "status" /\ run.phase = "Failed"

PodInv ==
    /\ CopyOfPod
    /\ Built(pod) /\ (Active => Built(run.pod))
    /\ Charged(cs, pod) /\ (Active => Charged(run.cs, run.pod))
    /\ Judged /\ HealthyIsNotParked /\ ConvergedIsRolledOut

RolloutInv == TypeOK /\ GenOrder /\ CopyOfSet /\ PodInv

-----------------------------------------------------------------------------
(* Types *)

(* A pass that keeps the pod, or returns, is a pass. *)
LEMMA RunTypes ==
    ASSUME NEW r \in Runs PROVE Kept(r) \in Runs /\ Return(r) \in Runs
BY DEF Kept, Return, Runs, Phases

(* The records a step writes are of their types. *)
LEMMA EntryTypes ==
    ASSUME NEW c \in Sets
    PROVE  /\ CurrentEntry(c) \in Entries /\ NoEntry \in Entries
           /\ c.gen \in 0..MaxGen /\ c.gen \in 1..MaxGen
           /\ \A e \in Entries : [c EXCEPT !.entry = e] \in Sets
           /\ \A s \in Statuses : [c EXCEPT !.status = s] \in Sets
           /\ CurrentEntry(c).count < maxRebuildAttempts
                => [CurrentEntry(c) EXCEPT !.count = @ + 1] \in Entries
           /\ [CurrentEntry(c) EXCEPT !.parked = TRUE] \in Entries
<1>1. c.gen \in 1..MaxGen /\ c.entry \in Entries /\ c.gen \in 0..MaxGen
  BY RolloutAssumption DEF Sets
<1>2. CurrentEntry(c) \in Entries /\ NoEntry \in Entries
  BY <1>1, RolloutAssumption DEF CurrentEntry, Entries, NoEntry
<1>3. CurrentEntry(c).count < maxRebuildAttempts
        => [CurrentEntry(c) EXCEPT !.count = @ + 1] \in Entries
  BY <1>2, RolloutAssumption DEF Entries
<1>4. [CurrentEntry(c) EXCEPT !.parked = TRUE] \in Entries
  BY <1>2 DEF Entries
<1>5. /\ \A e \in Entries : [c EXCEPT !.entry = e] \in Sets
      /\ \A s \in Statuses : [c EXCEPT !.status = s] \in Sets
  BY DEF Sets
<1> QED BY <1>1, <1>2, <1>3, <1>4, <1>5

(* The status a pass writes is a status. *)
LEMMA StatusType ==
    ASSUME NEW r \in Runs, role \in Roles PROVE buildStatus(r) \in Statuses
<1>1. r.cs.gen \in 0..MaxGen /\ r.phase \in Phases
  BY RolloutAssumption DEF Runs, Sets
<1> QED BY <1>1 DEF buildStatus, derivePhase, buildConditions, AllReady, Present, Statuses,
                    Phases, Progress, Runs, Pods

(* The node's and the operator's writes to a pod keep it a pod. *)
LEMMA PodTypes ==
    ASSUME TypeOK
    PROVE  /\ Deleted \in Pods /\ NoPod \in Pods
           /\ \A t \in Specs : [NoPod EXCEPT !.at = "present", !.spec = Stored(role, t)] \in Pods
           /\ \A g \in 0..MaxGen : [pod EXCEPT !.dead = g] \in Pods
<1>1. pod \in Pods /\ role \in Roles
  BY DEF TypeOK
<1>2. Deleted \in Pods /\ NoPod \in Pods /\ \A g \in 0..MaxGen : [pod EXCEPT !.dead = g] \in Pods
  BY <1>1, RolloutAssumption DEF Deleted, NoPod, Pods
<1>3. \A t \in Specs : Stored(role, t) \in PodSpecs
  BY <1>1, StoredType, RolloutAssumption
<1>4. \A t \in Specs : [NoPod EXCEPT !.at = "present", !.spec = Stored(role, t)] \in Pods
  BY <1>2, <1>3 DEF Pods
<1> QED BY <1>2, <1>4

(* Every step keeps the types. *)
LEMMA TypeStep == TypeOK /\ [Next]_vars => TypeOK'
<1> SUFFICES ASSUME TypeOK, [Next]_vars PROVE TypeOK'
  OBVIOUS
<1>0. /\ role \in Roles /\ cs \in Sets /\ pod \in Pods /\ queued \in BOOLEAN
      /\ run \in Runs /\ events \in 0..MaxEvents /\ MaxEvents \in Nat /\ run.cs \in Sets
  BY RolloutAssumption DEF TypeOK, Runs
<1>r. Kept(run) \in Runs /\ Return(run) \in Runs
  BY <1>0, RunTypes
<1>w. ASSUME NEW again \in BOOLEAN, Watch(again) PROVE queued' \in BOOLEAN
  BY <1>w, <1>0 DEF Watch
<1> SUFFICES role' \in Roles /\ cs' \in Sets /\ pod' \in Pods /\ queued' \in BOOLEAN
             /\ run' \in Runs /\ events' \in 0..MaxEvents
  BY DEF TypeOK
<1>e. events > 0 => events - 1 \in 0..MaxEvents
  BY <1>0
<1>1. CASE Reconcile
  BY <1>1, <1>0 DEF Reconcile, Runs, Phases
<1>2. CASE PassStep
  <2>0. role' \in Roles /\ events' \in 0..MaxEvents
    BY <1>2, <1>0 DEF PassStep
  <2>1. CASE Keep
    BY <2>0, <2>1, <1>0, <1>r, <1>w DEF Keep
  <2>2. CASE BackOff
    <3>1. [run EXCEPT !.pc = "ensure", !.again = TRUE] \in Runs
      BY <1>0 DEF Runs
    <3>2. (role = "main") \in BOOLEAN
      OBVIOUS
    <3> QED BY <2>0, <2>2, <1>0, <1>r, <1>w, <3>1, <3>2 DEF BackOff
  <2>3. CASE rebuildPod
    <3>1. cs' \in Sets
      BY <2>3, <1>0, EntryTypes DEF rebuildPod
    <3> QED BY <2>0, <2>3, <1>r, <1>w, <3>1, PodTypes DEF rebuildPod
  <2>4. CASE DeadLetter
    <3> DEFINE c == IF cs' = cs THEN run.cs ELSE cs'
    <3>1. cs' \in Sets /\ c \in Sets
      BY <2>4, <1>0, EntryTypes DEF DeadLetter
    <3>2. CASE pod.at = "absent"
      BY <2>0, <2>4, <3>1, <3>2, <1>0, <1>r, <1>w DEF DeadLetter
    <3>3. CASE pod.at # "absent"
      <4>1. pod' = [pod EXCEPT !.dead = c.gen] /\ Watch(FALSE)
            /\ run' = Kept([run EXCEPT !.cs = c, !.pod = [pod' EXCEPT !.at = "present"]])
        BY <2>4, <3>3 DEF DeadLetter
      <4>2. pod' \in Pods
        BY <4>1, <3>1, EntryTypes, PodTypes
      <4>3. [pod' EXCEPT !.at = "present"] \in Pods
        BY <4>2 DEF Pods
      <4>4. [run EXCEPT !.cs = c, !.pod = [pod' EXCEPT !.at = "present"]] \in Runs
        BY <4>3, <3>1, <1>0 DEF Runs
      <4> QED BY <2>0, <3>1, <4>1, <4>2, <4>4, RunTypes, <1>w
    <3> QED BY <3>2, <3>3
  <2>5. CASE Lift
    <3>1. cs' \in Sets
      BY <2>5, <1>0, EntryTypes DEF Lift
    <3> QED BY <2>0, <2>5, <1>r, <1>w, <3>1, PodTypes DEF Lift
  <2>6. CASE CreatePod
    <3>1. run.cs.tmpl \in Specs
      BY <1>0 DEF Sets
    <3>2. pod' \in Pods
      BY <2>6, <3>1, <1>0, PodTypes DEF CreatePod
    <3>3. [run EXCEPT !.pc = "status"] \in Runs
      BY <1>0 DEF Runs
    <3>4. (run'.pc = "idle") \in BOOLEAN
      OBVIOUS
    <3> QED BY <2>0, <2>6, <3>2, <3>3, <3>4, <1>0, <1>r, <1>w DEF CreatePod
  <2>7. CASE Ensured
    <3>1. run' \in Runs
      BY <2>7, <1>0 DEF Ensured, Runs, Phases
    <3> QED BY <2>0, <2>7, <3>1, <1>0, <1>w DEF Ensured
  <2>8. CASE patchStatus
    <3>1. cs' \in Sets
      BY <2>8, <1>0, StatusType, EntryTypes DEF patchStatus
    <3>2. run.again \in BOOLEAN
      BY <1>0 DEF Runs
    <3> QED BY <2>0, <2>8, <3>1, <3>2, <1>0, <1>r, <1>w DEF patchStatus
  <2> QED BY <1>2, <2>1, <2>2, <2>3, <2>4, <2>5, <2>6, <2>7, <2>8 DEF PassStep
<1>3. CASE EditSpec
  <2>1. PICK t \in Specs : cs' = [cs EXCEPT !.gen = @ + 1, !.tmpl = t]
    BY <1>3 DEF EditSpec
  <2>2. cs.gen \in 1..MaxGen /\ cs.gen < MaxGen
    BY <1>3, <1>0 DEF EditSpec, Sets
  <2>3. cs.gen + 1 \in 1..MaxGen
    BY <2>2, RolloutAssumption
  <2>4. cs' \in Sets
    BY <2>1, <2>3, <1>0 DEF Sets
  <2> QED BY <1>3, <1>0, <1>w, <2>4 DEF EditSpec
<1>4. CASE PodReady
  BY <1>4, <1>0, <1>w DEF PodReady, Pods
<1>5. CASE PodFails
  BY <1>5, <1>0, <1>w DEF PodFails, Pods
<1>6. CASE PodRecovers
  BY <1>6, <1>0, <1>w, <1>e DEF PodRecovers, Pods
<1>7. CASE UserDeletes
  BY <1>7, <1>0, <1>w, <1>e, PodTypes DEF UserDeletes
<1>8. CASE PodGone
  BY <1>8, <1>0, <1>w, PodTypes DEF PodGone
<1>9. CASE UNCHANGED vars
  BY <1>9, <1>0 DEF vars
<1> QED BY <1>1, <1>2, <1>3, <1>4, <1>5, <1>6, <1>7, <1>8, <1>9 DEF Next

-----------------------------------------------------------------------------
(* What the steps of a pass do to the fields the invariant reads *)

(* Keeping a pod moves the pass on, a terminal main straight to a Failed status. *)
LEMMA KeptFields ==
    ASSUME NEW r \in Runs
    PROVE  /\ Kept(r).cs = r.cs /\ Kept(r).pod = r.pod
           /\ \/ Kept(r).pc = "ensure"
              \/ Kept(r).pc = "status" /\ Kept(r).phase = "Failed"
           /\ Return(r).pc = "idle"
BY DEF Kept, Return, Runs

(* An entry that counts attempts is an entry of the set's generation. *)
LEMMA EntryFields ==
    ASSUME NEW c \in Sets
    PROVE  /\ CurrentEntry(c).gen = c.gen
           /\ CurrentEntry(c).count > 0 => c.entry.gen = c.gen /\ CurrentEntry(c) = c.entry
BY DEF CurrentEntry, Sets, Entries

(* A write of the rebuild history leaves the rest of the set alone. *)
LEMMA EntryWrite ==
    ASSUME NEW c \in Sets, NEW e
    PROVE  /\ [c EXCEPT !.entry = e].gen = c.gen /\ [c EXCEPT !.entry = e].tmpl = c.tmpl
           /\ [c EXCEPT !.entry = e].status = c.status /\ [c EXCEPT !.entry = e].entry = e
BY DEF Sets

(* A delete turns a pod that is there into one that terminates, and changes no more. *)
LEMMA DeletedFields ==
    ASSUME TypeOK
    PROVE  /\ Deleted.at # "present" /\ (Deleted.at = "absent" <=> pod.at = "absent")
           /\ Deleted.spec = pod.spec /\ Deleted.dead = pod.dead
           /\ Deleted.failed = pod.failed /\ Deleted.terminal = pod.terminal
BY DEF TypeOK, Deleted, Pods

(* The dead-letter: the copies it refreshes, and the pod it writes. *)
LEMMA DeadLetterEffect ==
    ASSUME TypeOK, DeadLetter
    PROVE  /\ cs'.gen = cs.gen /\ cs'.tmpl = cs.tmpl /\ cs'.status = cs.status
           /\ run.cs.entry.gen = run.cs.gen /\ run.cs.entry.count > 0
           /\ cs'.entry = cs.entry \/ (cs'.entry.gen = run.cs.gen /\ cs'.entry.count > 0)
           /\ \/ pod.at = "absent" /\ pod' = pod /\ run'.pc = "idle"
              \/ /\ pod.at # "absent" /\ pod'.at = pod.at /\ pod'.spec = pod.spec
                 /\ pod'.failed = pod.failed /\ pod'.terminal = pod.terminal
                 /\ run'.cs = run.cs \/ (run'.cs = cs' /\ cs'.entry.gen = run.cs.gen)
                 /\ pod'.dead = run'.cs.gen
                 /\ run'.pod = [pod' EXCEPT !.at = "present"] /\ run'.pod.at = "present"
                 /\ run'.pod.spec = pod'.spec /\ run'.pod.dead = pod'.dead
                 /\ run'.pod.failed = pod'.failed /\ run'.pod.terminal = pod'.terminal
                 /\ run'.pc \in {"ensure", "status"}
<1>0. cs \in Sets /\ run \in Runs /\ run.cs \in Sets /\ pod \in Pods
  BY DEF TypeOK, Runs
<1> DEFINE e == CurrentEntry(run.cs)
           c == IF cs' = cs THEN run.cs ELSE cs'
<1>1. e.gen = run.cs.gen /\ e.count > 0 /\ e = run.cs.entry /\ e \in Entries
  <2>1. e.count = maxRebuildAttempts
    BY DEF DeadLetter
  <2>2. e.count > 0
    BY <2>1, RolloutAssumption
  <2> QED BY <1>0, <2>2, EntryFields, EntryTypes
<1>2. cs' = cs \/ cs' = [cs EXCEPT !.entry = [e EXCEPT !.parked = TRUE]]
  BY DEF DeadLetter
<1>3. /\ cs'.gen = cs.gen /\ cs'.tmpl = cs.tmpl /\ cs'.status = cs.status
      /\ cs' = cs \/ (cs'.entry.gen = run.cs.gen /\ cs'.entry.count > 0)
  <2> DEFINE f == [e EXCEPT !.parked = TRUE]
  <2>1. f.gen = e.gen /\ f.count = e.count
    BY <1>1 DEF Entries
  <2> HIDE DEF e, f
  <2>2. CASE cs' = [cs EXCEPT !.entry = f]
    BY <1>0, <1>1, <2>1, <2>2, EntryWrite
  <2> QED BY <1>2, <2>2 DEF f
<1>4. CASE pod.at = "absent"
  BY <1>0, <1>1, <1>3, <1>4, KeptFields DEF DeadLetter
<1>5. CASE pod.at # "absent"
  <2> DEFINE p == [pod EXCEPT !.dead = c.gen]
             q == [p EXCEPT !.at = "present"]
             r == [run EXCEPT !.cs = c, !.pod = q]
  <2>1. pod' = p /\ run' = Kept(r)
    BY <1>5 DEF DeadLetter
  <2>2. c \in Sets
    <3>1. cs' \in Sets
      BY <1>2, <1>0, EntryTypes
    <3> QED BY <3>1, <1>0
  <2>3. p \in Pods
    BY <2>2, EntryTypes, PodTypes
  <2>4. q \in Pods
    BY <2>3 DEF Pods
  <2>5. r \in Runs /\ r.cs = c /\ r.pod = q
    BY <2>2, <2>4, <1>0 DEF Runs
  <2>6. run'.cs = c /\ run'.pod = q /\ run'.pc \in {"ensure", "status"}
    BY <2>1, <2>5, KeptFields
  <2>7. /\ p.at = pod.at /\ p.spec = pod.spec /\ p.failed = pod.failed
        /\ p.terminal = pod.terminal /\ p.dead = c.gen
        /\ q.at = "present" /\ q.spec = p.spec /\ q.failed = p.failed
        /\ q.terminal = p.terminal /\ q.dead = p.dead
    BY <1>0 DEF Pods
  <2> QED BY <1>1, <1>3, <1>5, <2>1, <2>6, <2>7
<1> QED BY <1>4, <1>5

(* Generations are numbers. *)
LEMMA Numbers ==
    ASSUME TypeOK
    PROVE  cs.gen \in Nat /\ run.cs.gen \in Nat /\ cs.entry.gen \in Nat /\ cs.status.obs \in Nat
<1>1. cs \in Sets /\ run.cs \in Sets
  BY DEF TypeOK, Runs
<1> QED BY <1>1, RolloutAssumption DEF Sets, Entries, Statuses

(* The writes of the pass: it copies the set, then writes of its own generation. *)
LEMMA OrderStep ==
    ASSUME TypeOK, TypeOK', GenOrder, CopyOfSet, [Next]_vars PROVE GenOrder' /\ CopyOfSet'
<1>0. cs \in Sets /\ run \in Runs /\ run.cs \in Sets
  BY DEF TypeOK, Runs
<1>n. /\ cs.gen \in Nat /\ run.cs.gen \in Nat /\ cs.entry.gen \in Nat /\ cs.status.obs \in Nat
      /\ cs'.gen \in Nat /\ run'.cs.gen \in Nat /\ cs'.entry.gen \in Nat /\ cs'.status.obs \in Nat
  <2>1. cs.gen \in Nat /\ run.cs.gen \in Nat /\ cs.entry.gen \in Nat /\ cs.status.obs \in Nat
    BY Numbers
  <2>2. cs' \in Sets /\ run'.cs \in Sets
    BY DEF TypeOK, Runs
  <2> QED BY <2>1, <2>2, RolloutAssumption DEF Sets, Entries, Statuses
<1>e. CurrentEntry(run.cs).gen = run.cs.gen /\ CurrentEntry(run.cs) \in Entries
  BY <1>0, EntryFields, EntryTypes
<1>k. run' = Return(run) => run'.pc = "idle"
  BY <1>0, KeptFields
<1>s. ASSUME UNCHANGED cs, run'.cs = run.cs, Active PROVE GenOrder' /\ CopyOfSet'
  BY <1>s, <1>n DEF GenOrder, CopyOfSet, PassGen, Active
<1>w. ASSUME NEW e \in Entries, e.gen <= run.cs.gen, cs' = [cs EXCEPT !.entry = e], Active,
             run' = Return(run)
      PROVE  GenOrder' /\ CopyOfSet'
  <2>1. cs'.gen = cs.gen /\ cs'.status = cs.status /\ cs'.entry = e
    BY <1>w, <1>0, EntryWrite
  <2> QED BY <2>1, <1>w, <1>n, <1>k DEF GenOrder, CopyOfSet, PassGen, Active
<1>1. CASE Reconcile
  BY <1>1, <1>n DEF Reconcile, GenOrder, CopyOfSet, PassGen, Active
<1>2. CASE PassStep
  <2>1. CASE Keep
    BY <2>1, <1>0, <1>s, KeptFields DEF Keep, Active
  <2>2. CASE BackOff
    <3>1. run'.cs = run.cs
      BY <2>2, <1>0 DEF BackOff, Return, Runs
    <3> QED BY <2>2, <3>1, <1>s DEF BackOff, Active
  <2>3. CASE rebuildPod
    <3> DEFINE e == [CurrentEntry(run.cs) EXCEPT !.count = @ + 1]
    <3>1. e \in Entries /\ e.gen = run.cs.gen
      BY <2>3, <1>0, <1>e, EntryTypes DEF rebuildPod, Entries
    <3>2. cs' = [cs EXCEPT !.entry = e] /\ Active /\ run' = Return(run)
      BY <2>3 DEF rebuildPod, Active
    <3> HIDE DEF e
    <3> QED BY <3>1, <3>2, <1>w, <1>n
  <2>4. CASE DeadLetter
    <3>1. Active /\ PassGen = run.cs.gen
      BY <2>4 DEF DeadLetter, Active, PassGen
    <3>2. /\ cs'.gen = cs.gen /\ cs'.tmpl = cs.tmpl /\ cs'.status = cs.status
          /\ cs'.entry = cs.entry \/ cs'.entry.gen = run.cs.gen
          /\ run'.pc = "idle" \/ run'.cs = run.cs \/ run'.cs = cs'
      BY <2>4, DeadLetterEffect
    <3> QED BY <3>1, <3>2, <1>n DEF GenOrder, CopyOfSet, PassGen, Active
  <2>5. CASE Lift
    <3>1. NoEntry \in Entries /\ NoEntry.gen <= run.cs.gen
      BY <1>n, RolloutAssumption DEF NoEntry, Entries
    <3>2. cs' = [cs EXCEPT !.entry = NoEntry] /\ Active /\ run' = Return(run)
      BY <2>5 DEF Lift, Active
    <3> QED BY <3>1, <3>2, <1>w
  <2>6. CASE CreatePod
    <3>1. run'.cs = run.cs
      BY <2>6, <1>0 DEF CreatePod, Return, Runs
    <3> QED BY <2>6, <3>1, <1>s DEF CreatePod, Active
  <2>7. CASE Ensured
    <3>1. run'.cs = run.cs
      BY <2>7, <1>0 DEF Ensured, Runs
    <3> QED BY <2>7, <3>1, <1>s DEF Ensured, Active
  <2>8. CASE patchStatus
    <3>1. cs' = cs \/ cs' = [cs EXCEPT !.status = buildStatus(run)]
      BY <2>8 DEF patchStatus
    <3>2. /\ cs'.gen = cs.gen /\ cs'.entry = cs.entry
          /\ cs'.status = cs.status \/ cs'.status.obs = run.cs.gen
      <4>1. buildStatus(run).obs = run.cs.gen
        BY DEF buildStatus
      <4> QED BY <3>1, <4>1, <1>0 DEF Sets
    <3>3. run'.pc = "idle" /\ Active
      BY <2>8, <1>k DEF patchStatus, Active
    <3> QED BY <3>2, <3>3, <1>n DEF GenOrder, CopyOfSet, PassGen, Active
  <2> QED BY <1>2, <2>1, <2>2, <2>3, <2>4, <2>5, <2>6, <2>7, <2>8 DEF PassStep
<1>3. CASE EditSpec
  <2>1. cs'.gen = cs.gen + 1 /\ cs'.entry = cs.entry /\ cs'.status = cs.status /\ run' = run
    BY <1>3, <1>0 DEF EditSpec, Sets
  <2> QED BY <2>1, <1>n DEF GenOrder, CopyOfSet, PassGen, Active
<1>4. CASE UNCHANGED <<cs, run>>
  BY <1>4 DEF GenOrder, CopyOfSet, PassGen, Active
<1> QED BY <1>1, <1>2, <1>3, <1>4
        DEF Next, vars, PodReady, PodFails, PodRecovers, UserDeletes, PodGone

-----------------------------------------------------------------------------
(* What a step leaves of what is known of the pod *)

(* The node and the user: a pod keeps its spec, and a failure is remembered. *)
LEMMA NodeStep ==
    ASSUME RolloutInv, PodReady \/ PodFails \/ PodRecovers \/ UserDeletes PROVE PodInv'
<1>0. pod \in Pods /\ (pod.terminal => pod.failed) /\ TypeOK /\ pod.failed \in BOOLEAN
  BY DEF RolloutInv, TypeOK, PodInv, Built, Pods
<1>1. /\ role' = role /\ cs' = cs /\ run' = run
      /\ pod'.spec = pod.spec /\ pod'.dead = pod.dead
      /\ pod.at = "present" /\ pod'.at # "absent"
      /\ pod.failed => pod'.failed
      /\ pod'.terminal => pod'.failed
  <2>1. CASE PodReady
    BY <2>1, <1>0 DEF PodReady, Pods
  <2>2. CASE PodFails
    BY <2>2, <1>0 DEF PodFails, Pods
  <2>3. CASE PodRecovers
    BY <2>3, <1>0 DEF PodRecovers, Pods
  <2>4. CASE UserDeletes
    BY <2>4, <1>0, DeletedFields DEF UserDeletes
  <2> QED BY <2>1, <2>2, <2>3, <2>4
<1> QED BY <1>1 DEF RolloutInv, PodInv, CopyOfPod, Built, Charged, Judged, Active, Present,
                    HealthyIsNotParked, Rewritten, ConvergedIsRolledOut, Current

(* A pod that is gone takes its history along. *)
LEMMA GoneStep == ASSUME RolloutInv, PodGone PROVE PodInv'
<1>1. /\ role' = role /\ cs' = cs /\ run' = run
      /\ pod'.at = "absent" /\ pod'.dead = 0 /\ pod'.terminal = FALSE
  BY DEF PodGone, NoPod
<1> QED BY <1>1 DEF RolloutInv, PodInv, CopyOfPod, Built, Charged, Judged, Active, Present,
                    HealthyIsNotParked, ConvergedIsRolledOut

(* An edit starts a generation that nothing has been written of. *)
LEMMA EditStep == ASSUME RolloutInv, EditSpec PROVE PodInv'
<1>0. cs \in Sets /\ TypeOK
  BY DEF RolloutInv, TypeOK
<1>1. /\ role' = role /\ pod' = pod /\ run' = run
      /\ cs'.gen = cs.gen + 1 /\ cs'.entry = cs.entry /\ cs'.status = cs.status
  BY <1>0 DEF EditSpec, Sets
<1>2. cs'.entry.gen # cs'.gen /\ cs'.status.obs # cs'.gen
  BY <1>0, <1>1, Numbers DEF RolloutInv, GenOrder, PassGen
<1> QED BY <1>1, <1>2 DEF RolloutInv, PodInv, CopyOfPod, Built, Charged, Judged, Active,
                          Present, HealthyIsNotParked, Rewritten, ConvergedIsRolledOut

(* A pass starts with what is known of the slot. *)
LEMMA StartStep == ASSUME RolloutInv, Reconcile PROVE PodInv'
<1>1. /\ role' = role /\ cs' = cs /\ pod' = pod
      /\ run'.cs = cs /\ run'.pod = pod /\ run'.pc = "triage"
  BY DEF Reconcile
<1> QED BY <1>1 DEF RolloutInv, PodInv, CopyOfPod, Built, Charged, Judged, Active, Present,
                    HealthyIsNotParked, Rewritten, ConvergedIsRolledOut, Current

(* A pod built from a template is up to date with it. *)
LEMMA StoredIsUpToDate ==
    ASSUME NEW t \in Specs, role \in Roles PROVE UpToDate(role, Stored(role, t), t)
<1>1. t \in Templates /\ Stored(role, t).class = t.class
  BY StoredFields, RolloutAssumption DEF StoredRecord
<1>2. [t EXCEPT !.class = t.class] = t
  BY <1>1 DEF Templates
<1> QED BY <1>1, <1>2 DEF UpToDate

(* A pass that found the pod as the spec has it, or parked, or built from the spec it
   compares with, goes on with a pod it may report. *)
LEMMA JudgeStep ==
    ASSUME RolloutInv, PassStep, Keep \/ BackOff \/ Ensured PROVE PodInv'
<1>0. /\ TypeOK /\ run \in Runs /\ run.cs \in Sets /\ run.pod \in Pods /\ role \in Roles
      /\ run.cs.tmpl \in Specs /\ run.cs.tmpl \in Templates /\ run.pod.terminal \in BOOLEAN
  BY RolloutAssumption DEF RolloutInv, TypeOK, Runs, Sets, Pods
<1>1. role' = role /\ cs' = cs /\ pod' = pod /\ run'.cs = run.cs /\ run'.pod = run.pod /\ Active
  <2>1. CASE Keep
    BY <2>1, <1>0, KeptFields DEF PassStep, Keep, Active
  <2>2. CASE BackOff
    BY <2>2, <1>0 DEF PassStep, BackOff, Active, Return, Runs
  <2>3. CASE Ensured
    BY <2>3, <1>0 DEF PassStep, Ensured, Active, Runs
  <2> QED BY <2>1, <2>2, <2>3
<1>2. Judged'
  <2>1. CASE Keep
    <3>1. CASE ~Present(run) \/ run.pod.dead = run.cs.gen
      BY <3>1, <1>1 DEF Judged, Present
    <3>2. CASE Present(run) /\ run.pod.dead # run.cs.gen
      <4>1. podSpecMatches(role, run.pod.spec, run.pod.terminal, run.cs.tmpl)
        BY <2>1, <3>2 DEF Keep, NeedsRebuild, Matches
      <4>2. PICK u \in Specs : run.pod.spec = Stored(role, u)
        BY <3>2, <1>1 DEF RolloutInv, PodInv, Built, Present
      <4>3. UpToDate(role, run.pod.spec, run.cs.tmpl)
        BY <4>1, <4>2, <1>0, MatchIsUpToDate, RolloutAssumption
      <4> QED BY <4>3, <1>1 DEF Judged
    <3> QED BY <3>1, <3>2
  <2>2. CASE BackOff
    <3>1. run.cs.entry.gen = run.cs.gen /\ run.cs.entry.count > 0 /\ Present(run)
      BY <2>2, <1>0, EntryFields, RolloutAssumption DEF BackOff, NeedsRebuild
    <3>2. run.pod.spec = Stored(role, run.cs.tmpl)
      BY <3>1, <1>1 DEF RolloutInv, PodInv, Charged, Present
    <3> QED BY <3>2, <1>0, <1>1, StoredIsUpToDate DEF Judged
  <2>3. CASE Ensured
    BY <2>3, <1>1 DEF Ensured, Judged, RolloutInv, PodInv, Present
  <2> QED BY <2>1, <2>2, <2>3
<1> QED BY <1>1, <1>2 DEF RolloutInv, PodInv, CopyOfPod, Built, Charged, Active, Present,
                          HealthyIsNotParked, Rewritten, ConvergedIsRolledOut, Current

(* A rebuild and a lifted dead-letter leave no pod behind that is there. *)
LEMMA DeleteStep ==
    ASSUME RolloutInv, PassStep, rebuildPod \/ Lift PROVE PodInv'
<1>0. TypeOK /\ run \in Runs
  BY DEF RolloutInv, TypeOK
<1>1. role' = role /\ pod' = Deleted /\ run'.pc = "idle"
  BY <1>0, KeptFields DEF PassStep, rebuildPod, Lift
<1>2. /\ pod'.at # "present" /\ (pod'.at = "absent" <=> pod.at = "absent")
      /\ pod'.spec = pod.spec /\ pod'.dead = pod.dead
      /\ pod'.failed = pod.failed /\ pod'.terminal = pod.terminal
  BY <1>0, <1>1, DeletedFields
<1> QED BY <1>1, <1>2 DEF RolloutInv, PodInv, CopyOfPod, Built, Charged, Judged, Active,
                          HealthyIsNotParked, Rewritten, ConvergedIsRolledOut

(* The dead-letter: the pod was built from the spec it failed by, so it matches it unless
   it is terminal or a defaulter rewrites it. *)
LEMMA ParkStep ==
    ASSUME RolloutInv, PassStep, DeadLetter PROVE PodInv'
<1>0. /\ TypeOK /\ run \in Runs /\ run.cs \in Sets /\ run.pod \in Pods /\ role \in Roles
      /\ run.cs.tmpl \in Specs /\ run.cs.tmpl \in Templates /\ run.pod.terminal \in BOOLEAN
      /\ role' = role /\ Active /\ Present(run) /\ NeedsRebuild(run)
  BY RolloutAssumption DEF RolloutInv, TypeOK, Runs, Sets, Pods, PassStep, DeadLetter, Active,
                           NeedsRebuild
<1>1. run.pod.spec = Stored(role, run.cs.tmpl)
  BY <1>0, DeadLetterEffect DEF RolloutInv, PodInv, Charged, Present
<1>2. run.pod.failed \/ Limits(run.cs.tmpl) # run.cs.tmpl.limits
  <2>1. CASE run.pod.terminal
    BY <2>1, <1>0 DEF RolloutInv, PodInv, Built
  <2>2. CASE ~run.pod.terminal
    <3>1. ~podSpecMatches(role, run.pod.spec, run.pod.terminal, run.cs.tmpl)
      BY <2>2, <1>0 DEF NeedsRebuild, Matches
    <3>2. UpToDate(role, run.pod.spec, run.cs.tmpl)
      BY <1>0, <1>1, StoredIsUpToDate
    <3> QED BY <2>2, <3>1, <3>2, <1>0, <1>1, MatchIsUpToDate
  <2> QED BY <2>1, <2>2
<1>3. pod.at # "absent" => pod.spec = run.pod.spec /\ (run.pod.failed => pod.failed)
  BY <1>0 DEF RolloutInv, PodInv, CopyOfPod
<1>4. HealthyIsNotParked'
  <2>1. CASE pod.at = "absent"
    BY <2>1, <1>0, DeadLetterEffect DEF RolloutInv, PodInv, HealthyIsNotParked, Rewritten
  <2>2. CASE pod.at # "absent"
    <3>1. pod'.spec = pod.spec /\ pod'.failed = pod.failed
      BY <2>2, <1>0, DeadLetterEffect
    <3> QED BY <2>2, <3>1, <1>0, <1>1, <1>2, <1>3 DEF HealthyIsNotParked, Rewritten
  <2> QED BY <2>1, <2>2
<1>5. cs'.gen = cs.gen /\ cs'.tmpl = cs.tmpl /\ cs'.status = cs.status
  BY <1>0, DeadLetterEffect
<1>6. pod'.at = pod.at /\ pod'.spec = pod.spec /\ pod'.terminal = pod.terminal /\ pod'.failed = pod.failed
  BY <1>0, DeadLetterEffect
<1>7. Charged(cs, pod)'
  <2>1. ASSUME pod.at = "present", cs'.entry.gen = run.cs.gen, cs'.entry.gen = cs'.gen
        PROVE  pod'.spec = Stored(role', cs'.tmpl)
    BY <2>1, <1>0, <1>1, <1>3, <1>5, <1>6 DEF RolloutInv, CopyOfSet
  <2>2. cs'.entry = cs.entry \/ cs'.entry.gen = run.cs.gen
    BY <1>0, DeadLetterEffect
  <2> QED BY <2>1, <2>2, <1>0, <1>5, <1>6 DEF RolloutInv, PodInv, Charged
<1>8. Built(pod)' /\ ConvergedIsRolledOut'
  BY <1>0, <1>5, <1>6 DEF RolloutInv, PodInv, Built, ConvergedIsRolledOut, Current
<1>9. CASE run'.pc = "idle"
  BY <1>4, <1>7, <1>8, <1>9 DEF PodInv, CopyOfPod, Judged, Active
<1>10. CASE run'.pc # "idle"
  <2>1. /\ run'.cs = run.cs \/ (run'.cs = cs' /\ cs'.entry.gen = run.cs.gen)
        /\ pod.at # "absent" /\ pod'.dead = run'.cs.gen
        /\ run'.pod.spec = pod'.spec /\ run'.pod.dead = pod'.dead
        /\ run'.pod.failed = pod'.failed /\ run'.pod.terminal = pod'.terminal
        /\ run'.pod.at = "present"
    BY <1>10, <1>0, DeadLetterEffect
  <2>2. CopyOfPod' /\ Judged'
    BY <2>1 DEF CopyOfPod, Judged
  <2>3. Built(run.pod)'
    BY <1>8, <2>1, <1>6 DEF Built
  <2>4. Charged(run.cs, run.pod)'
    <3>1. CASE run'.cs = run.cs
      BY <3>1, <2>1, <1>0, <1>1, <1>3, <1>6 DEF Charged
    <3>2. CASE run'.cs = cs' /\ cs'.entry.gen = run.cs.gen
      BY <3>2, <2>1, <1>0, <1>1, <1>3, <1>5, <1>6 DEF Charged, RolloutInv, CopyOfSet
    <3> QED BY <2>1, <3>1, <3>2
  <2> QED BY <1>4, <1>7, <1>8, <2>2, <2>3, <2>4 DEF PodInv
<1> QED BY <1>9, <1>10

(* A created pod is of the spec the pass copied; whatever is on record of the current
   generation was written by passes that had copied the current spec. *)
LEMMA CreateStep ==
    ASSUME RolloutInv, PassStep, CreatePod PROVE PodInv'
<1>0. /\ TypeOK /\ run \in Runs /\ run.cs.tmpl \in Specs /\ role \in Roles
      /\ role' = role /\ cs' = cs /\ Active /\ ~Present(run)
  BY DEF RolloutInv, TypeOK, Runs, Sets, PassStep, CreatePod, Active
<1>1. run'.cs = run.cs /\ run'.pod = run.pod
  BY <1>0 DEF CreatePod, Return, Runs
<1>2. CASE pod.at # "absent"
  <2>1. pod' = pod
    BY <1>2 DEF CreatePod
  <2> QED BY <1>0, <1>1, <2>1
          DEF RolloutInv, PodInv, CopyOfPod, Built, Charged, Judged, Active, Present,
              HealthyIsNotParked, Rewritten, ConvergedIsRolledOut, Current
<1>3. CASE pod.at = "absent"
  <2>1. /\ pod'.spec = Stored(role, run.cs.tmpl) /\ pod'.at = "present" /\ pod'.dead = 0
        /\ pod'.terminal = FALSE
    BY <1>3 DEF CreatePod, NoPod
  <2>2. cs.entry.gen = cs.gen \/ cs.status.obs = cs.gen => run.cs.tmpl = cs.tmpl
    BY <1>0, Numbers DEF RolloutInv, GenOrder, CopyOfSet, PassGen
  <2>3. UpToDate(role, pod'.spec, run.cs.tmpl)
    BY <1>0, <2>1, StoredIsUpToDate
  <2> QED BY <1>0, <1>1, <2>1, <2>2, <2>3
          DEF RolloutInv, PodInv, CopyOfPod, Built, Charged, Judged, Active, Present,
              HealthyIsNotParked, ConvergedIsRolledOut, Current
<1> QED BY <1>2, <1>3

(* A status that looks converged was derived from a pod that is. *)
LEMMA StatusStep ==
    ASSUME RolloutInv, PassStep, patchStatus PROVE PodInv'
<1>0. /\ TypeOK /\ run \in Runs /\ cs \in Sets /\ role' = role /\ pod' = pod /\ Active
      /\ run'.pc = "idle" /\ run.pc = "status"
  BY KeptFields DEF RolloutInv, TypeOK, PassStep, patchStatus, Active
<1>1. cs' = cs \/ cs' = [cs EXCEPT !.status = buildStatus(run)]
  BY DEF patchStatus
<1>2. /\ cs'.gen = cs.gen /\ cs'.tmpl = cs.tmpl /\ cs'.entry = cs.entry
      /\ cs'.status = cs.status \/ cs'.status = buildStatus(run)
  BY <1>0, <1>1 DEF Sets
<1>3. ASSUME cs'.status = buildStatus(run) PROVE ConvergedIsRolledOut'
  <2> SUFFICES ASSUME buildStatus(run).obs = cs.gen, buildStatus(run).phase = "Running",
                      buildStatus(run).ready, buildStatus(run).progress = "Stable",
                      pod.at = "present"
               PROVE  UpToDate(role, pod.spec, cs.tmpl)
    BY <1>0, <1>2, <1>3 DEF ConvergedIsRolledOut, Current
  <2>1. run.cs.gen = cs.gen /\ Present(run) /\ run.phase # "Failed" /\ run.pod.dead # run.cs.gen
    BY DEF buildStatus, AllReady, buildConditions, deadLettered
  <2>2. run.cs.tmpl = cs.tmpl /\ pod.spec = run.pod.spec
    BY <1>0, <2>1 DEF RolloutInv, CopyOfSet, PodInv, CopyOfPod
  <2>3. UpToDate(role, run.pod.spec, run.cs.tmpl)
    BY <1>0, <2>1 DEF RolloutInv, PodInv, Judged
  <2> QED BY <2>2, <2>3
<1>4. ConvergedIsRolledOut'
  BY <1>0, <1>2, <1>3 DEF RolloutInv, PodInv, ConvergedIsRolledOut, Current
<1> QED BY <1>0, <1>2, <1>4
        DEF RolloutInv, PodInv, CopyOfPod, Built, Charged, Judged, Active, HealthyIsNotParked,
            Rewritten

-----------------------------------------------------------------------------
(* The theorems *)

(* The invariant holds. *)
LEMMA RolloutInvariant == Spec => []RolloutInv
<1>1. Init => RolloutInv
  <2> SUFFICES ASSUME Init PROVE RolloutInv
    OBVIOUS
  <2>0. PICK t \in Specs :
          cs = [gen |-> 1, tmpl |-> t, entry |-> NoEntry,
                status |-> [obs |-> 0, phase |-> "", ready |-> FALSE, progress |-> "Stable"]]
    BY DEF Init
  <2>1. cs \in Sets /\ pod \in Pods
    <3>1. NoEntry \in Entries /\ 1 \in 1..MaxGen /\ 0 \in 0..MaxGen
      BY RolloutAssumption DEF NoEntry, Entries
    <3>2. [obs |-> 0, phase |-> "", ready |-> FALSE, progress |-> "Stable"] \in Statuses
      BY <3>1 DEF Statuses, Phases, Progress
    <3>3. NoPod \in Pods
      BY <3>1 DEF NoPod, Pods
    <3> QED BY <2>0, <3>1, <3>2, <3>3 DEF Init, Sets
  <2>2. TypeOK
    <3>1. MaxEvents \in 0..MaxEvents
      BY RolloutAssumption
    <3>2. run \in Runs
      BY <2>1 DEF Init, Runs, Phases
    <3> QED BY <2>1, <3>1, <3>2 DEF Init, TypeOK
  <2>3. GenOrder /\ CopyOfSet
    <3>1. run.pc = "idle" /\ cs.gen = 1 /\ cs.entry.gen = 0 /\ cs.status.obs = 0
      BY <2>0 DEF Init, NoEntry
    <3> QED BY <3>1 DEF GenOrder, CopyOfSet, PassGen, Active
  <2>4. PodInv
    <3>1. run.pc = "idle" /\ pod.at = "absent" /\ pod.dead = 0 /\ pod.terminal = FALSE
      BY DEF Init, NoPod
    <3> QED BY <3>1 DEF PodInv, CopyOfPod, Built, Charged, Judged, Active,
                        HealthyIsNotParked, ConvergedIsRolledOut
  <2> QED BY <2>2, <2>3, <2>4 DEF RolloutInv
<1>2. RolloutInv /\ [Next]_vars => RolloutInv'
  <2> SUFFICES ASSUME RolloutInv, [Next]_vars PROVE RolloutInv'
    OBVIOUS
  <2>1. TypeOK'
    BY TypeStep DEF RolloutInv
  <2>2. GenOrder' /\ CopyOfSet'
    BY <2>1, OrderStep DEF RolloutInv
  <2>3. PodInv'
    <3>1. CASE UNCHANGED vars
      BY <3>1 DEF vars, RolloutInv, PodInv, CopyOfPod, Built, Charged, Judged, Active, Present,
                  HealthyIsNotParked, Rewritten, ConvergedIsRolledOut, Current
    <3>2. CASE PassStep
      BY <3>2, JudgeStep, DeleteStep, ParkStep, CreateStep, StatusStep DEF PassStep
    <3> QED BY <3>1, <3>2, NodeStep, GoneStep, EditStep, StartStep DEF Next
  <2> QED BY <2>1, <2>2, <2>3 DEF RolloutInv
<1> QED BY <1>1, <1>2, PTL DEF Spec

(* Every state of a rollout is of the declared types: attempts stay within the budget of
   rebuild.go, and no generation is written that the user did not make. *)
THEOREM RolloutTypes == Spec => []TypeOK
BY RolloutInvariant, PTL DEF RolloutInv

(* A status that reports the current generation Running, Ready and Stable stands over a
   pod of the current spec, whatever is edited, deleted or failed meanwhile: an observer
   that waits for it (docs/observability.md:54) never sees an older pod as rolled out. *)
THEOREM ConvergedStatusIsTrue == Spec => []ConvergedIsRolledOut
<1>1. RolloutInv => ConvergedIsRolledOut
  BY DEF RolloutInv, PodInv
<1> QED BY <1>1, RolloutInvariant, PTL

(* Only a failure, or a defaulter that rewrites what the operator builds, gets a pod
   dead-lettered: podSpecMatches never mistakes its own builders' work for a drift, so no
   rebuild loop spends the budget of a healthy slot. *)
THEOREM OnlyFailuresPark == Spec => []HealthyIsNotParked
<1>1. RolloutInv => HealthyIsNotParked
  BY DEF RolloutInv, PodInv
<1> QED BY <1>1, RolloutInvariant, PTL
=============================================================================
