-------------------------- MODULE MigrationProofs --------------------------
(* Proofs about Migration: type correctness, and that the pass keeps the promise of
   VMState: the main's live state is never lost. *)
EXTENDS Migration, ClusterProofs

-----------------------------------------------------------------------------
(* Types *)

(* A pass that comes to its status has a phase to write. *)
TypeInv == TypeOK /\ (run.pc = "status" => run.last \in Phases)

(* The set is its main alone. *)
LEMMA MainOnly == Main \in VMs /\ \A v \in VMs : v = Main
BY MigrationAssumption

(* The copies of the pass survive what it decides on them. *)
SameCopies(r, s) == s.cs = r.cs /\ s.pod = r.pod /\ s.place = r.place

(* The start of a pass picks the first call, and a main that failed ends as Failed. *)
LEMMA EntryFields ==
    ASSUME NEW r \in Runs
    PROVE  /\ Entry(r) \in Runs /\ SameCopies(r, Entry(r))
           /\ Entry(r).pc = "status" => Entry(r).last \in Phases
           /\ ~(HasMain(r) /\ r.pod.state = "failed")
              => /\ Entry(r).pc = IF pinnedElsewhere(r) THEN "recreate"
                                  ELSE IF NoMigration(r) THEN "unsuspend"
                                  ELSE IF HasMain(r) /\ r.pod.hib THEN "owner" ELSE "probe"
                 /\ Entry(r).last = r.last
<1>1. CASE HasMain(r) /\ r.pod.state = "failed"
  <2>1. ASSUME NEW l \in PCs
        PROVE  LET s == [r EXCEPT !.last = "Failed", !.pc = l] IN
               s \in Runs /\ SameCopies(r, s) /\ s.last = "Failed"
    BY DEF Runs, Phases, SameCopies
  <2>2. \E l \in PCs : Entry(r) = [r EXCEPT !.last = "Failed", !.pc = l]
    BY <1>1 DEF Entry, PCs
  <2> QED BY <1>1, <2>1, <2>2 DEF Phases
<1>2. CASE ~(HasMain(r) /\ r.pod.state = "failed")
  <2> DEFINE l == IF pinnedElsewhere(r) THEN "recreate"
                  ELSE IF NoMigration(r) THEN "unsuspend"
                  ELSE IF HasMain(r) /\ r.pod.hib THEN "owner" ELSE "probe"
  <2>1. Entry(r) = [r EXCEPT !.pc = l]
    BY <1>2 DEF Entry
  <2>2. l \in PCs /\ l # "status"
    BY DEF PCs
  <2> HIDE DEF l
  <2>3. [r EXCEPT !.pc = l] \in Runs /\ SameCopies(r, [r EXCEPT !.pc = l])
        /\ [r EXCEPT !.pc = l].pc = l /\ [r EXCEPT !.pc = l].last = r.last
    BY <2>2 DEF Runs, SameCopies
  <2>4. Entry(r).pc = l /\ Entry(r).last = r.last
    BY <2>1, <2>3
  <2> QED BY <1>2, <2>1, <2>2, <2>3, <2>4 DEF l
<1> QED BY <1>1, <1>2

(* A main that is there gives the pass its phase; one that is not is created. *)
LEMMA EnsureFields ==
    ASSUME NEW r \in Runs
    PROVE  /\ EnsureMain(r) \in Runs /\ SameCopies(r, EnsureMain(r))
           /\ EnsureMain(r).pc = IF HasMain(r) THEN "status" ELSE "intent"
           /\ HasMain(r) => EnsureMain(r).last \in Phases
<1>1. CASE HasMain(r)
  BY <1>1 DEF EnsureMain, Runs, Phases, PCs, SameCopies
<1>2. CASE ~HasMain(r)
  BY <1>2 DEF EnsureMain, Runs, Phases, PCs, SameCopies
<1> QED BY <1>1, <1>2

(* After applyUnsuspend the pass reports, reclaims a snapshot or creates the main. *)
LEMMA UnsuspendedFields ==
    ASSUME NEW r \in Runs
    PROVE  /\ Unsuspended(r) \in Runs /\ SameCopies(r, Unsuspended(r))
           /\ Unsuspended(r).pc = "status" => Unsuspended(r).last \in Phases
           /\ Unsuspended(r).pc \in {"status", "reclaim", "intent"}
           /\ Unsuspended(r).pc = "reclaim" => HasMain(r) /\ ~r.pod.hib /\ r.pod.live
           /\ Unsuspended(r).pc = "intent" => ~HasMain(r)
           /\ r.last # "Failed" /\ Unsuspended(r).pc = "status" => HasMain(r)
<1>1. CASE r.last = "Failed"
  <2>1. [r EXCEPT !.pc = "status"] \in Runs /\ SameCopies(r, [r EXCEPT !.pc = "status"])
        /\ [r EXCEPT !.pc = "status"].last = "Failed" /\ [r EXCEPT !.pc = "status"].pc = "status"
    BY <1>1 DEF Runs, PCs, SameCopies
  <2> QED BY <1>1, <2>1 DEF Unsuspended, Phases
<1>2. CASE r.last # "Failed" /\ HasMain(r) /\ r.cs.owed # 0 /\ wokenAt(r.pod, r.cs.owed)
  <2>1. [r EXCEPT !.pc = "reclaim"] \in Runs /\ SameCopies(r, [r EXCEPT !.pc = "reclaim"])
        /\ [r EXCEPT !.pc = "reclaim"].pc = "reclaim"
    BY DEF Runs, PCs, SameCopies
  <2> QED BY <1>2, <2>1 DEF Unsuspended, wokenAt
<1>3. CASE r.last # "Failed" /\ ~(HasMain(r) /\ r.cs.owed # 0 /\ wokenAt(r.pod, r.cs.owed))
  BY <1>3, EnsureFields DEF Unsuspended
<1> QED BY <1>1, <1>2, <1>3

(* The answer to a patch of the main. *)
LEMMA PatchedFields ==
    ASSUME TypeOK, NEW q \in Pods
    PROVE  /\ Patched(q) \in Runs /\ Patched(q).cs = run.cs /\ Patched(q).place = place
           /\ Patched(q).pc = run.pc /\ Patched(q).last = run.last
           /\ Patched(q).pod = [q EXCEPT !.at = "present"] /\ Patched(q).pod.at = "present"
           /\ Patched(q).pod.hib = q.hib /\ Patched(q).pod.live = q.live
           /\ Patched(q).pod.state = q.state /\ Patched(q).pod.restore = q.restore
<1>1. LET m == [q EXCEPT !.at = "present"] IN
      /\ m \in Pods /\ m.at = "present" /\ m.hib = q.hib /\ m.live = q.live
      /\ m.state = q.state /\ m.restore = q.restore
  BY DEF Pods
<1>2. run \in Runs /\ place \in Places
  BY DEF TypeOK
<1> QED BY <1>1, <1>2 DEF Patched, Runs

(* The pods a pass writes. *)
LEMMA PodUpdates ==
    ASSUME TypeOK, NEW g \in Generations, NEW h \in BOOLEAN
    PROVE  /\ LET q == [pod[Main] EXCEPT !.gen = g] IN
              /\ q \in Pods /\ [pod EXCEPT ![Main] = q] \in [VMs -> Pods]
              /\ q.at = pod[Main].at /\ q.hib = pod[Main].hib /\ q.live = pod[Main].live
              /\ q.state = pod[Main].state /\ q.restore = pod[Main].restore
           /\ LET q == [pod[Main] EXCEPT !.hib = h] IN
              /\ q \in Pods /\ [pod EXCEPT ![Main] = q] \in [VMs -> Pods]
              /\ q.at = pod[Main].at /\ q.hib = h /\ q.live = pod[Main].live
              /\ q.state = pod[Main].state /\ q.restore = pod[Main].restore
           /\ LET q == NewPod(TRUE, h, g) IN
              /\ q \in Pods /\ [pod EXCEPT ![Main] = q] \in [VMs -> Pods]
              /\ q.at = "present" /\ ~q.hib /\ ~q.live /\ q.state = "none" /\ q.restore = h
<1>1. pod \in [VMs -> Pods] /\ pod[Main] \in Pods
  BY MainOnly DEF TypeOK, ClusterTypeOK
<1>2. LET q == [pod[Main] EXCEPT !.gen = g] IN
      /\ q \in Pods
      /\ q.at = pod[Main].at /\ q.hib = pod[Main].hib /\ q.live = pod[Main].live
      /\ q.state = pod[Main].state /\ q.restore = pod[Main].restore
  BY <1>1 DEF Pods
<1>3. LET q == [pod[Main] EXCEPT !.hib = h] IN
      /\ q \in Pods
      /\ q.at = pod[Main].at /\ q.hib = h /\ q.live = pod[Main].live
      /\ q.state = pod[Main].state /\ q.restore = pod[Main].restore
  BY <1>1 DEF Pods
<1>4. LET q == NewPod(TRUE, h, g) IN
      q \in Pods /\ q.at = "present" /\ ~q.hib /\ ~q.live /\ q.state = "none" /\ q.restore = h
  <2>1. NewPod(TRUE, h, g) \in Pods
    BY PodRecordType
  <2> QED BY <2>1 DEF NewPod, NoPod
<1> QED BY <1>1, <1>2, <1>3, <1>4

(* A delete changes nothing of the main but that it goes. *)
LEMMA DeletedFields ==
    ASSUME TypeOK
    PROVE  /\ Deleted \in [VMs -> Pods]
           /\ Deleted[Main].at = IF pod[Main].at = "present" THEN "terminating" ELSE pod[Main].at
           /\ Deleted[Main].hib = pod[Main].hib /\ Deleted[Main].live = pod[Main].live
           /\ Deleted[Main].state = pod[Main].state /\ Deleted[Main].restore = pod[Main].restore
           /\ pod[Main].at = "absent" => Deleted[Main] = pod[Main]
<1>1. pod \in [VMs -> Pods] /\ pod[Main] \in Pods /\ Main \in VMs
  BY MainOnly DEF TypeOK, ClusterTypeOK
<1>2. LET a == IF pod[Main].at = "present" THEN "terminating" ELSE pod[Main].at
          q == [pod[Main] EXCEPT !.at = a] IN
      /\ q \in Pods /\ q.at = a /\ q.hib = pod[Main].hib /\ q.live = pod[Main].live
      /\ q.state = pod[Main].state /\ q.restore = pod[Main].restore
      /\ pod[Main].at = "absent" => q = pod[Main]
  BY <1>1 DEF Pods
<1>3. Deleted = [pod EXCEPT ![Main] =
                   [pod[Main] EXCEPT !.at = IF pod[Main].at = "present" THEN "terminating"
                                            ELSE pod[Main].at]]
  BY <1>1 DEF Deleted
<1> QED BY <1>1, <1>2, <1>3

(* Requests are there or not. *)
LEMMA WatchedType == ASSUME TypeOK, Watched PROVE queued' \in BOOLEAN
BY DEF Watched, Watch, TypeOK

(* The probe sends a pass to one of the arms. *)
LEMMA ProbeArm ==
    ASSUME NEW r \in Runs
    PROVE  advanceMigration(r) \in PCs \ {"status"}
BY DEF advanceMigration, PCs

(* What a step of a pass does that makes no call, or a call that only answers. *)
LEMMA ControlEffect ==
    ASSUME TypeOK, NEW claimed, NEW tracked, NEW restorable,
           \/ SkipClaimed(claimed) \/ HasHibernateSnapshot \/ SkipTracked(tracked)
           \/ markRestoreFromIntent(restorable) \/ PodNotFound \/ Abandon
    PROVE  /\ UNCHANGED <<pod, tag, vk, vkGen, cs, place, boots>> /\ faults' \in 0..MaxFaults
           /\ run' \in Runs /\ SameCopies(run, run') /\ run'.pc # "status" /\ run'.last = run.last
           /\ Watched
<1>0. run \in Runs /\ faults \in 0..MaxFaults
  BY DEF TypeOK, ClusterTypeOK
<1>1. ASSUME NEW l \in PCs \ {"status"}, Goto(l)
      PROVE  /\ run' \in Runs /\ SameCopies(run, run') /\ run'.pc = l
             /\ run'.last = run.last
  BY <1>0, <1>1 DEF Goto, Runs, SameCopies
<1>2. CASE SkipClaimed(claimed)
  BY <1>0, <1>1, <1>2 DEF SkipClaimed, PodUnchanged, RestUnchanged, PCs
<1>3. CASE HasHibernateSnapshot
  <2>1. (IF tag[Main] # "none" THEN advanceMigration(run)
         ELSE IF mainOffTarget(run) THEN "startStatus" ELSE "unsuspend") \in PCs \ {"status"}
    BY <1>0, ProbeArm DEF PCs
  <2> QED BY <1>0, <1>1, <1>3, <2>1 DEF HasHibernateSnapshot, PodUnchanged, RestUnchanged
<1>4. CASE SkipTracked(tracked)
  BY <1>0, <1>1, <1>4 DEF SkipTracked, PodUnchanged, RestUnchanged, PCs
<1>5. CASE markRestoreFromIntent(restorable)
  BY <1>0, <1>5 DEF markRestoreFromIntent, PodUnchanged, RestUnchanged, Runs, PCs, SameCopies
<1>6. CASE PodNotFound
  BY <1>0, <1>1, <1>6 DEF PodNotFound, PodUnchanged, RestUnchanged, PCs, Return
<1>7. CASE Abandon
  <2>1. faults' \in 0..MaxFaults
    BY <1>0, <1>7, ClusterAssumption DEF Abandon
  <2> QED BY <1>1, <1>7, <2>1 DEF Abandon, PCs, Return
<1> QED BY <1>2, <1>3, <1>4, <1>5, <1>6, <1>7

(* The two writes of a phase that a migration makes. *)
LEMMA PhaseEffect ==
    ASSUME TypeOK, startMigration \/ markMigrating
    PROVE  /\ UNCHANGED <<pod, tag, vk, vkGen, faults, place, boots>>
           /\ cs' \in Sets /\ cs'.phase = "Migrating" /\ cs'.pin = cs.pin /\ cs'.gen = cs.gen
           /\ run' \in Runs /\ run'.cs = cs' /\ run'.pod = run.pod /\ run'.place = run.place
           /\ run'.last = run.last
           /\ \/ run.pc = "startStatus" /\ run'.pc = "quiesce"
              \/ run.pc = "mark" /\ run'.pc = "idle"
           /\ Watched
<1>0. run \in Runs /\ cs \in Sets /\ "Migrating" \in Phases
  BY DEF TypeOK, Phases
<1> DEFINE c == [cs EXCEPT !.phase = "Migrating"]
<1>1. c \in Sets /\ c.phase = "Migrating" /\ c.pin = cs.pin /\ c.gen = cs.gen
  BY <1>0 DEF Sets
<1> HIDE DEF c
<1>2. ASSUME NEW l \in PCs, PatchSet(c, l)
      PROVE  /\ cs' = c /\ run' \in Runs /\ run'.cs = cs' /\ run'.pod = run.pod
             /\ run'.place = run.place /\ run'.last = run.last /\ run'.pc = l
  BY <1>0, <1>1, <1>2 DEF PatchSet, Runs
<1>3. CASE startMigration
  <2>1. PatchSet(c, "quiesce") /\ "quiesce" \in PCs
    BY <1>3 DEF startMigration, c, PCs
  <2>2. /\ cs' = c /\ run' \in Runs /\ run'.cs = cs' /\ run'.pod = run.pod
        /\ run'.place = run.place /\ run'.last = run.last /\ run'.pc = "quiesce"
    BY <1>2, <2>1
  <2> QED BY <1>1, <1>3, <2>2 DEF startMigration, PodUnchanged, RestUnchanged
<1>4. CASE markMigrating
  <2>1. PatchSet(c, "idle") /\ "idle" \in PCs
    BY <1>4 DEF markMigrating, c, PCs
  <2>2. /\ cs' = c /\ run' \in Runs /\ run'.cs = cs' /\ run'.pod = run.pod
        /\ run'.place = run.place /\ run'.last = run.last /\ run'.pc = "idle"
    BY <1>2, <2>1
  <2> QED BY <1>1, <1>4, <2>2 DEF markMigrating, PodUnchanged, RestUnchanged
<1> QED BY <1>3, <1>4

(* A tag is dropped. *)
LEMMA DropEffect ==
    ASSUME TypeOK, DeleteManifest \/ reclaimSnapshots
    PROVE  /\ UNCHANGED <<pod, vk, vkGen, faults, cs, place, boots>>
           /\ tag' = [tag EXCEPT ![Main] = "none"] /\ tag'[Main] = "none"
           /\ tag' \in [VMs -> {"none", "fresh", "stale"}]
           /\ run' \in Runs /\ SameCopies(run, run') /\ run'.last = run.last
           /\ \/ run.pc \in {"dropStale", "dropRestored"} /\ run'.pc = "mark"
              \/ run.pc = "reclaim" /\ run'.pc = "forget"
           /\ Watched
<1>0. run \in Runs /\ tag \in [VMs -> {"none", "fresh", "stale"}] /\ Main \in VMs
  BY MainOnly DEF TypeOK, ClusterTypeOK
<1>1. CASE DeleteManifest
  BY <1>0, <1>1 DEF DeleteManifest, Goto, PodUnchanged, RestUnchanged, Runs, PCs, SameCopies
<1>2. CASE reclaimSnapshots
  BY <1>0, <1>2 DEF reclaimSnapshots, Goto, PodUnchanged, RestUnchanged, Runs, PCs, SameCopies
<1> QED BY <1>1, <1>2

(* The main is deleted. *)
LEMMA DeleteEffect ==
    ASSUME TypeOK, RecreateUnscheduled \/ DeleteOld
    PROVE  /\ UNCHANGED <<tag, vk, vkGen, faults, cs, place, boots>>
           /\ pod' = Deleted
           /\ run' \in Runs /\ SameCopies(run, run') /\ run'.last = run.last
           /\ \/ run.pc = "recreate" /\ run'.pc = "idle"
              \/ run.pc = "deleteOld" /\ run'.pc = "mark"
           /\ Watched
<1>0. run \in Runs
  BY DEF TypeOK
<1>1. CASE RecreateUnscheduled
  BY <1>0, <1>1 DEF RecreateUnscheduled, Return, Goto, RestUnchanged, Runs, PCs, SameCopies
<1>2. CASE DeleteOld
  BY <1>0, <1>2 DEF DeleteOld, Goto, RestUnchanged, Runs, PCs, SameCopies
<1> QED BY <1>1, <1>2

(* A main is created where there is none. *)
LEMMA CreateEffect ==
    ASSUME TypeOK, RestoreMain \/ createMainAgent
    PROVE  /\ UNCHANGED <<tag, vk, vkGen, faults, cs, boots>>
           /\ run' \in Runs /\ SameCopies(run, run') /\ run'.last = run.last
           /\ run.pc \in {"restore", "create"} /\ run'.pc \in {"mark", "idle"}
           /\ \/ pod[Main].at # "absent" /\ pod' = pod /\ place' = place /\ run'.pc = "idle"
              \/ /\ pod[Main].at = "absent"
                 /\ \E h \in BOOLEAN : /\ run.pc = "restore" => h
                                       /\ pod' = [pod EXCEPT ![Main] = NewPod(TRUE, h, run.cs.gen)]
                                       /\ run.pc = "create" => h = run.restore
                 /\ place' = [aff |-> run.cs.pin, node |-> NoNode]
           /\ Watched
<1>0. run \in Runs /\ run.restore \in BOOLEAN
  BY DEF TypeOK, Runs
<1>1. ASSUME NEW l \in PCs, Goto(l)
      PROVE  run' \in Runs /\ SameCopies(run, run') /\ run'.pc = l /\ run'.last = run.last
  BY <1>0, <1>1 DEF Goto, Runs, SameCopies
<1>2. CASE RestoreMain
  BY <1>0, <1>1, <1>2 DEF RestoreMain, CreateMain, Return, RestUnchanged, PCs
<1>3. CASE createMainAgent
  BY <1>0, <1>1, <1>3 DEF createMainAgent, CreateMain, Return, RestUnchanged, PCs
<1> QED BY <1>2, <1>3

(* The un-suspend records, hands on or forgets. *)
LEMMA RecordEffect ==
    ASSUME TypeOK, NEW claimed, applyUnsuspend(claimed) \/ forgetReclaim
    PROVE  /\ UNCHANGED <<pod, tag, vk, vkGen, faults, place, boots>>
           /\ cs' \in Sets /\ cs'.phase = cs.phase /\ cs'.pin = cs.pin /\ cs'.gen = cs.gen
           /\ run' \in Runs /\ run'.pod = run.pod /\ run'.place = run.place
           /\ run'.pc = "status" => run'.last \in Phases
           /\ \/ /\ run.pc = "unsuspend" /\ HasMain(run) /\ run.pod.hib
                 /\ run'.pc = "clear" /\ run'.cs = cs' /\ run'.last = run.last
              \/ /\ run.pc = "unsuspend" /\ ~(HasMain(run) /\ run.pod.hib /\ Main \notin claimed)
                 /\ run' = Unsuspended(run) /\ cs' = cs
              \/ /\ run.pc = "forget" /\ run'.cs = cs'
                 /\ run'.pc = IF HasMain(run) THEN "status" ELSE "intent"
           /\ Watched
<1>z. 0 \in Generations
  BY ClusterAssumption DEF Generations
<1>0. run \in Runs /\ cs \in Sets /\ run.cs.gen \in Generations /\ 0 \in Generations
  BY <1>z DEF TypeOK, Runs, Sets
<1>1. ASSUME NEW g \in Generations
      PROVE  LET c == [cs EXCEPT !.owed = g] IN
             c \in Sets /\ c.phase = cs.phase /\ c.pin = cs.pin /\ c.gen = cs.gen
  BY <1>0 DEF Sets
<1>2. CASE applyUnsuspend(claimed)
  <2>1. CASE HasMain(run) /\ run.pod.hib /\ Main \notin claimed
    <3> DEFINE c == [cs EXCEPT !.owed = run.cs.gen]
    <3>1. c \in Sets /\ c.phase = cs.phase /\ c.pin = cs.pin /\ c.gen = cs.gen
      BY <1>0, <1>1
    <3>2. run.pc = "unsuspend" /\ PatchSet(c, "clear")
      BY <1>2, <2>1 DEF applyUnsuspend
    <3> HIDE DEF c
    <3>3. cs' = c /\ run' \in Runs /\ run'.cs = c /\ run'.pc = "clear" /\ run'.pod = run.pod
          /\ run'.place = run.place /\ run'.last = run.last
      BY <1>0, <3>1, <3>2 DEF PatchSet, Runs, PCs
    <3> QED BY <1>2, <2>1, <3>1, <3>2, <3>3 DEF applyUnsuspend, PodUnchanged, RestUnchanged
  <2>2. CASE ~(HasMain(run) /\ run.pod.hib /\ Main \notin claimed)
    <3>1. run.pc = "unsuspend" /\ run' = Unsuspended(run) /\ cs' = cs
      BY <1>2, <2>2 DEF applyUnsuspend
    <3>2. run' \in Runs /\ SameCopies(run, run') /\ (run'.pc = "status" => run'.last \in Phases)
      BY <1>0, <3>1, UnsuspendedFields
    <3> QED BY <1>0, <1>2, <2>2, <3>1, <3>2
            DEF applyUnsuspend, PodUnchanged, RestUnchanged, SameCopies
  <2> QED BY <2>1, <2>2
<1>3. CASE forgetReclaim
  <2> DEFINE c == [cs EXCEPT !.owed = 0]
             r == [run EXCEPT !.cs = c]
  <2>1. c \in Sets /\ c.phase = cs.phase /\ c.pin = cs.pin /\ c.gen = cs.gen
    BY <1>0, <1>1
  <2>2. cs' = c /\ run' = EnsureMain([run EXCEPT !.cs = cs']) /\ run.pc = "forget"
    BY <1>3 DEF forgetReclaim
  <2> HIDE DEF c
  <2>3. r \in Runs /\ r.cs = c /\ r.pod = run.pod /\ r.place = run.place
    BY <1>0, <2>1 DEF Runs
  <2>4. run' = EnsureMain(r) /\ (HasMain(r) <=> HasMain(run))
    BY <2>2, <2>3 DEF HasMain
  <2> HIDE DEF r
  <2>5. /\ run' \in Runs /\ run'.cs = c /\ run'.pod = run.pod /\ run'.place = run.place
        /\ run'.pc = IF HasMain(run) THEN "status" ELSE "intent"
        /\ run'.pc = "status" => run'.last \in Phases
    BY <2>3, <2>4, EnsureFields DEF SameCopies
  <2> QED BY <1>3, <2>1, <2>2, <2>5 DEF forgetReclaim, PodUnchanged, RestUnchanged
<1> QED BY <1>2, <1>3

(* A patch of the main that leaves it with the annotation h, and its answer. *)
MainPatched(needed, h) ==
    /\ UNCHANGED <<tag, vk, vkGen, faults, cs, place, boots>>
    /\ pod' \in [VMs -> Pods]
    /\ pod'[Main].at = pod[Main].at /\ pod'[Main].live = pod[Main].live
    /\ pod'[Main].state = pod[Main].state /\ pod'[Main].restore = pod[Main].restore
    /\ run' \in Runs /\ run'.cs = run.cs
    /\ \/ ~needed /\ pod' = pod /\ run'.pod = run.pod /\ run'.place = run.place
       \/ /\ needed /\ pod[Main].at # "absent" /\ pod'[Main].hib = h
          /\ run'.pod.at = "present" /\ run'.pod.hib = h /\ run'.place = place
          /\ run'.pod.live = pod[Main].live /\ run'.pod.state = pod[Main].state

(* The stamp of a new generation, after which the pass decides on the answer. *)
LEMMA StampEffect ==
    ASSUME TypeOK, syncCocoonSetGeneration
    PROVE  /\ MainPatched(Stale(run), pod[Main].hib) /\ Watched
           /\ run.pc = "stamp" /\ (run'.pc = "status" => run'.last \in Phases)
           /\ \E r \in Runs : run' = Entry(r) /\ r.last = run.last
<1>0. run \in Runs /\ run.cs.gen \in Generations /\ pod[Main] \in Pods /\ Main \in VMs
      /\ pod \in [VMs -> Pods]
  BY MainOnly DEF TypeOK, ClusterTypeOK, Runs, Sets
<1> DEFINE q == [pod[Main] EXCEPT !.gen = run.cs.gen]
           r == IF Stale(run) THEN Patched(q) ELSE run
<1>1. /\ q \in Pods /\ q.at = pod[Main].at /\ q.hib = pod[Main].hib
      /\ q.live = pod[Main].live /\ q.state = pod[Main].state /\ q.restore = pod[Main].restore
  BY <1>0 DEF Pods
<1>2. /\ Stale(run) => pod[Main].at # "absent"
      /\ pod' = IF Stale(run) THEN [pod EXCEPT ![Main] = q] ELSE pod
      /\ run' = Entry(r)
      /\ UNCHANGED <<tag, cs, place, vk, vkGen, faults, boots>> /\ Watched /\ run.pc = "stamp"
  BY DEF syncCocoonSetGeneration, PatchMain, RestUnchanged
<1> HIDE DEF q
<1>3. /\ r \in Runs /\ r.cs = run.cs /\ r.last = run.last
      /\ ~Stale(run) => r.pod = run.pod /\ r.place = run.place
      /\ Stale(run) => /\ r.pod.at = "present" /\ r.pod.hib = q.hib /\ r.place = place
                       /\ r.pod.live = q.live /\ r.pod.state = q.state
  BY <1>0, <1>1, PatchedFields
<1> HIDE DEF r
<1>4. SameCopies(r, run') /\ run' \in Runs /\ (run'.pc = "status" => run'.last \in Phases)
  BY <1>2, <1>3, EntryFields
<1>5. /\ run'.cs = run.cs
      /\ ~Stale(run) => run'.pod = run.pod /\ run'.place = run.place
      /\ Stale(run) => /\ run'.pod.at = "present" /\ run'.pod.hib = q.hib /\ run'.place = place
                       /\ run'.pod.live = q.live /\ run'.pod.state = q.state
  BY <1>3, <1>4 DEF SameCopies
<1>6. /\ pod' \in [VMs -> Pods] /\ pod'[Main].at = pod[Main].at
      /\ pod'[Main].hib = pod[Main].hib
      /\ pod'[Main].live = pod[Main].live /\ pod'[Main].state = pod[Main].state
      /\ pod'[Main].restore = pod[Main].restore
      /\ ~Stale(run) => pod' = pod
  BY <1>0, <1>1, <1>2
<1>7. MainPatched(Stale(run), pod[Main].hib)
  BY <1>1, <1>2, <1>4, <1>5, <1>6 DEF MainPatched
<1> QED BY <1>2, <1>3, <1>4, <1>7

(* The three patches of the annotation. *)
LEMMA HibEffect ==
    ASSUME TypeOK, Quiesce \/ WakeInPlace \/ ClearHibernate
    PROVE  /\ Watched
           /\ \/ run.pc = "quiesce" /\ MainPatched(~run.pod.hib, TRUE) /\ run'.pc = "idle"
              \/ /\ run.pc = "wakeInPlace" /\ MainPatched(run.pod.hib, FALSE) /\ run'.pc = "mark"
                 /\ run'.last = run.last
              \/ /\ run.pc = "clear" /\ MainPatched(run.pod.hib, FALSE)
                 /\ run'.pc = "status" => run'.last \in Phases
                 /\ \E r \in Runs : /\ run' = Unsuspended(r) /\ SameCopies(r, run')
                                    /\ r.last = run.last
<1>0. run \in Runs /\ run.pod.hib \in BOOLEAN /\ pod[Main] \in Pods /\ Main \in VMs
      /\ pod \in [VMs -> Pods]
  BY MainOnly DEF TypeOK, ClusterTypeOK, Runs, Pods
<1> DEFINE q(h) == [pod[Main] EXCEPT !.hib = h]
           r(n, h) == IF n THEN Patched(q(h)) ELSE run
<1>1. ASSUME NEW h \in BOOLEAN
      PROVE  /\ q(h) \in Pods /\ q(h).at = pod[Main].at /\ q(h).hib = h
             /\ q(h).live = pod[Main].live /\ q(h).state = pod[Main].state
             /\ q(h).restore = pod[Main].restore
  BY <1>0 DEF Pods
<1>2. ASSUME NEW n \in BOOLEAN, NEW h \in BOOLEAN, NEW s \in Runs, SameCopies(r(n, h), s),
             n => pod[Main].at # "absent", run' = s,
             pod' = IF n THEN [pod EXCEPT ![Main] = q(h)] ELSE pod,
             UNCHANGED <<tag, cs, place, vk, vkGen, faults, boots>>
      PROVE  MainPatched(n, h)
  <2>1. /\ r(n, h).cs = run.cs
        /\ ~n => r(n, h).pod = run.pod /\ r(n, h).place = run.place
        /\ n => /\ r(n, h).pod.at = "present" /\ r(n, h).pod.hib = h /\ r(n, h).place = place
                /\ r(n, h).pod.live = pod[Main].live /\ r(n, h).pod.state = pod[Main].state
    <3>1. CASE n
      <4>1. r(n, h) = Patched(q(h)) /\ q(h) \in Pods
        BY <1>1, <3>1
      <4> HIDE DEF q, r
      <4>2. /\ Patched(q(h)).cs = run.cs /\ Patched(q(h)).place = place
            /\ Patched(q(h)).pod.at = "present" /\ Patched(q(h)).pod.hib = q(h).hib
            /\ Patched(q(h)).pod.live = q(h).live /\ Patched(q(h)).pod.state = q(h).state
        BY <4>1, PatchedFields
      <4>3. q(h).hib = h /\ q(h).live = pod[Main].live /\ q(h).state = pod[Main].state
        BY <1>1
      <4> QED BY <3>1, <4>1, <4>2, <4>3
    <3>2. CASE ~n
      BY <3>2
    <3> QED BY <3>1, <3>2
  <2>2. /\ pod' \in [VMs -> Pods] /\ pod'[Main].at = pod[Main].at
        /\ pod'[Main].live = pod[Main].live /\ pod'[Main].state = pod[Main].state
        /\ pod'[Main].restore = pod[Main].restore
        /\ n => pod'[Main].hib = h
        /\ ~n => pod' = pod
    <3> HIDE DEF q
    <3> QED BY <1>0, <1>1, <1>2
  <2> HIDE DEF q, r
  <2>3. /\ run'.cs = run.cs /\ run' \in Runs
        /\ ~n => run'.pod = run.pod /\ run'.place = run.place
        /\ n => /\ run'.pod.at = "present" /\ run'.pod.hib = h /\ run'.place = place
                /\ run'.pod.live = pod[Main].live /\ run'.pod.state = pod[Main].state
    BY <1>2, <2>1 DEF SameCopies
  <2> QED BY <1>2, <2>2, <2>3 DEF MainPatched
<1>3. ASSUME NEW n \in BOOLEAN, NEW h \in BOOLEAN PROVE r(n, h) \in Runs /\ r(n, h).last = run.last
  BY <1>0, <1>1, PatchedFields
<1>4. ASSUME NEW s \in Runs, NEW l \in PCs
      PROVE  /\ [s EXCEPT !.pc = l] \in Runs /\ SameCopies(s, [s EXCEPT !.pc = l])
             /\ [s EXCEPT !.pc = l].pc = l /\ [s EXCEPT !.pc = l].last = s.last
  BY DEF Runs, SameCopies
<1>5. CASE Quiesce
  <2>1. /\ ~run.pod.hib => pod[Main].at # "absent"
        /\ pod' = IF ~run.pod.hib THEN [pod EXCEPT ![Main] = q(TRUE)] ELSE pod
        /\ run' = [r(~run.pod.hib, TRUE) EXCEPT !.pc = "idle"]
        /\ UNCHANGED <<tag, cs, place, vk, vkGen, faults, boots>> /\ Watched
        /\ run.pc = "quiesce"
    BY <1>5 DEF Quiesce, PatchMain, RestUnchanged
  <2> HIDE DEF q, r
  <2>2. /\ run' \in Runs /\ SameCopies(r(~run.pod.hib, TRUE), run') /\ run'.pc = "idle"
    <3>1. "idle" \in PCs
      BY DEF PCs
    <3>2. r(~run.pod.hib, TRUE) \in Runs
      BY <1>0, <1>3
    <3> QED BY <1>4, <2>1, <3>1, <3>2
  <2>3. MainPatched(~run.pod.hib, TRUE)
    BY <1>0, <1>2, <2>1, <2>2
  <2> QED BY <2>1, <2>2, <2>3
<1>6. CASE WakeInPlace
  <2>1. /\ run.pod.hib => pod[Main].at # "absent"
        /\ pod' = IF run.pod.hib THEN [pod EXCEPT ![Main] = q(FALSE)] ELSE pod
        /\ run' = [r(run.pod.hib, FALSE) EXCEPT !.pc = "mark"]
        /\ UNCHANGED <<tag, cs, place, vk, vkGen, faults, boots>> /\ Watched
        /\ run.pc = "wakeInPlace"
    BY <1>6 DEF WakeInPlace, PatchMain, RestUnchanged
  <2> HIDE DEF q, r
  <2>2. /\ run' \in Runs /\ SameCopies(r(run.pod.hib, FALSE), run') /\ run'.pc = "mark"
        /\ run'.last = run.last
    <3>1. "mark" \in PCs
      BY DEF PCs
    <3>2. r(run.pod.hib, FALSE) \in Runs /\ r(run.pod.hib, FALSE).last = run.last
      BY <1>0, <1>3
    <3> QED BY <1>4, <2>1, <3>1, <3>2
  <2>3. MainPatched(run.pod.hib, FALSE)
    BY <1>0, <1>2, <2>1, <2>2
  <2> QED BY <2>1, <2>2, <2>3
<1>7. CASE ClearHibernate
  <2>1. /\ run.pod.hib => pod[Main].at # "absent"
        /\ pod' = IF run.pod.hib THEN [pod EXCEPT ![Main] = q(FALSE)] ELSE pod
        /\ run' = Unsuspended(r(run.pod.hib, FALSE))
        /\ UNCHANGED <<tag, cs, place, vk, vkGen, faults, boots>> /\ Watched
        /\ run.pc = "clear"
    BY <1>7 DEF ClearHibernate, PatchMain, RestUnchanged
  <2> HIDE DEF q, r
  <2>2. /\ run' \in Runs /\ SameCopies(r(run.pod.hib, FALSE), run')
        /\ run'.pc = "status" => run'.last \in Phases
    BY <1>0, <1>3, <2>1, UnsuspendedFields
  <2>3. MainPatched(run.pod.hib, FALSE)
    BY <1>0, <1>2, <2>1, <2>2
  <2> QED BY <1>0, <1>3, <2>1, <2>2, <2>3
<1> QED BY <1>5, <1>6, <1>7

(* The environment's steps, which leave the pass alone. *)
LEMMA EnvironmentType ==
    ASSUME TypeOK, NEW restorable, EditPin \/ Schedule \/ Evict(restorable) \/ VkActs \/ VkFails
    PROVE  TypeOK' /\ run' = run
<1>0. /\ run \in Runs /\ cs \in Sets /\ place \in Places /\ ClusterTypeOK /\ boots \in Boots
      /\ Main \in VMs
  BY MainOnly DEF TypeOK
<1>1. CASE EditPin
  <2>1. PICK n \in Pins : cs' = [cs EXCEPT !.gen = @ + 1, !.pin = n]
    BY <1>1 DEF EditPin
  <2>g. cs.gen \in Generations /\ cs.gen < MaxGen
    BY <1>0, <1>1 DEF EditPin, Sets
  <2>2. cs.gen + 1 \in Generations
    BY <2>g, ClusterAssumption DEF Generations
  <2>3. cs' \in Sets
    BY <1>0, <2>1, <2>2 DEF Sets
  <2> QED BY <1>0, <1>1, <2>3, WatchedType DEF EditPin, TypeOK, ClusterTypeOK, clusterVars
<1>2. CASE Schedule
  <2>1. PICK n \in Nodes : place' = [place EXCEPT !.node = n]
    BY <1>2 DEF Schedule
  <2>2. place' \in Places
    BY <1>0, <2>1 DEF Places, Pins
  <2> QED BY <1>0, <1>2, <2>2, WatchedType DEF Schedule, TypeOK, ClusterTypeOK, clusterVars
<1>3. CASE Evict(restorable)
  <2>1. faults' \in 0..MaxFaults
    BY <1>0, <1>3, ClusterAssumption DEF Evict, ClusterTypeOK
  <2>2. pod' \in [VMs -> Pods]
    BY <1>3, DeletedFields DEF Evict
  <2> QED BY <1>0, <1>3, <2>1, <2>2, WatchedType DEF Evict, TypeOK, ClusterTypeOK
<1>4. CASE VkActs
  <2>1. ClusterTypeOK'
    BY <1>0, <1>4, VkStepType DEF VkActs
  <2>2. Nowhere \in Places
    BY DEF Nowhere, Places, Pins
  <2>3. place' \in Places /\ boots' \in Boots
    BY <1>0, <1>4, <2>2 DEF VkActs, Boots
  <2> QED BY <1>0, <1>4, <2>1, <2>3, WatchedType DEF VkActs, TypeOK
<1>5. CASE VkFails
  <2>1. ClusterTypeOK'
    BY <1>0, <1>5, VkStepType DEF VkFails
  <2> QED BY <1>0, <1>5, <2>1, WatchedType DEF VkFails, TypeOK
<1> QED BY <1>1, <1>2, <1>3, <1>4, <1>5

(* A pass starts, and ends with the phase it has come to. *)
LEMMA StatusEffect ==
    ASSUME TypeInv, Reconcile \/ WriteStatus
    PROVE  /\ UNCHANGED <<pod, tag, vk, vkGen, faults, place, boots>>
           /\ cs' \in Sets /\ cs'.pin = cs.pin /\ cs'.gen = cs.gen
           /\ run' \in Runs /\ queued' \in BOOLEAN
           /\ \/ /\ run.pc = "idle" /\ run'.pc = "stamp" /\ cs' = cs /\ run'.cs = cs
                 /\ run'.pod = pod[Main] /\ run'.place = place /\ run'.last = ""
              \/ run.pc = "status" /\ run'.pc = "idle"
<1>0. /\ run \in Runs /\ cs \in Sets /\ place \in Places /\ pod[Main] \in Pods /\ queued \in BOOLEAN
  BY MainOnly DEF TypeInv, TypeOK, ClusterTypeOK
<1>1. CASE Reconcile
  BY <1>0, <1>1 DEF Reconcile, clusterVars, Runs, PCs
<1>2. CASE WriteStatus
  <2>1. run.pc = "status" /\ run.last \in Phases /\ cs' = [cs EXCEPT !.phase = run.last]
    BY <1>2 DEF WriteStatus, TypeInv
  <2>2. cs' \in Sets /\ cs'.pin = cs.pin /\ cs'.gen = cs.gen
    BY <1>0, <2>1 DEF Sets
  <2>3. run' \in Runs /\ run'.pc = "idle"
    BY <1>0, <1>2 DEF WriteStatus, Return, Goto, Runs, PCs
  <2>4. queued' \in BOOLEAN
    BY <1>0, <1>2 DEF WriteStatus, Watch
  <2> QED BY <1>2, <2>1, <2>2, <2>3, <2>4 DEF WriteStatus, PodUnchanged, RestUnchanged
<1> QED BY <1>1, <1>2

(* Every step of a pass keeps the types, whatever the lists of CRs name. *)
LEMMA PassType ==
    ASSUME TypeInv, NEW claimed, NEW tracked, NEW restorable,
           Reconcile \/ PassStep(claimed, tracked, restorable) \/ Abandon
    PROVE  TypeInv'
<1>0. TypeOK /\ ClusterTypeOK /\ place \in Places /\ boots \in Boots
  BY DEF TypeInv, TypeOK
<1>1. CASE \/ SkipClaimed(claimed) \/ HasHibernateSnapshot \/ SkipTracked(tracked)
           \/ markRestoreFromIntent(restorable) \/ PodNotFound \/ Abandon
  BY <1>0, <1>1, ControlEffect, WatchedType DEF TypeInv, TypeOK, ClusterTypeOK
<1>2. CASE startMigration \/ markMigrating
  BY <1>0, <1>2, PhaseEffect, WatchedType DEF TypeInv, TypeOK, ClusterTypeOK
<1>3. CASE DeleteManifest \/ reclaimSnapshots
  BY <1>0, <1>3, DropEffect, WatchedType DEF TypeInv, TypeOK, ClusterTypeOK
<1>4. CASE RecreateUnscheduled \/ DeleteOld
  BY <1>0, <1>4, DeleteEffect, DeletedFields, WatchedType DEF TypeInv, TypeOK, ClusterTypeOK
<1>5. CASE RestoreMain \/ createMainAgent
  <2>1. run.cs.gen \in Generations /\ run.cs.pin \in Pins
    BY <1>0 DEF TypeOK, Runs, Sets
  <2>c. \/ pod' = pod /\ place' = place
        \/ /\ \E h \in BOOLEAN : pod' = [pod EXCEPT ![Main] = NewPod(TRUE, h, run.cs.gen)]
           /\ place' = [aff |-> run.cs.pin, node |-> NoNode]
    BY <1>0, <1>5, CreateEffect
  <2>p. pod \in [VMs -> Pods] /\ \A h \in BOOLEAN : NewPod(TRUE, h, run.cs.gen) \in Pods
    BY <1>0, <2>1, PodRecordType DEF ClusterTypeOK
  <2>2. pod' \in [VMs -> Pods]
    BY <2>c, <2>p
  <2>n. [aff |-> run.cs.pin, node |-> NoNode] \in Places
    BY <2>1 DEF Places, Pins
  <2>3. place' \in Places
    BY <1>0, <2>n, <2>c
  <2> QED BY <1>0, <1>5, <2>2, <2>3, CreateEffect, WatchedType DEF TypeInv, TypeOK, ClusterTypeOK
<1>6. CASE applyUnsuspend(claimed) \/ forgetReclaim
  BY <1>0, <1>6, RecordEffect, WatchedType DEF TypeInv, TypeOK, ClusterTypeOK
<1>7. CASE syncCocoonSetGeneration
  BY <1>0, <1>7, StampEffect, WatchedType DEF MainPatched, TypeInv, TypeOK, ClusterTypeOK
<1>8. CASE Quiesce \/ WakeInPlace \/ ClearHibernate
  BY <1>0, <1>8, HibEffect, WatchedType DEF MainPatched, TypeInv, TypeOK, ClusterTypeOK
<1>9. CASE Reconcile \/ WriteStatus
  BY <1>0, <1>9, StatusEffect DEF TypeInv, TypeOK, ClusterTypeOK
<1> QED BY <1>1, <1>2, <1>3, <1>4, <1>5, <1>6, <1>7, <1>8, <1>9 DEF PassStep

(* Every step keeps the types. *)
LEMMA TypeStep == ASSUME TypeInv, [Next]_vars PROVE TypeInv'
<1>1. CASE Reconcile \/ NoCRs \/ Abandon
  BY <1>1, PassType DEF NoCRs
<1>2. CASE EditPin \/ Schedule \/ Evict({}) \/ VkActs \/ VkFails
  BY <1>2, EnvironmentType DEF TypeInv
<1>3. CASE UNCHANGED vars
  BY <1>3 DEF vars, setVars, clusterVars, TypeInv, TypeOK, ClusterTypeOK
<1> QED BY <1>1, <1>2, <1>3 DEF Next

(* A set that runs and a set that starts are well typed. *)
LEMMA TypeInit == Init => TypeInv
<1> SUFFICES ASSUME Init PROVE TypeInv
  OBVIOUS
<1>1. 0 \in Generations /\ 1 \in Generations /\ MaxFaults \in 0..MaxFaults
  BY ClusterAssumption DEF Generations
<1>2. NewPod(TRUE, FALSE, 1) \in Pods
  BY <1>1, PodRecordType
<1>3. ASSUME NEW q \in Pods
      PROVE  [q EXCEPT !.state = "ready", !.obs = 1, !.live = TRUE] \in Pods
  BY <1>1 DEF Pods
<1>4. ClusterTypeOK
  <2>1. CASE Running
    BY <1>1, <1>2, <1>3, <2>1 DEF Running, ClusterInit, ClusterTypeOK, VkStates, Init
  <2>2. CASE Starting
    BY <1>1, <1>2, <2>2 DEF Starting, NotBooted, ClusterTypeOK, VkStates, Init
  <2> QED BY <2>1, <2>2 DEF Init
<1>5. cs \in Sets /\ place \in Places /\ queued \in BOOLEAN /\ boots \in Boots
  <2>1. CASE Running
    <3>1. PICK n \in Nodes, p \in Pins :
            /\ cs = [gen |-> 1, pin |-> p, phase |-> "Running", owed |-> 0]
            /\ place = [aff |-> p, node |-> n]
      BY <2>1 DEF Running, Pins
    <3> QED BY <1>1, <2>1, <3>1 DEF Running, Sets, Places, Pins, Phases, Boots
  <2>2. CASE Starting
    <3>1. PICK p \in Pins :
            /\ cs = [gen |-> 1, pin |-> p, phase |-> "Pending", owed |-> 0]
            /\ place = [aff |-> p, node |-> NoNode]
      BY <2>2 DEF Starting
    <3> QED BY <1>1, <2>2, <3>1 DEF Starting, Sets, Places, Pins, Phases, Boots
  <2> QED BY <2>1, <2>2 DEF Init
<1>6. run \in Runs /\ run.pc = "idle"
  <2>1. pod[Main] \in Pods
    BY <1>4, MainOnly DEF ClusterTypeOK
  <2> QED BY <1>5, <2>1 DEF Init, Runs, PCs
<1> QED BY <1>4, <1>5, <1>6 DEF TypeInv, TypeOK

(* Every reachable state of the migration is well typed, for any nodes, generations and
   failures: in particular a pass that comes to its status always has a phase to write. *)
THEOREM MigrationTypeCorrect == Spec => []TypeOK
<1>1. TypeInv => TypeOK
  BY DEF TypeInv
<1> QED BY <1>1, TypeInit, TypeStep, PTL DEF Spec

-----------------------------------------------------------------------------
(* The live state is kept: the inductive invariant *)

P == pod[Main]
T == tag[Main]
K == vk[Main]

(* The VM boots from its image once; from then on it runs, or the tag holds its state, and
   a pod without a VM is one that restores it. *)
VmOK ==
    /\ boots # "more" /\ P.state # "failed"
    /\ P.at = "absent" => ~P.hib /\ ~P.live /\ place.node = NoNode /\ K = "off"
    /\ boots = "none" => K = "off" /\ T = "none" /\ ~P.restore /\ ~P.live
    /\ boots = "one" =>
         /\ (T = "fresh") <=> (K \notin {"running", "pushing"})
         /\ K = "off" /\ P.at = "present" => P.restore
         /\ K # "off" => place.node # NoNode
         /\ P.at = "terminating" => K \in {"off", "pushed", "asleep"}
         /\ P.live => K \in {"running", "pushing", "pushed"}
         /\ K \in {"pushing", "pushed"} => P.hib
         /\ K \in {"off", "waking"} => ~P.hib
    /\ P.hib /\ K \in {"off", "running", "pushing"} => T = "none"

(* The phase remembers the migration while the main is quiesced, gone or without a node,
   and the pin stays elsewhere until the main sleeps. *)
IntentOK ==
    /\ P.hib => cs.phase = "Migrating"
    /\ boots = "one" /\ (P.at # "present" \/ place.node = NoNode) => cs.phase = "Migrating"
    /\ P.hib /\ P.at = "present" /\ K # "asleep" =>
         place.node # NoNode /\ cs.pin \notin {NoNode, place.node}

(* What a pass's copies have in common with the set and its main. *)
CopyOK ==
    /\ run.cs.phase = cs.phase /\ run.pod.state # "failed"
    /\ HasMain(run) /\ P.at # "absent" =>
         run.pod.hib = P.hib /\ run.place.node \in {NoNode, place.node}
    /\ ~HasMain(run) /\ run.pc # "mark" => P.at # "present"
    /\ HasMain(run) /\ run.pod.live => run.place.node # NoNode
    /\ HasMain(run) /\ run.pod.live /\ ~run.pod.hib => K = "running"
    /\ HasMain(run) /\ run.pod.hib => run.cs.phase = "Migrating" /\ run.place.node # NoNode
    /\ /\ HasMain(run) /\ run.pod.hib /\ run.pc # "quiesce"
       /\ P.at # "absent" \/ boots = "none"
       => K = "asleep" \/ run.cs.pin \notin {NoNode, run.place.node}
    /\ HasMain(run) /\ ~run.pod.hib /\ run.cs.pin \notin {NoNode, run.place.node} =>
         cs.pin = run.cs.pin
    /\ pinnedElsewhere(run) => place.node = NoNode

NormalPCs == {"unsuspend", "reclaim", "forget", "status"}

(* What the steps of a pass have established: a tag is dropped only over a running VM, a
   main deleted only over its snapshot, one booted only if none has been. *)
StepOK ==
    /\ run.pc # "status" => run.last = ""
    /\ run.pc \in NormalPCs => ~HasMain(run) \/ ~run.pod.hib
    /\ run.pc \in {"reclaim", "forget", "status"} => HasMain(run)
    /\ run.pc \in {"intent", "create"} => ~HasMain(run)
    /\ boots = "one" =>
         /\ HasMain(run) /\ run.pc \notin {"deleteOld", "wakeInPlace", "mark"} => P.at = "present"
         /\ run.pc \notin {"intent", "create"}
         /\ run.pc \in NormalPCs => P.at = "present" /\ place.node # NoNode
    /\ run.pc # "clear"
    /\ run.pc = "create" => ~run.restore
    /\ run.pc = "recreate" => pinnedElsewhere(run)
    /\ run.pc \in {"tracked", "dropStale", "dropRestored", "reclaim", "forget"} =>
         HasMain(run) /\ run.pod.live /\ ~run.pod.hib
    /\ run.pc \in {"startStatus", "quiesce"} =>
         HasMain(run) /\ (~run.pod.hib => mainOffTarget(run) /\ T = "none")
    /\ run.pc = "quiesce" => cs.phase = "Migrating"
    /\ run.pc = "owner" => HasMain(run) /\ run.pod.hib
    /\ run.pc = "deleteOld" => HasMain(run) /\ run.pod.hib /\ boots = "one" /\ T = "fresh"
    /\ run.pc = "restore" => ~HasMain(run) /\ boots = "one"
    /\ run.pc = "wakeInPlace" =>
         /\ HasMain(run) /\ run.pod.hib /\ run.cs.pin \in {NoNode, run.place.node}
         /\ P.at # "absent" => K = "asleep"

PassOK == run.pc # "idle" => CopyOK /\ StepOK

LiveInv == VmOK /\ IntentOK /\ PassOK

(* The values the invariant distinguishes. *)
LEMMA Scalars ==
    ASSUME TypeOK
    PROVE  /\ P.at \in {"absent", "present", "terminating"}
           /\ P.hib \in BOOLEAN /\ P.live \in BOOLEAN /\ P.restore \in BOOLEAN
           /\ T \in {"none", "fresh", "stale"} /\ K \in VkStates /\ boots \in {"none", "one", "more"}
           /\ place.node \in Pins /\ cs.pin \in Pins /\ cs.phase \in Phases
           /\ run.pod.at \in {"absent", "present", "terminating"}
           /\ run.pod.hib \in BOOLEAN /\ run.pod.live \in BOOLEAN
           /\ run.place.node \in Pins /\ run.cs.pin \in Pins /\ run.cs.phase \in Phases
           /\ run.pc \in PCs /\ run.restore \in BOOLEAN
<1>1. pod[Main] \in Pods /\ tag[Main] \in {"none", "fresh", "stale"} /\ vk[Main] \in VkStates
  BY MainOnly DEF TypeOK, ClusterTypeOK
<1>2. run.pod \in Pods /\ run.place \in Places /\ run.cs \in Sets /\ run.pc \in PCs
      /\ run.restore \in BOOLEAN
  BY DEF TypeOK, Runs
<1> QED BY <1>1, <1>2 DEF P, T, K, TypeOK, Pods, Places, Sets, Boots

(* What vk-cocoon does to the main, its tag and its VM. *)
LEMMA VkCases ==
    ASSUME TypeOK, VkStep(Main)
    PROVE  \/ /\ P'.at = P.at /\ P'.hib = P.hib /\ P'.restore = P.restore
              /\ \/ /\ P.at = "present" /\ K = "off" /\ (P.restore => T = "none")
                    /\ K' = "running" /\ P'.live /\ P'.state = "ready"
                    /\ T' = IF T = "fresh" THEN "stale" ELSE T
                 \/ /\ P.at = "present" /\ K = "off" /\ P.restore /\ T = "none"
                    /\ K' = K /\ T' = T /\ ~P'.live
                 \/ /\ P.at = "present" /\ P.restore /\ T # "none" /\ K = "off" /\ K' = "waking"
                    /\ T' = T /\ P' = P
                 \/ /\ P.at = "present" /\ P.hib /\ K = "running" /\ K' = "pushing"
                    /\ T' = T /\ P' = P
                 \/ /\ P.at = "present" /\ ~P.hib /\ T # "none" /\ K = "asleep" /\ K' = "waking"
                    /\ T' = T /\ P' = P
                 \/ K = "pushing" /\ K' = "pushed" /\ T' = "fresh" /\ P' = P
                 \/ /\ P.at # "absent" /\ K = "pushed" /\ K' = "asleep" /\ T' = T
                    /\ ~P'.live /\ P'.state = "hibernated"
                 \/ /\ P.at # "absent" /\ K = "waking" /\ T # "none" /\ K' = "running"
                    /\ T' = (IF T = "fresh" THEN "stale" ELSE T) /\ P'.live /\ P'.state = "ready"
                 \/ /\ K' = K /\ T' = T /\ P'.live = P.live /\ P'.state \in {"ready", "hibernated"}
           \/ /\ P.at = "terminating" /\ K # "pushing" /\ K' = "off" /\ T' = T
              /\ P' = NoPod
<1>0. /\ pod \in [VMs -> Pods] /\ tag \in [VMs -> {"none", "fresh", "stale"}]
      /\ vk \in [VMs -> VkStates] /\ Main \in VMs /\ P \in Pods
  BY MainOnly DEF TypeOK, ClusterTypeOK, P
<1>1. ASSUME NEW state, NEW g, NEW l, Report(Main, state, g, l)
      PROVE  /\ P'.at = P.at /\ P'.hib = P.hib /\ P'.restore = P.restore
             /\ P'.live = l /\ P'.state = state
  <2>1. P' = [P EXCEPT !.state = state, !.obs = g, !.live = l, !.named = TRUE]
    BY <1>0, <1>1 DEF Report, P
  <2> QED BY <1>0, <2>1 DEF Pods
<1>2. CASE VkBoot(Main)
  BY <1>0, <1>1, <1>2 DEF VkBoot, Spent, P, T, K
<1>3. CASE VkRefuse(Main)
  BY <1>0, <1>1, <1>3 DEF VkRefuse, P, T, K
<1>4. CASE VkRestore(Main) \/ VkHibernate(Main) \/ VkWake(Main)
  BY <1>0, <1>4 DEF VkRestore, VkHibernate, VkWake, VkStart, P, T, K
<1>5. CASE VkPush(Main)
  BY <1>0, <1>5 DEF VkPush, P, T, K
<1>6. CASE VkReportHibernated(Main)
  BY <1>0, <1>1, <1>6 DEF VkReportHibernated, P, T, K
<1>7. CASE VkWoken(Main)
  BY <1>0, <1>1, <1>7 DEF VkWoken, Spent, P, T, K
<1>8. CASE VkEcho(Main)
  <2>1. PICK rest \in {[of |-> "running", hib |-> FALSE, state |-> "ready"],
                       [of |-> "asleep", hib |-> TRUE, state |-> "hibernated"]} :
          pod' = [pod EXCEPT ![Main].state = rest.state, ![Main].obs = pod[Main].gen]
    BY <1>8 DEF VkEcho
  <2>2. rest.state \in {"ready", "hibernated"}
    OBVIOUS
  <2>3. P' = [P EXCEPT !.state = rest.state, !.obs = pod[Main].gen]
    BY <1>0, <2>1 DEF P
  <2>4. /\ P'.at = P.at /\ P'.hib = P.hib /\ P'.restore = P.restore
        /\ P'.live = P.live /\ P'.state = rest.state
    BY <1>0, <2>3 DEF Pods
  <2>5. K' = K /\ T' = T
    BY <1>8 DEF VkEcho, K, T
  <2> QED BY <2>2, <2>4, <2>5
<1>9. CASE VkDelete(Main)
  BY <1>0, <1>9 DEF VkDelete, P, T, K
<1> QED BY <1>2, <1>3, <1>4, <1>5, <1>6, <1>7, <1>8, <1>9 DEF VkStep

(* A step that leaves the main, the set and the VM alone keeps what is said of them. *)
LEMMA RestStep ==
    ASSUME VmOK, IntentOK, UNCHANGED <<pod, tag, vk, cs, place, boots>>
    PROVE  VmOK' /\ IntentOK'
BY DEF VmOK, IntentOK, P, T, K

(* vk-cocoon boots, pushes, wakes and deletes without breaking the invariant. *)
LEMMA VkLive ==
    ASSUME TypeOK, LiveInv, VkActs
    PROVE  LiveInv'
<1>0. VkStep(Main) /\ run' = run /\ cs' = cs
      /\ (K = "off" /\ P.at = "present" => place.node # NoNode)
      /\ place' = (IF P'.at = "absent" THEN Nowhere ELSE place)
      /\ boots' = IF K # "off" \/ K' # "running" THEN boots
                  ELSE IF boots = "none" THEN "one" ELSE "more"
  BY DEF VkActs, K, P
<1>n. /\ NoPod.at = "absent" /\ ~NoPod.hib /\ ~NoPod.live /\ ~NoPod.restore
      /\ NoPod.state = "none" /\ Nowhere.node = NoNode
  BY DEF NoPod, Nowhere
<1>1. VmOK'
  BY <1>0, <1>n, Scalars, VkCases DEF LiveInv, VmOK, VkStates
<1>2. IntentOK'
  BY <1>0, <1>n, Scalars, VkCases DEF LiveInv, VmOK, IntentOK, VkStates
<1>3. ASSUME run.pc # "idle" PROVE CopyOK'
  BY <1>0, <1>3, <1>n, Scalars, VkCases
     DEF LiveInv, PassOK, CopyOK, VmOK, VkStates, HasMain, pinnedElsewhere
<1>4. ASSUME run.pc # "idle" PROVE StepOK'
  <2>0. VmOK /\ CopyOK /\ StepOK
    BY <1>4 DEF LiveInv, PassOK
  <2>1. boots' = "one" /\ boots # "one"
        => P.at = "present" /\ P'.at = "present" /\ place.node # NoNode /\ place' = place
    BY <1>0, <1>n, Scalars, VkCases
  <2>2. boots = "one" => boots' = "one"
    BY <1>0, <1>1, Scalars DEF VmOK
  <2>3. P'.at = "present" <=> P.at = "present"
    BY <1>0, <1>n, Scalars, VkCases
  <2>4. P.at = "present" => place' = place
    BY <1>0, <2>3
  <2>5. T = "none" /\ K # "pushing" => T' = "none"
    BY <1>0, Scalars, VkCases
  <2>6. T = "fresh" /\ K # "waking" /\ boots = "one" => T' = "fresh"
    BY <1>0, <2>0, Scalars, VkCases DEF VmOK
  <2>7. K = "asleep" /\ P.hib => (P'.at # "absent" => K' = "asleep")
    BY <1>0, <1>n, Scalars, VkCases
  <2>8. P'.at # "absent" => P.at # "absent"
    BY <1>0, <1>n, <2>0, Scalars, VkCases DEF VmOK
  <2>9. ASSUME run.pc \in {"startStatus", "quiesce"}, ~run.pod.hib PROVE T' = "none"
    <3>1. T = "none" /\ HasMain(run)
      BY <2>0, <2>9 DEF StepOK
    <3>2. K # "pushing"
      BY <2>0, <2>9, <3>1, Scalars DEF CopyOK, VmOK
    <3> QED BY <2>5, <3>1, <3>2
  <2>10. ASSUME run.pc = "deleteOld" PROVE T' = "fresh"
    <3>1. T = "fresh" /\ HasMain(run) /\ run.pod.hib /\ boots = "one"
      BY <2>0, <2>10 DEF StepOK
    <3>2. K # "waking"
      BY <2>0, <3>1, Scalars DEF CopyOK, VmOK
    <3> QED BY <2>6, <3>1, <3>2
  <2>11. ASSUME run.pc = "wakeInPlace", P'.at # "absent" PROVE K' = "asleep"
    <3>1. HasMain(run) /\ run.pod.hib /\ P.at # "absent" /\ K = "asleep"
      BY <2>0, <2>8, <2>11 DEF StepOK
    <3>2. P.hib
      BY <2>0, <3>1 DEF CopyOK
    <3> QED BY <2>7, <2>11, <3>1, <3>2
  <2>12. boots' = "one" =>
           /\ HasMain(run) /\ run.pc \notin {"deleteOld", "wakeInPlace", "mark"} => P'.at = "present"
           /\ run.pc \notin {"intent", "create"}
           /\ run.pc \in NormalPCs => P'.at = "present" /\ place'.node # NoNode
    <3>1. CASE boots = "one"
      BY <2>0, <2>3, <2>4, <3>1 DEF StepOK
    <3>2. CASE boots # "one"
      BY <2>0, <2>1, <3>2 DEF StepOK, CopyOK
    <3> QED BY <3>1, <3>2
  <2> HIDE DEF NormalPCs
  <2> QED BY <1>0, <2>0, <2>2, <2>9, <2>10, <2>11, <2>12
          DEF StepOK, HasMain, pinnedElsewhere, mainOffTarget
<1> QED BY <1>0, <1>1, <1>2, <1>3, <1>4 DEF LiveInv, PassOK

(* A pin edit waits until the main sleeps and no pass can quiesce it, a drain until the
   state is saved and the phase tells of it. *)
LEMMA UserLive ==
    ASSUME TypeOK, LiveInv, Patient = TRUE, BindRace = FALSE, EditPin \/ Schedule \/ Evict({})
    PROVE  LiveInv'
<1>1. CASE EditPin
  <2>1. /\ ~Quiescing /\ UNCHANGED <<pod, tag, vk, place, run, boots>>
        /\ \E n \in Pins : cs' = [cs EXCEPT !.gen = @ + 1, !.pin = n]
    BY <1>1 DEF EditPin, clusterVars
  <2>2. cs'.phase = cs.phase
    BY <2>1 DEF TypeOK, Sets
  <2>3. VmOK' /\ IntentOK'
    BY <2>1, <2>2 DEF LiveInv, VmOK, IntentOK, Quiescing, P, T, K
  <2>4. PassOK'
    BY <2>1, <2>2
       DEF LiveInv, PassOK, CopyOK, StepOK, Quiescing, HasMain, mainOffTarget, pinnedElsewhere, P, T, K
  <2> QED BY <2>3, <2>4 DEF LiveInv
<1>2. CASE Schedule
  <2>1. /\ P.at = "present" /\ place.node = NoNode
        /\ run.pc = "idle" \/ ~pinnedElsewhere(run)
        /\ UNCHANGED <<pod, tag, vk, cs, run, boots>>
        /\ \E n \in Nodes : place' = [place EXCEPT !.node = n]
    BY <1>2 DEF Schedule, clusterVars, P
  <2>2. place'.node # NoNode
    BY <2>1, MigrationAssumption DEF TypeOK, Places
  <2>3. VmOK' /\ IntentOK'
    BY <2>1, <2>2, Scalars DEF LiveInv, VmOK, IntentOK, P, T, K
  <2>4. PassOK'
    BY <2>1, <2>2, Scalars
       DEF LiveInv, PassOK, CopyOK, StepOK, HasMain, mainOffTarget, pinnedElsewhere, P, T, K
  <2> QED BY <2>3, <2>4 DEF LiveInv
<1>3. CASE Evict({})
  <2>1. /\ P.at = "present" /\ K \in {"asleep", "off"} /\ pod' = Deleted
        /\ boots # "none" => /\ T = "fresh" /\ cs.phase = "Migrating"
                             /\ run.pc \in {"idle", "deleteOld", "restore", "wakeInPlace", "mark"}
        /\ UNCHANGED <<tag, vk, cs, place, run, boots>>
    BY <1>3 DEF Evict, Migrates, P, T, K
  <2>2. /\ P'.at = "terminating" /\ P'.hib = P.hib /\ P'.live = P.live
        /\ P'.state = P.state /\ P'.restore = P.restore
    BY <2>1, DeletedFields DEF P
  <2>3. VmOK' /\ IntentOK'
    BY <2>1, <2>2, Scalars DEF LiveInv, VmOK, IntentOK, T, K
  <2>4. PassOK'
    BY <2>1, <2>2, Scalars
       DEF LiveInv, VmOK, PassOK, CopyOK, StepOK, NormalPCs, HasMain, mainOffTarget, pinnedElsewhere, T, K
  <2> QED BY <2>3, <2>4 DEF LiveInv
<1> QED BY <1>1, <1>2, <1>3

(* A pass copies the set and its main as they are, and reports only a main that is there. *)
LEMMA PassStarts ==
    ASSUME TypeInv, LiveInv, Reconcile \/ WriteStatus
    PROVE  LiveInv'
<1>0. TypeOK
  BY DEF TypeInv
<1>1. CASE Reconcile
  <2>1. /\ UNCHANGED <<pod, tag, vk, place, boots, cs>> /\ run'.cs = cs /\ run'.pod = P
        /\ run'.place = place /\ run'.pc = "stamp" /\ run'.last = ""
    BY <1>1 DEF Reconcile, clusterVars, P
  <2>2. VmOK' /\ IntentOK'
    BY <2>1, RestStep DEF LiveInv
  <2>3. CopyOK' /\ StepOK'
    BY <1>0, <2>1, Scalars
       DEF LiveInv, VmOK, IntentOK, CopyOK, StepOK, NormalPCs, HasMain, mainOffTarget,
           pinnedElsewhere, P, T, K
  <2> QED BY <2>2, <2>3 DEF LiveInv, PassOK
<1>2. CASE WriteStatus
  <2>1. /\ UNCHANGED <<pod, tag, vk, place, boots>> /\ run.pc = "status" /\ run'.pc = "idle"
        /\ cs'.pin = cs.pin
    BY <1>2, StatusEffect DEF WriteStatus
  <2>2. CopyOK /\ StepOK
    BY <2>1 DEF LiveInv, PassOK
  <2>3. ~P.hib /\ (boots = "one" => P.at = "present" /\ place.node # NoNode)
    BY <1>0, <2>1, <2>2, Scalars DEF LiveInv, VmOK, StepOK, CopyOK, NormalPCs
  <2>4. VmOK'
    BY <2>1 DEF LiveInv, VmOK, P, T, K
  <2>5. IntentOK'
    BY <2>1, <2>3 DEF IntentOK, P
  <2> QED BY <2>1, <2>4, <2>5 DEF LiveInv, PassOK
<1> QED BY <1>1, <1>2

(* A pass that ends, or asks a question, knows no more than the answer. *)
LEMMA ControlLive ==
    ASSUME TypeOK, LiveInv,
           \/ SkipClaimed({}) \/ HasHibernateSnapshot \/ SkipTracked({})
           \/ markRestoreFromIntent({}) \/ PodNotFound \/ Abandon
    PROVE  LiveInv'
<1>0. /\ UNCHANGED <<pod, tag, vk, cs, place, boots>>
      /\ run'.cs = run.cs /\ run'.pod = run.pod /\ run'.place = run.place /\ run'.last = run.last
  BY ControlEffect DEF SameCopies
<1>1. VmOK' /\ IntentOK'
  BY <1>0, RestStep DEF LiveInv
<1>c. ASSUME run.pc \notin {"idle", "mark", "quiesce"}, run'.pc # "quiesce" PROVE CopyOK'
  BY <1>0, <1>c
     DEF LiveInv, PassOK, CopyOK, HasMain, pinnedElsewhere, P, T, K
<1>2. CASE PodNotFound \/ Abandon
  <2>1. run'.pc = "idle"
    BY <1>2 DEF PodNotFound, Abandon, Return, Goto, TypeOK, Runs
  <2> QED BY <1>1, <2>1 DEF LiveInv, PassOK
<1>3. CASE SkipClaimed({})
  <2>1. run.pc = "owner" /\ run'.pc = "probe"
    BY <1>3 DEF SkipClaimed, Goto, TypeOK, Runs
  <2>2. StepOK'
    BY <1>0, <2>1 DEF LiveInv, PassOK, StepOK, NormalPCs, HasMain, P
  <2> QED BY <1>1, <1>c, <2>1, <2>2 DEF LiveInv, PassOK
<1>4. CASE SkipTracked({})
  <2>1. run.pc = "tracked" /\ run'.pc = "dropStale"
    BY <1>4 DEF SkipTracked, Goto, TypeOK, Runs
  <2>2. StepOK'
    BY <1>0, <2>1 DEF LiveInv, PassOK, StepOK, NormalPCs, HasMain, P
  <2> QED BY <1>1, <1>c, <2>1, <2>2 DEF LiveInv, PassOK
<1>5. CASE markRestoreFromIntent({})
  <2>1. run.pc = "intent" /\ run'.pc = "create" /\ ~run'.restore
    BY <1>5 DEF markRestoreFromIntent, TypeOK, Runs
  <2>2. StepOK'
    BY <1>0, <2>1 DEF LiveInv, PassOK, StepOK, NormalPCs, HasMain, P
  <2> QED BY <1>1, <1>c, <2>1, <2>2 DEF LiveInv, PassOK
<1>6. CASE HasHibernateSnapshot
  <2>1. /\ run.pc = "probe"
        /\ run'.pc = IF T # "none" THEN advanceMigration(run)
                     ELSE IF mainOffTarget(run) THEN "startStatus" ELSE "unsuspend"
    BY <1>6 DEF HasHibernateSnapshot, Goto, TypeOK, Runs, T
  <2>2. VmOK /\ IntentOK /\ CopyOK /\ StepOK
    BY <2>1 DEF LiveInv, PassOK
  <2>3. CASE T = "none"
    <3>1. CASE mainOffTarget(run)
      <4>1. run'.pc = "startStatus" /\ HasMain(run)
        BY <2>1, <2>3, <3>1 DEF mainOffTarget
      <4>2. StepOK'
        BY <1>0, <2>1, <2>2, <2>3, <3>1, <4>1 DEF StepOK, NormalPCs, HasMain, mainOffTarget, P, T
      <4> QED BY <1>1, <1>c, <2>1, <4>1, <4>2 DEF LiveInv, PassOK
    <3>2. CASE ~mainOffTarget(run)
      <4>1. run'.pc = "unsuspend"
        BY <2>1, <2>3, <3>2
      <4>2. ~HasMain(run) \/ ~run.pod.hib
        BY <2>1, <2>2, <2>3, <3>2, Scalars DEF CopyOK, VmOK, IntentOK, mainOffTarget, VkStates
      <4>3. boots = "one" => P.at = "present" /\ place.node # NoNode
        BY <2>2, <2>3, Scalars DEF VmOK
      <4>4. StepOK'
        BY <1>0, <2>1, <2>2, <4>1, <4>2, <4>3 DEF StepOK, NormalPCs, HasMain, P
      <4> QED BY <1>1, <1>c, <2>1, <4>1, <4>4 DEF LiveInv, PassOK
    <3> QED BY <3>1, <3>2
  <2>4. CASE T # "none"
    <3>1. run'.pc = advanceMigration(run) /\ boots = "one"
      BY <2>1, <2>2, <2>4, Scalars DEF VmOK
    <3>2. CASE mainOffTarget(run) /\ run.pod.hib
      <4>1. run'.pc = "deleteOld" /\ HasMain(run)
        BY <3>1, <3>2 DEF advanceMigration, mainOffTarget
      <4>2. T = "fresh"
        BY <2>2, <2>4, <3>1, <3>2, <4>1, Scalars DEF CopyOK, VmOK, VkStates
      <4>3. StepOK'
        BY <1>0, <2>1, <2>2, <3>1, <3>2, <4>1, <4>2 DEF StepOK, NormalPCs, HasMain, P, T
      <4> QED BY <1>1, <1>c, <2>1, <4>1, <4>3 DEF LiveInv, PassOK
    <3>3. CASE mainOffTarget(run) /\ ~run.pod.hib
      <4>1. HasMain(run) /\ run'.pc = IF run.pod.live THEN "tracked" ELSE "unsuspend"
        BY <3>1, <3>3 DEF advanceMigration, mainOffTarget
      <4>2. P.at = "present" /\ place.node # NoNode
        BY <2>1, <2>2, <3>1, <3>3, <4>1, Scalars DEF CopyOK, StepOK, mainOffTarget
      <4>3. StepOK'
        BY <1>0, <2>1, <2>2, <3>1, <3>3, <4>1, <4>2 DEF StepOK, NormalPCs, HasMain, P
      <4> QED BY <1>1, <1>c, <2>1, <4>1, <4>3 DEF LiveInv, PassOK
    <3>4. CASE ~mainOffTarget(run) /\ ~HasMain(run)
      <4>1. run'.pc = "restore"
        BY <3>1, <3>4 DEF advanceMigration
      <4>3. StepOK'
        BY <1>0, <2>1, <2>2, <3>1, <3>4, <4>1 DEF StepOK, NormalPCs, HasMain
      <4> QED BY <1>1, <1>c, <2>1, <4>1, <4>3 DEF LiveInv, PassOK
    <3>5. CASE ~mainOffTarget(run) /\ HasMain(run) /\ run.pod.hib
      <4>1. P.at # "absent" => K = "asleep"
        BY <2>1, <2>2, <3>5, Scalars DEF CopyOK, mainOffTarget
      <4>2. migrating(run)
        BY <2>2, <3>5 DEF CopyOK, migrating
      <4>3. P.at = "present"
        BY <2>1, <2>2, <3>1, <3>5 DEF StepOK
      <4>4. place.node # NoNode
        BY <2>2, <3>1, <4>1, <4>3 DEF VmOK
      <4>5. K = "asleep" /\ run.cs.pin \in {NoNode, run.place.node}
        BY <2>2, <3>5, <4>1, <4>3 DEF mainOffTarget, CopyOK
      <4>6. run'.pc = "wakeInPlace"
        BY <3>1, <3>5, <4>2, <4>5 DEF advanceMigration
      <4>7. StepOK'
        BY <1>0, <2>1, <2>2, <3>1, <3>5, <4>3, <4>5, <4>6 DEF StepOK, NormalPCs, HasMain, P, K
      <4> QED BY <1>1, <1>c, <2>1, <4>6, <4>7 DEF LiveInv, PassOK
    <3>6. CASE ~mainOffTarget(run) /\ HasMain(run) /\ ~run.pod.hib
      <4>1. run'.pc = IF run.pod.live THEN "dropRestored"
                      ELSE IF migrating(run) THEN "mark" ELSE "unsuspend"
        BY <3>1, <3>6 DEF advanceMigration
      <4>2. P.at = "present"
        BY <2>1, <2>2, <3>1, <3>6 DEF StepOK
      <4>3. ~migrating(run) => place.node # NoNode
        BY <2>2, <3>1, Scalars DEF CopyOK, IntentOK, migrating
      <4>4. StepOK'
        BY <1>0, <2>1, <2>2, <3>1, <3>6, <4>1, <4>2, <4>3 DEF StepOK, NormalPCs, HasMain, P
      <4> QED BY <1>1, <1>c, <2>1, <4>1, <4>4 DEF LiveInv, PassOK
    <3> QED BY <3>2, <3>3, <3>4, <3>5, <3>6
  <2> QED BY <2>3, <2>4
<1> QED BY <1>2, <1>3, <1>4, <1>5, <1>6

(* Migrating is written before the quiesce, and again at the end of every arm. *)
LEMMA PhaseLive ==
    ASSUME TypeOK, LiveInv, startMigration \/ markMigrating
    PROVE  LiveInv'
<1>0. /\ UNCHANGED <<pod, tag, vk, place, boots>>
      /\ cs'.phase = "Migrating" /\ cs'.pin = cs.pin
      /\ run'.cs = cs' /\ run'.pod = run.pod /\ run'.place = run.place /\ run'.last = run.last
  BY PhaseEffect
<1>1. VmOK' /\ IntentOK'
  BY <1>0 DEF LiveInv, VmOK, IntentOK, P, T, K
<1>2. CASE run.pc = "mark" /\ run'.pc = "idle"
  BY <1>1, <1>2 DEF LiveInv, PassOK
<1>3. CASE run.pc = "startStatus" /\ run'.pc = "quiesce"
  <2>0. CopyOK /\ StepOK
    BY <1>3 DEF LiveInv, PassOK
  <2>1. ~run.pod.hib => cs.pin = run.cs.pin
    BY <1>3, <2>0 DEF CopyOK, StepOK, mainOffTarget
  <2>2. CopyOK'
    BY <1>0, <1>3, <2>0, <2>1, Scalars DEF CopyOK, StepOK, HasMain, pinnedElsewhere, mainOffTarget, P, K
  <2>3. StepOK'
    BY <1>0, <1>3, <2>0, <2>1, Scalars DEF StepOK, NormalPCs, HasMain, pinnedElsewhere, mainOffTarget, P, T
  <2> QED BY <1>1, <2>2, <2>3 DEF LiveInv, PassOK
<1> QED BY <1>2, <1>3, PhaseEffect

(* A tag goes only while the VM runs. *)
LEMMA DropLive ==
    ASSUME TypeOK, LiveInv, DeleteManifest \/ reclaimSnapshots
    PROVE  LiveInv' /\ K = "running"
<1>0. /\ UNCHANGED <<pod, vk, cs, place, boots>> /\ T' = "none"
      /\ run'.cs = run.cs /\ run'.pod = run.pod /\ run'.place = run.place /\ run'.last = run.last
      /\ \/ run.pc \in {"dropStale", "dropRestored"} /\ run'.pc = "mark"
         \/ run.pc = "reclaim" /\ run'.pc = "forget"
  BY DropEffect DEF SameCopies, T
<1>1. VmOK /\ IntentOK /\ CopyOK /\ StepOK
  BY <1>0 DEF LiveInv, PassOK
<1>2. K = "running" /\ HasMain(run) /\ ~run.pod.hib
  BY <1>0, <1>1 DEF CopyOK, StepOK
<1>3. VmOK' /\ IntentOK'
  BY <1>0, <1>1, <1>2, Scalars DEF VmOK, IntentOK, P, K
<1>4. CopyOK'
  BY <1>0, <1>1, <1>2, Scalars DEF CopyOK, HasMain, pinnedElsewhere, P, K
<1>5. StepOK'
  BY <1>0, <1>1, <1>2, Scalars DEF StepOK, NormalPCs, HasMain, P, K
<1> QED BY <1>2, <1>3, <1>4, <1>5 DEF LiveInv, PassOK

(* A main is deleted only over its snapshot, or before it has booted. *)
LEMMA DeleteLive ==
    ASSUME TypeOK, LiveInv, RecreateUnscheduled \/ DeleteOld
    PROVE  LiveInv'
<1>0. /\ UNCHANGED <<tag, vk, cs, place, boots>> /\ pod' = Deleted
      /\ run'.cs = run.cs /\ run'.pod = run.pod /\ run'.place = run.place /\ run'.last = run.last
      /\ \/ run.pc = "recreate" /\ run'.pc = "idle"
         \/ run.pc = "deleteOld" /\ run'.pc = "mark"
  BY DeleteEffect DEF SameCopies
<1>1. VmOK /\ IntentOK /\ CopyOK /\ StepOK
  BY <1>0 DEF LiveInv, PassOK
<1>2. /\ P'.at = IF P.at = "present" THEN "terminating" ELSE P.at
      /\ P'.hib = P.hib /\ P'.live = P.live /\ P'.state = P.state /\ P'.restore = P.restore
  BY <1>0, DeletedFields DEF P
<1>3. CASE run.pc = "recreate" /\ run'.pc = "idle"
  <2>1. place.node = NoNode
    BY <1>1, <1>3 DEF CopyOK, StepOK
  <2>2. VmOK' /\ IntentOK'
    BY <1>0, <1>1, <1>2, <2>1, Scalars DEF VmOK, IntentOK, T, K
  <2> QED BY <1>3, <2>2 DEF LiveInv, PassOK
<1>4. CASE run.pc = "deleteOld" /\ run'.pc = "mark"
  <2>1. HasMain(run) /\ run.pod.hib /\ boots = "one" /\ T = "fresh" /\ cs.phase = "Migrating"
    BY <1>1, <1>4 DEF CopyOK, StepOK
  <2>2. P.at # "absent" => P.hib
    BY <1>1, <2>1 DEF CopyOK
  <2>3. VmOK'
    BY <1>0, <1>1, <1>2, <2>1, <2>2, Scalars DEF VmOK, T, K, VkStates
  <2>4. IntentOK'
    BY <1>0, <1>2, <2>1, Scalars DEF IntentOK
  <2>5. CopyOK'
    BY <1>0, <1>1, <1>2, <1>4, <2>1, Scalars DEF CopyOK, HasMain, pinnedElsewhere, K
  <2>6. StepOK'
    BY <1>0, <1>1, <1>4, <2>1 DEF StepOK, NormalPCs
  <2> QED BY <2>3, <2>4, <2>5, <2>6 DEF LiveInv, PassOK
<1> QED BY <1>0, <1>3, <1>4

(* A main that replaces a booted one restores its state. *)
LEMMA CreateLive ==
    ASSUME TypeOK, LiveInv, RestoreMain \/ createMainAgent
    PROVE  LiveInv'
<1>0. /\ UNCHANGED <<tag, vk, cs, boots>>
      /\ run'.cs = run.cs /\ run'.pod = run.pod /\ run'.place = run.place /\ run'.last = run.last
      /\ run.pc \in {"restore", "create"} /\ run'.pc \in {"mark", "idle"}
  BY CreateEffect DEF SameCopies
<1>1. VmOK /\ IntentOK /\ CopyOK /\ StepOK
  BY <1>0 DEF LiveInv, PassOK
<1>m. ~HasMain(run) /\ ~HasMain(run)'
  BY <1>0, <1>1 DEF StepOK, HasMain
<1>s. StepOK' \/ run'.pc = "idle"
  BY <1>0, <1>1 DEF StepOK, NormalPCs
<1>2. CASE pod' = pod /\ place' = place /\ run'.pc = "idle"
  BY <1>0, <1>1, <1>2, RestStep DEF LiveInv, PassOK
<1>3. CASE /\ P.at = "absent"
           /\ \E h \in BOOLEAN : /\ run.pc = "restore" => h
                                 /\ pod' = [pod EXCEPT ![Main] = NewPod(TRUE, h, run.cs.gen)]
                                 /\ run.pc = "create" => h = run.restore
           /\ place' = [aff |-> run.cs.pin, node |-> NoNode]
  <2>1. PICK h \in BOOLEAN : /\ run.pc = "restore" => h
                             /\ pod' = [pod EXCEPT ![Main] = NewPod(TRUE, h, run.cs.gen)]
                             /\ run.pc = "create" => h = run.restore
    BY <1>3
  <2>2. P'.at = "present" /\ ~P'.hib /\ ~P'.live /\ P'.state = "none" /\ P'.restore = h
    <3>1. run.cs.gen \in Generations /\ Main \in VMs /\ pod \in [VMs -> Pods]
      BY MainOnly DEF TypeOK, ClusterTypeOK, Runs, Sets
    <3>2. P' = NewPod(TRUE, h, run.cs.gen)
      BY <2>1, <3>1 DEF P
    <3> QED BY <3>1, <3>2, PodUpdates
  <2>3. place'.node = NoNode
    BY <1>3
  <2>4. /\ run.pc = "restore" => h /\ boots = "one"
        /\ run.pc = "create" => ~h /\ boots = "none"
    BY <1>1, <2>1, Scalars DEF StepOK, VmOK
  <2>5. VmOK'
    BY <1>0, <1>1, <1>3, <2>2, <2>3, <2>4, Scalars DEF VmOK, T, K
  <2>6. IntentOK'
    BY <1>0, <1>1, <1>3, <2>2, <2>3, <2>4, Scalars DEF IntentOK
  <2>7. CopyOK' \/ run'.pc = "idle"
    BY <1>0, <1>1, <1>m, <2>3 DEF CopyOK, HasMain, pinnedElsewhere
  <2> QED BY <1>s, <2>5, <2>6, <2>7 DEF LiveInv, PassOK
<1> QED BY <1>2, <1>3, CreateEffect DEF P

(* No quiesced main comes to the un-suspend: the migration wakes it. *)
LEMMA RecordLive ==
    ASSUME TypeOK, LiveInv, applyUnsuspend({}) \/ forgetReclaim
    PROVE  LiveInv'
<1>0. /\ UNCHANGED <<pod, tag, vk, place, boots>>
      /\ cs'.phase = cs.phase /\ cs'.pin = cs.pin
      /\ run'.pod = run.pod /\ run'.place = run.place
  BY RecordEffect
<1>1. VmOK' /\ IntentOK' /\ run \in Runs
  BY <1>0 DEF LiveInv, VmOK, IntentOK, P, T, K, TypeOK
<1>2. ASSUME run.pc \in {"unsuspend", "forget"},
             run'.cs = run.cs \/ (run.pc = "forget" /\ run'.cs = cs'), run'.pc \in {"status", "reclaim", "intent"},
             run'.pc # "status" => run'.last = "",
             run'.pc = "reclaim" => HasMain(run) /\ ~run.pod.hib /\ run.pod.live,
             run'.pc = "intent" => ~HasMain(run), run'.pc = "status" => HasMain(run)
      PROVE  LiveInv'
  <2>0. VmOK /\ IntentOK /\ CopyOK /\ StepOK
    BY <1>2 DEF LiveInv, PassOK
  <2>1. CopyOK'
    BY <1>0, <1>2, <2>0 DEF CopyOK, StepOK, NormalPCs, HasMain, pinnedElsewhere, P, K
  <2>2. boots = "one" => HasMain(run) /\ P.at = "present" /\ place.node # NoNode
    BY <1>2, <2>0 DEF CopyOK, StepOK, NormalPCs
  <2>3. StepOK'
    BY <1>0, <1>2, <2>0, <2>2 DEF StepOK, NormalPCs, HasMain, P
  <2> QED BY <1>1, <2>1, <2>3 DEF LiveInv, PassOK
<1>3. CASE run.pc = "unsuspend" /\ HasMain(run) /\ run.pod.hib
  BY <1>3 DEF LiveInv, PassOK, StepOK, NormalPCs
<1>4. CASE run.pc = "unsuspend" /\ run' = Unsuspended(run) /\ cs' = cs
  <2>1. run.last = ""
    BY <1>4 DEF LiveInv, PassOK, StepOK
  <2>2. run'.pc # "status" => run'.last = ""
    BY <1>1, <1>4, <2>1 DEF Unsuspended, EnsureMain, Runs
  <2>3. run'.cs = run.cs
    BY <1>1, <1>4, UnsuspendedFields DEF SameCopies
  <2> QED BY <1>1, <1>2, <1>4, <2>1, <2>2, <2>3, UnsuspendedFields
<1>5. CASE forgetReclaim
  <2>1. /\ run.pc = "forget" /\ run'.cs = cs' /\ HasMain(run) /\ run'.pc = "status"
    BY <1>5, RecordEffect DEF LiveInv, PassOK, StepOK, forgetReclaim, applyUnsuspend
  <2> QED BY <1>2, <2>1
<1>6. CASE applyUnsuspend({})
  BY <1>3, <1>4, <1>6 DEF applyUnsuspend
<1> QED BY <1>5, <1>6

(* The answer to the stamp is the main as it is, and the pass branches on it. *)
LEMMA StampLive ==
    ASSUME TypeOK, LiveInv, syncCocoonSetGeneration
    PROVE  LiveInv'
<1>0. run.pc = "stamp" /\ MainPatched(Stale(run), P.hib)
  BY StampEffect DEF P
<1>1. VmOK /\ IntentOK /\ CopyOK /\ StepOK
  BY <1>0 DEF LiveInv, PassOK
<1>2. /\ UNCHANGED <<tag, vk, cs, place, boots>> /\ run'.cs = run.cs
      /\ P'.at = P.at /\ P'.live = P.live /\ P'.state = P.state /\ P'.restore = P.restore
      /\ P'.hib = P.hib
  BY <1>0 DEF MainPatched, P
<1>3. /\ HasMain(run) <=> HasMain(run)'
      /\ \/ run'.pod = run.pod /\ run'.place = run.place
         \/ /\ P.at # "absent" /\ HasMain(run) /\ run'.pod.at = "present" /\ run'.pod.hib = P.hib
            /\ run'.place = place /\ run'.pod.live = P.live /\ run'.pod.state = P.state
  BY <1>0 DEF MainPatched, P, Stale, HasMain
<1>4. VmOK' /\ IntentOK'
  BY <1>1, <1>2 DEF VmOK, IntentOK, T, K
<1>5. PICK r \in Runs : run' = Entry(r) /\ r.last = run.last
  BY StampEffect
<1>6. SameCopies(r, run')
  BY <1>5, EntryFields
<1>7. CopyOK'
  <2>1. CASE run'.pod = run.pod /\ run'.place = run.place
    BY <1>0, <1>1, <1>2, <2>1, Scalars DEF CopyOK, HasMain, pinnedElsewhere, K
  <2>2. CASE /\ P.at # "absent" /\ HasMain(run) /\ run'.pod.at = "present" /\ run'.pod.hib = P.hib
             /\ run'.place = place /\ run'.pod.live = P.live /\ run'.pod.state = P.state
    BY <1>0, <1>1, <1>2, <2>2, Scalars
       DEF CopyOK, VmOK, IntentOK, HasMain, pinnedElsewhere, K, VkStates
  <2> QED BY <1>3, <2>1, <2>2
<1>8. run'.last = "" /\ run'.pc = IF pinnedElsewhere(run') THEN "recreate"
                                  ELSE IF NoMigration(run') THEN "unsuspend"
                                  ELSE IF HasMain(run') /\ run'.pod.hib THEN "owner" ELSE "probe"
  <2>1. r.pod.state # "failed" /\ r.last = ""
    BY <1>0, <1>1, <1>5, <1>6, <1>7 DEF CopyOK, StepOK, SameCopies
  <2>2. /\ pinnedElsewhere(r) <=> pinnedElsewhere(run')
        /\ NoMigration(r) <=> NoMigration(run')
        /\ HasMain(r) <=> HasMain(run')
    BY <1>6 DEF SameCopies, pinnedElsewhere, NoMigration, migrating, HasMain
  <2> QED BY <1>5, <1>6, <2>1, <2>2, EntryFields DEF SameCopies
<1>9. StepOK'
  <2>1. ASSUME boots = "one", HasMain(run') PROVE P'.at = "present"
    BY <1>0, <1>1, <1>2, <1>3, <2>1 DEF StepOK, HasMain
  <2>2. ASSUME run'.pc = "unsuspend" PROVE ~HasMain(run') \/ ~run'.pod.hib
    BY <1>7, <1>8, <2>2 DEF CopyOK, NoMigration, migrating, HasMain
  <2>3. ASSUME run'.pc = "unsuspend", boots = "one" PROVE P'.at = "present" /\ place'.node # NoNode
    <3>1. cs.phase # "Migrating"
      BY <1>2, <1>7, <1>8, <2>3 DEF CopyOK, NoMigration, migrating
    <3> QED BY <1>1, <1>2, <2>3, <3>1 DEF IntentOK
  <2> QED BY <1>2, <1>8, <2>1, <2>2, <2>3 DEF StepOK, NormalPCs, HasMain, pinnedElsewhere
<1> QED BY <1>4, <1>7, <1>9 DEF LiveInv, PassOK

(* The main is quiesced while it runs, has no tag, and its pin is elsewhere, and it is
   woken once it sleeps. *)
LEMMA HibLive ==
    ASSUME TypeOK, LiveInv, Quiesce \/ WakeInPlace \/ ClearHibernate
    PROVE  LiveInv'
<1>1. CASE run.pc = "quiesce" /\ MainPatched(~run.pod.hib, TRUE) /\ run'.pc = "idle"
  <2>0. VmOK /\ IntentOK /\ CopyOK /\ StepOK
    BY <1>1 DEF LiveInv, PassOK
  <2>1. /\ UNCHANGED <<tag, vk, cs, place, boots>>
        /\ P'.at = P.at /\ P'.live = P.live /\ P'.state = P.state /\ P'.restore = P.restore
    BY <1>1 DEF MainPatched, P
  <2>2. CASE run.pod.hib
    <3>1. pod' = pod
      BY <1>1, <2>2 DEF MainPatched
    <3> QED BY <1>1, <2>0, <2>1, <3>1, RestStep DEF LiveInv, PassOK
  <2>3. CASE ~run.pod.hib
    <3>1. P.at # "absent" /\ P'.hib
      BY <1>1, <2>3 DEF MainPatched, P
    <3>2. HasMain(run) /\ mainOffTarget(run) /\ T = "none" /\ ~P.hib
      BY <1>1, <2>0, <2>3, <3>1 DEF StepOK, CopyOK
    <3>3. cs.pin = run.cs.pin /\ place.node = run.place.node /\ place.node # NoNode
          /\ cs.pin \notin {NoNode, place.node}
      BY <2>0, <2>3, <3>1, <3>2 DEF CopyOK, mainOffTarget
    <3>4. cs.phase = "Migrating"
      BY <1>1, <2>0 DEF StepOK
    <3>5. VmOK'
      BY <2>0, <2>1, <3>1, <3>2, Scalars DEF VmOK, T, K, VkStates
    <3>6. IntentOK'
      BY <2>0, <2>1, <3>3, <3>4, Scalars DEF IntentOK
    <3> QED BY <1>1, <3>5, <3>6 DEF LiveInv, PassOK
  <2> QED BY <2>2, <2>3
<1>2. CASE /\ run.pc = "wakeInPlace" /\ MainPatched(run.pod.hib, FALSE) /\ run'.pc = "mark"
           /\ run'.last = run.last
  <2>0. VmOK /\ IntentOK /\ CopyOK /\ StepOK
    BY <1>2 DEF LiveInv, PassOK
  <2>1. /\ HasMain(run) /\ run.pod.hib /\ run.cs.pin \in {NoNode, run.place.node}
        /\ P.at # "absent" => K = "asleep"
    BY <1>2, <2>0 DEF StepOK
  <2>2. /\ UNCHANGED <<tag, vk, cs, place, boots>> /\ P.at # "absent" /\ ~P'.hib
        /\ P'.at = P.at /\ P'.live = P.live /\ P'.state = P.state /\ P'.restore = P.restore
        /\ run'.cs = run.cs /\ run'.pod.at = "present" /\ ~run'.pod.hib /\ run'.place = place
        /\ run'.pod.live = P.live /\ run'.pod.state = P.state
    BY <1>2, <2>1 DEF MainPatched, P
  <2>3. K = "asleep" /\ boots = "one" /\ ~P.live /\ run.place.node = place.node
        /\ place.node # NoNode /\ P.state # "failed"
    BY <2>0, <2>1, <2>2, Scalars DEF VmOK, CopyOK
  <2>4. VmOK' /\ IntentOK'
    BY <2>0, <2>2, <2>3, Scalars DEF VmOK, IntentOK, T, K
  <2>5. CopyOK'
    <3>1. run'.cs.phase = cs'.phase /\ run'.pod.state # "failed"
      BY <2>0, <2>2, <2>3 DEF CopyOK
    <3>2. run'.place.node = place'.node /\ run'.place.node # NoNode /\ ~run'.pod.live
      BY <2>2, <2>3
    <3>3. run'.pod.hib = P'.hib
      <4>1. P'.hib = FALSE /\ run'.pod.hib = FALSE
        BY <1>2, <2>1 DEF MainPatched, P
      <4> QED BY <4>1
    <3>4. run'.cs.pin \in {NoNode, run'.place.node}
      BY <2>1, <2>2, <2>3
    <3> QED BY <2>2, <3>1, <3>2, <3>3, <3>4 DEF CopyOK, HasMain, pinnedElsewhere
  <2>6. run'.last = ""
    BY <1>2, <2>0 DEF StepOK
  <2>7. StepOK'
    BY <1>2, <2>2, <2>3, <2>6 DEF StepOK, NormalPCs
  <2> QED BY <2>4, <2>5, <2>7 DEF LiveInv, PassOK
<1>3. CASE run.pc = "clear"
  BY <1>3 DEF LiveInv, PassOK, StepOK
<1> QED BY <1>1, <1>2, <1>3, HibEffect

(* Every step of a patient system in which no transition fails keeps the invariant. *)
LEMMA LiveStep ==
    ASSUME TypeInv, LiveInv, [Next]_vars,
           Patient = TRUE, BindRace = FALSE, VkMayFail = FALSE
    PROVE  LiveInv'
<1>0. TypeOK
  BY DEF TypeInv
<1>1. CASE UNCHANGED vars
  <2>1. UNCHANGED <<pod, tag, vk, cs, place, run, boots>>
    BY <1>1 DEF vars, setVars, clusterVars
  <2>2. VmOK' /\ IntentOK'
    BY <2>1, RestStep DEF LiveInv
  <2>3. CopyOK => CopyOK'
    BY <2>1 DEF CopyOK, HasMain, pinnedElsewhere, P, T, K
  <2>4. StepOK => StepOK'
    BY <2>1 DEF StepOK, HasMain, mainOffTarget, pinnedElsewhere, P, T, K
  <2> QED BY <2>1, <2>2, <2>3, <2>4 DEF LiveInv, PassOK
<1>2. CASE VkFails
  BY <1>2 DEF VkFails
<1> QED BY <1>0, <1>1, <1>2, VkLive, UserLive, PassStarts, ControlLive, PhaseLive, DropLive,
           DeleteLive, CreateLive, RecordLive, StampLive, HibLive
        DEF Next, NoCRs, PassStep

(* A set that runs and a set that starts satisfy it. *)
LEMMA LiveInit == Init => LiveInv
<1> SUFFICES ASSUME Init PROVE LiveInv
  OBVIOUS
<1>0. Main \in VMs
  BY MainOnly
<1>1. run.pc = "idle"
  BY DEF Init
<1>2. CASE Running
  <2>1. P = [NewPod(TRUE, FALSE, 1) EXCEPT !.state = "ready", !.obs = 1, !.live = TRUE]
    BY <1>0, <1>2 DEF Running, ClusterInit, P
  <2>2. /\ P.at = "present" /\ P.hib = FALSE /\ P.restore = FALSE
        /\ P.state = "ready" /\ P.live = TRUE
    BY <2>1 DEF NewPod, NoPod
  <2>3. T = "none" /\ K = "running" /\ boots = "one"
    BY <1>0, <1>2 DEF Running, ClusterInit, T, K
  <2>4. PICK n \in Nodes : place = [aff |-> cs.pin, node |-> n]
    BY <1>2 DEF Running
  <2>5. place.node # NoNode
    BY <2>4, MigrationAssumption
  <2> QED BY <1>1, <2>2, <2>3, <2>5 DEF LiveInv, VmOK, IntentOK, PassOK
<1>3. CASE Starting
  <2>1. P = NewPod(TRUE, FALSE, 1)
    BY <1>0, <1>3 DEF Starting, NotBooted, P
  <2>2. /\ P.at = "present" /\ P.hib = FALSE /\ P.restore = FALSE
        /\ P.state = "none" /\ P.live = FALSE
    BY <2>1 DEF NewPod, NoPod
  <2>3. T = "none" /\ K = "off" /\ boots = "none"
    BY <1>0, <1>3 DEF Starting, NotBooted, T, K
  <2> QED BY <1>1, <2>2, <2>3 DEF LiveInv, VmOK, IntentOK, PassOK
<1> QED BY <1>2, <1>3 DEF Init

-----------------------------------------------------------------------------
(* The refinement of VMState *)

(* Home in the names of the invariant: the VM runs on the state, or the tag holds it. *)
HomeOK ==
    /\ boots = "none" => Home = Unborn
    /\ boots = "one" /\ K \notin {"running", "pushing"} => Home = Registry
    /\ boots = "one" /\ K \in {"running", "pushing"} => Home = place.node /\ Home \in Nodes
    /\ boots \in {"none", "one"}

(* The invariant leaves no place but a node, the registry and the image. *)
LEMMA HomeCases == TypeOK /\ VmOK => HomeOK
<1> SUFFICES ASSUME TypeOK, VmOK PROVE HomeOK
  OBVIOUS
<1>1. Home = IF boots = "none" THEN Unborn
             ELSE IF T = "fresh" THEN Registry
             ELSE IF K \in {"running", "pushing"} /\ boots = "one" THEN place.node
             ELSE NoNode
  BY DEF Home, T, K
<1>2. boots = "one" /\ K \in {"running", "pushing"} => place.node \in Nodes
  BY Scalars DEF VmOK, Pins
<1> QED BY <1>1, <1>2, Scalars DEF VmOK, HomeOK

(* Only vk-cocoon moves the state, and it moves it from a node to the registry or back: the
   image boots once, a push ends on the registry, a wake or a restore on the main's node. *)
LEMMA VkHome ==
    ASSUME VmOK', HomeOK, HomeOK', VkActs
    PROVE  State!Next \/ Home' = Home
<1>1. /\ VkStep(Main)
      /\ place' = (IF P'.at = "absent" THEN Nowhere ELSE place)
      /\ boots' = IF K # "off" \/ K' # "running" THEN boots
                  ELSE IF boots = "none" THEN "one" ELSE "more"
  BY DEF VkActs, K, P
<1>2. CASE boots = "none"
  BY <1>1, <1>2 DEF HomeOK, State!Next, State!Boot
<1>3. CASE boots = "one"
  <2>1. boots' = "one"
    BY <1>1, <1>3 DEF HomeOK
  <2>2. CASE K \in {"running", "pushing"} /\ K' \notin {"running", "pushing"}
    BY <1>3, <2>1, <2>2 DEF HomeOK, State!Next, State!Save
  <2>3. CASE K \notin {"running", "pushing"} /\ K' \in {"running", "pushing"}
    BY <1>3, <2>1, <2>3 DEF HomeOK, State!Next, State!Restore
  <2>4. CASE K \notin {"running", "pushing"} /\ K' \notin {"running", "pushing"}
    BY <1>3, <2>1, <2>4 DEF HomeOK
  <2>5. CASE K \in {"running", "pushing"} /\ K' \in {"running", "pushing"}
    <3>1. P'.at # "absent"
      BY <1>3, <2>1, <2>5 DEF VmOK
    <3> QED BY <1>1, <1>3, <2>1, <2>5, <3>1 DEF HomeOK
  <2> QED BY <2>2, <2>3, <2>4, <2>5
<1> QED BY <1>2, <1>3 DEF HomeOK

(* Any other step leaves it where it is: a tag is dropped only over a running VM, and a main
   that is created or scheduled has none. *)
LEMMA HomeStep ==
    ASSUME TypeInv, LiveInv, LiveInv', HomeOK, HomeOK', [Next]_vars, VkMayFail = FALSE
    PROVE  [State!Next]_Home
<1>0. TypeOK /\ VmOK /\ VmOK'
  BY DEF TypeInv, LiveInv
<1>1. CASE VkActs
  BY <1>0, <1>1, VkHome
<1>2. ASSUME boots' = boots, K' = K, T' = T, place' = place PROVE Home' = Home
  BY <1>2 DEF Home, T, K
<1>3. ASSUME boots' = boots, K' = K, T' = T, K = "off" PROVE Home' = Home
  BY <1>3 DEF Home, T, K
<1>4. CASE Reconcile \/ WriteStatus
  BY <1>2, <1>4, StatusEffect DEF K, T
<1>5. CASE \/ SkipClaimed({}) \/ HasHibernateSnapshot \/ SkipTracked({})
           \/ markRestoreFromIntent({}) \/ PodNotFound \/ Abandon
  <2>1. UNCHANGED <<tag, vk, place, boots>>
    BY <1>0, <1>5, ControlEffect
  <2> QED BY <1>2, <2>1 DEF K, T
<1>6. CASE startMigration \/ markMigrating
  BY <1>0, <1>2, <1>6, PhaseEffect DEF K, T
<1>7. CASE RecreateUnscheduled \/ DeleteOld
  BY <1>0, <1>2, <1>7, DeleteEffect DEF K, T
<1>8. CASE applyUnsuspend({}) \/ forgetReclaim
  <2>1. UNCHANGED <<tag, vk, place, boots>>
    BY <1>0, <1>8, RecordEffect
  <2> QED BY <1>2, <2>1 DEF K, T
<1>9. CASE syncCocoonSetGeneration \/ Quiesce \/ WakeInPlace \/ ClearHibernate
  <2>1. UNCHANGED <<tag, vk, place, boots>>
    BY <1>9 DEF syncCocoonSetGeneration, Quiesce, WakeInPlace, ClearHibernate, PatchMain, RestUnchanged
  <2> QED BY <1>2, <2>1 DEF K, T
<1>10. CASE DeleteManifest \/ reclaimSnapshots
  <2>1. UNCHANGED <<vk, place, boots>> /\ K = "running"
    BY <1>0, <1>10, DropEffect, DropLive
  <2>2. boots = "one" /\ boots' = "one" /\ K' = "running" /\ place' = place
    BY <1>0, <2>1, Scalars DEF VmOK, K
  <2>3. T # "fresh" /\ T' # "fresh"
    BY <1>0, <2>1, <2>2 DEF VmOK
  <2> QED BY <2>1, <2>2, <2>3 DEF Home, T, K
<1>11. CASE RestoreMain \/ createMainAgent
  <2>1. UNCHANGED <<tag, vk, boots>> /\ (place' = place \/ P.at = "absent")
    BY <1>0, <1>11, CreateEffect DEF P
  <2>2. P.at = "absent" => K = "off"
    BY <1>0 DEF VmOK
  <2> QED BY <1>2, <1>3, <2>1, <2>2 DEF K, T
<1>12. CASE Schedule
  <2>1. UNCHANGED <<tag, vk, boots>> /\ place.node = NoNode
    BY <1>12 DEF Schedule, clusterVars
  <2>2. K = "off"
    BY <1>0, <2>1, Scalars DEF VmOK
  <2> QED BY <1>3, <2>1, <2>2 DEF K, T
<1>13. CASE EditPin \/ Evict({})
  BY <1>2, <1>13 DEF EditPin, Evict, clusterVars, K, T
<1>14. CASE UNCHANGED vars
  BY <1>2, <1>14 DEF vars, setVars, clusterVars, K, T
<1> QED BY <1>1, <1>4, <1>5, <1>6, <1>7, <1>8, <1>9, <1>10, <1>11, <1>12, <1>13, <1>14
        DEF Next, NoCRs, PassStep, VkFails

(* The main's live state is never lost and never duplicated, for any nodes, any number of
   pin edits, abandoned passes, restarts and evictions: from its first boot on it is on the
   main's node or in the registry, and only a push and a restore move it.  Pin edits and
   drains wait for the pass they would race, the scheduler does not bind a main a pass has
   read as unscheduled, and no transition fails. *)
THEOREM LiveStateIsKept ==
    ASSUME Patient = TRUE, BindRace = FALSE, VkMayFail = FALSE
    PROVE  Spec => KeepsLiveState
<1>1. ASSUME Init PROVE State!Init
  <2>1. TypeOK /\ VmOK
    BY <1>1, TypeInit, LiveInit DEF TypeInv, LiveInv
  <2>2. boots = "none" \/ (boots = "one" /\ K = "running")
    BY <1>1, MainOnly DEF Init, Running, Starting, ClusterInit, K
  <2> QED BY <2>1, <2>2, HomeCases DEF HomeOK, State!Init
<1>2. TypeInv /\ LiveInv /\ [Next]_vars => TypeInv' /\ LiveInv'
  BY TypeStep, LiveStep
<1>3. TypeInv /\ LiveInv => HomeOK
  BY HomeCases DEF TypeInv, LiveInv
<1>4. TypeInv /\ LiveInv /\ LiveInv' /\ HomeOK /\ HomeOK' /\ [Next]_vars => [State!Next]_Home
  BY HomeStep
<1> QED BY <1>1, <1>2, <1>3, <1>4, TypeInit, LiveInit, PTL DEF Spec, KeepsLiveState, State!Spec
=============================================================================
