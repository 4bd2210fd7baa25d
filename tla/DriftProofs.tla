---------------------------- MODULE DriftProofs ----------------------------
(* Proofs about Drift: the comparison accepts exactly the pods of the current spec, for
   every template and every quantity. *)
EXTENDS Drift, TLAPS

(* A built pod and what the API server makes of it are pods. *)
LEMMA StoredType ==
    ASSUME NEW role \in Roles, NEW t \in Templates
    PROVE  Stored(role, t) \in PodSpecs
<1>1. newManagedPod(t) \in PodSpecs
  BY DriftAssumption DEF newManagedPod, Templates, PodSpecs, VMSpecs, Or, Optional
<1>2. buildPod(role, t) \in PodSpecs
  BY <1>1 DEF buildPod, buildAgentPod, buildToolboxPod, Templates, PodSpecs, Optional
<1>3. ASSUME NEW q \in PodSpecs PROVE Admit(q) \in PodSpecs
  <2>1. q.limits \in Lists /\ q.requests \in Lists
    BY DEF PodSpecs
  <2>2. Limits(q) \in Lists
    BY <2>1, DriftAssumption DEF Limits, Lists, Or
  <2>3. [r \in Resources |-> Or(q.requests[r], Limits(q)[r])] \in Lists
    BY <2>1, <2>2 DEF Lists, Or
  <2>4. Or(q.account, DefaultAccount) \in Optional(Accounts)
    BY DriftAssumption DEF PodSpecs, Or, Optional
  <2> QED BY <2>2, <2>3, <2>4 DEF Admit, PodSpecs
<1> QED BY <1>2, <1>3 DEF Stored

(* What the API server holds, field by field. *)
StoredRecord(role, t) ==
    [vm |-> t.vm, pool |-> Or(t.pool, DefaultPool), class |-> t.class,
     account |-> IF role = "toolbox" THEN DefaultAccount ELSE Or(t.account, DefaultAccount),
     env |-> IF role = "toolbox" THEN None ELSE t.env,
     limits |-> Limits(t),
     requests |-> [r \in Resources |-> Or(t.requests[r], Limits(t)[r])],
     disk |-> t.vm.storage,
     hints |-> IF role = "toolbox" /\ t.vm.mode = "static" THEN t.hints ELSE None]

(* A pod is stored as it was built, but for the account, the limits and the requests. *)
LEMMA StoredFields ==
    ASSUME NEW role \in Roles, NEW t \in Templates
    PROVE  Stored(role, t) = StoredRecord(role, t)
<1> DEFINE q == buildPod(role, t)
<1>1. /\ q = [vm |-> t.vm, pool |-> Or(t.pool, DefaultPool), class |-> t.class,
              account |-> IF role = "toolbox" THEN None ELSE t.account,
              env |-> IF role = "toolbox" THEN None ELSE t.env,
              limits |-> t.limits, requests |-> t.requests, disk |-> t.vm.storage,
              hints |-> IF role = "toolbox" /\ t.vm.mode = "static" THEN t.hints ELSE None]
  <2>1. CASE role = "toolbox"
    BY <2>1 DEF buildPod, buildToolboxPod, newManagedPod
  <2>2. CASE role # "toolbox"
    BY <2>2 DEF buildPod, buildAgentPod, newManagedPod
  <2> QED BY <2>1, <2>2
<1>2. t.limits \in Lists /\ t.requests \in Lists
  BY DEF Templates
<1>3. Limits(q) = Limits(t)
  BY <1>1 DEF Limits
<1>4. Or(q.account, DefaultAccount)
        = IF role = "toolbox" THEN DefaultAccount ELSE Or(t.account, DefaultAccount)
  BY <1>1 DEF Or
<1>5. [r \in Resources |-> Or(q.requests[r], Limits(q)[r])]
        = [r \in Resources |-> Or(t.requests[r], Limits(t)[r])]
  BY <1>1, <1>3
<1>6. Admit(q) = StoredRecord(role, t)
  BY <1>1, <1>3, <1>4, <1>5 DEF Admit, StoredRecord
<1> QED BY <1>6 DEF Stored

(* A defaulter that leaves some pod with a template's own limits leaves that template's
   limits alone. *)
LEMMA LimitsKept ==
    ASSUME NEW t \in Templates, NEW u \in Templates, Limits(u) = t.limits
    PROVE  Limits(t) = t.limits
<1>1. t.limits \in Lists /\ u.limits \in Lists /\ LimitRange \in Lists
  BY DriftAssumption DEF Templates
<1>2. ASSUME NEW r \in Resources PROVE Or(t.limits[r], LimitRange[r]) = t.limits[r]
  <2>1. t.limits[r] = Or(u.limits[r], LimitRange[r])
    BY DEF Limits
  <2> QED BY <2>1 DEF Or
<1> QED BY <1>1, <1>2 DEF Limits, Lists

(* For any templates, quantities and external defaulter, a pod built from one template
   and read back from the API server matches another exactly when a pod built from that
   other one would be stored the same and the defaulter leaves its limits alone; a pod
   without a class is adopted while it lives.  So, defaulters apart, a new pod never
   drifts from the spec it was built from, and no edit of the spec goes unnoticed. *)
THEOREM MatchIsUpToDate ==
    ASSUME NEW role \in Roles, NEW t \in Templates, NEW u \in Templates,
           NEW terminal \in BOOLEAN
    PROVE  podSpecMatches(role, Stored(role, u), terminal, t)
           <=> /\ UpToDate(role, Stored(role, u), t)
               /\ terminal => Stored(role, u).class = t.class
               /\ Limits(t) = t.limits
<1> DEFINE q == StoredRecord(role, u)
           w == [t EXCEPT !.class = u.class]
<1>1. Stored(role, u) = q
  BY StoredFields
<1>2. /\ w \in Templates /\ w.class = u.class
      /\ w.vm = t.vm /\ w.pool = t.pool /\ w.account = t.account /\ w.env = t.env
      /\ w.limits = t.limits /\ w.requests = t.requests /\ w.hints = t.hints
  BY DEF Templates
<1>3. Stored(role, w) = StoredRecord(role, w) /\ Limits(w) = Limits(t)
  BY <1>2, StoredFields DEF Limits
<1>4. q.class = u.class
  BY DEF StoredRecord
<1>5. UpToDate(role, q, t) <=> u.class \in {None, t.class} /\ q = StoredRecord(role, w)
  BY <1>3, <1>4 DEF UpToDate
<1> DEFINE SameBut(limits) ==
             /\ u.vm = t.vm /\ Or(u.pool, DefaultPool) = Or(t.pool, DefaultPool)
             /\ Limits(u) = limits
             /\ \A r \in Resources : Or(u.requests[r], Limits(u)[r]) = Or(t.requests[r], limits[r])
             /\ IF role = "toolbox" THEN t.vm.mode = "static" => u.hints = t.hints
                ELSE /\ u.env = t.env
                     /\ Or(u.account, DefaultAccount) = Or(t.account, DefaultAccount)
<1>6. q = StoredRecord(role, w) <=> SameBut(Limits(t))
  BY <1>2, <1>3 DEF StoredRecord
<1>7. podSpecMatches(role, q, terminal, t)
      <=> SameBut(t.limits) /\ (u.class = t.class \/ (u.class = None /\ ~terminal))
  <2>1. Limits(u) \in Lists /\ t.limits \in Lists
    BY DriftAssumption DEF Templates, Limits, Lists, Or, Optional
  <2>2. (\A r \in Resources : Limits(u)[r] = t.limits[r]) <=> Limits(u) = t.limits
    BY <2>1 DEF Lists
  <2>3. resourcesMatch(q, t)
        <=> /\ Limits(u) = t.limits
            /\ \A r \in Resources : Or(u.requests[r], Limits(u)[r]) = Or(t.requests[r], t.limits[r])
    BY <2>2 DEF resourcesMatch, StoredRecord
  <2>4. schedulingMatches(q, terminal, t)
        <=> /\ Or(u.pool, DefaultPool) = Or(t.pool, DefaultPool)
            /\ u.class = t.class \/ (u.class = None /\ ~terminal)
    BY DEF schedulingMatches, StoredRecord
  <2>5. CASE role = "toolbox"
    BY <2>3, <2>4, <2>5 DEF podSpecMatches, podSpecMatchesToolbox, StoredRecord
  <2>6. CASE role # "toolbox"
    <3>1. Or(q.account, DefaultAccount) = Or(u.account, DefaultAccount)
      BY <2>6, DriftAssumption DEF StoredRecord, Or
    <3> QED BY <2>3, <2>4, <2>6, <3>1 DEF podSpecMatches, podSpecMatchesAgent, StoredRecord
  <2> QED BY <2>5, <2>6
<1>8. SameBut(t.limits) <=> SameBut(Limits(t)) /\ Limits(t) = t.limits
  BY LimitsKept
<1> QED BY <1>1, <1>4, <1>5, <1>6, <1>7, <1>8
=============================================================================
