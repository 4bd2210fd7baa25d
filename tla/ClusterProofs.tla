--------------------------- MODULE ClusterProofs ---------------------------
(* Lemmas about Cluster that the proofs about the reconcilers share: the types of what
   vk-cocoon writes. *)
EXTENDS Cluster, TLAPS

(* The pods vk-cocoon and the CocoonSet write are well typed. *)
LEMMA PodRecordType ==
    /\ NoPod \in Pods
    /\ \A n, r \in BOOLEAN : \A g \in Generations : NewPod(n, r, g) \in Pods
    /\ \A q \in Pods : \A h \in BOOLEAN : [q EXCEPT !.hib = h] \in Pods
    /\ \A q \in Pods : \A g \in Generations : [q EXCEPT !.gen = g] \in Pods
    /\ \A q \in Pods : [q EXCEPT !.at = "terminating"] \in Pods
    /\ \A q \in Pods : \A s \in {"ready", "hibernated"} : \A g \in Generations :
         [q EXCEPT !.state = s, !.obs = g] \in Pods
<1>1. 0 \in Generations
  BY ClusterAssumption DEF Generations
<1>2. NoPod \in Pods
  BY <1>1 DEF NoPod, Pods
<1>3. ASSUME NEW n \in BOOLEAN, NEW r \in BOOLEAN, NEW g \in Generations
      PROVE  NewPod(n, r, g) \in Pods
  <2>1. ASSUME NEW q \in Pods
        PROVE [q EXCEPT !.at = "present", !.named = n, !.restore = r, !.gen = g] \in Pods
    BY DEF Pods
  <2> QED BY <1>2, <2>1 DEF NewPod
<1>4. ASSUME NEW q \in Pods, NEW h \in BOOLEAN PROVE [q EXCEPT !.hib = h] \in Pods
  BY DEF Pods
<1>5. ASSUME NEW q \in Pods, NEW g \in Generations PROVE [q EXCEPT !.gen = g] \in Pods
  BY DEF Pods
<1>6. ASSUME NEW q \in Pods PROVE [q EXCEPT !.at = "terminating"] \in Pods
  BY DEF Pods
<1>7. ASSUME NEW q \in Pods, NEW s \in {"ready", "hibernated"}, NEW g \in Generations
      PROVE  [q EXCEPT !.state = s, !.obs = g] \in Pods
  BY DEF Pods
<1> QED BY <1>2, <1>3, <1>4, <1>5, <1>6, <1>7

(* A lifecycle report keeps the pods well typed. *)
LEMMA ReportType ==
    ASSUME pod \in [VMs -> Pods], NEW v \in VMs, NEW g \in Generations, NEW l \in BOOLEAN,
           NEW s \in {"ready", "hibernated", "failed"}, Report(v, s, g, l)
    PROVE  pod' \in [VMs -> Pods]
<1>1. ASSUME NEW q \in Pods
      PROVE  [q EXCEPT !.state = s, !.obs = g, !.live = l, !.named = TRUE] \in Pods
  BY DEF Pods
<1>2. pod' = [pod EXCEPT ![v] = [pod[v] EXCEPT !.state = s, !.obs = g, !.live = l, !.named = TRUE]]
  BY DEF Report
<1> QED BY <1>1, <1>2

(* Every step of vk-cocoon keeps the cluster well typed. *)
LEMMA VkStepType ==
    ASSUME ClusterTypeOK, NEW v \in VMs, VkStep(v) \/ VkFail(v)
    PROVE  ClusterTypeOK'
<1>0. pod[v].gen \in Generations /\ vkGen[v] \in Generations /\ pod[v] \in Pods
  BY DEF ClusterTypeOK, Pods
<1>1. CASE VkBoot(v)
  <2>1. pod' \in [VMs -> Pods]
    BY <1>0, <1>1, ReportType DEF VkBoot, ClusterTypeOK
  <2> QED BY <1>1, <2>1 DEF VkBoot, Spent, ClusterTypeOK, VkStates
<1>2. CASE VkRefuse(v)
  <2>1. pod' \in [VMs -> Pods]
    BY <1>0, <1>2, ReportType DEF VkRefuse, ClusterTypeOK
  <2> QED BY <1>2, <2>1 DEF VkRefuse, ClusterTypeOK
<1>3. CASE VkRestore(v) \/ VkHibernate(v) \/ VkWake(v)
  BY <1>0, <1>3 DEF VkRestore, VkHibernate, VkWake, VkStart, ClusterTypeOK, VkStates
<1>4. CASE VkPush(v)
  BY <1>4 DEF VkPush, ClusterTypeOK, VkStates
<1>5. CASE VkReportHibernated(v)
  <2>1. pod' \in [VMs -> Pods]
    BY <1>0, <1>5, ReportType DEF VkReportHibernated, ClusterTypeOK
  <2> QED BY <1>5, <2>1 DEF VkReportHibernated, ClusterTypeOK, VkStates
<1>6. CASE VkWoken(v)
  <2>1. pod' \in [VMs -> Pods]
    BY <1>0, <1>6, ReportType DEF VkWoken, ClusterTypeOK
  <2> QED BY <1>6, <2>1 DEF VkWoken, Spent, ClusterTypeOK, VkStates
<1>7. CASE VkEcho(v)
  <2>1. PICK rest \in {[of |-> "running", hib |-> FALSE, state |-> "ready"],
                     [of |-> "asleep", hib |-> TRUE, state |-> "hibernated"]} :
          pod' = [pod EXCEPT ![v].state = rest.state, ![v].obs = pod[v].gen]
    BY <1>7 DEF VkEcho
  <2>2. rest.state \in {"ready", "hibernated"}
    OBVIOUS
  <2>3. [pod[v] EXCEPT !.state = rest.state, !.obs = pod[v].gen] \in Pods
    BY <1>0, <2>2, PodRecordType
  <2> QED BY <1>7, <2>1, <2>3 DEF VkEcho, ClusterTypeOK
<1>8. CASE VkDelete(v)
  BY <1>8, PodRecordType DEF VkDelete, ClusterTypeOK, VkStates
<1>9. CASE VkFail(v)
  <2>1. pod' \in [VMs -> Pods]
    BY <1>0, <1>9, ReportType DEF VkFail, ClusterTypeOK
  <2>2. faults' \in 0..MaxFaults
    BY <1>9, ClusterAssumption DEF VkFail, ClusterTypeOK
  <2>3. vk' \in [VMs -> VkStates]
    BY <1>9 DEF VkFail, ClusterTypeOK, VkStates
  <2> QED BY <1>9, <2>1, <2>2, <2>3 DEF VkFail, ClusterTypeOK
<1> QED BY <1>1, <1>2, <1>3, <1>4, <1>5, <1>6, <1>7, <1>8, <1>9 DEF VkStep
=============================================================================
