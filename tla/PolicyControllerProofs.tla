----------------------- MODULE PolicyControllerProofs ----------------------
(***************************************************************************)
(* Machine-checked proofs about PolicyController, for any set of Clusters, *)
(* policies and submitted specs, and any bounds.                           *)
(***************************************************************************)
EXTENDS PolicyController, FleetProofs

(***************************************************************************)
(* Why the safety properties hold: what is true of the copies, of the      *)
(* running pass and of the Clusters between any two steps.                 *)
(***************************************************************************)
\* Whatever exists was admitted under its name.
Stored == \A p \in Policy :
    /\ Exists(p) => policies[p].spec \in Admitted(p)
    /\ Known(p) => policyCache[p].spec \in Admitted(p)

\* A copy counted among the newest is the object: the cache's as a whole, the
\* pass's as far as it keeps it.  A pass for a deleted policy writes no status.
Newest ==
    /\ \A p \in Policy : "cache" \in newest[p] => policyCache[p] = policies[p]
    /\ pc # "idle" /\ "job" \in newest[job.policy] =>
          /\ Exists(job.policy)
          /\ policies[job.policy].spec = job.spec
          /\ job.deleting <=> policies[job.policy].phase = "deleting"
    /\ pc = "status" => ~job.deleting

\* The pass stays in the namespace of its policy.
Home ==
    /\ \A c \in job.todo : PolicyNamespace[c] = PolicyNamespace[job.policy]
    /\ pc \in RemoteCalls => PolicyNamespace[job.cluster] = PolicyNamespace[job.policy]

\* Cluster c was annotated once; if it exists it still is (MaxUid = 1).
WasMarked(c) == clusters[c].uid = 1 /\ (clusters[c].present => clusters[c].installed)

\* Every copy of an annotation, however old, is of a Cluster that has it.
Marks ==
    /\ \A c \in Cluster :
          /\ clusters[c].present => clusters[c].uid >= 1
          /\ clusters[c].installed => clusters[c].present
          /\ cache[c].installed => WasMarked(c)
    /\ \A c \in job.eligible : WasMarked(c)
    /\ pc \in {"get", "write", "verify"} => WasMarked(job.cluster)

\* Cluster c has the policy as the running pass read it, or is gone for good.
HasPolicy(c) ==
    /\ clusters[c].uid = 1
    /\ clusters[c].present => workload[c][Key] = BuildPolicySpec(job.spec)

\* While allReady stands the Clusters behind the pass have the policy.
Behind ==
    /\ pc = "status" => job.todo = {}
    /\ pc = "delete" => job.deleting
    /\ pc \notin {"idle", "list"} /\ ~job.deleting /\ job.allReady =>
          \A c \in job.selected \ job.todo :
             (pc \in RemoteCalls => c # job.cluster) => HasPolicy(c)
    /\ pc = "verify" /\ Remote => workload[job.cluster][Key] = BuildPolicySpec(job.spec)

(***************************************************************************)
(* Admission.                                                              *)
(***************************************************************************)
\* What was admitted under some name is a stored spec.
LEMMA AdmittedStored == ASSUME NEW p \in Policy PROVE Admitted(p) \subseteq StoredSpec
  BY DEF StoredSpec

\* Default fills what can be left empty, and leaves the rest.
LEMMA DefaultFields ==
    ASSUME NEW p \in Policy, NEW t \in Submitted
    PROVE  LET s == Default(p, t) IN
           /\ DOMAIN s = DOMAIN t
           /\ s.policyType \in {ClusterAdmissionPolicy, AdmissionPolicy}
           /\ s.policyServer # Empty /\ s.policyName # Empty
           /\ s.failurePolicy \in {"Fail", "Ignore"}
           /\ s.policyType = AdmissionPolicy => s.targetNamespace # Empty
  <1>1. /\ {"policyType", "policyName", "targetNamespace", "policyServer",
            "failurePolicy"} \subseteq DOMAIN t
        /\ t.policyType \in {Empty, ClusterAdmissionPolicy, AdmissionPolicy}
        /\ t.failurePolicy \in {Empty, "Fail", "Ignore"}
        /\ p # Empty
    BY SpecAssumption
  <1> QED
    BY <1>1 DEF Default, OrDefault, Empty, ClusterAdmissionPolicy, AdmissionPolicy

\* A spec with all of these filled is left as it is.
LEMMA DefaultFilled ==
    ASSUME NEW p, NEW s, s = [x \in DOMAIN s |-> s[x]],
           s.policyType # Empty, s.policyServer # Empty, s.policyName # Empty,
           s.failurePolicy # Empty, s.policyType = AdmissionPolicy => s.targetNamespace # Empty
    PROVE  Default(p, s) = s
  BY DEF Default, OrDefault

\* An admitted spec can be deployed: it has a name, a namespace if it needs
\* one, a failure policy, and admission leaves it alone from then on.
LEMMA AdmittedDeployable ==
    ASSUME NEW p \in Policy, NEW s \in Admitted(p)
    PROVE  /\ Empty \notin {PolicyKey(s)[i] : i \in DOMAIN PolicyKey(s)}
           /\ BuildPolicySpec(s).failurePolicy # Nil
           /\ Default(p, s) = s
  <1>1. PICK t \in Submitted : s = Default(p, t)
    BY DEF Admitted
  <1>2. /\ s.policyType \in {ClusterAdmissionPolicy, AdmissionPolicy}
        /\ s.policyServer # Empty /\ s.policyName # Empty
        /\ s.failurePolicy \in {"Fail", "Ignore"}
        /\ s.policyType = AdmissionPolicy => s.targetNamespace # Empty
    BY <1>1, DefaultFields
  <1>3. s = [x \in DOMAIN s |-> s[x]]
    BY <1>1 DEF Default
  <1>4. Default(p, s) = s
    BY <1>2, <1>3, DefaultFilled DEF Empty, ClusterAdmissionPolicy, AdmissionPolicy
  <1>5. BuildPolicySpec(s).failurePolicy # Nil
    BY <1>2 DEF BuildPolicySpec, OrNil, Empty, Nil
  <1>6. Empty \notin {PolicyKey(s)[i] : i \in DOMAIN PolicyKey(s)}
    <2>1. CASE s.policyType = ClusterAdmissionPolicy
      <3>1. PolicyKey(s) = <<ClusterAdmissionPolicy, s.policyName>>
        BY <2>1 DEF PolicyKey
      <3>2. DOMAIN PolicyKey(s) = 1..2
        BY <3>1
      <3>3. PolicyKey(s)[1] # Empty /\ PolicyKey(s)[2] # Empty
        <4>1. PolicyKey(s)[1] = ClusterAdmissionPolicy /\ PolicyKey(s)[2] = s.policyName
          BY <3>1
        <4> QED
          BY <1>2, <4>1 DEF Empty, ClusterAdmissionPolicy
      <3> QED
        BY <3>2, <3>3
    <2>2. CASE s.policyType = AdmissionPolicy
      <3>1. PolicyKey(s) = <<AdmissionPolicy, s.targetNamespace, s.policyName>>
        BY <2>2 DEF PolicyKey, ClusterAdmissionPolicy, AdmissionPolicy
      <3>2. DOMAIN PolicyKey(s) = 1..3
        BY <3>1
      <3>3. PolicyKey(s)[1] # Empty /\ PolicyKey(s)[2] # Empty /\ PolicyKey(s)[3] # Empty
        <4>1. /\ PolicyKey(s)[1] = AdmissionPolicy /\ PolicyKey(s)[2] = s.targetNamespace
              /\ PolicyKey(s)[3] = s.policyName
          BY <3>1
        <4> QED
          BY <1>2, <2>2, <4>1 DEF Empty, AdmissionPolicy
      <3> QED
        BY <3>2, <3>3
    <2> QED
      BY <1>2, <2>1, <2>2
  <1> QED
    BY <1>4, <1>5, <1>6

(***************************************************************************)
(* Types.                                                                  *)
(***************************************************************************)
\* The fields of a job.
LEMMA JobFields ==
    ASSUME NEW j \in JobRecord
    PROVE  /\ j.spec \in StoredSpec \cup {NoSpec} /\ j.deleting \in BOOLEAN
           /\ j.selected \subseteq Cluster /\ j.todo \subseteq Cluster
           /\ j.eligible \subseteq Cluster /\ j.allReady \in BOOLEAN
           /\ j.deployed \subseteq Cluster \X BOOLEAN /\ j.uid \in 0..MaxUid
  BY DEF JobRecord

\* The clean job is a job.
LEMMA NoJobType == NoJob \in JobRecord
  BY FleetAssumption DEF JobRecord, NoJob

\* A job that took a policy.
LEMMA StartedType ==
    ASSUME NEW p \in Policy, policyCache[p].spec \in StoredSpec
    PROVE  LET j == Started(p) IN
           /\ j \in JobRecord
           /\ j.policy = p /\ j.spec = policyCache[p].spec
           /\ j.deleting <=> policyCache[p].phase = "deleting"
           /\ j.selected = {} /\ j.todo = {} /\ j.eligible = {}
  <1>1. /\ policyCache[p].spec \in StoredSpec \cup {NoSpec} /\ p \in Policy \cup {None}
        /\ (policyCache[p].phase = "deleting") \in BOOLEAN
    OBVIOUS
  <1>2. Started(p) \in JobRecord
    BY <1>1, NoJobType, Zenon DEF Started, JobRecord
  <1> QED
    BY <1>1, <1>2, NoJobType DEF Started, NoJob, JobRecord

\* A job that listed the Clusters.
LEMMA ListedType ==
    ASSUME job \in JobRecord, NEW x \in SUBSET Cluster
    PROVE  LET j == Listed(x) IN
           /\ j \in JobRecord
           /\ j.policy = job.policy /\ j.spec = job.spec /\ j.deleting = job.deleting
           /\ j.selected = x /\ j.todo = x
           /\ j.eligible = {c \in x : Eligible(cache[c])}
           /\ j.allReady = job.allReady
  <1>1. {c \in x : Eligible(cache[c])} \in SUBSET Cluster
    OBVIOUS
  <1>2. Listed(x) \in JobRecord
    BY <1>1, Zenon DEF Listed, JobRecord
  <1> QED
    BY <1>2 DEF Listed, JobRecord

\* A job that passed a Cluster over.
LEMMA SkipType ==
    ASSUME job \in JobRecord, NEW c \in Cluster
    PROVE  LET j == Skip(c) IN
           /\ j \in JobRecord
           /\ j.policy = job.policy /\ j.spec = job.spec /\ j.deleting = job.deleting
           /\ j.selected = job.selected /\ j.todo = job.todo \ {c}
           /\ j.eligible = job.eligible /\ ~j.allReady
  <1>1. job.todo \ {c} \in SUBSET Cluster
    BY JobFields
  <1>2. Skip(c) \in JobRecord
    BY <1>1, Zenon DEF Skip, JobRecord
  <1> QED
    BY <1>2 DEF Skip, JobRecord

\* A job that connected to a Cluster.
LEMMA ConnectedType ==
    ASSUME job \in JobRecord, NEW c \in Cluster, clusters[c].uid \in 0..MaxUid
    PROVE  LET j == Connected(c) IN
           /\ j \in JobRecord
           /\ j.policy = job.policy /\ j.spec = job.spec /\ j.deleting = job.deleting
           /\ j.selected = job.selected /\ j.todo = job.todo \ {c}
           /\ j.eligible = job.eligible /\ j.allReady = job.allReady
           /\ j.cluster = c /\ j.uid = clusters[c].uid
  <1>1. job.todo \ {c} \in SUBSET Cluster /\ c \in Cluster \cup {None}
    BY JobFields
  <1>2. Connected(c) \in JobRecord
    BY <1>1, Zenon DEF Connected, JobRecord
  <1> QED
    BY <1>2 DEF Connected, JobRecord

\* What a job notes of the policy in its hand changes nothing else.
LEMMA NotedType ==
    ASSUME job \in JobRecord, NEW b \in BOOLEAN,
           NEW j, j \in {[job EXCEPT !.found = b], [job EXCEPT !.moved = b]}
    PROVE  /\ j \in JobRecord
           /\ j.policy = job.policy /\ j.spec = job.spec /\ j.deleting = job.deleting
           /\ j.selected = job.selected /\ j.todo = job.todo
           /\ j.eligible = job.eligible /\ j.allReady = job.allReady
           /\ j.cluster = job.cluster /\ j.uid = job.uid
  <1>1. CASE j = [job EXCEPT !.found = b]
    <2>1. j \in JobRecord
      BY <1>1, Zenon DEF JobRecord
    <2> QED
      BY <1>1, <2>1 DEF JobRecord
  <1>2. CASE j = [job EXCEPT !.moved = b]
    <2>1. j \in JobRecord
      BY <1>2, Zenon DEF JobRecord
    <2> QED
      BY <1>2, <2>1 DEF JobRecord
  <1> QED
    BY <1>1, <1>2

\* A job that is through with a Cluster.
LEMMA NextClusterType ==
    ASSUME job \in JobRecord, NEW o \in SUBSET (Cluster \X BOOLEAN)
    PROVE  LET j == NextCluster(o) IN
           /\ j \in JobRecord
           /\ j.policy = job.policy /\ j.spec = job.spec /\ j.deleting = job.deleting
           /\ j.selected = job.selected /\ j.todo = job.todo
           /\ j.eligible = job.eligible /\ j.allReady = job.allReady
  <1>1. job.deployed \cup o \in SUBSET (Cluster \X BOOLEAN) /\ 0 \in 0..MaxUid
        /\ None \in Cluster \cup {None}
    BY JobFields, FleetAssumption
  <1>2. NextCluster(o) \in JobRecord
    BY <1>1, Zenon DEF NextCluster, JobRecord
  <1> QED
    BY <1>2 DEF NextCluster, JobRecord

\* The same after a failure.
LEMMA NextClusterFailedType ==
    ASSUME job \in JobRecord, NEW o \in SUBSET (Cluster \X BOOLEAN)
    PROVE  LET j == [NextCluster(o) EXCEPT !.allReady = FALSE] IN
           /\ j \in JobRecord
           /\ j.policy = job.policy /\ j.spec = job.spec /\ j.deleting = job.deleting
           /\ j.selected = job.selected /\ j.todo = job.todo
           /\ j.eligible = job.eligible /\ ~j.allReady
  <1>1. /\ NextCluster(o) \in JobRecord
        /\ NextCluster(o).policy = job.policy /\ NextCluster(o).spec = job.spec
        /\ NextCluster(o).deleting = job.deleting
        /\ NextCluster(o).selected = job.selected /\ NextCluster(o).todo = job.todo
        /\ NextCluster(o).eligible = job.eligible
    BY NextClusterType
  <1>2. [NextCluster(o) EXCEPT !.allReady = FALSE] \in JobRecord
    BY <1>1, Zenon DEF JobRecord
  <1> QED
    BY <1>1, <1>2 DEF JobRecord

\* What a pass reports is a status.
LEMMA OutcomeType ==
    ASSUME job \in JobRecord, NEW old \in Status
    PROVE  Outcome(old) \in Status
  <1>1. [old EXCEPT !.ready = FALSE, !.deployed = {}] \in Status
    BY DEF Status
  <1> QED
    BY <1>1, JobFields DEF Outcome, Status

\* However Reconcile returns, what it leaves behind is well typed.
LEMMA ReturnType ==
    ASSUME TypeOK, NEW keys \in SUBSET Policy, Return(keys)
    PROVE  queue' \subseteq Policy /\ pc' = "idle" /\ job' \in JobRecord
  BY NoJobType DEF Return, TypeOK

\* A fault stays within its bound.
LEMMA FaultType == faults \in 0..MaxFaults /\ Fault => faults' \in 0..MaxFaults
  BY PolicyAssumption DEF Fault

\* Initially everything is well typed and was admitted.
LEMMA InitType == Init => TypeOK /\ Stored
  <1> SUFFICES ASSUME Init PROVE TypeOK /\ Stored
    OBVIOUS
  <1>1. FleetTypeOK
    BY FleetInitType DEF Init
  <1>2. policies \in [Policy -> PolicyRecord]
    <2>1. NoPolicy \in PolicyRecord
      BY DEF PolicyRecord, NoPolicy, NoStatus, Status
    <2>2. ASSUME NEW t \in StoredSpec PROVE NewPolicy(t) \in PolicyRecord
      BY DEF PolicyRecord, NewPolicy, NoStatus, Status
    <2> QED
      BY <2>1, <2>2 DEF Init
  <1>3. TypeOK
    <2>1. served \in [Cluster -> [Object -> Version \cup {Absent}]]
      BY DEF Init, NothingServed
    <2>2. workload \in [Cluster -> [Object -> Version \cup {Absent}]]
      BY DEF Init, FleetInit, Bare
    <2>3. newest \in [Policy -> SUBSET {"cache", "job"}]
      BY DEF Init
    <2> QED
      BY <1>1, <1>2, <2>1, <2>2, <2>3, NoJobType, PolicyAssumption DEF Init, TypeOK, RemoteCalls
  <1>4. ASSUME NEW p \in Policy, Exists(p) PROVE policies[p].spec \in Admitted(p)
    <2>1. PICK t \in StoredSpec : policies[p] = NewPolicy(t)
      BY <1>4 DEF Init, Exists, NoPolicy
    <2>2. policies[p].spec = t
      BY <2>1 DEF NewPolicy
    <2>3. t.module # Empty /\ NoSpec.module = Empty
      BY DEF StoredSpec, Admitted, ValidateKubewardenPolicy, NoSpec
    <2> QED
      BY <2>2, <2>3 DEF Init
  <1> QED
    BY <1>3, <1>4 DEF Init, Stored, Exists, Known

\* Taking up a policy keeps the state well typed: what the cache knows was
\* admitted.
LEMMA ReconcileType ==
    ASSUME TypeOK, Stored, NEW p \in Policy, Reconcile(p) PROVE TypeOK'
  <1> USE DEF fleetVars, policyVars, FleetTypeOK
  <1>1. CASE ReconcileNotFound(p)
    BY <1>1 DEF ReconcileNotFound, Take, TypeOK
  <1>2. CASE ReconcileFound(p)
    <2>1. policyCache[p].spec \in StoredSpec
      BY <1>2, AdmittedStored DEF ReconcileFound, Stored
    <2>2. job' \in JobRecord /\ job'.policy = p /\ job'.spec = policyCache[p].spec
      BY <1>2, <2>1, StartedType DEF ReconcileFound
    <2>3. newest' \in [Policy -> SUBSET {"cache", "job"}]
      BY <1>2 DEF ReconcileFound, TypeOK
    <2> QED
      BY <1>2, <2>1, <2>2, <2>3 DEF ReconcileFound, Take, TypeOK, RemoteCalls
  <1> QED
    BY <1>1, <1>2 DEF Reconcile

\* Turning to a Cluster keeps the state well typed.
LEMMA VisitType ==
    ASSUME TypeOK, NEW c \in Cluster, VisitCluster(c) PROVE TypeOK'
  <1> USE DEF fleetVars, policyVars, FleetTypeOK, Goto
  <1>0. job \in JobRecord /\ faults \in 0..MaxFaults
    BY DEF TypeOK
  <1>1. CASE VisitIneligible(c)
    BY <1>0, <1>1, SkipType DEF VisitIneligible, Visit, TypeOK, RemoteCalls
  <1>2. CASE Connect(c)
    <2>1. clusters[c].uid \in 0..MaxUid
      BY DEF TypeOK, ClusterRecord
    <2>2. job' \in JobRecord /\ job'.policy = job.policy /\ job'.spec = job.spec
          /\ job'.cluster = c
      BY <1>0, <1>2, <2>1, ConnectedType DEF Connect
    <2>3. pc' \in {"delete", "get"}
      BY <1>2 DEF Connect
    <2> QED
      BY <1>2, <2>2, <2>3 DEF Connect, Visit, TypeOK, RemoteCalls
  <1>3. CASE ConnectFails(c)
    <2>1. faults' \in 0..MaxFaults
      BY <1>0, <1>3, FaultType DEF ConnectFails
    <2>2. job' \in JobRecord /\ job'.policy = job.policy /\ job'.spec = job.spec
      BY <1>0, <1>3, SkipType DEF ConnectFails
    <2> QED
      BY <1>3, <2>1, <2>2 DEF ConnectFails, Visit, TypeOK, RemoteCalls
  <1> QED
    BY <1>1, <1>2, <1>3 DEF VisitCluster

\* The objects a pass reads and writes are known ones.
LEMMA KeyType ==
    ASSUME TypeOK, pc \in RemoteCalls
    PROVE  /\ job.cluster \in Cluster /\ job.spec \in StoredSpec
           /\ Key \in Object /\ BuildPolicySpec(job.spec) \in Version
  BY PolicyAssumption DEF TypeOK, RemoteCalls, Key

\* Writing the policy keeps the workloads well typed and puts it there.
LEMMA WriteEffect ==
    ASSUME TypeOK, pc \in RemoteCalls, WritePolicy
    PROVE  /\ workload' \in [Cluster -> [Object -> Version \cup {Absent}]]
           /\ \A c \in Cluster, k \in Object :
                 workload'[c][k] = IF c = job.cluster /\ k = Key
                                   THEN BuildPolicySpec(job.spec) ELSE workload[c][k]
  BY KeyType DEF WritePolicy, TypeOK, FleetTypeOK

\* Removing a policy keeps them well typed and leaves all others.
LEMMA RemoveEffect ==
    ASSUME TypeOK, NEW c \in Cluster, NEW k \in Object, Remove(c, k)
    PROVE  /\ workload' \in [Cluster -> [Object -> Version \cup {Absent}]]
           /\ served' \in [Cluster -> [Object -> Version \cup {Absent}]]
           /\ \A d \in Cluster, o \in Object :
                 workload'[d][o] = IF d = c /\ o = k THEN Absent ELSE workload[d][o]
  BY DEF Remove, TypeOK, FleetTypeOK

\* What a pass notes of one Cluster.
LEMMA OneOutcome ==
    ASSUME NEW x \in Cluster, NEW b \in BOOLEAN
    PROVE  {<<x, b>>} \in SUBSET (Cluster \X BOOLEAN)
  <1>1. <<x, b>> \in Cluster \X BOOLEAN
    OBVIOUS
  <1> QED
    BY <1>1

\* The steps of a pass keep the state well typed.
LEMMA ProceedType == TypeOK /\ Proceed => TypeOK'
  <1> SUFFICES ASSUME TypeOK, Proceed PROVE TypeOK'
    OBVIOUS
  <1> USE DEF fleetVars, policyVars, FleetTypeOK, Goto
  <1>0. job \in JobRecord /\ faults \in 0..MaxFaults
    BY DEF TypeOK
  <1>1. ASSUME Requeue \/ Done, pc # "idle",
               UNCHANGED <<fleetVars, policyVars, served>>, faults' \in 0..MaxFaults
        PROVE  TypeOK'
    <2>1. job.policy \in Policy
      BY <1>1 DEF TypeOK
    <2> QED
      BY <1>1, <2>1, ReturnType DEF Requeue, Done, TypeOK, RemoteCalls
  <1>2. CASE ListClusters
    <2>1. GetMatchingClusters(job.policy, job.spec.selector) \in SUBSET Cluster
      BY DEF GetMatchingClusters
    <2>2. job' \in JobRecord /\ job'.policy = job.policy /\ job'.spec = job.spec
      BY <1>0, <1>2, <2>1, ListedType DEF ListClusters
    <2>3. pc' \in {"status", "visit"}
      BY <1>2 DEF ListClusters
    <2> QED
      BY <1>2, <2>2, <2>3 DEF ListClusters, TypeOK, RemoteCalls
  <1>3. CASE SelectorInvalid
    BY <1>0, <1>1, <1>3 DEF SelectorInvalid
  <1>4. CASE VisitedAll
    <2>1. CASE job.deleting
      BY <1>0, <1>1, <1>4, <2>1 DEF VisitedAll
    <2>2. CASE ~job.deleting
      BY <1>4, <2>2 DEF VisitedAll, TypeOK, RemoteCalls
    <2> QED
      BY <2>1, <2>2
  <1>5. CASE GetExisting
    <2>1. OnCluster \in BOOLEAN
      BY DEF OnCluster
    <2>2. /\ job' \in JobRecord /\ job'.policy = job.policy /\ job'.spec = job.spec
          /\ job'.cluster = job.cluster
      BY <1>0, <1>5, <2>1, NotedType DEF GetExisting
    <2> QED
      BY <1>5, <2>2 DEF GetExisting, TypeOK, RemoteCalls
  <1>6. CASE CreatePolicy \/ UpdatePolicy
    <2>1. workload' \in [Cluster -> [Object -> Version \cup {Absent}]]
      BY <1>6, WriteEffect DEF CreatePolicy, UpdatePolicy, RemoteCalls
    <2> QED
      BY <1>6, <2>1 DEF CreatePolicy, UpdatePolicy, TypeOK, RemoteCalls
  <1>7. CASE IsPolicyActive
    <2>1. {<<job.cluster, served[job.cluster][Key] # Absent>>} \in SUBSET (Cluster \X BOOLEAN)
      <3>1. job.cluster \in Cluster
        BY <1>7, KeyType DEF IsPolicyActive, RemoteCalls
      <3>2. (served[job.cluster][Key] # Absent) \in BOOLEAN
        OBVIOUS
      <3>3. PICK b \in BOOLEAN : b = (served[job.cluster][Key] # Absent)
        BY <3>2
      <3> QED
        BY <3>1, <3>3, OneOutcome
    <2>2. job' \in JobRecord /\ job'.policy = job.policy /\ job'.spec = job.spec
      BY <1>0, <1>7, <2>1, NextClusterType DEF IsPolicyActive
    <2> QED
      BY <1>7, <2>2 DEF IsPolicyActive, TypeOK, RemoteCalls
  <1>8. CASE DeployFails
    <2>1. {<<job.cluster, FALSE>>} \in SUBSET (Cluster \X BOOLEAN)
      <3>1. job.cluster \in Cluster
        BY <1>8, KeyType DEF DeployFails, RemoteCalls
      <3> QED
        BY <3>1, OneOutcome
    <2>2. job' \in JobRecord /\ job'.policy = job.policy /\ job'.spec = job.spec
      BY <1>0, <1>8, <2>1, NextClusterFailedType DEF DeployFails
    <2>3. faults' \in 0..MaxFaults
      BY <1>0, <1>8, FaultType DEF DeployFails
    <2> QED
      BY <1>8, <2>2, <2>3 DEF DeployFails, TypeOK, RemoteCalls
  <1>9. CASE UpdateStatus
    <2>1. job.policy \in Policy /\ policies[job.policy] \in PolicyRecord
      BY <1>9 DEF UpdateStatus, TypeOK
    <2>2. policies[job.policy].status \in Status
      BY <2>1 DEF PolicyRecord
    <2>3. Outcome(policies[job.policy].status) \in Status
      BY <1>0, <2>2, OutcomeType
    <2>4. [policies[job.policy] EXCEPT !.status = Outcome(policies[job.policy].status)]
             \in PolicyRecord
      BY <2>1, <2>3, Zenon DEF PolicyRecord
    <2>5. policies' \in [Policy -> PolicyRecord]
      BY <1>9, <2>1, <2>4 DEF UpdateStatus, TypeOK
    <2>6. newest' \in [Policy -> SUBSET {"cache", "job"}]
      BY <1>9 DEF UpdateStatus, TypeOK
    <2> QED
      BY <1>9, <2>1, <2>5, <2>6, ReturnType DEF UpdateStatus, Requeue, TypeOK, RemoteCalls
  <1>10. CASE UpdateStatusFails
    <2>1. faults' \in 0..MaxFaults
      BY <1>0, <1>10, FaultType DEF UpdateStatusFails
    <2> QED
      BY <1>1, <1>10, <2>1 DEF UpdateStatusFails
  <1>11. CASE DeletePolicy \/ DeletePolicyFails
    <2>1. job' = NextCluster({}) /\ pc = "delete" /\ pc' = "visit"
      BY <1>11 DEF DeletePolicy, DeletePolicyFails
    <2>2. job' \in JobRecord /\ job'.policy = job.policy /\ job'.spec = job.spec
      BY <1>0, <2>1, NextClusterType
    <2>3. CASE DeletePolicy
      <3>1. job.cluster \in Cluster /\ Key \in Object
        BY <2>1, KeyType DEF RemoteCalls
      <3>2. /\ workload' \in [Cluster -> [Object -> Version \cup {Absent}]]
            /\ served' \in [Cluster -> [Object -> Version \cup {Absent}]]
        BY <2>3, <3>1, RemoveEffect DEF DeletePolicy
      <3> QED
        BY <2>1, <2>2, <2>3, <3>2 DEF DeletePolicy, TypeOK, RemoteCalls
    <2>4. CASE DeletePolicyFails
      <3>1. faults' \in 0..MaxFaults
        BY <1>0, <2>4, FaultType DEF DeletePolicyFails
      <3> QED
        BY <2>1, <2>2, <2>4, <3>1 DEF DeletePolicyFails, TypeOK, RemoteCalls
    <2> QED
      BY <1>11, <2>3, <2>4
  <1> QED
    BY <1>2, <1>3, <1>4, <1>5, <1>6, <1>7, <1>8, <1>9, <1>10, <1>11 DEF Proceed

\* What users make of a policy is a policy, with an admitted spec if it exists.
LEMMA UserEffect ==
    ASSUME TypeOK, Stored, NEW p \in Policy,
           SubmitPolicy(p) \/ EditPolicy(p) \/ WithdrawPolicy(p)
    PROVE  \E r \in PolicyRecord :
              /\ SetPolicy(p, r)
              /\ r.phase # "absent" => r.spec \in Admitted(p)
              /\ r.phase # "absent" /\ Exists(p) => r.status = policies[p].status
              /\ r.status.ready => policies[p].status.ready
  <1>0. policies[p] \in PolicyRecord
    BY DEF TypeOK
  <1>1. CASE SubmitPolicy(p)
    <2>1. PICK s \in Admitted(p) : SetPolicy(p, NewPolicy(s)) /\ ~Exists(p)
      BY <1>1 DEF SubmitPolicy
    <2>2. NewPolicy(s) \in PolicyRecord /\ NewPolicy(s).spec = s /\ ~NewPolicy(s).status.ready
      BY AdmittedStored DEF PolicyRecord, NewPolicy, NoStatus, Status
    <2> QED
      BY <2>1, <2>2
  <1>2. CASE EditPolicy(p)
    <2>1. PICK s \in Admitted(p) : SetPolicy(p, [policies[p] EXCEPT !.spec = s])
      BY <1>2 DEF EditPolicy
    <2>2. s \in StoredSpec \cup {NoSpec}
      BY AdmittedStored
    <2>3. [policies[p] EXCEPT !.spec = s] \in PolicyRecord
      BY <1>0, <2>2, Zenon DEF PolicyRecord
    <2>4. /\ [policies[p] EXCEPT !.spec = s].spec = s
          /\ [policies[p] EXCEPT !.spec = s].status = policies[p].status
      BY <1>0 DEF PolicyRecord
    <2> QED
      BY <2>1, <2>3, <2>4
  <1>3. CASE WithdrawPolicy(p)
    <2>1. CASE policies[p].phase = "live" /\ SetPolicy(p, [policies[p] EXCEPT !.phase = "deleting"])
      <3>1. "deleting" \in {"absent", "live", "deleting"}
        OBVIOUS
      <3>2. [policies[p] EXCEPT !.phase = "deleting"] \in PolicyRecord
        BY <1>0, <3>1, Zenon DEF PolicyRecord
      <3>3. /\ [policies[p] EXCEPT !.phase = "deleting"].spec = policies[p].spec
            /\ [policies[p] EXCEPT !.phase = "deleting"].status = policies[p].status
        BY <1>0 DEF PolicyRecord
      <3>4. policies[p].spec \in Admitted(p)
        BY <2>1 DEF Stored, Exists
      <3> QED
        BY <2>1, <3>2, <3>3, <3>4
    <2>2. CASE SetPolicy(p, NoPolicy)
      <3>1. NoPolicy \in PolicyRecord /\ NoPolicy.phase = "absent" /\ ~NoPolicy.status.ready
        BY DEF PolicyRecord, NoPolicy, NoStatus, Status
      <3> QED
        BY <2>2, <3>1
    <2> QED
      BY <1>3, <2>1, <2>2 DEF WithdrawPolicy
  <1> QED
    BY <1>1, <1>2, <1>3

\* A write that the running pass does not know of leaves its job, but for the
\* note that it happened.
LEMMA TouchType ==
    ASSUME TypeOK, NEW c, NEW k, Touch(c, k)
    PROVE  /\ job' \in JobRecord
           /\ job'.policy = job.policy /\ job'.spec = job.spec
           /\ job'.deleting = job.deleting
           /\ job'.selected = job.selected /\ job'.todo = job.todo
           /\ job'.eligible = job.eligible /\ job'.allReady = job.allReady
           /\ job'.cluster = job.cluster /\ job'.uid = job.uid
  <1>1. job \in JobRecord
    BY DEF TypeOK
  <1>2. CASE job' = job
    BY <1>1, <1>2
  <1>3. CASE job' = [job EXCEPT !.moved = TRUE]
    BY <1>1, <1>3, NotedType
  <1> QED
    BY <1>2, <1>3 DEF Touch

\* What others do keeps the state well typed.
LEMMA EnvironmentType == TypeOK /\ Stored /\ Environment => TypeOK'
  <1> SUFFICES ASSUME TypeOK, Stored, Environment PROVE TypeOK'
    OBVIOUS
  <1> USE DEF fleetVars, policyVars
  <1>1. ASSUME NEW p \in Policy, SubmitPolicy(p) \/ EditPolicy(p) \/ WithdrawPolicy(p)
        PROVE  TypeOK'
    <2>1. PICK r \in PolicyRecord : SetPolicy(p, r)
      BY <1>1, UserEffect
    <2>2. edits' \in 0..MaxEdits
      BY <2>1, EditType DEF SetPolicy, TypeOK, FleetTypeOK
    <2> QED
      BY <2>1, <2>2 DEF SetPolicy, TypeOK, FleetTypeOK
  <1>2. ASSUME NEW c \in Cluster, MarkInstalled(c) PROVE TypeOK'
    <2>1. [clusters[c] EXCEPT !.installed = TRUE] \in ClusterRecord
      BY MarkRecord DEF TypeOK, FleetTypeOK
    <2> QED
      BY <1>2, <2>1 DEF MarkInstalled, TypeOK, FleetTypeOK
  <1>3. ASSUME NEW c \in Cluster, FleetChanges(c) PROVE TypeOK'
    <2>1. FleetStep(c)
      BY <1>3 DEF FleetChanges, FleetStep
    <2>2. FleetTypeOK'
      BY <2>1, FleetStepEffect DEF TypeOK
    <2>3. served' \in [Cluster -> [Object -> Version \cup {Absent}]]
      BY <1>3 DEF FleetChanges, NothingServed, TypeOK
    <2>4. workload' \in [Cluster -> [Object -> Version \cup {Absent}]]
      <3>1. workload' = workload \/ workload' = [workload EXCEPT ![c] = Bare]
        BY <2>1 DEF FleetStep, CreateCluster, DeleteCluster, Relabel, ControlPlaneChanges
      <3> QED
        BY <3>1 DEF Bare, TypeOK
    <2> QED
      BY <1>3, <2>2, <2>3, <2>4 DEF FleetChanges, TypeOK
  <1>4. ASSUME NEW c \in Cluster, NEW k \in Object, Serve(c, k) PROVE TypeOK'
    <2>1. job' \in JobRecord /\ job'.policy = job.policy /\ job'.spec = job.spec
          /\ job'.cluster = job.cluster
      BY <1>4, TouchType DEF Serve
    <2>2. workload[c][k] \in Version
      BY <1>4 DEF Serve, TypeOK, FleetTypeOK
    <2> QED
      BY <1>4, <2>1, <2>2 DEF Serve, TypeOK, FleetTypeOK
  <1>5. ASSUME NEW c \in Cluster, NEW k \in Object, Drift(c, k) PROVE TypeOK'
    <2>1. job' \in JobRecord /\ job'.policy = job.policy /\ job'.spec = job.spec
          /\ job'.cluster = job.cluster
      BY <1>5, TouchType DEF Drift
    <2>2. edits' \in 0..MaxEdits
      BY <1>5, EditType DEF Drift, TypeOK, FleetTypeOK
    <2>3. /\ workload' \in [Cluster -> [Object -> Version \cup {Absent}]]
          /\ served' \in [Cluster -> [Object -> Version \cup {Absent}]]
      <3>1. CASE Remove(c, k)
        BY <3>1, RemoveEffect
      <3>2. CASE /\ \E v \in Version \ {workload[c][k]} :
                       workload' = [workload EXCEPT ![c] = [workload[c] EXCEPT ![k] = v]]
                 /\ UNCHANGED served
        BY <3>2 DEF TypeOK, FleetTypeOK
      <3> QED
        BY <1>5, <3>1, <3>2 DEF Drift
    <2> QED
      BY <1>5, <2>1, <2>2, <2>3 DEF Drift, TypeOK, FleetTypeOK
  <1> QED
    BY <1>1, <1>2, <1>3, <1>4, <1>5 DEF Environment

\* Every step keeps the state well typed.
LEMMA TypeStep == TypeOK /\ Stored /\ [Next]_vars => TypeOK'
  <1> SUFFICES ASSUME TypeOK, Stored, [Next]_vars PROVE TypeOK'
    OBVIOUS
  <1> USE DEF fleetVars, policyVars
  <1>1. CASE \E p \in Policy : Reconcile(p)
    BY <1>1, ReconcileType
  <1>2. CASE \E c \in Cluster : VisitCluster(c)
    BY <1>2, VisitType
  <1>3. CASE Proceed
    BY <1>3, ProceedType
  <1>4. CASE Restart
    <2>1. faults' \in 0..MaxFaults
      BY <1>4, FaultType DEF Restart, TypeOK
    <2>2. job' \in JobRecord /\ pc' = "idle" /\ queue' \subseteq Policy
      BY <1>4, NoJobType DEF Restart
    <2>3. newest' \in [Policy -> SUBSET {"cache", "job"}]
      BY <1>4 DEF Restart
    <2> QED
      BY <1>4, <2>1, <2>2, <2>3 DEF Restart, TypeOK, FleetTypeOK, RemoteCalls
  <1>5. CASE Event
    <2>1. ASSUME NEW c \in Cluster, ClusterEvent(c) PROVE TypeOK'
      <3>1. queue' \subseteq Policy
        BY <2>1 DEF ClusterEvent, ClusterToKubewardenPolicy, TypeOK
      <3> QED
        BY <2>1, <3>1 DEF ClusterEvent, TypeOK, FleetTypeOK
    <2>2. ASSUME NEW p \in Policy, PolicyEvent(p) PROVE TypeOK'
      BY <2>2 DEF PolicyEvent, TypeOK, FleetTypeOK
    <2> QED
      BY <1>5, <2>1, <2>2 DEF Event
  <1>6. CASE Resync
    BY <1>6 DEF Resync, TypeOK, FleetTypeOK
  <1>7. CASE Environment
    BY <1>7, EnvironmentType
  <1>8. CASE UNCHANGED vars
    BY <1>8 DEF vars, TypeOK, FleetTypeOK, OnCluster
  <1> QED
    BY <1>1, <1>2, <1>3, <1>4, <1>5, <1>6, <1>7, <1>8 DEF Next

\* A call that ends the work on a Cluster, whatever its outcome, keeps what the
\* pass knows but for the outcome.
LEMMA FinishedType ==
    ASSUME TypeOK, IsPolicyActive \/ DeployFails \/ DeletePolicy \/ DeletePolicyFails
    PROVE  /\ pc \in RemoteCalls /\ pc' = "visit"
           /\ UNCHANGED <<clusters, cache, tolerant, edits, policyVars, queue>>
           /\ job'.policy = job.policy /\ job'.spec = job.spec
           /\ job'.deleting = job.deleting
           /\ job'.selected = job.selected /\ job'.todo = job.todo
           /\ job'.eligible = job.eligible
           /\ job'.allReady => job.allReady /\ ~DeployFails
  <1> USE DEF fleetVars, policyVars, Goto, RemoteCalls
  <1>0. job \in JobRecord
    BY DEF TypeOK
  <1>1. CASE IsPolicyActive /\ ~DeployFails
    <2>1. job.cluster \in Cluster
      BY <1>1, KeyType DEF IsPolicyActive
    <2>2. (served[job.cluster][Key] # Absent) \in BOOLEAN
      OBVIOUS
    <2>3. PICK b \in BOOLEAN : b = (served[job.cluster][Key] # Absent)
      BY <2>2
    <2>4. {<<job.cluster, b>>} \in SUBSET (Cluster \X BOOLEAN)
      BY <2>1, OneOutcome
    <2>5. job' = NextCluster({<<job.cluster, b>>})
      BY <1>1, <2>3 DEF IsPolicyActive
    <2> QED
      BY <1>0, <1>1, <2>4, <2>5, NextClusterType DEF IsPolicyActive
  <1>2. CASE DeployFails
    <2>1. job.cluster \in Cluster
      BY <1>2, KeyType DEF DeployFails
    <2>2. {<<job.cluster, FALSE>>} \in SUBSET (Cluster \X BOOLEAN)
      BY <2>1, OneOutcome
    <2> QED
      BY <1>0, <1>2, <2>2, NextClusterFailedType DEF DeployFails
  <1>3. CASE DeletePolicy \/ DeletePolicyFails
    <2>1. job' = NextCluster({}) /\ pc = "delete" /\ ~DeployFails
      BY <1>3 DEF DeletePolicy, DeletePolicyFails, DeployFails
    <2> QED
      BY <1>0, <1>3, <2>1, NextClusterType DEF DeletePolicy, DeletePolicyFails
  <1> QED
    BY <1>1, <1>2, <1>3

\* What others do to what a pass knows: nothing, but for the note that the
\* policy in its hand was written.
LEMMA EnvironmentKeeps ==
    ASSUME TypeOK, Environment
    PROVE  /\ UNCHANGED <<cache, policyCache, queue, pc, faults>>
           /\ job'.policy = job.policy /\ job'.spec = job.spec
           /\ job'.deleting = job.deleting
           /\ job'.selected = job.selected /\ job'.todo = job.todo
           /\ job'.eligible = job.eligible /\ job'.allReady = job.allReady
           /\ job'.cluster = job.cluster /\ job'.uid = job.uid
  <1> USE DEF fleetVars, policyVars
  <1>1. ASSUME NEW p \in Policy, SubmitPolicy(p) \/ EditPolicy(p) \/ WithdrawPolicy(p)
        PROVE  UNCHANGED <<cache, policyCache, queue, pc, job, faults>>
    BY <1>1 DEF SubmitPolicy, EditPolicy, WithdrawPolicy, SetPolicy
  <1>2. ASSUME NEW c \in Cluster, MarkInstalled(c) \/ FleetChanges(c)
        PROVE  UNCHANGED <<cache, policyCache, queue, pc, job, faults>>
    BY <1>2 DEF MarkInstalled, FleetChanges, DeleteCluster, CreateCluster, Relabel,
                ControlPlaneChanges
  <1>3. ASSUME NEW c \in Cluster, NEW k \in Object, Serve(c, k) \/ Drift(c, k)
        PROVE  UNCHANGED <<cache, policyCache, queue, pc, faults>> /\ Touch(c, k)
    BY <1>3 DEF Serve, Drift
  <1> QED
    BY <1>1, <1>2, <1>3, TouchType DEF Environment

\* What a step does to the policies and their copies: nothing, a pass takes one
\* up, a pass writes a status, the cache catches up, or a user changes one.
TakesUp(p) ==
    /\ pc = "idle" /\ Known(p)
    /\ pc' = "list" /\ job' = Started(p)
    /\ newest' = [newest EXCEPT ![p] =
          IF "cache" \in newest[p] THEN {"cache", "job"} ELSE {}]
    /\ UNCHANGED <<policies, policyCache>>

\* The pass writes its status and is over.
Reports ==
    /\ UpdateStatus
    /\ pc' = "idle" /\ UNCHANGED policyCache

\* The cache gets the present policy p.
CatchesUp(p) ==
    /\ policyCache' = [policyCache EXCEPT ![p] = policies[p]]
    /\ newest' = [newest EXCEPT ![p] = newest[p] \cup {"cache"}]
    /\ UNCHANGED <<policies, pc, job>>

\* A user creates, edits or deletes policy p; only creation resets its status.
UserSteps(p) ==
    \E r \in PolicyRecord :
       /\ policies' = [policies EXCEPT ![p] = r]
       /\ newest' = [newest EXCEPT ![p] = {}]
       /\ r.phase # "absent" => r.spec \in Admitted(p)
       /\ r.phase # "absent" /\ Exists(p) => r.status = policies[p].status
       /\ r.status.ready => policies[p].status.ready
       /\ UNCHANGED <<policyCache, pc, job>>

\* The pass, if it goes on, keeps what it read.
GoesOn ==
    /\ UNCHANGED policyVars
    /\ \/ pc' = "idle"
       \/ /\ pc # "idle" /\ pc' # "idle"
          /\ job'.policy = job.policy /\ job'.spec = job.spec
          /\ job'.deleting = job.deleting
          /\ pc' = "status" => pc = "status" \/ ~job.deleting

\* Every step is one of these to the copies of the policies.
LEMMA PolicySteps ==
    ASSUME TypeOK, Stored, [Next]_vars
    PROVE  \/ GoesOn \/ Reports \/ Restart
           \/ \E p \in Policy : TakesUp(p) \/ CatchesUp(p) \/ UserSteps(p)
  <1> USE DEF fleetVars, policyVars
  <1>0. job \in JobRecord
    BY DEF TypeOK
  <1>1. ASSUME NEW p \in Policy, Reconcile(p) PROVE GoesOn \/ TakesUp(p)
    <2>1. CASE ReconcileNotFound(p)
      BY <2>1 DEF ReconcileNotFound, Take, GoesOn
    <2>2. CASE ReconcileFound(p)
      BY <2>2 DEF ReconcileFound, Take, TakesUp
    <2> QED
      BY <1>1, <2>1, <2>2 DEF Reconcile
  <1>2. ASSUME NEW c \in Cluster, VisitCluster(c) PROVE GoesOn
    <2>1. clusters[c].uid \in 0..MaxUid
      BY DEF TypeOK, FleetTypeOK, ClusterRecord
    <2>2. UNCHANGED policyVars /\ pc = "visit" /\ pc' \in {"visit", "delete", "get"}
      BY <1>2 DEF VisitCluster, VisitIneligible, Connect, ConnectFails, Visit, Goto
    <2>3. job' = Skip(c) \/ job' = Connected(c)
      BY <1>2 DEF VisitCluster, VisitIneligible, Connect, ConnectFails
    <2>4. job'.policy = job.policy /\ job'.spec = job.spec /\ job'.deleting = job.deleting
      BY <1>0, <2>1, <2>3, SkipType, ConnectedType
    <2> QED
      BY <2>2, <2>4 DEF GoesOn
  <1>3. CASE Proceed
    <2>1. CASE ListClusters
      <3>1. GetMatchingClusters(job.policy, job.spec.selector) \in SUBSET Cluster
        BY DEF GetMatchingClusters
      <3>2. job'.policy = job.policy /\ job'.spec = job.spec /\ job'.deleting = job.deleting
        BY <1>0, <2>1, <3>1, ListedType DEF ListClusters
      <3> QED
        BY <2>1, <3>2 DEF ListClusters, GoesOn, Goto
    <2>2. CASE SelectorInvalid \/ UpdateStatusFails
      BY <2>2 DEF SelectorInvalid, UpdateStatusFails, Requeue, Return, GoesOn
    <2>3. CASE VisitedAll
      BY <2>3 DEF VisitedAll, Done, Return, GoesOn, Goto
    <2>4. CASE GetExisting
      <3>1. OnCluster \in BOOLEAN
        BY DEF OnCluster
      <3>2. job'.policy = job.policy /\ job'.spec = job.spec /\ job'.deleting = job.deleting
        BY <1>0, <2>4, <3>1, NotedType DEF GetExisting
      <3> QED
        BY <2>4, <3>2 DEF GetExisting, GoesOn, Goto
    <2>5. CASE CreatePolicy \/ UpdatePolicy
      BY <2>5 DEF CreatePolicy, UpdatePolicy, GoesOn, Goto
    <2>6. CASE IsPolicyActive \/ DeployFails \/ DeletePolicy \/ DeletePolicyFails
      BY <2>6, FinishedType DEF GoesOn, RemoteCalls
    <2>7. CASE UpdateStatus
      BY <2>7 DEF UpdateStatus, Reports, Requeue, Return
    <2> QED
      BY <1>3, <2>1, <2>2, <2>3, <2>4, <2>5, <2>6, <2>7 DEF Proceed
  <1>4. CASE Event \/ Resync
    BY <1>4 DEF Event, ClusterEvent, PolicyEvent, Resync, CatchesUp, GoesOn
  <1>5. CASE Environment
    <2>1. ASSUME NEW p \in Policy, SubmitPolicy(p) \/ EditPolicy(p) \/ WithdrawPolicy(p)
          PROVE  UserSteps(p)
      <3>1. PICK r \in PolicyRecord :
              /\ SetPolicy(p, r)
              /\ r.phase # "absent" => r.spec \in Admitted(p)
              /\ r.phase # "absent" /\ Exists(p) => r.status = policies[p].status
              /\ r.status.ready => policies[p].status.ready
        BY <2>1, UserEffect
      <3> QED
        BY <3>1 DEF SetPolicy, UserSteps
    <2>2. ASSUME NEW c \in Cluster, MarkInstalled(c) \/ FleetChanges(c) PROVE GoesOn
      BY <2>2 DEF MarkInstalled, FleetChanges, GoesOn
    <2>3. ASSUME NEW c \in Cluster, NEW k \in Object, Serve(c, k) \/ Drift(c, k)
          PROVE  GoesOn
      BY <1>5, <2>3, EnvironmentKeeps DEF Serve, Drift, GoesOn
    <2> QED
      BY <1>5, <2>1, <2>2, <2>3 DEF Environment
  <1>6. CASE UNCHANGED vars
    BY <1>6 DEF vars, GoesOn
  <1> QED
    BY <1>1, <1>2, <1>3, <1>4, <1>5, <1>6 DEF Next

\* Whatever is stored and cached stays admitted.
LEMMA StoredStep == TypeOK /\ Stored /\ [Next]_vars => Stored'
  <1> SUFFICES ASSUME TypeOK, Stored, [Next]_vars PROVE Stored'
    OBVIOUS
  <1> USE DEF policyVars, Stored, Exists, Known
  <1>1. CASE GoesOn
    BY <1>1 DEF GoesOn
  <1>2. CASE Reports
    <2>1. ASSUME NEW p \in Policy
          PROVE  policies'[p].phase = policies[p].phase /\ policies'[p].spec = policies[p].spec
      BY <1>2 DEF Reports, UpdateStatus, TypeOK, PolicyRecord
    <2> QED
      BY <1>2, <2>1 DEF Reports
  <1>3. CASE Restart
    BY <1>3 DEF Restart
  <1>4. ASSUME NEW p \in Policy, TakesUp(p) PROVE Stored'
    BY <1>4 DEF TakesUp
  <1>5. ASSUME NEW p \in Policy, CatchesUp(p) PROVE Stored'
    BY <1>5 DEF CatchesUp, TypeOK
  <1>6. ASSUME NEW p \in Policy, UserSteps(p) PROVE Stored'
    BY <1>6 DEF UserSteps, TypeOK
  <1> QED
    BY <1>1, <1>2, <1>3, <1>4, <1>5, <1>6, PolicySteps

\* The copies counted among the newest stay what they are: every write to the
\* object discounts them all.
LEMMA NewestStep == TypeOK /\ Stored /\ Newest /\ [Next]_vars => Newest'
  <1> SUFFICES ASSUME TypeOK, Stored, Newest, [Next]_vars PROVE Newest'
    OBVIOUS
  <1> USE DEF policyVars, Newest
  <1>1. CASE GoesOn
    BY <1>1 DEF GoesOn, Exists
  <1>2. CASE Reports
    <2>1. job.policy \in Policy
      BY <1>2 DEF Reports, UpdateStatus, TypeOK
    <2>2. ASSUME NEW q \in Policy, "cache" \in newest'[q]
          PROVE  policyCache[q] = policies'[q] 
      <3>1. CASE policies' = policies /\ UNCHANGED newest
        BY <2>2, <3>1
      <3>2. CASE newest' = [newest EXCEPT ![job.policy] = {}]
        BY <1>2, <2>1, <2>2, <3>2 DEF Reports, UpdateStatus, TypeOK
      <3> QED
        BY <1>2, <3>1, <3>2 DEF Reports, UpdateStatus
    <2> QED
      BY <1>2, <2>2 DEF Reports
  <1>3. CASE Restart
    BY <1>3 DEF Restart
  <1>4. ASSUME NEW p \in Policy, TakesUp(p) PROVE Newest'
    <2>1. policyCache[p].spec \in StoredSpec
      BY <1>4, AdmittedStored DEF TakesUp, Stored
    <2>2. /\ job'.policy = p /\ job'.spec = policyCache[p].spec
          /\ job'.deleting <=> policyCache[p].phase = "deleting"
      BY <1>4, <2>1, StartedType DEF TakesUp
    <2>3. /\ "cache" \in newest'[p] => "cache" \in newest[p]
          /\ "job" \in newest'[p] => "cache" \in newest[p]
          /\ \A q \in Policy \ {p} : newest'[q] = newest[q]
      BY <1>4 DEF TakesUp, TypeOK
    <2> QED
      BY <1>4, <2>2, <2>3 DEF TakesUp, Exists, Known
  <1>5. ASSUME NEW p \in Policy, CatchesUp(p) PROVE Newest'
    BY <1>5 DEF CatchesUp, TypeOK, Exists
  <1>6. ASSUME NEW p \in Policy, UserSteps(p) PROVE Newest'
    BY <1>6 DEF UserSteps, TypeOK, Exists
  <1> QED
    BY <1>1, <1>2, <1>3, <1>4, <1>5, <1>6, PolicySteps

\* Initially the cache has listed everything.
LEMMA NewestInit == Init => Newest
  BY DEF Init, Newest

\* Types, admitted specs and newest copies, together.
CopiesInv == TypeOK /\ Stored /\ Newest

\* They hold in every state.
LEMMA CopiesInvHolds == Spec => []CopiesInv
  <1>1. Init => CopiesInv
    BY InitType, NewestInit DEF CopiesInv
  <1>2. CopiesInv /\ [Next]_vars => CopiesInv'
    BY TypeStep, StoredStep, NewestStep DEF CopiesInv
  <1> QED
    BY <1>1, <1>2, PTL DEF Spec

\* Every state of the policy controller is well typed; in particular a running
\* pass works on an admitted spec, and a remote call is to a Cluster.
THEOREM PolicyTypeCorrect == Spec => []TypeOK
  <1>1. CopiesInv => TypeOK
    BY DEF CopiesInv
  <1> QED
    BY <1>1, CopiesInvHolds, PTL

\* Whatever users submit, for any schema-conforming specs, what is stored can
\* be deployed and passes admission unchanged (the webhook's Default fills
\* every field that deployPolicy needs).
THEOREM DeployableHolds == Spec => []Deployable
  <1>1. CopiesInv => Deployable
    BY AdmittedDeployable DEF CopiesInv, Stored, Deployable
  <1> QED
    BY <1>1, CopiesInvHolds, PTL

\* A status is only written over the spec it was computed from: Status().Update
\* needs the resourceVersion that the pass read, and every write to the object
\* replaces it.
THEOREM StatusCurrentHolds == Spec => StatusCurrent
  <1>1. ASSUME CopiesInv, [Next]_vars, NEW p \in Policy,
               Exists(p), Exists(p)', policies'[p].status # policies[p].status
        PROVE  p = job.policy /\ policies[p].spec = job.spec /\ Live(p)
    <2> USE DEF CopiesInv, policyVars
    <2>1. CASE GoesOn
      BY <1>1, <2>1 DEF GoesOn
    <2>2. CASE Reports
      <3>1. job.policy \in Policy /\ "job" \in newest[job.policy] /\ pc = "status"
        BY <1>1, <2>2 DEF Reports, UpdateStatus, TypeOK
      <3>2. p = job.policy
        BY <1>1, <2>2, <3>1 DEF Reports, UpdateStatus, TypeOK
      <3>3. policies[p].phase \in {"absent", "live", "deleting"}
        BY <1>1 DEF TypeOK, PolicyRecord
      <3> QED
        BY <1>1, <3>1, <3>2, <3>3 DEF Newest, Live, Exists
    <2>3. CASE Restart
      BY <1>1, <2>3 DEF Restart
    <2>4. CASE \E q \in Policy : TakesUp(q) \/ CatchesUp(q)
      BY <1>1, <2>4 DEF TakesUp, CatchesUp
    <2>5. ASSUME NEW q \in Policy, UserSteps(q) PROVE FALSE
      BY <1>1, <2>5 DEF UserSteps, TypeOK, Exists
    <2> QED
      BY <1>1, <2>1, <2>2, <2>3, <2>4, <2>5, PolicySteps
  <1>2. CopiesInv /\ [Next]_vars =>
           [\A p \in Policy :
              /\ Exists(p) /\ Exists(p)'
              /\ policies'[p].status # policies[p].status
              => p = job.policy /\ policies[p].spec = job.spec /\ Live(p)]_vars
    BY <1>1
  <1> QED
    BY <1>2, CopiesInvHolds, PTL DEF Spec, StatusCurrent

(***************************************************************************)
(* The running pass.                                                       *)
(***************************************************************************)
\* A step of others: the pass stays where it is and knows what it knew.
PassKept ==
    /\ UNCHANGED pc
    /\ job'.policy = job.policy /\ job'.spec = job.spec /\ job'.deleting = job.deleting
    /\ job'.selected = job.selected /\ job'.todo = job.todo
    /\ job'.eligible = job.eligible /\ job'.allReady = job.allReady
    /\ job'.cluster = job.cluster /\ job'.uid = job.uid

\* The pass is over.
PassOver == pc' = "idle" /\ job' = NoJob

\* It turns to the next call to the same Cluster.
Calls == GetExisting \/ CreatePolicy \/ UpdatePolicy

\* It is done with the Cluster in hand.
Finishes == IsPolicyActive \/ DeployFails \/ DeletePolicy \/ DeletePolicyFails

\* What a step does to the pass.
LEMMA PassSteps ==
    ASSUME TypeOK, [Next]_vars
    PROVE  \/ PassKept \/ PassOver
           \/ \E p \in Policy : ReconcileFound(p)
           \/ ListClusters
           \/ \E c \in Cluster : VisitCluster(c)
           \/ VisitedAll /\ ~job.deleting
           \/ Calls \/ Finishes
  <1> USE DEF fleetVars, policyVars
  <1>1. CASE \E p \in Policy : ReconcileNotFound(p)
    BY <1>1 DEF ReconcileNotFound, PassKept
  <1>2. CASE Proceed
    <2>1. CASE SelectorInvalid \/ UpdateStatus \/ UpdateStatusFails \/ (VisitedAll /\ job.deleting)
      BY <2>1 DEF SelectorInvalid, UpdateStatus, UpdateStatusFails, VisitedAll, Done, Requeue,
                  Return, PassOver
    <2> QED
      BY <1>2, <2>1 DEF Proceed, Calls, Finishes
  <1>3. CASE Restart
    BY <1>3 DEF Restart, PassOver
  <1>4. CASE Event \/ Resync
    BY <1>4 DEF Event, ClusterEvent, PolicyEvent, Resync, PassKept
  <1>5. CASE Environment
    BY <1>5, EnvironmentKeeps DEF PassKept
  <1>6. CASE UNCHANGED vars
    BY <1>6 DEF vars, PassKept
  <1> QED
    BY <1>1, <1>2, <1>3, <1>4, <1>5, <1>6 DEF Next, Reconcile

\* Turning to a Cluster: it is passed over, or connected to.
LEMMA VisitEffect ==
    ASSUME TypeOK, NEW c \in Cluster, VisitCluster(c)
    PROVE  /\ pc = "visit" /\ c \in job.todo
           /\ job'.policy = job.policy /\ job'.spec = job.spec
           /\ job'.deleting = job.deleting
           /\ job'.selected = job.selected /\ job'.todo = job.todo \ {c}
           /\ job'.eligible = job.eligible
           /\ UNCHANGED <<clusters, cache, workload>>
           /\ \/ pc' = "visit" /\ ~job'.allReady
              \/ /\ pc' = IF job.deleting THEN "delete" ELSE "get"
                 /\ c \in job.eligible \/ job.deleting
                 /\ job'.cluster = c /\ job'.uid = clusters[c].uid
                 /\ job'.allReady = job.allReady
  <1> USE DEF fleetVars, Goto, Visit
  <1>1. job \in JobRecord /\ clusters[c].uid \in 0..MaxUid
    BY DEF TypeOK, FleetTypeOK, ClusterRecord
  <1>2. CASE Connect(c)
    BY <1>1, <1>2, ConnectedType DEF Connect
  <1>3. CASE VisitIneligible(c)
    BY <1>1, <1>3, SkipType DEF VisitIneligible
  <1>4. CASE ConnectFails(c)
    BY <1>1, <1>4, SkipType DEF ConnectFails
  <1> QED
    BY <1>2, <1>3, <1>4 DEF VisitCluster

\* The next call to the same Cluster.
LEMMA CallsEffect ==
    ASSUME TypeOK, Calls
    PROVE  /\ pc \in {"get", "write"} /\ pc' \in {"write", "verify"}
           /\ job'.policy = job.policy /\ job'.spec = job.spec
           /\ job'.deleting = job.deleting
           /\ job'.selected = job.selected /\ job'.todo = job.todo
           /\ job'.eligible = job.eligible /\ job'.allReady = job.allReady
           /\ job'.cluster = job.cluster /\ job'.uid = job.uid
           /\ UNCHANGED <<clusters, cache>>
  <1> USE DEF fleetVars, Goto
  <1>1. CASE GetExisting
    <2>1. job \in JobRecord /\ OnCluster \in BOOLEAN
      BY DEF TypeOK, OnCluster
    <2> QED
      BY <1>1, <2>1, NotedType DEF GetExisting
  <1>2. CASE CreatePolicy \/ UpdatePolicy
    BY <1>2 DEF CreatePolicy, UpdatePolicy
  <1> QED
    BY <1>1, <1>2 DEF Calls

\* Listing the Clusters.
LEMMA ListEffect ==
    ASSUME TypeOK, ListClusters
    PROVE  /\ job'.policy = job.policy /\ job'.spec = job.spec
           /\ job'.deleting = job.deleting
           /\ job'.selected = GetMatchingClusters(job.policy, job.spec.selector)
           /\ job'.todo = job'.selected
           /\ job'.eligible = {c \in job'.selected : Eligible(cache[c])}
           /\ pc' \in {"status", "visit"}
           /\ pc' = "status" => job'.selected = {}
           /\ UNCHANGED <<clusters, cache, workload>>
  <1>1. GetMatchingClusters(job.policy, job.spec.selector) \in SUBSET Cluster
    BY DEF GetMatchingClusters
  <1>2. job \in JobRecord
    BY DEF TypeOK
  <1>3. job' = Listed(GetMatchingClusters(job.policy, job.spec.selector))
    BY DEF ListClusters
  <1> QED
    BY <1>1, <1>2, <1>3, ListedType DEF ListClusters, Goto, fleetVars

\* The pass stays in its namespace: the List was InNamespace.
LEMMA HomeStep == TypeOK /\ Stored /\ Home /\ [Next]_vars => Home'
  <1> SUFFICES ASSUME TypeOK, Stored, Home, [Next]_vars PROVE Home'
    OBVIOUS
  <1> USE DEF Home
  <1>1. CASE PassKept
    BY <1>1 DEF PassKept
  <1>2. CASE PassOver
    BY <1>2 DEF PassOver, NoJob, RemoteCalls
  <1>3. ASSUME NEW p \in Policy, ReconcileFound(p) PROVE Home'
    <2>1. policyCache[p].spec \in StoredSpec
      BY <1>3, AdmittedStored DEF ReconcileFound, Stored
    <2>2. job'.todo = {} /\ pc' = "list"
      BY <1>3, <2>1, StartedType DEF ReconcileFound
    <2> QED
      BY <2>2 DEF RemoteCalls
  <1>4. CASE ListClusters
    BY <1>4, ListEffect DEF GetMatchingClusters, RemoteCalls
  <1>5. ASSUME NEW c \in Cluster, VisitCluster(c) PROVE Home'
    BY <1>5, VisitEffect DEF RemoteCalls
  <1>6. CASE VisitedAll /\ ~job.deleting
    BY <1>6 DEF VisitedAll, Goto, RemoteCalls
  <1>7. CASE Calls
    BY <1>7, CallsEffect DEF RemoteCalls
  <1>8. CASE Finishes
    BY <1>8, FinishedType DEF Finishes, RemoteCalls
  <1> QED
    BY <1>1, <1>2, <1>3, <1>4, <1>5, <1>6, <1>7, <1>8, PassSteps

\* What a step does to the workload clusters, if nobody else writes there:
\* nothing, the pass writes or removes its policy, or a Cluster goes.
LEMMA WorkloadSteps ==
    ASSUME TypeOK, ~Drifting, [Next]_vars
    PROVE  \/ UNCHANGED workload
           \/ pc = "write" /\ Remote /\ WritePolicy /\ UNCHANGED clusters
           \/ pc = "delete" /\ Remote /\ Remove(job.cluster, Key) /\ UNCHANGED clusters
           \/ \E c \in Cluster : FleetChanges(c)
  <1> USE DEF fleetVars, policyVars
  <1>1. CASE \E p \in Policy : Reconcile(p)
    BY <1>1 DEF Reconcile, ReconcileNotFound, ReconcileFound
  <1>2. CASE \E c \in Cluster : VisitCluster(c)
    BY <1>2, VisitEffect
  <1>3. CASE Proceed
    BY <1>3 DEF Proceed, ListClusters, SelectorInvalid, VisitedAll, GetExisting, CreatePolicy,
          UpdatePolicy, IsPolicyActive, DeployFails, UpdateStatus, UpdateStatusFails,
          DeletePolicy, DeletePolicyFails
  <1>4. CASE Restart \/ Event \/ Resync
    BY <1>4 DEF Restart, Event, ClusterEvent, PolicyEvent, Resync
  <1>5. CASE Environment
    BY <1>5 DEF Environment, SubmitPolicy, EditPolicy, WithdrawPolicy, SetPolicy,
          MarkInstalled, Serve, Drift
  <1>6. CASE UNCHANGED vars
    BY <1>6 DEF vars
  <1> QED
    BY <1>1, <1>2, <1>3, <1>4, <1>5, <1>6 DEF Next

\* Fleet changes, as the provider sees them.
LEMMA FleetChangesEffect ==
    ASSUME TypeOK, NEW c \in Cluster, FleetChanges(c)
    PROVE  /\ \A k \in Cluster : Deleted(k) \/ Created(k) \/ Kept(k)
           /\ UNCHANGED <<cache, pc, job>>
  <1>1. FleetStep(c)
    BY DEF FleetChanges, FleetStep
  <1> QED
    BY <1>1, FleetStepEffect DEF TypeOK, FleetChanges

\* No policy reaches a Cluster in a namespace without policies.
LEMMA PolicyTenancyStep ==
    ASSUME TypeOK, Home, PolicyTenancy, ~Drifting, [Next]_vars
    PROVE  PolicyTenancy'
  <1> SUFFICES ASSUME NEW c \in Cluster,
                      \A p \in Policy : PolicyNamespace[p] # PolicyNamespace[c]
               PROVE  workload'[c] = Bare
    BY DEF PolicyTenancy
  <1>1. workload[c] = Bare
    BY DEF PolicyTenancy
  <1>2. CASE UNCHANGED workload
    BY <1>1, <1>2
  <1>3. CASE pc \in {"write", "delete"} /\ (WritePolicy \/ Remove(job.cluster, Key))
    <2>1. job.policy \in Policy /\ job.cluster \in Cluster
          /\ PolicyNamespace[job.cluster] = PolicyNamespace[job.policy]
      BY <1>3 DEF TypeOK, Home, RemoteCalls
    <2>2. c # job.cluster
      BY <2>1
    <2> QED
      BY <1>1, <1>3, <2>1, <2>2 DEF WritePolicy, Remove, TypeOK, FleetTypeOK
  <1>4. ASSUME NEW d \in Cluster, FleetChanges(d) PROVE workload'[c] = Bare
    BY <1>1, <1>4, FleetChangesEffect DEF Deleted, Created, Kept
  <1> QED
    BY <1>2, <1>3, <1>4, WorkloadSteps

\* A Cluster in a namespace without policies gets none, whatever its labels:
\* getMatchingClusters lists InNamespace, and a pass never leaves its namespace.
THEOREM PolicyTenancyHolds == ASSUME ~Drifting PROVE Spec => []PolicyTenancy
  <1> DEFINE Inv == TypeOK /\ Stored /\ Home /\ PolicyTenancy
  <1>1. Init => Inv
    <2>1. Init => Home
      BY DEF Init, Home, NoJob, RemoteCalls
    <2>2. Init => PolicyTenancy
      BY DEF Init, FleetInit, PolicyTenancy
    <2> QED
      BY <2>1, <2>2, InitType
  <1>2. Inv /\ [Next]_vars => Inv'
    BY TypeStep, StoredStep, HomeStep, PolicyTenancyStep
  <1>3. Inv => PolicyTenancy
    OBVIOUS
  <1> QED
    BY <1>1, <1>2, <1>3, PTL DEF Spec

(***************************************************************************)
(* Annotations, when no Cluster name is used twice.                        *)
(***************************************************************************)
\* What a step does to the Clusters, and to their copies in the cache.
LEMMA ClusterSteps ==
    ASSUME TypeOK, [Next]_vars
    PROVE  /\ \/ UNCHANGED clusters
              \/ \E c \in Cluster : MarkInstalled(c) \/ FleetChanges(c)
           /\ \/ UNCHANGED cache
              \/ /\ UNCHANGED clusters
                 /\ \A c \in Cluster : cache'[c] \in {cache[c], clusters[c]}
  <1> USE DEF fleetVars, policyVars
  <1>1. CASE \E p \in Policy : Reconcile(p)
    BY <1>1 DEF Reconcile, ReconcileNotFound, ReconcileFound
  <1>2. CASE \E c \in Cluster : VisitCluster(c)
    BY <1>2, VisitEffect
  <1>3. CASE Proceed
    BY <1>3 DEF Proceed, ListClusters, SelectorInvalid, VisitedAll, GetExisting, CreatePolicy,
          UpdatePolicy, IsPolicyActive, DeployFails, UpdateStatus, UpdateStatusFails,
          DeletePolicy, DeletePolicyFails
  <1>4. CASE Restart \/ Resync \/ \E p \in Policy : PolicyEvent(p)
    BY <1>4 DEF Restart, PolicyEvent, Resync
  <1>5. ASSUME NEW c \in Cluster, ClusterEvent(c)
        PROVE  UNCHANGED clusters /\ \A d \in Cluster : cache'[d] \in {cache[d], clusters[d]}
    BY <1>5 DEF ClusterEvent, TypeOK, FleetTypeOK
  <1>6. CASE Environment
    <2>1. UNCHANGED cache
      BY <1>6, EnvironmentKeeps
    <2> QED
      BY <1>6, <2>1 DEF Environment, SubmitPolicy, EditPolicy, WithdrawPolicy, SetPolicy,
          Serve, Drift
  <1>7. CASE UNCHANGED vars
    BY <1>7 DEF vars
  <1> QED
    BY <1>1, <1>2, <1>3, <1>4, <1>5, <1>6, <1>7 DEF Next, Event

\* What the addon controller's mark does to the Clusters.
LEMMA MarkEffect ==
    ASSUME TypeOK, NEW c \in Cluster, MarkInstalled(c)
    PROVE  \A k \in Cluster :
              /\ clusters'[k].present = clusters[k].present
              /\ clusters'[k].uid = clusters[k].uid
              /\ clusters[k].installed => clusters'[k].installed
              /\ clusters'[k].installed => clusters[k].installed \/ clusters[k].present
              /\ workload'[k] = workload[k]
  <1>1. clusters[c] \in ClusterRecord /\ clusters \in [Cluster -> ClusterRecord]
    BY DEF TypeOK, FleetTypeOK
  <1>2. clusters' = [clusters EXCEPT ![c] = [clusters[c] EXCEPT !.installed = TRUE]]
        /\ clusters[c].present /\ workload' = workload
    BY DEF MarkInstalled
  <1>3. /\ clusters'[c].present = clusters[c].present
        /\ clusters'[c].uid = clusters[c].uid /\ clusters'[c].installed
    BY <1>1, <1>2, MarkRecord
  <1>4. \A k \in Cluster \ {c} : clusters'[k] = clusters[k]
    BY <1>1, <1>2
  <1> QED
    BY <1>2, <1>3, <1>4

\* A Cluster that was annotated once stays so, or is gone for good.
LEMMA WasMarkedStep ==
    ASSUME TypeOK, MaxUid = 1, [Next]_vars, NEW c \in Cluster, WasMarked(c)
    PROVE  WasMarked(c)'
  <1>1. CASE UNCHANGED clusters
    BY <1>1 DEF WasMarked
  <1>2. ASSUME NEW d \in Cluster, MarkInstalled(d) PROVE WasMarked(c)'
    BY <1>2, MarkEffect DEF WasMarked
  <1>3. ASSUME NEW d \in Cluster, FleetChanges(d) PROVE WasMarked(c)'
    <2>1. Deleted(c) \/ Created(c) \/ Kept(c)
      BY <1>3, FleetChangesEffect
    <2>2. ~Created(c)
      BY DEF Created, WasMarked
    <2> QED
      BY <2>1, <2>2 DEF Deleted, Kept, WasMarked
  <1> QED
    BY <1>1, <1>2, <1>3, ClusterSteps

\* Every copy of an annotation stays one of a Cluster that has it: the cache
\* copies the Cluster, the pass copies the cache, and remote calls that deploy
\* are to Clusters the pass found eligible.
LEMMA MarksStep == TypeOK /\ Stored /\ Marks /\ MaxUid = 1 /\ [Next]_vars => Marks'
  <1> SUFFICES ASSUME TypeOK, Stored, Marks, MaxUid = 1, [Next]_vars PROVE Marks'
    OBVIOUS
  <1>0. job \in JobRecord /\ job.eligible \subseteq Cluster
    BY JobFields DEF TypeOK
  <1>1. \A c \in Cluster : /\ clusters'[c].present => clusters'[c].uid >= 1
                           /\ clusters'[c].installed => clusters'[c].present
    <2>1. CASE UNCHANGED clusters
      BY <2>1 DEF Marks
    <2>2. ASSUME NEW d \in Cluster, MarkInstalled(d), NEW c \in Cluster
          PROVE  /\ clusters'[c].present => clusters'[c].uid >= 1
                 /\ clusters'[c].installed => clusters'[c].present
      BY <2>2, MarkEffect DEF Marks
    <2>3. ASSUME NEW d \in Cluster, FleetChanges(d), NEW c \in Cluster
          PROVE  /\ clusters'[c].present => clusters'[c].uid >= 1
                 /\ clusters'[c].installed => clusters'[c].present
      <3>1. Deleted(c) \/ Created(c) \/ Kept(c)
        BY <2>3, FleetChangesEffect
      <3>2. clusters[c].uid \in 0..MaxUid
        BY DEF TypeOK, FleetTypeOK, ClusterRecord
      <3> QED
        BY <3>1, <3>2 DEF Deleted, Created, Kept, Marks
    <2> QED
      BY <2>1, <2>2, <2>3, ClusterSteps
  <1>2. \A c \in Cluster : cache'[c].installed => WasMarked(c)'
    <2> SUFFICES ASSUME NEW c \in Cluster, cache'[c].installed PROVE WasMarked(c)'
      OBVIOUS
    <2>1. CASE cache'[c] = cache[c]
      BY <2>1, WasMarkedStep DEF Marks
    <2>2. CASE cache'[c] = clusters[c]
      <3>1. clusters[c].uid \in 0..MaxUid
        BY DEF TypeOK, FleetTypeOK, ClusterRecord
      <3>2. WasMarked(c)
        BY <2>2, <3>1 DEF Marks, WasMarked
      <3> QED
        BY <3>2, WasMarkedStep
    <2> QED
      BY <2>1, <2>2, ClusterSteps
  <1>3. ASSUME NEW c \in Cluster, cache[c].installed \/ c \in job.eligible
               \/ (pc \in {"get", "write", "verify"} /\ c = job.cluster)
        PROVE  WasMarked(c)'
    BY <1>3, WasMarkedStep DEF Marks
  <1>4. /\ \A c \in job'.eligible : WasMarked(c)'
        /\ pc' \in {"get", "write", "verify"} => WasMarked(job.cluster)'
    <2>1. CASE PassKept
      <3>1. pc \in {"get", "write", "verify"} => job.cluster \in Cluster
        BY DEF TypeOK, RemoteCalls
      <3> QED
        BY <1>0, <1>3, <2>1, <3>1 DEF PassKept, WasMarked
    <2>2. CASE PassOver
      BY <2>2 DEF PassOver, NoJob
    <2>3. ASSUME NEW p \in Policy, ReconcileFound(p)
          PROVE job'.eligible = {} /\ pc' = "list"
      <3>1. policyCache[p].spec \in StoredSpec
        BY <2>3, AdmittedStored DEF ReconcileFound, Stored
      <3> QED
        BY <2>3, <3>1, StartedType DEF ReconcileFound
    <2>4. CASE ListClusters
      <3>1. job'.eligible \subseteq {c \in Cluster : cache[c].installed}
            /\ pc' \in {"status", "visit"}
        BY <2>4, ListEffect DEF GetMatchingClusters, Eligible, HasAnnotation
      <3> QED
        BY <1>3, <3>1
    <2>5. ASSUME NEW c \in Cluster, VisitCluster(c)
          PROVE  /\ job'.eligible = job.eligible
                 /\ pc' \in {"get", "write", "verify"} => job'.cluster \in job.eligible
      BY <2>5, VisitEffect
    <2>6. CASE VisitedAll /\ ~job.deleting
      BY <1>0, <1>3, <2>6 DEF VisitedAll, Goto
    <2>7. CASE Calls
      <3>1. job.cluster \in Cluster
        BY <2>7, CallsEffect DEF TypeOK, RemoteCalls
      <3> QED
        BY <1>0, <1>3, <2>7, <3>1, CallsEffect DEF WasMarked
    <2>8. CASE Finishes
      BY <1>0, <1>3, <2>8, FinishedType DEF Finishes
    <2> QED
      BY <1>0, <1>3, <2>1, <2>2, <2>3, <2>4, <2>5, <2>6, <2>7, <2>8, PassSteps DEF WasMarked
  <1> QED
    BY <1>1, <1>2, <1>4 DEF Marks

\* Policies are only written to annotated Clusters.
LEMMA InstalledFirstStep ==
    ASSUME TypeOK, Marks, InstalledFirst, ~Drifting, [Next]_vars
    PROVE  InstalledFirst'
  <1> SUFFICES ASSUME NEW c \in Cluster, NEW k \in Object, workload'[c][k] # Absent
               PROVE  clusters'[c].installed
    BY DEF InstalledFirst
  <1>1. ASSUME NEW d \in Cluster, FleetChanges(d) PROVE clusters'[c].installed
    <2>1. Deleted(c) \/ Created(c) \/ Kept(c)
      BY <1>1, FleetChangesEffect
    <2>2. workload'[c] # Bare
      BY DEF Bare
    <2> QED
      BY <2>1, <2>2 DEF Deleted, Created, Kept, InstalledFirst, Marks
  <1>2. ASSUME NEW d \in Cluster, MarkInstalled(d) PROVE clusters'[c].installed
    BY <1>2, MarkEffect DEF InstalledFirst
  <1>3. CASE UNCHANGED <<clusters, workload>>
    BY <1>3 DEF InstalledFirst
  <1>4. CASE UNCHANGED clusters /\ pc = "write" /\ Remote /\ WritePolicy
    <2>1. /\ workload'[c][k] = IF c = job.cluster /\ k = Key
                               THEN BuildPolicySpec(job.spec) ELSE workload[c][k]
          /\ WasMarked(job.cluster)
      BY <1>4, WriteEffect DEF RemoteCalls, Marks
    <2> QED
      BY <1>4, <2>1 DEF WasMarked, Remote, Reaches, InstalledFirst
  <1>5. CASE UNCHANGED clusters /\ pc = "delete" /\ Remove(job.cluster, Key)
    <2>1. job.cluster \in Cluster /\ Key \in Object
      BY <1>5, KeyType DEF RemoteCalls
    <2>2. workload'[c][k] = IF c = job.cluster /\ k = Key THEN Absent ELSE workload[c][k]
      BY <1>5, <2>1, RemoveEffect
    <2> QED
      BY <1>5, <2>2 DEF InstalledFirst
  <1> QED
    BY <1>1, <1>2, <1>3, <1>4, <1>5, WorkloadSteps, ClusterSteps

\* Initially there are no annotations and no policies on the Clusters.
LEMMA MarksInit == Init => Marks /\ InstalledFirst
  <1> SUFFICES ASSUME Init PROVE Marks /\ InstalledFirst
    OBVIOUS
  <1>1. ASSUME NEW c \in Cluster
        PROVE  /\ ~clusters[c].installed /\ cache[c] = clusters[c]
               /\ clusters[c].present => clusters[c].uid = 1
    <2>1. clusters[c] = Gone(0) \/ clusters[c] \in Unmarked
      BY DEF Init, FleetInit
    <2>2. CASE clusters[c] = Gone(0)
      BY <2>2 DEF Gone, Init, FleetInit
    <2>3. CASE clusters[c] \in Unmarked
      <3>1. clusters[c].installed \in {FALSE} /\ clusters[c].uid \in {1}
        BY <2>3 DEF Unmarked
      <3> QED
        BY <3>1 DEF Init, FleetInit
    <2> QED
      BY <2>1, <2>2, <2>3
  <1>2. Marks
    BY <1>1 DEF Init, NoJob, Marks
  <1>3. InstalledFirst
    BY DEF Init, FleetInit, Bare, InstalledFirst
  <1> QED
    BY <1>2, <1>3

\* And the annotations.
MarksInv == CopiesInv /\ Marks /\ InstalledFirst

\* They hold in every state, if nobody else writes policies and no name is reused.
LEMMA MarksInvHolds == ASSUME MaxUid = 1, ~Drifting PROVE Spec => []MarksInv
  <1>1. Init => MarksInv
    BY InitType, NewestInit, MarksInit DEF MarksInv, CopiesInv
  <1>2. MarksInv /\ [Next]_vars => MarksInv'
    BY TypeStep, StoredStep, NewestStep, MarksStep, InstalledFirstStep DEF MarksInv, CopiesInv
  <1> QED
    BY <1>1, <1>2, PTL DEF Spec

\* No policy is on a Cluster without the addon controller's annotation, if no
\* Cluster name is used twice: the annotation that the pass acts on was read
\* from a cache, and a Cluster that once had it is annotated or gone for good.
THEOREM InstalledFirstHolds == ASSUME MaxUid = 1, ~Drifting PROVE Spec => []InstalledFirst
  <1>1. MarksInv => InstalledFirst
    BY DEF MarksInv
  <1> QED
    BY <1>1, MarksInvHolds, PTL

(***************************************************************************)
(* What a pass reports.                                                    *)
(***************************************************************************)
\* A Cluster that has the policy keeps it while the pass is not writing to it,
\* or is gone for good.
LEMMA HasPolicyStep ==
    ASSUME TypeOK, MaxUid = 1, ~Drifting, [Next]_vars, NEW c \in Cluster, HasPolicy(c),
           job.spec \in StoredSpec, job'.spec = job.spec,
           pc \in {"write", "delete"} => c # job.cluster
    PROVE  HasPolicy(c)'
  <1>1. Key' = Key /\ Key \in Object
    BY PolicyAssumption DEF Key
  <1>2. ASSUME NEW d \in Cluster, FleetChanges(d) PROVE HasPolicy(c)'
    <2>1. Deleted(c) \/ Created(c) \/ Kept(c)
      BY <1>2, FleetChangesEffect
    <2>2. ~Created(c)
      BY DEF Created, HasPolicy
    <2> QED
      BY <1>1, <2>1, <2>2 DEF Deleted, Kept, HasPolicy
  <1>3. ASSUME NEW d \in Cluster, MarkInstalled(d) PROVE HasPolicy(c)'
    BY <1>1, <1>3, MarkEffect DEF HasPolicy
  <1>4. CASE UNCHANGED <<clusters, workload>>
    BY <1>1, <1>4 DEF HasPolicy
  <1>5. CASE UNCHANGED clusters /\ pc \in {"write", "delete"}
             /\ (WritePolicy \/ Remove(job.cluster, Key))
    <2>1. c # job.cluster /\ job.cluster \in Cluster
      BY <1>5, KeyType DEF RemoteCalls
    <2>2. workload'[c] = workload[c]
      BY <1>5, <2>1 DEF WritePolicy, Remove, TypeOK, FleetTypeOK
    <2> QED
      BY <1>1, <1>5, <2>2 DEF HasPolicy
  <1> QED
    BY <1>2, <1>3, <1>4, <1>5, WorkloadSteps, ClusterSteps

\* While allReady stands the Clusters behind the pass keep the policy.
LEMMA BehindStep ==
    ASSUME TypeOK, Stored, Marks, Behind, MaxUid = 1, ~Drifting, [Next]_vars
    PROVE  Behind'
  <1> USE DEF RemoteCalls
  <1>0. job \in JobRecord /\ job.selected \subseteq Cluster
    BY JobFields DEF TypeOK
  <1>1. CASE PassOver
    BY <1>1 DEF PassOver, Behind
  <1>2. ASSUME NEW p \in Policy, ReconcileFound(p) PROVE Behind'
    BY <1>2 DEF ReconcileFound, Behind
  <1>3. CASE ListClusters
    <2>1. job'.selected \ job'.todo = {} /\ pc' \in {"status", "visit"}
          /\ (pc' = "status" => job'.todo = {})
      BY <1>3, ListEffect
    <2> QED
      BY <2>1 DEF Behind
  \* From here on the pass has listed the Clusters.
  <1>4. ASSUME pc \notin {"idle", "list"}, job'.spec = job.spec, ~job.deleting, job.allReady,
               NEW c \in job.selected \ job.todo, pc \in RemoteCalls => c # job.cluster
        PROVE  HasPolicy(c)'
    <2>1. HasPolicy(c) /\ job.spec \in StoredSpec
      BY <1>4 DEF Behind, TypeOK
    <2> QED
      BY <1>0, <1>4, <2>1, HasPolicyStep
  <1>5. ASSUME NEW c \in Cluster, VisitCluster(c) PROVE Behind'
    <2>1. /\ pc = "visit" /\ pc' \in {"visit", "delete", "get"}
          /\ pc' = "delete" => job'.deleting
          /\ job'.spec = job.spec /\ job'.deleting = job.deleting
          /\ job'.selected = job.selected /\ job'.todo = job.todo \ {c}
          /\ job'.allReady => /\ job.allReady
                              /\ pc' \in {"get", "delete"} /\ job'.cluster = c
      BY <1>5, VisitEffect
    <2> QED
      BY <1>4, <2>1 DEF Behind
  <1>6. CASE VisitedAll /\ ~job.deleting
    <2>1. pc = "visit" /\ pc' = "status" /\ job' = job /\ job.todo = {}
      BY <1>6 DEF VisitedAll, Goto
    <2> QED
      BY <1>4, <2>1 DEF Behind
  <1>7. CASE Calls
    <2>1. /\ pc \in {"get", "write"} /\ pc' \in {"write", "verify"}
          /\ job'.spec = job.spec /\ job'.deleting = job.deleting
          /\ job'.selected = job.selected /\ job'.todo = job.todo
          /\ job'.allReady = job.allReady /\ job'.cluster = job.cluster
      BY <1>7, CallsEffect
    <2>2. ASSUME pc' = "verify" PROVE workload'[job'.cluster][Key'] = BuildPolicySpec(job'.spec)
      <3>1. WritePolicy /\ pc = "write"
        BY <1>7, <2>2 DEF Calls, GetExisting, CreatePolicy, UpdatePolicy, Goto
      <3>2. job.cluster \in Cluster /\ Key \in Object
        BY <3>1, KeyType
      <3>3. Key' = Key
        BY <2>1 DEF Key
      <3> QED
        BY <2>1, <3>1, <3>2, <3>3, WriteEffect
    <2> QED
      BY <1>4, <2>1, <2>2 DEF Behind
  <1>8. CASE Finishes
    <2>1. /\ pc \in RemoteCalls /\ pc' = "visit" /\ UNCHANGED clusters
          /\ job'.spec = job.spec /\ job'.deleting = job.deleting
          /\ job'.selected = job.selected /\ job'.todo = job.todo
          /\ job'.allReady => job.allReady /\ ~DeployFails
      BY <1>8, FinishedType DEF Finishes
    <2>2. ASSUME ~job.deleting, job'.allReady, NEW c \in Cluster, c = job.cluster
          PROVE  HasPolicy(c)'
      <3>1. IsPolicyActive
        BY <1>8, <2>1, <2>2 DEF Finishes, DeletePolicy, DeletePolicyFails, Behind
      <3>2. job.cluster \in Cluster /\ WasMarked(job.cluster) /\ job.spec \in StoredSpec
        BY <3>1, KeyType DEF IsPolicyActive, Marks
      <3>3. HasPolicy(c)
        BY <2>2, <3>1, <3>2 DEF IsPolicyActive, WasMarked, Behind, HasPolicy
      <3> QED
        BY <2>1, <3>1, <3>2, <3>3, HasPolicyStep DEF IsPolicyActive
    <2> QED
      BY <1>0, <1>4, <2>1, <2>2 DEF Behind
  <1>9. CASE PassKept
    <2>1. /\ pc' = pc /\ job'.spec = job.spec /\ job'.deleting = job.deleting
          /\ job'.selected = job.selected /\ job'.todo = job.todo
          /\ job'.allReady = job.allReady /\ job'.cluster = job.cluster /\ job'.uid = job.uid
      BY <1>9 DEF PassKept
    <2>2. ASSUME pc = "verify", Remote'
          PROVE  workload'[job'.cluster][Key'] = BuildPolicySpec(job'.spec)
      <3>1. job.cluster \in Cluster /\ WasMarked(job.cluster) /\ job.spec \in StoredSpec
        BY <2>2, KeyType DEF Marks
      <3>2. Remote
        <4>1. clusters'[job.cluster].present /\ clusters'[job.cluster].uid = job.uid
          BY <2>1, <2>2 DEF Remote, Reaches
        <4>2. clusters[job.cluster].present /\ clusters[job.cluster].uid = job.uid
          <5>1. CASE UNCHANGED clusters
            BY <4>1, <5>1
          <5>2. ASSUME NEW d \in Cluster, MarkInstalled(d)
                PROVE  clusters[job.cluster].present /\ clusters[job.cluster].uid = job.uid
            BY <3>1, <4>1, <5>2, MarkEffect
          <5>3. ASSUME NEW d \in Cluster, FleetChanges(d)
                PROVE  clusters[job.cluster].present /\ clusters[job.cluster].uid = job.uid
            <6>1. Deleted(job.cluster) \/ Created(job.cluster) \/ Kept(job.cluster)
              BY <3>1, <5>3, FleetChangesEffect
            <6>2. ~Created(job.cluster)
              BY <3>1 DEF Created, WasMarked
            <6>3. ~Deleted(job.cluster)
              BY <4>1 DEF Deleted
            <6> QED
              BY <4>1, <6>1, <6>2, <6>3 DEF Kept
          <5> QED
            BY <5>1, <5>2, <5>3, ClusterSteps
        <4> QED
          BY <4>2 DEF Remote, Reaches
      <3>3. HasPolicy(job.cluster)
        BY <2>2, <3>1, <3>2 DEF WasMarked, Behind, HasPolicy
      <3>4. HasPolicy(job.cluster)'
        <4>1. \A c \in Cluster : c = job.cluster => HasPolicy(c)'
          BY <2>1, <2>2, <3>1, <3>3, HasPolicyStep
        <4> QED
          BY <2>1, <3>1, <4>1 DEF HasPolicy
      <3> QED
        BY <2>1, <2>2, <3>4 DEF HasPolicy, Remote, Reaches
    <2> QED
      BY <1>4, <2>1, <2>2 DEF Behind
  <1> QED
    BY <1>1, <1>2, <1>3, <1>5, <1>6, <1>7, <1>8, <1>9, PassSteps

\* And what lies behind the pass.
BehindInv == MarksInv /\ Behind

\* It holds in every state, under the same assumptions.
LEMMA BehindInvHolds == ASSUME MaxUid = 1, ~Drifting PROVE Spec => []BehindInv
  <1>1. Init => Behind
    BY DEF Init, Behind
  <1>2. BehindInv /\ [Next]_vars => Behind'
    BY BehindStep DEF BehindInv, MarksInv, CopiesInv
  <1> QED
    BY <1>1, <1>2, MarksInvHolds, PTL DEF Spec, BehindInv

\* The step that reports Ready, and what it finds.
LEMMA ReadyStep ==
    ASSUME BehindInv, [Next]_vars, NEW p \in Policy,
           ~policies[p].status.ready, policies'[p].status.ready
    PROVE  /\ job.selected # {}
           /\ \A c \in job.selected :
                 clusters[c].present => Deployed(p, c) /\ clusters[c].installed
  <1> USE DEF BehindInv, MarksInv, CopiesInv, policyVars
  <1>1. CASE GoesOn
    BY <1>1 DEF GoesOn
  <1>2. CASE Reports
    <2>1. /\ job.policy \in Policy /\ "job" \in newest[job.policy] /\ pc = "status"
          /\ policies[job.policy] \in PolicyRecord
      BY <1>2 DEF Reports, UpdateStatus, TypeOK
    <2>2. p = job.policy
      BY <1>2, <2>1 DEF Reports, UpdateStatus, TypeOK
    <2>3. policies'[p].status = Outcome(policies[p].status)
      BY <1>2, <2>1, <2>2 DEF Reports, UpdateStatus, TypeOK, PolicyRecord
    <2>4. policies[p].status \in Status
      BY <2>1, <2>2 DEF PolicyRecord
    <2>5. job.selected # {} /\ job.allReady
      BY <2>3, <2>4 DEF Outcome, Status
    <2>6. policies[p].spec = job.spec /\ ~job.deleting /\ job.todo = {}
      BY <2>1, <2>2 DEF Newest, Behind
    <2>7. \A c \in job.selected : HasPolicy(c)
      BY <2>1, <2>5, <2>6 DEF Behind, RemoteCalls
    <2>8. \A c \in job.selected : clusters[c].present => Deployed(p, c)
      BY <2>6, <2>7 DEF HasPolicy, Key, Deployed
    <2>9. /\ PolicyKey(policies[p].spec) \in Object
          /\ BuildPolicySpec(policies[p].spec) # Absent
      <3>1. policies[p].spec \in StoredSpec
        BY <2>1, <2>2, AdmittedStored DEF Newest, Stored
      <3> QED
        BY <3>1, PolicyAssumption, VersionAssumption
    <2>10. \A c \in job.selected : clusters[c].present => clusters[c].installed
      BY <2>1, <2>8, <2>9 DEF Deployed, InstalledFirst, TypeOK, JobRecord
    <2> QED
      BY <2>5, <2>8, <2>10
  <1>3. CASE Restart
    BY <1>3 DEF Restart
  <1>4. CASE \E q \in Policy : TakesUp(q) \/ CatchesUp(q)
    BY <1>4 DEF TakesUp, CatchesUp
  <1>5. ASSUME NEW q \in Policy, UserSteps(q) PROVE FALSE
    BY <1>5 DEF UserSteps, TypeOK
  <1> QED
    BY <1>1, <1>2, <1>3, <1>4, <1>5, PolicySteps

\* status.ready turns true only when every selected Cluster that still exists
\* has the policy with the present spec, if nobody else writes policies there
\* and no Cluster name is used twice.  A pass takes many calls, to Clusters that
\* change under it; its report is right when it is accepted.
THEOREM ReadyDeployedHolds == ASSUME MaxUid = 1, ~Drifting PROVE Spec => ReadyDeployed
  <1>1. BehindInv /\ [Next]_vars =>
           [\A p \in Policy :
              ~policies[p].status.ready /\ policies'[p].status.ready =>
                 /\ job.selected # {}
                 /\ \A c \in job.selected : clusters[c].present => Deployed(p, c)]_vars
    BY ReadyStep
  <1> QED
    BY <1>1, BehindInvHolds, PTL DEF Spec, ReadyDeployed
=============================================================================
