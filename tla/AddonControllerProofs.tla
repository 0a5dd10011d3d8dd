----------------------- MODULE AddonControllerProofs -----------------------
(***************************************************************************)
(* Machine-checked proofs about AddonController, for any set of Clusters,  *)
(* addons, objects and manifests, and any bounds.                          *)
(***************************************************************************)
EXTENDS AddonController, FleetProofs

(***************************************************************************)
(* Why AnnotationSound, InstallOrder and ReadyJustified hold: what is true *)
(* between any two steps.                                                  *)
(***************************************************************************)
\* Places at which everything is created and the tolerations are patched.
Tolerating == {"deployment", "policy server", "audit scanner", "annotate"}
\* Places at which the installation on the Cluster in hand goes on.
Installing == {"fetch", "apply"} \cup Tolerating

\* The documents applyManifest gets to: those before the first null one.
Readable(file) == {d \in DOMAIN file : \A e \in 1..d : file[e] # NullDoc}

\* The namespace, all phases before p, all files before f and all readable
\* documents before d of file f are on the workload cluster.
DoneBefore(c, p, f, d) ==
    /\ OnWorkload(c, KubewardenNamespace)
    /\ \A q \in Phase : q < p => \A o \in ObjectsOf(q) : OnWorkload(c, o)
    /\ \A g \in DOMAIN Manifests[p] : g < f =>
          \A e \in Readable(Manifests[p][g]) : OnWorkload(c, Manifests[p][g][e])
    /\ f \in DOMAIN Manifests[p] =>
          \A e \in Readable(Manifests[p][f]) : e < d => OnWorkload(c, Manifests[p][f][e])

\* Where the running Reconcile is in the manifests.
Place ==
    /\ pc = "apply" => /\ job.file >= 1 /\ job.doc >= 1
                       /\ job.file \in DOMAIN Files =>
                             \A e \in DOMAIN File : e < job.doc => File[e] # NullDoc
    /\ pc \in Tolerating => /\ job.phase = DefaultsChart
                            /\ job.file >= 1 /\ job.file \notin DOMAIN Files

\* The incarnation connected to is not younger than the name's present one.
Incarnations ==
    /\ \A c \in Cluster : clusters[c].present => clusters[c].uid >= 1
    /\ pc \in Installing \cup {"namespace"} =>
          job.uid >= 1 /\ job.uid <= clusters[job.cluster].uid

\* As long as the incarnation connected to is there, what the Reconcile has
\* been through is there.
Progress ==
    pc \in Installing /\ Remote =>
        /\ DoneBefore(job.cluster, job.phase, job.file, job.doc)
        /\ pc \in Tolerating \ {"deployment"} => Deployment \in tolerant[job.cluster]
        /\ pc \in {"audit scanner", "annotate"} => PolicyServer \in tolerant[job.cluster]

\* The Clusters the loop is through with are marked, unless they are gone.
Visited ==
    /\ pc \in {"idle", "list"} => job.selected = {}
    /\ pc = "status" => job.todo = {}
    /\ \A c \in job.selected \ job.todo :
          /\ clusters[c].uid >= 1
          /\ \/ pc \in Installing \cup {"namespace"} /\ c = job.cluster
             \/ clusters[c].present => clusters[c].installed

(***************************************************************************)
(* Documents.                                                              *)
(***************************************************************************)
\* A document of a manifest is an object or has no kind (applyManifest's
\* decoder yields nothing else).
LEMMA DocumentType ==
    ASSUME NEW p \in Phase, NEW f \in DOMAIN Manifests[p],
           NEW d \in DOMAIN Manifests[p][f]
    PROVE  Manifests[p][f][d] \in Object \cup {NullDoc}
  BY ManifestAssumption

\* Admission leaves spec.version alone: the webhook is registered for another
\* group than the type's.
LEMMA AdmitType ==
    ASSUME NEW v \in Requested
    PROVE  Admit(v) \in Version \cup {Unset}
  <1>1. Admit(v) = v
    BY DEF Admit, WebhookGroup, Group
  <1> QED
    BY <1>1, AddonAssumption

(***************************************************************************)
(* Type correctness.                                                       *)
(***************************************************************************)
\* The initial states are well typed.
LEMMA InitType == Init => TypeOK
  <1> SUFFICES ASSUME Init PROVE TypeOK
    OBVIOUS
  <1>2. FleetTypeOK
    BY FleetInitType DEF Init
  <1>3. addons \in [Addon -> AddonRecord]
    <2>1. NoAddon \in AddonRecord
      BY DEF AddonRecord, NoAddon, NoSelector, SelectorType
    <2>2. ASSUME NEW s \in Selector, NEW v \in Requested
          PROVE  NewAddon(s, Admit(v)) \in AddonRecord
      BY AddonAssumption, AdmitType DEF AddonRecord, NewAddon, SelectorType
    <2> QED
      BY <2>1, <2>2 DEF Init
  <1>4. job \in JobRecord
    BY FleetAssumption
    DEF Init, JobRecord, NoJob, NoSelector, SelectorType, Phase, CRDs, DefaultsChart
  <1> QED
    BY <1>2, <1>3, <1>4, AddonAssumption DEF Init, TypeOK

\* The clean job is a job.
LEMMA NoJobType == NoJob \in JobRecord
  BY FleetAssumption
  DEF JobRecord, NoJob, NoSelector, SelectorType, Phase, CRDs, DefaultsChart

\* However Reconcile returns, what it leaves behind is well typed.
LEMMA ReturnType ==
    ASSUME TypeOK, NEW keys \in SUBSET Addon, Return(keys)
    PROVE  /\ queue' \subseteq Addon /\ delayed' \subseteq Addon
           /\ pc' = "idle" /\ job' \in JobRecord
  BY NoJobType DEF Return, TypeOK

\* The counters stay within their bounds.
LEMMA CounterType ==
    /\ edits \in 0..MaxEdits /\ Edit => edits' \in 0..MaxEdits
    /\ faults \in 0..MaxFaults /\ Fault => faults' \in 0..MaxFaults
  BY FleetAssumption, AddonAssumption DEF Edit, Fault

\* Creating a known object in a known version keeps the workloads well typed.
LEMMA CreateType ==
    ASSUME FleetTypeOK, job.cluster \in Cluster, NEW o \in Object,
           NEW v \in Version \cup {Unversioned}, Create(o, v)
    PROVE  workload' \in [Cluster -> [Object -> Version \cup {Absent, Unversioned}]]
  BY DEF FleetTypeOK, Create

\* The phases follow each other.
LEMMA PhaseType ==
    /\ CRDs \in Phase
    /\ \A p \in Phase : p \in Nat /\ (p # DefaultsChart => p + 1 \in Phase)
  BY DEF Phase, CRDs, DefaultsChart

\* The fields of a job.
LEMMA JobFields ==
    ASSUME NEW j \in JobRecord
    PROVE  /\ j.phase \in Phase /\ j.file \in Nat /\ j.doc \in Nat
           /\ j.uid \in 0..MaxUid /\ j.wasReady \in BOOLEAN
           /\ j.selected \subseteq Cluster /\ j.todo \subseteq Cluster
  BY DEF JobRecord

\* Job j belongs to the same pass as the job at hand.
SamePass(j) ==
    /\ j.addon = job.addon /\ j.selector = job.selector
    /\ j.wasReady = job.wasReady /\ j.annotated = job.annotated

\* Moving on in the manifests keeps the job well typed and changes nothing
\* but the place in the manifests.
LEMMA AtType ==
    ASSUME job \in JobRecord, NEW p \in Phase, NEW f \in Nat, NEW d \in Nat,
           NEW v \in Version \cup {Unset}
    PROVE  LET j == At(p, f, d, v) IN
           /\ j \in JobRecord
           /\ j.addon = job.addon /\ j.cluster = job.cluster /\ j.uid = job.uid
           /\ j.selected = job.selected /\ j.todo = job.todo
           /\ j.phase = p /\ j.file = f /\ j.doc = d /\ j.from = v
           /\ SamePass(j)
  <1>1. At(p, f, d, v) \in JobRecord
    BY Zenon DEF At, JobRecord
  <1> QED
    BY <1>1 DEF At, JobRecord, SamePass

\* Turning to the next Cluster keeps the job well typed, for the same addon.
LEMMA NextClusterType ==
    ASSUME job \in JobRecord
    PROVE  /\ NextCluster \in JobRecord
           /\ NextCluster.addon = job.addon
           /\ NextCluster.selected = job.selected /\ NextCluster.todo = job.todo
           /\ SamePass(NextCluster)
  <1>1. /\ 0 \in 0..MaxUid /\ CRDs \in Phase /\ 0 \in Nat
        /\ None \in Cluster \cup {None} /\ Unset \in Version \cup {Unset}
    BY FleetAssumption DEF Phase, CRDs, DefaultsChart
  <1>2. NextCluster \in JobRecord
    BY <1>1, Zenon DEF NextCluster, JobRecord
  <1> QED
    BY <1>2 DEF NextCluster, JobRecord, SamePass

\* A job that took an addon.
LEMMA StartedType ==
    ASSUME NEW a \in Addon, addonCache[a] \in AddonRecord
    PROVE  Started(a) \in JobRecord /\ Started(a).addon = a
  <1>1. /\ addonCache[a].selector \in SelectorType
        /\ addonCache[a].version \in Version \cup {Unset}
        /\ addonCache[a].ready \in BOOLEAN
    BY DEF AddonRecord
  <1>2. Started(a) \in JobRecord
    BY <1>1, NoJobType, Zenon DEF Started, JobRecord
  <1> QED
    BY <1>2, NoJobType DEF Started, JobRecord

\* A job that connected to a Cluster keeps its addon and selection.
LEMMA ConnectedType ==
    ASSUME job \in JobRecord, NEW c \in Cluster, clusters[c].uid \in 0..MaxUid,
           job.todo \ {c} \in SUBSET Cluster
    PROVE  LET j == Connected(c) IN
           /\ j \in JobRecord
           /\ j.addon = job.addon /\ j.selected = job.selected
           /\ j.cluster = c /\ j.uid = clusters[c].uid /\ j.todo = job.todo \ {c}
           /\ SamePass(j)
  <1>1. Connected(c) \in JobRecord
    BY Zenon DEF Connected, JobRecord
  <1> QED
    BY <1>1 DEF Connected, JobRecord, SamePass

\* What users make of an addon is an addon.
LEMMA NewAddonType ==
    ASSUME NEW s \in Selector, NEW v \in Version \cup {Unset}
    PROVE  NewAddon(s, v) \in AddonRecord
  BY AddonAssumption DEF AddonRecord, NewAddon, SelectorType

\* An edited spec.
LEMMA EditedType ==
    ASSUME NEW r \in AddonRecord, NEW s \in Selector, NEW v \in Version \cup {Unset}
    PROVE  [r EXCEPT !.selector = s, !.version = v] \in AddonRecord
  <1>1. s \in SelectorType
    BY AddonAssumption DEF SelectorType
  <1> QED
    BY <1>1, Zenon DEF AddonRecord

\* A deletion, with a finalizer or without.
LEMMA DeletedType ==
    ASSUME NEW r \in AddonRecord
    PROVE  [r EXCEPT !.phase = "deleting"] \in AddonRecord /\ NoAddon \in AddonRecord
  <1>1. [r EXCEPT !.phase = "deleting"] \in AddonRecord
    BY Zenon DEF AddonRecord
  <1> QED
    BY <1>1 DEF AddonRecord, NoAddon, NoSelector, SelectorType

\* A merge patch of the status keeps an addon well typed.
LEMMA MergePatchType ==
    ASSUME NEW r \in AddonRecord, NEW x \in BOOLEAN, NEW y \in SUBSET Cluster
    PROVE  [r EXCEPT !.ready = x, !.matching = y] \in AddonRecord
  BY DEF AddonRecord

\* Every step of the running Reconcile that needs no choice of a Cluster keeps
\* the state well typed.
LEMMA ProceedType == TypeOK /\ Proceed => TypeOK'
  <1> SUFFICES ASSUME TypeOK, Proceed PROVE TypeOK'
    OBVIOUS
  <1> USE DEF fleetVars, addonVars, FleetTypeOK, Goto, RemoteCalls
  <1>0. job \in JobRecord
    BY DEF TypeOK
  <1>1. ASSUME Requeue, pc # "idle", UNCHANGED <<fleetVars, addonVars, chart, faults>>
        PROVE  TypeOK'
    BY <1>1, ReturnType DEF Requeue, TypeOK
  <1>2. CASE ListClusters
    <2> DEFINE selected == SelectClusters(GetAllCapiClusters(job.addon), job.selector)
    <2>1. selected \subseteq Cluster
      BY DEF SelectClusters, GetAllCapiClusters
    <2>2. job' \in JobRecord
      BY <1>2, <2>1 DEF ListClusters, TypeOK, JobRecord
    <2>3. job'.addon = job.addon
      BY <1>2 DEF ListClusters, TypeOK, JobRecord
    <2> QED
      BY <1>2, <2>2, <2>3 DEF ListClusters, TypeOK
  <1>3. CASE SelectorInvalid
    BY <1>1, <1>3 DEF SelectorInvalid
  <1>4. CASE VisitedAll
    BY <1>4 DEF VisitedAll, TypeOK
  <1>5. CASE CreateNamespace
    <2>1. job.cluster \in Cluster
      BY <1>5 DEF CreateNamespace, TypeOK
    <2>2. workload' \in [Cluster -> [Object -> Version \cup {Absent, Unversioned}]]
      BY <1>5, <2>1, CreateType, ManifestAssumption DEF CreateNamespace, TypeOK
    <2>3. job' \in JobRecord /\ job'.addon = job.addon /\ job'.cluster = job.cluster
      BY <1>0, <1>5, PhaseType, AtType DEF CreateNamespace
    <2> QED
      BY <1>5, <2>1, <2>2, <2>3 DEF CreateNamespace, TypeOK
  <1>6. CASE DownloadCRDs
    <2>1. AppVersion \in Version
      BY <1>6, AddonAssumption DEF DownloadCRDs
    <2>2. job' \in JobRecord /\ job'.addon = job.addon /\ job'.cluster = job.cluster
          /\ job'.from = AppVersion
      BY <1>0, <1>6, <2>1, PhaseType, AtType DEF DownloadCRDs
    <2> QED
      BY <1>6, <2>1, <2>2 DEF DownloadCRDs, TypeOK
  <1>7. CASE DownloadNotFound
    BY <1>1, <1>7 DEF DownloadNotFound
  <1>8. CASE RenderHelmChart
    <2>1. job.phase \in Phase /\ chart \in Version
      BY <1>0, JobFields DEF TypeOK
    <2>2. job' \in JobRecord /\ job'.addon = job.addon /\ job'.cluster = job.cluster
          /\ job'.from = chart
      BY <1>0, <1>8, <2>1, AtType DEF RenderHelmChart
    <2> QED
      BY <1>8, <2>1, <2>2 DEF RenderHelmChart, TypeOK
  <1>9. CASE ApplyDocument
    <2>1. job.phase \in Phase /\ job.cluster \in Cluster /\ job.from \in Version
      BY <1>0, <1>9, JobFields DEF ApplyDocument, TypeOK
    <2>2. File[job.doc] \in Object
      BY <1>9, <2>1, DocumentType DEF ApplyDocument, File, Files
    <2>3. workload' \in [Cluster -> [Object -> Version \cup {Absent, Unversioned}]]
      BY <1>9, <2>1, <2>2, CreateType DEF ApplyDocument, TypeOK
    <2>4. job.file \in Nat /\ job.doc \in Nat
      BY <1>0, JobFields
    <2>5. job.doc + 1 \in Nat
      BY <2>4
    <2>6. job' \in JobRecord /\ job'.addon = job.addon /\ job'.cluster = job.cluster
          /\ job'.from = job.from
      BY <1>0, <1>9, <2>1, <2>4, <2>5, AtType DEF ApplyDocument
    <2> QED
      BY <1>9, <2>1, <2>3, <2>6 DEF ApplyDocument, TypeOK
  <1>10. CASE EndOfManifest
    <2>1. job.phase \in Phase /\ job.from \in Version /\ job.file \in Nat
      BY <1>0, <1>10, JobFields DEF EndOfManifest, TypeOK
    <2>2. job.file + 1 \in Nat
      BY <2>1
    <2>3. job' \in JobRecord /\ job'.addon = job.addon /\ job'.cluster = job.cluster
          /\ job'.from = job.from
      BY <1>0, <1>10, <2>1, <2>2, AtType DEF EndOfManifest
    <2> QED
      BY <1>10, <2>1, <2>3 DEF EndOfManifest, TypeOK
  <1>11. CASE EndOfPhase
    <2>1. CASE job.phase = DefaultsChart
      BY <1>11, <2>1 DEF EndOfPhase, TypeOK
    <2>2. CASE job.phase # DefaultsChart
      <3>1. job.phase + 1 \in Phase
        BY <1>0, <2>2, JobFields, PhaseType
      <3>2. job' \in JobRecord /\ job'.addon = job.addon /\ job'.cluster = job.cluster
        BY <1>0, <1>11, <2>2, <3>1, AtType DEF EndOfPhase
      <3> QED
        BY <1>11, <2>2, <3>2 DEF EndOfPhase, TypeOK
    <2> QED
      BY <2>1, <2>2
  <1>12. CASE PatchDeployment
    BY <1>12, ManifestAssumption DEF PatchDeployment, Tolerate, TypeOK
  <1>13. CASE PatchPolicyServer
    BY <1>13, ManifestAssumption DEF PatchPolicyServer, Tolerate, TypeOK
  <1>14. CASE PatchNotFound
    BY <1>1, <1>14 DEF PatchNotFound
  <1>15. CASE PatchAuditScanner
    <2>1. faults' = faults \/ Fault
      BY <1>15, Zenon DEF PatchAuditScanner
    <2>2. faults' \in 0..MaxFaults
      <3>1. faults \in 0..MaxFaults
        BY DEF TypeOK
      <3> QED
        BY <2>1, <3>1, CounterType
    <2>3. tolerant' = tolerant \/ Tolerate(AuditScanner)
      BY <1>15, Zenon DEF PatchAuditScanner
    <2>4. tolerant' \in [Cluster -> SUBSET Object]
      <3>1. tolerant \in [Cluster -> SUBSET Object] /\ AuditScanner \in Object
        BY ManifestAssumption DEF TypeOK
      <3> QED
        BY <2>3, <3>1 DEF Tolerate
    <2> QED
      BY <1>15, <2>2, <2>4 DEF PatchAuditScanner, TypeOK
  <1>16. CASE AnnotateCluster
    <2>1. job.cluster \in Cluster
      BY <1>16 DEF AnnotateCluster, TypeOK
    <2>2. [clusters[job.cluster] EXCEPT !.installed = TRUE] \in ClusterRecord
      BY <2>1, MarkRecord DEF TypeOK
    <2>3. clusters' \in [Cluster -> ClusterRecord]
      BY <1>16, <2>1, <2>2 DEF AnnotateCluster, TypeOK
    <2>4. job' \in JobRecord /\ job'.addon = job.addon
      BY <1>0, <1>16, NextClusterType DEF AnnotateCluster
    <2> QED
      BY <1>16, <2>3, <2>4 DEF AnnotateCluster, TypeOK
  <1>17. CASE AnnotateNotFound
    BY <1>1, <1>17 DEF AnnotateNotFound
  <1>18. CASE PatchStatus
    <2>1. job.addon \in Addon /\ job.wasReady \in BOOLEAN /\ job.selected \subseteq Cluster
      BY <1>18 DEF PatchStatus, TypeOK, JobRecord
    <2>2. MergePatch(addons[job.addon], StatusBase, StatusNew) \in AddonRecord
      <3> DEFINE live == addons[job.addon]
                 r == IF StatusNew.ready = StatusBase.ready
                      THEN live.ready ELSE StatusNew.ready
                 m == IF StatusNew.matching = StatusBase.matching
                      THEN live.matching ELSE StatusNew.matching
      <3>1. live \in AddonRecord
        BY <2>1 DEF TypeOK
      <3>2. r \in BOOLEAN
        BY <3>1, Zenon DEF StatusBase, StatusNew, AddonRecord
      <3>3. m \in SUBSET Cluster
        BY <2>1, <3>1 DEF StatusBase, StatusNew, AddonRecord
      <3> QED
        BY <3>1, <3>2, <3>3, MergePatchType DEF MergePatch
    <2>3. addons' \in [Addon -> AddonRecord]
      BY <1>18, <2>1, <2>2 DEF PatchStatus, TypeOK
    <2>4. /\ queue' \subseteq Addon /\ delayed' \subseteq Addon
          /\ pc' = "idle" /\ job' \in JobRecord
      BY <1>18, ReturnType DEF PatchStatus, Done
    <2> QED
      BY <1>18, <2>3, <2>4 DEF PatchStatus, TypeOK
  <1>19. CASE RemoteGone
    BY <1>1, <1>19 DEF RemoteGone, RemoteCalls
  <1> QED
    BY <1>2, <1>3, <1>4, <1>5, <1>6, <1>7, <1>8, <1>9, <1>10, <1>11, <1>12, <1>13,
       <1>14, <1>15, <1>16, <1>17, <1>18, <1>19 DEF Proceed


\* Deciding on one Cluster of the loop keeps the state well typed.
LEMMA VisitType ==
    ASSUME TypeOK, NEW c \in Cluster, VisitCluster(c) PROVE TypeOK'
  <1> USE DEF fleetVars, addonVars, FleetTypeOK, Goto, RemoteCalls
  <1>1. ASSUME Requeue \/ Done, pc # "idle",
               UNCHANGED <<fleetVars, addonVars, chart, faults>>
        PROVE  TypeOK'
    BY <1>1, ReturnType DEF Requeue, Done, TypeOK
  <1>2. CASE VisitUnready(c)
    BY <1>1, <1>2 DEF VisitUnready, Visit
  <1>3. CASE VisitInstalled(c)
    BY <1>1, <1>3 DEF VisitInstalled, Visit
  <1>4. CASE ConnectFails(c)
    BY <1>1, <1>4 DEF ConnectFails, Visit
  <1>5. CASE Connect(c)
    <2>1. /\ job \in JobRecord /\ clusters[c].uid \in 0..MaxUid
          /\ job.todo \ {c} \in SUBSET Cluster
      BY JobFields DEF TypeOK, ClusterRecord
    <2>2. job' = Connected(c)
      BY <1>5 DEF Connect
    <2>3. job' \in JobRecord /\ job'.addon = job.addon /\ job'.cluster = c
      BY <2>1, <2>2, ConnectedType
    <2> QED
      BY <1>5, <2>3 DEF Connect, Visit, TypeOK
  <1> QED
    BY <1>2, <1>3, <1>4, <1>5 DEF VisitCluster

\* Every step keeps the state well typed.
LEMMA TypeStep == TypeOK /\ [Next]_vars => TypeOK'
  <1> SUFFICES ASSUME TypeOK, [Next]_vars PROVE TypeOK'
    OBVIOUS
  <1> USE DEF fleetVars, addonVars, controllerVars, FleetTypeOK
  <1>1. ASSUME NEW a \in Addon, Reconcile(a) PROVE TypeOK'
    <2>1. CASE ReconcileNotFound(a)
      BY <2>1 DEF ReconcileNotFound, vars, TypeOK
    <2>2. CASE ReconcileDeleting(a)
      BY <2>2 DEF ReconcileDeleting, TypeOK
    <2>3. CASE ReconcileLive(a)
      <3>1. addonCache[a] \in AddonRecord
        BY DEF TypeOK
      <3>2. job' \in JobRecord /\ job'.addon = a
        BY <2>3, <3>1, StartedType DEF ReconcileLive
      <3> QED
        BY <2>3, <3>2 DEF ReconcileLive, TypeOK
    <2> QED
      BY <1>1, <2>1, <2>2, <2>3 DEF Reconcile
  <1>2. ASSUME NEW c \in Cluster, VisitCluster(c) PROVE TypeOK'
    BY <1>2, VisitType
  <1>3. CASE Proceed
    BY <1>3, ProceedType
  <1>4. CASE Failure
    <2>0. Fault => faults' \in 0..MaxFaults
      BY CounterType DEF TypeOK
    <2>1. CASE PatchStatusFails
      BY <2>0, <2>1, ReturnType DEF PatchStatusFails, Done, TypeOK
    <2>2. CASE CallFails
      <3>1. job.addon \in Addon
        BY <2>2 DEF CallFails, RemoteCalls, TypeOK
      <3> QED
        BY <2>0, <2>2, <3>1, ReturnType DEF CallFails, Requeue, TypeOK
    <2>3. CASE Restart
      BY <2>0, <2>3, NoJobType DEF Restart, TypeOK
    <2> QED
      BY <1>4, <2>1, <2>2, <2>3 DEF Failure
  <1>5. CASE Event
    <2>1. ASSUME NEW c \in Cluster, ClusterEvent(c) PROVE TypeOK'
      BY <2>1 DEF ClusterEvent, ClusterToKubewardenAddon, Known, TypeOK
    <2>2. ASSUME NEW a \in Addon, AddonEvent(a) PROVE TypeOK'
      BY <2>2 DEF AddonEvent, TypeOK
    <2> QED
      BY <1>5, <2>1, <2>2 DEF Event
  <1>6. CASE Resync \/ \E a \in Addon : DelayPasses(a)
    BY <1>6 DEF Resync, Known, DelayPasses, TypeOK
  <1>7. CASE Environment
    <2>1. ASSUME NEW c \in Cluster, FleetStep(c),
                 UNCHANGED <<addonVars, controllerVars, chart, faults>>
          PROVE  TypeOK'
      BY <2>1, FleetStepEffect DEF TypeOK
    <2>2. ASSUME NEW a \in Addon, NEW r \in AddonRecord, SetAddon(a, r)
          PROVE  TypeOK'
      BY <2>2, CounterType DEF SetAddon, TypeOK
    <2>3. ASSUME NEW a \in Addon, CreateAddon(a) \/ EditAddon(a) \/ DeleteAddon(a)
          PROVE  \E r \in AddonRecord : SetAddon(a, r)
      <3>1. addons[a] \in AddonRecord
        BY DEF TypeOK
      <3>2. CASE CreateAddon(a)
        BY <3>2, AddonAssumption, AdmitType, NewAddonType DEF CreateAddon
      <3>3. CASE EditAddon(a)
        BY <3>1, <3>3, AdmitType, EditedType DEF EditAddon
      <3>4. CASE DeleteAddon(a)
        BY <3>1, <3>4, DeletedType DEF DeleteAddon
      <3> QED
        BY <2>3, <3>2, <3>3, <3>4
    <2>4. CASE PublishChart
      BY <2>4, CounterType DEF PublishChart, TypeOK
    <2> QED
      BY <1>7, <2>1, <2>2, <2>3, <2>4 DEF Environment
  <1>8. CASE UNCHANGED vars
    BY <1>8 DEF vars, TypeOK
  <1> QED
    BY <1>1, <1>2, <1>3, <1>4, <1>5, <1>6, <1>7, <1>8 DEF Next

\* Type correctness: the queue only ever holds addon keys, the running
\* Reconcile has an addon, and a Cluster in hand while it installs.
THEOREM TypeCorrect == Spec => []TypeOK
  BY InitType, TypeStep, PTL DEF Spec


(***************************************************************************)
(* The installation of one Cluster.                                        *)
(***************************************************************************)
\* Create adds the object, and nothing else, to the Cluster in hand.
LEMMA CreateEffect ==
    ASSUME TypeOK, job.cluster \in Cluster, NEW o \in Object,
           NEW v \in Version \cup {Unversioned}, Create(o, v)
    PROVE  \A c \in Cluster, x \in Object :
              OnWorkload(c, x)' <=> OnWorkload(c, x) \/ (c = job.cluster /\ x = o)
  <1>1. v # Absent
    BY VersionAssumption
  <1>2. workload \in [Cluster -> [Object -> Version \cup {Absent, Unversioned}]]
    BY DEF TypeOK, FleetTypeOK
  <1> QED
    BY <1>1, <1>2 DEF Create, OnWorkload

\* A readable document is an object, of the phase it is in.
LEMMA ReadableObject ==
    ASSUME NEW p \in Phase, NEW f \in DOMAIN Manifests[p],
           NEW d \in Readable(Manifests[p][f])
    PROVE  /\ d \in DOMAIN Manifests[p][f]
           /\ Manifests[p][f][d] \in Object
           /\ Manifests[p][f][d] \in ObjectsOf(p)
  <1>1. d \in DOMAIN Manifests[p][f] /\ \A e \in 1..d : Manifests[p][f][e] # NullDoc
    BY DEF Readable
  <1>2. d \in Nat /\ d >= 1
    BY <1>1, ManifestAssumption
  <1>3. Manifests[p][f][d] # NullDoc
    BY <1>1, <1>2
  <1> QED
    BY <1>1, <1>3, DocumentType DEF ObjectsOf

\* Every object of a phase is one of the readable documents: none is behind a
\* null one.
LEMMA ObjectReadable ==
    ASSUME NEW p \in Phase, NEW o \in ObjectsOf(p)
    PROVE  /\ o \in Object
           /\ \E f \in DOMAIN Manifests[p] : \E d \in Readable(Manifests[p][f]) :
                 o = Manifests[p][f][d]
  <1>1. PICK f \in DOMAIN Manifests[p] : \E d \in DOMAIN Manifests[p][f] :
               o = Manifests[p][f][d] /\ o # NullDoc
    BY ManifestAssumption DEF ObjectsOf
  <1>2. PICK d \in DOMAIN Manifests[p][f] : o = Manifests[p][f][d] /\ o # NullDoc
    BY <1>1
  <1>3. Manifests[p][f] \in Seq(Object \cup {NullDoc}) /\ NullsLast(Manifests[p][f])
    BY ManifestAssumption
  <1>4. d \in Nat /\ \A e \in 1..d : e \in DOMAIN Manifests[p][f] /\ (e < d \/ e = d)
    BY <1>3
  <1>5. d \in Readable(Manifests[p][f])
    BY <1>2, <1>3, <1>4 DEF NullsLast, Readable
  <1> QED
    BY <1>2, <1>5 DEF ObjectsOf

\* What is done stays done as long as nothing is taken from the Cluster.
LEMMA DoneStays ==
    ASSUME NEW c \in Cluster, NEW p \in Phase, NEW f \in Nat, NEW d \in Nat,
           \A x \in Object : OnWorkload(c, x) => OnWorkload(c, x)',
           DoneBefore(c, p, f, d)
    PROVE  DoneBefore(c, p, f, d)'
  <1>1. OnWorkload(c, KubewardenNamespace)'
    BY ManifestAssumption DEF DoneBefore
  <1>2. ASSUME NEW q \in Phase, q < p, NEW o \in ObjectsOf(q) PROVE OnWorkload(c, o)'
    BY <1>2, ObjectReadable DEF DoneBefore
  <1>3. ASSUME NEW g \in DOMAIN Manifests[p], NEW e \in Readable(Manifests[p][g]),
               OnWorkload(c, Manifests[p][g][e])
        PROVE  OnWorkload(c, Manifests[p][g][e])'
    BY <1>3, ReadableObject
  <1> QED
    BY <1>1, <1>2, <1>3 DEF DoneBefore

\* With all files of a phase behind, the phase is done.
LEMMA DonePhase ==
    ASSUME NEW c \in Cluster, NEW p \in Phase, NEW f \in Nat, NEW d \in Nat,
           f >= 1, f \notin DOMAIN Manifests[p], DoneBefore(c, p, f, d),
           NEW o \in ObjectsOf(p)
    PROVE  OnWorkload(c, o)
  <1>1. PICK g \in DOMAIN Manifests[p] : \E e \in Readable(Manifests[p][g]) :
           o = Manifests[p][g][e]
    BY ObjectReadable
  <1>2. Manifests[p] \in Seq(Seq(Object \cup {NullDoc}))
    BY ManifestAssumption
  <1>3. g < f
    BY <1>2
  <1> QED
    BY <1>1, <1>3 DEF DoneBefore

(***************************************************************************)
(* The steps that matter to an installation: those of the installation     *)
(* itself, those of the fleet, and the others, which leave both alone or   *)
(* leave the installation.                                                 *)
(***************************************************************************)
Install ==
    \/ CreateNamespace \/ DownloadCRDs \/ RenderHelmChart
    \/ ApplyDocument \/ EndOfManifest \/ EndOfPhase
    \/ PatchDeployment \/ PatchPolicyServer \/ PatchAuditScanner \/ AnnotateCluster

\* A step that leaves the pass and the workload clusters alone.
Unrelated == UNCHANGED <<clusters, workload, tolerant, pc, job>>

\* A step of the pass after which it is not at an installation.
Elsewhere ==
    /\ pc' \notin Installing \cup {"namespace"}
    /\ UNCHANGED <<clusters, workload, tolerant>>
    /\ \/ /\ job'.selected = {} /\ job'.todo = {}
          /\ pc' = "idle" \/ (pc' = "list" /\ \E a \in Addon : ReconcileLive(a))
       \/ pc' = "visit" /\ ListClusters /\ job'.selected = job'.todo
       \/ pc' = "status" /\ pc = "visit" /\ job' = job /\ job.todo = {}

\* A step of the users or of Cluster API on Cluster c.
FleetOnly(c) == FleetStep(c) /\ UNCHANGED <<pc, job>>

\* Every step is one of these.
LEMMA StepCases ==
    ASSUME TypeOK, [Next]_vars
    PROVE  \/ Unrelated
           \/ Elsewhere
           \/ Install
           \/ \E c \in Cluster : Connect(c)
           \/ \E c \in Cluster : FleetOnly(c)
  <1> USE DEF fleetVars, addonVars, controllerVars
  <1>1. ASSUME pc' = "idle", job' = NoJob, UNCHANGED <<clusters, workload, tolerant>>
        PROVE  Elsewhere
    <2>1. job'.selected = {} /\ job'.todo = {}
      BY <1>1 DEF NoJob
    <2> QED
      BY <1>1, <2>1 DEF Elsewhere, Installing, Tolerating
  <1>2. ASSUME NEW a \in Addon, Reconcile(a) PROVE Unrelated \/ Elsewhere
    <2>1. CASE ReconcileNotFound(a) \/ ReconcileDeleting(a)
      BY <2>1 DEF ReconcileNotFound, ReconcileDeleting, vars, Unrelated
    <2>2. CASE ReconcileLive(a)
      <3>1. job'.selected = {} /\ job'.todo = {}
        BY <2>2 DEF ReconcileLive, Started, NoJob
      <3> QED
        BY <2>2, <3>1 DEF ReconcileLive, Elsewhere, Installing, Tolerating
    <2> QED
      BY <1>2, <2>1, <2>2 DEF Reconcile
  <1>3. ASSUME NEW c \in Cluster, VisitCluster(c) PROVE Connect(c) \/ Elsewhere
    BY <1>1, <1>3 DEF VisitCluster, VisitUnready, VisitInstalled, ConnectFails,
                      Requeue, Done, Return
  <1>4. CASE Proceed
    <2>1. CASE SelectorInvalid \/ DownloadNotFound \/ PatchNotFound
               \/ AnnotateNotFound \/ PatchStatus \/ RemoteGone
      BY <1>1, <2>1 DEF SelectorInvalid, DownloadNotFound, PatchNotFound,
            AnnotateNotFound, PatchStatus, RemoteGone, Requeue, Done, Return
    <2>2. CASE ListClusters
      <3>1. job'.selected = job'.todo
        BY <2>2 DEF ListClusters, TypeOK, JobRecord
      <3> QED
        BY <2>2, <3>1 DEF ListClusters, Goto, Elsewhere, Installing, Tolerating
    <2>3. CASE VisitedAll
      BY <2>3 DEF VisitedAll, Goto, Elsewhere, Installing, Tolerating
    <2> QED
      BY <1>4, <2>1, <2>2, <2>3 DEF Proceed, Install
  <1>5. CASE Failure
    BY <1>1, <1>5 DEF Failure, PatchStatusFails, CallFails, Restart,
                      Requeue, Done, Return
  <1>6. CASE Event \/ Resync \/ \E a \in Addon : DelayPasses(a)
    BY <1>6 DEF Event, ClusterEvent, AddonEvent, Resync, DelayPasses, Unrelated
  <1>7. CASE Environment
    <2>1. ASSUME NEW a \in Addon, CreateAddon(a) \/ EditAddon(a) \/ DeleteAddon(a)
          PROVE  Unrelated
      BY <2>1 DEF CreateAddon, EditAddon, DeleteAddon, SetAddon, Unrelated
    <2>2. CASE PublishChart
      BY <2>2 DEF PublishChart, Unrelated
    <2> QED
      BY <1>7, <2>1, <2>2 DEF Environment, FleetOnly
  <1>8. CASE UNCHANGED vars
    BY <1>8 DEF vars, Unrelated
  <1> QED
    BY <1>2, <1>3, <1>4, <1>5, <1>6, <1>7, <1>8 DEF Next

\* Places and manifests.
LEMMA PlaceStep == TypeOK /\ Place /\ [Next]_vars => Place'
  <1> SUFFICES ASSUME TypeOK, Place, [Next]_vars PROVE Place'
    OBVIOUS
  <1> USE DEF Installing, Tolerating, Goto
  <1>0. job \in JobRecord /\ job.phase \in Phase /\ job.file \in Nat /\ job.doc \in Nat
    BY JobFields DEF TypeOK
  <1>1. CASE Unrelated
    BY <1>1 DEF Unrelated, Place, File, Files
  <1>2. CASE Elsewhere
    BY <1>2 DEF Elsewhere, Place
  <1>3. ASSUME NEW c \in Cluster, FleetOnly(c) PROVE Place'
    BY <1>3 DEF FleetOnly, Place, File, Files
  <1>4. ASSUME NEW c \in Cluster, Connect(c) PROVE Place'
    BY <1>4 DEF Connect, Place
  <1>5. CASE CreateNamespace \/ AnnotateCluster
    BY <1>5 DEF CreateNamespace, AnnotateCluster, Place
  <1>6. CASE DownloadCRDs \/ RenderHelmChart
    <2>1. PICK v \in Version \cup {Unset} : job' = At(job.phase, 1, 1, v)
      BY <1>6, AddonAssumption DEF DownloadCRDs, RenderHelmChart, TypeOK
    <2>2. job'.phase = job.phase /\ job'.file = 1 /\ job'.doc = 1
      BY <1>0, <2>1, AtType
    <2>3. pc' = "apply"
      BY <1>6 DEF DownloadCRDs, RenderHelmChart
    <2>4. ASSUME 1 \in DOMAIN Manifests[job.phase],
                 NEW e \in DOMAIN Manifests[job.phase][1]
          PROVE  ~(e < 1)
      BY <1>0, <2>4, ManifestAssumption
    <2>5. job'.file >= 1 /\ job'.doc >= 1
      BY <2>2
    <2> QED
      BY <2>2, <2>3, <2>4, <2>5, Zenon DEF Place, File, Files
  <1>7. CASE ApplyDocument
    <2>1. job.from \in Version /\ job.doc + 1 \in Nat
      BY <1>0, <1>7 DEF ApplyDocument, TypeOK
    <2>2. job'.phase = job.phase /\ job'.file = job.file /\ job'.doc = job.doc + 1
      BY <1>0, <1>7, <2>1, AtType DEF ApplyDocument
    <2>3. /\ pc = "apply" /\ pc' = "apply"
          /\ job.file \in DOMAIN Files /\ File[job.doc] # NullDoc
      BY <1>7 DEF ApplyDocument
    <2>4. ASSUME NEW e \in DOMAIN File, e < job.doc + 1 PROVE File[e] # NullDoc
      <3>1. e \in Nat
        BY <1>0, <2>3, ManifestAssumption DEF File, Files
      <3>2. e < job.doc \/ e = job.doc
        BY <1>0, <2>4, <3>1
      <3> QED
        BY <2>3, <3>2 DEF Place
    <2>5. job.file >= 1 /\ job.doc + 1 >= 1
      BY <1>0, <2>3 DEF Place
    <2> QED
      BY <2>2, <2>3, <2>4, <2>5 DEF Place, File, Files
  <1>8. CASE EndOfManifest
    <2>1. job.from \in Version /\ job.file + 1 \in Nat
      BY <1>0, <1>8 DEF EndOfManifest, TypeOK
    <2>2. job'.phase = job.phase /\ job'.file = job.file + 1 /\ job'.doc = 1
      BY <1>0, <1>8, <2>1, AtType DEF EndOfManifest
    <2>3. pc' = "apply"
      BY <1>8 DEF EndOfManifest
    <2>4. ASSUME job.file + 1 \in DOMAIN Manifests[job.phase],
                 NEW e \in DOMAIN Manifests[job.phase][job.file + 1]
          PROVE  ~(e < 1)
      BY <1>0, <2>4, ManifestAssumption
    <2>5. job'.file >= 1 /\ job'.doc >= 1
      BY <1>0, <2>2
    <2> QED
      BY <2>2, <2>3, <2>4, <2>5, Zenon DEF Place, File, Files
  <1>9. CASE EndOfPhase
    BY <1>9 DEF EndOfPhase, Place, Files
  <1>10. CASE PatchDeployment \/ PatchPolicyServer \/ PatchAuditScanner
    BY <1>10 DEF PatchDeployment, PatchPolicyServer, PatchAuditScanner, Place, Files
  <1> QED
    BY <1>1, <1>2, <1>3, <1>4, <1>5, <1>6, <1>7, <1>8, <1>9, <1>10, StepCases DEF Install

\* What a step of the fleet does to one Cluster: its incarnation grows or
\* stays, its objects stay or go with it.
LEMMA FleetEffect ==
    ASSUME TypeOK, Incarnations, NEW c \in Cluster, FleetStep(c), NEW k \in Cluster
    PROVE  /\ clusters[k].uid \in Nat /\ clusters'[k].uid \in Nat
           /\ clusters'[k].uid >= clusters[k].uid
           /\ clusters'[k].present => clusters'[k].uid >= 1
           /\ \/ ~clusters'[k].present
              \/ clusters'[k].uid > clusters[k].uid
              \/ /\ clusters[k].present
                 /\ clusters'[k].uid = clusters[k].uid
                 /\ clusters'[k].installed = clusters[k].installed
                 /\ workload'[k] = workload[k] /\ tolerant'[k] = tolerant[k]
           /\ clusters'[k].installed =>
                 /\ clusters[k].installed
                 /\ workload'[k] = workload[k] /\ tolerant'[k] = tolerant[k]
           /\ workload'[k] = workload[k] \/ workload'[k] = Bare
  <1>1. Deleted(k) \/ Created(k) \/ Kept(k)
    BY FleetStepEffect DEF TypeOK
  <1>2. clusters[k].uid \in Nat /\ clusters'[k].uid \in Nat
    <2>1. FleetTypeOK /\ FleetTypeOK'
      BY FleetStepEffect DEF TypeOK
    <2> QED
      BY <2>1, FleetAssumption DEF FleetTypeOK, ClusterRecord
  <1>3. clusters[k].present => clusters[k].uid >= 1
    BY DEF Incarnations
  <1>4. CASE Deleted(k)
    BY <1>2, <1>4 DEF Deleted
  <1>5. CASE Created(k)
    BY <1>2, <1>5 DEF Created
  <1>6. CASE Kept(k)
    BY <1>2, <1>3, <1>6 DEF Kept
  <1> QED
    BY <1>1, <1>4, <1>5, <1>6

\* Marking a Cluster changes its mark only.
LEMMA AnnotateEffect ==
    ASSUME TypeOK, AnnotateCluster, NEW k \in Cluster
    PROVE  /\ clusters'[k].present = clusters[k].present
           /\ clusters'[k].uid = clusters[k].uid
           /\ clusters'[k].installed <=> clusters[k].installed \/ k = job.cluster
  <1>1. job.cluster \in Cluster
    BY DEF AnnotateCluster, TypeOK
  <1>2. clusters \in [Cluster -> ClusterRecord] /\ clusters[k] \in ClusterRecord
    BY DEF TypeOK, FleetTypeOK
  <1>3. CASE k # job.cluster
    BY <1>1, <1>2, <1>3 DEF AnnotateCluster
  <1>4. CASE k = job.cluster
    <2>1. clusters'[k] = [clusters[k] EXCEPT !.installed = TRUE]
      BY <1>1, <1>2, <1>4 DEF AnnotateCluster
    <2> QED
      BY <1>2, <1>4, <2>1, Zenon DEF ClusterRecord
  <1> QED
    BY <1>3, <1>4

\* The installation moves on within one job: same Cluster, same incarnation.
LEMMA InstallKeeps ==
    ASSUME TypeOK, Install, ~AnnotateCluster
    PROVE  /\ job.cluster \in Cluster
           /\ job'.cluster = job.cluster /\ job'.uid = job.uid
           /\ job'.selected = job.selected /\ job'.todo = job.todo
           /\ SamePass(job')
           /\ clusters' = clusters
           /\ pc \in Installing \cup {"namespace"} /\ pc' \in Installing
  <1>0. job \in JobRecord /\ job.phase \in Phase /\ job.file \in Nat /\ job.doc \in Nat
    BY JobFields DEF TypeOK
  <1>1. job.file + 1 \in Nat /\ job.doc + 1 \in Nat
    BY <1>0
  <1>2. CASE CreateNamespace
    BY <1>0, <1>2, PhaseType, AtType DEF CreateNamespace, TypeOK, Installing, Goto
  <1>3. CASE DownloadCRDs
    BY <1>0, <1>3, PhaseType, AtType, AddonAssumption
    DEF DownloadCRDs, fleetVars, TypeOK, Installing, Goto
  <1>4. CASE RenderHelmChart
    BY <1>0, <1>4, AtType DEF RenderHelmChart, fleetVars, TypeOK, Installing, Goto
  <1>5. CASE ApplyDocument
    BY <1>0, <1>1, <1>5, AtType DEF ApplyDocument, TypeOK, Installing, Goto
  <1>6. CASE EndOfManifest
    BY <1>0, <1>1, <1>6, AtType DEF EndOfManifest, fleetVars, TypeOK, Installing, Goto
  <1>7. CASE EndOfPhase
    <2>1. pc = "apply" /\ clusters' = clusters /\ job.cluster \in Cluster
      BY <1>7 DEF EndOfPhase, fleetVars, TypeOK
    <2>2. CASE job.phase = DefaultsChart
      <3>1. job' = job /\ pc' = "deployment"
        BY <1>7, <2>2 DEF EndOfPhase, Goto
      <3> QED
        BY <2>1, <3>1 DEF Installing, Tolerating, SamePass
    <2>3. CASE job.phase # DefaultsChart
      <3>1. job' = At(job.phase + 1, 0, 0, Unset) /\ pc' = "fetch"
        BY <1>7, <2>3 DEF EndOfPhase, Goto
      <3>2. job.phase + 1 \in Phase /\ 0 \in Nat
        BY <1>0, <2>3, PhaseType
      <3> QED
        BY <1>0, <2>1, <3>1, <3>2, AtType DEF Installing
    <2> QED
      BY <2>2, <2>3
  <1>8. CASE PatchDeployment \/ PatchPolicyServer \/ PatchAuditScanner
    BY <1>8 DEF PatchDeployment, PatchPolicyServer, PatchAuditScanner, TypeOK,
                Installing, Tolerating, Goto, SamePass
  <1> QED
    BY <1>2, <1>3, <1>4, <1>5, <1>6, <1>7, <1>8 DEF Install

\* A job's incarnation is never younger than the name's present one.
LEMMA IncarnationsStep == TypeOK /\ Incarnations /\ [Next]_vars => Incarnations'
  <1> SUFFICES ASSUME TypeOK, Incarnations, [Next]_vars PROVE Incarnations'
    OBVIOUS
  <1>1. CASE Unrelated
    BY <1>1 DEF Unrelated, Incarnations
  <1>2. CASE Elsewhere
    BY <1>2 DEF Elsewhere, Incarnations
  <1>3. ASSUME NEW c \in Cluster, FleetOnly(c) PROVE Incarnations'
    <2>1. \A k \in Cluster : clusters'[k].present => clusters'[k].uid >= 1
      BY <1>3, FleetEffect DEF FleetOnly
    <2>2. ASSUME pc \in Installing \cup {"namespace"}
          PROVE  job.uid >= 1 /\ job.uid <= clusters'[job.cluster].uid
      <3>1. job.cluster \in Cluster
        BY <2>2 DEF TypeOK, Installing, Tolerating
      <3>2. /\ clusters[job.cluster].uid \in Nat /\ clusters'[job.cluster].uid \in Nat
            /\ clusters'[job.cluster].uid >= clusters[job.cluster].uid
        BY <1>3, <3>1, FleetEffect DEF FleetOnly
      <3>3. job.uid \in 0..MaxUid
        BY JobFields DEF TypeOK
      <3>4. job.uid >= 1 /\ job.uid <= clusters[job.cluster].uid
        BY <2>2 DEF Incarnations
      <3> QED
        BY <3>2, <3>3, <3>4
    <2>3. pc' = pc /\ job' = job
      BY <1>3 DEF FleetOnly
    <2> QED
      BY <2>1, <2>2, <2>3 DEF Incarnations
  <1>4. ASSUME NEW c \in Cluster, Connect(c) PROVE Incarnations'
    <2>1. /\ job \in JobRecord /\ job.todo \ {c} \in SUBSET Cluster
          /\ clusters[c].uid \in 0..MaxUid
      BY JobFields DEF TypeOK, FleetTypeOK, ClusterRecord
    <2>2. job'.cluster = c /\ job'.uid = clusters[c].uid
      BY <1>4, <2>1, ConnectedType DEF Connect
    <2>3. clusters' = clusters /\ clusters[c].uid >= 1
      BY <1>4 DEF Connect, fleetVars, Incarnations
    <2>4. clusters[c].uid <= clusters[c].uid
      BY <2>1
    <2> QED
      BY <2>2, <2>3, <2>4 DEF Incarnations
  <1>5. CASE AnnotateCluster
    <2>1. pc' \notin Installing \cup {"namespace"}
      BY <1>5 DEF AnnotateCluster, Goto, Installing, Tolerating
    <2> QED
      BY <1>5, <2>1, AnnotateEffect DEF Incarnations
  <1>6. CASE Install /\ ~AnnotateCluster
    BY <1>6, InstallKeeps DEF Incarnations
  <1> QED
    BY <1>1, <1>2, <1>3, <1>4, <1>5, <1>6, StepCases

\* What the installation has put on the Cluster in hand is there.
LEMMA ProgressStep ==
    TypeOK /\ Place /\ Incarnations /\ Progress /\ [Next]_vars => Progress'
  <1> SUFFICES ASSUME TypeOK, Place, Incarnations, Progress, [Next]_vars,
                      pc' \in Installing, Remote'
               PROVE  /\ DoneBefore(job.cluster, job.phase, job.file, job.doc)'
                      /\ pc' \in Tolerating \ {"deployment"} =>
                            Deployment \in tolerant'[job'.cluster]
                      /\ pc' \in {"audit scanner", "annotate"} =>
                            PolicyServer \in tolerant'[job'.cluster]
    BY DEF Progress
  <1>0. job \in JobRecord /\ job.phase \in Phase /\ job.file \in Nat /\ job.doc \in Nat
    BY JobFields DEF TypeOK
  <1>00. job.file + 1 \in Nat /\ job.doc + 1 \in Nat /\ 0 \in Nat /\ 1 \in Nat
    BY <1>0
  <1>1. CASE Unrelated
    BY <1>1 DEF Unrelated, Progress, Remote, Reaches, DoneBefore, OnWorkload
  <1>2. CASE Elsewhere
    BY <1>2 DEF Elsewhere
  <1>3. ASSUME NEW c \in Cluster, FleetOnly(c) PROVE Progress'
    <2>1. pc' = pc /\ job' = job
      BY <1>3 DEF FleetOnly
    <2>2. job.cluster \in Cluster
      BY <2>1 DEF TypeOK, Installing, Tolerating
    <2>3. /\ clusters'[job.cluster].present /\ clusters'[job.cluster].uid = job.uid
      BY <2>1 DEF Remote, Reaches
    <2>4. job.uid <= clusters[job.cluster].uid /\ job.uid \in Nat
      <3>1. job.uid \in 0..MaxUid
        BY <1>0, JobFields
      <3>2. job.uid <= clusters[job.cluster].uid
        BY <2>1 DEF Incarnations
      <3> QED
        BY <3>1, <3>2, FleetAssumption
    <2>5. /\ clusters[job.cluster].present /\ clusters[job.cluster].uid = job.uid
          /\ workload'[job.cluster] = workload[job.cluster]
          /\ tolerant'[job.cluster] = tolerant[job.cluster]
      <3>1. clusters[job.cluster].uid \in Nat
        BY <1>3, <2>2, FleetEffect DEF FleetOnly
      <3>2. ~(clusters'[job.cluster].uid > clusters[job.cluster].uid)
        BY <2>3, <2>4, <3>1
      <3> QED
        BY <1>3, <2>2, <2>3, <3>2, FleetEffect DEF FleetOnly
    <2> QED
      BY <2>1, <2>5 DEF Progress, Remote, Reaches, DoneBefore, OnWorkload
  <1>4. ASSUME NEW c \in Cluster, Connect(c) PROVE Progress'
    BY <1>4 DEF Connect, Goto, Installing, Tolerating
  <1>5. CASE AnnotateCluster
    BY <1>5 DEF AnnotateCluster, Goto, Installing, Tolerating
  <1>6. CASE Install /\ ~AnnotateCluster
    <2>. PICK k \in Cluster, p \in Phase, f \in Nat, d \in Nat :
            k = job.cluster /\ p = job.phase /\ f = job.file /\ d = job.doc
      BY <1>0, <1>6, InstallKeeps
    <2>0. job'.cluster = k /\ job'.uid = job.uid /\ clusters' = clusters
      BY <1>6, InstallKeeps
    <2>1. Remote
      BY <2>0 DEF Remote, Reaches
    <2>2. pc \in Installing => DoneBefore(k, p, f, d)
      BY <2>1 DEF Progress
    <2>3. CASE CreateNamespace
      <3>1. OnWorkload(k, KubewardenNamespace)'
        BY <2>3, CreateEffect, ManifestAssumption DEF CreateNamespace
      <3>2. job'.phase = CRDs /\ job'.file = 0 /\ job'.doc = 0 /\ pc' = "fetch"
        BY <1>0, <1>00, <2>3, PhaseType, AtType DEF CreateNamespace, Goto
      <3>3. DoneBefore(k, CRDs, 0, 0)'
        <4>1. ASSUME NEW q \in Phase PROVE ~(q < CRDs)
          BY DEF Phase, CRDs, DefaultsChart
        <4>2. ASSUME NEW g \in DOMAIN Manifests[CRDs] PROVE ~(g < 0) /\ g # 0
          BY PhaseType, ManifestAssumption
        <4> QED
          BY <3>1, <4>1, <4>2, Zenon DEF DoneBefore
      <3> QED
        BY <2>0, <3>2, <3>3 DEF Tolerating
    <2>4. CASE DownloadCRDs \/ RenderHelmChart
      <3>1. pc = "fetch" /\ pc' = "apply" /\ workload' = workload
        BY <2>4 DEF DownloadCRDs, RenderHelmChart, Goto, fleetVars
      <3>2. PICK v \in Version \cup {Unset} : job' = At(p, 1, 1, v)
        BY <2>4, AddonAssumption DEF DownloadCRDs, RenderHelmChart, TypeOK
      <3>3. job'.phase = p /\ job'.file = 1 /\ job'.doc = 1
        BY <1>0, <1>00, <3>2, AtType
      <3>4. DoneBefore(k, p, 1, 1)
        <4>1. DoneBefore(k, p, f, d)
          BY <2>2, <3>1 DEF Installing
        <4>2. ASSUME NEW g \in DOMAIN Manifests[p] PROVE ~(g < 1)
          BY ManifestAssumption
        <4>3. ASSUME 1 \in DOMAIN Manifests[p], NEW e \in Readable(Manifests[p][1])
              PROVE  ~(e < 1)
          BY <4>3, ManifestAssumption DEF Readable
        <4> QED
          BY <4>1, <4>2, <4>3, Zenon DEF DoneBefore
      <3>5. DoneBefore(k, p, 1, 1)'
        BY <3>1, <3>4, <1>00, DoneStays DEF OnWorkload
      <3> QED
        BY <2>0, <3>1, <3>3, <3>5 DEF Tolerating
    <2>5. CASE ApplyDocument
      <3>1. pc = "apply" /\ pc' = "apply" /\ job.from \in Version
        BY <2>5 DEF ApplyDocument, Goto, TypeOK
      <3>2. job'.phase = p /\ job'.file = f /\ job'.doc = d + 1
        BY <1>0, <1>00, <2>5, <3>1, AtType DEF ApplyDocument
      <3>3. DoneBefore(k, p, f, d)
        BY <2>2, <3>1 DEF Installing
      <3>. PICK o : o = Manifests[p][f][d]
        OBVIOUS
      <3>4. o \in Object /\ f \in DOMAIN Manifests[p]
        BY <2>5, DocumentType DEF ApplyDocument, File, Files
      <3>5. Create(o, job.from)
        BY <2>5 DEF ApplyDocument, File, Files
      <3>6. \A x \in Object : OnWorkload(k, x)' <=> OnWorkload(k, x) \/ x = o
        BY <3>1, <3>4, <3>5, CreateEffect
      <3>7. DoneBefore(k, p, f, d)'
        BY <3>3, <3>6, DoneStays
      <3>8. DoneBefore(k, p, f, d + 1)'
        <4>1. ASSUME NEW e \in Readable(Manifests[p][f]), e < d + 1
              PROVE  OnWorkload(k, Manifests[p][f][e])'
          <5>1. e \in Nat
            BY <3>4, ManifestAssumption DEF Readable
          <5>2. e < d \/ e = d
            BY <4>1, <5>1
          <5>3. CASE e = d
            BY <3>4, <3>6, <5>3
          <5>4. CASE e < d
            BY <3>4, <3>7, <5>4 DEF DoneBefore
          <5> QED
            BY <5>2, <5>3, <5>4
        <4> QED
          BY <3>7, <4>1, Zenon DEF DoneBefore
      <3> QED
        BY <2>0, <3>1, <3>2, <3>8 DEF Tolerating
    <2>6. CASE EndOfManifest
      <3>1. pc = "apply" /\ pc' = "apply" /\ workload' = workload /\ job.from \in Version
        BY <2>6 DEF EndOfManifest, Goto, fleetVars, TypeOK
      <3>2. job'.phase = p /\ job'.file = f + 1 /\ job'.doc = 1
        BY <1>0, <1>00, <2>6, <3>1, AtType DEF EndOfManifest
      <3>3. DoneBefore(k, p, f, d)
        BY <2>2, <3>1 DEF Installing
      <3>4. ASSUME NEW e \in Readable(Manifests[p][f]) PROVE e < d
        <4>0. f \in DOMAIN Manifests[p]
          BY <2>6 DEF EndOfManifest, Files
        <4>00. Manifests[p] \in Seq(Seq(Object \cup {NullDoc}))
          BY ManifestAssumption
        <4>000. Manifests[p][f] \in Seq(Object \cup {NullDoc})
          BY <4>0, <4>00
        <4>1. /\ e \in DOMAIN Manifests[p][f]
              /\ \A x \in 1..e : Manifests[p][f][x] # NullDoc
              /\ e \in Nat
          BY <4>000 DEF Readable
        <4>2. d >= 1
          BY <3>1 DEF Place
        <4>3. d \in DOMAIN Manifests[p][f] => Manifests[p][f][d] = NullDoc
          BY <2>6 DEF EndOfManifest, File, Files
        <4> QED
          BY <1>0, <4>000, <4>1, <4>2, <4>3
      <3>5. DoneBefore(k, p, f + 1, 1)
        <4>1. ASSUME NEW g \in DOMAIN Manifests[p], g < f + 1,
                     NEW e \in Readable(Manifests[p][g])
              PROVE  OnWorkload(k, Manifests[p][g][e])
          <5>1. g \in Nat
            BY ManifestAssumption
          <5>2. g < f \/ g = f
            BY <4>1, <5>1
          <5> QED
            BY <3>3, <3>4, <5>2 DEF DoneBefore
        <4>2. ASSUME f + 1 \in DOMAIN Manifests[p], NEW e \in Readable(Manifests[p][f + 1])
              PROVE  ~(e < 1)
          BY <4>2, ManifestAssumption DEF Readable
        <4> QED
          BY <3>3, <4>1, <4>2, Zenon DEF DoneBefore
      <3>6. DoneBefore(k, p, f + 1, 1)'
        BY <3>1, <3>5, <1>00, DoneStays DEF OnWorkload
      <3> QED
        BY <2>0, <3>1, <3>2, <3>6 DEF Tolerating
    <2>7. CASE EndOfPhase
      <3>1. pc = "apply" /\ workload' = workload
        BY <2>7 DEF EndOfPhase, fleetVars
      <3>2. DoneBefore(k, p, f, d)
        BY <2>2, <3>1 DEF Installing
      <3>3. CASE p = DefaultsChart
        <4>1. pc' = "deployment" /\ job' = job
          BY <2>7, <3>3 DEF EndOfPhase, Goto
        <4>2. DoneBefore(k, p, f, d)'
          BY <3>1, <3>2, DoneStays DEF OnWorkload
        <4> QED
          BY <4>1, <4>2 DEF Tolerating
      <3>4. CASE p # DefaultsChart
        <4>1. p + 1 \in Phase /\ pc' = "fetch"
          BY <2>7, <3>4, PhaseType DEF EndOfPhase, Goto
        <4>2. job'.phase = p + 1 /\ job'.file = 0 /\ job'.doc = 0
          BY <1>0, <1>00, <2>7, <3>4, <4>1, AtType DEF EndOfPhase
        <4>3. \A o \in ObjectsOf(p) : OnWorkload(k, o)
          <5>1. f >= 1 /\ f \notin DOMAIN Manifests[p]
            BY <2>7, <3>1 DEF Place, EndOfPhase, Files
          <5> QED
            BY <3>2, <5>1, DonePhase
        <4>4. DoneBefore(k, p + 1, 0, 0)
          <5>1. ASSUME NEW q \in Phase, q < p + 1 PROVE q < p \/ q = p
            BY <5>1 DEF Phase, CRDs, DefaultsChart
          <5>2. ASSUME NEW g \in DOMAIN Manifests[p + 1] PROVE ~(g < 0) /\ g # 0
            BY <4>1, ManifestAssumption
          <5> QED
            BY <3>2, <4>3, <5>1, <5>2, Zenon DEF DoneBefore
        <4>5. DoneBefore(k, p + 1, 0, 0)'
          BY <3>1, <4>1, <4>4, <1>00, DoneStays DEF OnWorkload
        <4> QED
          BY <2>0, <4>1, <4>2, <4>5 DEF Tolerating
      <3> QED
        BY <3>3, <3>4
    <2>8. CASE PatchDeployment \/ PatchPolicyServer \/ PatchAuditScanner
      <3>1. /\ pc \in Tolerating /\ job' = job /\ workload' = workload
            /\ tolerant \in [Cluster -> SUBSET Object]
        BY <2>8 DEF PatchDeployment, PatchPolicyServer, PatchAuditScanner,
                    Tolerating, TypeOK, FleetTypeOK
      <3>2. DoneBefore(k, p, f, d)'
        BY <2>2, <3>1, DoneStays DEF Installing, OnWorkload
      <3>3. CASE PatchDeployment
        BY <2>0, <3>1, <3>2, <3>3 DEF PatchDeployment, Goto, Tolerate, Tolerating
      <3>4. CASE PatchPolicyServer
        <4>1. Deployment \in tolerant[k]
          BY <2>1, <3>4 DEF Progress, PatchPolicyServer, Tolerating, Installing
        <4> QED
          BY <2>0, <3>1, <3>2, <3>4, <4>1 DEF PatchPolicyServer, Goto, Tolerate
      <3>5. CASE PatchAuditScanner
        <4>1. Deployment \in tolerant[k] /\ PolicyServer \in tolerant[k]
          BY <2>1, <3>5 DEF Progress, PatchAuditScanner, Tolerating, Installing
        <4>2. tolerant' = tolerant \/ Tolerate(AuditScanner)
          BY <3>5, Zenon DEF PatchAuditScanner
        <4>3. tolerant[k] \subseteq tolerant'[k]
          BY <2>0, <3>1, <4>2 DEF Tolerate
        <4> QED
          BY <2>0, <3>1, <3>2, <4>1, <4>3
      <3> QED
        BY <2>8, <3>3, <3>4, <3>5
    <2> QED
      BY <1>6, <2>3, <2>4, <2>5, <2>6, <2>7, <2>8 DEF Install
  <1> QED
    BY <1>1, <1>2, <1>3, <1>4, <1>5, <1>6, StepCases DEF Progress

(***************************************************************************)
(* InstallOrder.                                                           *)
(***************************************************************************)
\* A step that adds no object of a phase, or adds it when all before it is
\* there, keeps the order.
LEMMA InstallOrderStep ==
    TypeOK /\ Place /\ Incarnations /\ Progress /\ InstallOrder /\ [Next]_vars
        => InstallOrder'
  <1> SUFFICES ASSUME TypeOK, Place, Incarnations, Progress, InstallOrder, [Next]_vars
               PROVE  InstallOrder'
    OBVIOUS
  <1>0. job \in JobRecord /\ job.phase \in Phase /\ job.file \in Nat /\ job.doc \in Nat
    BY JobFields DEF TypeOK
  <1>1. CASE workload' = workload
    BY <1>1 DEF InstallOrder, OnWorkload
  <1>2. ASSUME NEW c \in Cluster, FleetOnly(c) PROVE InstallOrder'
    <2>1. \A k \in Cluster : workload'[k] = workload[k] \/ workload'[k] = Bare
      BY <1>2, FleetEffect DEF FleetOnly
    <2>2. SUFFICES ASSUME NEW k \in Cluster, NEW p \in Phase, NEW o \in ObjectsOf(p),
                          OnWorkload(k, o)'
                   PROVE  /\ OnWorkload(k, KubewardenNamespace)'
                          /\ \A q \in Phase : q < p =>
                                \A x \in ObjectsOf(q) : OnWorkload(k, x)'
      BY DEF InstallOrder
    <2>3. workload'[k] = workload[k]
      BY <2>1, <2>2, ObjectReadable DEF OnWorkload, Bare
    <2> QED
      BY <2>2, <2>3 DEF InstallOrder, OnWorkload
  <1>3. CASE CreateNamespace
    <2>1. job.cluster \in Cluster
      BY <1>3 DEF CreateNamespace, TypeOK
    <2>2. \A c \in Cluster, x \in Object : OnWorkload(c, x)' <=>
             OnWorkload(c, x) \/ (c = job.cluster /\ x = KubewardenNamespace)
      BY <1>3, <2>1, CreateEffect, ManifestAssumption DEF CreateNamespace
    <2>3. \A c \in Cluster, p \in Phase : \A o \in ObjectsOf(p) :
             OnWorkload(c, o)' <=> OnWorkload(c, o)
      BY <2>2, ObjectReadable, ManifestAssumption
    <2>4. \A c \in Cluster : OnWorkload(c, KubewardenNamespace) =>
             OnWorkload(c, KubewardenNamespace)'
      BY <2>2, ManifestAssumption
    <2> QED
      BY <2>3, <2>4 DEF InstallOrder
  <1>4. CASE ApplyDocument
    <2>1. /\ job.cluster \in Cluster /\ job.from \in Version
          /\ pc = "apply" /\ Remote
      BY <1>4 DEF ApplyDocument, TypeOK
    <2>. PICK k \in Cluster, p \in Phase, f \in Nat, d \in Nat :
            k = job.cluster /\ p = job.phase /\ f = job.file /\ d = job.doc
      BY <1>0, <2>1
    <2>2. /\ f \in DOMAIN Manifests[p] /\ d \in DOMAIN Manifests[p][f]
          /\ Manifests[p][f][d] # NullDoc
          /\ Create(Manifests[p][f][d], job.from)
      BY <1>4 DEF ApplyDocument, File, Files
    <2>3. d \in Readable(Manifests[p][f])
      <3>1. ASSUME NEW e \in 1..d PROVE Manifests[p][f][e] # NullDoc
        <4>1. e \in DOMAIN Manifests[p][f] /\ (e < d \/ e = d)
          BY <2>2, ManifestAssumption
        <4> QED
          BY <2>1, <2>2, <4>1 DEF Place, File, Files
      <3> QED
        BY <2>2, <3>1 DEF Readable
    <2>. PICK o : o = Manifests[p][f][d]
      OBVIOUS
    <2>4. o \in Object /\ o \in ObjectsOf(p)
      BY <2>2, <2>3, ReadableObject
    <2>5. \A c \in Cluster, x \in Object :
             OnWorkload(c, x)' <=> OnWorkload(c, x) \/ (c = k /\ x = o)
      BY <2>1, <2>2, <2>4, CreateEffect
    <2>6. /\ OnWorkload(k, KubewardenNamespace)
          /\ \A q \in Phase : q < p => \A x \in ObjectsOf(q) : OnWorkload(k, x)
      BY <2>1 DEF Progress, DoneBefore, Installing
    <2>7. SUFFICES ASSUME NEW c \in Cluster, NEW r \in Phase, NEW y \in ObjectsOf(r),
                          OnWorkload(c, y)'
                   PROVE  /\ OnWorkload(c, KubewardenNamespace)'
                          /\ \A q \in Phase : q < r =>
                                \A x \in ObjectsOf(q) : OnWorkload(c, x)'
      BY DEF InstallOrder
    <2>8. /\ OnWorkload(c, KubewardenNamespace)
          /\ \A q \in Phase : q < r => \A x \in ObjectsOf(q) : OnWorkload(c, x)
      <3>1. CASE OnWorkload(c, y)
        BY <3>1 DEF InstallOrder
      <3>2. CASE ~OnWorkload(c, y)
        <4>1. c = k /\ y = o
          BY <2>5, <2>7, <3>2, ObjectReadable
        <4>2. r = p
          BY <2>4, <4>1, ManifestAssumption
        <4> QED
          BY <2>6, <4>1, <4>2
      <3> QED
        BY <3>1, <3>2
    <2>9. OnWorkload(c, KubewardenNamespace)'
      BY <2>5, <2>8, ManifestAssumption
    <2>10. ASSUME NEW q \in Phase, q < r, NEW x \in ObjectsOf(q) PROVE OnWorkload(c, x)'
      BY <2>5, <2>8, <2>10, ObjectReadable
    <2> QED
      BY <2>9, <2>10
  <1>5. CASE Install /\ ~CreateNamespace /\ ~ApplyDocument
    BY <1>1, <1>5 DEF Install, DownloadCRDs, RenderHelmChart, EndOfManifest, EndOfPhase,
          PatchDeployment, PatchPolicyServer, PatchAuditScanner, AnnotateCluster, fleetVars
  <1>6. CASE Unrelated \/ Elsewhere \/ \E c \in Cluster : Connect(c)
    BY <1>1, <1>6 DEF Unrelated, Elsewhere, Connect, fleetVars
  <1> QED
    BY <1>2, <1>3, <1>4, <1>5, <1>6, StepCases

\* The invariant of an installation.
InstallInv == TypeOK /\ Place /\ Incarnations /\ Progress /\ InstallOrder

\* The invariant of an installation holds at the start.
LEMMA InstallInvInit == Init => InstallInv
  <1> SUFFICES ASSUME Init PROVE InstallInv
    OBVIOUS
  <1>1. TypeOK
    BY InitType
  <1>2. pc = "idle"
    BY DEF Init
  <1>3. Place /\ Progress
    BY <1>2 DEF Place, Progress, Installing, Tolerating
  <1>4. Incarnations
    <2>1. \A c \in Cluster : clusters[c] = Gone(0) \/ clusters[c] \in Unmarked
      BY DEF Init, FleetInit
    <2>2. ~Gone(0).present
      BY DEF Gone
    <2>3. \A r \in Unmarked : r.uid >= 1
      BY DEF Unmarked
    <2> QED
      BY <1>2, <2>1, <2>2, <2>3 DEF Incarnations, Installing, Tolerating
  <1>5. InstallOrder
    BY ObjectReadable DEF InstallOrder, OnWorkload, Init, FleetInit, Bare
  <1> QED
    BY <1>1, <1>3, <1>4, <1>5 DEF InstallInv

\* Every step keeps it.
LEMMA InstallInvStep == InstallInv /\ [Next]_vars => InstallInv'
  BY TypeStep, PlaceStep, IncarnationsStep, ProgressStep, InstallOrderStep DEF InstallInv

\* On every workload cluster, whatever fails, restarts, is deleted or created
\* again: CRDs before the controller, the controller before the PolicyServer,
\* the namespace before all of them (reconcileNormal's order of calls).
THEOREM InstallOrderHolds == Spec => []InstallOrder
  <1>1. InstallInv => InstallOrder
    BY DEF InstallInv
  <1> QED
    BY <1>1, InstallInvInit, InstallInvStep, PTL DEF Spec

(***************************************************************************)
(* AnnotationSound and ReadyJustified, where no Cluster name is used twice.*)
(***************************************************************************)
\* At the annotation everything is on the workload cluster.
LEMMA CompleteAtAnnotation ==
    ASSUME MaxUid = 1, InstallInv, AnnotateCluster
    PROVE  job.cluster \in Cluster /\ Complete(job.cluster)
  <1> USE DEF InstallInv
  <1>1. job \in JobRecord /\ job.uid \in 0..1 /\ job.file \in Nat /\ job.doc \in Nat
    BY JobFields DEF TypeOK
  <1>2. pc = "annotate" /\ job.cluster \in Cluster /\ clusters[job.cluster].present
    BY DEF AnnotateCluster, TypeOK
  <1>3. clusters[job.cluster].uid \in 0..1
    BY <1>2 DEF TypeOK, FleetTypeOK, ClusterRecord
  <1>4. job.uid >= 1 /\ clusters[job.cluster].uid >= 1
    BY <1>2 DEF Incarnations, Installing, Tolerating
  <1>5. Remote
    BY <1>1, <1>2, <1>3, <1>4 DEF Remote, Reaches
  <1>6. /\ DoneBefore(job.cluster, job.phase, job.file, job.doc)
        /\ Deployment \in tolerant[job.cluster] /\ PolicyServer \in tolerant[job.cluster]
    BY <1>2, <1>5 DEF Progress, Installing, Tolerating
  <1>7. /\ job.phase = DefaultsChart
        /\ job.file >= 1 /\ job.file \notin DOMAIN Manifests[job.phase]
    BY <1>2 DEF Place, Tolerating, Files
  <1>8. ASSUME NEW p \in Phase, NEW o \in ObjectsOf(p) PROVE OnWorkload(job.cluster, o)
    <2>1. CASE p = DefaultsChart
      BY <1>1, <1>2, <1>6, <1>7, <1>8, <2>1, DonePhase
    <2>2. CASE p # DefaultsChart
      <3>1. p < DefaultsChart
        BY <2>2 DEF Phase, CRDs, DefaultsChart
      <3> QED
        BY <1>6, <1>7, <3>1 DEF DoneBefore
    <2> QED
      BY <2>1, <2>2
  <1> QED
    BY <1>2, <1>6, <1>8 DEF Complete, DoneBefore

\* No step of an installation takes anything from a Cluster.
LEMMA InstallGrows ==
    ASSUME TypeOK, Install, NEW c \in Cluster
    PROVE  /\ \A x \in Object : OnWorkload(c, x) => OnWorkload(c, x)'
           /\ tolerant[c] \subseteq tolerant'[c]
  <1>1. CASE CreateNamespace
    <2>1. job.cluster \in Cluster /\ tolerant' = tolerant
      BY <1>1 DEF CreateNamespace, TypeOK
    <2> QED
      BY <1>1, <2>1, CreateEffect, ManifestAssumption DEF CreateNamespace
  <1>2. CASE ApplyDocument
    <2>1. /\ job.cluster \in Cluster /\ tolerant' = tolerant /\ job.from \in Version
          /\ job.phase \in Phase
      BY <1>2, JobFields DEF ApplyDocument, TypeOK
    <2>2. File[job.doc] \in Object
      BY <1>2, <2>1, DocumentType DEF ApplyDocument, File, Files
    <2> QED
      BY <1>2, <2>1, <2>2, CreateEffect DEF ApplyDocument
  <1>3. CASE PatchDeployment \/ PatchPolicyServer \/ PatchAuditScanner
    <2>1. workload' = workload
      BY <1>3 DEF PatchDeployment, PatchPolicyServer, PatchAuditScanner
    <2>2. \/ tolerant' = tolerant
          \/ Tolerate(Deployment) \/ Tolerate(PolicyServer) \/ Tolerate(AuditScanner)
      BY <1>3, Zenon DEF PatchDeployment, PatchPolicyServer, PatchAuditScanner
    <2>3. tolerant \in [Cluster -> SUBSET Object]
      BY DEF TypeOK, FleetTypeOK
    <2> QED
      BY <2>1, <2>2, <2>3 DEF Tolerate, OnWorkload
  <1>4. CASE DownloadCRDs \/ RenderHelmChart \/ EndOfManifest \/ EndOfPhase
             \/ AnnotateCluster
    <2>1. workload' = workload /\ tolerant' = tolerant
      BY <1>4 DEF DownloadCRDs, RenderHelmChart, EndOfManifest, EndOfPhase,
                  AnnotateCluster, fleetVars
    <2> QED
      BY <2>1 DEF OnWorkload
  <1> QED
    BY <1>1, <1>2, <1>3, <1>4 DEF Install

\* What was complete stays complete while nothing is taken away.
LEMMA CompleteStays ==
    ASSUME NEW c \in Cluster, Complete(c),
           \A x \in Object : OnWorkload(c, x) => OnWorkload(c, x)',
           tolerant[c] \subseteq tolerant'[c]
    PROVE  Complete(c)'
  <1>1. OnWorkload(c, KubewardenNamespace)'
    BY ManifestAssumption DEF Complete
  <1>2. ASSUME NEW p \in Phase, NEW o \in ObjectsOf(p) PROVE OnWorkload(c, o)'
    BY <1>2, ObjectReadable DEF Complete
  <1> QED
    BY <1>1, <1>2 DEF Complete

\* A mark set or kept by a step is on a complete Cluster.
LEMMA AnnotationStep ==
    ASSUME MaxUid = 1
    PROVE  InstallInv /\ AnnotationSound /\ [Next]_vars => AnnotationSound'
  <1> SUFFICES ASSUME InstallInv, AnnotationSound, [Next]_vars,
                      NEW c \in Cluster, clusters'[c].installed
               PROVE  Complete(c)'
    BY DEF AnnotationSound
  <1>0. TypeOK /\ Incarnations
    BY DEF InstallInv
  <1>1. CASE Unrelated \/ Elsewhere \/ \E k \in Cluster : Connect(k)
    <2>1. clusters' = clusters /\ workload' = workload /\ tolerant' = tolerant
      BY <1>1 DEF Unrelated, Elsewhere, Connect, fleetVars
    <2> QED
      BY <2>1, CompleteStays DEF AnnotationSound, OnWorkload
  <1>2. ASSUME NEW k \in Cluster, FleetOnly(k) PROVE Complete(c)'
    <2>1. clusters[c].installed /\ workload'[c] = workload[c] /\ tolerant'[c] = tolerant[c]
      BY <1>0, <1>2, FleetEffect DEF FleetOnly
    <2> QED
      BY <2>1, CompleteStays DEF AnnotationSound, OnWorkload
  <1>3. CASE AnnotateCluster
    <2>1. clusters[c].installed \/ c = job.cluster
      BY <1>0, <1>3, AnnotateEffect
    <2>2. Complete(c)
      BY <1>3, <2>1, CompleteAtAnnotation DEF AnnotationSound
    <2> QED
      BY <1>0, <1>3, <2>2, CompleteStays, InstallGrows DEF Install
  <1>4. CASE Install /\ ~AnnotateCluster
    <2>1. Complete(c)
      BY <1>0, <1>4, InstallKeeps DEF AnnotationSound
    <2> QED
      BY <1>0, <1>4, <2>1, CompleteStays, InstallGrows
  <1> QED
    BY <1>0, <1>1, <1>2, <1>3, <1>4, StepCases

\* No Cluster is marked at the start.
LEMMA AnnotationInit == Init => AnnotationSound
  <1> SUFFICES ASSUME Init, NEW c \in Cluster PROVE ~clusters[c].installed
    BY DEF AnnotationSound
  <1>1. clusters[c] = Gone(0) \/ clusters[c] \in Unmarked
    BY DEF Init, FleetInit
  <1>2. ~Gone(0).installed
    BY DEF Gone
  <1>3. \A x \in Unmarked : ~x.installed
    BY DEF Unmarked
  <1> QED
    BY <1>1, <1>2, <1>3

\* The installed annotation never lies, whatever fails or restarts, however
\* stale the cache and whatever the manifests, as long as no Cluster name is
\* used a second time (reconcileNormal annotates by name).
THEOREM AnnotationSoundHolds ==
    ASSUME MaxUid = 1
    PROVE  Spec => []AnnotationSound
  <1>1. Init => InstallInv /\ AnnotationSound
    BY InstallInvInit, AnnotationInit
  <1>2. InstallInv /\ AnnotationSound /\ [Next]_vars => (InstallInv /\ AnnotationSound)'
    BY InstallInvStep, AnnotationStep
  <1> QED
    BY <1>1, <1>2, PTL DEF Spec

\* The Clusters the loop is through with stay marked or disappear.
LEMMA VisitedStep ==
    ASSUME MaxUid = 1
    PROVE  InstallInv /\ Visited /\ [Next]_vars => Visited'
  <1> SUFFICES ASSUME InstallInv, Visited, [Next]_vars PROVE Visited'
    OBVIOUS
  <1>0. TypeOK /\ Incarnations /\ TypeOK' /\ job \in JobRecord
    BY InstallInvStep DEF InstallInv, TypeOK
  <1>1. CASE Unrelated
    BY <1>1 DEF Unrelated, Visited
  <1>2. CASE Elsewhere
    BY <1>2 DEF Elsewhere, Visited, Installing, Tolerating
  <1>3. ASSUME NEW k \in Cluster, FleetOnly(k) PROVE Visited'
    <2>1. pc' = pc /\ job' = job
      BY <1>3 DEF FleetOnly
    <2>2. ASSUME NEW c \in job.selected \ job.todo
          PROVE  /\ clusters'[c].uid >= 1
                 /\ \/ pc \in Installing \cup {"namespace"} /\ c = job.cluster
                    \/ clusters'[c].present => clusters'[c].installed
      <3>1. c \in Cluster
        BY <1>0, <2>2, JobFields
      <3>2. clusters[c].uid >= 1
        BY <2>2 DEF Visited
      <3>3. clusters'[c].uid \in 0..1
        BY <1>0, <3>1 DEF TypeOK, FleetTypeOK, ClusterRecord
      <3>4. /\ clusters[c].uid \in Nat /\ clusters'[c].uid >= clusters[c].uid
            /\ \/ ~clusters'[c].present
               \/ clusters'[c].uid > clusters[c].uid
               \/ clusters[c].present /\ clusters'[c].installed = clusters[c].installed
        BY <1>0, <1>3, <3>1, FleetEffect DEF FleetOnly
      <3>5. clusters'[c].uid >= 1 /\ ~(clusters'[c].uid > clusters[c].uid)
        BY <3>2, <3>3, <3>4
      <3> QED
        BY <2>2, <3>4, <3>5 DEF Visited
    <2> QED
      BY <2>1, <2>2 DEF Visited
  <1>4. ASSUME NEW k \in Cluster, Connect(k) PROVE Visited'
    <2>1. /\ clusters[k].uid \in 0..MaxUid /\ job.todo \ {k} \in SUBSET Cluster
      BY <1>0, JobFields DEF TypeOK, FleetTypeOK, ClusterRecord
    <2>2. job'.selected = job.selected /\ job'.todo = job.todo \ {k} /\ job'.cluster = k
      BY <1>0, <1>4, <2>1, ConnectedType DEF Connect
    <2>3. pc = "visit" /\ pc' = "namespace" /\ clusters' = clusters /\ clusters[k].uid >= 1
      BY <1>0, <1>4 DEF Connect, Visit, Goto, fleetVars, Incarnations
    <2> QED
      BY <2>2, <2>3 DEF Visited, Installing, Tolerating
  <1>5. CASE AnnotateCluster
    <2>1. job'.selected = job.selected /\ job'.todo = job.todo
      BY <1>0, <1>5, NextClusterType DEF AnnotateCluster
    <2>2. pc' = "visit"
      BY <1>5 DEF AnnotateCluster, Goto
    <2>3. ASSUME NEW c \in job.selected \ job.todo
          PROVE  clusters'[c].uid >= 1 /\ (clusters'[c].present => clusters'[c].installed)
      <3>1. c \in Cluster
        BY <1>0, <2>3, JobFields
      <3> QED
        BY <1>0, <1>5, <2>3, <3>1, AnnotateEffect DEF Visited
    <2> QED
      BY <2>1, <2>2, <2>3 DEF Visited
  <1>6. CASE Install /\ ~AnnotateCluster
    <2>1. /\ job'.cluster = job.cluster /\ clusters' = clusters
          /\ job'.selected = job.selected /\ job'.todo = job.todo /\ pc' \in Installing
      BY <1>0, <1>6, InstallKeeps
    <2> QED
      BY <2>1 DEF Visited, Installing, Tolerating
  <1> QED
    BY <1>0, <1>1, <1>2, <1>3, <1>4, <1>5, <1>6, StepCases

\* status.ready after a patch, which writes what it changed only.
LEMMA MergePatchReady ==
    ASSUME NEW r \in AddonRecord, NEW base, NEW new
    PROVE  MergePatch(r, base, new).ready =
              IF new.ready = base.ready THEN r.ready ELSE new.ready
  <1>1. "ready" \in DOMAIN r
    BY DEF AddonRecord
  <1> QED
    BY <1>1 DEF MergePatch, AddonRecord

\* Only the status patch at the end of a pass sets status.ready, and only if
\* the pass selected something.
LEMMA ReadyByPatch ==
    ASSUME TypeOK, Next, NEW a \in Addon, ~addons[a].ready, addons'[a].ready
    PROVE  pc = "status" /\ job.selected # {} /\ a = job.addon
  <1>0. addons \in [Addon -> AddonRecord] /\ addons[a].ready \in BOOLEAN
    BY DEF TypeOK, AddonRecord
  <1>1. addons' # addons
    OBVIOUS
  <1>2. ASSUME NEW b \in Addon, NEW r, SetAddon(b, r), r.ready => addons[b].ready
        PROVE  FALSE
    <2>1. addons' = [addons EXCEPT ![b] = r]
      BY <1>2 DEF SetAddon
    <2> QED
      BY <1>0, <1>2, <2>1
  <1>3. ASSUME NEW b \in Addon, CreateAddon(b) PROVE FALSE
    <2>1. PICK s \in Selector, v \in Requested :
             SetAddon(b, NewAddon(s, Admit(v)))
      BY <1>3 DEF CreateAddon
    <2>2. ~NewAddon(s, Admit(v)).ready
      BY DEF NewAddon
    <2> QED
      BY <1>2, <2>1, <2>2
  <1>4. ASSUME NEW b \in Addon, EditAddon(b) PROVE FALSE
    <2>1. PICK s \in Selector, v \in Requested :
             SetAddon(b, [addons[b] EXCEPT !.selector = s, !.version = Admit(v)])
      BY <1>4 DEF EditAddon
    <2>2. addons[b] \in AddonRecord
      BY <1>0
    <2>3. [addons[b] EXCEPT !.selector = s, !.version = Admit(v)].ready = addons[b].ready
      BY <2>2, Zenon DEF AddonRecord
    <2> QED
      BY <1>2, <2>1, <2>3
  <1>5. ASSUME NEW b \in Addon, DeleteAddon(b) PROVE FALSE
    <2>1. addons[b] \in AddonRecord /\ ~NoAddon.ready
      BY <1>0 DEF NoAddon
    <2>2. [addons[b] EXCEPT !.phase = "deleting"].ready = addons[b].ready
      BY <2>1, Zenon DEF AddonRecord
    <2> QED
      BY <1>2, <1>5, <2>1, <2>2 DEF DeleteAddon
  <1>6. PatchStatus
    <2> USE DEF fleetVars, addonVars
    <2>1. ASSUME NEW b \in Addon, Reconcile(b) PROVE FALSE
      BY <1>1, <2>1 DEF Reconcile, ReconcileNotFound, ReconcileDeleting, ReconcileLive, vars
    <2>2. ASSUME NEW c \in Cluster, VisitCluster(c) PROVE FALSE
      BY <1>1, <2>2 DEF VisitCluster, VisitUnready, VisitInstalled, Connect, ConnectFails
    <2>3. CASE Proceed
      BY <1>1, <2>3 DEF Proceed, ListClusters, SelectorInvalid, VisitedAll, CreateNamespace,
            DownloadCRDs, DownloadNotFound, RenderHelmChart, ApplyDocument,
            EndOfManifest, EndOfPhase, PatchDeployment, PatchPolicyServer,
            PatchNotFound, PatchAuditScanner, AnnotateCluster, AnnotateNotFound, RemoteGone
    <2>4. CASE Failure \/ Event \/ Resync \/ \E b \in Addon : DelayPasses(b)
      BY <1>1, <2>4 DEF Failure, PatchStatusFails, CallFails, Restart, Event,
                        ClusterEvent, AddonEvent, Resync, DelayPasses
    <2>5. ~Environment
      BY <1>1, <1>3, <1>4, <1>5 DEF Environment, PublishChart
    <2> QED
      BY <2>1, <2>2, <2>3, <2>4, <2>5 DEF Next
  <1>7. pc = "status" /\ job.addon \in Addon
    BY <1>6 DEF PatchStatus, TypeOK
  <1>8. addons' = [addons EXCEPT ![job.addon] =
                      MergePatch(addons[job.addon], StatusBase, StatusNew)]
    BY <1>1, <1>6 DEF PatchStatus
  <1>9. a = job.addon
    BY <1>0, <1>7, <1>8
  <1>10. addons'[a] = MergePatch(addons[a], StatusBase, StatusNew)
    BY <1>0, <1>7, <1>8, <1>9
  <1>11. addons'[a].ready = IF StatusNew.ready = StatusBase.ready
                            THEN addons[a].ready ELSE StatusNew.ready
    <2>1. PICK r \in AddonRecord : r = addons[a]
      BY <1>0
    <2>2. PICK base, new : base = StatusBase /\ new = StatusNew
      OBVIOUS
    <2>3. addons'[a] = MergePatch(r, base, new)
      BY <1>10, <2>1, <2>2
    <2>4. MergePatch(r, base, new).ready =
             IF new.ready = base.ready THEN r.ready ELSE new.ready
      BY MergePatchReady
    <2> QED
      BY <2>1, <2>2, <2>3, <2>4
  <1>12. StatusNew.ready
    BY <1>11
  <1> QED
    BY <1>7, <1>9, <1>12 DEF StatusNew

\* status.ready turns true only when every selected Cluster that still exists
\* is marked and complete: the end of reconcileNormal is reached with nothing
\* left to visit (no Cluster name being used a second time).
THEOREM ReadyJustifiedHolds ==
    ASSUME MaxUid = 1
    PROVE  Spec => ReadyJustified
  <1> DEFINE Inv == InstallInv /\ AnnotationSound /\ Visited
             Justified == \A a \in Addon : ~addons[a].ready /\ addons'[a].ready =>
                /\ job.selected # {}
                /\ \A c \in job.selected :
                      clusters[c].present => clusters[c].installed /\ Complete(c)
  <1>1. Init => Inv
    <2>1. Init => Visited
      BY DEF Init, Visited, NoJob
    <2> QED
      BY <2>1, InstallInvInit, AnnotationInit
  <1>2. Inv /\ [Next]_vars => Inv'
    BY InstallInvStep, AnnotationStep, VisitedStep
  <1>3. Inv /\ [Next]_vars => [Justified]_vars
    <2> SUFFICES ASSUME Inv, Next, NEW a \in Addon, ~addons[a].ready, addons'[a].ready
                 PROVE  /\ job.selected # {}
                        /\ \A c \in job.selected : clusters[c].present =>
                              clusters[c].installed /\ Complete(c)
      OBVIOUS
    <2>1. TypeOK /\ job.selected \subseteq Cluster
      BY JobFields DEF InstallInv, TypeOK
    <2>2. pc = "status" /\ job.selected # {}
      BY <2>1, ReadyByPatch
    <2>3. ASSUME NEW c \in job.selected, clusters[c].present PROVE clusters[c].installed
      BY <2>2, <2>3 DEF Visited, Installing, Tolerating
    <2> QED
      BY <2>1, <2>2, <2>3 DEF AnnotationSound
  <1> QED
    BY <1>1, <1>2, <1>3, PTL DEF Spec, ReadyJustified

(***************************************************************************)
(* Namespaces.                                                             *)
(***************************************************************************)
\* Some addon is in the namespace of Cluster c.
Served(c) == \E a \in Addon : NamespaceOf[a] = NamespaceOf[c]

\* What a pass is to visit and what it has in hand is in its addon's namespace.
AtHome ==
    /\ \A c \in job.todo : Served(c)
    /\ pc \in Installing \cup {"namespace"} => Served(job.cluster)

\* A pass stays there: getAllCapiClusters lists InNamespace.
LEMMA AtHomeStep == TypeOK /\ AtHome /\ [Next]_vars => AtHome'
  <1> SUFFICES ASSUME TypeOK, AtHome, [Next]_vars PROVE AtHome'
    OBVIOUS
  <1> USE DEF AtHome, Served
  <1>1. CASE Unrelated
    BY <1>1 DEF Unrelated
  <1>2. CASE Elsewhere
    <2>1. CASE pc' \in {"idle", "list"} /\ job'.todo = {}
      BY <1>2, <2>1 DEF Elsewhere
    <2>2. CASE ListClusters
      <3>1. job.addon \in Addon
        BY <2>2 DEF ListClusters, TypeOK
      <3>2. job'.todo = SelectClusters(GetAllCapiClusters(job.addon), job.selector)
        BY <2>2 DEF ListClusters, TypeOK, JobRecord
      <3>3. \A c \in job'.todo : NamespaceOf[job.addon] = NamespaceOf[c]
        BY <3>2 DEF SelectClusters, GetAllCapiClusters
      <3> QED
        BY <1>2, <3>1, <3>3 DEF Elsewhere
    <2>3. CASE pc' = "status" /\ pc = "visit" /\ job' = job
      BY <1>2, <2>3 DEF Elsewhere
    <2> QED
      BY <1>2, <2>1, <2>2, <2>3 DEF Elsewhere
  <1>3. ASSUME NEW c \in Cluster, Connect(c) PROVE AtHome'
    <2>1. /\ job \in JobRecord /\ job.todo \ {c} \in SUBSET Cluster
          /\ clusters[c].uid \in 0..MaxUid
      BY JobFields DEF TypeOK, FleetTypeOK, ClusterRecord
    <2>2. job'.cluster = c /\ job'.todo = job.todo \ {c} /\ c \in job.todo
      BY <1>3, <2>1, ConnectedType DEF Connect, Visit
    <2> QED
      BY <2>2
  <1>4. CASE AnnotateCluster
    <2>1. job'.todo = job.todo
      BY <1>4, NextClusterType DEF AnnotateCluster, TypeOK
    <2> QED
      BY <1>4, <2>1 DEF AnnotateCluster, Goto, Installing, Tolerating
  <1>5. CASE Install /\ ~AnnotateCluster
    BY <1>5, InstallKeeps
  <1>6. ASSUME NEW c \in Cluster, FleetOnly(c) PROVE AtHome'
    BY <1>6 DEF FleetOnly
  <1> QED
    BY <1>1, <1>2, <1>3, <1>4, <1>5, <1>6, StepCases

\* An installation touches the Cluster in hand only.
LEMMA InstallElsewhere ==
    ASSUME TypeOK, Install, NEW c \in Cluster, c # job.cluster
    PROVE  /\ workload'[c] = workload[c] /\ tolerant'[c] = tolerant[c]
           /\ clusters'[c].installed <=> clusters[c].installed
  <1>1. job.cluster \in Cluster
    BY InstallKeeps DEF AnnotateCluster, TypeOK
  <1>2. clusters'[c].installed <=> clusters[c].installed
    BY AnnotateEffect, InstallKeeps
  <1>3. /\ workload \in [Cluster -> [Object -> Version \cup {Absent, Unversioned}]]
        /\ tolerant \in [Cluster -> SUBSET Object]
    BY DEF TypeOK, FleetTypeOK
  <1>4. workload'[c] = workload[c]
    <2>1. \/ workload' = workload
          \/ \E o, v : Create(o, v)
      BY DEF Install, CreateNamespace, DownloadCRDs, RenderHelmChart, ApplyDocument,
             EndOfManifest, EndOfPhase, PatchDeployment, PatchPolicyServer,
             PatchAuditScanner, AnnotateCluster, fleetVars
    <2> QED
      BY <1>1, <1>3, <2>1 DEF Create
  <1>5. tolerant'[c] = tolerant[c]
    <2>1. \/ tolerant' = tolerant
          \/ \E o : Tolerate(o)
      BY DEF Install, CreateNamespace, DownloadCRDs, RenderHelmChart, ApplyDocument,
             EndOfManifest, EndOfPhase, PatchDeployment, PatchPolicyServer,
             PatchAuditScanner, AnnotateCluster, fleetVars
    <2> QED
      BY <1>1, <1>3, <2>1 DEF Tolerate
  <1> QED
    BY <1>2, <1>4, <1>5

\* No step touches a Cluster in a namespace without addons.
LEMMA TenancyStep == TypeOK /\ AtHome /\ Tenancy /\ [Next]_vars => Tenancy'
  <1> SUFFICES ASSUME TypeOK, AtHome, Tenancy, [Next]_vars, NEW c \in Cluster, ~Served(c)
               PROVE  workload'[c] = Bare /\ tolerant'[c] = {} /\ ~clusters'[c].installed
    BY DEF Tenancy, Served
  <1>1. workload[c] = Bare /\ tolerant[c] = {} /\ ~clusters[c].installed
    BY DEF Tenancy, Served
  <1>2. CASE Unrelated \/ Elsewhere \/ \E k \in Cluster : Connect(k)
    BY <1>1, <1>2 DEF Unrelated, Elsewhere, Connect, fleetVars
  <1>3. ASSUME NEW k \in Cluster, FleetOnly(k)
        PROVE  workload'[c] = Bare /\ tolerant'[c] = {} /\ ~clusters'[c].installed
    BY <1>1, <1>3, FleetStepEffect DEF FleetOnly, TypeOK, Deleted, Created, Kept
  <1>4. CASE Install
    <2>1. pc \in Installing \cup {"namespace"}
      BY <1>4, InstallKeeps DEF AnnotateCluster, Installing, Tolerating
    <2>2. c # job.cluster
      BY <2>1 DEF AtHome
    <2> QED
      BY <1>1, <1>4, <2>2, InstallElsewhere
  <1> QED
    BY <1>2, <1>3, <1>4, StepCases

\* A Cluster in a namespace without addons is never touched and never marked,
\* although its events wake the addons of every namespace.
THEOREM TenancyHolds == Spec => []Tenancy
  <1> DEFINE Inv == TypeOK /\ AtHome /\ Tenancy
  <1>1. Init => Inv
    <2>1. Init => AtHome
      BY DEF Init, AtHome, NoJob, Installing, Tolerating
    <2>2. ASSUME Init, NEW c \in Cluster PROVE ~clusters[c].installed
      <3>1. clusters[c] = Gone(0) \/ clusters[c] \in Unmarked
        BY <2>2 DEF Init, FleetInit
      <3>2. ~Gone(0).installed
        BY DEF Gone
      <3>3. \A x \in Unmarked : ~x.installed
        BY DEF Unmarked
      <3> QED
        BY <3>1, <3>2, <3>3
    <2>3. Init => Tenancy
      BY <2>2 DEF Init, FleetInit, Tenancy
    <2> QED
      BY <2>1, <2>3, InitType
  <1>2. Inv /\ [Next]_vars => Inv'
    BY TypeStep, AtHomeStep, TenancyStep
  <1>3. Inv => Tenancy
    OBVIOUS
  <1> QED
    BY <1>1, <1>2, <1>3, PTL DEF Spec
=============================================================================
