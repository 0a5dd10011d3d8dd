--------------------------- MODULE ProviderProofs --------------------------
(***************************************************************************)
(* Proofs about Provider: what is proved of either controller alone holds  *)
(* of both together.  A step of one controller is a step of the other one, *)
(* or one that it does not notice; so the step lemmas of                   *)
(* AddonControllerProofs (AP) and PolicyControllerProofs (PP) apply.       *)
(***************************************************************************)
EXTENDS Provider, TLAPS

AP == INSTANCE AddonControllerProofs WITH
        queue <- addonQueue, delayed <- addonDelayed, pc <- addonPc, job <- addonJob,
        NamespaceOf <- [x \in Addon \cup Cluster |-> Namespace[x]]

PP == INSTANCE PolicyControllerProofs WITH
        Object <- PolicyObject, Version <- PolicySpec,
        workload <- deployed, tolerant <- [c \in Cluster |-> {}],
        queue <- policyQueue, pc <- policyPc, job <- policyJob,
        PolicyNamespace <- [x \in Policy \cup Cluster |-> Namespace[x]],
        Drifting <- FALSE

(***************************************************************************)
(* Both instances of a module define the same.                             *)
(***************************************************************************)
\* The addon controller of Provider is the one AddonControllerProofs is about.
LEMMA SameAddonController ==
    /\ A!Init <=> AP!Init
    /\ [A!Next]_A!vars <=> [AP!Next]_AP!vars
  BY DEF A!AddonEvent, A!Admit, A!AnnotateCluster, A!AnnotateNotFound, A!AppVersion,
         A!ApplyDocument, A!At, A!AuditScanner, A!Bare, A!CRDs, A!CallFails,
         A!ClusterEvent, A!ClusterToKubewardenAddon, A!Connect, A!ConnectFails,
         A!Connected, A!ControlPlaneChanges, A!ControlPlaneUp, A!Create, A!CreateAddon,
         A!CreateCluster, A!CreateNamespace, A!Default, A!DefaultsChart, A!DelayPasses,
         A!DeleteAddon, A!DeleteCluster, A!Deployment, A!Done, A!DownloadCRDs,
         A!DownloadNotFound, A!Edit, A!EditAddon, A!EndOfManifest, A!EndOfPhase,
         A!Environment, A!Event, A!Failure, A!Fault, A!File, A!Files, A!FleetInit,
         A!FleetStep, A!GetAllCapiClusters, A!Gone, A!Goto, A!Group, A!HasAnnotation,
         A!Init, A!Known, A!KubewardenNamespace, A!Latest, A!ListClusters,
         A!MergePatch, A!NewAddon, A!Next, A!NextCluster, A!NoAddon, A!NoJob,
         A!NoSelector, A!None, A!NullDoc, A!OnWorkload, A!PatchAuditScanner,
         A!PatchDeployment, A!PatchNotFound, A!PatchPolicyServer, A!PatchStatus,
         A!PatchStatusFails, A!PolicyServer, A!Proceed, A!PublishChart, A!Reaches,
         A!Reconcile, A!ReconcileDeleting, A!ReconcileLive, A!ReconcileNotFound,
         A!Relabel, A!Remote, A!RemoteCalls, A!RemoteGone, A!RenderHelmChart,
         A!Requeue, A!Restart, A!Resync, A!Return, A!SelectClusters, A!SelectorInvalid,
         A!SetAddon, A!Started, A!StatusBase, A!StatusNew, A!Take, A!Tolerate,
         A!Unmarked, A!Unset, A!Visit, A!VisitCluster, A!VisitInstalled,
         A!VisitUnready, A!VisitedAll, A!WebhookGroup, A!addonVars, A!controllerVars,
         A!fleetVars, A!vars, AP!AddonEvent, AP!Admit, AP!AnnotateCluster,
         AP!AnnotateNotFound, AP!AppVersion, AP!ApplyDocument, AP!At, AP!AuditScanner,
         AP!Bare, AP!CRDs, AP!CallFails, AP!ClusterEvent, AP!ClusterToKubewardenAddon,
         AP!Connect, AP!ConnectFails, AP!Connected, AP!ControlPlaneChanges,
         AP!ControlPlaneUp, AP!Create, AP!CreateAddon, AP!CreateCluster,
         AP!CreateNamespace, AP!Default, AP!DefaultsChart, AP!DelayPasses,
         AP!DeleteAddon, AP!DeleteCluster, AP!Deployment, AP!Done, AP!DownloadCRDs,
         AP!DownloadNotFound, AP!Edit, AP!EditAddon, AP!EndOfManifest, AP!EndOfPhase,
         AP!Environment, AP!Event, AP!Failure, AP!Fault, AP!File, AP!Files,
         AP!FleetInit, AP!FleetStep, AP!GetAllCapiClusters, AP!Gone, AP!Goto, AP!Group,
         AP!HasAnnotation, AP!Init, AP!Known, AP!KubewardenNamespace, AP!Latest,
         AP!ListClusters, AP!MergePatch, AP!NewAddon, AP!Next, AP!NextCluster,
         AP!NoAddon, AP!NoJob, AP!NoSelector, AP!None, AP!NullDoc, AP!OnWorkload,
         AP!PatchAuditScanner, AP!PatchDeployment, AP!PatchNotFound,
         AP!PatchPolicyServer, AP!PatchStatus, AP!PatchStatusFails, AP!PolicyServer,
         AP!Proceed, AP!PublishChart, AP!Reaches, AP!Reconcile, AP!ReconcileDeleting,
         AP!ReconcileLive, AP!ReconcileNotFound, AP!Relabel, AP!Remote, AP!RemoteCalls,
         AP!RemoteGone, AP!RenderHelmChart, AP!Requeue, AP!Restart, AP!Resync,
         AP!Return, AP!SelectClusters, AP!SelectorInvalid, AP!SetAddon, AP!Started,
         AP!StatusBase, AP!StatusNew, AP!Take, AP!Tolerate, AP!Unmarked, AP!Unset,
         AP!Visit, AP!VisitCluster, AP!VisitInstalled, AP!VisitUnready, AP!VisitedAll,
         AP!WebhookGroup, AP!addonVars, AP!controllerVars, AP!fleetVars, AP!vars

\* The policy controller of Provider is the one PolicyControllerProofs is about.
LEMMA SamePolicyController ==
    /\ P!Init <=> PP!Init
    /\ [P!Next]_P!vars <=> [PP!Next]_PP!vars
  BY DEF P!AdmissionPolicy, P!Admitted, P!Bare, P!BuildPolicySpec, P!BuildRule,
         P!ClusterAdmissionPolicy, P!ClusterEvent, P!ClusterToKubewardenPolicy,
         P!Connect, P!ConnectFails, P!Connected, P!ControlPlaneChanges,
         P!CreateCluster, P!CreatePolicy, P!Default, P!DeleteCluster, P!DeletePolicy,
         P!DeletePolicyFails, P!DeployFails, P!Done, P!Drift, P!Edit, P!EditPolicy,
         P!Eligible, P!Empty, P!Environment, P!Event, P!Exists, P!Fault,
         P!FleetChanges, P!FleetInit, P!GetExisting, P!GetMatchingClusters, P!Gone,
         P!Goto, P!HasAnnotation, P!Init, P!IsPolicyActive, P!Key, P!Known,
         P!ListClusters, P!Listed, P!MarkInstalled, P!NewPolicy, P!Next, P!NextCluster,
         P!Nil, P!NoJob, P!NoPolicy, P!NoSpec, P!NoStatus, P!None, P!NothingServed,
         P!OnCluster, P!OrDefault, P!OrNil, P!Outcome, P!PolicyEvent, P!PolicyKey,
         P!Proceed, P!Reaches, P!Reconcile, P!ReconcileFound, P!ReconcileNotFound,
         P!Relabel, P!Remote, P!Remove, P!Requeue, P!Restart, P!Resync, P!Return,
         P!SelectorInvalid, P!Serve, P!SetPolicy, P!Skip, P!Started, P!StoredSpec,
         P!SubmitPolicy, P!Take, P!Touch, P!Unmarked, P!UpdatePolicy, P!UpdateStatus,
         P!UpdateStatusFails, P!ValidOps, P!ValidateKubewardenPolicy, P!Visit,
         P!VisitCluster, P!VisitIneligible, P!VisitedAll, P!WithdrawPolicy,
         P!WritePolicy, P!fleetVars, P!policyVars, P!vars, PP!AdmissionPolicy,
         PP!Admitted, PP!Bare, PP!BuildPolicySpec, PP!BuildRule,
         PP!ClusterAdmissionPolicy, PP!ClusterEvent, PP!ClusterToKubewardenPolicy,
         PP!Connect, PP!ConnectFails, PP!Connected, PP!ControlPlaneChanges,
         PP!CreateCluster, PP!CreatePolicy, PP!Default, PP!DeleteCluster,
         PP!DeletePolicy, PP!DeletePolicyFails, PP!DeployFails, PP!Done, PP!Drift,
         PP!Edit, PP!EditPolicy, PP!Eligible, PP!Empty, PP!Environment, PP!Event,
         PP!Exists, PP!Fault, PP!FleetChanges, PP!FleetInit, PP!GetExisting,
         PP!GetMatchingClusters, PP!Gone, PP!Goto, PP!HasAnnotation, PP!Init,
         PP!IsPolicyActive, PP!Key, PP!Known, PP!ListClusters, PP!Listed,
         PP!MarkInstalled, PP!NewPolicy, PP!Next, PP!NextCluster, PP!Nil, PP!NoJob,
         PP!NoPolicy, PP!NoSpec, PP!NoStatus, PP!None, PP!NothingServed, PP!OnCluster,
         PP!OrDefault, PP!OrNil, PP!Outcome, PP!PolicyEvent, PP!PolicyKey, PP!Proceed,
         PP!Reaches, PP!Reconcile, PP!ReconcileFound, PP!ReconcileNotFound, PP!Relabel,
         PP!Remote, PP!Remove, PP!Requeue, PP!Restart, PP!Resync, PP!Return,
         PP!SelectorInvalid, PP!Serve, PP!SetPolicy, PP!Skip, PP!Started,
         PP!StoredSpec, PP!SubmitPolicy, PP!Take, PP!Touch, PP!Unmarked,
         PP!UpdatePolicy, PP!UpdateStatus, PP!UpdateStatusFails, PP!ValidOps,
         PP!ValidateKubewardenPolicy, PP!Visit, PP!VisitCluster, PP!VisitIneligible,
         PP!VisitedAll, PP!WithdrawPolicy, PP!WritePolicy, PP!fleetVars, PP!policyVars,
         PP!vars

\* What the addon controller's proofs assume of the constants.
LEMMA AddonConstants ==
    AP!FleetAssumption /\ AP!VersionAssumption /\ AP!ManifestAssumption /\ AP!AddonAssumption
  BY ProviderAssumption
  DEF A!FleetAssumption, A!VersionAssumption, A!ManifestAssumption, A!AddonAssumption,
      A!KubewardenNamespace, A!Deployment, A!PolicyServer, A!AuditScanner, A!NullDoc,
      A!Phase, A!CRDs, A!DefaultsChart, A!ObjectsOf, A!NullsLast, A!Unset,
      AP!FleetAssumption, AP!VersionAssumption, AP!ManifestAssumption, AP!AddonAssumption,
      AP!KubewardenNamespace, AP!Deployment, AP!PolicyServer, AP!AuditScanner, AP!NullDoc,
      AP!Phase, AP!CRDs, AP!DefaultsChart, AP!ObjectsOf, AP!NullsLast, AP!Unset

\* What the policy controller's proofs assume of the constants.
LEMMA PolicyConstants ==
    PP!FleetAssumption /\ PP!VersionAssumption /\ PP!PolicyAssumption /\ PP!SpecAssumption
  <1>1. PP!FleetAssumption
    BY AddonConstants DEF AP!FleetAssumption, PP!FleetAssumption
  <1>2. PP!VersionAssumption
    BY ProviderAssumption DEF P!VersionAssumption, PP!VersionAssumption
  <1>3. PP!PolicyAssumption
    BY ProviderAssumption
    DEF P!PolicyAssumption, P!StoredSpec, P!Admitted, P!Default, P!OrDefault,
        P!ValidateKubewardenPolicy, P!ValidOps, P!PolicyKey, P!BuildPolicySpec,
        P!BuildRule, P!OrNil, P!Empty, P!Nil, P!ClusterAdmissionPolicy, P!AdmissionPolicy,
        PP!PolicyAssumption, PP!StoredSpec, PP!Admitted, PP!Default, PP!OrDefault,
        PP!ValidateKubewardenPolicy, PP!ValidOps, PP!PolicyKey, PP!BuildPolicySpec,
        PP!BuildRule, PP!OrNil, PP!Empty, PP!Nil, PP!ClusterAdmissionPolicy,
        PP!AdmissionPolicy
  <1>4. PP!SpecAssumption
    BY ProviderAssumption
    DEF P!SpecAssumption, P!Empty, P!ClusterAdmissionPolicy, P!AdmissionPolicy,
        PP!SpecAssumption, PP!Empty, PP!ClusterAdmissionPolicy, PP!AdmissionPolicy
  <1> QED
    BY <1>1, <1>2, <1>3, <1>4

(***************************************************************************)
(* What either controller's proofs say about a step of its own.            *)
(***************************************************************************)
\* What is proved of the addon controller alone, as one invariant.
AddonInv == AP!InstallInv /\ AP!AnnotationSound

\* It holds at first and the addon controller's steps keep it.
LEMMA AddonAlone ==
    /\ A!Init => AddonInv
    /\ MaxUid = 1 /\ AddonInv /\ [A!Next]_A!vars => AddonInv'
  <1>1. A!Init => AddonInv
    BY AddonConstants, SameAddonController, AP!InstallInvInit, AP!AnnotationInit
    DEF AddonInv, AP!FleetAssumption, AP!VersionAssumption, AP!ManifestAssumption,
        AP!AddonAssumption
  <1>2. AP!InstallInv /\ [A!Next]_A!vars => AP!InstallInv'
    BY AddonConstants, SameAddonController, AP!InstallInvStep
    DEF AP!FleetAssumption, AP!VersionAssumption, AP!ManifestAssumption, AP!AddonAssumption
  <1>3. MaxUid = 1 /\ AddonInv /\ [A!Next]_A!vars => AP!AnnotationSound'
    BY AddonConstants, SameAddonController, AP!AnnotationStep
    DEF AddonInv, AP!FleetAssumption, AP!VersionAssumption, AP!ManifestAssumption,
        AP!AddonAssumption
  <1> QED
    BY <1>1, <1>2, <1>3 DEF AddonInv

\* What is proved of the policy controller alone.
PolicyInv == PP!BehindInv

\* It holds at first and the policy controller's steps keep it.
LEMMA PolicyAlone ==
    /\ P!Init => PolicyInv
    /\ MaxUid = 1 /\ PolicyInv /\ [P!Next]_P!vars => PolicyInv'
  <1> USE PolicyConstants, SamePolicyController
      DEF PP!FleetAssumption, PP!VersionAssumption, PP!PolicyAssumption, PP!SpecAssumption
  <1>1. P!Init => PolicyInv
    <2>1. P!Init => PP!Behind
      BY DEF PP!Init, PP!Behind
    <2> QED
      BY <2>1, PP!InitType, PP!NewestInit, PP!MarksInit
      DEF PolicyInv, PP!BehindInv, PP!MarksInv, PP!CopiesInv
  <1>2. ASSUME MaxUid = 1, PolicyInv, [P!Next]_P!vars PROVE PolicyInv'
    <2>1. /\ PP!TypeOK /\ PP!Stored /\ PP!Newest /\ PP!Marks /\ PP!InstalledFirst
          /\ PP!Behind
      BY <1>2 DEF PolicyInv, PP!BehindInv, PP!MarksInv, PP!CopiesInv
    <2>2. PP!TypeOK'
      BY <1>2, <2>1, PP!TypeStep
    <2>3. PP!Stored'
      BY <1>2, <2>1, PP!StoredStep
    <2>4. PP!Newest'
      BY <1>2, <2>1, PP!NewestStep
    <2>5. PP!Marks'
      BY <1>2, <2>1, PP!MarksStep
    <2>6. PP!InstalledFirst'
      BY <1>2, <2>1, PP!InstalledFirstStep
    <2>7. PP!Behind'
      BY <1>2, <2>1, PP!BehindStep
    <2> QED
      BY <2>2, <2>3, <2>4, <2>5, <2>6, <2>7 DEF PolicyInv, PP!BehindInv, PP!MarksInv, PP!CopiesInv
  <1> QED
    BY <1>1, <1>2

(***************************************************************************)
(* Steps that one of the controllers does not notice.                      *)
(***************************************************************************)
\* The bounds both controllers share are kept.
Bounded == edits' \in 0..MaxEdits /\ faults' \in 0..MaxFaults

\* The addon controller does not notice what leaves its own state and the
\* Clusters alone.
LEMMA AddonUnaware ==
    AddonInv /\ UNCHANGED <<clusters, cache, addonOnly>> /\ Bounded => AddonInv'
  <1> SUFFICES ASSUME AddonInv, UNCHANGED <<clusters, cache, addonOnly>>, Bounded
               PROVE  AddonInv'
    OBVIOUS
  <1> USE DEF AddonInv, AP!InstallInv, addonOnly
  <1>1. AP!TypeOK'
    BY DEF Bounded, AP!TypeOK, AP!FleetTypeOK
  <1>2. AP!Place'
    BY DEF AP!Place, AP!Files, AP!File
  <1>3. AP!Incarnations'
    BY DEF AP!Incarnations
  <1>4. AP!Progress'
    <2>1. \A c, q, f, d : AP!DoneBefore(c, q, f, d)' <=> AP!DoneBefore(c, q, f, d)
      BY DEF AP!DoneBefore, AP!OnWorkload
    <2> QED
      BY <2>1 DEF AP!Progress, AP!Remote, AP!Reaches
  <1>5. AP!InstallOrder'
    BY DEF AP!InstallOrder, AP!OnWorkload
  <1>6. AP!AnnotationSound'
    BY DEF AP!AnnotationSound, AP!Complete, AP!OnWorkload
  <1> QED
    BY <1>1, <1>2, <1>3, <1>4, <1>5, <1>6

\* The policy controller does not notice what leaves its own state and the
\* Clusters alone.
LEMMA PolicyUnaware ==
    PolicyInv /\ UNCHANGED <<clusters, cache, policyOnly>> /\ Bounded => PolicyInv'
  <1> SUFFICES ASSUME PolicyInv, UNCHANGED <<clusters, cache, policyOnly>>, Bounded
               PROVE  PolicyInv'
    OBVIOUS
  <1> USE DEF PolicyInv, PP!BehindInv, PP!MarksInv, PP!CopiesInv, policyOnly
  <1>1. PP!TypeOK'
    BY DEF Bounded, PP!TypeOK, PP!FleetTypeOK
  <1>2. PP!Stored'
    BY DEF PP!Stored, PP!Exists, PP!Known
  <1>3. PP!Newest'
    BY DEF PP!Newest, PP!Exists
  <1>4. PP!Marks'
    BY DEF PP!Marks, PP!WasMarked
  <1>5. PP!InstalledFirst'
    BY DEF PP!InstalledFirst
  <1>6. PP!Behind'
    BY DEF PP!Behind, PP!HasPolicy, PP!Remote, PP!Reaches, PP!Key, PP!RemoteCalls
  <1> QED
    BY <1>1, <1>2, <1>3, <1>4, <1>5, <1>6

(***************************************************************************)
(* The steps of Provider, as either controller sees them.                  *)
(***************************************************************************)
\* Counting a fault or a change stays within the bounds.
LEMMA Counting ==
    ASSUME edits \in 0..MaxEdits, faults \in 0..MaxFaults,
           A!Edit \/ P!Edit \/ UNCHANGED edits,
           A!Fault \/ P!Fault \/ UNCHANGED faults
    PROVE  Bounded
  BY AddonConstants
  DEF Bounded, A!Edit, P!Edit, A!Fault, P!Fault, AP!FleetAssumption, AP!AddonAssumption

\* A step of the policy controller, or of those who edit policies, is one that
\* the addon controller does not notice.
LEMMA PolicySteps ==
    ASSUME edits \in 0..MaxEdits, faults \in 0..MaxFaults, PolicyStep
    PROVE  P!Next /\ UNCHANGED <<clusters, cache, addonOnly>> /\ Bounded
  <1>1. P!Next
    BY DEF PolicyStep, PolicyWorker, P!Next, P!Event, P!Environment
  <1> USE DEF P!fleetVars
  <1>2. /\ UNCHANGED <<clusters, cache>>
        /\ P!Edit \/ UNCHANGED edits
        /\ P!Fault \/ UNCHANGED faults
    <2>1. CASE \E p \in Policy : P!Reconcile(p)
      BY <2>1 DEF P!Reconcile, P!ReconcileNotFound, P!ReconcileFound
    <2>2. CASE \E c \in Cluster : P!VisitCluster(c)
      BY <2>2 DEF P!VisitCluster, P!VisitIneligible, P!Connect, P!ConnectFails
    <2>3. CASE P!Proceed
      BY <2>3
      DEF P!Proceed, P!ListClusters, P!SelectorInvalid, P!VisitedAll, P!GetExisting,
          P!CreatePolicy, P!UpdatePolicy, P!IsPolicyActive, P!DeployFails, P!UpdateStatus,
          P!UpdateStatusFails, P!DeletePolicy, P!DeletePolicyFails
    <2>4. CASE \E p \in Policy : \/ P!PolicyEvent(p) \/ P!SubmitPolicy(p)
                                 \/ P!EditPolicy(p) \/ P!WithdrawPolicy(p)
      BY <2>4 DEF P!PolicyEvent, P!SubmitPolicy, P!EditPolicy, P!WithdrawPolicy, P!SetPolicy
    <2>5. CASE P!Resync \/ \E c \in Cluster, k \in PolicyObject : P!Serve(c, k)
      BY <2>5 DEF P!Resync, P!Serve
    <2> QED
      BY <2>1, <2>2, <2>3, <2>4, <2>5 DEF PolicyStep, PolicyWorker
  <1>3. UNCHANGED addonOnly
    BY DEF PolicyStep
  <1> QED
    BY <1>1, <1>2, <1>3, Counting

\* A step of the addon controller, or of those who edit addons, marks a Cluster
\* or is one that the policy controller does not notice.
LEMMA AddonSteps ==
    ASSUME AP!TypeOK, AddonStep
    PROVE  /\ A!Next /\ Bounded
           /\ \/ UNCHANGED <<clusters, cache, policyOnly>>
              \/ \E c \in Cluster : P!MarkInstalled(c)
  <1>1. A!Next
    BY DEF AddonStep, AddonWorker, A!Next, A!Event, A!Failure, A!Environment
  <1>2. UNCHANGED policyOnly
    BY DEF AddonStep
  <1> USE DEF A!fleetVars
  <1>3. CASE A!AnnotateCluster
    <2>1. PICK c \in Cluster : c = addonJob.cluster
      BY <1>3 DEF AP!TypeOK, AP!RemoteCalls, A!AnnotateCluster
    <2>2. /\ clusters[c].present
          /\ clusters' = [clusters EXCEPT ![c] = [clusters[c] EXCEPT !.installed = TRUE]]
          /\ UNCHANGED <<cache, edits, faults>>
      BY <1>3, <2>1 DEF A!AnnotateCluster
    <2>3. clusters \in [Cluster -> AP!ClusterRecord]
      BY DEF AP!TypeOK, AP!FleetTypeOK
    <2>4. CASE clusters[c].installed
      <3>1. clusters' = clusters
        BY <2>2, <2>3, <2>4 DEF AP!ClusterRecord
      <3> QED
        BY <1>1, <1>2, <2>2, <3>1, Counting DEF AP!TypeOK, AP!FleetTypeOK
    <2>5. CASE ~clusters[c].installed
      <3>1. P!MarkInstalled(c)
        BY <1>2, <2>2, <2>5 DEF P!MarkInstalled, P!policyVars, policyOnly
      <3> QED
        BY <1>1, <2>2, <3>1, Counting DEF AP!TypeOK, AP!FleetTypeOK
    <2> QED
      BY <2>4, <2>5
  <1>4. CASE ~A!AnnotateCluster
    <2>1. /\ UNCHANGED <<clusters, cache>>
          /\ A!Edit \/ UNCHANGED edits
          /\ A!Fault \/ UNCHANGED faults
      <3>1. CASE \E a \in Addon : A!Reconcile(a)
        BY <3>1 DEF A!Reconcile, A!ReconcileNotFound, A!ReconcileDeleting, A!ReconcileLive,
                    A!vars
      <3>2. CASE \E c \in Cluster : A!VisitCluster(c)
        BY <3>2 DEF A!VisitCluster, A!VisitUnready, A!VisitInstalled, A!Connect,
                    A!ConnectFails
      <3>3. CASE A!Proceed
        BY <1>4, <3>3
        DEF A!Proceed, A!ListClusters, A!SelectorInvalid, A!VisitedAll, A!CreateNamespace,
            A!DownloadCRDs, A!DownloadNotFound, A!RenderHelmChart, A!ApplyDocument,
            A!EndOfManifest, A!EndOfPhase, A!PatchDeployment, A!PatchPolicyServer,
            A!PatchNotFound, A!PatchAuditScanner, A!AnnotateNotFound, A!PatchStatus,
            A!RemoteGone
      <3>4. CASE A!PatchStatusFails \/ A!CallFails
        BY <3>4 DEF A!PatchStatusFails, A!CallFails
      <3>5. CASE \E a \in Addon : \/ A!DelayPasses(a) \/ A!AddonEvent(a)
                                  \/ A!CreateAddon(a) \/ A!EditAddon(a) \/ A!DeleteAddon(a)
        BY <3>5 DEF A!DelayPasses, A!AddonEvent, A!CreateAddon, A!EditAddon, A!DeleteAddon, A!SetAddon
      <3>6. CASE A!Resync \/ A!PublishChart
        BY <3>6 DEF A!Resync, A!PublishChart
      <3> QED
        BY <3>1, <3>2, <3>3, <3>4, <3>5, <3>6 DEF AddonStep, AddonWorker
    <2> QED
      BY <1>1, <1>2, <2>1, Counting DEF AP!TypeOK, AP!FleetTypeOK
  <1> QED
    BY <1>3, <1>4

\* The other steps are steps of both controllers.
LEMMA SharedSteps ==
    ASSUME Restart \/ \E c \in Cluster : ClusterEvent(c) \/ FleetChanges(c)
    PROVE  A!Next /\ P!Next
  <1>1. CASE Restart
    BY <1>1 DEF Restart, A!Next, A!Failure, P!Next
  <1>2. ASSUME NEW c \in Cluster, ClusterEvent(c) PROVE A!Next /\ P!Next
    BY <1>2 DEF ClusterEvent, A!Next, A!Event, P!Next, P!Event
  <1>3. ASSUME NEW c \in Cluster, FleetChanges(c) PROVE A!Next /\ P!Next
    <2>1. P!FleetChanges(c) /\ A!FleetStep(c)
      BY <1>3 DEF FleetChanges
    <2>2. UNCHANGED faults
      BY <2>1 DEF P!FleetChanges
    <2>3. UNCHANGED <<A!addonVars, A!controllerVars, chart, faults>>
      BY <1>3, <2>2 DEF FleetChanges, A!addonVars, A!controllerVars
    <2> QED
      BY <2>1, <2>3 DEF A!Next, A!Environment, P!Next, P!Environment
  <1> QED
    BY <1>1, <1>2, <1>3

(***************************************************************************)
(* The theorems.                                                           *)
(***************************************************************************)
\* The invariants of both controllers survive the steps of the other one: the
\* addon controller does not read policies, and the policy controller relies
\* on no more than that annotations are kept (MaxUid = 1).
LEMMA BothStep ==
    ASSUME MaxUid = 1, AddonInv, PolicyInv, [Next]_vars
    PROVE  AddonInv' /\ PolicyInv'
  <1>0. AP!TypeOK /\ edits \in 0..MaxEdits /\ faults \in 0..MaxFaults
    BY DEF AddonInv, AP!InstallInv, AP!TypeOK, AP!FleetTypeOK
  <1>1. CASE AddonStep
    <2>1. AddonInv'
      BY <1>0, <1>1, AddonSteps, AddonAlone
    <2>2. P!Next \/ (UNCHANGED <<clusters, cache, policyOnly>> /\ Bounded)
      BY <1>0, <1>1, AddonSteps DEF P!Next, P!Environment
    <2> QED
      BY <2>1, <2>2, PolicyAlone, PolicyUnaware
  <1>2. CASE PolicyStep
    BY <1>0, <1>2, PolicySteps, PolicyAlone, AddonUnaware
  <1>3. CASE Restart \/ \E c \in Cluster : ClusterEvent(c) \/ FleetChanges(c)
    BY <1>3, SharedSteps, PolicyAlone, AddonAlone
  <1>4. CASE UNCHANGED vars
    <2>1. UNCHANGED <<clusters, cache, edits, faults, addonOnly, policyOnly>>
      BY <1>4 DEF vars
    <2>2. Bounded
      BY <1>0, <2>1 DEF Bounded
    <2> QED
      BY <2>1, <2>2, AddonUnaware, PolicyUnaware
  <1> QED
    BY <1>1, <1>2, <1>3, <1>4 DEF Next

\* Either controller's own invariant holds beside the other controller.
LEMMA BothHold == ASSUME MaxUid = 1 PROVE Spec => [](AddonInv /\ PolicyInv)
  <1>1. Init => AddonInv /\ PolicyInv
    BY AddonAlone, PolicyAlone DEF Init
  <1>2. AddonInv /\ PolicyInv /\ [Next]_vars => (AddonInv /\ PolicyInv)'
    BY BothStep
  <1> QED
    BY <1>1, <1>2, PTL DEF Spec

\* An annotated Cluster is complete, in either instance's words.
LEMMA AnnotatedComplete ==
    ASSUME AddonInv, NEW c \in Cluster, clusters[c].installed
    PROVE  A!Complete(c)
  <1>1. AP!Complete(c)
    BY DEF AddonInv, AP!AnnotationSound
  <1> QED
    BY <1>1
    DEF A!Complete, A!OnWorkload, A!KubewardenNamespace, A!Phase, A!CRDs, A!DefaultsChart,
        A!ObjectsOf, A!NullDoc, A!Deployment, A!PolicyServer,
        AP!Complete, AP!OnWorkload, AP!KubewardenNamespace, AP!Phase, AP!CRDs,
        AP!DefaultsChart, AP!ObjectsOf, AP!NullDoc, AP!Deployment, AP!PolicyServer

\* No policy is on a workload cluster that has not got all of Kubewarden,
\* whatever fails or restarts in either controller: a policy implies the
\* annotation (of the policy controller), and the annotation a complete
\* installation (of the addon controller).
THEOREM PoliciesAfterKubewardenHolds ==
    ASSUME MaxUid = 1
    PROVE  Spec => []PoliciesAfterKubewarden
  <1>1. AddonInv /\ PolicyInv => PoliciesAfterKubewarden
    <2> SUFFICES ASSUME AddonInv, PolicyInv, NEW c \in Cluster, NEW k \in PolicyObject,
                        deployed[c][k] # Absent
                 PROVE  A!Complete(c)
      BY DEF PoliciesAfterKubewarden
    <2>1. clusters[c].installed
      BY DEF PolicyInv, PP!BehindInv, PP!MarksInv, PP!InstalledFirst
    <2> QED
      BY <2>1, AnnotatedComplete
  <1> QED
    BY <1>1, BothHold, PTL

\* A step of the provider that the policy controller notices is one of its own
\* or of those around it.
LEMMA PolicySees ==
    ASSUME AddonInv, Next
    PROVE  P!Next \/ UNCHANGED <<clusters, cache, policyOnly>>
  <1>0. AP!TypeOK /\ edits \in 0..MaxEdits /\ faults \in 0..MaxFaults
    BY DEF AddonInv, AP!InstallInv, AP!TypeOK, AP!FleetTypeOK
  <1>1. CASE AddonStep
    BY <1>0, <1>1, AddonSteps DEF P!Next, P!Environment
  <1>2. CASE PolicyStep
    BY <1>0, <1>2, PolicySteps
  <1>3. CASE Restart \/ \E c \in Cluster : ClusterEvent(c) \/ FleetChanges(c)
    BY <1>3, SharedSteps
  <1> QED
    BY <1>1, <1>2, <1>3 DEF Next

\* A policy's status.ready turns true only when every selected Cluster that
\* still exists has the policy as in the present spec, and all of Kubewarden to
\* enforce it: the step is the policy controller's, whose own argument gives
\* the policy and the annotation; the addon controller's gives the rest.
THEOREM ReadyProtectedHolds == ASSUME MaxUid = 1 PROVE Spec => ReadyProtected
  <1>1. ASSUME AddonInv, PolicyInv, [Next]_vars, NEW p \in Policy,
               ~policies[p].status.ready, policies'[p].status.ready
        PROVE  /\ policyJob.selected # {}
               /\ \A c \in policyJob.selected :
                     clusters[c].present => P!Deployed(p, c) /\ A!Complete(c)
    <2>1. Next /\ ~UNCHANGED policies
      BY <1>1 DEF vars, policyOnly
    <2>2. [PP!Next]_PP!vars
      BY <1>1, <2>1, PolicySees, SamePolicyController DEF policyOnly
    <2>3. /\ policyJob.selected # {}
          /\ \A c \in policyJob.selected :
                clusters[c].present => PP!Deployed(p, c) /\ clusters[c].installed
      BY <1>1, <2>2, PolicyConstants, PP!ReadyStep
      DEF PolicyInv, PP!FleetAssumption, PP!VersionAssumption, PP!PolicyAssumption,
          PP!SpecAssumption
    <2>4. policyJob.selected \subseteq Cluster
      BY <1>1 DEF PolicyInv, PP!BehindInv, PP!MarksInv, PP!CopiesInv, PP!TypeOK, PP!JobRecord
    <2>5. \A c \in Cluster : PP!Deployed(p, c) => P!Deployed(p, c)
      BY DEF P!Deployed, P!PolicyKey, P!BuildPolicySpec, P!BuildRule, P!OrNil, P!Empty, P!Nil,
             P!ClusterAdmissionPolicy, P!AdmissionPolicy,
             PP!Deployed, PP!PolicyKey, PP!BuildPolicySpec, PP!BuildRule, PP!OrNil, PP!Empty,
             PP!Nil, PP!ClusterAdmissionPolicy, PP!AdmissionPolicy
    <2> QED
      BY <1>1, <2>3, <2>4, <2>5, AnnotatedComplete
  <1>2. AddonInv /\ PolicyInv /\ [Next]_vars =>
           [\A p \in Policy :
              ~policies[p].status.ready /\ policies'[p].status.ready =>
                 /\ policyJob.selected # {}
                 /\ \A c \in policyJob.selected :
                       clusters[c].present => P!Deployed(p, c) /\ A!Complete(c)]_vars
    BY <1>1
  <1> QED
    BY <1>2, BothHold, PTL DEF Spec, ReadyProtected
=============================================================================
