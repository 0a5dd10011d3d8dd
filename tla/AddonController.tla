-------------------------- MODULE AddonController --------------------------
(***************************************************************************)
(* The KubewardenAddon controller: it installs Kubewarden on the workload  *)
(* clusters a KubewardenAddon selects, marks their Cluster objects with an *)
(* annotation, and reports in the addon's status.                          *)
(*                                                                         *)
(* One worker runs one Reconcile at a time (`job', at `pc'); every call    *)
(* that leaves the process is a step of its own, so that users, Cluster    *)
(* API, informer events, errors and restarts come between any two calls.   *)
(***************************************************************************)
EXTENDS Fleet, AddonWebhook, Sequences

CONSTANTS
    Addon,           \* names of KubewardenAddon objects
    NamespaceOf,     \* the namespace of every Addon and Cluster
    Selector,        \* cluster selectors users write
    Requested,       \* versions users write, Unset if they leave it empty
    Released,        \* versions with a CRDS.tar.gz among the GitHub releases
    DefaultVersion,  \* kubewardenVersion, used when spec.version is empty
    Manifests,       \* per phase: the YAML files, each a sequence of documents
    MaxFaults        \* bound: failed calls and restarts in one behaviour

\* A document whose kind cannot be decoded (a comment, an empty document).
NullDoc == "null document"

\* The objects the code names.
KubewardenNamespace == "namespace"
Deployment == "deployment"
PolicyServer == "policy server"
AuditScanner == "audit scanner"

\* Documents are applied in three phases: the CRDs, the kubewarden-controller
\* chart, the kubewarden-defaults chart.
CRDs == 1
ControllerChart == 2
DefaultsChart == 3
Phase == CRDs..DefaultsChart

\* Everything the files of a phase list.
ObjectsOf(p) == {o \in Object : \E f \in DOMAIN Manifests[p] :
                                   \E d \in DOMAIN Manifests[p][f] : o = Manifests[p][f][d]}

\* No document follows a null one: applyManifest stops reading there, which is
\* the subject of Artifacts.
NullsLast(file) ==
    \A d, e \in DOMAIN file : d < e /\ file[d] = NullDoc => file[e] = NullDoc

ASSUME ManifestAssumption ==
    /\ {KubewardenNamespace, Deployment, PolicyServer, AuditScanner} \subseteq Object
    /\ NullDoc \notin Object
    /\ Manifests \in [Phase -> Seq(Seq(Object \cup {NullDoc}))]
    /\ \A p \in Phase : \A f \in DOMAIN Manifests[p] : NullsLast(Manifests[p][f])
    \* no object is shipped twice, and none is the namespace
    /\ \A p \in Phase : KubewardenNamespace \notin ObjectsOf(p)
    /\ \A p, q \in Phase : p # q => ObjectsOf(p) \cap ObjectsOf(q) = {}

ASSUME AddonAssumption ==
    /\ DOMAIN NamespaceOf = Addon \cup Cluster
    /\ Selector \subseteq [valid : BOOLEAN, matches : SUBSET Label]
    /\ Requested \subseteq Version \cup {Unset}
    /\ Released \subseteq Version
    /\ DefaultVersion \in Version
    /\ Unset \notin Version
    /\ MaxFaults \in Nat

VARIABLES
    addons,       \* the KubewardenAddon objects on the API server
    addonCache,   \* the informer cache's copy of them
    queue,        \* keys to reconcile
    delayed,      \* keys that wait for a RequeueAfter or a backoff to pass
    pc,           \* where the running Reconcile is, "idle" when there is none
    job,          \* its local state
    chart,        \* version shipped by the newest charts in the Helm repository
    faults        \* number of failed calls and restarts so far

controllerVars == <<queue, delayed, pc, job>>
addonVars == <<addons, addonCache>>
vars == <<fleetVars, addonVars, controllerVars, chart, faults>>

(***************************************************************************)
(* State.                                                                  *)
(***************************************************************************)
\* A metav1.LabelSelector: the labels it matches, or invalid (an unknown
\* operator, say): the API server accepts it, LabelSelectorAsSelector does not.
SelectorType == [valid : BOOLEAN, matches : SUBSET Label]
NoSelector == [valid |-> FALSE, matches |-> {}]

\* "deleting": deletionTimestamp set and somebody else's finalizer present.
AddonRecord ==
    [phase : {"absent", "live", "deleting"}, selector : SelectorType,
     version : Version \cup {Unset}, ready : BOOLEAN, matching : SUBSET Cluster]

NoAddon == [phase |-> "absent", selector |-> NoSelector, version |-> Unset,
            ready |-> FALSE, matching |-> {}]

\* An addon as a user creates it: spec as given, empty status.
NewAddon(s, v) == [phase |-> "live", selector |-> s, version |-> v,
                   ready |-> FALSE, matching |-> {}]

\* The addon's spec and status as read by Get; the selected Clusters as
\* listed, those not yet visited, those up and those annotated at that time;
\* the Cluster in hand and the incarnation connected to; the place in
\* Manifests and the version being applied.
None == "none"

JobRecord ==
    [addon : Addon \cup {None}, selector : SelectorType,
     version : Version \cup {Unset}, wasReady : BOOLEAN,
     selected : SUBSET Cluster, todo : SUBSET Cluster, up : SUBSET Cluster,
     annotated : SUBSET Cluster, cluster : Cluster \cup {None}, uid : 0..MaxUid,
     phase : Phase, file : Nat, doc : Nat, from : Version \cup {Unset}]

NoJob == [addon |-> None, selector |-> NoSelector, version |-> Unset,
          wasReady |-> FALSE, selected |-> {}, todo |-> {}, up |-> {},
          annotated |-> {}, cluster |-> None, uid |-> 0, phase |-> CRDs,
          file |-> 0, doc |-> 0, from |-> Unset]

\* Places at which a call to the workload cluster is next.
RemoteCalls == {"namespace", "apply", "deployment", "policy server"}

TypeOK ==
    /\ FleetTypeOK
    /\ addons \in [Addon -> AddonRecord]
    /\ addonCache \in [Addon -> AddonRecord]
    /\ queue \subseteq Addon
    /\ delayed \subseteq Addon
    /\ pc \in RemoteCalls \cup
              {"idle", "list", "visit", "fetch", "audit scanner", "annotate", "status"}
    /\ job \in JobRecord
    /\ pc # "idle" => job.addon \in Addon
    /\ pc \notin {"idle", "list", "visit", "status"} => job.cluster \in Cluster
    /\ pc = "apply" => job.from \in Version
    /\ chart \in Version
    /\ faults \in 0..MaxFaults

Init ==
    /\ FleetInit
    /\ addons \in [Addon -> {NoAddon} \cup
          {NewAddon(s, Admit(v)) : s \in Selector, v \in Requested}]
    /\ addonCache = addons
    /\ queue = {a \in Addon : addons[a].phase # "absent"}
    /\ delayed = {}
    /\ pc = "idle"
    /\ job = NoJob
    /\ chart \in Version
    /\ faults = 0

(***************************************************************************)
(* How Reconcile ends.  A Result that asks for a requeue, now or later, and*)
(* an error all put the key back after a delay; a plain Result does not.   *)
(* A key that waits goes on waiting when an event queues it at once.       *)
(***************************************************************************)
Return(keys) == /\ pc' = "idle"
                /\ job' = NoJob
                /\ delayed' = delayed \cup keys
                /\ UNCHANGED queue

Done == Return({})
Requeue == Return({job.addon})

Goto(place) == pc' = place /\ UNCHANGED <<queue, delayed>>

\* The delay is over.
DelayPasses(a) ==
    /\ a \in delayed
    /\ delayed' = delayed \ {a}
    /\ queue' = queue \cup {a}
    /\ UNCHANGED <<fleetVars, addonVars, pc, job, chart, faults>>

(***************************************************************************)
(* Reconcile: Get the addon from the cache.                                *)
(***************************************************************************)
Take(a) == pc = "idle" /\ a \in queue

\* The addon is gone: Result{Requeue: true} puts the key back.
ReconcileNotFound(a) ==
    /\ Take(a)
    /\ addonCache[a].phase = "absent"
    /\ queue' = queue \ {a}
    /\ delayed' = delayed \cup {a}
    /\ UNCHANGED <<fleetVars, addonVars, pc, job, chart, faults>>

ReconcileDeleting(a) ==
    /\ Take(a)
    /\ addonCache[a].phase = "deleting"
    /\ queue' = queue \ {a}
    /\ UNCHANGED <<fleetVars, addonVars, delayed, pc, job, chart, faults>>

Started(a) == [NoJob EXCEPT !.addon = a,
                            !.selector = addonCache[a].selector,
                            !.version = addonCache[a].version,
                            !.wasReady = addonCache[a].ready]

ReconcileLive(a) ==
    /\ Take(a)
    /\ addonCache[a].phase = "live"
    /\ queue' = queue \ {a}
    /\ pc' = "list"
    /\ job' = Started(a)
    /\ UNCHANGED <<fleetVars, addonVars, delayed, chart, faults>>

(***************************************************************************)
(* reconcileNormal: list and select Clusters from the cache.               *)
(***************************************************************************)
\* Mutant: the List forgets InNamespace.
GetClustersEverywhere(a) == {c \in Cluster : cache[c].present}

GetAllCapiClusters(a) ==
    {c \in Cluster : cache[c].present /\ NamespaceOf[c] = NamespaceOf[a]}

SelectClusters(all, s) == {c \in all : cache[c].label \in s.matches}

\* The Cluster is skipped only when both signals say it is not ready.
ControlPlaneUp(r) == r.cpReady \/ r.cpCond

ListClusters ==
    /\ pc = "list"
    /\ job.selector.valid
    /\ LET selected == SelectClusters(GetAllCapiClusters(job.addon), job.selector)
       IN  job' = [job EXCEPT !.selected = selected,
                              !.todo = selected,
                              !.up = {c \in selected : ControlPlaneUp(cache[c])},
                              !.annotated = {c \in selected : HasAnnotation(cache[c])}]
    /\ Goto("visit")
    /\ UNCHANGED <<fleetVars, addonVars, chart, faults>>

SelectorInvalid ==
    /\ pc = "list"
    /\ ~job.selector.valid
    /\ Requeue
    /\ UNCHANGED <<fleetVars, addonVars, chart, faults>>

(***************************************************************************)
(* The loop over the selected Clusters, in the cache's (random) order.     *)
(***************************************************************************)
Visit(c) == pc = "visit" /\ c \in job.todo

\* Mutant: an unready Cluster is passed over.
VisitUnreadyContinues(c) ==
    /\ Visit(c)
    /\ c \notin job.up
    /\ job' = [job EXCEPT !.todo = job.todo \ {c}]
    /\ Goto("visit")
    /\ UNCHANGED <<fleetVars, addonVars, chart, faults>>

\* RequeueAfter, and the Clusters not yet visited wait as well.
VisitUnready(c) ==
    /\ Visit(c)
    /\ c \notin job.up
    /\ Requeue
    /\ UNCHANGED <<fleetVars, addonVars, chart, faults>>

\* "skipping": but the whole Reconcile returns.
VisitInstalled(c) ==
    /\ Visit(c)
    /\ c \in job.up
    /\ c \in job.annotated
    /\ Done
    /\ UNCHANGED <<fleetVars, addonVars, chart, faults>>

Connected(c) == [job EXCEPT !.todo = job.todo \ {c},
                            !.cluster = c,
                            !.uid = clusters[c].uid]

\* The remote client is made from the Cluster's name, so it reaches the
\* incarnation that has the name now.
Connect(c) ==
    /\ Visit(c)
    /\ c \in job.up \ job.annotated
    /\ clusters[c].present
    /\ job' = Connected(c)
    /\ Goto("namespace")
    /\ UNCHANGED <<fleetVars, addonVars, chart, faults>>

ConnectFails(c) ==
    /\ Visit(c)
    /\ c \in job.up \ job.annotated
    /\ ~clusters[c].present
    /\ Requeue
    /\ UNCHANGED <<fleetVars, addonVars, chart, faults>>

VisitedAll ==
    /\ pc = "visit"
    /\ job.todo = {}
    /\ Goto("status")
    /\ UNCHANGED <<fleetVars, addonVars, job, chart, faults>>

(***************************************************************************)
(* Installing Kubewarden on one Cluster.                                   *)
(***************************************************************************)
Remote == Reaches(job.cluster, job.uid)

\* The job at document d of file f of phase p, applied from version v; and the
\* job done with the Cluster in hand.
At(p, f, d, v) == [job EXCEPT !.phase = p, !.file = f, !.doc = d, !.from = v]
NextCluster == [job EXCEPT !.cluster = None, !.uid = 0, !.phase = CRDs,
                           !.file = 0, !.doc = 0, !.from = Unset]

OnWorkload(c, o) == workload[c][o] # Absent

\* Create: an object that exists already is left as it is.
Create(o, v) ==
    workload' = [workload EXCEPT ![job.cluster] =
        [workload[job.cluster] EXCEPT ![o] =
            IF OnWorkload(job.cluster, o) THEN workload[job.cluster][o] ELSE v]]

CreateNamespace ==
    /\ pc = "namespace"
    /\ Remote
    /\ Create(KubewardenNamespace, Unversioned)
    /\ job' = At(CRDs, 0, 0, Unset)
    /\ Goto("fetch")
    /\ UNCHANGED <<clusters, cache, tolerant, edits, addonVars, chart, faults>>

AppVersion == IF job.version = Unset THEN DefaultVersion ELSE job.version

\* Download and unpack the release's CRDS.tar.gz ...
DownloadCRDs ==
    /\ pc = "fetch"
    /\ job.phase = CRDs
    /\ AppVersion \in Released
    /\ job' = At(CRDs, 1, 1, AppVersion)
    /\ Goto("apply")
    /\ UNCHANGED <<fleetVars, addonVars, chart, faults>>

\* Mutant: reconcileNormal drops the error of installKubewardenCRDs, so the
\* next phase follows.
DownloadErrorDropped ==
    /\ pc = "fetch"
    /\ job.phase = CRDs
    /\ AppVersion \notin Released
    /\ job' = At(ControllerChart, 0, 0, Unset)
    /\ Goto("fetch")
    /\ UNCHANGED <<fleetVars, addonVars, chart, faults>>

\* ... which answers 404 for a version that was not released.
DownloadNotFound ==
    /\ pc = "fetch"
    /\ job.phase = CRDs
    /\ AppVersion \notin Released
    /\ Requeue
    /\ UNCHANGED <<fleetVars, addonVars, chart, faults>>

\* resolveChartVersion returns "" whatever the version: Helm takes the newest.
RenderHelmChart ==
    /\ pc = "fetch"
    /\ job.phase # CRDs
    /\ job' = At(job.phase, 1, 1, chart)
    /\ Goto("apply")
    /\ UNCHANGED <<fleetVars, addonVars, chart, faults>>

Files == Manifests[job.phase]
File == Files[job.file]

\* One round of applyManifest's loop.
ApplyDocument ==
    /\ pc = "apply"
    /\ job.file \in DOMAIN Files
    /\ job.doc \in DOMAIN File
    /\ File[job.doc] # NullDoc
    /\ Remote
    /\ Create(File[job.doc], job.from)
    /\ job' = At(job.phase, job.file, job.doc + 1, job.from)
    /\ Goto("apply")
    /\ UNCHANGED <<clusters, cache, tolerant, edits, addonVars, chart, faults>>

\* The loop ends at EOF, and at a document without a kind.
EndOfManifest ==
    /\ pc = "apply"
    /\ job.file \in DOMAIN Files
    /\ job.doc \in DOMAIN File => File[job.doc] = NullDoc
    /\ job' = At(job.phase, job.file + 1, 1, job.from)
    /\ Goto("apply")
    /\ UNCHANGED <<fleetVars, addonVars, chart, faults>>

\* Mutant: the tolerations are forgotten.
EndOfPhaseUntolerated ==
    /\ pc = "apply"
    /\ job.file \notin DOMAIN Files
    /\ IF job.phase = DefaultsChart
       THEN Goto("annotate") /\ UNCHANGED job
       ELSE Goto("fetch") /\ job' = At(job.phase + 1, 0, 0, Unset)
    /\ UNCHANGED <<fleetVars, addonVars, chart, faults>>

EndOfPhase ==
    /\ pc = "apply"
    /\ job.file \notin DOMAIN Files
    /\ IF job.phase = DefaultsChart
       THEN Goto("deployment") /\ UNCHANGED job
       ELSE Goto("fetch") /\ job' = At(job.phase + 1, 0, 0, Unset)
    /\ UNCHANGED <<fleetVars, addonVars, chart, faults>>

(***************************************************************************)
(* applyControlPlaneTolerations.                                           *)
(***************************************************************************)
Tolerate(o) ==
    tolerant' = [tolerant EXCEPT ![job.cluster] = tolerant[job.cluster] \cup {o}]

PatchDeployment ==
    /\ pc = "deployment"
    /\ Remote
    /\ OnWorkload(job.cluster, Deployment)
    /\ Tolerate(Deployment)
    /\ Goto("policy server")
    /\ UNCHANGED <<clusters, cache, workload, edits, addonVars, job, chart, faults>>

PatchPolicyServer ==
    /\ pc = "policy server"
    /\ Remote
    /\ OnWorkload(job.cluster, PolicyServer)
    /\ Tolerate(PolicyServer)
    /\ Goto("audit scanner")
    /\ UNCHANGED <<clusters, cache, workload, edits, addonVars, job, chart, faults>>

\* What is to be patched is not there, or the workload cluster is not.
PatchNotFound ==
    /\ pc \in {"deployment", "policy server"}
    /\ ~(Remote /\ OnWorkload(job.cluster,
                              IF pc = "deployment" THEN Deployment ELSE PolicyServer))
    /\ Requeue
    /\ UNCHANGED <<fleetVars, addonVars, chart, faults>>

Fault == faults < MaxFaults /\ faults' = faults + 1

\* Optional: whatever error the patch meets is logged and forgotten.
PatchAuditScanner ==
    /\ pc = "audit scanner"
    /\ \/ Remote /\ OnWorkload(job.cluster, AuditScanner) /\ Tolerate(AuditScanner)
                 /\ UNCHANGED faults
       \/ ~(Remote /\ OnWorkload(job.cluster, AuditScanner))
          /\ UNCHANGED <<tolerant, faults>>
       \/ Fault /\ UNCHANGED tolerant
    /\ Goto("annotate")
    /\ UNCHANGED <<clusters, cache, workload, edits, addonVars, job, chart>>

(***************************************************************************)
(* The annotation is patched by name, with neither uid nor resourceVersion *)
(* as a precondition; then the loop goes on.                               *)
(***************************************************************************)
\* Mutant: the patch goes to every selected Cluster.
AnnotateSelected ==
    /\ pc = "annotate"
    /\ clusters[job.cluster].present
    /\ clusters' = [c \in Cluster |->
          IF c \in job.selected /\ clusters[c].present
          THEN [clusters[c] EXCEPT !.installed = TRUE] ELSE clusters[c]]
    /\ job' = NextCluster
    /\ Goto("visit")
    /\ UNCHANGED <<cache, workload, tolerant, edits, addonVars, chart, faults>>

AnnotateCluster ==
    /\ pc = "annotate"
    /\ clusters[job.cluster].present
    /\ clusters' = [clusters EXCEPT ![job.cluster] =
          [clusters[job.cluster] EXCEPT !.installed = TRUE]]
    /\ job' = NextCluster
    /\ Goto("visit")
    /\ UNCHANGED <<cache, workload, tolerant, edits, addonVars, chart, faults>>

AnnotateNotFound ==
    /\ pc = "annotate"
    /\ ~clusters[job.cluster].present
    /\ Requeue
    /\ UNCHANGED <<fleetVars, addonVars, chart, faults>>

(***************************************************************************)
(* The status patch: the fields that differ between the copy taken after   *)
(* SetMatchingClusters and the object as modified since.                   *)
(***************************************************************************)
MergePatch(live, base, new) ==
    [live EXCEPT !.ready = IF new.ready = base.ready THEN live.ready ELSE new.ready,
                 !.matching = IF new.matching = base.matching
                              THEN live.matching ELSE new.matching]

StatusBase == [ready |-> job.wasReady, matching |-> job.selected]

\* Mutant: an empty selection counts as deployed.
StatusAlwaysReady == [ready |-> TRUE, matching |-> job.selected]

StatusNew == [ready |-> job.selected # {}, matching |-> job.selected]

PatchStatus ==
    /\ pc = "status"
    /\ addons' = IF addons[job.addon].phase = "absent" THEN addons
                 ELSE [addons EXCEPT ![job.addon] =
                          MergePatch(addons[job.addon], StatusBase, StatusNew)]
    /\ Done
    /\ UNCHANGED <<fleetVars, addonCache, chart, faults>>

\* The error is logged; the result is the same as without it.
PatchStatusFails ==
    /\ pc = "status"
    /\ Fault
    /\ Done
    /\ UNCHANGED <<fleetVars, addonVars, chart>>

(***************************************************************************)
(* Failures.                                                               *)
(***************************************************************************)
\* The workload cluster connected to is gone: the call in hand fails.
RemoteGone ==
    /\ pc \in {"namespace", "apply"}
    /\ ~Remote
    /\ Requeue
    /\ UNCHANGED <<fleetVars, addonVars, chart, faults>>

\* Mutant: the error is logged and dropped.
CallFailsSilently ==
    /\ pc \in RemoteCalls \cup {"list", "visit", "fetch", "annotate"}
    /\ pc = "visit" => job.todo \cap (job.up \ job.annotated) # {}
    /\ Fault
    /\ Done
    /\ UNCHANGED <<fleetVars, addonVars, chart>>

\* A call fails (or its answer is lost: then the step before has happened).
CallFails ==
    /\ pc \in RemoteCalls \cup {"list", "visit", "fetch", "annotate"}
    /\ pc = "visit" => job.todo \cap (job.up \ job.annotated) # {}
    /\ Fault
    /\ Requeue
    /\ UNCHANGED <<fleetVars, addonVars, chart>>

\* The manager is killed and starts again: its caches list everything anew
\* and every addon is an event.
Restart ==
    /\ Fault
    /\ cache' = clusters
    /\ addonCache' = addons
    /\ queue' = {a \in Addon : addons[a].phase # "absent"}
    /\ delayed' = {}
    /\ pc' = "idle"
    /\ job' = NoJob
    /\ UNCHANGED <<clusters, workload, tolerant, edits, addons, chart>>

(***************************************************************************)
(* Events.                                                                 *)
(***************************************************************************)
Known == {a \in Addon : addonCache[a].phase # "absent"}

\* Mutants: the request names the Cluster; no request is made.
RequestForCluster(c) == {c}
NoRequest(c) == {}

\* clusterToKubewardenAddon: an event of any Cluster wakes every addon.
ClusterToKubewardenAddon(c) == Known

ClusterEvent(c) ==
    /\ cache[c] # clusters[c]
    /\ cache' = [cache EXCEPT ![c] = clusters[c]]
    /\ queue' = queue \cup ClusterToKubewardenAddon(c)
    /\ UNCHANGED <<clusters, workload, tolerant, edits, addonVars, delayed, pc, job,
                   chart, faults>>

AddonEvent(a) ==
    /\ addonCache[a] # addons[a]
    /\ addonCache' = [addonCache EXCEPT ![a] = addons[a]]
    /\ queue' = queue \cup {a}
    /\ UNCHANGED <<fleetVars, addons, delayed, pc, job, chart, faults>>

\* The informers replay their caches every ten hours or so.
Resync ==
    /\ queue' = queue \cup Known
    /\ UNCHANGED <<fleetVars, addonVars, delayed, pc, job, chart, faults>>

(***************************************************************************)
(* Users and publishers.                                                   *)
(***************************************************************************)
SetAddon(a, record) ==
    /\ Edit
    /\ addons' = [addons EXCEPT ![a] = record]
    /\ UNCHANGED <<clusters, cache, workload, tolerant, addonCache,
                   controllerVars, chart, faults>>

CreateAddon(a) ==
    /\ addons[a].phase = "absent"
    /\ \E s \in Selector, v \in Requested : SetAddon(a, NewAddon(s, Admit(v)))

EditAddon(a) ==
    /\ addons[a].phase = "live"
    /\ \E s \in Selector, v \in Requested :
          /\ <<s, Admit(v)>> # <<addons[a].selector, addons[a].version>>
          /\ SetAddon(a, [addons[a] EXCEPT !.selector = s, !.version = Admit(v)])

\* Delete, with or without somebody's finalizer; then the finalizer goes.
DeleteAddon(a) ==
    \/ /\ addons[a].phase = "live"
       /\ SetAddon(a, [addons[a] EXCEPT !.phase = "deleting"])
    \/ /\ addons[a].phase # "absent"
       /\ SetAddon(a, NoAddon)

PublishChart ==
    /\ Edit
    /\ \E v \in Version \ {chart} : chart' = v
    /\ UNCHANGED <<clusters, cache, workload, tolerant, addonVars,
                   controllerVars, faults>>

(***************************************************************************)
(* The specification.                                                      *)
(***************************************************************************)
Reconcile(a) == ReconcileNotFound(a) \/ ReconcileDeleting(a) \/ ReconcileLive(a)

VisitCluster(c) == VisitUnready(c) \/ VisitInstalled(c) \/ Connect(c) \/ ConnectFails(c)

\* The steps of reconcileNormal that need no choice of a Cluster.
Proceed ==
    \/ ListClusters \/ SelectorInvalid \/ VisitedAll
    \/ CreateNamespace \/ DownloadCRDs \/ DownloadNotFound \/ RenderHelmChart
    \/ ApplyDocument \/ EndOfManifest \/ EndOfPhase
    \/ PatchDeployment \/ PatchPolicyServer \/ PatchNotFound \/ PatchAuditScanner
    \/ AnnotateCluster \/ AnnotateNotFound \/ PatchStatus \/ RemoteGone

Failure == PatchStatusFails \/ CallFails \/ Restart

Event == \/ \E c \in Cluster : ClusterEvent(c)
         \/ \E a \in Addon : AddonEvent(a)

Environment ==
    \/ /\ \E c \in Cluster : FleetStep(c)
       /\ UNCHANGED <<addonVars, controllerVars, chart, faults>>
    \/ \E a \in Addon : CreateAddon(a) \/ EditAddon(a) \/ DeleteAddon(a)
    \/ PublishChart

Next ==
    \/ \E a \in Addon : Reconcile(a)
    \/ \E c \in Cluster : VisitCluster(c)
    \/ Proceed
    \/ Failure
    \/ Event
    \/ \E a \in Addon : DelayPasses(a)
    \/ Resync
    \/ Environment

Spec == Init /\ [][Next]_vars

\* The workqueue is first in, first out: a key that keeps coming to the head
\* is taken.  Delays pass, a Reconcile that runs goes on, and watches deliver.
Fairness ==
    /\ \A a \in Addon : SF_vars(Reconcile(a)) /\ WF_vars(DelayPasses(a))
                                               /\ WF_vars(AddonEvent(a))
    /\ \A c \in Cluster : WF_vars(ClusterEvent(c))
    /\ WF_vars(\E c \in Cluster : VisitCluster(c))
    /\ WF_vars(Proceed)

FairSpec == Spec /\ Fairness

(***************************************************************************)
(* Properties.                                                             *)
(***************************************************************************)
\* Everything the Reconcile of a Cluster puts there is there.
Complete(c) ==
    /\ OnWorkload(c, KubewardenNamespace)
    /\ \A p \in Phase : \A o \in ObjectsOf(p) : OnWorkload(c, o)
    /\ {Deployment, PolicyServer} \subseteq tolerant[c]

\* The Clusters an addon selects now, and those it could install on.
Wanted(a) == {c \in Cluster : /\ clusters[c].present
                              /\ NamespaceOf[c] = NamespaceOf[a]
                              /\ clusters[c].label \in addons[a].selector.matches}

Live(a) == addons[a].phase = "live" /\ addons[a].selector.valid

\* Nothing is running, queued or delayed and the caches are up to date: only
\* a user, Cluster API, a restart or a resync makes the controller move.
Quiescent == /\ pc = "idle" /\ queue = {} /\ delayed = {}
             /\ CacheSynced /\ addonCache = addons

\* The annotation never lies: a Cluster that carries it has the namespace,
\* every object of the three phases and both mandatory tolerations
\* (reconcileNormal annotates last), whatever failed or restarted before.
\* Holds as long as no Cluster name is used twice (MaxUid = 1).
AnnotationSound == \A c \in Cluster : clusters[c].installed => Complete(c)

\* No object of a phase is on a workload cluster before the namespace and all
\* of the phases before it, also across failed passes and new incarnations:
\* CRDs precede the controller, which precedes the default PolicyServer.
InstallOrder ==
    \A c \in Cluster, p \in Phase :
        (\E o \in ObjectsOf(p) : OnWorkload(c, o)) =>
            /\ OnWorkload(c, KubewardenNamespace)
            /\ \A q \in Phase : q < p => \A o \in ObjectsOf(q) : OnWorkload(c, o)

\* status.ready turns true only at the end of a pass that selected something
\* and left every selected Cluster that still exists annotated and complete.
ReadyJustified ==
    [][\A a \in Addon : ~addons[a].ready /\ addons'[a].ready =>
          /\ job.selected # {}
          /\ \A c \in job.selected :
                clusters[c].present => clusters[c].installed /\ Complete(c)]_vars

\* No wake-up is lost between caches, queue, failures and restarts: when the
\* controller rests, an addon that selects Clusters has got to one of them.
NoLostWakeup ==
    Quiescent => \A a \in Addon : Live(a) /\ Wanted(a) # {} =>
        \E c \in Wanted(a) : clusters[c].installed

\* When the controller rests, an addon that selects nothing is not Ready,
\* although its status is patched from a cache that may be behind.  Holds as
\* long as no status patch fails (MaxFaults = 0): that error is swallowed.
NothingSelectedNotReady ==
    Quiescent => \A a \in Addon : Live(a) /\ Wanted(a) = {} => ~addons[a].ready

\* A Cluster in a namespace without addons is never touched, although its
\* events wake the addons of every namespace.
Tenancy ==
    \A c \in Cluster :
        (\A a \in Addon : NamespaceOf[a] # NamespaceOf[c]) =>
            workload[c] = Bare /\ tolerant[c] = {} /\ ~clusters[c].installed

\* An addon that can be installed on Cluster c wants it there.  A version left
\* empty, whatever admission makes of it, is to be installable.
Due(c) == /\ ControlPlaneUp(clusters[c])
          /\ \E a \in Addon :
                /\ Live(a) /\ c \in Wanted(a)
                /\ addons[a].version \in Released \cup {Unset, Latest}

\* A Cluster that stays selected and up gets Kubewarden for good, through
\* failed calls, restarts and changes, as long as no other Cluster is
\* selected with it (one Cluster).
Convergence == \A c \in Cluster : <>[]Due(c) => <>[]clusters[c].installed

(***************************************************************************)
(* The promise: Install, with the namespace, the three phases and the      *)
(* tolerations as stages.                                                  *)
(***************************************************************************)
Tolerations == DefaultsChart + 1
Stage == 0..Tolerations

\* What a stage creates.
Contents == [s \in Stage |-> CASE s = 0           -> {KubewardenNamespace}
                               [] s = Tolerations -> {}
                               [] OTHER           -> ObjectsOf(s)]

StageBegun(c, s) ==
    \/ \E o \in Contents[s] : OnWorkload(c, o)
    \/ s = Tolerations /\ tolerant[c] # {}

\* A stage may be empty: there is something to do before the namespace exists.
StageDone(c, s) ==
    /\ OnWorkload(c, KubewardenNamespace)
    /\ \A o \in Contents[s] : OnWorkload(c, o)
    /\ s = Tolerations => {Deployment, PolicyServer} \subseteq tolerant[c]

SiteOf(c) == [exists |-> clusters[c].present,
              marked |-> clusters[c].installed,
              begun |-> {s \in Stage : StageBegun(c, s)},
              done |-> {s \in Stage : StageDone(c, s)}]

Promise == INSTANCE Install WITH site <- [c \in Cluster |-> SiteOf(c)]

\* The controller keeps the promise, whoever else changes what at any time:
\* stages in order, nothing undone by a retry, the annotation last.  Holds as
\* long as no Cluster name is used twice (MaxUid = 1).
ImplementsInstall == Promise!Spec

(***************************************************************************)
(* What the API types, comments and docs say and the code does not do.     *)
(***************************************************************************)
\* kubewardenaddon_types.go: "The Kubewarden will be installed on all selected
\* Clusters."  At least on those whose control plane is up.
AllSelectedInstalled ==
    Quiescent => \A a \in Addon : Live(a) =>
        \A c \in Wanted(a) : ControlPlaneUp(clusters[c]) => clusters[c].installed

\* reconcileNormal's log: "Successfully deployed Kubewarden to cluster": the
\* statement of AnnotationSound, where a name may be used again (MaxUid = 2).
AnnotationSoundAcrossIncarnations == AnnotationSound
=============================================================================
