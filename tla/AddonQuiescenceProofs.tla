----------------------- MODULE AddonQuiescenceProofs -----------------------
(***************************************************************************)
(* What the KubewardenAddon controller leaves behind when it comes to rest:*)
(* no wake-up is lost between the caches, the queue and the running pass.  *)
(***************************************************************************)
EXTENDS AddonControllerProofs

(***************************************************************************)
(* What is true between any two steps.                                     *)
(***************************************************************************)
\* The Clusters that addon a selects, as far as the caches know.
CacheSelected(a) == SelectClusters(GetAllCapiClusters(a), addonCache[a].selector)

\* There is nothing to do for the object the cache has of Cluster c: it is
\* annotated or gone.
Handled(c) == \/ clusters[c].installed
              \/ ~clusters[c].present
              \/ clusters[c].uid # cache[c].uid

\* The cache does not know a Cluster before it exists.
CacheBehind == \A c \in Cluster : cache[c].uid <= clusters[c].uid

\* A pass whose addon is not queued again works on what the caches have now,
\* and has handled the Clusters it is through with.
Current ==
    pc # "idle" /\ job.addon \notin queue =>
        /\ addonCache[job.addon].phase = "live"
        /\ job.selector = addonCache[job.addon].selector
        /\ job.wasReady = addonCache[job.addon].ready
        /\ pc # "list" =>
              /\ job.selected = CacheSelected(job.addon)
              /\ job.todo \subseteq job.selected
              /\ \A c \in job.annotated : cache[c].installed
              /\ \A c \in job.selected \ job.todo :
                    \/ pc \in Installing \cup {"namespace"} /\ c = job.cluster
                    \/ Handled(c)
        /\ pc = "status" => job.todo = {}

\* Nothing is queued or running for addon a, although it is there.
AtRest(a) ==
    /\ addonCache[a].phase = "live" /\ addonCache[a].selector.valid
    /\ a \notin queue /\ a \notin delayed
    /\ pc # "idle" => job.addon # a

\* The last pass of an addon at rest came to a Cluster that was handled.
Rested ==
    \A a \in Addon : AtRest(a) /\ CacheSelected(a) # {} =>
        \E c \in CacheSelected(a) : cache[c].installed \/ Handled(c)

\* The last pass of an addon at rest that selected nothing took its Ready
\* back, unless the cache had not seen it yet: then an event is on its way.
RestedNotReady ==
    \A a \in Addon : AtRest(a) /\ CacheSelected(a) = {} =>
        addons[a].phase = "absent" \/ ~addons[a].ready \/ ~addonCache[a].ready

(***************************************************************************)
(* How steps wake addons and end passes.                                   *)
(***************************************************************************)
\* Whatever changes a cached copy that concerns a live addon leaves the addon
\* in the queue, and only the start of a pass takes it off.
LEMMA Wakeup ==
    ASSUME TypeOK, [Next]_vars, NEW a \in Addon, a \notin queue'
    PROVE  /\ pc' # "idle" \/ addonCache'[a].phase = "live" => addonCache'[a] = addonCache[a]
           /\ addonCache'[a].phase = "live" =>
                 cache' = cache /\ (a \notin queue \/ ReconcileLive(a))
           /\ pc # "idle" /\ pc' # "idle" => a \notin queue
  <1> USE DEF fleetVars, addonVars, controllerVars
  <1>1. ASSUME queue \subseteq queue', UNCHANGED <<cache, addonCache>>
        PROVE  a \notin queue /\ UNCHANGED <<cache, addonCache>>
    BY <1>1
  <1>2. ASSUME NEW b \in Addon, Reconcile(b)
        PROVE  /\ UNCHANGED <<cache, addonCache>> /\ pc = "idle"
               /\ \/ a \notin queue
                  \/ ReconcileLive(a)
                  \/ a = b /\ addonCache[a].phase # "live"
    BY <1>2 DEF Reconcile, ReconcileNotFound, ReconcileDeleting, ReconcileLive, Take, vars
  <1>3. ASSUME NEW c \in Cluster, VisitCluster(c)
        PROVE  queue \subseteq queue' /\ UNCHANGED <<cache, addonCache>>
    BY <1>3 DEF VisitCluster, VisitUnready, VisitInstalled, Connect, ConnectFails,
                Requeue, Done, Return, Goto
  <1>4. ASSUME Proceed PROVE queue \subseteq queue' /\ UNCHANGED <<cache, addonCache>>
    <2>1. CASE ListClusters \/ SelectorInvalid \/ VisitedAll
               \/ CreateNamespace \/ DownloadCRDs \/ DownloadNotFound \/ RenderHelmChart
               \/ ApplyDocument \/ EndOfManifest \/ EndOfPhase
      BY <2>1 DEF ListClusters, SelectorInvalid, VisitedAll, CreateNamespace, DownloadCRDs,
                  DownloadNotFound, RenderHelmChart, ApplyDocument, EndOfManifest,
                  EndOfPhase, Requeue, Return, Goto
    <2>2. CASE PatchDeployment \/ PatchPolicyServer \/ PatchNotFound \/ PatchAuditScanner
               \/ AnnotateCluster \/ AnnotateNotFound \/ PatchStatus \/ RemoteGone
      BY <2>2 DEF PatchDeployment, PatchPolicyServer, PatchNotFound, PatchAuditScanner,
                  AnnotateCluster, AnnotateNotFound, PatchStatus, RemoteGone,
                  Requeue, Done, Return, Goto
    <2> QED
      BY <1>4, <2>1, <2>2 DEF Proceed
  <1>5. ASSUME PatchStatusFails \/ CallFails
        PROVE  queue \subseteq queue' /\ UNCHANGED <<cache, addonCache>>
    BY <1>5 DEF PatchStatusFails, CallFails, Requeue, Done, Return
  <1>6. ASSUME Restart PROVE pc' = "idle" /\ addonCache'[a].phase # "live"
    <2>1. addonCache' = addons /\ queue' = {b \in Addon : addons[b].phase # "absent"}
      BY <1>6 DEF Restart
    <2> QED
      BY <1>6, <2>1 DEF Restart
  <1>7. ASSUME NEW c \in Cluster, ClusterEvent(c)
        PROVE  /\ addonCache' = addonCache /\ addonCache'[a].phase # "live"
               /\ a \notin queue
    BY <1>7 DEF ClusterEvent, ClusterToKubewardenAddon, Known
  <1>8. ASSUME NEW b \in Addon, AddonEvent(b)
        PROVE  a \notin queue /\ addonCache'[a] = addonCache[a] /\ cache' = cache
    <2>1. addonCache \in [Addon -> AddonRecord] /\ b # a
      BY <1>8 DEF AddonEvent, TypeOK
    <2> QED
      BY <1>8, <2>1 DEF AddonEvent
  <1>9. ASSUME Resync \/ \E b \in Addon : DelayPasses(b)
        PROVE  queue \subseteq queue' /\ UNCHANGED <<cache, addonCache>>
    BY <1>9 DEF Resync, DelayPasses
  <1>10. ASSUME Environment PROVE queue \subseteq queue' /\ UNCHANGED <<cache, addonCache>>
    <2>1. ASSUME NEW c \in Cluster, FleetStep(c) PROVE cache' = cache
      BY <2>1, FleetStepEffect DEF TypeOK
    <2>2. ASSUME NEW b \in Addon, CreateAddon(b) \/ EditAddon(b) \/ DeleteAddon(b)
          PROVE  UNCHANGED <<cache, addonCache, queue>>
      BY <2>2 DEF CreateAddon, EditAddon, DeleteAddon, SetAddon
    <2> QED
      BY <1>10, <2>1, <2>2 DEF Environment, PublishChart
  <1>11. ASSUME UNCHANGED vars PROVE queue \subseteq queue' /\ UNCHANGED <<cache, addonCache>>
    BY <1>11 DEF vars
  <1>12. CASE queue \subseteq queue' /\ UNCHANGED <<cache, addonCache>>
    BY <1>1, <1>12
  <1>13. CASE \E b \in Addon : Reconcile(b)
    BY <1>2, <1>13
  <1>14. CASE Failure
    BY <1>5, <1>6, <1>12, <1>14 DEF Failure
  <1>15. CASE Event
    BY <1>7, <1>8, <1>15 DEF Event
  <1> QED
    BY <1>3, <1>4, <1>9, <1>10, <1>11, <1>12, <1>13, <1>14, <1>15 DEF Next

\* A key that waits goes on waiting until it is queued, whatever else happens
\* to the addon; only a restart forgets it.
LEMMA Waits ==
    ASSUME TypeOK, [Next]_vars, NEW a \in Addon, a \in delayed, a \notin queue'
    PROVE  a \in delayed' \/ Restart
  <1> USE DEF fleetVars, addonVars, controllerVars
  <1>1. ASSUME NEW b \in Addon, Reconcile(b) PROVE delayed \subseteq delayed'
    BY <1>1 DEF Reconcile, ReconcileNotFound, ReconcileDeleting, ReconcileLive
  <1>2. ASSUME NEW c \in Cluster, VisitCluster(c) PROVE delayed \subseteq delayed'
    BY <1>2 DEF VisitCluster, VisitUnready, VisitInstalled, Connect, ConnectFails,
                Requeue, Done, Return, Goto
  <1>3. ASSUME Proceed PROVE delayed \subseteq delayed'
    <2>1. CASE ListClusters \/ SelectorInvalid \/ VisitedAll
               \/ CreateNamespace \/ DownloadCRDs \/ DownloadNotFound \/ RenderHelmChart
               \/ ApplyDocument \/ EndOfManifest \/ EndOfPhase
      BY <2>1 DEF ListClusters, SelectorInvalid, VisitedAll, CreateNamespace, DownloadCRDs,
                  DownloadNotFound, RenderHelmChart, ApplyDocument, EndOfManifest,
                  EndOfPhase, Requeue, Return, Goto
    <2>2. CASE PatchDeployment \/ PatchPolicyServer \/ PatchNotFound \/ PatchAuditScanner
               \/ AnnotateCluster \/ AnnotateNotFound \/ PatchStatus \/ RemoteGone
      BY <2>2 DEF PatchDeployment, PatchPolicyServer, PatchNotFound, PatchAuditScanner,
                  AnnotateCluster, AnnotateNotFound, PatchStatus, RemoteGone,
                  Requeue, Done, Return, Goto
    <2> QED
      BY <1>3, <2>1, <2>2 DEF Proceed
  <1>4. ASSUME PatchStatusFails \/ CallFails PROVE delayed \subseteq delayed'
    BY <1>4 DEF PatchStatusFails, CallFails, Requeue, Done, Return
  <1>5. ASSUME Event \/ Resync PROVE delayed' = delayed
    BY <1>5 DEF Event, ClusterEvent, AddonEvent, Resync
  <1>6. ASSUME NEW b \in Addon, DelayPasses(b) PROVE a \in delayed'
    BY <1>6 DEF DelayPasses
  <1>7. ASSUME Environment PROVE delayed' = delayed
    <2>1. ASSUME NEW b \in Addon, CreateAddon(b) \/ EditAddon(b) \/ DeleteAddon(b)
          PROVE  delayed' = delayed
      BY <2>1 DEF CreateAddon, EditAddon, DeleteAddon, SetAddon
    <2> QED
      BY <1>7, <2>1 DEF Environment, PublishChart
  <1> QED
    BY <1>1, <1>2, <1>3, <1>4, <1>5, <1>6, <1>7 DEF Next, Failure, vars

\* A pass that goes on is for the same addon.
LEMMA PassGoesOn ==
    ASSUME TypeOK, [Next]_vars, pc # "idle", pc' # "idle"
    PROVE  /\ job'.addon = job.addon
           /\ job'.selector = job.selector /\ job'.wasReady = job.wasReady
           /\ pc # "list" => job'.annotated = job.annotated
  <1>0. job \in JobRecord
    BY DEF TypeOK
  <1>1. CASE Unrelated \/ \E c \in Cluster : FleetOnly(c)
    BY <1>1 DEF Unrelated, FleetOnly
  <1>2. CASE Elsewhere
    <2>1. CASE \E a \in Addon : ReconcileLive(a)
      BY <2>1 DEF ReconcileLive, Take
    <2>2. CASE ListClusters
      <3>1. /\ job'.addon = job.addon /\ job'.selector = job.selector
            /\ job'.wasReady = job.wasReady
        BY <1>0, <2>2 DEF ListClusters, JobRecord
      <3> QED
        BY <2>2, <3>1 DEF ListClusters
    <2>3. CASE job' = job
      BY <2>3
    <2> QED
      BY <1>2, <2>1, <2>2, <2>3 DEF Elsewhere
  <1>3. CASE Install /\ ~AnnotateCluster
    BY <1>3, InstallKeeps DEF SamePass
  <1>4. CASE AnnotateCluster
    BY <1>0, <1>4, NextClusterType DEF AnnotateCluster, SamePass
  <1>5. ASSUME NEW c \in Cluster, Connect(c) PROVE SamePass(job')
    <2>1. job.todo \ {c} \in SUBSET Cluster /\ clusters[c].uid \in 0..MaxUid
      BY <1>0, JobFields DEF TypeOK, FleetTypeOK, ClusterRecord
    <2> QED
      BY <1>0, <1>5, <2>1, ConnectedType DEF Connect
  <1> QED
    BY <1>1, <1>2, <1>3, <1>4, <1>5, StepCases DEF SamePass

\* A pass that ends without putting its addon back met an annotated Cluster or
\* came to the status patch; or the manager was restarted.
LEMMA PassEnds ==
    ASSUME TypeOK, [Next]_vars, pc # "idle", pc' = "idle", job.addon \notin delayed'
    PROVE  \/ \E c \in Cluster : VisitInstalled(c)
           \/ PatchStatus \/ PatchStatusFails
           \/ Restart
  <1> USE DEF fleetVars, addonVars, controllerVars
  <1>1. ~Requeue
    BY DEF Requeue, Return
  <1>2. ASSUME NEW a \in Addon, Reconcile(a) PROVE FALSE
    BY <1>2 DEF Reconcile, ReconcileNotFound, ReconcileDeleting, ReconcileLive, Take
  <1>3. ASSUME NEW c \in Cluster, VisitCluster(c) PROVE VisitInstalled(c)
    BY <1>1, <1>3 DEF VisitCluster, VisitUnready, Connect, ConnectFails, Goto
  <1>4. ASSUME Proceed PROVE PatchStatus
    <2>1. ~Goto("visit") /\ ~Goto("status") /\ ~Goto("fetch") /\ ~Goto("apply")
          /\ ~Goto("deployment") /\ ~Goto("policy server") /\ ~Goto("audit scanner")
          /\ ~Goto("annotate")
      BY DEF Goto
    <2>2. ~(ListClusters \/ SelectorInvalid \/ VisitedAll
            \/ CreateNamespace \/ DownloadCRDs \/ DownloadNotFound \/ RenderHelmChart
            \/ ApplyDocument \/ EndOfManifest \/ EndOfPhase)
      BY <1>1, <2>1
      DEF ListClusters, SelectorInvalid, VisitedAll, CreateNamespace, DownloadCRDs,
          DownloadNotFound, RenderHelmChart, ApplyDocument, EndOfManifest, EndOfPhase
    <2>3. ~(PatchDeployment \/ PatchPolicyServer \/ PatchNotFound \/ PatchAuditScanner
            \/ AnnotateCluster \/ AnnotateNotFound \/ RemoteGone)
      BY <1>1, <2>1
      DEF PatchDeployment, PatchPolicyServer, PatchNotFound, PatchAuditScanner,
          AnnotateCluster, AnnotateNotFound, RemoteGone
    <2> QED
      BY <1>4, <2>2, <2>3 DEF Proceed
  <1>5. ~CallFails
    BY <1>1 DEF CallFails
  <1>6. ~Event /\ ~Resync /\ ~\E a \in Addon : DelayPasses(a)
    BY DEF Event, ClusterEvent, AddonEvent, Resync, DelayPasses
  <1>7. ~Environment
    <2>1. ASSUME NEW a \in Addon, CreateAddon(a) \/ EditAddon(a) \/ DeleteAddon(a)
          PROVE  UNCHANGED pc
      BY <2>1 DEF CreateAddon, EditAddon, DeleteAddon, SetAddon
    <2> QED
      BY <2>1 DEF Environment, PublishChart
  <1> QED
    BY <1>2, <1>3, <1>4, <1>5, <1>6, <1>7 DEF Next, Failure, vars

(***************************************************************************)
(* The invariant.                                                          *)
(***************************************************************************)
\* The incarnations of a name only grow, and no step writes the cache and the
\* Clusters at once.
LEMMA CacheBehindStep == TypeOK /\ CacheBehind /\ [Next]_vars => CacheBehind'
  <1> SUFFICES ASSUME TypeOK, CacheBehind, [Next]_vars, NEW c \in Cluster
               PROVE  cache'[c].uid <= clusters'[c].uid
    BY DEF CacheBehind
  <1> USE DEF fleetVars, addonVars, controllerVars
  <1>0. /\ clusters[c].uid \in Nat /\ cache[c].uid \in Nat
        /\ clusters[c].uid <= clusters[c].uid
        /\ cache \in [Cluster -> ClusterRecord] /\ clusters \in [Cluster -> ClusterRecord]
    <2>1. cache \in [Cluster -> ClusterRecord] /\ clusters \in [Cluster -> ClusterRecord]
      BY DEF TypeOK, FleetTypeOK
    <2>2. clusters[c].uid \in 0..MaxUid /\ cache[c].uid \in 0..MaxUid
      BY <2>1 DEF ClusterRecord
    <2> QED
      BY <2>1, <2>2, FleetAssumption
  <1>1. cache[c].uid <= clusters[c].uid
    BY DEF CacheBehind
  <1>2. ASSUME NEW k \in Cluster, FleetStep(k)
        PROVE  cache' = cache /\ cache[c].uid <= clusters'[c].uid
    <2>1. cache' = cache /\ (Deleted(c) \/ Created(c) \/ Kept(c))
      BY <1>2, FleetStepEffect DEF TypeOK
    <2>2. clusters'[c].uid = clusters[c].uid \/ clusters'[c].uid = clusters[c].uid + 1
      BY <2>1 DEF Deleted, Created, Kept
    <2> QED
      BY <1>0, <1>1, <2>1, <2>2
  <1>3. CASE cache' = cache
    <2>1. CASE Unrelated \/ Elsewhere \/ \E k \in Cluster : Connect(k)
      BY <1>1, <1>3, <2>1 DEF Unrelated, Elsewhere, Connect
    <2>2. CASE Install
      BY <1>1, <1>3, <2>2, InstallKeeps, AnnotateEffect
    <2>3. CASE \E k \in Cluster : FleetOnly(k)
      BY <1>2, <1>3, <2>3 DEF FleetOnly
    <2> QED
      BY <2>1, <2>2, <2>3, StepCases
  <1>4. ASSUME NEW k \in Cluster, ClusterEvent(k)
        PROVE  clusters' = clusters /\ cache'[c] \in {cache[c], clusters[c]}
    BY <1>0, <1>4 DEF ClusterEvent
  <1>5. CASE \E k \in Cluster : ClusterEvent(k)
    BY <1>0, <1>1, <1>4, <1>5
  <1>6. CASE Restart
    BY <1>0, <1>6 DEF Restart
  <1>7. ASSUME ~Restart, ~\E k \in Cluster : ClusterEvent(k) PROVE cache' = cache
    <2>1. ASSUME NEW a \in Addon, Reconcile(a) PROVE cache' = cache
      BY <2>1 DEF Reconcile, ReconcileNotFound, ReconcileDeleting, ReconcileLive, vars
    <2>2. ASSUME NEW k \in Cluster, VisitCluster(k) PROVE cache' = cache
      BY <2>2 DEF VisitCluster, VisitUnready, VisitInstalled, Connect, ConnectFails
    <2>3. ASSUME Proceed PROVE cache' = cache
      BY <2>3 DEF Proceed, ListClusters, SelectorInvalid, VisitedAll, CreateNamespace,
                  DownloadCRDs, DownloadNotFound, RenderHelmChart, ApplyDocument,
                  EndOfManifest, EndOfPhase, PatchDeployment, PatchPolicyServer,
                  PatchNotFound, PatchAuditScanner, AnnotateCluster, AnnotateNotFound,
                  PatchStatus, RemoteGone
    <2>4. ASSUME Failure \/ Event \/ Resync \/ \E a \in Addon : DelayPasses(a)
          PROVE  cache' = cache
      BY <1>7, <2>4 DEF Failure, PatchStatusFails, CallFails, Event, AddonEvent, Resync,
                        DelayPasses
    <2>5. ASSUME NEW a \in Addon, CreateAddon(a) \/ EditAddon(a) \/ DeleteAddon(a)
          PROVE  cache' = cache
      BY <2>5 DEF CreateAddon, EditAddon, DeleteAddon, SetAddon
    <2> QED
      BY <1>2, <2>1, <2>2, <2>3, <2>4, <2>5 DEF Next, Environment, PublishChart, vars
  <1> QED
    BY <1>3, <1>5, <1>6, <1>7

\* What is handled stays handled as long as the cache is as it was: a Cluster
\* that is created again is another one than the cache knows.
LEMMA HandledStays ==
    ASSUME TypeOK, CacheBehind, [Next]_vars, cache' = cache,
           NEW c \in Cluster, Handled(c)
    PROVE  Handled(c)'
  <1>1. CASE Unrelated \/ Elsewhere \/ \E k \in Cluster : Connect(k)
    BY <1>1 DEF Unrelated, Elsewhere, Connect, fleetVars, Handled
  <1>2. CASE Install /\ ~AnnotateCluster
    BY <1>2, InstallKeeps DEF Handled
  <1>3. CASE AnnotateCluster
    BY <1>3, AnnotateEffect DEF Handled
  <1>4. ASSUME NEW k \in Cluster, FleetOnly(k) PROVE Handled(c)'
    <2>1. Deleted(c) \/ Created(c) \/ Kept(c)
      BY <1>4, FleetStepEffect DEF FleetOnly, TypeOK
    <2>2. CASE Deleted(c)
      BY <2>2 DEF Deleted, Handled
    <2>3. CASE Created(c)
      <3>1. cache[c].uid <= clusters[c].uid
        BY DEF CacheBehind
      <3>2. clusters[c].uid \in 0..MaxUid /\ cache[c].uid \in 0..MaxUid
        BY DEF TypeOK, FleetTypeOK, ClusterRecord
      <3>3. clusters'[c].uid = clusters[c].uid + 1
        BY <2>3 DEF Created
      <3>4. clusters'[c].uid # cache[c].uid
        BY <3>1, <3>2, <3>3, FleetAssumption
      <3> QED
        BY <3>4 DEF Handled
    <2>4. CASE Kept(c)
      BY <2>4 DEF Kept, Handled
    <2> QED
      BY <2>1, <2>2, <2>3, <2>4
  <1> QED
    BY <1>1, <1>2, <1>3, <1>4, StepCases

\* What an addon selects according to the caches changes with them only.
LEMMA SelectedStays ==
    ASSUME NEW a \in Addon, cache' = cache, addonCache'[a] = addonCache[a]
    PROVE  CacheSelected(a)' = CacheSelected(a)
  BY DEF CacheSelected, SelectClusters, GetAllCapiClusters

\* The running pass stays current, or its addon is queued again.
LEMMA CurrentStep == TypeOK /\ CacheBehind /\ Current /\ [Next]_vars => Current'
  <1> SUFFICES ASSUME TypeOK, CacheBehind, Current, [Next]_vars,
                      pc' # "idle", job'.addon \notin queue'
               PROVE  Current'
    BY DEF Current
  <1>1. TypeOK' /\ job'.addon \in Addon /\ job' \in JobRecord
    BY TypeStep DEF TypeOK
  <1>2. CASE \E a \in Addon : ReconcileLive(a)
    <2>1. PICK a \in Addon : ReconcileLive(a)
      BY <1>2
    <2>2. /\ pc' = "list" /\ addonCache' = addonCache /\ addonCache[a].phase = "live"
          /\ job' = Started(a) /\ addonCache[a] \in AddonRecord
      BY <2>1 DEF ReconcileLive, addonVars, TypeOK
    <2>3. /\ Started(a).addon = a /\ Started(a).selector = addonCache[a].selector
          /\ Started(a).wasReady = addonCache[a].ready
      BY DEF Started, NoJob
    <2> QED
      BY <2>2, <2>3 DEF Current
  <1>3. CASE ~\E a \in Addon : ReconcileLive(a)
    <2> DEFINE a == job.addon
    <2>1. pc # "idle"
      <3>1. CASE pc = "idle" /\ Elsewhere
        BY <1>3, <3>1 DEF Elsewhere, ListClusters
      <3>2. CASE Unrelated \/ \E c \in Cluster : FleetOnly(c)
        BY <3>2 DEF Unrelated, FleetOnly
      <3>3. CASE Install
        BY <3>3, InstallKeeps DEF AnnotateCluster, Installing, Tolerating
      <3>4. CASE \E c \in Cluster : Connect(c)
        BY <3>4 DEF Connect, Visit
      <3> QED
        BY <3>1, <3>2, <3>3, <3>4, StepCases
    <2>2. /\ job'.addon = a /\ a \in Addon
          /\ job'.selector = job.selector /\ job'.wasReady = job.wasReady
          /\ pc # "list" => job'.annotated = job.annotated
      BY <1>1, <2>1, PassGoesOn
    <2>3. a \notin queue /\ addonCache'[a] = addonCache[a]
      BY <2>1, <2>2, Wakeup
    <2>4. /\ addonCache[a].phase = "live" /\ job.selector = addonCache[a].selector
          /\ job.wasReady = addonCache[a].ready
      BY <2>1, <2>3 DEF Current
    <2>5. cache' = cache
      BY <2>2, <2>3, <2>4, Wakeup
    <2>6. CacheSelected(a)' = CacheSelected(a)
      BY <2>2, <2>3, <2>5, SelectedStays
    <2>7. ASSUME pc # "list", job'.selected = job.selected, job'.todo \subseteq job.todo,
                 \A c \in job.todo \ job'.todo :
                    pc' \in Installing \cup {"namespace"} /\ c = job'.cluster,
                 \A c \in job.selected : pc \in Installing \cup {"namespace"} /\ c = job.cluster =>
                    \/ pc' \in Installing \cup {"namespace"} /\ c = job'.cluster
                    \/ Handled(c)',
                 pc' = "status" => job'.todo = {}, pc' # "list"
          PROVE  Current'
      <3>1. /\ job.selected = CacheSelected(a) /\ job.todo \subseteq job.selected
            /\ \A c \in job.annotated : cache[c].installed
            /\ \A c \in job.selected \ job.todo :
                  \/ pc \in Installing \cup {"namespace"} /\ c = job.cluster
                  \/ Handled(c)
        BY <2>1, <2>3, <2>7 DEF Current
      <3>2. \A c \in job.selected : Handled(c) => Handled(c)'
        BY <2>5, HandledStays, JobFields DEF TypeOK
      <3>3. \A c \in job'.selected \ job'.todo :
               \/ pc' \in Installing \cup {"namespace"} /\ c = job'.cluster
               \/ Handled(c)'
        BY <2>7, <3>1, <3>2
      <3> QED
        BY <2>2, <2>3, <2>4, <2>5, <2>6, <2>7, <3>1, <3>3 DEF Current
    <2>8. CASE Unrelated \/ \E c \in Cluster : FleetOnly(c)
      <3>1. pc' = pc /\ job' = job
        BY <2>8 DEF Unrelated, FleetOnly
      <3>2. CASE pc = "list"
        BY <2>2, <2>3, <2>4, <3>1, <3>2 DEF Current
      <3>3. CASE pc # "list"
        <4>1. pc = "status" => job.todo = {}
          BY <2>1, <2>3 DEF Current
        <4> QED
          BY <2>7, <3>1, <3>3, <4>1
      <3> QED
        BY <3>2, <3>3
    <2>9. CASE Elsewhere
      <3>1. CASE ListClusters
        <4> DEFINE sel == SelectClusters(GetAllCapiClusters(job.addon), job.selector)
        <4>1. /\ job'.selected = sel /\ job'.todo = sel
              /\ job'.annotated = {c \in sel : HasAnnotation(cache[c])}
          BY <3>1 DEF ListClusters, TypeOK, JobRecord
        <4>2. sel = CacheSelected(a) /\ pc' = "visit"
          BY <2>4, <3>1 DEF CacheSelected, ListClusters, Goto
        <4> HIDE DEF sel
        <4> QED
          BY <2>2, <2>3, <2>4, <2>5, <2>6, <4>1, <4>2 DEF Current, HasAnnotation
      <3>2. CASE pc' = "status" /\ pc = "visit" /\ job' = job /\ job.todo = {}
        BY <2>7, <3>2 DEF Installing, Tolerating
      <3> QED
        BY <1>3, <2>9, <3>1, <3>2 DEF Elsewhere
    <2>10. CASE Install /\ ~AnnotateCluster
      BY <2>7, <2>10, InstallKeeps DEF Installing, Tolerating
    <2>11. CASE AnnotateCluster
      <3>1. job'.selected = job.selected /\ job'.todo = job.todo
        BY <2>11, NextClusterType DEF AnnotateCluster, TypeOK
      <3>2. pc = "annotate" /\ pc' = "visit" /\ job.cluster \in Cluster
        BY <2>11 DEF AnnotateCluster, Goto, TypeOK
      <3>3. \A c \in Cluster : c = job.cluster => Handled(c)'
        BY <2>11, AnnotateEffect DEF Handled
      <3>4. job.selected \subseteq Cluster
        BY JobFields DEF TypeOK
      <3> QED
        BY <2>7, <3>1, <3>2, <3>3, <3>4
    <2>12. ASSUME NEW c \in Cluster, Connect(c) PROVE Current'
      <3>1. /\ job \in JobRecord /\ job.todo \ {c} \in SUBSET Cluster
            /\ clusters[c].uid \in 0..MaxUid
        BY JobFields DEF TypeOK, FleetTypeOK, ClusterRecord
      <3>2. /\ job'.selected = job.selected /\ job'.todo = job.todo \ {c} /\ job'.cluster = c
            /\ pc = "visit" /\ pc' = "namespace"
        BY <2>12, <3>1, ConnectedType DEF Connect, Visit, Goto
      <3> QED
        BY <2>7, <3>2 DEF Installing, Tolerating
    <2> QED
      BY <2>8, <2>9, <2>10, <2>11, <2>12, StepCases
  <1> QED
    BY <1>2, <1>3

\* How an addon came to rest: it was at rest before, or its pass just ended at
\* an annotated Cluster or at the status patch.
LEMMA ComesToRest ==
    ASSUME TypeOK, [Next]_vars, NEW a \in Addon, AtRest(a)'
    PROVE  /\ cache' = cache /\ addonCache'[a] = addonCache[a]
           /\ a \notin queue
           /\ \/ AtRest(a)
              \/ /\ pc # "idle" /\ job.addon = a
                 /\ (\E c \in Cluster : VisitInstalled(c)) \/ PatchStatus \/ PatchStatusFails
  <1>1. /\ addonCache'[a].phase = "live" /\ addonCache'[a].selector.valid
        /\ a \notin queue' /\ a \notin delayed' /\ (pc' # "idle" => job'.addon # a)
    BY DEF AtRest
  <1>2. /\ cache' = cache /\ addonCache'[a] = addonCache[a]
        /\ a \notin queue \/ ReconcileLive(a)
    BY <1>1, Wakeup
  <1>3. ~ReconcileLive(a)
    <2>1. Started(a).addon = a
      BY DEF Started, NoJob
    <2> QED
      BY <1>1, <2>1 DEF ReconcileLive
  <1>4. ~Restart
    <2>1. ASSUME Restart PROVE FALSE
      <3>1. addonCache' = addons /\ queue' = {b \in Addon : addons[b].phase # "absent"}
        BY <2>1 DEF Restart
      <3> QED
        BY <1>1, <3>1
    <2> QED
      BY <2>1
  <1>5. a \notin delayed
    BY <1>1, <1>4, Waits
  <1>6. ASSUME ~AtRest(a)
        PROVE  /\ pc # "idle" /\ job.addon = a
               /\ (\E c \in Cluster : VisitInstalled(c)) \/ PatchStatus \/ PatchStatusFails
    <2>1. pc # "idle" /\ job.addon = a
      BY <1>1, <1>2, <1>3, <1>5, <1>6 DEF AtRest
    <2>2. pc' = "idle"
      BY <1>1, <2>1, PassGoesOn
    <2> QED
      BY <1>1, <1>4, <2>1, <2>2, PassEnds
  <1> QED
    BY <1>2, <1>3, <1>6

\* An addon comes to rest with a Cluster handled, and stays so.
LEMMA RestedStep ==
    TypeOK /\ CacheBehind /\ Current /\ Rested /\ [Next]_vars => Rested'
  <1> SUFFICES ASSUME TypeOK, CacheBehind, Current, Rested, [Next]_vars,
                      NEW a \in Addon, AtRest(a)', CacheSelected(a)' # {}
               PROVE  \E c \in CacheSelected(a)' : cache'[c].installed \/ Handled(c)'
    BY DEF Rested
  <1>1. cache' = cache /\ addonCache'[a] = addonCache[a] /\ a \notin queue
    BY ComesToRest
  <1>2. CacheSelected(a)' = CacheSelected(a) /\ CacheSelected(a) \subseteq Cluster
    BY <1>1, SelectedStays DEF CacheSelected, SelectClusters, GetAllCapiClusters
  <1>3. SUFFICES \E c \in CacheSelected(a) : cache[c].installed \/ Handled(c)
    BY <1>1, <1>2, HandledStays
  <1>4. CASE AtRest(a)
    BY <1>2, <1>4 DEF Rested
  <1>5. ASSUME pc # "idle", job.addon = a, NEW k \in Cluster, VisitInstalled(k)
        PROVE  \E c \in CacheSelected(a) : cache[c].installed \/ Handled(c)
    <2>1. k \in job.todo /\ k \in job.annotated /\ pc = "visit"
      BY <1>5 DEF VisitInstalled, Visit
    <2>2. k \in CacheSelected(a) /\ cache[k].installed
      BY <1>1, <1>5, <2>1 DEF Current
    <2> QED
      BY <2>2
  <1>6. ASSUME pc = "status", job.addon = a
        PROVE  \E c \in CacheSelected(a) : cache[c].installed \/ Handled(c)
    <2>1. /\ job.selected = CacheSelected(a) /\ job.todo = {}
          /\ \A c \in job.selected \ job.todo : Handled(c)
      BY <1>1, <1>6 DEF Current, Installing, Tolerating
    <2> QED
      BY <1>2, <2>1
  <1> QED
    BY <1>4, <1>5, <1>6, ComesToRest DEF PatchStatus, PatchStatusFails

\* An addon that is not there is not Ready when it is created.
LEMMA CreatedNotReady ==
    ASSUME TypeOK, [Next]_vars, NEW a \in Addon, addons[a].phase = "absent"
    PROVE  addons'[a].phase = "absent" \/ ~addons'[a].ready
  <1> USE DEF fleetVars, addonVars, controllerVars
  <1>0. addons \in [Addon -> AddonRecord]
    BY DEF TypeOK
  <1>1. CASE addons' = addons
    BY <1>1
  <1>2. CASE PatchStatus
    <2>1. job.addon \in Addon
      BY <1>2 DEF PatchStatus, TypeOK
    <2>2. addons'[a] = addons[a]
      BY <1>0, <1>2, <2>1 DEF PatchStatus
    <2> QED
      BY <2>2
  <1>3. ASSUME NEW b \in Addon, CreateAddon(b)
        PROVE  addons'[a].phase = "absent" \/ ~addons'[a].ready
    <2>1. PICK s \in Selector, v \in Requested : SetAddon(b, NewAddon(s, Admit(v)))
      BY <1>3 DEF CreateAddon
    <2>2. ~NewAddon(s, Admit(v)).ready
      BY DEF NewAddon
    <2>3. addons'[a] = addons[a] \/ addons'[a] = NewAddon(s, Admit(v))
      BY <1>0, <2>1 DEF SetAddon
    <2> QED
      BY <2>2, <2>3
  <1>4. ASSUME NEW b \in Addon, EditAddon(b) \/ DeleteAddon(b)
        PROVE  addons'[a].phase = "absent"
    <2>1. b # a
      BY <1>4 DEF EditAddon, DeleteAddon
    <2>2. \E r : addons' = [addons EXCEPT ![b] = r]
      BY <1>4 DEF EditAddon, DeleteAddon, SetAddon
    <2> QED
      BY <1>0, <2>1, <2>2
  <1>5. ASSUME NEW b \in Addon, Reconcile(b) PROVE addons' = addons
    BY <1>5 DEF Reconcile, ReconcileNotFound, ReconcileDeleting, ReconcileLive, vars
  <1>6. ASSUME NEW k \in Cluster, VisitCluster(k) PROVE addons' = addons
    BY <1>6 DEF VisitCluster, VisitUnready, VisitInstalled, Connect, ConnectFails
  <1>7. ASSUME Proceed, ~PatchStatus PROVE addons' = addons
    BY <1>7 DEF Proceed, ListClusters, SelectorInvalid, VisitedAll, CreateNamespace,
                DownloadCRDs, DownloadNotFound, RenderHelmChart, ApplyDocument,
                EndOfManifest, EndOfPhase, PatchDeployment, PatchPolicyServer,
                PatchNotFound, PatchAuditScanner, AnnotateCluster, AnnotateNotFound,
                RemoteGone
  <1>8. ASSUME Failure \/ Event \/ Resync \/ \E b \in Addon : DelayPasses(b)
        PROVE  addons' = addons
    BY <1>8 DEF Failure, PatchStatusFails, CallFails, Restart, Event, ClusterEvent,
                AddonEvent, Resync, DelayPasses
  <1> QED
    BY <1>1, <1>2, <1>3, <1>4, <1>5, <1>6, <1>7, <1>8 DEF Next, Environment, PublishChart, vars

\* An addon that selects nothing comes to rest without its Ready, and does not
\* get it back: as long as no status patch fails.
LEMMA RestedNotReadyStep ==
    ASSUME MaxFaults = 0
    PROVE  TypeOK /\ Current /\ RestedNotReady /\ [Next]_vars => RestedNotReady'
  <1> SUFFICES ASSUME TypeOK, Current, RestedNotReady, [Next]_vars,
                      NEW a \in Addon, AtRest(a)', CacheSelected(a)' = {},
                      addons'[a].phase # "absent", addons'[a].ready, addonCache'[a].ready
               PROVE  FALSE
    BY DEF RestedNotReady
  <1>1. cache' = cache /\ addonCache'[a] = addonCache[a] /\ a \notin queue
    BY ComesToRest
  <1>2. CacheSelected(a) = {}
    BY <1>1, SelectedStays
  <1>3. CASE AtRest(a)
    <2>1. addons[a].phase = "absent" \/ ~addons[a].ready
      BY <1>1, <1>2, <1>3 DEF RestedNotReady
    <2>2. addons[a].phase # "absent"
      BY CreatedNotReady
    <2>3. pc = "status" /\ a = job.addon
      BY <2>1, <2>2, ReadyByPatch DEF vars, addonVars
    <2> QED
      BY <1>3, <2>3 DEF AtRest
  <1>4. ASSUME pc # "idle", job.addon = a, NEW k \in Cluster, VisitInstalled(k)
        PROVE  FALSE
    BY <1>1, <1>2, <1>4 DEF Current, VisitInstalled, Visit
  <1>5. ~PatchStatusFails
    <2>1. faults \in 0..0
      BY DEF TypeOK
    <2> QED
      BY <2>1 DEF PatchStatusFails, Fault
  <1>6. ASSUME PatchStatus, job.addon = a PROVE FALSE
    <2>1. job.selected = {} /\ job.wasReady = addonCache[a].ready
      BY <1>1, <1>2, <1>6 DEF PatchStatus, Current
    <2>2. addons \in [Addon -> AddonRecord] /\ addons[a] \in AddonRecord
      BY DEF TypeOK
    <2>3. addons[a].phase # "absent"
      BY CreatedNotReady
    <2>4. addons'[a] = MergePatch(addons[a], StatusBase, StatusNew)
      BY <1>6, <2>2, <2>3 DEF PatchStatus
    <2>5. ~StatusNew.ready /\ StatusBase.ready
      BY <1>1, <2>1 DEF StatusNew, StatusBase
    <2> QED
      BY <2>2, <2>4, <2>5, MergePatchReady
  <1> QED
    BY <1>3, <1>4, <1>5, <1>6, ComesToRest

\* At the start every addon is queued.
LEMMA QuiescenceInit == Init => CacheBehind /\ Current /\ Rested /\ RestedNotReady
  <1> SUFFICES ASSUME Init PROVE CacheBehind /\ Current /\ Rested /\ RestedNotReady
    OBVIOUS
  <1>1. CacheBehind
    <2>1. cache = clusters /\ \A c \in Cluster : clusters[c].uid \in 0..MaxUid
      BY InitType DEF Init, FleetInit, TypeOK, FleetTypeOK, ClusterRecord
    <2> QED
      BY <2>1, FleetAssumption DEF CacheBehind
  <1>2. Current
    BY DEF Init, Current
  <1>3. \A a \in Addon : ~AtRest(a)
    BY DEF Init, AtRest
  <1> QED
    BY <1>1, <1>2, <1>3 DEF Rested, RestedNotReady

\* When the controller rests, the caches select what the addon wants.
LEMMA RestsOnWanted ==
    ASSUME Quiescent, NEW a \in Addon, Live(a)
    PROVE  AtRest(a) /\ CacheSelected(a) = Wanted(a)
  BY DEF Quiescent, CacheSynced, Live, AtRest, CacheSelected, SelectClusters,
         GetAllCapiClusters, Wanted

\* No wake-up is lost: when the controller rests, every addon that selects
\* Clusters has got to one of them, whatever failed, was restarted or changed
\* behind the caches in between.
THEOREM NoLostWakeupHolds == Spec => []NoLostWakeup
  <1> DEFINE Inv == TypeOK /\ CacheBehind /\ Current /\ Rested
  <1>1. Init => Inv
    BY InitType, QuiescenceInit
  <1>2. Inv /\ [Next]_vars => Inv'
    BY TypeStep, CacheBehindStep, CurrentStep, RestedStep
  <1>3. Inv => NoLostWakeup
    <2> SUFFICES ASSUME Inv, Quiescent, NEW a \in Addon, Live(a), Wanted(a) # {}
                 PROVE  \E c \in Wanted(a) : clusters[c].installed
      BY DEF NoLostWakeup
    <2>1. PICK c \in Wanted(a) : cache[c].installed \/ Handled(c)
      BY RestsOnWanted DEF Rested
    <2>2. cache = clusters /\ clusters[c].present
      BY DEF Quiescent, CacheSynced, Wanted
    <2> QED
      BY <2>1, <2>2 DEF Handled
  <1> QED
    BY <1>1, <1>2, <1>3, PTL DEF Spec

\* When the controller rests, an addon that selects nothing is not Ready,
\* although its status is patched from a cached copy that may be behind: the
\* event that brings the copy up to date makes another pass.  Needs that no
\* status patch fails, because reconcileNormal drops that error.
THEOREM NothingSelectedNotReadyHolds ==
    ASSUME MaxFaults = 0
    PROVE  Spec => []NothingSelectedNotReady
  <1> DEFINE Inv == TypeOK /\ CacheBehind /\ Current /\ RestedNotReady
  <1>1. Init => Inv
    BY InitType, QuiescenceInit
  <1>2. Inv /\ [Next]_vars => Inv'
    BY TypeStep, CacheBehindStep, CurrentStep, RestedNotReadyStep
  <1>3. Inv => NothingSelectedNotReady
    <2> SUFFICES ASSUME Inv, Quiescent, NEW a \in Addon, Live(a), Wanted(a) = {}
                 PROVE  ~addons[a].ready
      BY DEF NothingSelectedNotReady
    <2>1. addons[a].phase = "absent" \/ ~addons[a].ready \/ ~addonCache[a].ready
      BY RestsOnWanted DEF RestedNotReady
    <2> QED
      BY <2>1 DEF Quiescent, Live
  <1> QED
    BY <1>1, <1>2, <1>3, PTL DEF Spec
=============================================================================
