# Verification of the Cluster API addon provider for Kubewarden

TLA+ models of the provider's two controllers, their webhooks and the manifests
they apply, the model-checking runs over them and the proofs about them. Paths are
relative to the repository (`src/`); definitions are in the modules of this directory.
`PROJECT.json` maps every definition to the lines it models, and lists runs,
findings, hazards and theorems.

## 1. The system

The provider is one manager process (`cmd/main.go`) on a Cluster API
management cluster. It runs two controllers, and each runs one `Reconcile` at a
time (`MaxConcurrentReconciles` is left at 1).

| Component | State it keeps | Operations |
|---|---|---|
| KubewardenAddon controller (`kubewardenaddon_controller.go`) | nothing in memory; `status` of the addon, the annotation `caapkw.kubewarden.io/installed` on the Cluster, objects on the workload cluster | `Reconcile`, `reconcileNormal`, `applyControlPlaneTolerations`, `clusterToKubewardenAddon` |
| Manifest handling (`helpers.go`, `applyManifest`) | temporary files | download and unpack the CRDs of a release, render two Helm charts, create their documents one by one |
| KubewardenPolicy controller (`kubewardenpolicy_controller.go`) | `status` of the policy, policies on the workload cluster | `Reconcile`, `reconcileNormal`, `reconcileDelete`, `deployPolicy`, `isPolicyActive`, `deletePolicy`, `clusterToKubewardenPolicy` |
| KubewardenPolicy webhook (`kubewardenpolicy_webhook.go`) | none | `Default`, `validateKubewardenPolicy` |
| KubewardenAddon webhook (`kubewardenaddon_webhook.go`) | none | `Default`; registered for an API group the type is not in, so never called |
| Manager (`cmd/main.go`) | caches, work queues (controller-runtime's) | start, stop |
| Outside: users, Cluster API, the Helm repository, GitHub releases, Kubewarden on the workload clusters | Cluster objects, charts, policy status | any change at any time |

### Interaction

* Controllers *read* Cluster, KubewardenAddon and KubewardenPolicy objects from
  informer caches, which lag behind the API server, and *write* to the API
  server. A change becomes visible to them, and wakes them, by a watch event.
* They reach a workload cluster by the *name* of its Cluster, through a client
  made for each pass. No event comes back from a workload cluster.
* The addon controller tells the policy controller that Kubewarden is installed
  by annotating the Cluster. The annotation is also its own only memory: an
  annotated Cluster is never looked at again.
* Errors and `RequeueAfter` put a key back into the work queue.

### What is hard

* An installation is a dozen remote calls; the pass may fail, or the process be
  killed, between any two of them, and the retry meets a half-installed cluster
  whose objects `Create` does not overwrite.
* Decisions come from copies that are old by the time they are acted on: the
  listed Clusters, the addon and its status, the policy and its spec.
* A Cluster may be deleted, and created again under the same name, during a pass.
* The loop over the selected Clusters of an addon ends the whole pass at the
  first Cluster that is not ready, fails, or is installed already.
* The addon's status patch is a difference against a copy; its error is dropped.
  The policy's status update is guarded by the resourceVersion.
* Policies on workload clusters change without any event.
* Both controllers patch and read the same Clusters through the same cache, each at
  its own pace, and go down together.
* A failed attempt leaves files on the disk and objects on the workload cluster for
  the next one to meet.

`PROJECT.json` lists these as hazards, each at its line, with the properties
that speak about it.

## 2. Modules

| Module | Models | Extends |
|---|---|---|
| `Fleet` | Cluster objects, their informer cache, the workload clusters, the steps of users and of Cluster API on them | |
| `AddonWebhook` | admission of addons: `Default`, and whether it is called | |
| `AddonController` | the addon controller, its queue, addons and their cache, the chart repository | `Fleet`, `AddonWebhook` |
| `Install` | abstract: what the addon controller promises of each Cluster; `AddonController` implements it | |
| `Artifacts` | the "fetch" and "apply" places of `AddonController` in detail: archives, charts, temporary files, retries | |
| `PolicyWebhook` | `Default`, `validateKubewardenPolicy`, the policy's key, `buildPolicySpec` | |
| `PolicyController` | the policy controller, its queue, policies and their cache, the policy servers | `Fleet`, `PolicyWebhook` |
| `Provider` | both controllers over one `Fleet` and one cache | instances of both controllers |
| `MCAddon`, `MCPolicy`, `MCProvider`, `MCArtifacts` | values for the constants | |
| `FleetProofs` | lemmas on Cluster records and the steps of the fleet, for both controllers | `Fleet` |
| `AddonControllerProofs` | theorems: types, install order, annotation, `ready`, tenancy | `AddonController`, `FleetProofs` |
| `AddonInstallProofs` | theorem: `AddonController` implements `Install` | `AddonControllerProofs` |
| `AddonQuiescenceProofs` | theorems: what is true when the addon controller rests | `AddonControllerProofs` |
| `PolicyControllerProofs` | theorems about `PolicyController` | `PolicyController`, `FleetProofs` |
| `ArtifactsProofs` | theorems about `Artifacts` | `Artifacts` |
| `ProviderProofs` | theorems about `Provider` | `Provider`, instances of `AddonControllerProofs` and `PolicyControllerProofs` |

### Fleet (external to the code, modelled from its use)

`clusters[c]` is the Cluster object on the API server: whether it exists, which
incarnation of the name it is (`uid`), its label as far as selectors tell, the
two control-plane signals (`cpReady` is `status.controlPlaneReady`, `cpCond`
the condition; Cluster API writes them and they need not agree), and the
provider's annotation. `cache[c]` is the informer's copy; an event brings it up
to date in one jump, which includes every sequence of events that is merged on
the way. `workload[c][o]` is what object `o` was created from, or `Absent`; a
workload cluster goes with its Cluster. `tolerant[c]` are the objects patched
with the control-plane toleration. `Reaches(c, u)`: a client made when
the name belonged to incarnation `u` works as long as it still does.

### AddonController

`pc` is the place in `Reconcile`, `job` its local variables, `queue` the keys to
reconcile, `delayed` those that wait for a `RequeueAfter` or a backoff. The work
queue keeps the two apart: an event that queues a key at once leaves a waiting one
waiting, and `DelayPasses` queues it later. One action per call that leaves the
process:

| Place | Actions | Code |
|---|---|---|
| idle | `ReconcileNotFound`, `ReconcileDeleting`, `ReconcileLive` | `Reconcile` |
| list | `ListClusters`, `SelectorInvalid` | selector, `getAllCapiClusters`, the filter, `SetMatchingClusters` |
| visit | `VisitUnready`, `VisitInstalled`, `Connect`, `ConnectFails`, `VisitedAll` | head of the loop, `remote.NewClusterClient` |
| namespace | `CreateNamespace` | |
| fetch | `DownloadCRDs`, `DownloadNotFound`, `RenderHelmChart` | `helpers.go` |
| apply | `ApplyDocument`, `EndOfManifest`, `EndOfPhase` | `applyManifest`, the loops around it |
| deployment, policy server, audit scanner | `PatchDeployment`, `PatchPolicyServer`, `PatchNotFound`, `PatchAuditScanner` | `applyControlPlaneTolerations` |
| annotate | `AnnotateCluster`, `AnnotateNotFound` | patch of the Cluster |
| status | `PatchStatus`, `PatchStatusFails` | patch of the addon's status |
| any call | `CallFails`, `RemoteGone`, `Restart` | error returns; the process is killed |

`MergePatch(live, base, new)` is `client.MergeFrom`: only fields that differ
between the copy and the modified object are sent. `StatusBase` is the copy,
which the code takes after it has already set `matchingClusters`.

A call whose answer is lost is covered by the call's success followed by
`CallFails` at the next one.

`Admit(version)` of `AddonWebhook` is what the API server makes of a version a
user writes (`Requested`, which contains the empty one). The webhook's `Default`
turns the empty version into `latest`, which no release is called; it is not
called, because its markers name `addons.cluster.x-k8s.io` and the type is in
`addon.cluster.x-k8s.io`. The controller's own default takes its place.

### Install

One record per Cluster: whether it exists and is marked, and the stages begun and
done. Stage 0 is the namespace, 1 to 3 are the CRDs and the two charts, 4 the
mandatory tolerations; `SiteOf(c)` in `AddonController` is the mapping
(`exists` and `marked` are the Cluster's, a stage is begun when one of its
contents is on the workload cluster, done when all are). `Next` lets a Cluster
appear, vanish, gain contents in order, and be marked when every stage is done;
nothing else, and nothing backwards. `ImplementsInstall` is `Promise!Spec` under
this mapping. It holds when no name is used twice (`MaxUid = 1`), for the reason
`AddonRecreated` shows.

### Artifacts

`AddonController` takes a download or a rendering as one step and a manifest as a
sequence of sequences of documents. `Artifacts` shows what that stands for, on one
Cluster, over as many attempts as it takes: `DownloadFile` writes a tarball,
`OpenArchive` makes the directory, `UnpackEntry` writes one entry (directory entries
are skipped and not made, so a file inside one cannot be created and the attempt
fails), `Glob` picks the `.yaml` names in order, `ApplyDocument` creates what is
decoded, `RenderHelmChart` writes one file per chart. `disk` holds the temporary
files with the attempt that made them, `Deferred` the removals pending at `pc`;
`Unwind` runs them, and an error of a removal is only printed. A restart of the
container begins with an empty temporary directory. The release has its version in its
address and stays; the charts are the newest ones at each attempt (`helpers.go:71`,
`116`), and `PublishChart` brings out another one between attempts or during one.

The reference is what was published, not what the code reads of it: `Documents` are
all documents of a file but the null ones, `ReleaseFiles` the last file of each YAML
name. Two history variables say what to compare with: `used` are the charts this attempt
has rendered, `offered` all charts that were ever the newest.

### Provider

`A` and `P` are instances of the two controllers with the Clusters, their cache and
the bounds in common; everything else is each one's own. The informer has one
cache with two event handlers, so `ClusterEvent` is the conjunction of both; a
deleted Cluster takes both workloads along (`FleetChanges`); a restart hits
both (`Restart`). All other steps are one controller's and leave the other's
state alone. `P!MarkInstalled` is not a step of `Provider`: `A!AnnotateCluster` takes its
place. `PoliciesAfterKubewarden` and `ReadyProtected` are what a user wants of the two
together: a policy, and a policy reported as ready, are where Kubewarden is complete.
Neither controller can see this for itself: the policy controller looks at an
annotation in a cache, and the addon controller at no policy. A liveness run of the
composition is too large; end to end it is `Convergence` (the annotation arrives) and
`SelfHealing` (the policy follows).

### PolicyController

The same frame. `Object` holds policy keys here and `Version` the specs
`buildPolicySpec` makes; `served[c][k]` is the spec Kubewarden's policy server
enforces, which follows `workload[c][k]` at its own pace (`Serve`). Optimistic
locking is modelled by `newest[p]`: which copies of the policy, the cache's and
the running pass's, carry the latest resourceVersion. Every write on the API
server empties it. `job.moved` does the same for the object on the workload
cluster between the `Get` and the `Update`. `MarkInstalled` stands for the
addon controller, `Drift` for administrators of a workload cluster. `queue` holds
waiting keys too: every pass but one that finds the policy gone or deleted asks for the
next one, and a pass may come early, so a second waiting key adds no behaviour.

### Abstractions

* A label selector is the set of labels it matches, or invalid.
* In `AddonController` no document of a file follows a null one (`NullsLast` in
  `ManifestAssumption`): with such a file the code drops what follows, which is
  the subject of `Artifacts`, and "everything is installed" would mean less than it says.
* Archives and charts are sequences of files, files sequences of documents; a
  document is the object it makes, or `NullDoc` (no kind can be decoded), or, in
  `Artifacts`, `BadDoc` (not YAML, or a kind the scheme does not have).
* File names are numbers in the order of `Glob`.
* Versions of CRDs and charts are values of one set, so that a mix shows.
* Every pass makes its `Create` calls on objects nobody else touches in
  `AddonController`: administrators do not delete Kubewarden's objects there.
* `mutating`, `settings` and `matchConditions` are copied to the workload cluster
  like `module` and are represented by it.
* Kubewarden keeps a policy's status `active` across a change of its spec until
  it has dealt with it; a deleted policy stops being served at once.
* Time is abstracted: a delay passes at any time after it began.

## 3. Runs

Passing runs check for deadlock as well, `Artifacts` excepted: it ends with the
first successful attempt. Sizes are distinct states.

| Run | Instance | Shows |
|---|---|---|
| `AddonInstall` (2.0M) | 2 Clusters, 1 addon, a selector that matches or is invalid, charts without an audit scanner, 1 change, 1 fault | `TypeOK`; `AnnotationSound`: an annotated Cluster has the namespace, every object and the mandatory tolerations; `NoLostWakeup`: the controller never rests while an addon selects Clusters and none is installed; `ReadyJustified`: `ready` turns true only after a pass that selected something and left every selected Cluster installed; `ImplementsInstall`: the controller implements `Install` |
| `AddonTenancy` (2.5M) | 2 addons, a Cluster in their namespace and one in another, 1 change | `Tenancy`: a namespace without addons is left alone; `NothingSelectedNotReady`: at rest an addon that selects nothing is not `ready`; `NoLostWakeup` with two addons at work on one Cluster |
| `AddonConvergence` (1.2M, fair) | 1 Cluster name used twice, 2 labels, 1 addon, a version that is not released or none asked for, 2 CRD files, a Deployment with an empty document behind it, 2 changes, 1 fault | `InstallOrder`: namespace, CRDs, controller, defaults arrive in that order, in every incarnation and for every version; `Convergence`: a Cluster that stays selected and up is installed for good |
| `PolicyDeploy` (1.9M) | 2 Clusters, 1 policy, 2 modules, 1 change, 1 fault | `TypeOK`; `InstalledFirst`: no policy before Kubewarden; `StatusCurrent`: no status over a spec it was not computed from; `ReadyDeployed`: `ready` turns true only when every selected Cluster has the present spec |
| `PolicyTenancy` (0.9M) | 2 namespaces, 7 submitted specs, 1 change | `PolicyTenancy`; `Deployable`: whatever is admitted has a name, a namespace where needed and a failure policy, and admitting it again changes nothing |
| `PolicyHealing` (0.4M, fair) | 1 Cluster, 1 policy, 2 modules, others write policies, 2 changes, 1 fault | `SelfHealing`: a policy that stays wanted is there for good in the end; `ReadyConverges`: so is what `ready` says; `ActiveConverges`: what the status says of a policy being active agrees in the end with what the policy server does |
| `Provider` (1.1M) | 1 Cluster, 1 addon, 1 policy, 1 change or 1 fault | `PoliciesAfterKubewarden`: no policy on a workload cluster without all of Kubewarden; `ReadyProtected`: a policy turns `ready` only when every selected Cluster has it, and all of Kubewarden |
| `Artifacts` (7.63M) | 7 archives, 4 charts of either name, 1 published later, 4 attempts, 3 faults | `InstalledAsPublished`: a successful attempt has brought all of the release's `.yaml` files and of the charts it rendered, but for files with documents behind a null one, and nothing is there that was never on offer; `WholeArchives`: nothing is applied from an archive that cannot be unpacked to the end; `FailuresAreFaults`: an attempt fails only for a fault of its own; `Residue`: how much stays in the temporary directory |

Runs that end in a counterexample; each states what a comment, an API
description or the docs say, and shows where the code does otherwise:

| Run | Statement | What happens |
|---|---|---|
| `AddonStarvation` | "installed on all selected Clusters" | one Cluster is installed while the other has no control plane; when that one comes up, the pass its event starts meets the installed one first and returns. At rest, nothing queued and no delay pending, the second one is selected, up and not installed |
| `AddonRecreated` | `AnnotationSound`, with a name used twice | the annotation lands on the new Cluster |
| `PolicyDeleted` | "Should not exist" | no finalizer is set, so `reconcileDelete` is not reached |
| `ArtifactsNulls` | "this is an invalid object, skip it" | `applyManifest` breaks out of the loop at a null document: the Deployment behind it is never created, and the attempt succeeds |

Met while modelling, in the model, and not given a run of their own:

* `status.matchingClusters` of an addon is never written: it is set before the copy
  is taken that the patch is computed against (`kubewardenaddon_controller.go:206`);
  `docs/local-development.md:60` expects "Matching clusters populated".
* `ready` stays false on an installed fleet when the status patch fails, or the
  process ends before it (`kubewardenaddon_controller.go:214`): the error is dropped and
  the next pass returns at the first installed Cluster.
* The addon webhook is registered for an API group the type is not in
  (`kubewardenaddon_webhook.go:48`). With the right group, an empty version
  would become `latest` and the download would never succeed (the mutant
  `AdmitDefaulted` breaks `Convergence`).
* A release whose archive has directories cannot be unpacked (`helpers.go:222`);
  every retry fails the same way and leaves another directory behind.
* `resolveChartVersion` (`helpers.go:116`) returns `""` whatever `spec.version`
  says: the version decides the CRDs, the charts are the newest ones.
* `kubewardenaddon_types.go:31` says that without a version "kubewarden will use and be
  kept up to date with the latest version". No version means `DefaultVersion` for the CRDs
  and the newest charts for the rest, once: an annotated Cluster is not visited again, and
  `Create` replaces nothing, so a half-installed one keeps the objects of the chart
  that was the newest when they were created. The model has it (`PublishChart`,
  `VisitInstalled`, `Create`); no property asks for upgrades.
* When a policy selects nothing, `matchingClusters` is not reset
  (`kubewardenpolicy_controller.go:115`).
* `isPolicyActive` reads the status right after the `Update`, when it still speaks of
  the spec before (`kubewardenpolicy_controller.go:237`); the requeue after five minutes puts it
  right (`ActiveConverges`).

### Bounds

`MaxEdits` bounds the changes by users, Cluster API and publishers, `MaxFaults` the failed
calls and restarts, `MaxUid` how often a Cluster name is created. They bound
disturbances only: passes, events and retries are unbounded. The
initial states already contain every combination of present, absent, ready and
unready Clusters and of addons or policies, so that a single change reaches every
transition between two configurations, and a fault is placed
at every step. Two Clusters are what the loop needs to go wrong between
iterations; two incarnations what a reused name needs; two versions or modules
what stale data needs. In `Provider`, `MaxDisturbances` bounds changes and faults
together. In `Artifacts`, `MaxAttempts` exceeds `MaxFaults`, so that an attempt
without a fault follows any combination of them, and `MaxPublished` bounds the charts
that come out later: one makes two attempts, or the two charts of one, differ. `AddonConvergence`
has two labels, of which the selector matches one, so that a Cluster leaves and joins the selection. Symmetry of the Clusters (`AddonInstall`,
`PolicyDeploy`) or of the addons (`AddonTenancy`) is used where the constants do
not tell them apart, and never with liveness.

### Fairness

* `SF(Reconcile(x))`: the work queue is first in, first out, so a key in the queue is
  taken, although other passes run in between and the worker is not idle all the time.
* `WF(DelayPasses(a))`: delays and backoffs end. (`PolicyController` has waiting keys in
  its queue, where `SF(Reconcile(p))` covers both.)
* `WF(Proceed)`, `WF(some VisitCluster)`: a running pass goes on (client calls
  have timeouts; an error is a step, too).
* `WF(ClusterEvent)`, `WF(AddonEvent)`, `WF(PolicyEvent)`: watches deliver.

Nothing is assumed of users, of faults, of `Serve` or of the ten-hourly resync
(`Resync` may happen, and no property relies on it).

## 4. Proofs

Every safety property that a run checks is also proved, for all values of the
constants that satisfy the named assumptions of the modules. These say:

* `FleetAssumption`, `VersionAssumption`: there is a label, the bounds are
  numbers, a version is not one of the two marks for "absent" and "unversioned".
* `ManifestAssumption`: manifests are sequences of sequences of objects, null documents come
  last in a file, no object is shipped in two phases, none of them is the namespace.
* `AddonAssumption`, `PolicyAssumption`: every addon, policy and Cluster has a namespace;
  selectors, versions and specs are of their types.
* `SpecAssumption`: a policy has a name; a submitted spec has the fields of the
  CRD's schema, and the schema's enumerations hold (`policyType`, `failurePolicy`).
* `ArtifactsAssumption`: archives are sequences of entries, charts of documents.
* `ProviderAssumption`: those of both controllers.

| Theorem | Says | Further assumption |
|---|---|---|
| `AddonControllerProofs!TypeCorrect` | `Spec => []TypeOK` | |
| `AddonControllerProofs!InstallOrderHolds` | `Spec => []InstallOrder` | |
| `AddonControllerProofs!AnnotationSoundHolds` | `Spec => []AnnotationSound` | `MaxUid = 1` |
| `AddonControllerProofs!ReadyJustifiedHolds` | `Spec => ReadyJustified` | `MaxUid = 1` |
| `AddonControllerProofs!TenancyHolds` | `Spec => []Tenancy` | |
| `AddonInstallProofs!ImplementsInstallHolds` | `Spec => ImplementsInstall` | `MaxUid = 1` |
| `AddonQuiescenceProofs!NoLostWakeupHolds` | `Spec => []NoLostWakeup` | |
| `AddonQuiescenceProofs!NothingSelectedNotReadyHolds` | `Spec => []NothingSelectedNotReady` | `MaxFaults = 0` |
| `PolicyControllerProofs!PolicyTypeCorrect` | `Spec => []TypeOK` | |
| `PolicyControllerProofs!DeployableHolds` | `Spec => []Deployable` | |
| `PolicyControllerProofs!StatusCurrentHolds` | `Spec => StatusCurrent` | |
| `PolicyControllerProofs!PolicyTenancyHolds` | `Spec => []PolicyTenancy` | `~Drifting` |
| `PolicyControllerProofs!InstalledFirstHolds` | `Spec => []InstalledFirst` | `MaxUid = 1`, `~Drifting` |
| `PolicyControllerProofs!ReadyDeployedHolds` | `Spec => ReadyDeployed` | `MaxUid = 1`, `~Drifting` |
| `ArtifactsProofs!WholeArchivesHolds` | `Spec => []WholeArchives` | |
| `ArtifactsProofs!InstalledAsPublishedHolds` | `Spec => []InstalledAsPublished` | |
| `ArtifactsProofs!FailuresAreFaultsHolds` | `Spec => []FailuresAreFaults` | |
| `ArtifactsProofs!ResidueHolds` | `Spec => []Residue` | |
| `ProviderProofs!PoliciesAfterKubewardenHolds` | `Spec => []PoliciesAfterKubewarden` | `MaxUid = 1` |
| `ProviderProofs!ReadyProtectedHolds` | `Spec => ReadyProtected` | `MaxUid = 1` |

Each further assumption is one the property itself comes with, and each is needed: with a
name used twice the annotation lands on the wrong incarnation (`AddonRecreated`), a failed
status patch is swallowed, and nothing can be said of policies that others write.
The invariants below were checked by TLC on the instances of the runs before they
were proved, and stand at the head of the proof modules.

### The addon controller

`InstallOrder` speaks of the workload cluster only and is not inductive: that
the next document may be created follows from where the pass is. The invariant
is strengthened by

* `Place`: the file and document numbers are positive, no document passed over
  in the file at hand ends it, and once the tolerations are at
  hand all phases are behind;
* `Incarnations`: the incarnation connected to is not younger than the present
  one, so that a recreated Cluster is never mistaken for the one in hand;
* `Progress`: while the incarnation connected to exists, everything before
  the place in the manifests is on it, and the tolerations before `pc` are.

Together with `TypeOK` these are preserved by every action, each in a lemma:
steps of the pass move the place by exactly what they create, deletion of the
Cluster ends `Remote`, and everything else leaves the workload cluster alone.
`AnnotationSound` then follows at `AnnotateCluster` from `Progress`; there, and
only there, the proof needs that the Cluster with the name is the one connected to.
`ReadyJustified` needs `Visited` besides: Clusters the loop is through with are
annotated or gone. That a file is applied when the loop has reached its end or a null
document is where `NullsLast` is used. `Tenancy`
needs `AtHome`: the Clusters still to visit, and the one in hand, are in the namespace
of some addon, because the pass listed no others.

*Refinement.* `ImplementsInstall` is proved Cluster by Cluster: the initial states
map to sites on which nothing has begun, and a step of the controller maps,
for every Cluster, to a step of `Install` or to none. What a step can do to a site is
the case split of `StepCases`: the fleet creates or deletes it, an installation
step adds to the one Cluster in hand, the annotation marks it, all else leaves it. Besides
the invariant above this takes `Swept` (nothing is left of a deleted Cluster, so a new
one begins with nothing) and `TolerantLast` (tolerations mean that everything is created).
`Install`'s ordering of stages is `InstallOrder`, its condition for the mark is
`AnnotationSound`.

*Quiescence.* `NoLostWakeup` says something about rest only, so its invariant has to say what
a pass must have seen when it was the last one. `Wakeup` is the core: a step after which an
addon is neither queued nor delayed has changed neither the cached Clusters nor the cached addon,
or has taken the addon off the queue to start its pass. Hence `Current`: a pass whose addon
is not queued again, or waiting, works on exactly what the caches hold now, and has handled
(annotated, or lost) each Cluster it is through with. When such a pass ends without
a requeue it has met an annotated Cluster or been through all of them, which is `Rested`; and
because a Cluster known to the cache may have been replaced since, `Handled` and `CacheBehind`
speak of incarnations. At rest the caches are equal to the objects, and `Rested` becomes
the property. `RestedNotReady` is the same argument for `ready`: the patch that would take it back
is a difference against the cached status, so either the status is false or the
cache has not seen that it is true, and then an event is outstanding.

### The policy controller

`Stored` says that what the API server and the cache have was admitted under its name; with it `Deployable` is a
fact about `Default`, by cases on the fields. `Newest` gives the resourceVersion its meaning: a
copy counted in `newest` equals the object, as far as it is kept. `StatusCurrent` is
then one step: only `UpdateStatus` changes a status, and only with a counted copy. `Home` (the
pass stays in its policy's namespace) gives `PolicyTenancy`. `Marks` says that every
copy of an annotation, in the cache, in the pass's list and at the Cluster in hand, is of a
Cluster that was annotated and, if it exists, still is: annotations are never taken off, and
with one incarnation a name that was annotated is the same Cluster or gone. It gives
`InstalledFirst` at the write, several calls after the annotation was read. `Behind`
gives `ReadyDeployed`: while `allReady` stands, every Cluster behind the pass has the
policy with the pass's spec, or is gone; `Newest` turns the pass's spec into the present one.

### Artifacts

`Unpacked`: the directory has, for each name, the last file among the entries
passed; `AppliedSoFar`: all that the place of the attempt lies behind is applied, the rest of
the file in hand is a suffix of it, and nothing on the cluster was never on offer, which is
what makes the residue of failed attempts harmless. A chart that comes out later changes neither: it adds
to what is on offer, and the attempt goes on with the charts in `used`. A file is applied as far
as its first null document (`Leading`), which is all of it if null documents come last.
These give `WholeArchives`, `InstalledAsPublished` and `FailuresAreFaults`. `Residue` counts
sets: `Left(w)` are the files nobody will remove, `Accounts` bounds their number by
faults and attempts, and each action adds at most the one or two names it knows of (`Fresh`: names are
never used again), by the cardinality theorems of the library. The least element that
`First` chooses exists because the order on numbers is well-founded.

### The provider

`ProviderProofs` instantiates the proof modules of both controllers and uses their
step lemmas on the composition. `PolicySteps`, `AddonSteps` and `SharedSteps` say what a step of
`Provider` is to either controller: a step of its own, or one that leaves its
variables alone up to the two counters, which `AddonUnaware` and `PolicyUnaware`
show to be harmless. The one step of the addon controller that the other notices is
`AnnotateCluster`, which is `MarkInstalled`, or nothing if the mark is there already.
The invariants of both therefore hold together (`BothHold`).
`PoliciesAfterKubewarden` is `InstalledFirst` followed by `AnnotationSound`. For `ReadyProtected`
the step that sets `ready` must be the policy controller's (`PolicySees`); `ReadyStep`
of `PolicyControllerProofs` says what it finds on each selected Cluster, the annotation among it,
and `AnnotationSound` what the annotation stands for.

### Only model-checked

Liveness under fairness is out of the prover's reach: `Convergence`, `SelfHealing`,
`ReadyConverges` and `ActiveConverges` are checked on the instances of their runs only. The
runs that end in a counterexample need no proof.

## 5. Not modelled

* The rate at which the policy controller wakes itself: `lastTransitionTime`
  changes with every pass, so every status update is an event. The event is in
  the model, its rate is not.
* Conditions (`condition_consts.go`), images, replicas and resources of the API
  types, which no code reads or writes; generated deep copies; leader election, metrics and probes; scripts,
  manifests and CI.

## 6. Plan

1. Done: all components that have state or decide something are modelled,
   composed and checked; every safety property of the runs is proved.
2. Next: the safety core of the liveness properties, as far as it can be stated without
   fairness: that a pass which is not disturbed ends, by a measure that every
   step of it decreases (places, documents and Clusters left), for both controllers; and
   for `PolicyController` the counterpart of `Rested`, that a key is never lost from the queue while its
   policy exists.
3. The remaining proofs about either controller alone (`ReadyJustified`, `StatusCurrent`,
   `NoLostWakeup`) carried over to `Provider` the way `BothHold` does it for the invariants.
