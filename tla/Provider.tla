------------------------------ MODULE Provider ------------------------------
(***************************************************************************)
(* The provider: both controllers in one manager, over the same Clusters   *)
(* and the same informer cache.  The addon controller's annotation is what *)
(* the policy controller waits for; each has a queue and a worker of its   *)
(* own, and they run concurrently.  On a workload cluster `workload' is    *)
(* what the addon controller puts there, `deployed' the policies.          *)
(***************************************************************************)
EXTENDS Naturals, FiniteSets

CONSTANTS
    Cluster, Label, Absent, Unversioned, MaxUid,   \* as in Fleet
    MaxEdits, MaxFaults,                           \* bounds, as in both
    MaxDisturbances,                               \* bound on their sum
    Namespace,                                     \* of Addons, Policies, Clusters
    Addon, Object, Version, Selector, Requested,   \* as in AddonController
    Released, DefaultVersion, Manifests,
    Policy, PolicyObject, PolicySpec, Submitted    \* as in PolicyController

VARIABLES
    clusters, cache, edits, faults,                \* shared
    workload, tolerant, addons, addonCache, addonQueue, addonDelayed, addonPc,
    addonJob, chart,
    deployed, served, policies, policyCache, newest, policyQueue, policyPc,
    policyJob

addonOnly == <<workload, tolerant, addons, addonCache, addonQueue, addonDelayed,
               addonPc, addonJob, chart>>
policyOnly == <<deployed, served, policies, policyCache, newest, policyQueue,
                policyPc, policyJob>>
vars == <<clusters, cache, edits, faults, addonOnly, policyOnly>>

A == INSTANCE AddonController WITH
        queue <- addonQueue, delayed <- addonDelayed, pc <- addonPc, job <- addonJob,
        NamespaceOf <- [x \in Addon \cup Cluster |-> Namespace[x]]

\* The policy controller knows nothing of tolerations, and nobody but it
\* writes policies on the workload clusters.
P == INSTANCE PolicyController WITH
        Object <- PolicyObject, Version <- PolicySpec,
        workload <- deployed, tolerant <- [c \in Cluster |-> {}],
        queue <- policyQueue, pc <- policyPc, job <- policyJob,
        PolicyNamespace <- [x \in Policy \cup Cluster |-> Namespace[x]],
        Drifting <- FALSE

\* What either controller assumes of its constants.
ASSUME ProviderAssumption ==
    /\ A!FleetAssumption /\ A!VersionAssumption
    /\ A!ManifestAssumption /\ A!AddonAssumption
    /\ P!VersionAssumption /\ P!PolicyAssumption /\ P!SpecAssumption

\* main sets up both reconcilers with one manager, hence one cache.
Init == A!Init /\ P!Init

(***************************************************************************)
(* Steps of one controller, or of those who edit its objects.              *)
(***************************************************************************)
AddonWorker ==
    \/ \E a \in Addon : A!Reconcile(a)
    \/ \E c \in Cluster : A!VisitCluster(c)
    \/ A!Proceed \/ A!PatchStatusFails \/ A!CallFails

AddonStep ==
    /\ \/ AddonWorker
       \/ \E a \in Addon : \/ A!DelayPasses(a) \/ A!AddonEvent(a)
                           \/ A!CreateAddon(a) \/ A!EditAddon(a) \/ A!DeleteAddon(a)
       \/ A!Resync \/ A!PublishChart
    /\ UNCHANGED policyOnly

PolicyWorker ==
    \/ \E p \in Policy : P!Reconcile(p)
    \/ \E c \in Cluster : P!VisitCluster(c)
    \/ P!Proceed

PolicyStep ==
    /\ \/ PolicyWorker
       \/ \E p \in Policy : \/ P!PolicyEvent(p) \/ P!SubmitPolicy(p)
                            \/ P!EditPolicy(p) \/ P!WithdrawPolicy(p)
       \/ \E c \in Cluster, k \in PolicyObject : P!Serve(c, k)
       \/ P!Resync
    /\ UNCHANGED addonOnly

(***************************************************************************)
(* Steps of both: one event of one cache has two handlers, a Cluster takes *)
(* everything on it along, and the process is restarted as a whole.        *)
(***************************************************************************)
ClusterEvent(c) == A!ClusterEvent(c) /\ P!ClusterEvent(c)

FleetChanges(c) ==
    /\ A!FleetStep(c)
    /\ P!FleetChanges(c)
    /\ UNCHANGED <<addons, addonCache, addonQueue, addonDelayed, addonPc, addonJob, chart>>

Restart == A!Restart /\ P!Restart

Next ==
    /\ \/ AddonStep
       \/ PolicyStep
       \/ \E c \in Cluster : ClusterEvent(c) \/ FleetChanges(c)
       \/ Restart
    /\ edits' + faults' <= MaxDisturbances

Spec == Init /\ [][Next]_vars

(***************************************************************************)
(* Properties.                                                             *)
(***************************************************************************)
\* No policy is on a workload cluster that has not got all of Kubewarden: the
\* annotation that the policy controller reads from a cache, calls earlier, is
\* enough, whatever fails or restarts in either controller (MaxUid = 1).
PoliciesAfterKubewarden ==
    \A c \in Cluster : (\E k \in PolicyObject : deployed[c][k] # Absent) => A!Complete(c)

\* A policy's status.ready turns true only when every selected Cluster that
\* still exists has the policy as in the present spec and all of Kubewarden to
\* enforce it, although the policy controller saw neither the objects nor the
\* Cluster itself but a cached annotation, and the addon, the policy or the
\* Cluster may have changed or gone since (MaxUid = 1).
ReadyProtected ==
    [][\A p \in Policy :
          ~policies[p].status.ready /\ policies'[p].status.ready =>
             /\ policyJob.selected # {}
             /\ \A c \in policyJob.selected :
                   clusters[c].present => P!Deployed(p, c) /\ A!Complete(c)]_vars
=============================================================================
