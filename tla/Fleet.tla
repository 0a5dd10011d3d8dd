------------------------------- MODULE Fleet -------------------------------
(***************************************************************************)
(* What both controllers of the provider share and do not own: the Cluster *)
(* API objects in the management cluster, the informer cache through which *)
(* the controllers read them, and the workload clusters behind them.       *)
(*                                                                         *)
(* The code uses these through controller-runtime's client, Cluster API's  *)
(* remote client and the Kubernetes API servers; they are modelled from    *)
(* that use.  The cache may lag arbitrarily behind the API server; an      *)
(* event brings one object up to date.                                     *)
(***************************************************************************)
EXTENDS Naturals, FiniteSets

CONSTANTS
    Cluster,      \* names of Cluster objects
    Label,        \* the label a Cluster carries, as far as selectors tell
    Object,       \* objects the provider can create on a workload cluster
    Version,      \* what it can be created from: a Kubewarden version, a spec
    Absent,       \* instead of a version: there is no such object
    Unversioned,  \* instead of a version: the same whatever the version
    MaxUid,       \* bound: how many times a Cluster name may be created
    MaxEdits      \* bound: user and infrastructure changes in one behaviour

ASSUME FleetAssumption ==
    /\ Label # {}
    /\ MaxUid \in Nat \ {0}
    /\ MaxEdits \in Nat

ASSUME VersionAssumption ==
    /\ Version \cap {Absent, Unversioned} = {}
    /\ Absent # Unversioned

VARIABLES
    clusters,     \* the Cluster objects on the API server
    cache,        \* the informer cache's copy of them
    workload,     \* per Cluster and object: what it was created from
    tolerant,     \* per Cluster: objects patched with the toleration
    edits         \* number of changes made by users and infrastructure

fleetVars == <<clusters, cache, workload, tolerant, edits>>

ClusterRecord ==
    [present : BOOLEAN, uid : 0..MaxUid, label : Label,
     cpReady : BOOLEAN, cpCond : BOOLEAN, installed : BOOLEAN]

\* What is left of a Cluster name after its u-th object was deleted.
Gone(u) == [present |-> FALSE, uid |-> u, label |-> CHOOSE l \in Label : TRUE,
            cpReady |-> FALSE, cpCond |-> FALSE, installed |-> FALSE]

\* A Cluster object the provider has not seen yet.
Unmarked == [present : {TRUE}, uid : {1}, label : Label,
             cpReady : BOOLEAN, cpCond : BOOLEAN, installed : {FALSE}]

\* A workload cluster with nothing of Kubewarden on it.
Bare == [o \in Object |-> Absent]

FleetTypeOK ==
    /\ clusters \in [Cluster -> ClusterRecord]
    /\ cache \in [Cluster -> ClusterRecord]
    /\ workload \in [Cluster -> [Object -> Version \cup {Absent, Unversioned}]]
    /\ tolerant \in [Cluster -> SUBSET Object]
    /\ edits \in 0..MaxEdits

\* Any Clusters may exist when the provider is first deployed; none of them
\* carries its annotation yet.  The informer has listed them.
FleetInit ==
    /\ clusters \in [Cluster -> {Gone(0)} \cup Unmarked]
    /\ cache = clusters
    /\ workload = [c \in Cluster |-> Bare]
    /\ tolerant = [c \in Cluster |-> {}]
    /\ edits = 0

\* A call by name to the API server of Cluster c reaches the incarnation u.
Reaches(c, u) == clusters[c].present /\ clusters[c].uid = u

HasAnnotation(r) == r.installed

CacheSynced == cache = clusters

(***************************************************************************)
(* Steps of the users and of Cluster API.                                  *)
(***************************************************************************)
Edit == edits < MaxEdits /\ edits' = edits + 1

CreateCluster(c) ==
    /\ Edit
    /\ ~clusters[c].present
    /\ clusters[c].uid < MaxUid
    /\ \E l \in Label :
          clusters' = [clusters EXCEPT ![c] =
             [present |-> TRUE, uid |-> clusters[c].uid + 1, label |-> l,
              cpReady |-> FALSE, cpCond |-> FALSE, installed |-> FALSE]]
    /\ UNCHANGED <<cache, workload, tolerant>>

\* The workload cluster goes with its Cluster object.
DeleteCluster(c) ==
    /\ Edit
    /\ clusters[c].present
    /\ clusters' = [clusters EXCEPT ![c] = Gone(clusters[c].uid)]
    /\ workload' = [workload EXCEPT ![c] = Bare]
    /\ tolerant' = [tolerant EXCEPT ![c] = {}]
    /\ UNCHANGED cache

Relabel(c) ==
    /\ Edit
    /\ clusters[c].present
    /\ \E l \in Label \ {clusters[c].label} :
          clusters' = [clusters EXCEPT ![c] = [clusters[c] EXCEPT !.label = l]]
    /\ UNCHANGED <<cache, workload, tolerant>>

\* status.controlPlaneReady and the ControlPlaneReady condition are written
\* by Cluster API and need not agree.
ControlPlaneChanges(c) ==
    /\ Edit
    /\ clusters[c].present
    /\ \E r, k \in BOOLEAN :
          /\ <<r, k>> # <<clusters[c].cpReady, clusters[c].cpCond>>
          /\ clusters' = [clusters EXCEPT ![c] =
                [clusters[c] EXCEPT !.cpReady = r, !.cpCond = k]]
    /\ UNCHANGED <<cache, workload, tolerant>>

FleetStep(c) == \/ CreateCluster(c)
                \/ DeleteCluster(c)
                \/ Relabel(c)
                \/ ControlPlaneChanges(c)
=============================================================================
