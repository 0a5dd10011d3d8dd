------------------------- MODULE PolicyController --------------------------
(***************************************************************************)
(* The KubewardenPolicy controller: it deploys a KubewardenPolicy as a     *)
(* ClusterAdmissionPolicy or AdmissionPolicy on the workload clusters it   *)
(* selects that have Kubewarden, and reports in the policy's status.       *)
(*                                                                         *)
(* One worker, as in AddonController.  The objects on the workload         *)
(* clusters are policies here: Object holds their keys, Version their      *)
(* specs, and workload[c][k] is the spec of policy k on Cluster c.         *)
(***************************************************************************)
EXTENDS Fleet, PolicyWebhook

CONSTANTS
    Policy,          \* names of KubewardenPolicy objects
    PolicyNamespace, \* the namespace of every Policy and Cluster
    Submitted,       \* specs users submit to the API server
    Drifting,        \* whether others change policies on workload clusters
    MaxFaults        \* bound: failed calls and restarts in one behaviour

\* What admission lets through, as it is stored.
Admitted(p) == {s \in {Default(p, t) : t \in Submitted} : ValidateKubewardenPolicy(s)}

StoredSpec == UNION {Admitted(p) : p \in Policy}

ASSUME PolicyAssumption ==
    /\ DOMAIN PolicyNamespace = Policy \cup Cluster
    /\ \A s \in Submitted : s.selector \in [valid : BOOLEAN, matches : SUBSET Label]
    /\ \A s \in StoredSpec : PolicyKey(s) \in Object /\ BuildPolicySpec(s) \in Version
    /\ Drifting \in BOOLEAN
    /\ MaxFaults \in Nat

\* Objects have names; the schema fixes the fields of a spec and what may be
\* written in its enumerations, which may be left empty.
ASSUME SpecAssumption ==
    /\ Empty \notin Policy
    /\ \A s \in Submitted :
          /\ DOMAIN s = {"selector", "policyType", "policyName", "targetNamespace",
                         "policyServer", "failurePolicy", "module", "rules"}
          /\ s.policyType \in {Empty, ClusterAdmissionPolicy, AdmissionPolicy}
          /\ s.failurePolicy \in {Empty, "Fail", "Ignore"}

VARIABLES
    policies,     \* the KubewardenPolicy objects on the API server
    policyCache,  \* the informer cache's copy of them
    newest,       \* per Policy: the copies with its latest resourceVersion
    served,       \* per Cluster and key: the spec the policy server enforces
    queue,        \* keys to reconcile, those with a delay or a backoff included:
                  \* a pass may come at any time, and but for one that finds
                  \* the policy gone or deleted each asks for the next one
    pc,           \* where the running Reconcile is, "idle" when there is none
    job,          \* its local state
    faults        \* number of failed calls and restarts so far

policyVars == <<policies, policyCache, newest>>
remoteVars == <<workload, served>>
vars == <<fleetVars, policyVars, served, queue, pc, job, faults>>

None == "none"

\* The spec of an object that does not exist.
NoSpec == [selector |-> [valid |-> FALSE, matches |-> {}], policyType |-> Empty,
           policyName |-> Empty, targetNamespace |-> Empty, policyServer |-> Empty,
           failurePolicy |-> Empty, module |-> Empty, rules |-> <<>>]

\* status.deployedPolicies as a set of Clusters and whether active there.
Status == [ready : BOOLEAN, matching : SUBSET Cluster,
           deployed : SUBSET (Cluster \X BOOLEAN)]
NoStatus == [ready |-> FALSE, matching |-> {}, deployed |-> {}]

\* "deleting": deletionTimestamp set and somebody else's finalizer present.
PolicyRecord == [phase : {"absent", "live", "deleting"}, spec : StoredSpec \cup {NoSpec},
                 status : Status]
NoPolicy == [phase |-> "absent", spec |-> NoSpec, status |-> NoStatus]

Exists(p) == policies[p].phase # "absent"
Known(p) == policyCache[p].phase # "absent"

\* The policy as read by Get; the Clusters listed, those still to visit and
\* those with the control plane up and the annotation then; the outcome so
\* far; the Cluster in hand, the incarnation connected to, whether the policy
\* was there, and whether anybody has written it since.
JobRecord ==
    [policy : Policy \cup {None}, spec : StoredSpec \cup {NoSpec}, deleting : BOOLEAN,
     selected : SUBSET Cluster, todo : SUBSET Cluster, eligible : SUBSET Cluster,
     allReady : BOOLEAN, deployed : SUBSET (Cluster \X BOOLEAN),
     cluster : Cluster \cup {None}, uid : 0..MaxUid, found : BOOLEAN, moved : BOOLEAN]

NoJob == [policy |-> None, spec |-> NoSpec, deleting |-> FALSE,
          selected |-> {}, todo |-> {}, eligible |-> {}, allReady |-> TRUE,
          deployed |-> {}, cluster |-> None, uid |-> 0, found |-> FALSE, moved |-> FALSE]

\* Places at which a call to the workload cluster is next.
RemoteCalls == {"get", "write", "verify", "delete"}

TypeOK ==
    /\ FleetTypeOK
    /\ policies \in [Policy -> PolicyRecord]
    /\ policyCache \in [Policy -> PolicyRecord]
    /\ newest \in [Policy -> SUBSET {"cache", "job"}]
    /\ {workload, served} \subseteq [Cluster -> [Object -> Version \cup {Absent}]]
    /\ queue \subseteq Policy
    /\ pc \in RemoteCalls \cup {"idle", "list", "visit", "status"}
    /\ job \in JobRecord
    /\ pc # "idle" => job.policy \in Policy /\ job.spec \in StoredSpec
    /\ pc \in RemoteCalls => job.cluster \in Cluster
    /\ faults \in 0..MaxFaults

NothingServed == [o \in Object |-> Absent]

NewPolicy(s) == [phase |-> "live", spec |-> s, status |-> NoStatus]

Init ==
    /\ FleetInit
    /\ policies \in [Policy -> {NoPolicy} \cup {NewPolicy(s) : s \in StoredSpec}]
    /\ \A p \in Policy : policies[p].spec \in Admitted(p) \cup {NoSpec}
    /\ policyCache = policies
    /\ newest = [p \in Policy |-> {"cache"}]
    /\ served = [c \in Cluster |-> NothingServed]
    /\ queue = {p \in Policy : Exists(p)}
    /\ pc = "idle"
    /\ job = NoJob
    /\ faults = 0

(***************************************************************************)
(* How Reconcile ends: errors and RequeueAfter put the key back.           *)
(***************************************************************************)
Return(keys) == /\ pc' = "idle"
                /\ job' = NoJob
                /\ queue' = queue \cup keys

Done == Return({})

\* Mutant: the pass is the last one until something changes.
RequeueForgotten == Return({})

Requeue == Return({job.policy})

Goto(place) == pc' = place /\ UNCHANGED queue

(***************************************************************************)
(* Reconcile: Get the policy from the cache.                               *)
(***************************************************************************)
Take(p) == pc = "idle" /\ p \in queue /\ queue' = queue \ {p}

ReconcileNotFound(p) ==
    /\ Take(p)
    /\ ~Known(p)
    /\ UNCHANGED <<fleetVars, policyVars, served, pc, job, faults>>

Started(p) == [NoJob EXCEPT !.policy = p, !.spec = policyCache[p].spec,
                            !.deleting = policyCache[p].phase = "deleting"]

\* The copy read has the latest resourceVersion if the cache's has.
ReconcileFound(p) ==
    /\ Take(p)
    /\ Known(p)
    /\ pc' = "list"
    /\ job' = Started(p)
    /\ newest' = [newest EXCEPT ![p] =
          IF "cache" \in newest[p] THEN {"cache", "job"} ELSE {}]
    /\ UNCHANGED <<fleetVars, policies, policyCache, served, faults>>

(***************************************************************************)
(* reconcileNormal and reconcileDelete: getMatchingClusters from the cache.*)
(***************************************************************************)
\* Mutant: the List forgets InNamespace.
GetClustersEverywhere(p, s) ==
    {c \in Cluster : cache[c].present /\ cache[c].label \in s.matches}

GetMatchingClusters(p, s) ==
    {c \in Cluster : /\ cache[c].present
                     /\ PolicyNamespace[c] = PolicyNamespace[p]
                     /\ cache[c].label \in s.matches}

\* Mutant: the annotation is not looked for.
EligibleUnmarked(r) == r.cpReady /\ r.cpCond

\* Both signals and the addon controller's annotation.
Eligible(r) == r.cpReady /\ r.cpCond /\ HasAnnotation(r)

Listed(selected) == [job EXCEPT !.selected = selected,
                                !.todo = selected,
                                !.eligible = {c \in selected : Eligible(cache[c])}]

ListClusters ==
    /\ pc = "list"
    /\ job.spec.selector.valid
    /\ LET selected == GetMatchingClusters(job.policy, job.spec.selector)
       IN  /\ job' = Listed(selected)
           /\ Goto(IF selected = {} /\ ~job.deleting THEN "status" ELSE "visit")
    /\ UNCHANGED <<fleetVars, policyVars, served, faults>>

SelectorInvalid ==
    /\ pc = "list"
    /\ ~job.spec.selector.valid
    /\ Requeue
    /\ UNCHANGED <<fleetVars, policyVars, served, faults>>

(***************************************************************************)
(* The loop over the Clusters.  Nothing that happens to one Cluster ends   *)
(* the pass; it only clears allReady.                                      *)
(***************************************************************************)
Visit(c) == pc = "visit" /\ c \in job.todo

\* Mutant: a Cluster that is skipped does not count against allReady.
SkipSilently(c) == [job EXCEPT !.todo = job.todo \ {c}]

Skip(c) == [job EXCEPT !.todo = job.todo \ {c}, !.allReady = FALSE]

VisitIneligible(c) ==
    /\ Visit(c)
    /\ ~job.deleting
    /\ c \notin job.eligible
    /\ job' = Skip(c)
    /\ Goto("visit")
    /\ UNCHANGED <<fleetVars, policyVars, served, faults>>

Connected(c) == [job EXCEPT !.todo = job.todo \ {c}, !.cluster = c, !.uid = clusters[c].uid]

\* The remote client is made from the Cluster's name.
Connect(c) ==
    /\ Visit(c)
    /\ c \in job.eligible \/ job.deleting
    /\ clusters[c].present
    /\ job' = Connected(c)
    /\ Goto(IF job.deleting THEN "delete" ELSE "get")
    /\ UNCHANGED <<fleetVars, policyVars, served, faults>>

Fault == faults < MaxFaults /\ faults' = faults + 1

ConnectFails(c) ==
    /\ Visit(c)
    /\ c \in job.eligible \/ job.deleting
    /\ IF clusters[c].present THEN Fault ELSE UNCHANGED faults
    /\ job' = Skip(c)
    /\ Goto("visit")
    /\ UNCHANGED <<fleetVars, policyVars, served>>

VisitedAll ==
    /\ pc = "visit"
    /\ job.todo = {}
    /\ IF job.deleting THEN Done ELSE Goto("status") /\ UNCHANGED job
    /\ UNCHANGED <<fleetVars, policyVars, served, faults>>

(***************************************************************************)
(* deployPolicy: Get, then Create or Update, then Get again.               *)
(***************************************************************************)
Remote == Reaches(job.cluster, job.uid)
Key == PolicyKey(job.spec)
OnCluster == workload[job.cluster][Key] # Absent

NextCluster(outcome) ==
    [job EXCEPT !.deployed = job.deployed \cup outcome, !.cluster = None, !.uid = 0,
                !.found = FALSE, !.moved = FALSE]

\* Without the annotation the Kubewarden CRDs may be missing: the cache the
\* annotation was read from may know an earlier incarnation.
GetExisting ==
    /\ pc = "get"
    /\ Remote
    /\ job' = [job EXCEPT !.found = OnCluster]
    /\ Goto("write")
    /\ UNCHANGED <<fleetVars, policyVars, served, faults>>

WritePolicy == workload' = [workload EXCEPT ![job.cluster] =
                   [workload[job.cluster] EXCEPT ![Key] = BuildPolicySpec(job.spec)]]

CreatePolicy ==
    /\ pc = "write"
    /\ Remote
    /\ ~job.found /\ ~OnCluster
    /\ WritePolicy
    /\ Goto("verify")
    /\ UNCHANGED <<clusters, cache, tolerant, edits, policyVars, served, job, faults>>

\* Update sends the resourceVersion that Get saw.
UpdatePolicy ==
    /\ pc = "write"
    /\ Remote
    /\ job.found /\ OnCluster /\ ~job.moved
    /\ WritePolicy
    /\ Goto("verify")
    /\ UNCHANGED <<clusters, cache, tolerant, edits, policyVars, served, job, faults>>

\* The policy's status says active as long as the server enforces some spec.
IsPolicyActive ==
    /\ pc = "verify"
    /\ Remote
    /\ OnCluster
    /\ job' = NextCluster({<<job.cluster, served[job.cluster][Key] # Absent>>})
    /\ Goto("visit")
    /\ UNCHANGED <<fleetVars, policyVars, served, faults>>

\* Mutant: the error is logged, and allReady is left as it is.
DeployFailsSilently ==
    /\ pc \in {"get", "write", "verify"}
    /\ \/ /\ \/ ~Remote
             \/ pc = "get" /\ ~clusters[job.cluster].installed
             \/ pc = "write" /\ (job.found # OnCluster \/ (job.found /\ job.moved))
             \/ pc = "verify" /\ ~OnCluster
          /\ UNCHANGED faults
       \/ Fault
    /\ job' = NextCluster({<<job.cluster, FALSE>>})
    /\ Goto("visit")
    /\ UNCHANGED <<fleetVars, policyVars, served>>

\* The Cluster is gone, has no CRDs, the policy is there already (Create),
\* was changed or is gone (Update), is gone (Get), or the call fails.
DeployFails ==
    /\ pc \in {"get", "write", "verify"}
    /\ \/ /\ \/ ~Remote
             \/ pc = "get" /\ ~clusters[job.cluster].installed
             \/ pc = "write" /\ (job.found # OnCluster \/ (job.found /\ job.moved))
             \/ pc = "verify" /\ ~OnCluster
          /\ UNCHANGED faults
       \/ Fault
    /\ job' = [NextCluster({<<job.cluster, FALSE>>}) EXCEPT !.allReady = FALSE]
    /\ Goto("visit")
    /\ UNCHANGED <<fleetVars, policyVars, served>>

(***************************************************************************)
(* The status update: rejected unless it carries the latest                *)
(* resourceVersion.  With no Cluster selected, MatchingClusters is left.   *)
(***************************************************************************)
\* Mutant: the status is written only when Ready changes.
OutcomeOnChange(old) ==
    IF job.selected = {}
    THEN [old EXCEPT !.ready = FALSE, !.deployed = {}]
    ELSE IF old.ready = job.allReady THEN old
    ELSE [ready |-> job.allReady, matching |-> job.selected, deployed |-> job.deployed]

Outcome(old) ==
    IF job.selected = {}
    THEN [old EXCEPT !.ready = FALSE, !.deployed = {}]
    ELSE [ready |-> job.allReady, matching |-> job.selected, deployed |-> job.deployed]

\* Mutant: a status patch instead of an update.
UpdateStatusBlindly ==
    /\ pc = "status"
    /\ Exists(job.policy)
    /\ policies' = [policies EXCEPT ![job.policy] =
          [policies[job.policy] EXCEPT !.status = Outcome(policies[job.policy].status)]]
    /\ newest' = [newest EXCEPT ![job.policy] = {}]
    /\ Requeue
    /\ UNCHANGED <<fleetVars, policyCache, served, faults>>

\* LastTransitionTime is set anew for every deployed policy, so that the
\* object changes unless the pass before was in the same second.
UpdateStatus ==
    /\ pc = "status"
    /\ Exists(job.policy)
    /\ "job" \in newest[job.policy]
    /\ policies' = [policies EXCEPT ![job.policy] =
          [policies[job.policy] EXCEPT !.status = Outcome(policies[job.policy].status)]]
    /\ \/ /\ policies' # policies \/ job.deployed # {}
          /\ newest' = [newest EXCEPT ![job.policy] = {}]
       \/ policies' = policies /\ UNCHANGED newest
    /\ Requeue
    /\ UNCHANGED <<fleetVars, policyCache, served, faults>>

UpdateStatusFails ==
    /\ pc = "status"
    /\ \/ "job" \notin newest[job.policy] /\ UNCHANGED faults
       \/ Fault
    /\ Requeue
    /\ UNCHANGED <<fleetVars, policyVars, served>>

(***************************************************************************)
(* reconcileDelete's deletePolicy.                                         *)
(***************************************************************************)
Remove(c, k) ==
    /\ workload' = [workload EXCEPT ![c] = [workload[c] EXCEPT ![k] = Absent]]
    /\ served' = [served EXCEPT ![c] = [served[c] EXCEPT ![k] = Absent]]

DeletePolicy ==
    /\ pc = "delete"
    /\ Remote
    /\ Remove(job.cluster, Key)
    /\ job' = NextCluster({})
    /\ Goto("visit")
    /\ UNCHANGED <<clusters, cache, tolerant, edits, policyVars, faults>>

\* The error is logged.
DeletePolicyFails ==
    /\ pc = "delete"
    /\ IF Remote THEN Fault ELSE UNCHANGED faults
    /\ job' = NextCluster({})
    /\ Goto("visit")
    /\ UNCHANGED <<fleetVars, policyVars, served>>

\* The manager is killed and starts again.
Restart ==
    /\ Fault
    /\ cache' = clusters
    /\ policyCache' = policies
    /\ newest' = [p \in Policy |-> {"cache"}]
    /\ queue' = {p \in Policy : Exists(p)}
    /\ pc' = "idle"
    /\ job' = NoJob
    /\ UNCHANGED <<clusters, workload, tolerant, edits, policies, served>>

(***************************************************************************)
(* Events.                                                                 *)
(***************************************************************************)
\* Mutant: the request names the Cluster.
RequestForCluster(c) == {c}

\* clusterToKubewardenPolicy, applied to the old and to the new object.
ClusterToKubewardenPolicy(c) ==
    {p \in Policy : /\ Known(p)
                    /\ PolicyNamespace[p] = PolicyNamespace[c]
                    /\ policyCache[p].spec.selector.valid
                    /\ \E r \in {cache[c], clusters[c]} :
                          r.present /\ r.label \in policyCache[p].spec.selector.matches}

ClusterEvent(c) ==
    /\ cache[c] # clusters[c]
    /\ cache' = [cache EXCEPT ![c] = clusters[c]]
    /\ queue' = queue \cup ClusterToKubewardenPolicy(c)
    /\ UNCHANGED <<clusters, workload, tolerant, edits, policyVars, served,
                   pc, job, faults>>

PolicyEvent(p) ==
    /\ "cache" \notin newest[p]
    /\ policyCache' = [policyCache EXCEPT ![p] = policies[p]]
    /\ newest' = [newest EXCEPT ![p] = newest[p] \cup {"cache"}]
    /\ queue' = queue \cup {p}
    /\ UNCHANGED <<fleetVars, policies, served, pc, job, faults>>

\* The informers replay their caches every ten hours or so.
Resync ==
    /\ queue' = queue \cup {p \in Policy : Known(p)}
    /\ UNCHANGED <<fleetVars, policyVars, served, pc, job, faults>>

(***************************************************************************)
(* Users, the addon controller, and the workload clusters.                 *)
(***************************************************************************)
SetPolicy(p, record) ==
    /\ Edit
    /\ policies' = [policies EXCEPT ![p] = record]
    /\ newest' = [newest EXCEPT ![p] = {}]
    /\ UNCHANGED <<clusters, cache, workload, tolerant, policyCache, served,
                   queue, pc, job, faults>>

SubmitPolicy(p) ==
    /\ ~Exists(p)
    /\ \E s \in Admitted(p) : SetPolicy(p, NewPolicy(s))

EditPolicy(p) ==
    /\ Exists(p)
    /\ \E s \in Admitted(p) \ {policies[p].spec} :
          SetPolicy(p, [policies[p] EXCEPT !.spec = s])

\* Delete, with or without somebody's finalizer; then the finalizer goes.
WithdrawPolicy(p) ==
    \/ /\ policies[p].phase = "live"
       /\ SetPolicy(p, [policies[p] EXCEPT !.phase = "deleting"])
    \/ /\ Exists(p)
       /\ SetPolicy(p, NoPolicy)

\* The addon controller has installed Kubewarden.
MarkInstalled(c) ==
    /\ clusters[c].present /\ ~clusters[c].installed
    /\ clusters' = [clusters EXCEPT ![c] = [clusters[c] EXCEPT !.installed = TRUE]]
    /\ UNCHANGED <<cache, workload, tolerant, edits, policyVars, served,
                   queue, pc, job, faults>>

FleetChanges(c) ==
    /\ \/ /\ DeleteCluster(c)
          /\ served' = [served EXCEPT ![c] = NothingServed]
       \/ CreateCluster(c) /\ UNCHANGED served
       \/ Relabel(c) /\ UNCHANGED served
       \/ ControlPlaneChanges(c) /\ UNCHANGED served
    /\ UNCHANGED <<policyVars, queue, pc, job, faults>>

\* The running Reconcile learns of a write to the policy in its hand only
\* from the resourceVersion.
Touch(c, k) == IF pc = "write" /\ job.cluster = c /\ Key = k
               THEN job' = [job EXCEPT !.moved = TRUE]
               ELSE UNCHANGED job

\* Kubewarden loads a policy and sets its status to active.
Serve(c, k) ==
    /\ workload[c][k] \notin {Absent, served[c][k]}
    /\ served' = [served EXCEPT ![c] = [served[c] EXCEPT ![k] = workload[c][k]]]
    /\ Touch(c, k)
    /\ UNCHANGED <<fleetVars, policyVars, queue, pc, faults>>

\* Somebody deletes a policy on a workload cluster, changes or creates it.
Drift(c, k) ==
    /\ Drifting
    /\ Edit
    /\ clusters[c].present /\ clusters[c].installed
    /\ \/ workload[c][k] # Absent /\ Remove(c, k)
       \/ /\ \E v \in Version \ {workload[c][k]} :
                workload' = [workload EXCEPT ![c] = [workload[c] EXCEPT ![k] = v]]
          /\ UNCHANGED served
    /\ Touch(c, k)
    /\ UNCHANGED <<clusters, cache, tolerant, policyVars, queue, pc, faults>>

(***************************************************************************)
(* The specification.                                                      *)
(***************************************************************************)
Reconcile(p) == ReconcileNotFound(p) \/ ReconcileFound(p)

VisitCluster(c) == VisitIneligible(c) \/ Connect(c) \/ ConnectFails(c)

Proceed ==
    \/ ListClusters \/ SelectorInvalid \/ VisitedAll
    \/ GetExisting \/ CreatePolicy \/ UpdatePolicy \/ IsPolicyActive \/ DeployFails
    \/ UpdateStatus \/ UpdateStatusFails \/ DeletePolicy \/ DeletePolicyFails

Event == \/ \E c \in Cluster : ClusterEvent(c)
         \/ \E p \in Policy : PolicyEvent(p)

Environment ==
    \/ \E p \in Policy : SubmitPolicy(p) \/ EditPolicy(p) \/ WithdrawPolicy(p)
    \/ \E c \in Cluster : MarkInstalled(c) \/ FleetChanges(c)
    \/ \E c \in Cluster, k \in Object : Serve(c, k) \/ Drift(c, k)

Next ==
    \/ \E p \in Policy : Reconcile(p)
    \/ \E c \in Cluster : VisitCluster(c)
    \/ Proceed
    \/ Restart
    \/ Event
    \/ Resync
    \/ Environment

Spec == Init /\ [][Next]_vars

\* Timers and backoffs fire, a Reconcile that runs goes on, watches deliver.
Fairness ==
    /\ \A p \in Policy : SF_vars(Reconcile(p)) /\ WF_vars(PolicyEvent(p))
    /\ \A c \in Cluster : WF_vars(ClusterEvent(c))
    /\ WF_vars(\E c \in Cluster : VisitCluster(c))
    /\ WF_vars(Proceed)

FairSpec == Spec /\ Fairness

(***************************************************************************)
(* Properties.                                                             *)
(***************************************************************************)
Live(p) == policies[p].phase = "live"

\* Policy p is on Cluster c as its spec says.
Deployed(p, c) ==
    workload[c][PolicyKey(policies[p].spec)] = BuildPolicySpec(policies[p].spec)

Wanted(p) == {c \in Cluster : /\ clusters[c].present
                              /\ PolicyNamespace[c] = PolicyNamespace[p]
                              /\ clusters[c].label \in policies[p].spec.selector.matches}

\* A status is only written over the spec it was computed from, however late
\* the pass and however stale the copy it started with: Status().Update
\* carries the resourceVersion that Get returned.
StatusCurrent ==
    [][\A p \in Policy :
          /\ Exists(p) /\ Exists(p)'
          /\ policies'[p].status # policies[p].status
          => p = job.policy /\ policies[p].spec = job.spec /\ Live(p)]_vars

\* status.ready turns true only when every selected Cluster that still exists
\* has the policy with the present spec: any Cluster that is skipped or fails
\* clears allReady.  Holds if nobody else writes policies on the workload
\* clusters and no Cluster name is used twice (~Drifting, MaxUid = 1).
ReadyDeployed ==
    [][\A p \in Policy :
          ~policies[p].status.ready /\ policies'[p].status.ready =>
             /\ job.selected # {}
             /\ \A c \in job.selected : clusters[c].present => Deployed(p, c)]_vars

\* No policy is on a Cluster that is not annotated: the annotation is read
\* from a cache that is behind, and acted on several calls later.  Holds under
\* ~Drifting and MaxUid = 1.
InstalledFirst ==
    \A c \in Cluster, k \in Object : workload[c][k] # Absent => clusters[c].installed

\* A Cluster in a namespace without policies gets none (getMatchingClusters
\* lists InNamespace), under ~Drifting.
PolicyTenancy ==
    \A c \in Cluster :
        (\A p \in Policy : PolicyNamespace[p] # PolicyNamespace[c]) => workload[c] = Bare

\* Whatever users submit, what is stored can be deployed: it has a name, a
\* namespace where it needs one, a failure policy, and a second admission
\* changes nothing (Default is idempotent).
Deployable ==
    \A p \in Policy : Exists(p) =>
        LET s == policies[p].spec
        IN  /\ Empty \notin {PolicyKey(s)[i] : i \in DOMAIN PolicyKey(s)}
            /\ BuildPolicySpec(s).failurePolicy # Nil
            /\ Default(p, s) = s

\* The controller can deploy policy p on Cluster c.
Due(p, c) == /\ Live(p)
             /\ policies[p].spec.selector.valid
             /\ c \in Wanted(p)
             /\ Eligible(clusters[c])

\* A policy that stays wanted on an eligible Cluster gets there and comes
\* back, through failed calls, restarts, conflicts and changes by others
\* (every pass is followed by another: RequeueAfter, or the error's backoff).
SelfHealing ==
    \A p \in Policy, c \in Cluster : <>[]Due(p, c) => <>[](Due(p, c) /\ Deployed(p, c))

AllDue(p) == Live(p) /\ Wanted(p) # {} /\ \A c \in Wanted(p) : Due(p, c)
NotAllDue(p) == Live(p) /\ policies[p].spec.selector.valid /\ ~AllDue(p)

\* status.ready ends up saying whether all selected Clusters could be served.
ReadyConverges ==
    \A p \in Policy : /\ <>[]AllDue(p) => <>[]policies[p].status.ready
                      /\ <>[]NotAllDue(p) => <>[]~policies[p].status.ready

\* Policy p can be deployed on Cluster c, where its server enforces a policy
\* of that name, or does not.
Enforced(p, c) == Due(p, c) /\ served[c][PolicyKey(policies[p].spec)] # Absent
Unenforced(p, c) == Due(p, c) /\ served[c][PolicyKey(policies[p].spec)] = Absent

\* status.deployedPolicies ends up saying what the policy server does, although
\* it is read right after the write, too early for the server to have acted,
\* and no event comes when the server does act.
ActiveConverges ==
    \A p \in Policy, c \in Cluster :
        /\ <>[]Enforced(p, c) => <>[](<<c, TRUE>> \in policies[p].status.deployed)
        /\ <>[]Unenforced(p, c) => <>[](<<c, TRUE>> \notin policies[p].status.deployed)

(***************************************************************************)
(* What the docs say and the code does not do.                             *)
(***************************************************************************)
\* docs/local-development.md, on a deleted policy: "Should not exist".
PolicyRemoved ==
    /\ pc = "idle" /\ queue = {} /\ CacheSynced
    /\ \A p \in Policy : ~Exists(p) /\ ~Known(p)
    => workload = [c \in Cluster |-> Bare]
=============================================================================
