---------------------------- MODULE FleetProofs ----------------------------
(***************************************************************************)
(* Facts about Fleet that the proofs about both controllers rest on.       *)
(***************************************************************************)
EXTENDS Fleet, TLAPS

\* The records Cluster API starts from and leaves behind are Cluster records.
LEMMA GoneType == ASSUME NEW u \in 0..MaxUid PROVE Gone(u) \in ClusterRecord
  <1>1. (CHOOSE l \in Label : TRUE) \in Label
    BY FleetAssumption
  <1> QED
    BY <1>1 DEF Gone, ClusterRecord

\* The fleet the provider is deployed to is well typed.
LEMMA FleetInitType == FleetInit => FleetTypeOK
  <1> SUFFICES ASSUME FleetInit PROVE FleetTypeOK
    OBVIOUS
  <1>1. Gone(0) \in ClusterRecord
    BY GoneType, FleetAssumption
  <1>2. Unmarked \subseteq ClusterRecord
    <2>1. 1 \in 0..MaxUid /\ {TRUE} \subseteq BOOLEAN /\ {FALSE} \subseteq BOOLEAN
      BY FleetAssumption
    <2> QED
      BY <2>1, Zenon DEF Unmarked, ClusterRecord
  <1>3. clusters \in [Cluster -> ClusterRecord]
    BY <1>1, <1>2 DEF FleetInit
  <1> QED
    BY <1>3, FleetAssumption DEF FleetInit, FleetTypeOK, Bare

\* An edit stays within its bound.
LEMMA EditType == edits \in 0..MaxEdits /\ Edit => edits' \in 0..MaxEdits
  BY FleetAssumption DEF Edit

\* Marking a Cluster changes its mark and nothing else of it.
LEMMA MarkRecord ==
    ASSUME NEW r \in ClusterRecord
    PROVE  LET m == [r EXCEPT !.installed = TRUE] IN
           /\ m \in ClusterRecord
           /\ m.present = r.present /\ m.uid = r.uid /\ m.label = r.label
           /\ m.cpReady = r.cpReady /\ m.cpCond = r.cpCond /\ m.installed
  <1>1. [r EXCEPT !.installed = TRUE] \in ClusterRecord
    BY Zenon DEF ClusterRecord
  <1> QED
    BY <1>1 DEF ClusterRecord

\* What a step of the users or of Cluster API does to Cluster k: it deletes it
\* with all that is on it, creates it anew, or leaves alone what the provider
\* put there and wrote on it.
Deleted(k) ==
    /\ clusters[k].present
    /\ clusters'[k] = Gone(clusters[k].uid)
    /\ ~clusters'[k].present /\ ~clusters'[k].installed
    /\ clusters'[k].uid = clusters[k].uid
    /\ workload'[k] = Bare /\ tolerant'[k] = {}

\* Cluster k is created: a new incarnation; what the name had on it is as before.
Created(k) ==
    /\ ~clusters[k].present /\ clusters'[k].present /\ ~clusters'[k].installed
    /\ clusters[k].uid < MaxUid
    /\ clusters'[k].uid = clusters[k].uid + 1
    /\ workload'[k] = workload[k] /\ tolerant'[k] = tolerant[k]

\* Cluster k stays the incarnation it is.
Kept(k) ==
    /\ clusters'[k].present = clusters[k].present
    /\ clusters'[k].installed = clusters[k].installed
    /\ clusters'[k].uid = clusters[k].uid
    /\ workload'[k] = workload[k] /\ tolerant'[k] = tolerant[k]

\* Every step of the fleet is one of the three for every Cluster, and keeps
\* the state well typed.
LEMMA FleetStepEffect ==
    ASSUME FleetTypeOK, NEW c \in Cluster, FleetStep(c)
    PROVE  /\ FleetTypeOK'
           /\ cache' = cache
           /\ \A k \in Cluster : Deleted(k) \/ Created(k) \/ Kept(k)
  <1>1. /\ clusters \in [Cluster -> ClusterRecord] /\ clusters[c] \in ClusterRecord
        /\ clusters[c].uid \in 0..MaxUid
        /\ workload \in [Cluster -> [Object -> Version \cup {Absent, Unversioned}]]
        /\ tolerant \in [Cluster -> SUBSET Object]
    BY DEF FleetTypeOK, ClusterRecord
  <1>2. edits' \in 0..MaxEdits /\ cache' = cache
    BY EditType DEF FleetTypeOK, FleetStep, CreateCluster, DeleteCluster, Relabel,
                    ControlPlaneChanges
  <1>3. ASSUME NEW r \in ClusterRecord, clusters' = [clusters EXCEPT ![c] = r],
               r.present = clusters[c].present, r.uid = clusters[c].uid,
               r.installed = clusters[c].installed, UNCHANGED <<cache, workload, tolerant>>
        PROVE  FleetTypeOK' /\ \A k \in Cluster : Kept(k)
    BY <1>1, <1>2, <1>3 DEF FleetTypeOK, Kept
  <1>4. CASE CreateCluster(c)
    <2>1. PICK l \in Label : clusters' = [clusters EXCEPT ![c] =
             [present |-> TRUE, uid |-> clusters[c].uid + 1, label |-> l,
              cpReady |-> FALSE, cpCond |-> FALSE, installed |-> FALSE]]
      BY <1>4 DEF CreateCluster
    <2>2. clusters[c].uid < MaxUid /\ clusters[c].uid + 1 \in 0..MaxUid
      BY <1>1, <1>4, FleetAssumption DEF CreateCluster
    <2>3. clusters' \in [Cluster -> ClusterRecord]
      BY <1>1, <2>1, <2>2 DEF ClusterRecord
    <2>4. Created(c)
      BY <1>1, <1>4, <2>1, <2>2 DEF CreateCluster, Created
    <2>5. \A k \in Cluster \ {c} : Kept(k)
      BY <1>1, <1>4, <2>1 DEF CreateCluster, Kept
    <2> QED
      BY <1>1, <1>2, <1>4, <2>3, <2>4, <2>5 DEF CreateCluster, FleetTypeOK
  <1>5. CASE DeleteCluster(c)
    <2>1. Gone(clusters[c].uid) \in ClusterRecord
      BY <1>1, GoneType
    <2>2. Deleted(c)
      BY <1>1, <1>5 DEF DeleteCluster, Deleted, Gone
    <2>3. \A k \in Cluster \ {c} : Kept(k)
      BY <1>1, <1>5 DEF DeleteCluster, Kept
    <2> QED
      BY <1>1, <1>2, <1>5, <2>1, <2>2, <2>3 DEF DeleteCluster, FleetTypeOK, Bare
  <1>6. CASE Relabel(c)
    <2>1. PICK l \in Label :
             clusters' = [clusters EXCEPT ![c] = [clusters[c] EXCEPT !.label = l]]
      BY <1>6 DEF Relabel
    <2>2. [clusters[c] EXCEPT !.label = l] \in ClusterRecord
      BY <1>1, Zenon DEF ClusterRecord
    <2>3. /\ [clusters[c] EXCEPT !.label = l].present = clusters[c].present
          /\ [clusters[c] EXCEPT !.label = l].uid = clusters[c].uid
          /\ [clusters[c] EXCEPT !.label = l].installed = clusters[c].installed
      BY <1>1, Zenon DEF ClusterRecord
    <2> QED
      BY <1>2, <1>3, <1>6, <2>1, <2>2, <2>3 DEF Relabel
  <1>7. CASE ControlPlaneChanges(c)
    <2>1. PICK r, s \in BOOLEAN : clusters' = [clusters EXCEPT ![c] =
             [clusters[c] EXCEPT !.cpReady = r, !.cpCond = s]]
      BY <1>7 DEF ControlPlaneChanges
    <2>2. [clusters[c] EXCEPT !.cpReady = r, !.cpCond = s] \in ClusterRecord
      BY <1>1, Zenon DEF ClusterRecord
    <2>3. /\ [clusters[c] EXCEPT !.cpReady = r, !.cpCond = s].present = clusters[c].present
          /\ [clusters[c] EXCEPT !.cpReady = r, !.cpCond = s].uid = clusters[c].uid
          /\ [clusters[c] EXCEPT !.cpReady = r, !.cpCond = s].installed = clusters[c].installed
      BY <1>1, Zenon DEF ClusterRecord
    <2> QED
      BY <1>2, <1>3, <1>7, <2>1, <2>2, <2>3 DEF ControlPlaneChanges
  <1> QED
    BY <1>2, <1>4, <1>5, <1>6, <1>7 DEF FleetStep
=============================================================================
