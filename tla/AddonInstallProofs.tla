------------------------- MODULE AddonInstallProofs ------------------------
(***************************************************************************)
(* The addon controller implements Install: a machine-checked refinement,  *)
(* for any set of Clusters, addons, objects and manifests, where no        *)
(* Cluster name is used twice.                                             *)
(***************************************************************************)
EXTENDS AddonControllerProofs

(***************************************************************************)
(* Stages.                                                                 *)
(***************************************************************************)
\* The stages are the namespace, the phases and the tolerations.
LEMMA StageCases ==
    /\ Stage = {0, Tolerations} \cup Phase
    /\ 0 \notin Phase /\ Tolerations \notin Phase /\ Tolerations # 0
    /\ \A p \in Phase : 0 < p /\ p < Tolerations
    /\ Stage \subseteq Nat
  BY DEF Stage, Tolerations, Phase, CRDs, DefaultsChart

\* What they create.
LEMMA ContentsOf ==
    /\ Contents[0] = {KubewardenNamespace}
    /\ Contents[Tolerations] = {}
    /\ \A p \in Phase : Contents[p] = ObjectsOf(p)
    /\ \A s \in Stage : Contents[s] \subseteq Object
  <1>1. Contents[0] = {KubewardenNamespace} /\ Contents[Tolerations] = {}
    BY StageCases DEF Contents
  <1>2. ASSUME NEW p \in Phase PROVE Contents[p] = ObjectsOf(p)
    BY StageCases DEF Contents
  <1>3. \A p \in Phase : ObjectsOf(p) \subseteq Object
    BY ObjectReadable
  <1> QED
    BY <1>1, <1>2, <1>3, StageCases, ManifestAssumption

\* Nothing of a stage is on a bare workload cluster.
BareSites == \A c \in Cluster :
    workload[c] = Bare /\ tolerant[c] = {} /\ clusters[c].installed = FALSE =>
        SiteOf(c) = [exists |-> clusters[c].present, marked |-> FALSE,
                     begun |-> {}, done |-> {}]

\* It is so now ...
LEMMA BareSite == BareSites
  <1> SUFFICES ASSUME NEW c \in Cluster, workload[c] = Bare, tolerant[c] = {},
                      clusters[c].installed = FALSE
               PROVE  SiteOf(c) = [exists |-> clusters[c].present, marked |-> FALSE,
                                   begun |-> {}, done |-> {}]
    BY DEF BareSites
  <1>1. ASSUME NEW o \in Object PROVE ~OnWorkload(c, o)
    BY DEF OnWorkload, Bare
  <1>2. \A s \in Stage : ~StageBegun(c, s) /\ ~StageDone(c, s)
    BY <1>1, ContentsOf, ManifestAssumption DEF StageBegun, StageDone
  <1> QED
    BY <1>2 DEF SiteOf

\* ... and after the step.
LEMMA BareSiteNext == BareSites'
  BY BareSite, PTL

\* A Cluster of which nothing changes is the same site.
LEMMA SameSite ==
    ASSUME NEW c \in Cluster, workload'[c] = workload[c], tolerant'[c] = tolerant[c],
           clusters'[c].present = clusters[c].present,
           clusters'[c].installed = clusters[c].installed
    PROVE  SiteOf(c)' = SiteOf(c)
  <1>1. \A o : OnWorkload(c, o)' <=> OnWorkload(c, o)
    BY DEF OnWorkload
  <1>2. \A s \in Stage : /\ StageBegun(c, s)' <=> StageBegun(c, s)
                         /\ StageDone(c, s)' <=> StageDone(c, s)
    BY <1>1 DEF StageBegun, StageDone
  <1> QED
    BY <1>2 DEF SiteOf

(***************************************************************************)
(* What the refinement needs besides InstallInv and AnnotationSound.       *)
(***************************************************************************)
\* A workload cluster goes with its Cluster.
Swept == \A c \in Cluster : ~clusters[c].present =>
    workload[c] = Bare /\ tolerant[c] = {} /\ ~clusters[c].installed

\* The namespace and all objects are on Cluster c.
AllCreated(c) ==
    /\ OnWorkload(c, KubewardenNamespace)
    /\ \A p \in Phase : \A o \in ObjectsOf(p) : OnWorkload(c, o)

\* Tolerations are patched when everything has been created.
TolerantLast == \A c \in Cluster : tolerant[c] # {} => AllCreated(c)

\* A pass that patches tolerations has created everything.
LEMMA CreatedWhenTolerating ==
    ASSUME InstallInv, pc \in Tolerating, Remote
    PROVE  job.cluster \in Cluster /\ AllCreated(job.cluster)
  <1> USE DEF InstallInv
  <1>1. job.cluster \in Cluster /\ job.file \in Nat /\ job.doc \in Nat
    BY JobFields DEF TypeOK, Tolerating
  <1>2. DoneBefore(job.cluster, job.phase, job.file, job.doc)
    BY DEF Progress, Installing
  <1>3. /\ job.phase = DefaultsChart /\ DefaultsChart \in Phase
        /\ job.file >= 1 /\ job.file \notin DOMAIN Manifests[job.phase]
    BY DEF Place, Files, Phase, CRDs, DefaultsChart
  <1>4. ASSUME NEW p \in Phase, NEW o \in ObjectsOf(p) PROVE OnWorkload(job.cluster, o)
    <2>1. CASE p = DefaultsChart
      BY <1>1, <1>2, <1>3, <1>4, <2>1, DonePhase
    <2>2. CASE p # DefaultsChart
      <3>1. p < DefaultsChart
        BY <2>2 DEF Phase, CRDs, DefaultsChart
      <3> QED
        BY <1>2, <1>3, <3>1 DEF DoneBefore
    <2> QED
      BY <2>1, <2>2
  <1> QED
    BY <1>1, <1>2, <1>4 DEF AllCreated, DoneBefore

\* Only the Cluster in hand is touched, only while it is there, and tolerations
\* are patched by a pass at that place only.
LEMMA InstallTouches ==
    ASSUME TypeOK, Install, NEW c \in Cluster
    PROVE  /\ \/ workload'[c] = workload[c] /\ tolerant'[c] = tolerant[c]
              \/ c = job.cluster /\ Remote /\ clusters[c].present
           /\ \/ tolerant'[c] = tolerant[c]
              \/ c = job.cluster /\ Remote /\ pc \in Tolerating
  <1>1. CASE c # job.cluster
    BY <1>1, InstallElsewhere
  <1>2. CASE c = job.cluster
    <2>1. \/ workload' = workload /\ tolerant' = tolerant
          \/ Remote /\ tolerant' = tolerant
          \/ Remote /\ workload' = workload /\ pc \in Tolerating
      BY DEF Install, CreateNamespace, DownloadCRDs, RenderHelmChart, ApplyDocument,
             EndOfManifest, EndOfPhase, PatchDeployment, PatchPolicyServer,
             PatchAuditScanner, AnnotateCluster, fleetVars, Tolerating
    <2> QED
      BY <1>2, <2>1 DEF Remote, Reaches
  <1> QED
    BY <1>1, <1>2

\* What was created stays created while nothing is taken away.
LEMMA CreatedStays ==
    ASSUME NEW c \in Cluster, AllCreated(c),
           \A x \in Object : OnWorkload(c, x) => OnWorkload(c, x)'
    PROVE  AllCreated(c)'
  BY ObjectReadable, ManifestAssumption DEF AllCreated

\* What a deleted Cluster leaves behind stays as it is: nothing.
LEMMA SweptStep == InstallInv /\ Swept /\ [Next]_vars => Swept'
  <1> SUFFICES ASSUME InstallInv, Swept, [Next]_vars, NEW c \in Cluster, ~clusters'[c].present
               PROVE  workload'[c] = Bare /\ tolerant'[c] = {} /\ ~clusters'[c].installed
    BY DEF Swept
  <1>0. TypeOK
    BY DEF InstallInv
  <1>1. CASE Unrelated \/ Elsewhere \/ \E k \in Cluster : Connect(k)
    BY <1>1 DEF Unrelated, Elsewhere, Connect, fleetVars, Swept
  <1>2. ASSUME NEW k \in Cluster, FleetOnly(k)
        PROVE  workload'[c] = Bare /\ tolerant'[c] = {} /\ ~clusters'[c].installed
    <2>1. Deleted(c) \/ Created(c) \/ Kept(c)
      BY <1>0, <1>2, FleetStepEffect DEF FleetOnly, TypeOK
    <2> QED
      BY <2>1 DEF Deleted, Created, Kept, Swept
  <1>3. CASE Install
    <2>1. ~clusters[c].present /\ (clusters'[c].installed => clusters[c].installed)
      <3>1. CASE AnnotateCluster
        <4>1. clusters[job.cluster].present
          BY <3>1 DEF AnnotateCluster
        <4> QED
          BY <1>0, <3>1, <4>1, AnnotateEffect
      <3>2. CASE ~AnnotateCluster
        BY <1>0, <1>3, <3>2, InstallKeeps
      <3> QED
        BY <3>1, <3>2
    <2> QED
      BY <1>0, <1>3, <2>1, InstallTouches DEF Swept
  <1> QED
    BY <1>0, <1>1, <1>2, <1>3, StepCases

\* Tolerations come after everything that is created, in every step.
LEMMA TolerantLastStep == InstallInv /\ Swept /\ TolerantLast /\ [Next]_vars => TolerantLast'
  <1> SUFFICES ASSUME InstallInv, Swept, TolerantLast, [Next]_vars,
                      NEW c \in Cluster, tolerant'[c] # {}
               PROVE  AllCreated(c)'
    BY DEF TolerantLast
  <1>0. TypeOK
    BY DEF InstallInv
  <1>1. CASE Unrelated \/ Elsewhere \/ \E k \in Cluster : Connect(k)
    <2>1. workload' = workload /\ tolerant' = tolerant
      BY <1>1 DEF Unrelated, Elsewhere, Connect, fleetVars
    <2> QED
      BY <2>1, CreatedStays DEF TolerantLast, OnWorkload
  <1>2. ASSUME NEW k \in Cluster, FleetOnly(k) PROVE AllCreated(c)'
    <2>1. Deleted(c) \/ Created(c) \/ Kept(c)
      BY <1>0, <1>2, FleetStepEffect DEF FleetOnly, TypeOK
    <2>2. workload'[c] = workload[c] /\ tolerant'[c] = tolerant[c]
      BY <2>1 DEF Deleted, Created, Kept
    <2> QED
      BY <2>2, CreatedStays DEF TolerantLast, OnWorkload
  <1>3. CASE Install
    <2>1. AllCreated(c)
      <3>1. CASE tolerant'[c] = tolerant[c]
        BY <3>1 DEF TolerantLast
      <3>2. CASE c = job.cluster /\ Remote /\ pc \in Tolerating
        BY <3>2, CreatedWhenTolerating
      <3> QED
        BY <1>0, <1>3, <3>1, <3>2, InstallTouches
    <2> QED
      BY <1>0, <1>3, <2>1, CreatedStays, InstallGrows
  <1> QED
    BY <1>0, <1>1, <1>2, <1>3, StepCases

(***************************************************************************)
(* Sites.                                                                  *)
(***************************************************************************)
\* A site that appears.
LEMMA FreshSite ==
    Promise!Fresh = [exists |-> TRUE, marked |-> FALSE, begun |-> {}, done |-> {}]
  <1>1. PICK t, u : t = TRUE /\ u = FALSE
    OBVIOUS
  <1>2. [[exists |-> u, marked |-> u, begun |-> {}, done |-> {}] EXCEPT !.exists = t]
           = [exists |-> t, marked |-> u, begun |-> {}, done |-> {}]
    OBVIOUS
  <1> QED
    BY <1>1, <1>2 DEF Promise!Fresh, Promise!Nothing

(***************************************************************************)
(* The refinement, Cluster by Cluster.                                     *)
(***************************************************************************)
\* The stages begun are begun in order.
Ordered == InstallOrder /\ TolerantLast =>
    \A c \in Cluster : Promise!InOrder(SiteOf(c).begun, SiteOf(c).done)

\* It is so now ...
LEMMA BegunInOrder == Ordered
  <1> SUFFICES ASSUME InstallOrder, TolerantLast, NEW c \in Cluster,
                      NEW s \in Stage, StageBegun(c, s), NEW q \in Stage, q < s
               PROVE  StageDone(c, q)
    BY DEF Ordered, Promise!InOrder, SiteOf
  <1>1. q = 0 \/ q \in Phase
    BY StageCases DEF Stage
  <1>2. CASE s = Tolerations
    <2>1. AllCreated(c)
      BY <1>2, ContentsOf DEF StageBegun, TolerantLast
    <2> QED
      BY <1>1, <2>1, ContentsOf, StageCases DEF StageDone, AllCreated
  <1>3. CASE s \in Phase
    <2>1. \E o \in ObjectsOf(s) : OnWorkload(c, o)
      BY <1>3, ContentsOf, StageCases DEF StageBegun
    <2>2. /\ OnWorkload(c, KubewardenNamespace)
          /\ \A r \in Phase : r < s => \A o \in ObjectsOf(r) : OnWorkload(c, o)
      BY <1>3, <2>1 DEF InstallOrder
    <2> QED
      BY <1>1, <2>2, ContentsOf, StageCases DEF StageDone
  <1>4. s # 0
    BY StageCases DEF Stage
  <1> QED
    BY <1>2, <1>3, <1>4, StageCases

\* ... and after the step.
LEMMA BegunInOrderNext == Ordered'
  BY BegunInOrder, PTL

\* A step that takes nothing away undoes no stage.
LEMMA StagesGrow ==
    ASSUME NEW c \in Cluster,
           \A x \in Object : OnWorkload(c, x) => OnWorkload(c, x)',
           tolerant[c] \subseteq tolerant'[c]
    PROVE  SiteOf(c).begun \subseteq SiteOf(c)'.begun /\ SiteOf(c).done \subseteq SiteOf(c)'.done
  <1>1. ASSUME NEW s \in Stage
        PROVE  /\ StageBegun(c, s) => StageBegun(c, s)'
               /\ StageDone(c, s) => StageDone(c, s)'
    <2>1. Contents[s] \subseteq Object /\ KubewardenNamespace \in Object
      BY ContentsOf, ManifestAssumption
    <2> QED
      BY <2>1 DEF StageBegun, StageDone
  <1> QED
    BY <1>1 DEF SiteOf

\* What is complete is done.
LEMMA CompleteDone ==
    ASSUME NEW c \in Cluster, Complete(c) PROVE SiteOf(c).done = Stage
  <1>1. ASSUME NEW s \in Stage PROVE StageDone(c, s)
    BY ContentsOf, StageCases DEF Complete, StageDone
  <1> QED
    BY <1>1 DEF SiteOf

\* All that the refinement needs to know of a state.
RefinementInv == InstallInv /\ AnnotationSound /\ Swept /\ TolerantLast

\* Every step keeps it (MaxUid = 1).
LEMMA RefinementInvStep ==
    ASSUME MaxUid = 1, RefinementInv, [Next]_vars PROVE RefinementInv'
  BY InstallInvStep, AnnotationStep, SweptStep, TolerantLastStep DEF RefinementInv

\* It holds initially, and initial states map to initial states of Install.
LEMMA RefinementInit == Init => RefinementInv /\ Promise!Init
  <1> SUFFICES ASSUME Init PROVE RefinementInv /\ Promise!Init
    OBVIOUS
  <1>1. ASSUME NEW c \in Cluster
        PROVE  /\ workload[c] = Bare /\ tolerant[c] = {} /\ ~clusters[c].installed
               /\ clusters[c].present \in BOOLEAN /\ clusters[c].installed \in BOOLEAN
    <2>1. clusters[c] = Gone(0) \/ clusters[c] \in Unmarked
      BY DEF Init, FleetInit
    <2>2. ~Gone(0).installed
      BY DEF Gone
    <2>3. \A x \in Unmarked : ~x.installed
      BY DEF Unmarked
    <2>4. clusters[c].present \in BOOLEAN /\ clusters[c].installed \in BOOLEAN
      BY InitType DEF TypeOK, FleetTypeOK, ClusterRecord
    <2> QED
      BY <2>1, <2>2, <2>3, <2>4 DEF Init, FleetInit
  <1>2. Swept /\ TolerantLast
    BY <1>1 DEF Swept, TolerantLast
  <1>3. ASSUME NEW c \in Cluster PROVE SiteOf(c) \in {Promise!Nothing, Promise!Fresh}
    <2>1. SiteOf(c) = [exists |-> clusters[c].present, marked |-> FALSE,
                       begun |-> {}, done |-> {}]
      BY <1>1, BareSite DEF BareSites
    <2>2. CASE clusters[c].present = TRUE
      BY <2>1, <2>2, FreshSite
    <2>3. CASE clusters[c].present = FALSE
      BY <2>1, <2>3 DEF Promise!Nothing
    <2> QED
      BY <1>1, <2>2, <2>3
  <1> QED
    BY <1>2, <1>3, InstallInvInit, AnnotationInit DEF RefinementInv, Promise!Init

\* Every step is, for every Cluster, a move of the promise or none.
LEMMA RefinementMove ==
    ASSUME MaxUid = 1, RefinementInv, [Next]_vars, NEW c \in Cluster
    PROVE  SiteOf(c)' = SiteOf(c) \/ Promise!Moves(SiteOf(c), SiteOf(c)')
  <1>0. TypeOK /\ TypeOK' /\ RefinementInv'
    BY RefinementInvStep DEF RefinementInv, InstallInv
  <1>1. /\ clusters[c].present \in BOOLEAN /\ clusters[c].installed \in BOOLEAN
        /\ clusters'[c].present \in BOOLEAN /\ clusters'[c].installed \in BOOLEAN
    BY <1>0 DEF TypeOK, FleetTypeOK, ClusterRecord
  <1>2. CASE Unrelated \/ Elsewhere \/ \E k \in Cluster : Connect(k)
    BY <1>2, SameSite DEF Unrelated, Elsewhere, Connect, fleetVars
  <1>3. ASSUME NEW k \in Cluster, FleetOnly(k)
        PROVE  SiteOf(c)' = SiteOf(c) \/ Promise!Moves(SiteOf(c), SiteOf(c)')
    <2>1. CASE Deleted(c)
      <3>1. clusters'[c].present = FALSE /\ clusters'[c].installed = FALSE
        BY <1>1, <2>1 DEF Deleted
      <3>2. SiteOf(c)' = [exists |-> clusters'[c].present, marked |-> FALSE,
                          begun |-> {}, done |-> {}]
        BY <2>1, <3>1, BareSiteNext DEF Deleted, BareSites
      <3>3. SiteOf(c)' = Promise!Nothing
        BY <3>1, <3>2 DEF Promise!Nothing
      <3>4. SiteOf(c).exists
        BY <2>1 DEF Deleted, SiteOf
      <3> QED
        BY <3>3, <3>4 DEF Promise!Vanish, Promise!Moves
    <2>2. CASE Created(c)
      <3>1. /\ workload[c] = Bare /\ tolerant[c] = {} /\ clusters[c].installed = FALSE
            /\ workload'[c] = Bare /\ tolerant'[c] = {} /\ clusters'[c].installed = FALSE
            /\ clusters[c].present = FALSE /\ clusters'[c].present = TRUE
        BY <1>1, <2>2 DEF Created, RefinementInv, Swept
      <3>2. SiteOf(c) = [exists |-> FALSE, marked |-> FALSE, begun |-> {}, done |-> {}]
        BY <3>1, BareSite DEF BareSites
      <3>3. SiteOf(c)' = [exists |-> TRUE, marked |-> FALSE, begun |-> {}, done |-> {}]
        BY <3>1, BareSiteNext DEF BareSites
      <3>4. SiteOf(c) = Promise!Nothing /\ SiteOf(c)' = Promise!Fresh
        BY <3>2, <3>3, FreshSite DEF Promise!Nothing
      <3> QED
        BY <3>4 DEF Promise!Appear, Promise!Moves
    <2>3. CASE Kept(c)
      BY <2>3, SameSite DEF Kept
    <2> QED
      BY <1>0, <1>3, <2>1, <2>2, <2>3, FleetStepEffect DEF FleetOnly, TypeOK
  <1>4. CASE AnnotateCluster
    <2>1. workload' = workload /\ tolerant' = tolerant
      BY <1>4 DEF AnnotateCluster
    <2>2. CASE c = job.cluster
      <3>1. /\ clusters[c].present /\ clusters'[c].present = clusters[c].present
            /\ clusters'[c].installed = TRUE
        BY <1>0, <1>1, <1>4, <2>2, AnnotateEffect DEF AnnotateCluster
      <3>2. SiteOf(c).done = Stage
        BY <1>4, <2>2, CompleteAtAnnotation, CompleteDone DEF RefinementInv
      <3>3. \A s \in Stage : /\ StageBegun(c, s)' <=> StageBegun(c, s)
                             /\ StageDone(c, s)' <=> StageDone(c, s)
        BY <2>1 DEF StageBegun, StageDone, OnWorkload
      <3>4. SiteOf(c)' = [SiteOf(c) EXCEPT !.marked = TRUE]
        <4>1. /\ {s \in Stage : StageBegun(c, s)'} = {s \in Stage : StageBegun(c, s)}
              /\ {s \in Stage : StageDone(c, s)'} = {s \in Stage : StageDone(c, s)}
          BY <3>3
        <4>2. PICK e, m, b, d : /\ e = clusters[c].present /\ m = clusters[c].installed
                                /\ b = {s \in Stage : StageBegun(c, s)}
                                /\ d = {s \in Stage : StageDone(c, s)}
          OBVIOUS
        <4>3. SiteOf(c) = [exists |-> e, marked |-> m, begun |-> b, done |-> d]
          BY <4>2 DEF SiteOf
        <4>4. SiteOf(c)' = [exists |-> e, marked |-> TRUE, begun |-> b, done |-> d]
          BY <3>1, <4>1, <4>2 DEF SiteOf
        <4>5. [[exists |-> e, marked |-> m, begun |-> b, done |-> d] EXCEPT !.marked = TRUE]
                 = [exists |-> e, marked |-> TRUE, begun |-> b, done |-> d]
          <5>1. PICK t : t = TRUE
            OBVIOUS
          <5>2. [[exists |-> e, marked |-> m, begun |-> b, done |-> d] EXCEPT !.marked = t]
                   = [exists |-> e, marked |-> t, begun |-> b, done |-> d]
            OBVIOUS
          <5> QED
            BY <5>1, <5>2
        <4> QED
          BY <4>3, <4>4, <4>5
      <3>5. SiteOf(c).exists
        BY <3>1 DEF SiteOf
      <3> QED
        BY <3>2, <3>4, <3>5 DEF Promise!Mark, Promise!Moves
    <2>3. CASE c # job.cluster
      <3>1. clusters'[c].present = clusters[c].present
            /\ clusters'[c].installed = clusters[c].installed
        BY <1>0, <1>1, <1>4, <2>3, AnnotateEffect
      <3> QED
        BY <2>1, <3>1, SameSite
    <2> QED
      BY <2>2, <2>3
  <1>5. CASE Install /\ ~AnnotateCluster
    <2>1. clusters' = clusters
      BY <1>0, <1>5, InstallKeeps
    <2>2. CASE workload'[c] = workload[c] /\ tolerant'[c] = tolerant[c]
      BY <2>1, <2>2, SameSite
    <2>3. CASE clusters[c].present
      <3>1. Promise!InOrder(SiteOf(c)'.begun, SiteOf(c)'.done)
        <4>1. InstallOrder' /\ TolerantLast'
          BY <1>0 DEF RefinementInv, InstallInv
        <4> QED
          BY <4>1, BegunInOrderNext DEF Ordered
      <3>2. SiteOf(c).begun \subseteq SiteOf(c)'.begun /\ SiteOf(c).done \subseteq SiteOf(c)'.done
        BY <1>0, <1>5, StagesGrow, InstallGrows
      <3>3. SiteOf(c).exists /\ SiteOf(c)'.exists /\ SiteOf(c)'.marked = SiteOf(c).marked
        BY <2>1, <2>3 DEF SiteOf
      <3>4. SiteOf(c)' \in Promise!Site
        BY <1>1 DEF SiteOf, Promise!Site
      <3> QED
        BY <3>1, <3>2, <3>3, <3>4 DEF Promise!Work, Promise!Moves
    <2> QED
      BY <1>0, <1>5, <2>2, <2>3, InstallTouches
  <1> QED
    BY <1>0, <1>2, <1>3, <1>4, <1>5, StepCases

\* The controller keeps the promise of Install: on every Cluster the stages are
\* begun in order, nothing is undone while the Cluster exists, and the mark
\* comes last, whatever fails, restarts and changes in between.
THEOREM ImplementsInstallHolds == ASSUME MaxUid = 1 PROVE Spec => ImplementsInstall
  <1>1. Init => RefinementInv /\ Promise!Init
    BY RefinementInit
  <1>2. RefinementInv /\ [Next]_vars => RefinementInv'
    BY RefinementInvStep
  <1>3. RefinementInv /\ [Next]_vars => Promise!Next
    BY RefinementMove DEF Promise!Next
  <1> QED
    BY <1>1, <1>2, <1>3, PTL DEF Spec, ImplementsInstall, Promise!Spec
=============================================================================
