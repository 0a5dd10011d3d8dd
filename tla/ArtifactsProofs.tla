-------------------------- MODULE ArtifactsProofs --------------------------
(***************************************************************************)
(* Machine-checked proofs about Artifacts, for any archives and charts and *)
(* any number of attempts and faults.                                      *)
(***************************************************************************)
EXTENDS Artifacts, FiniteSetTheorems, WellFoundedInduction, TLAPS

(***************************************************************************)
(* What is true between any two steps.                                     *)
(***************************************************************************)
\* The two phases that come from a chart.
ChartPhase == {ControllerChart, DefaultsChart}

\* Every variable has its type, and the local ones have their use.
Types ==
    /\ archive \in Seq(Entry)
    /\ charts \in [ChartPhase -> Seq(Document)] /\ used \in [ChartPhase -> Seq(Document)]
    /\ \A p \in ChartPhase : charts[p] \in offered
    /\ attempt \in Nat /\ faults \in Nat
    /\ phase \in {CRDs} \cup ChartPhase
    /\ pc \in {"idle", "download", "open", "unpack", "files", "apply", "render", "done"}
    /\ pc \in {"idle", "download", "open", "unpack"} => phase = CRDs
    /\ pc = "render" => phase \in ChartPhase
    /\ pc = "done" => phase = DefaultsChart
    /\ pc \in {"download", "open", "unpack", "files", "apply", "render"} => attempt >= 1
    /\ entry \in Nat /\ entry >= 1
    /\ \A n \in DOMAIN unpacked : n \in Nat /\ unpacked[n] \in Seq(Document)
    /\ todo \subseteq Glob
    /\ manifest \in Seq(Document)

\* The archive's files are being applied.
ApplyingFiles == phase = CRDs /\ pc \in {"files", "apply"}

\* Entry e is the last one before the next that is a file of name n.
LastOf(e, n) ==
    /\ e < entry /\ archive[e].kind = "flat" /\ archive[e].name = n
    /\ \A k \in DOMAIN archive :
          e < k /\ k < entry /\ archive[k].kind = "flat" => archive[k].name # n

\* The directory holds the last file of each name among the entries unpacked,
\* and none of these was in a directory of the archive.
Unpacked ==
    /\ pc \in {"idle", "download", "open"} => entry = 1 /\ unpacked = NoFiles
    /\ pc = "unpack" \/ ApplyingFiles =>
          /\ \A e \in DOMAIN archive : e < entry =>
                /\ archive[e].kind # "nested"
                /\ archive[e].kind = "flat" => archive[e].name \in DOMAIN unpacked
          /\ \A n \in DOMAIN unpacked : \E e \in DOMAIN archive :
                LastOf(e, n) /\ unpacked[n] = archive[e].docs
    /\ ApplyingFiles => entry \notin DOMAIN archive
    /\ pc \in {"files", "apply", "render", "done"} => Flat
    /\ created # {} => Flat
    /\ todo # {} => ApplyingFiles

\* The documents before the first null one: all that applyManifest reads.
Leading(docs) == {d \in DOMAIN docs : \A e \in 1..d : docs[e] # NullDoc}

\* All that is read of docs is on the workload cluster, and is an object.
Applied(docs) == \A d \in Leading(docs) : docs[d] \in created \cap Object

\* What is left of docs is in hand; the documents before it are applied.
Rest(docs) ==
    \E k \in Nat :
        /\ Len(docs) = k + Len(manifest)
        /\ \A i \in 1..Len(manifest) : manifest[i] = docs[k + i]
        /\ \A i \in 1..k : docs[i] \in created \cap Object

\* What the attempt has been through is applied, and nothing is there that
\* was not on offer.
AppliedSoFar ==
    /\ created \subseteq OnOffer \cap Object
    /\ phase = CRDs /\ pc = "files" => \A n \in Glob \ todo : Applied(unpacked[n])
    /\ phase = CRDs /\ pc = "apply" =>
          \E n \in Glob \ todo :
             Rest(unpacked[n]) /\ \A m \in (Glob \ todo) \ {n} : Applied(unpacked[m])
    /\ phase \in ChartPhase => \A e \in Final : Applied(archive[e].docs)
    /\ phase \in ChartPhase /\ pc = "apply" => used[phase] \in offered /\ Rest(used[phase])
    /\ phase \in ChartPhase /\ pc \in {"files", "done"} => Applied(used[phase])
    /\ phase = DefaultsChart => Applied(used[ControllerChart])

\* While the archive is at hand the attempt's own tarball and directory are
\* still to be removed.
Pending == pc \in {"download", "open", "unpack"} \/ ApplyingFiles

\* Of the kinds in w, the files on disk that nobody will remove.
Left(w) == {f \in disk : f[2] \in w} \ (IF Pending THEN {Tarball, Directory} ELSE {})

\* What a temporary file can be.
Kind == {"tarball", "directory", "controller", "defaults"}

\* How many of the two rendered files of this attempt there can be.
RenderedFiles ==
    (IF phase = DefaultsChart THEN 1 ELSE 0)
        + (IF phase # CRDs /\ pc # "render" THEN 1 ELSE 0)

\* A temporary name is never used by two attempts: MkdirTemp and CreateTemp
\* make fresh ones.
Fresh ==
    /\ disk \subseteq (Nat \X Kind) /\ IsFiniteSet(disk)
    /\ \A f \in disk : f[1] <= attempt
    /\ pc \in {"download", "open"} => Directory \notin disk

\* What is left on the disk is accounted for.
Accounts ==
    /\ Cardinality(Left({"tarball"})) <= faults
    /\ Flat => Cardinality(Left({"tarball", "directory"})) <= faults
    /\ Cardinality(Left(Kind)) <=
          faults + 2 * (IF pc = "idle" THEN attempt ELSE attempt - 1) + RenderedFiles

(***************************************************************************)
(* Types.                                                                  *)
(***************************************************************************)
\* The order by which First chooses.
Less == {pair \in Nat \X Nat : pair[1] < pair[2]}

\* The numbers are well-founded.
LEMMA LessWellFounded == IsWellFoundedOn(Less, Nat)
  <1>1. Less = OpToRel(<, Nat)
    BY Zenon DEF Less, OpToRel
  <1> QED
    BY <1>1, NatLessThanWellFounded, Zenon

\* The loop over the files always finds a next one.
LEMMA FirstIn == ASSUME NEW names \in SUBSET Nat, names # {} PROVE First(names) \in names
  <1>1. PICK n \in names : \A k \in names : ~(<<k, n>> \in Less)
    BY WFMin, LessWellFounded, Zenon
  <1>2. \A k \in names : ~(k < n)
    BY <1>1 DEF Less
  <1>3. \A k \in names : n <= k
    BY <1>2
  <1> QED
    BY <1>3 DEF First

\* Every step keeps the state well typed.
LEMMA TypesStep == Types /\ [Next]_vars => Types'
  <1> SUFFICES ASSUME Types, [Next]_vars PROVE Types'
    OBVIOUS
  <1> USE DEF published, Glob, ChartPhase, CRDs, ControllerChart, DefaultsChart
  <1>1. faults' \in Nat
    <2>1. faults \in Nat
      BY DEF Types
    <2>2. faults' = faults \/ faults' = faults + 1
      BY DEF Next, vars, Begin, DownloadFile, DownloadFails, OpenArchive, UnpackEntry,
             UnpackFails, EndOfArchive, NextFile, ApplyDocument, ApplyFails, EndOfManifest,
             EndOfPhase, RenderHelmChart, RenderFails, PublishChart, CallFails, Restart, Unwind, Fault
    <2> QED
      BY <2>1, <2>2
  <1>2. ASSUME Fails PROVE Types'
    <2>1. /\ pc' = "idle" /\ phase' = CRDs /\ entry' = 1 /\ manifest' = <<>>
          /\ unpacked' = NoFiles /\ archive' = archive /\ charts' = charts
          /\ offered' = offered /\ used' = NothingUsed
          /\ attempt' = attempt /\ todo' = {}
      BY <1>2 DEF Fails
    <2>2. DOMAIN unpacked' = {}
      BY <2>1 DEF NoFiles
    <2>3. used' \in [ChartPhase -> Seq(Document)]
      BY <2>1 DEF NothingUsed
    <2> QED
      BY <1>1, <2>1, <2>2, <2>3 DEF Types
  <1>3. CASE Begin
    BY <1>1, <1>3 DEF Begin, Types
  <1>4. CASE DownloadFile \/ OpenArchive
    BY <1>1, <1>4 DEF DownloadFile, OpenArchive, Types
  <1>5. CASE UnpackEntry
    <2>1. entry' \in Nat /\ entry' >= 1
      BY <1>5 DEF UnpackEntry, Types
    <2>2. \A n \in DOMAIN unpacked' : n \in Nat /\ unpacked'[n] \in Seq(Document)
      <3>1. archive[entry] \in Entry
        BY <1>5 DEF UnpackEntry, Types
      <3>2. archive[entry].name \in Nat /\ archive[entry].docs \in Seq(Document)
        BY <3>1 DEF Entry
      <3> QED
        BY <1>5, <3>2 DEF UnpackEntry, Types, Write
    <2>3. todo' \subseteq Glob'
      BY <1>5 DEF UnpackEntry, Types, Write, Glob
    <2> QED
      BY <1>1, <1>5, <2>1, <2>2, <2>3 DEF UnpackEntry, Types
  <1>6. CASE EndOfArchive
    BY <1>1, <1>6 DEF EndOfArchive, Glob, Types
  <1>7. CASE NextFile
    <2>1. /\ archive' = archive /\ charts' = charts /\ offered' = offered /\ used' = used
          /\ attempt' = attempt /\ phase' = phase
          /\ entry' = entry /\ unpacked' = unpacked /\ pc = "files" /\ pc' = "apply"
      BY <1>7 DEF NextFile
    <2>2. manifest' \in Seq(Document)
      <3>1. First(todo) \in DOMAIN unpacked
        BY <1>7, FirstIn DEF NextFile, Types
      <3> QED
        BY <1>7, <3>1 DEF NextFile, Types
    <2>3. todo' \subseteq todo
      BY <1>7 DEF NextFile
    <2> QED
      BY <1>1, <2>1, <2>2, <2>3 DEF Types
  <1>8. CASE ApplyDocument
    <2>1. manifest' \in Seq(Document)
      BY <1>8 DEF ApplyDocument, Types
    <2> QED
      BY <1>1, <1>8, <2>1 DEF ApplyDocument, Types
  <1>9. CASE EndOfManifest
    BY <1>1, <1>9 DEF EndOfManifest, Types
  <1>10. CASE EndOfPhase
    <2>1. DOMAIN unpacked' = {}
      BY <1>10 DEF EndOfPhase, NoFiles
    <2> QED
      BY <1>1, <1>10, <2>1 DEF EndOfPhase, Types
  <1>11. CASE RenderHelmChart
    <2>1. manifest' \in Seq(Document) /\ used' \in [ChartPhase -> Seq(Document)]
      BY <1>11 DEF RenderHelmChart, HelmTemplate, Types
    <2> QED
      BY <1>1, <1>11, <2>1 DEF RenderHelmChart, Types
  <1>12. CASE UNCHANGED vars
    BY <1>12 DEF vars, Types
  <1>13. CASE PublishChart
    <2>1. PICK p \in ChartPhase, ch \in Charts :
             charts' = [charts EXCEPT ![p] = ch] /\ offered' = offered \cup {ch}
      BY <1>13 DEF PublishChart, Types
    <2>2. ch \in Seq(Document)
      BY ArtifactsAssumption
    <2>3. charts' \in [ChartPhase -> Seq(Document)] /\ \A q \in ChartPhase : charts'[q] \in offered'
      BY <2>1, <2>2 DEF Types
    <2> QED
      BY <1>1, <1>13, <2>3 DEF PublishChart, Types
  <1> QED
    BY <1>2, <1>3, <1>4, <1>5, <1>6, <1>7, <1>8, <1>9, <1>10, <1>11, <1>12, <1>13
    DEF Next, DownloadFails, UnpackFails, ApplyFails, RenderFails, CallFails, Restart

\* The initial states are well typed.
LEMMA TypesInit == Init => Types
  <1> SUFFICES ASSUME Init PROVE Types
    OBVIOUS
  <1> USE DEF ChartPhase, CRDs, ControllerChart, DefaultsChart
  <1>1. charts \in [ChartPhase -> Seq(Document)] /\ used \in [ChartPhase -> Seq(Document)]
    BY ArtifactsAssumption DEF Init, NothingUsed
  <1>2. \A p \in ChartPhase : charts[p] \in offered
    BY DEF Init
  <1> QED
    BY <1>1, <1>2, ArtifactsAssumption DEF Init, Types, Glob, NoFiles

(***************************************************************************)
(* Unpacking.                                                              *)
(***************************************************************************)
\* A step that fails has an empty directory before it.
LEMMA FailsUnpacked == Types /\ Unpacked /\ Fails => Unpacked'
  BY DEF Fails, Unpacked, ApplyingFiles, published, Flat

\* The next entry is written over the file of its name, or skipped.
LEMMA UnpackEntryUnpacked == Types /\ Unpacked /\ UnpackEntry => Unpacked'
  <1> SUFFICES ASSUME Types, Unpacked, UnpackEntry PROVE Unpacked'
    OBVIOUS
  <1>1. /\ pc = "unpack" /\ pc' = pc /\ phase = CRDs /\ phase' = phase
        /\ archive' = archive /\ todo' = todo /\ created' = created
        /\ entry \in DOMAIN archive /\ entry' = entry + 1 /\ entry \in Nat
        /\ archive[entry].kind # "nested"
    BY DEF UnpackEntry, published, Types
  <1>2. \A e \in DOMAIN archive : e \in Nat
    BY DEF Types
  <1>3. \A e \in DOMAIN archive : e < entry' <=> e < entry \/ e = entry
    BY <1>1, <1>2
  <1>4. unpacked' = IF archive[entry].kind = "dir" THEN unpacked
                    ELSE Write(unpacked, archive[entry])
    BY DEF UnpackEntry
  <1>5. archive[entry].kind \in {"dir", "flat"}
    <2>1. archive[entry] \in Entry
      BY <1>1 DEF Types
    <2> QED
      BY <1>1, <2>1 DEF Entry
  <1>6. \A e \in DOMAIN archive : e < entry =>
           /\ archive[e].kind # "nested"
           /\ archive[e].kind = "flat" => archive[e].name \in DOMAIN unpacked
    BY <1>1 DEF Unpacked
  <1>7. \A n \in DOMAIN unpacked : \E e \in DOMAIN archive :
           LastOf(e, n) /\ unpacked[n] = archive[e].docs
    BY <1>1 DEF Unpacked
  <1>8. CASE archive[entry].kind = "dir"
    <2>1. unpacked' = unpacked
      BY <1>4, <1>8
    <2>2. \A n \in DOMAIN unpacked, e \in DOMAIN archive : LastOf(e, n) => LastOf(e, n)'
      BY <1>1, <1>3, <1>8 DEF LastOf
    <2>3. \A n \in DOMAIN unpacked : \E e \in DOMAIN archive :
             LastOf(e, n)' /\ unpacked[n] = archive[e].docs
      BY <1>7, <2>2
    <2> QED
      BY <1>1, <1>3, <1>6, <1>8, <2>1, <2>3 DEF Unpacked, ApplyingFiles, Flat
  <1>9. CASE archive[entry].kind = "flat"
    <2>0. PICK x \in DOMAIN archive, n0 \in Nat : x = entry /\ n0 = archive[x].name
      <3>1. archive[entry] \in Entry
        BY <1>1 DEF Types
      <3>2. archive[entry].name \in Nat
        BY <3>1 DEF Entry
      <3> QED
        BY <1>1, <3>2
    <2>1. /\ DOMAIN unpacked' = DOMAIN unpacked \cup {n0}
          /\ unpacked'[n0] = archive[x].docs
          /\ \A n \in DOMAIN unpacked : n # n0 => unpacked'[n] = unpacked[n]
      BY <1>4, <1>9, <2>0 DEF Write
    <2>2. LastOf(x, n0)'
      BY <1>1, <1>2, <1>3, <1>9, <2>0 DEF LastOf
    <2>3. \A n \in DOMAIN unpacked, e \in DOMAIN archive :
             n # n0 /\ LastOf(e, n) => LastOf(e, n)'
      BY <1>1, <1>3, <2>0 DEF LastOf
    <2>4. \A n \in DOMAIN unpacked' : \E e \in DOMAIN archive :
             LastOf(e, n)' /\ unpacked'[n] = archive[e].docs
      <3> SUFFICES ASSUME NEW n \in DOMAIN unpacked'
                   PROVE  \E e \in DOMAIN archive : LastOf(e, n)' /\ unpacked'[n] = archive[e].docs
        OBVIOUS
      <3>1. CASE n = n0
        BY <2>1, <2>2, <3>1
      <3>2. CASE n # n0
        <4>1. n \in DOMAIN unpacked
          BY <2>1, <3>2
        <4>2. PICK e \in DOMAIN archive : LastOf(e, n) /\ unpacked[n] = archive[e].docs
          BY <1>7, <4>1
        <4> QED
          BY <2>1, <2>3, <3>2, <4>1, <4>2
      <3> QED
        BY <3>1, <3>2
    <2>5. \A e \in DOMAIN archive : e < entry' =>
             /\ archive[e].kind # "nested"
             /\ archive[e].kind = "flat" => archive[e].name \in DOMAIN unpacked'
      BY <1>1, <1>3, <1>6, <2>0, <2>1
    <2> QED
      BY <1>1, <2>4, <2>5 DEF Unpacked, ApplyingFiles, Flat
  <1> QED
    BY <1>5, <1>8, <1>9

\* Every step keeps the directory in order.
LEMMA UnpackedStep == Types /\ Unpacked /\ [Next]_vars => Unpacked'
  <1> SUFFICES ASSUME Types, Unpacked, [Next]_vars PROVE Unpacked'
    OBVIOUS
  <1> USE DEF published, ApplyingFiles, LastOf
  <1>1. CASE Begin \/ DownloadFile
    BY <1>1 DEF Begin, DownloadFile, Unpacked, Types, Flat
  <1>2. CASE OpenArchive
    <2>1. entry = 1 /\ DOMAIN unpacked = {} /\ \A e \in DOMAIN archive : ~(e < 1)
      BY <1>2 DEF OpenArchive, Unpacked, NoFiles, Types
    <2>2. todo = {}
      BY <1>2 DEF OpenArchive, Unpacked
    <2> QED
      BY <1>2, <2>1, <2>2 DEF OpenArchive, Unpacked, Flat
  <1>3. CASE EndOfArchive
    <2>1. \A e \in DOMAIN archive : e < entry
      BY <1>3 DEF EndOfArchive, Types
    <2>2. Flat
      BY <1>3, <2>1 DEF EndOfArchive, Unpacked, Flat
    <2> QED
      BY <1>3, <2>1, <2>2 DEF EndOfArchive, Unpacked, Flat, Types
  <1>4. CASE NextFile
    BY <1>4 DEF NextFile, Unpacked, Flat
  <1>5. CASE ApplyDocument \/ EndOfManifest
    BY <1>5 DEF ApplyDocument, EndOfManifest, Unpacked, Flat
  <1>6. CASE EndOfPhase
    <2>1. pc' \in {"done", "render"}
      BY <1>6 DEF EndOfPhase
    <2> QED
      BY <1>6, <2>1 DEF EndOfPhase, Unpacked, Flat
  <1>7. CASE RenderHelmChart
    <2>1. phase # CRDs
      BY <1>7 DEF RenderHelmChart, Types, ChartPhase, CRDs, ControllerChart, DefaultsChart
    <2> QED
      BY <1>7, <2>1 DEF RenderHelmChart, Unpacked, Flat
  <1>8. CASE UNCHANGED vars
    BY <1>8 DEF vars, Unpacked, Flat
  <1>9. CASE PublishChart
    BY <1>9 DEF PublishChart, Unpacked, Flat
  <1> QED
    BY <1>1, <1>2, <1>3, <1>4, <1>5, <1>6, <1>7, <1>8, <1>9, UnpackEntryUnpacked, FailsUnpacked
    DEF Next, DownloadFails, UnpackFails, ApplyFails, RenderFails, CallFails, Restart

\* At first there is nothing to keep in order.
LEMMA UnpackedInit == Init => Unpacked
  BY DEF Init, Unpacked, ApplyingFiles

\* An archive that cannot be unpacked to the end contributes nothing, in any
\* attempt: applyManifest is not reached before extractTarGz has returned.
THEOREM WholeArchivesHolds == Spec => []WholeArchives
  <1>1. Init => Types /\ Unpacked
    BY TypesInit, UnpackedInit
  <1>2. Types /\ Unpacked /\ [Next]_vars => (Types /\ Unpacked)'
    BY TypesStep, UnpackedStep
  <1>3. Unpacked => WholeArchives
    BY DEF Unpacked, WholeArchives
  <1> QED
    BY <1>1, <1>2, <1>3, PTL DEF Spec

(***************************************************************************)
(* Applying manifests.                                                     *)
(***************************************************************************)
\* The document in hand is one of the manifest's.
LEMMA RestHead ==
    ASSUME NEW docs \in Seq(Document), manifest \in Seq(Document), Rest(docs),
           manifest # <<>>, Head(manifest) # NullDoc
    PROVE  Head(manifest) \in Documents(docs)
  <1>1. PICK k \in Nat :
           /\ Len(docs) = k + Len(manifest)
           /\ \A i \in 1..Len(manifest) : manifest[i] = docs[k + i]
           /\ \A i \in 1..k : docs[i] \in created \cap Object
    BY DEF Rest
  <1>2. Len(manifest) \in Nat /\ Len(manifest) >= 1 /\ Head(manifest) = manifest[1]
    BY DEF Document
  <1>3. Head(manifest) = docs[k + 1] /\ k + 1 \in DOMAIN docs
    BY <1>1, <1>2
  <1> QED
    BY <1>3 DEF Documents

\* The loop of applyManifest goes on behind the document it created.
LEMMA RestAdvances ==
    ASSUME NEW docs \in Seq(Document), manifest \in Seq(Document), Rest(docs),
           manifest # <<>>, Head(manifest) \in Object,
           created' = created \cup {Head(manifest)}, manifest' = Tail(manifest)
    PROVE  Rest(docs)'
  <1>1. PICK k \in Nat :
           /\ Len(docs) = k + Len(manifest)
           /\ \A i \in 1..Len(manifest) : manifest[i] = docs[k + i]
           /\ \A i \in 1..k : docs[i] \in created \cap Object
    BY DEF Rest
  <1>2. Len(manifest) \in Nat /\ Len(manifest) >= 1 /\ Head(manifest) = manifest[1]
    BY DEF Document
  <1>3. /\ Len(manifest') = Len(manifest) - 1
        /\ \A i \in 1..Len(manifest') : manifest'[i] = manifest[i + 1]
    BY <1>2
  <1>4. k + 1 \in Nat /\ Len(docs) = (k + 1) + Len(manifest')
    BY <1>1, <1>2, <1>3
  <1>5. \A i \in 1..Len(manifest') : manifest'[i] = docs[(k + 1) + i]
    <2> SUFFICES ASSUME NEW i \in 1..Len(manifest') PROVE manifest'[i] = docs[(k + 1) + i]
      OBVIOUS
    <2>1. i + 1 \in 1..Len(manifest) /\ k + (i + 1) = (k + 1) + i
      BY <1>1, <1>2, <1>3
    <2> QED
      BY <1>1, <1>3, <2>1
  <1>6. \A i \in 1..(k + 1) : docs[i] \in created' \cap Object
    <2> SUFFICES ASSUME NEW i \in 1..(k + 1) PROVE docs[i] \in created' \cap Object
      OBVIOUS
    <2>1. i \in 1..k \/ i = k + 1
      BY <1>1
    <2>2. docs[k + 1] = Head(manifest)
      BY <1>1, <1>2
    <2> QED
      BY <1>1, <2>1, <2>2
  <1> QED
    BY <1>4, <1>5, <1>6 DEF Rest

\* At the end of the file, or at a null document, all that can be read of it
\* is applied.
LEMMA RestEnds ==
    ASSUME NEW docs \in Seq(Document), manifest \in Seq(Document), Rest(docs),
           manifest # <<>> => Head(manifest) = NullDoc
    PROVE  Applied(docs)
  <1>1. PICK k \in Nat :
           /\ Len(docs) = k + Len(manifest)
           /\ \A i \in 1..Len(manifest) : manifest[i] = docs[k + i]
           /\ \A i \in 1..k : docs[i] \in created \cap Object
    BY DEF Rest
  <1>2. Len(manifest) \in Nat /\ Len(docs) \in Nat
    OBVIOUS
  <1>3. Leading(docs) \subseteq 1..k
    <2> SUFFICES ASSUME NEW d \in Leading(docs), d > k PROVE FALSE
      BY <1>1, <1>2 DEF Leading
    <2>1. d \in 1..Len(docs) /\ \A e \in 1..d : docs[e] # NullDoc
      BY DEF Leading
    <2>2. Len(manifest) >= 1
      BY <1>1, <1>2, <2>1
    <2>3. manifest # <<>> /\ Head(manifest) = manifest[1]
      BY <2>2
    <2>4. docs[k + 1] = NullDoc
      BY <1>1, <2>2, <2>3
    <2> QED
      BY <1>1, <2>1, <2>4
  <1> QED
    BY <1>1, <1>3 DEF Applied

\* Nothing of a manifest is applied yet when it is taken in hand.
LEMMA RestBegins ==
    ASSUME NEW docs \in Seq(Document), manifest' = docs
    PROVE  Rest(docs)'
  <1>1. Len(docs) \in Nat
    OBVIOUS
  <1>2. 0 \in Nat /\ Len(docs) = 0 + Len(manifest')
    BY <1>1
  <1>3. \A i \in 1..Len(manifest') : manifest'[i] = docs[0 + i]
    BY <1>1
  <1>4. \A i \in 1..0 : docs[i] \in created' \cap Object
    OBVIOUS
  <1> QED
    BY <1>2, <1>3, <1>4 DEF Rest

\* What is applied stays applied.
LEMMA AppliedStays ==
    ASSUME created \subseteq created', NEW docs, Applied(docs)
    PROVE  Applied(docs)'
  BY DEF Applied

\* When the archive is unpacked the YAML files in the directory are the last
\* of each name.
LEMMA GlobIsFinal ==
    ASSUME Types, Unpacked, ApplyingFiles
    PROVE  /\ \A n \in Glob : \E e \in Final : unpacked[n] = archive[e].docs
           /\ \A e \in Final :
                 archive[e].name \in Glob /\ unpacked[archive[e].name] = archive[e].docs
  <1>1. \A e \in DOMAIN archive : e \in Nat /\ e < entry
    BY DEF Unpacked, Types
  <1>2. \A n \in DOMAIN unpacked : \E e \in DOMAIN archive :
           LastOf(e, n) /\ unpacked[n] = archive[e].docs
    BY DEF Unpacked
  <1>3. ASSUME NEW n \in Glob
        PROVE  \E e \in Final : unpacked[n] = archive[e].docs
    <2>1. PICK e \in DOMAIN archive : LastOf(e, n) /\ unpacked[n] = archive[e].docs
      BY <1>2 DEF Glob
    <2>2. e \in Final
      BY <1>1, <2>1 DEF LastOf, Final, Glob
    <2> QED
      BY <2>1, <2>2
  <1>4. ASSUME NEW e \in Final
        PROVE  archive[e].name \in Glob /\ unpacked[archive[e].name] = archive[e].docs
    <2> DEFINE n == archive[e].name
    <2>1. n \in Glob
      BY <1>1 DEF Final, Unpacked, Glob
    <2>2. PICK k \in DOMAIN archive : LastOf(k, n) /\ unpacked[n] = archive[k].docs
      BY <1>2, <2>1 DEF Glob
    <2>3. e \in DOMAIN archive /\ e \in Nat /\ k \in Nat
      BY <1>1 DEF Final
    <2>4. ~(k < e)
      BY <1>1, <2>2, <2>3 DEF LastOf, Final
    <2>5. ~(k > e)
      BY <2>2, <2>3 DEF LastOf, Final
    <2>6. k = e
      BY <2>3, <2>4, <2>5
    <2> QED
      BY <2>1, <2>2, <2>6
  <1> QED
    BY <1>3, <1>4

\* The documents of the file or chart in hand, and what is left of them.
InHand(docs) ==
    /\ docs \in Seq(Document) /\ Rest(docs)
    /\ Documents(docs) \subseteq OnOffer

\* Whatever is in hand is, or has been, on offer.
LEMMA SomethingInHand ==
    ASSUME Types, Unpacked, AppliedSoFar, pc = "apply"
    PROVE  \E docs : InHand(docs)
  <1>1. CASE phase = CRDs
    <2>1. PICK n \in Glob : Rest(unpacked[n])
      BY <1>1 DEF AppliedSoFar
    <2>2. PICK e \in Final : unpacked[n] = archive[e].docs
      BY <1>1, GlobIsFinal DEF ApplyingFiles
    <2>3. unpacked[n] \in Seq(Document)
      BY DEF Types, Glob
    <2> QED
      BY <2>1, <2>2, <2>3 DEF InHand, OnOffer, ReleaseFiles
  <1>2. CASE phase \in ChartPhase
    <2>1. Rest(used[phase]) /\ used[phase] \in Seq(Document) /\ used[phase] \in offered
      BY <1>2 DEF AppliedSoFar, Types
    <2> QED
      BY <2>1 DEF InHand, OnOffer
  <1> QED
    BY <1>1, <1>2 DEF Types

\* The release stays as it is, and charts are only added.
LEMMA OfferGrows ==
    ASSUME [Next]_vars
    PROVE  /\ archive' = archive /\ offered \subseteq offered'
           /\ Final' = Final /\ OnOffer \subseteq OnOffer' /\ (Flat' <=> Flat)
  <1>1. archive' = archive /\ offered \subseteq offered'
    BY DEF Next, vars, published, Begin, DownloadFile, DownloadFails, OpenArchive, UnpackEntry,
           UnpackFails, EndOfArchive, NextFile, ApplyDocument, ApplyFails, EndOfManifest,
           EndOfPhase, RenderHelmChart, RenderFails, PublishChart, CallFails, Restart, Fails
  <1>2. Final' = Final /\ (Flat' <=> Flat)
    BY <1>1 DEF Final, Flat
  <1>3. ReleaseFiles' = ReleaseFiles
    BY <1>1, <1>2 DEF ReleaseFiles
  <1> QED
    BY <1>1, <1>2, <1>3 DEF OnOffer

\* What is in hand and usable is created, and the loop goes on.
LEMMA ApplyDocumentApplied ==
    Types /\ Unpacked /\ AppliedSoFar /\ ApplyDocument => AppliedSoFar'
  <1> SUFFICES ASSUME Types, Unpacked, AppliedSoFar, ApplyDocument PROVE AppliedSoFar'
    OBVIOUS
  <1>1. /\ pc = "apply" /\ pc' = pc /\ phase' = phase /\ unpacked' = unpacked
        /\ todo' = todo /\ used' = used /\ offered' = offered /\ archive' = archive
        /\ manifest # <<>> /\ manifest' = Tail(manifest)
        /\ created' = created \cup {Head(manifest)}
        /\ Final' = Final /\ OnOffer \subseteq OnOffer'
    <2>1. Next
      BY DEF Next
    <2> QED
      BY <2>1, OfferGrows DEF ApplyDocument, published
  <1>2. manifest \in Seq(Document) /\ NullDoc \notin Object
    BY ArtifactsAssumption DEF Types
  <1>3. Head(manifest) \in Object /\ Head(manifest) # NullDoc
    <2>1. Head(manifest) \in Document
      BY <1>1, <1>2
    <2> QED
      BY <2>1 DEF ApplyDocument, Unusable, Document
  <1>4. created' \subseteq OnOffer' \cap Object
    <2>1. PICK docs : InHand(docs)
      BY <1>1, SomethingInHand
    <2>2. Head(manifest) \in OnOffer
      BY <1>1, <1>2, <1>3, <2>1, RestHead DEF InHand
    <2> QED
      BY <1>1, <1>3, <2>2 DEF AppliedSoFar
  <1>5. \A docs \in Seq(Document) : Rest(docs) => Rest(docs)'
    BY <1>1, <1>2, <1>3, RestAdvances
  <1>6. \A docs : Applied(docs) => Applied(docs)'
    BY <1>1 DEF Applied
  <1>7. CASE phase = CRDs
    <2>1. PICK n \in Glob \ todo :
             Rest(unpacked[n]) /\ \A m \in (Glob \ todo) \ {n} : Applied(unpacked[m])
      BY <1>1, <1>7 DEF AppliedSoFar
    <2>2. unpacked[n] \in Seq(Document) /\ Glob' = Glob
      BY <1>1 DEF Types, Glob
    <2>3. Rest(unpacked[n])' /\ \A m \in (Glob \ todo) \ {n} : Applied(unpacked[m])'
      BY <1>1, <1>5, <1>6, <2>1, <2>2
    <2> QED
      BY <1>1, <1>4, <1>7, <2>1, <2>2, <2>3
      DEF AppliedSoFar, ChartPhase, CRDs, ControllerChart, DefaultsChart
  <1>8. CASE phase \in ChartPhase
    <2>1. /\ Rest(used[phase]) /\ used[phase] \in Seq(Document) /\ used[phase] \in offered
          /\ \A e \in Final : Applied(archive[e].docs)
          /\ phase = DefaultsChart => Applied(used[ControllerChart])
      BY <1>1, <1>8 DEF AppliedSoFar, Types
    <2>2. /\ Rest(used[phase])'
          /\ \A e \in Final : Applied(archive[e].docs)'
          /\ phase = DefaultsChart => Applied(used[ControllerChart])'
      BY <1>1, <1>5, <1>6, <2>1
    <2> QED
      BY <1>1, <1>4, <1>8, <2>2
      DEF AppliedSoFar, ChartPhase, CRDs, ControllerChart, DefaultsChart
  <1> QED
    BY <1>7, <1>8 DEF Types

\* Every step keeps what the attempt has been through applied.
LEMMA AppliedStep ==
    Types /\ Unpacked /\ AppliedSoFar /\ [Next]_vars => AppliedSoFar'
  <1> SUFFICES ASSUME Types, Unpacked, AppliedSoFar, [Next]_vars PROVE AppliedSoFar'
    OBVIOUS
  <1> USE DEF published
  <1>0. /\ archive' = archive /\ offered \subseteq offered'
        /\ Final' = Final /\ OnOffer \subseteq OnOffer'
    BY OfferGrows
  <1>1. CRDs \notin ChartPhase /\ ControllerChart # DefaultsChart /\ CRDs # DefaultsChart
    BY DEF ChartPhase, CRDs, ControllerChart, DefaultsChart
  <1>2. ASSUME created' = created, phase' = CRDs, pc' \notin {"files", "apply"}
        PROVE  AppliedSoFar'
    BY <1>0, <1>1, <1>2 DEF AppliedSoFar
  <1>3. CASE Begin \/ DownloadFile \/ OpenArchive \/ UnpackEntry
    BY <1>2, <1>3 DEF Begin, DownloadFile, OpenArchive, UnpackEntry, Types
  <1>4. CASE Fails
    BY <1>2, <1>4 DEF Fails
  <1>5. CASE EndOfArchive
    <2>1. /\ phase' = CRDs /\ pc' = "files" /\ todo' = Glob /\ Glob' = Glob
          /\ created' = created
      BY <1>5 DEF EndOfArchive, Types, Glob
    <2> QED
      BY <1>0, <1>1, <2>1 DEF AppliedSoFar
  <1>6. CASE NextFile
    <2>1. /\ phase' = phase /\ pc = "files" /\ pc' = "apply" /\ created' = created
          /\ unpacked' = unpacked /\ Glob' = Glob /\ todo # {}
      BY <1>6 DEF NextFile, Glob
    <2>2. phase = CRDs /\ todo \subseteq Nat
      BY <2>1 DEF Unpacked, ApplyingFiles, Types, Glob
    <2>3. PICK n \in todo : n = First(todo)
      BY <2>1, <2>2, FirstIn
    <2>4. n \in DOMAIN unpacked /\ unpacked[n] \in Seq(Document) /\ manifest' = unpacked[n]
          /\ todo' = todo \ {n}
      BY <1>6, <2>3 DEF NextFile, Types, Glob
    <2>5. \A docs \in Seq(Document) : manifest' = docs => Rest(docs)'
      BY RestBegins
    <2>6. Rest(unpacked[n])'
      BY <2>1, <2>4, <2>5
    <2>7. \A m \in Glob \ todo : Applied(unpacked[m])'
      BY <2>1, <2>2 DEF AppliedSoFar, Applied
    <2>8. n \in Glob
      BY <2>3 DEF Types
    <2> QED
      BY <1>0, <1>1, <2>1, <2>2, <2>4, <2>6, <2>7, <2>8 DEF AppliedSoFar
  <1>7. CASE EndOfManifest
    <2>1. /\ phase' = phase /\ pc = "apply" /\ pc' = "files" /\ created' = created
          /\ unpacked' = unpacked /\ Glob' = Glob /\ todo' = todo /\ used' = used
          /\ manifest \in Seq(Document) /\ (manifest # <<>> => Head(manifest) = NullDoc)
      BY <1>7 DEF EndOfManifest, Glob, Types
    <2>2. \A docs \in Seq(Document) : Rest(docs) => Applied(docs)
      BY <2>1, RestEnds
    <2>3. \A docs : Applied(docs)' <=> Applied(docs)
      BY <2>1 DEF Applied
    <2>4. CASE phase = CRDs
      <3>1. PICK n \in Glob \ todo :
               Rest(unpacked[n]) /\ \A m \in (Glob \ todo) \ {n} : Applied(unpacked[m])
        BY <2>1, <2>4 DEF AppliedSoFar
      <3>2. unpacked[n] \in Seq(Document)
        BY DEF Types, Glob
      <3>3. \A m \in Glob \ todo : Applied(unpacked[m])'
        BY <2>1, <2>2, <2>3, <3>1, <3>2
      <3> QED
        BY <1>0, <1>1, <2>1, <2>4, <3>3 DEF AppliedSoFar
    <2>5. CASE phase \in ChartPhase
      <3>1. /\ Applied(used[phase]) /\ \A e \in Final : Applied(archive[e].docs)
            /\ phase = DefaultsChart => Applied(used[ControllerChart])
        BY <2>1, <2>2, <2>5 DEF AppliedSoFar, Types
      <3>2. /\ Applied(used[phase])' /\ \A e \in Final : Applied(archive[e].docs)'
            /\ phase = DefaultsChart => Applied(used[ControllerChart])'
        BY <1>0, <2>1, <2>3, <3>1
      <3> QED
        BY <1>0, <1>1, <2>1, <2>5, <3>2 DEF AppliedSoFar
    <2> QED
      BY <2>4, <2>5 DEF Types
  <1>8. CASE EndOfPhase
    <2>1. pc = "files" /\ todo = {} /\ created' = created /\ used' = used
      BY <1>8 DEF EndOfPhase
    <2>2. \A docs : Applied(docs)' <=> Applied(docs)
      BY <2>1 DEF Applied
    <2>3. CASE phase = CRDs
      <3>1. phase' = ControllerChart /\ pc' = "render"
        BY <1>8, <2>3 DEF EndOfPhase, CRDs, ControllerChart, DefaultsChart
      <3>2. \A e \in Final : Applied(archive[e].docs)
        BY <2>1, <2>3, GlobIsFinal DEF AppliedSoFar, ApplyingFiles
      <3>3. \A e \in Final : Applied(archive[e].docs)'
        BY <1>0, <2>1, <2>2, <3>2
      <3> QED
        BY <1>0, <1>1, <2>1, <3>1, <3>3 DEF AppliedSoFar
    <2>4. CASE phase = ControllerChart
      <3>1. phase' = DefaultsChart /\ pc' = "render"
        BY <1>8, <2>4 DEF EndOfPhase, ControllerChart, DefaultsChart
      <3>2. Applied(used[ControllerChart]) /\ \A e \in Final : Applied(archive[e].docs)
        BY <2>1, <2>4 DEF AppliedSoFar, ChartPhase
      <3>3. Applied(used[ControllerChart])' /\ \A e \in Final : Applied(archive[e].docs)'
        BY <1>0, <2>1, <2>2, <3>2
      <3> QED
        BY <1>0, <1>1, <2>1, <3>1, <3>3 DEF AppliedSoFar
    <2>5. CASE phase = DefaultsChart
      <3>1. phase' = DefaultsChart /\ pc' = "done"
        BY <1>8, <2>5 DEF EndOfPhase
      <3>2. /\ Applied(used[ControllerChart]) /\ Applied(used[phase])
            /\ \A e \in Final : Applied(archive[e].docs)
        BY <2>1, <2>5 DEF AppliedSoFar, ChartPhase
      <3>3. /\ Applied(used[ControllerChart])' /\ Applied(used[phase])'
            /\ \A e \in Final : Applied(archive[e].docs)'
        BY <1>0, <2>1, <2>2, <2>5, <3>1, <3>2
      <3> QED
        BY <1>0, <1>1, <2>1, <3>1, <3>3 DEF AppliedSoFar
    <2> QED
      BY <2>3, <2>4, <2>5 DEF Types, ChartPhase
  <1>9. CASE RenderHelmChart
    <2>1. /\ phase \in ChartPhase /\ phase' = phase /\ pc' = "apply" /\ created' = created
          /\ manifest' = charts[phase] /\ charts[phase] \in Seq(Document)
          /\ charts[phase] \in offered /\ used'[phase] = charts[phase]
          /\ phase = DefaultsChart => used'[ControllerChart] = used[ControllerChart]
      BY <1>1, <1>9 DEF RenderHelmChart, HelmTemplate, Types, ChartPhase
    <2>2. \A docs \in Seq(Document) : manifest' = docs => Rest(docs)'
      BY RestBegins
    <2>3. used'[phase] \in offered' /\ Rest(used[phase])'
      BY <1>0, <2>1, <2>2
    <2>4. /\ \A e \in Final : Applied(archive[e].docs)'
          /\ phase = DefaultsChart => Applied(used[ControllerChart])'
      BY <1>0, <2>1 DEF AppliedSoFar, Applied
    <2> QED
      BY <1>0, <1>1, <2>1, <2>3, <2>4 DEF AppliedSoFar
  <1>10. CASE UNCHANGED vars \/ PublishChart
    <2>1. UNCHANGED <<pc, phase, unpacked, todo, manifest, created, used>>
      BY <1>10 DEF vars, PublishChart
    <2>2. \A docs : (Applied(docs)' <=> Applied(docs)) /\ (Rest(docs)' <=> Rest(docs))
      BY <2>1 DEF Applied, Rest
    <2> QED
      BY <1>0, <2>1, <2>2 DEF AppliedSoFar, Glob
  <1> QED
    BY <1>3, <1>4, <1>5, <1>6, <1>7, <1>8, <1>9, <1>10, ApplyDocumentApplied
    DEF Next, DownloadFails, UnpackFails, ApplyFails, RenderFails, CallFails, Restart

\* Nothing is applied and nothing is in hand at first.
LEMMA AppliedInit == Init => AppliedSoFar
  BY DEF Init, AppliedSoFar, ChartPhase, CRDs, ControllerChart, DefaultsChart

\* The three hold together.
ApplyInv == Types /\ Unpacked /\ AppliedSoFar

\* They hold initially ...
LEMMA ApplyInvInit == Init => ApplyInv
  BY TypesInit, UnpackedInit, AppliedInit DEF ApplyInv

\* ... and every step keeps them.
LEMMA ApplyInvStep == ApplyInv /\ [Next]_vars => ApplyInv'
  BY TypesStep, UnpackedStep, AppliedStep DEF ApplyInv

\* When an attempt succeeds, all of the release's YAML files and of the charts
\* it rendered is on the workload cluster, whatever charts earlier attempts
\* rendered and wherever they failed, except for files with documents behind a
\* null one (applyManifest stops there); and nothing is there that was never
\* on offer.
THEOREM InstalledAsPublishedHolds == Spec => []InstalledAsPublished
  <1>1. ApplyInv => InstalledAsPublished
    <2> SUFFICES ASSUME ApplyInv, pc = "done"
                 PROVE  /\ created \subseteq OnOffer \cap Object
                        /\ \A docs \in Sources : NullsLast(docs) => Documents(docs) \subseteq created
      BY DEF InstalledAsPublished
    <2>1. /\ phase = DefaultsChart /\ DOMAIN used = {ControllerChart, DefaultsChart}
          /\ created \subseteq OnOffer \cap Object
      BY DEF ApplyInv, Types, AppliedSoFar, ChartPhase
    <2>2. /\ \A e \in Final : Applied(archive[e].docs)
          /\ Applied(used[ControllerChart]) /\ Applied(used[DefaultsChart])
      BY <2>1 DEF ApplyInv, AppliedSoFar, ChartPhase
    <2>3. \A docs \in Sources : Applied(docs) /\ docs \in Seq(Document)
      <3>1. ASSUME NEW e \in Final PROVE archive[e].docs \in Seq(Document)
        <4>1. archive[e] \in Entry
          BY DEF ApplyInv, Types, Final
        <4> QED
          BY <4>1 DEF Entry
      <3>2. \A p \in DOMAIN used : used[p] \in Seq(Document)
        BY DEF ApplyInv, Types
      <3> QED
        BY <2>1, <2>2, <3>1, <3>2 DEF Sources, ReleaseFiles
    <2>4. ASSUME NEW docs \in Sources, NullsLast(docs) PROVE Documents(docs) \subseteq created
      <3>1. Applied(docs) /\ docs \in Seq(Document)
        BY <2>3
      <3> SUFFICES ASSUME NEW d \in DOMAIN docs, docs[d] # NullDoc PROVE docs[d] \in created
        BY DEF Documents
      <3>2. d \in Nat /\ \A e \in 1..d : e \in DOMAIN docs /\ (e < d \/ e = d)
        BY <3>1
      <3>3. \A e \in 1..d : docs[e] # NullDoc
        BY <2>4, <3>2 DEF NullsLast
      <3> QED
        BY <3>1, <3>3 DEF Applied, Leading
    <2> QED
      BY <2>1, <2>4
  <1> QED
    BY <1>1, ApplyInvInit, ApplyInvStep, PTL DEF Spec

\* With what can be unpacked and applied, a step that fails has a fault.
LEMMA OnlyFaultsFail ==
    ASSUME ApplyInv, Next, Flat, OnOffer \subseteq Object, Fails
    PROVE  faults' = faults + 1
  <1>1. ~UnpackFails
    BY DEF UnpackFails, Flat
  <1>2. ~ApplyFails
    <2> SUFFICES ASSUME ApplyFails PROVE FALSE
      OBVIOUS
    <2>1. pc = "apply" /\ manifest # <<>> /\ Unusable(Head(manifest))
      BY DEF ApplyFails
    <2>2. Head(manifest) = BadDoc
      BY <2>1 DEF Unusable, Answer, Tolerated
    <2>3. PICK docs : InHand(docs)
      BY <2>1, SomethingInHand DEF ApplyInv
    <2>4. BadDoc # NullDoc /\ BadDoc \notin Object /\ NullDoc \notin Object
      BY ArtifactsAssumption DEF BadDoc, NullDoc
    <2>5. BadDoc \in Documents(docs)
      BY <2>1, <2>2, <2>3, <2>4, RestHead DEF InHand, ApplyInv, Types
    <2> QED
      BY <2>3, <2>4, <2>5 DEF InHand
  <1>3. pc' = "idle"
    BY DEF Fails
  <1>4. ASSUME Begin \/ DownloadFile \/ OpenArchive \/ UnpackEntry \/ EndOfArchive
               \/ NextFile \/ ApplyDocument \/ EndOfManifest \/ EndOfPhase \/ RenderHelmChart
        PROVE  FALSE
    BY <1>3, <1>4 DEF Begin, DownloadFile, OpenArchive, UnpackEntry, EndOfArchive,
                      NextFile, ApplyDocument, EndOfManifest, EndOfPhase, RenderHelmChart
  <1>5. ~PublishChart
    <2> SUFFICES ASSUME PublishChart PROVE FALSE
      OBVIOUS
    <2>1. PICK p \in DOMAIN charts, ch \in Charts : charts' = [charts EXCEPT ![p] = ch] /\ ch # charts[p]
      BY DEF PublishChart
    <2>2. charts' = charts
      BY DEF Fails, published
    <2> QED
      BY <2>1, <2>2 DEF ApplyInv, Types
  <1> QED
    BY <1>1, <1>2, <1>4, <1>5 DEF Next, DownloadFails, RenderFails, CallFails, Restart, Fault

\* Faults never decrease, and an attempt begins only when none is under way.
LEMMA AttemptStep ==
    ASSUME Types, Next, ~Fails
    PROVE  /\ faults' \in Nat /\ faults' >= faults
           /\ \/ attempt' = attempt /\ (pc' = "idle" <=> pc = "idle")
              \/ attempt' = attempt + 1 /\ pc = "idle" /\ pc' # "idle"
  <1>1. faults \in Nat
    BY DEF Types
  <1>2. CASE Begin
    BY <1>1, <1>2 DEF Begin
  <1>3. CASE DownloadFile \/ OpenArchive \/ UnpackEntry \/ EndOfArchive
             \/ NextFile \/ ApplyDocument \/ EndOfManifest \/ RenderHelmChart \/ PublishChart
    BY <1>1, <1>3 DEF DownloadFile, OpenArchive, UnpackEntry, EndOfArchive, NextFile,
                      ApplyDocument, EndOfManifest, RenderHelmChart, PublishChart
  <1>4. CASE EndOfPhase
    BY <1>1, <1>4 DEF EndOfPhase, Unwind, Fault
  <1> QED
    BY <1>2, <1>3, <1>4
    DEF Next, DownloadFails, UnpackFails, ApplyFails, RenderFails, CallFails, Restart

\* With archives and charts that can be applied every failed attempt is due to
\* a fault of its own: what it leaves behind never makes the next one fail
\* (AlreadyExists is tolerated, and the temporary names are fresh).
THEOREM FailuresAreFaultsHolds == Spec => []FailuresAreFaults
  <1> DEFINE Inv == ApplyInv /\ FailuresAreFaults
  <1>1. Init => Inv
    BY ApplyInvInit DEF Init, FailuresAreFaults
  <1>2. Inv /\ [Next]_vars => Inv'
    <2> SUFFICES ASSUME Inv, [Next]_vars, Flat', (OnOffer \subseteq Object)'
                 PROVE  attempt' <= faults' + (IF pc' = "idle" THEN 0 ELSE 1)
      BY ApplyInvStep DEF FailuresAreFaults
    <2>2. Flat /\ OnOffer \subseteq Object
      BY OfferGrows
    <2>3. /\ attempt \in Nat /\ faults \in Nat
          /\ attempt <= faults + (IF pc = "idle" THEN 0 ELSE 1)
      BY <2>2 DEF FailuresAreFaults, ApplyInv, Types
    <2>4. CASE UNCHANGED vars
      BY <2>3, <2>4 DEF vars
    <2>5. CASE Next /\ Fails
      <3>1. faults' = faults + 1 /\ attempt' = attempt /\ pc' = "idle"
        BY <2>2, <2>5, OnlyFaultsFail DEF Fails
      <3> QED
        BY <2>3, <3>1
    <2>6. CASE Next /\ ~Fails
      BY <2>3, <2>6, AttemptStep DEF ApplyInv
    <2> QED
      BY <2>4, <2>5, <2>6
  <1> QED
    BY <1>1, <1>2, PTL DEF Spec

(***************************************************************************)
(* The temporary directory.                                                *)
(***************************************************************************)
\* Sets that grow by one element or by two.
LEMMA GrowsByOne ==
    ASSUME NEW S, IsFiniteSet(S), NEW x, NEW T, T \subseteq S \cup {x}
    PROVE  /\ IsFiniteSet(T) /\ Cardinality(T) \in Nat /\ Cardinality(S) \in Nat
           /\ Cardinality(T) <= Cardinality(S) + 1
  <1>1. /\ IsFiniteSet(S \cup {x}) /\ Cardinality(S) \in Nat
        /\ Cardinality(S \cup {x}) \in {Cardinality(S), Cardinality(S) + 1}
    BY FS_AddElement, FS_CardinalityType
  <1>2. IsFiniteSet(T) /\ Cardinality(T) <= Cardinality(S \cup {x})
    BY <1>1, FS_Subset
  <1>3. Cardinality(T) \in Nat
    BY <1>2, FS_CardinalityType
  <1> QED
    BY <1>1, <1>2, <1>3

\* A set within a finite one and two elements more has at most two more.
LEMMA GrowsByTwo ==
    ASSUME NEW S, IsFiniteSet(S), NEW x, NEW y, NEW T, T \subseteq S \cup {x, y}
    PROVE  /\ Cardinality(T) \in Nat /\ Cardinality(S) \in Nat
           /\ Cardinality(T) <= Cardinality(S) + 2
  <1>1. /\ IsFiniteSet(S \cup {x}) /\ Cardinality(S \cup {x}) \in Nat
        /\ Cardinality(S) \in Nat /\ Cardinality(S \cup {x}) <= Cardinality(S) + 1
    BY GrowsByOne
  <1>2. T \subseteq (S \cup {x}) \cup {y}
    OBVIOUS
  <1>3. Cardinality(T) \in Nat /\ Cardinality(T) <= Cardinality(S \cup {x}) + 1
    BY <1>1, <1>2, GrowsByOne
  <1> QED
    BY <1>1, <1>3

\* The names of one attempt.
LEMMA Names ==
    ASSUME Types
    PROVE  /\ Tarball[1] = attempt /\ Tarball[2] = "tarball" /\ Tarball \in Nat \X Kind
           /\ Directory[1] = attempt /\ Directory[2] = "directory"
           /\ Directory \in Nat \X Kind
           /\ Rendered[1] = attempt /\ Rendered[2] \in {"controller", "defaults"}
           /\ Rendered \in Nat \X Kind
  BY DEF Types, Tarball, Directory, Rendered, Kind

\* What a step may add to the disk, and what it leaves of it.
LEMMA DiskStep ==
    ASSUME Types, [Next]_vars
    PROVE  disk' \subseteq disk \cup {Tarball, Directory, Rendered}
  <1>1. ASSUME Unwind PROVE disk' \subseteq disk
    BY <1>1 DEF Unwind
  <1> QED
    BY <1>1 DEF Next, vars, Begin, DownloadFile, DownloadFails, OpenArchive, UnpackEntry,
           UnpackFails, EndOfArchive, NextFile, ApplyDocument, ApplyFails, EndOfManifest,
           EndOfPhase, RenderHelmChart, RenderFails, PublishChart, CallFails, Restart

\* The names stay fresh.
LEMMA FreshStep == Types /\ Fresh /\ [Next]_vars => Fresh'
  <1> SUFFICES ASSUME Types, Fresh, [Next]_vars PROVE Fresh'
    OBVIOUS
  <1>1. disk' \subseteq disk \cup {Tarball, Directory, Rendered}
    BY DiskStep
  <1>2. disk' \subseteq (Nat \X Kind)
    BY <1>1, Names DEF Fresh
  <1>3. IsFiniteSet(disk')
    <2>1. IsFiniteSet(disk \cup {Tarball})
      BY FS_AddElement DEF Fresh
    <2>2. IsFiniteSet((disk \cup {Tarball}) \cup {Directory})
      BY <2>1, FS_AddElement
    <2>3. IsFiniteSet(((disk \cup {Tarball}) \cup {Directory}) \cup {Rendered})
      BY <2>2, FS_AddElement
    <2> QED
      BY <1>1, <2>3, FS_Subset
  <1>4. attempt \in Nat /\ (attempt' = attempt \/ (attempt' = attempt + 1 /\ Begin))
    <2>1. attempt \in Nat
      BY DEF Types
    <2> QED
      BY <2>1
      DEF Next, vars, Begin, DownloadFile, DownloadFails, OpenArchive, UnpackEntry,
          UnpackFails, EndOfArchive, NextFile, ApplyDocument, ApplyFails, EndOfManifest,
          EndOfPhase, RenderHelmChart, RenderFails, PublishChart, CallFails, Restart, Fails
  <1>5. \A f \in disk' : f[1] \in Nat /\ f[1] <= attempt
    BY <1>1, <1>2, <1>4, Names DEF Fresh
  <1>6. \A f \in disk' : f[1] <= attempt'
    BY <1>4, <1>5
  <1>7. CASE Begin
    <2>1. attempt' = attempt + 1 /\ disk' = disk
      BY <1>7 DEF Begin
    <2>2. Directory' \notin disk'
      <3>1. Directory'[1] = attempt'
        BY DEF Directory
      <3> QED
        BY <1>4, <1>5, <2>1, <3>1
    <2> QED
      BY <1>2, <1>3, <1>6, <2>2 DEF Fresh
  <1>8. CASE DownloadFile
    <2>1. pc = "download" /\ disk' = disk \cup {Tarball} /\ attempt' = attempt
      BY <1>8 DEF DownloadFile
    <2>2. Directory' = Directory /\ Directory # Tarball
      BY <2>1, Names DEF Directory
    <2>3. Directory' \notin disk'
      BY <2>1, <2>2 DEF Fresh
    <2> QED
      BY <1>2, <1>3, <1>6, <2>3 DEF Fresh
  <1>9. CASE ~Begin /\ ~DownloadFile
    <2>1. CASE UNCHANGED vars \/ PublishChart
      BY <2>1, <1>2, <1>3, <1>6 DEF vars, PublishChart, Fresh, Directory
    <2>2. CASE Next /\ ~PublishChart
      <3>1. pc' \notin {"download", "open"}
        BY <1>9, <2>2
        DEF Next, DownloadFails, OpenArchive, UnpackEntry, UnpackFails, EndOfArchive, NextFile,
            ApplyDocument, ApplyFails, EndOfManifest, EndOfPhase, RenderHelmChart, RenderFails,
            CallFails, Restart, Fails
      <3> QED
        BY <1>2, <1>3, <1>6, <3>1 DEF Fresh
    <2> QED
      BY <2>1, <2>2
  <1> QED
    BY <1>7, <1>8, <1>9

\* What a step leaves for good: nothing without a fault, one file with one;
\* but the directory of an archive that cannot be unpacked, and the rendered
\* charts.
LEMMA LeftStep ==
    ASSUME Types, Fresh, Next, NEW w \in SUBSET Kind
    PROVE  \/ Left(w)' \subseteq Left(w) /\ faults' = faults
           \/ \E x : Left(w)' \subseteq Left(w) \cup {x} /\ faults' = faults + 1
           \/ /\ UnpackFails
              /\ \/ Left(w)' \subseteq Left(w) \cup {Directory} /\ faults' = faults
                 \/ Left(w)' \subseteq Left(w) \cup {Tarball, Directory} /\ faults' = faults + 1
           \/ /\ RenderHelmChart /\ faults' = faults
              /\ Left(w)' \subseteq Left(w) \cup ({Rendered} \cap {f \in Nat \X Kind : f[2] \in w})
  <1> DEFINE Of(d) == {f \in d : f[2] \in w}
  <1>1. Left(w) = IF Pending THEN Of(disk) \ {Tarball, Directory} ELSE Of(disk)
    BY DEF Left
  <1>2. Left(w)' = IF Pending' THEN Of(disk') \ {Tarball', Directory'} ELSE Of(disk')
    BY DEF Left
  <1>3. ASSUME attempt' = attempt PROVE Tarball' = Tarball /\ Directory' = Directory
    BY <1>3 DEF Tarball, Directory
  <1>4. ASSUME disk' = disk, attempt' = attempt, Pending' <=> Pending
        PROVE  Left(w)' = Left(w)
    BY <1>1, <1>2, <1>3, <1>4
  <1>5. CASE Begin
    <2>1. ~Pending /\ disk' = disk /\ faults' = faults
      BY <1>5 DEF Begin, Pending, ApplyingFiles
    <2> QED
      BY <1>1, <1>2, <2>1
  <1>6. CASE DownloadFile \/ OpenArchive
    <2>1. /\ Pending /\ Pending' /\ attempt' = attempt /\ faults' = faults
          /\ disk' \subseteq disk \cup {Tarball, Directory}
      BY <1>6 DEF DownloadFile, OpenArchive, Pending
    <2> QED
      BY <1>1, <1>2, <1>3, <2>1
  <1>7. CASE UnpackEntry \/ EndOfArchive
    <2>1. /\ Pending /\ Pending' /\ attempt' = attempt /\ faults' = faults /\ disk' = disk
      BY <1>7 DEF UnpackEntry, EndOfArchive, Pending, ApplyingFiles, Types
    <2> QED
      BY <1>4, <2>1
  <1>8. CASE NextFile \/ ApplyDocument \/ EndOfManifest
    <2>1. /\ (Pending' <=> Pending) /\ attempt' = attempt /\ faults' = faults /\ disk' = disk
      BY <1>8 DEF NextFile, ApplyDocument, EndOfManifest, Pending, ApplyingFiles
    <2> QED
      BY <1>4, <2>1
  <1>19. CASE PublishChart
    <2>1. (Pending' <=> Pending) /\ attempt' = attempt /\ faults' = faults /\ disk' = disk
      BY <1>19 DEF PublishChart, Pending, ApplyingFiles
    <2> QED
      BY <1>4, <2>1
  <1>9. ASSUME Unwind, ~Pending', pc \in {"files", "apply"}
        PROVE  \/ Left(w)' \subseteq Left(w) /\ faults' = faults
               \/ \E x : Left(w)' \subseteq Left(w) \cup {x} /\ faults' = faults + 1
    <2>1. CASE phase = CRDs
      <3>1. Pending /\ Deferred = {Tarball, Directory}
        BY <1>9, <2>1 DEF Pending, ApplyingFiles, Deferred
      <3>2. CASE disk' = disk \ Deferred /\ UNCHANGED faults
        BY <1>1, <1>2, <1>9, <3>1, <3>2
      <3>3. CASE Fault /\ \E f \in Deferred : disk' = disk \ (Deferred \ {f})
        <4>1. PICK f \in Deferred : disk' = disk \ (Deferred \ {f})
          BY <3>3
        <4>2. Left(w)' \subseteq Left(w) \cup {f}
          BY <1>1, <1>2, <1>9, <3>1, <4>1
        <4> QED
          BY <3>3, <4>2 DEF Fault
      <3> QED
        BY <1>9, <3>2, <3>3 DEF Unwind
    <2>2. CASE phase # CRDs
      <3>1. Deferred = {}
        BY <1>9, <2>2 DEF Deferred
      <3>2. ~Pending
        BY <1>9, <2>2 DEF Pending, ApplyingFiles
      <3>3. disk' = disk /\ faults' = faults
        BY <1>9, <3>1 DEF Unwind
      <3> QED
        BY <1>1, <1>2, <1>9, <3>2, <3>3
    <2> QED
      BY <2>1, <2>2
  <1>10. CASE EndOfPhase
    <2>1. ~Pending' /\ pc = "files" /\ Unwind
      BY <1>10 DEF EndOfPhase, Pending, ApplyingFiles
    <2> QED
      BY <1>9, <2>1
  <1>11. ASSUME Fails PROVE ~Pending' /\ Left(w)' = Of(disk')
    <2>1. ~Pending'
      BY <1>11 DEF Fails, Pending, ApplyingFiles
    <2> QED
      BY <1>2, <2>1
  <1>12. CASE ApplyFails
    BY <1>9, <1>11, <1>12 DEF ApplyFails
  <1>13. CASE DownloadFails
    <2>1. Pending /\ Directory \notin disk /\ disk' \subseteq disk \cup {Tarball} /\ Fault /\ Fails
      BY <1>13 DEF DownloadFails, Pending, Fresh
    <2>2. Left(w)' \subseteq Left(w) \cup {Tarball}
      BY <1>1, <1>11, <2>1
    <2> QED
      BY <2>1, <2>2 DEF Fault
  <1>14. CASE UnpackFails
    <2>1. Pending /\ Deferred = {Tarball} /\ Unwind /\ Fails
      BY <1>14 DEF UnpackFails, Pending, Deferred
    <2>2. CASE disk' = disk \ Deferred /\ UNCHANGED faults
      <3>1. Left(w)' \subseteq Left(w) \cup {Directory}
        BY <1>1, <1>11, <2>1, <2>2
      <3> QED
        BY <1>14, <2>2, <3>1
    <2>3. CASE Fault /\ \E f \in Deferred : disk' = disk \ (Deferred \ {f})
      <3>1. disk' \subseteq disk
        BY <2>3
      <3>2. Left(w)' \subseteq Left(w) \cup {Tarball, Directory}
        BY <1>1, <1>11, <2>1, <3>1
      <3> QED
        BY <1>14, <2>3, <3>2 DEF Fault
    <2> QED
      BY <2>1, <2>2, <2>3 DEF Unwind
  <1>15. CASE RenderHelmChart
    <2>1. /\ ~Pending /\ ~Pending' /\ disk' = disk \cup {Rendered} /\ faults' = faults
      BY <1>15 DEF RenderHelmChart, Pending, ApplyingFiles, Types, ChartPhase, CRDs,
                   ControllerChart, DefaultsChart
    <2>2. Left(w)' \subseteq Left(w) \cup ({Rendered} \cap {f \in Nat \X Kind : f[2] \in w})
      BY <1>1, <1>2, <2>1, Names
    <2> QED
      BY <1>15, <2>1, <2>2
  <1>16. CASE RenderFails
    <2>1. ~Pending /\ disk' \subseteq disk \cup {Rendered} /\ Fault /\ Fails
      BY <1>16 DEF RenderFails, Pending, ApplyingFiles
    <2>2. Left(w)' \subseteq Left(w) \cup {Rendered}
      BY <1>1, <1>11, <2>1
    <2> QED
      BY <2>1, <2>2 DEF Fault
  <1>17. CASE CallFails
    <2>1. disk' = disk \ Deferred /\ Fault /\ Fails
      BY <1>17 DEF CallFails
    <2>2. CASE pc \in {"open", "unpack"}
      <3>1. Pending /\ Deferred = {Tarball}
        BY <2>2 DEF Pending, Deferred
      <3>2. Left(w)' \subseteq Left(w) \cup {Directory}
        BY <1>1, <1>11, <2>1, <3>1
      <3> QED
        BY <2>1, <3>2 DEF Fault
    <2>3. CASE pc = "apply" /\ phase = CRDs
      <3>1. Pending /\ Deferred = {Tarball, Directory}
        BY <2>3 DEF Pending, ApplyingFiles, Deferred
      <3>2. Left(w)' \subseteq Left(w) \cup {Directory}
        BY <1>1, <1>11, <2>1, <3>1
      <3> QED
        BY <2>1, <3>2 DEF Fault
    <2>4. CASE pc = "apply" /\ phase # CRDs
      <3>1. ~Pending
        BY <2>4 DEF Pending, ApplyingFiles
      <3>2. Left(w)' \subseteq Left(w) \cup {Directory}
        BY <1>1, <1>11, <2>1, <3>1
      <3> QED
        BY <2>1, <3>2 DEF Fault
    <2> QED
      BY <1>17, <2>2, <2>3, <2>4 DEF CallFails
  <1>18. CASE Restart
    <2>1. disk' = {} /\ Fault /\ Fails
      BY <1>18 DEF Restart
    <2>2. Left(w)' \subseteq Left(w) \cup {Directory}
      BY <1>11, <2>1
    <2> QED
      BY <2>1, <2>2 DEF Fault
  <1> QED
    BY <1>5, <1>6, <1>7, <1>8, <1>10, <1>12, <1>13, <1>14, <1>15, <1>16, <1>17, <1>18, <1>19
    DEF Next

\* What is left is a finite number of files.
LEMMA LeftFinite ==
    ASSUME Fresh, NEW w
    PROVE  /\ IsFiniteSet(Left(w)) /\ Cardinality(Left(w)) \in Nat
           /\ Left(w) \subseteq {f \in Nat \X Kind : f[2] \in w}
  <1>1. Left(w) \subseteq disk
    BY DEF Left
  <1>2. IsFiniteSet(Left(w))
    BY <1>1, FS_Subset DEF Fresh
  <1> QED
    BY <1>2, FS_CardinalityType DEF Left, Fresh

\* Of tarballs, and of directories if the archive can be unpacked, a step
\* leaves one for a fault and none without.
LEMMA TarballStep ==
    ASSUME Types, Fresh, Next, NEW w \in SUBSET {"tarball", "directory"},
           w = {"tarball"} \/ ~UnpackFails
    PROVE  /\ Cardinality(Left(w)) \in Nat /\ Cardinality(Left(w)') \in Nat
           /\ \/ Cardinality(Left(w)') <= Cardinality(Left(w)) /\ faults' = faults
              \/ Cardinality(Left(w)') <= Cardinality(Left(w)) + 1 /\ faults' = faults + 1
  <1>1. Fresh' /\ w \in SUBSET Kind
    BY FreshStep DEF Kind
  <1>2. /\ IsFiniteSet(Left(w)) /\ Cardinality(Left(w)) \in Nat
        /\ Left(w) \subseteq {f \in Nat \X Kind : f[2] \in w}
    BY LeftFinite
  <1>3. Cardinality(Left(w)') \in Nat /\ Left(w)' \subseteq {f \in Nat \X Kind : f[2] \in w}
    <2>1. Left(w)' \subseteq disk' /\ Left(w)' \subseteq {f \in disk' : f[2] \in w}
      BY DEF Left
    <2>2. IsFiniteSet(Left(w)')
      BY <1>1, <2>1, FS_Subset DEF Fresh
    <2> QED
      BY <1>1, <2>1, <2>2, FS_CardinalityType DEF Fresh
  <1>4. ASSUME Left(w)' \subseteq Left(w) PROVE Cardinality(Left(w)') <= Cardinality(Left(w))
    BY <1>2, <1>4, FS_Subset
  <1>5. ASSUME NEW x, Left(w)' \subseteq Left(w) \cup {x}
        PROVE  Cardinality(Left(w)') <= Cardinality(Left(w)) + 1
    BY <1>2, <1>5, GrowsByOne
  <1>6. CASE Left(w)' \subseteq Left(w) /\ faults' = faults
    BY <1>2, <1>3, <1>4, <1>6
  <1>7. CASE \E x : Left(w)' \subseteq Left(w) \cup {x} /\ faults' = faults + 1
    BY <1>2, <1>3, <1>5, <1>7
  <1>8. CASE /\ w = {"tarball"}
             /\ \/ Left(w)' \subseteq Left(w) \cup {Directory} /\ faults' = faults
                \/ Left(w)' \subseteq Left(w) \cup {Tarball, Directory} /\ faults' = faults + 1
    <2>1. Directory \notin Left(w)'
      BY <1>3, <1>8, Names
    <2>2. \/ Left(w)' \subseteq Left(w) /\ faults' = faults
          \/ Left(w)' \subseteq Left(w) \cup {Tarball} /\ faults' = faults + 1
      BY <1>8, <2>1
    <2> QED
      BY <1>2, <1>3, <1>4, <1>5, <2>2
  <1>9. CASE /\ faults' = faults
             /\ Left(w)' \subseteq Left(w) \cup ({Rendered} \cap {f \in Nat \X Kind : f[2] \in w})
    <2>1. Rendered \notin {f \in Nat \X Kind : f[2] \in w}
      BY Names
    <2> QED
      BY <1>2, <1>3, <1>4, <1>9, <2>1
  <1> QED
    BY <1>1, <1>6, <1>7, <1>8, <1>9, LeftStep

\* Of all kinds a step leaves at most one file without a fault where a chart
\* is rendered or an archive cannot be unpacked, and none elsewhere.
LEMMA AllKindsStep ==
    ASSUME Types, Fresh, Next
    PROVE  /\ Cardinality(Left(Kind)) \in Nat /\ Cardinality(Left(Kind)') \in Nat
           /\ \/ Cardinality(Left(Kind)') <= Cardinality(Left(Kind)) /\ faults' = faults
              \/ Cardinality(Left(Kind)') <= Cardinality(Left(Kind)) + 1 /\ faults' = faults + 1
              \/ /\ UnpackFails
                 /\ Cardinality(Left(Kind)') <= Cardinality(Left(Kind)) + 2
                 /\ faults' \in {faults, faults + 1}
              \/ /\ RenderHelmChart /\ faults' = faults
                 /\ Cardinality(Left(Kind)') <= Cardinality(Left(Kind)) + 1
  <1>1. IsFiniteSet(Left(Kind)) /\ Cardinality(Left(Kind)) \in Nat
    BY LeftFinite
  <1>2. Cardinality(Left(Kind)') \in Nat
    <2>1. Left(Kind)' \subseteq disk'
      BY DEF Left
    <2>2. IsFiniteSet(Left(Kind)')
      BY <2>1, FreshStep, FS_Subset DEF Fresh
    <2> QED
      BY <2>2, FS_CardinalityType
  <1>3. CASE Left(Kind)' \subseteq Left(Kind) /\ faults' = faults
    BY <1>1, <1>2, <1>3, FS_Subset
  <1>4. ASSUME NEW x, Left(Kind)' \subseteq Left(Kind) \cup {x}
        PROVE  Cardinality(Left(Kind)') <= Cardinality(Left(Kind)) + 1
    BY <1>1, <1>4, GrowsByOne
  <1>5. CASE \E x : Left(Kind)' \subseteq Left(Kind) \cup {x} /\ faults' = faults + 1
    BY <1>1, <1>2, <1>4, <1>5
  <1>6. CASE /\ UnpackFails
             /\ \/ Left(Kind)' \subseteq Left(Kind) \cup {Directory} /\ faults' = faults
                \/ Left(Kind)' \subseteq Left(Kind) \cup {Tarball, Directory} /\ faults' = faults + 1
    <2>1. Left(Kind)' \subseteq Left(Kind) \cup {Tarball, Directory}
      BY <1>6
    <2>2. Cardinality(Left(Kind)') <= Cardinality(Left(Kind)) + 2
      BY <1>1, <2>1, GrowsByTwo
    <2> QED
      BY <1>1, <1>2, <1>6, <2>2
  <1>7. CASE /\ RenderHelmChart /\ faults' = faults
             /\ Left(Kind)' \subseteq
                   Left(Kind) \cup ({Rendered} \cap {f \in Nat \X Kind : f[2] \in Kind})
    <2>1. Left(Kind)' \subseteq Left(Kind) \cup {Rendered}
      BY <1>7
    <2> QED
      BY <1>1, <1>2, <1>4, <1>7, <2>1
  <1> QED
    BY <1>3, <1>5, <1>6, <1>7, LeftStep

\* How the share of this attempt grows.
LEMMA RenderedFilesStep ==
    ASSUME Types, Next, ~PublishChart
    PROVE  /\ RenderedFiles \in 0..2 /\ RenderedFiles' \in 0..2
           /\ Fails => pc' = "idle" /\ RenderedFiles' = 0 /\ attempt' = attempt
           /\ Begin => pc = "idle" /\ pc' # "idle" /\ attempt' = attempt + 1 /\ RenderedFiles = 0
           /\ ~Fails /\ ~Begin =>
                 /\ pc # "idle" /\ pc' # "idle" /\ attempt' = attempt
                 /\ RenderedFiles' >= RenderedFiles
           /\ RenderHelmChart => RenderedFiles' = RenderedFiles + 1
  <1> USE DEF RenderedFiles, CRDs, ControllerChart, DefaultsChart, ChartPhase
  <1>1. RenderedFiles \in 0..2 /\ RenderedFiles' \in 0..2
    OBVIOUS
  <1>2. Fails => pc' = "idle" /\ RenderedFiles' = 0 /\ attempt' = attempt
    BY DEF Fails
  <1>3. Begin => pc = "idle" /\ pc' # "idle" /\ attempt' = attempt + 1 /\ RenderedFiles = 0
    BY DEF Begin, Types
  <1>4. CASE Fails \/ Begin
    <2>1. ~RenderHelmChart
      BY <1>4 DEF Fails, Begin, RenderHelmChart
    <2> QED
      BY <1>1, <1>2, <1>3, <1>4, <2>1
  <1>5. CASE ~Fails /\ ~Begin
    <2>1. CASE DownloadFile \/ OpenArchive \/ UnpackEntry \/ EndOfArchive
      BY <1>1, <1>2, <1>3, <1>5, <2>1
      DEF DownloadFile, OpenArchive, UnpackEntry, EndOfArchive, RenderHelmChart, Types
    <2>2. CASE NextFile \/ ApplyDocument \/ EndOfManifest
      BY <1>1, <1>2, <1>3, <1>5, <2>2
      DEF NextFile, ApplyDocument, EndOfManifest, RenderHelmChart, Types
    <2>3. CASE EndOfPhase
      <3>1. /\ pc = "files" /\ attempt' = attempt /\ pc' \in {"done", "render"}
            /\ IF phase = DefaultsChart THEN pc' = "done" /\ phase' = phase
               ELSE pc' = "render" /\ phase' = phase + 1
        BY <2>3 DEF EndOfPhase
      <3>2. phase \in {1, 2, 3}
        BY DEF Types
      <3>3. RenderedFiles' >= RenderedFiles /\ ~RenderHelmChart
        BY <3>1, <3>2 DEF RenderHelmChart
      <3> QED
        BY <1>1, <1>2, <1>3, <1>5, <3>1, <3>3
    <2>4. CASE RenderHelmChart
      <3>1. pc = "render" /\ pc' = "apply" /\ attempt' = attempt /\ phase' = phase
        BY <2>4 DEF RenderHelmChart
      <3>2. phase \in {2, 3}
        BY <3>1 DEF Types
      <3>3. RenderedFiles' = RenderedFiles + 1
        BY <3>1, <3>2
      <3> QED
        BY <1>1, <1>2, <1>3, <1>5, <3>1, <3>3
    <2> QED
      BY <1>5, <2>1, <2>2, <2>3, <2>4
      DEF Next, DownloadFails, UnpackFails, ApplyFails, RenderFails, CallFails, Restart
  <1> QED
    BY <1>4, <1>5

\* Every step keeps the accounts.
LEMMA AccountsStep == Types /\ Fresh /\ Accounts /\ [Next]_vars => Accounts'
  <1> SUFFICES ASSUME Types, Fresh, Accounts, [Next]_vars PROVE Accounts'
    OBVIOUS
  <1>0. attempt \in Nat /\ faults \in Nat
    BY DEF Types
  <1>1. CASE UNCHANGED vars \/ PublishChart
    <2>1. UNCHANGED <<archive, attempt, pc, phase, disk, faults>>
      BY <1>1 DEF vars, published, PublishChart
    <2> QED
      BY <2>1 DEF Accounts, Left, Pending, ApplyingFiles, Tarball, Directory, RenderedFiles, Flat
  <1>2. CASE Next /\ ~PublishChart
    <2>1. Cardinality(Left({"tarball"})') <= faults'
      <3>1. Cardinality(Left({"tarball"})) <= faults
        BY DEF Accounts
      <3>2. {"tarball"} \in SUBSET {"tarball", "directory"}
        OBVIOUS
      <3> HIDE DEF Accounts
      <3> QED
        BY <1>0, <1>2, <3>1, <3>2, TarballStep
    <2>2. ASSUME Flat' PROVE Cardinality(Left({"tarball", "directory"})') <= faults'
      <3>1. Flat
        BY <2>2, OfferGrows
      <3>2. ~UnpackFails
        BY <3>1 DEF UnpackFails, Flat
      <3>3. Cardinality(Left({"tarball", "directory"})) <= faults
        BY <3>1 DEF Accounts
      <3> QED
        BY <1>0, <1>2, <3>2, <3>3, TarballStep
    <2>3. Cardinality(Left(Kind)') <=
             faults' + 2 * (IF pc' = "idle" THEN attempt' ELSE attempt' - 1) + RenderedFiles'
      <3>0. PICK n, m, r, s, g, b :
                   /\ n = Cardinality(Left(Kind)) /\ m = Cardinality(Left(Kind)')
                   /\ r = RenderedFiles /\ s = RenderedFiles'
                   /\ g = faults' /\ b = attempt'
        OBVIOUS
      <3>1. n <= faults + 2 * (IF pc = "idle" THEN attempt ELSE attempt - 1) + r
        BY <3>0 DEF Accounts
      <3>2. /\ n \in Nat /\ m \in Nat
            /\ \/ m <= n /\ g = faults
               \/ m <= n + 1 /\ g = faults + 1
               \/ UnpackFails /\ m <= n + 2 /\ g \in {faults, faults + 1}
               \/ RenderHelmChart /\ g = faults /\ m <= n + 1
        BY <1>2, <3>0, AllKindsStep
      <3>3. /\ r \in 0..2 /\ s \in 0..2
            /\ Fails => pc' = "idle" /\ s = 0 /\ b = attempt
            /\ Begin => pc = "idle" /\ pc' # "idle" /\ b = attempt + 1 /\ r = 0
            /\ ~Fails /\ ~Begin =>
                  pc # "idle" /\ pc' # "idle" /\ b = attempt /\ s >= r
            /\ RenderHelmChart => s = r + 1
        BY <1>2, <3>0, RenderedFilesStep
      <3>4. UnpackFails => Fails /\ r = 0 /\ pc # "idle"
        BY <3>0 DEF UnpackFails, RenderedFiles, Types, CRDs, ChartPhase, ControllerChart, DefaultsChart
      <3>5. RenderHelmChart => ~Fails /\ ~Begin
        BY DEF RenderHelmChart, Fails, Begin
      <3>6. pc = "idle" => r = 0
        BY <3>0 DEF RenderedFiles, Types, CRDs, ChartPhase, ControllerChart, DefaultsChart
      <3>7. g \in Nat /\ b \in Nat
        BY <1>0, <3>2, <3>3, <3>0
      <3>8. /\ pc = "idle" => n <= faults + 2 * attempt + r
            /\ pc # "idle" => n <= faults + 2 * (attempt - 1) + r
        BY <3>1
      <3>9. ASSUME Fails PROVE m <= g + 2 * b + s
        <4>1. n <= faults + 2 * attempt
          BY <1>0, <3>2, <3>3, <3>6, <3>8
        <4>2. UnpackFails => n + 2 <= faults + 2 * attempt
          BY <1>0, <3>2, <3>3, <3>4, <3>8
        <4>3. s = 0 /\ b = attempt /\ ~RenderHelmChart
          BY <3>3, <3>5, <3>9
        <4>4. m <= g + 2 * attempt
          BY <1>0, <3>2, <3>7, <4>1, <4>2, <4>3
        <4> QED
          BY <1>0, <3>2, <3>7, <4>3, <4>4
      <3>10. ASSUME ~Fails PROVE m <= g + 2 * (b - 1) + s
        <4>1. ~UnpackFails
          BY <3>4, <3>10
        <4>2. CASE Begin
          <5>1. n <= faults + 2 * attempt /\ b - 1 = attempt
            BY <1>0, <3>2, <3>3, <3>8, <4>2
          <5>2. m <= g + 2 * attempt
            BY <1>0, <3>2, <3>5, <3>7, <4>1, <4>2, <5>1
          <5> QED
            BY <1>0, <3>2, <3>3, <3>7, <5>1, <5>2
        <4>3. CASE ~Begin
          <5>1. n <= faults + 2 * (attempt - 1) + r /\ b = attempt /\ s >= r
            BY <3>3, <3>8, <3>10, <4>3
          <5>2. \/ m <= n /\ g = faults
                \/ m <= n + 1 /\ g = faults + 1
                \/ m <= n + 1 /\ g = faults /\ s = r + 1
            BY <3>2, <3>3, <4>1
          <5> QED
            BY <1>0, <3>2, <3>3, <3>7, <5>1, <5>2
        <4> QED
          BY <4>2, <4>3
      <3>11. pc' = "idle" <=> Fails
        BY <3>3
      <3> QED
        BY <3>0, <3>9, <3>10, <3>11
    <2> QED
      BY <2>1, <2>2, <2>3 DEF Accounts
  <1> QED
    BY <1>1, <1>2

\* Retries fill the temporary directory no faster than with two rendered files
\* an attempt; a tarball stays only for a failed call, and so does a directory
\* unless the archive cannot be unpacked (extractTarGz then returns no name to
\* remove).
THEOREM ResidueHolds == Spec => []Residue
  <1> DEFINE Inv == Types /\ Fresh /\ Accounts
  <1>1. Init => Inv
    <2> SUFFICES ASSUME Init PROVE Fresh /\ Accounts
      BY TypesInit
    <2>1. disk = {} /\ faults = 0 /\ attempt = 0 /\ pc = "idle" /\ phase = CRDs
      BY DEF Init
    <2>2. \A w : Left(w) = {}
      BY <2>1 DEF Left
    <2>3. RenderedFiles = 0
      BY <2>1 DEF RenderedFiles, CRDs, DefaultsChart
    <2> QED
      BY <2>1, <2>2, <2>3, FS_EmptySet DEF Fresh, Accounts
  <1>2. Inv /\ [Next]_vars => Inv'
    BY TypesStep, FreshStep, AccountsStep
  <1>3. Inv => Residue
    <2> SUFFICES ASSUME Types, Fresh, Accounts PROVE Residue
      OBVIOUS
    <2> DEFINE over == {f \in disk : f[1] < attempt \/ pc \in {"idle", "done"}}
    <2>0. attempt \in Nat /\ faults \in Nat
      BY DEF Types
    <2>1. ASSUME NEW w
          PROVE  {f \in over : f[2] \in w} \subseteq Left(w)
      <3> SUFFICES ASSUME NEW f \in over, f[2] \in w PROVE f \in Left(w)
        OBVIOUS
      <3>1. Pending => f # Tarball /\ f # Directory
        BY <2>0, Names DEF Pending, ApplyingFiles
      <3> QED
        BY <3>1 DEF Left
    <2>2. ASSUME NEW w
          PROVE  /\ Cardinality({f \in over : f[2] \in w}) <= Cardinality(Left(w))
                 /\ Cardinality({f \in over : f[2] \in w}) \in Nat
                 /\ Cardinality(Left(w)) \in Nat
      <3>1. IsFiniteSet(Left(w)) /\ Cardinality(Left(w)) \in Nat
        BY LeftFinite
      <3>2. {f \in over : f[2] \in w} \in SUBSET Left(w)
        BY <2>1
      <3> HIDE DEF over
      <3> QED
        BY <3>1, <3>2, FS_Subset, FS_CardinalityType
    <2>3. {f \in over : f[2] = "tarball"} = {f \in over : f[2] \in {"tarball"}}
      OBVIOUS
    <2>4. Cardinality({f \in over : f[2] = "tarball"}) <= faults
      <3>1. Cardinality(Left({"tarball"})) <= faults
        BY DEF Accounts
      <3>2. /\ Cardinality({f \in over : f[2] \in {"tarball"}}) <= Cardinality(Left({"tarball"}))
            /\ Cardinality({f \in over : f[2] \in {"tarball"}}) \in Nat
            /\ Cardinality(Left({"tarball"})) \in Nat
        BY <2>2
      <3> HIDE DEF over
      <3> QED
        BY <2>0, <2>3, <3>1, <3>2
    <2>5. ASSUME Flat
          PROVE  Cardinality({f \in over : f[2] \in {"tarball", "directory"}}) <= faults
      <3> DEFINE w == {"tarball", "directory"}
      <3>1. Cardinality(Left(w)) <= faults
        BY <2>5 DEF Accounts
      <3>2. /\ Cardinality({f \in over : f[2] \in w}) <= Cardinality(Left(w))
            /\ Cardinality({f \in over : f[2] \in w}) \in Nat
            /\ Cardinality(Left(w)) \in Nat
        BY <2>2
      <3> HIDE DEF over, w
      <3>3. Cardinality({f \in over : f[2] \in w}) <= faults
        BY <2>0, <3>1, <3>2
      <3> QED
        BY <3>3 DEF w
    <2>6. Cardinality(disk) <= 2 * attempt + faults
      <3>1. IsFiniteSet(Left(Kind)) /\ Cardinality(Left(Kind)) \in Nat
        BY LeftFinite
      <3>2. Cardinality(Left(Kind)) <=
               faults + 2 * (IF pc = "idle" THEN attempt ELSE attempt - 1) + RenderedFiles
        BY DEF Accounts
      <3>3. CASE Pending
        <4>1. disk \subseteq Left(Kind) \cup {Tarball, Directory}
          BY <3>3 DEF Left, Fresh
        <4>2. Cardinality(disk) \in Nat /\ Cardinality(disk) <= Cardinality(Left(Kind)) + 2
          BY <3>1, <4>1, GrowsByTwo
        <4>3. pc # "idle" /\ RenderedFiles = 0
          BY <3>3 DEF Pending, ApplyingFiles, RenderedFiles, Types, CRDs, DefaultsChart
        <4> QED
          BY <2>0, <3>1, <3>2, <4>2, <4>3
      <3>4. CASE ~Pending
        <4>1. disk = Left(Kind)
          BY <3>4 DEF Left, Fresh
        <4>2. RenderedFiles \in 0..2 /\ (pc = "idle" => RenderedFiles = 0)
          BY DEF RenderedFiles, Types, CRDs, DefaultsChart
        <4> QED
          BY <2>0, <3>1, <3>2, <4>1, <4>2
      <3> QED
        BY <3>3, <3>4
    <2> QED
      BY <2>4, <2>5, <2>6 DEF Residue
  <1> QED
    BY <1>1, <1>2, <1>3, PTL DEF Spec
=============================================================================
