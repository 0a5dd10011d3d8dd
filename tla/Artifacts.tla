------------------------------ MODULE Artifacts -----------------------------
(***************************************************************************)
(* What AddonController takes as one step, "fetch", and as sequences of    *)
(* documents: the release's CRDS.tar.gz is downloaded, unpacked and its    *)
(* YAML files applied one by one; the two charts are rendered to a file    *)
(* each and applied.  An attempt that fails is followed by another one,    *)
(* which meets the same release but may meet newer charts.  One Cluster,   *)
(* one version; what attempts leave in the container's temporary directory *)
(* is part of the state.                                                   *)
(***************************************************************************)
EXTENDS Naturals, Sequences, FiniteSets

CONSTANTS
    Object,       \* objects in manifests
    Archives,     \* archives that may be published
    Charts,       \* what a chart may render to: a sequence of documents
    Yaml,         \* file names that end in .yaml; names are in Glob's order
    MaxPublished, \* bound: charts published after the first attempt began
    MaxAttempts,  \* bound: attempts
    MaxFaults     \* bound: failed calls and restarts

\* A document that is a comment or a null: no kind can be decoded.  One that
\* is no YAML, or of a kind the scheme does not have.
NullDoc == "null document"
BadDoc == "bad document"
Document == Object \cup {NullDoc, BadDoc}

CRDs == 1
ControllerChart == 2
DefaultsChart == 3

\* Entries of an archive: a directory, a file next to it, a file in it.
Entry == [kind : {"dir", "flat", "nested"}, name : Nat, docs : Seq(Document)]

ASSUME ArtifactsAssumption ==
    /\ Object \cap {NullDoc, BadDoc} = {}
    /\ Archives \subseteq Seq(Entry)
    /\ Charts \subseteq Seq(Document)
    /\ Yaml \subseteq Nat
    /\ MaxPublished \in Nat /\ MaxAttempts \in Nat /\ MaxFaults \in Nat

VARIABLES
    archive, charts,    \* the release, and the newest chart of either name
    publications,       \* number of charts published since
    attempt,            \* number of attempts begun
    pc,                 \* where the attempt is; "idle" between attempts
    phase,              \* CRDs, controller or defaults
    entry,              \* the archive's next entry
    unpacked,           \* the extraction directory: documents by file name
    todo,               \* files still to apply
    manifest,           \* documents of the file in hand still to apply
    created,            \* objects on the workload cluster
    disk,               \* temporary files, each as <<attempt, what>>
    faults,             \* number of failed calls and restarts so far
    \* For the properties: all charts published so far, and what this attempt
    \* has rendered of them.
    offered, used

published == <<archive, charts, publications, offered>>
vars == <<published, attempt, pc, phase, entry, unpacked, todo, manifest,
          created, disk, faults, used>>

NoFiles == [n \in {} |-> <<>>]
NothingUsed == [p \in {ControllerChart, DefaultsChart} |-> <<>>]

Init ==
    /\ archive \in Archives
    /\ charts \in [{ControllerChart, DefaultsChart} -> Charts]
    /\ publications = 0
    /\ offered = {charts[p] : p \in DOMAIN charts}
    /\ used = NothingUsed
    /\ attempt = 0
    /\ pc = "idle"
    /\ phase = CRDs
    /\ entry = 1
    /\ unpacked = NoFiles
    /\ todo = {}
    /\ manifest = <<>>
    /\ created = {}
    /\ disk = {}
    /\ faults = 0

Tarball == <<attempt, "tarball">>
Directory == <<attempt, "directory">>
Rendered == <<attempt, IF phase = ControllerChart THEN "controller" ELSE "defaults">>

Fault == faults < MaxFaults /\ faults' = faults + 1

\* Mutant: RemoveAll is forgotten.
DeferredTarball ==
    IF pc \in {"open", "unpack"} \/ (phase = CRDs /\ pc \in {"files", "apply"})
    THEN {Tarball} ELSE {}

\* The removals deferred so far.  An extraction that fails returns no name of
\* its directory, and nothing removes a rendered file.
Deferred ==
    CASE pc \in {"open", "unpack"}                 -> {Tarball}
      [] phase = CRDs /\ pc \in {"files", "apply"} -> {Tarball, Directory}
      [] OTHER                                     -> {}

\* Deferred removals run; the error of one of them is printed.
Unwind ==
    \/ disk' = disk \ Deferred /\ UNCHANGED faults
    \/ Fault /\ \E f \in Deferred : disk' = disk \ (Deferred \ {f})

\* The attempt returns with an error, and its local state is gone.
Fails ==
    /\ pc' = "idle"
    /\ phase' = CRDs
    /\ entry' = 1
    /\ unpacked' = NoFiles
    /\ todo' = {}
    /\ manifest' = <<>>
    /\ used' = NothingUsed
    /\ UNCHANGED <<published, attempt, created>>

(***************************************************************************)
(* downloadFile and extractTarGz.                                          *)
(***************************************************************************)
Begin ==
    /\ pc = "idle"
    /\ attempt < MaxAttempts
    /\ attempt' = attempt + 1
    /\ pc' = "download"
    /\ UNCHANGED <<published, phase, entry, unpacked, todo, manifest, created, disk, faults, used>>

DownloadFile ==
    /\ pc = "download"
    /\ disk' = disk \cup {Tarball}
    /\ pc' = "open"
    /\ UNCHANGED <<published, attempt, phase, entry, unpacked, todo, manifest, created, faults, used>>

\* When the copy fails the file is there, but its name is not returned.
DownloadFails ==
    /\ pc = "download"
    /\ Fault
    /\ disk' \in {disk, disk \cup {Tarball}}
    /\ Fails

OpenArchive ==
    /\ pc = "open"
    /\ disk' = disk \cup {Directory}
    /\ pc' = "unpack"
    /\ UNCHANGED <<published, attempt, phase, entry, unpacked, todo, manifest, created, faults, used>>

\* A name that comes twice is written twice.
Write(files, e) ==
    [n \in DOMAIN files \cup {e.name} |-> IF n = e.name THEN e.docs ELSE files[n]]

\* Directories are skipped, hence not made.
UnpackEntry ==
    /\ pc = "unpack"
    /\ entry \in DOMAIN archive
    /\ archive[entry].kind # "nested"
    /\ unpacked' = IF archive[entry].kind = "dir" THEN unpacked
                   ELSE Write(unpacked, archive[entry])
    /\ entry' = entry + 1
    /\ UNCHANGED <<published, attempt, pc, phase, todo, manifest, created, disk, faults, used>>

\* Mutant: the entry is passed over.
UnpackSkips ==
    /\ pc = "unpack"
    /\ entry \in DOMAIN archive
    /\ archive[entry].kind = "nested"
    /\ entry' = entry + 1
    /\ UNCHANGED <<published, attempt, pc, phase, unpacked, todo, manifest, created, disk, faults, used>>

\* os.Create finds no directory to create the file in.
UnpackFails ==
    /\ pc = "unpack"
    /\ entry \in DOMAIN archive
    /\ archive[entry].kind = "nested"
    /\ Unwind
    /\ Fails

\* Mutant: all files.
GlobAll == DOMAIN unpacked

Glob == DOMAIN unpacked \cap Yaml

EndOfArchive ==
    /\ pc = "unpack"
    /\ entry \notin DOMAIN archive
    /\ todo' = Glob
    /\ pc' = "files"
    /\ UNCHANGED <<published, attempt, phase, entry, unpacked, manifest, created, disk, faults, used>>

(***************************************************************************)
(* The loop over the files, and applyManifest.                             *)
(***************************************************************************)
First(names) == CHOOSE n \in names : \A k \in names : n <= k

NextFile ==
    /\ pc = "files"
    /\ todo # {}
    /\ manifest' = unpacked[First(todo)]
    /\ todo' = todo \ {First(todo)}
    /\ pc' = "apply"
    /\ UNCHANGED <<published, attempt, phase, entry, unpacked, created, disk, faults, used>>

Answer(o) == IF o \in created THEN "AlreadyExists" ELSE "created"

\* Mutant: AlreadyExists is an error.
ToleratedCreated == {"created"}

\* The answers to Create after which the loop goes on.
Tolerated == {"created", "AlreadyExists"}

Unusable(d) == d = BadDoc \/ (d \in Object /\ Answer(d) \notin Tolerated)

ApplyDocument ==
    /\ pc = "apply"
    /\ manifest # <<>>
    /\ Head(manifest) # NullDoc /\ ~Unusable(Head(manifest))
    /\ created' = created \cup {Head(manifest)}
    /\ manifest' = Tail(manifest)
    /\ UNCHANGED <<published, attempt, pc, phase, entry, unpacked, todo, disk, faults, used>>

ApplyFails ==
    /\ pc = "apply"
    /\ manifest # <<>>
    /\ Unusable(Head(manifest))
    /\ Unwind
    /\ Fails

\* A null document ends the file.
EndOfManifest ==
    /\ pc = "apply"
    /\ manifest # <<>> => Head(manifest) = NullDoc
    /\ manifest' = <<>>
    /\ pc' = "files"
    /\ UNCHANGED <<published, attempt, phase, entry, unpacked, todo, created, disk, faults, used>>

EndOfPhase ==
    /\ pc = "files"
    /\ todo = {}
    /\ Unwind
    /\ IF phase = DefaultsChart
       THEN pc' = "done" /\ UNCHANGED phase
       ELSE pc' = "render" /\ phase' = phase + 1
    /\ unpacked' = NoFiles
    /\ UNCHANGED <<published, attempt, entry, todo, manifest, created, used>>

(***************************************************************************)
(* renderHelmChart.                                                        *)
(***************************************************************************)
\* Someone publishes a new version of a chart.
PublishChart ==
    /\ publications < MaxPublished
    /\ publications' = publications + 1
    /\ \E p \in DOMAIN charts : \E ch \in Charts \ {charts[p]} :
          /\ charts' = [charts EXCEPT ![p] = ch]
          /\ offered' = offered \cup {ch}
    /\ UNCHANGED <<archive, attempt, pc, phase, entry, unpacked, todo, manifest,
                   created, disk, faults, used>>

\* A dry run without a cluster: what the newest chart says, CRDs and hooks
\* left out.
HelmTemplate(p) == charts[p]

RenderHelmChart ==
    /\ pc = "render"
    /\ disk' = disk \cup {Rendered}
    /\ manifest' = HelmTemplate(phase)
    /\ used' = [used EXCEPT ![phase] = HelmTemplate(phase)]
    /\ pc' = "apply"
    /\ UNCHANGED <<published, attempt, phase, entry, unpacked, todo, created, faults>>

\* The chart is not found or does not render, or the file cannot be written.
RenderFails ==
    /\ pc = "render"
    /\ Fault
    /\ disk' \in {disk, disk \cup {Rendered}}
    /\ Fails

(***************************************************************************)
(* Failures and the specification.                                         *)
(***************************************************************************)
\* A torn archive, a file that cannot be opened, an API server that fails.
CallFails ==
    /\ pc \in {"open", "unpack", "apply"}
    /\ Fault
    /\ disk' = disk \ Deferred
    /\ Fails

\* The container is killed; the next one starts with an empty directory.
Restart ==
    /\ pc # "done"
    /\ Fault
    /\ disk' = {}
    /\ Fails

Next ==
    \/ Begin \/ DownloadFile \/ DownloadFails
    \/ OpenArchive \/ UnpackEntry \/ UnpackFails \/ EndOfArchive
    \/ NextFile \/ ApplyDocument \/ ApplyFails \/ EndOfManifest \/ EndOfPhase
    \/ RenderHelmChart \/ RenderFails \/ PublishChart
    \/ CallFails \/ Restart

Spec == Init /\ [][Next]_vars

(***************************************************************************)
(* The reference: what is in the release and the charts.                   *)
(***************************************************************************)
\* All documents of a file but the null ones, and whether these come last.
Documents(docs) == {docs[d] : d \in DOMAIN docs} \ {NullDoc}
NullsLast(docs) ==
    \A d, e \in DOMAIN docs : d < e /\ docs[d] = NullDoc => docs[e] = NullDoc

\* The last file of each YAML name.
Final == {e \in DOMAIN archive :
            /\ archive[e].kind = "flat" /\ archive[e].name \in Yaml
            /\ \A k \in DOMAIN archive :
                  k > e /\ archive[k].kind = "flat" => archive[k].name # archive[e].name}

ReleaseFiles == {archive[e].docs : e \in Final}

\* What an attempt that is through has applied, and what any attempt may have.
Sources == ReleaseFiles \cup {used[p] : p \in DOMAIN used}
OnOffer == UNION {Documents(docs) : docs \in ReleaseFiles \cup offered}

Flat == \A e \in DOMAIN archive : archive[e].kind # "nested"

(***************************************************************************)
(* Properties.                                                             *)
(***************************************************************************)
\* When an attempt succeeds, all of the release's YAML files and of the charts
\* it rendered is on the workload cluster, whatever earlier attempts failed at
\* and whichever charts they rendered, except for files with documents behind
\* a null one; and nothing is there that was not in the release or in a chart
\* of its time: neither files without the suffix nor overwritten ones count,
\* and nothing undecodable was passed over.
InstalledAsPublished ==
    pc = "done" =>
        /\ created \subseteq OnOffer \cap Object
        /\ \A docs \in Sources : NullsLast(docs) => Documents(docs) \subseteq created

\* An archive that cannot be unpacked to the end contributes nothing, in any
\* attempt: no part of it is applied, and no chart without it.
WholeArchives == created # {} => Flat

\* With a release and charts that can be applied, every failed attempt is due
\* to a fault of its own: what a failed attempt leaves on the workload cluster
\* and on the disk does not make the next one fail, even if a newer chart
\* repeats objects of the one before.
FailuresAreFaults ==
    Flat /\ OnOffer \subseteq Object =>
        attempt <= faults + (IF pc = "idle" THEN 0 ELSE 1)

\* Retries fill the temporary directory, but no faster than with two rendered
\* files an attempt; a tarball or a directory stays only for a failed call,
\* or a directory for an archive that cannot be unpacked.
Residue ==
    LET over == {f \in disk : f[1] < attempt \/ pc \in {"idle", "done"}}
    IN  /\ Cardinality(disk) <= 2 * attempt + faults
        /\ Cardinality({f \in over : f[2] = "tarball"}) <= faults
        /\ Flat => Cardinality({f \in over : f[2] \in {"tarball", "directory"}}) <= faults

(***************************************************************************)
(* What a comment says and the code does not do.                           *)
(***************************************************************************)
\* applyManifest, at a document without a kind: "this is an invalid object,
\* skip it".
NullsSkipped ==
    pc = "done" => \A docs \in Sources : Documents(docs) \cap Object \subseteq created
=============================================================================
