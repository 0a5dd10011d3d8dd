------------------------------ MODULE MCAddon ------------------------------
(* Values for the constants of AddonController. *)
EXTENDS AddonController, TLC

CONSTANTS c1, c2, a1, a2

Crd == "policy CRD"
Crd2 == "group policy CRD"

\* One CRD file; the controller chart; the defaults chart.
MCObject == {KubewardenNamespace, Crd, Deployment, AuditScanner, PolicyServer}
MCManifests == << << <<Crd>> >>,
                  << <<Deployment, AuditScanner>> >>,
                  << <<PolicyServer>> >> >>

\* The audit scanner is optional.
NoScannerManifests == << << <<Crd>> >>, << <<Deployment>> >>, << <<PolicyServer>> >> >>

\* Two CRD files; a chart that ends in a null document.
MoreObjects == MCObject \cup {Crd2}
MoreManifests == << << <<Crd>>, <<Crd2>> >>,
                    << <<Deployment, NullDoc>> >>,
                    << <<PolicyServer>> >> >>

AnyVersion == Version \cup {Unset}
UnreleasedOrUnset == (Version \ Released) \cup {Unset}

OneNamespace == [x \in Addon \cup Cluster |-> "fleet"]
TwoNamespaces == [x \in Addon \cup Cluster |-> IF x = c2 THEN "lab" ELSE "fleet"]

Matching(labels) == [valid |-> TRUE, matches |-> labels]

AllOrInvalid == {Matching(Label), NoSelector}
SomeSelectors == {Matching(Label), Matching({})}

ProdSelectors == {Matching({"prod"}), Matching({})}

Symmetric == Permutations(Cluster)
SymmetricAddons == Permutations(Addon)
=============================================================================
