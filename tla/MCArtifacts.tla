----------------------------- MODULE MCArtifacts ---------------------------
(* Values for the constants of Artifacts. *)
EXTENDS Artifacts

Crd1 == "policy CRD"
Crd2 == "group policy CRD"
Deployment == "deployment"
PolicyServer == "policy server"

MCObject == {Crd1, Crd2, Deployment, PolicyServer}

\* Names 1 and 2 end in .yaml, name 3 does not.
MCYaml == {1, 2}

Dir == [kind |-> "dir", name |-> 0, docs |-> <<>>]
File(n, docs) == [kind |-> "flat", name |-> n, docs |-> docs]
Nested(docs) == [kind |-> "nested", name |-> 1, docs |-> docs]

\* Files in and against the order of their names, one that is not YAML, one
\* that comes twice, a null, a bad document, no file, and a file in a directory.
MCArchives ==
    {<<File(1, <<Crd1>>), File(2, <<Crd2>>)>>,
     <<Dir, File(2, <<Crd2, NullDoc, BadDoc>>), File(1, <<Crd1>>), File(3, <<Deployment>>)>>,
     <<File(1, <<Crd2>>), File(1, <<Crd1>>)>>,
     <<File(1, <<Crd1, Crd2>>), File(2, <<BadDoc, Crd2>>)>>,
     <<File(1, <<NullDoc, Crd1>>), File(2, <<Crd1, Crd2>>)>>,
     <<>>,
     <<File(1, <<Crd1>>), Dir, Nested(<<Crd2>>)>>}

MCCharts == {<<Deployment, NullDoc>>, <<PolicyServer, NullDoc, Deployment>>,
             <<PolicyServer, BadDoc>>, <<>>}
=============================================================================
