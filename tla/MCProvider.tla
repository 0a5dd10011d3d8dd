----------------------------- MODULE MCProvider ----------------------------
(* Values for the constants of Provider. *)
EXTENDS Provider, PolicyWebhook

\* A CRD, the controller, the default PolicyServer; the audit scanner, which
\* is optional, is not shipped.
MCManifests == << << <<"policy CRD">> >>, << <<"deployment">> >>, << <<"policy server">> >> >>
MCObject == {"namespace", "policy CRD", "deployment", "policy server", "audit scanner"}

OneNamespace == [x \in Addon \cup Policy \cup Cluster |-> "fleet"]

All == [valid |-> TRUE, matches |-> Label]
AllSelector == {All}

LeftEmpty == {""}

\* A spec with everything that can be defaulted left empty.
Everywhere ==
    [selector |-> All, policyType |-> Empty, policyName |-> Empty,
     targetNamespace |-> Empty, policyServer |-> Empty, failurePolicy |-> Empty,
     module |-> "m1",
     rules |-> << [apiVersions |-> <<"v1">>, resources |-> <<"pods">>,
                   operations |-> <<"CREATE">>, scope |-> Empty] >>]

OneModule == {Everywhere}

Stored == {Default(p, Everywhere) : p \in Policy}
Keys == {PolicyKey(s) : s \in Stored}
Specs == {BuildPolicySpec(s) : s \in Stored}
=============================================================================
