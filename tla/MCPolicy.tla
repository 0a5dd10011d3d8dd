----------------------------- MODULE MCPolicy ------------------------------
(* Values for the constants of PolicyController. *)
EXTENDS PolicyController, TLC

CONSTANTS c1, c2

OneNamespace == [x \in Policy \cup Cluster |-> "fleet"]
TwoNamespaces == [x \in Policy \cup Cluster |-> IF x = c2 THEN "lab" ELSE "fleet"]

Matching(labels) == [valid |-> TRUE, matches |-> labels]
InvalidSelector == [valid |-> FALSE, matches |-> {}]

Rule(ops, scope) == [apiVersions |-> <<"v1">>, resources |-> <<"pods">>,
                     operations |-> ops, scope |-> scope]

\* A spec with everything that can be defaulted left empty.
Sparse(selector, module) ==
    [selector |-> selector, policyType |-> Empty, policyName |-> Empty,
     targetNamespace |-> Empty, policyServer |-> Empty, failurePolicy |-> Empty,
     module |-> module, rules |-> <<Rule(<<"CREATE">>, Empty)>>]

Everywhere == Sparse(Matching(Label), "m1")
Upgraded == [Everywhere EXCEPT !.module = "m2"]

TwoModules == {Everywhere, Upgraded}
JustOne == {Everywhere}

\* Every way to name a policy, broken selectors and rules included.
ManySpecs ==
    {Everywhere, Sparse(InvalidSelector, "m1"), Sparse(Matching(Label), Empty),
     [Everywhere EXCEPT !.rules = <<Rule(<<"PATCH">>, "*")>>],
     [Everywhere EXCEPT !.policyType = AdmissionPolicy,
                        !.rules = <<Rule(<<"DELETE">>, "*")>>],
     [Everywhere EXCEPT !.policyType = AdmissionPolicy, !.targetNamespace = "shop",
                        !.failurePolicy = "Ignore"],
     [Everywhere EXCEPT !.policyName = "named", !.policyServer = "other"]}

Keys == {PolicyKey(s) : s \in StoredSpec}
Specs == {BuildPolicySpec(s) : s \in StoredSpec}

Symmetric == Permutations(Cluster)
=============================================================================
