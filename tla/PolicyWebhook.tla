--------------------------- MODULE PolicyWebhook ---------------------------
(***************************************************************************)
(* What admission does to a KubewardenPolicy before it is stored (Default, *)
(* validateKubewardenPolicy), and what the controller makes of the stored  *)
(* object on a workload cluster (its key and buildPolicySpec).             *)
(***************************************************************************)
EXTENDS Naturals, Sequences

\* A string field left empty, and a pointer that is nil.
Empty == ""
Nil == "nil"

ClusterAdmissionPolicy == "ClusterAdmissionPolicy"
AdmissionPolicy == "AdmissionPolicy"

OrDefault(field, value) == IF field = Empty THEN value ELSE field

\* Mutant: spec.policyName is not defaulted.
DefaultUnnamed(name, s) ==
    LET type == OrDefault(s.policyType, ClusterAdmissionPolicy)
    IN  [s EXCEPT !.policyType = type,
                  !.policyServer = OrDefault(s.policyServer, "default"),
                  !.failurePolicy = OrDefault(s.failurePolicy, "Fail"),
                  !.targetNamespace = IF type = AdmissionPolicy
                                      THEN OrDefault(s.targetNamespace, "default")
                                      ELSE s.targetNamespace]

Default(name, s) ==
    LET type == OrDefault(s.policyType, ClusterAdmissionPolicy)
    IN  [s EXCEPT !.policyType = type,
                  !.policyServer = OrDefault(s.policyServer, "default"),
                  !.failurePolicy = OrDefault(s.failurePolicy, "Fail"),
                  !.policyName = OrDefault(s.policyName, name),
                  !.targetNamespace = IF type = AdmissionPolicy
                                      THEN OrDefault(s.targetNamespace, "default")
                                      ELSE s.targetNamespace]

ValidOps == {"CREATE", "UPDATE", "DELETE", "CONNECT"}

ValidateKubewardenPolicy(s) ==
    /\ s.module # Empty
    /\ s.rules # <<>>
    /\ \A i \in DOMAIN s.rules :
          /\ s.rules[i].apiVersions # <<>>
          /\ s.rules[i].resources # <<>>
          /\ s.rules[i].operations # <<>>
          /\ \A j \in DOMAIN s.rules[i].operations : s.rules[i].operations[j] \in ValidOps
    /\ s.policyType = AdmissionPolicy => s.targetNamespace # Empty

\* The name the policy goes by on a workload cluster.  Any type but
\* ClusterAdmissionPolicy is deployed as a namespaced AdmissionPolicy.
PolicyKey(s) ==
    IF s.policyType = ClusterAdmissionPolicy
    THEN <<ClusterAdmissionPolicy, s.policyName>>
    ELSE <<AdmissionPolicy, s.targetNamespace, s.policyName>>

OrNil(field) == IF field = Empty THEN Nil ELSE field

BuildRule(r) == [r EXCEPT !.scope = OrNil(r.scope)]

\* mutating, settings and matchConditions are copied over like the module.
BuildPolicySpec(s) ==
    [policyServer |-> s.policyServer,
     module |-> s.module,
     failurePolicy |-> OrNil(s.failurePolicy),
     rules |-> [i \in DOMAIN s.rules |-> BuildRule(s.rules[i])]]
=============================================================================
