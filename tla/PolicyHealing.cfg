\* One Cluster, one policy with two modules; others write policies; two changes, one fault; fair.
CONSTANTS
    Absent = Absent
    Unversioned = Unversioned
    c1 = c1
    c2 = c2
    Cluster = {c1}
    Policy = {"p1"}
    Submitted <- TwoModules
    Drifting = TRUE
    MaxUid = 1
    MaxEdits = 2
    MaxFaults = 1
    PolicyNamespace <- OneNamespace
    Label = {"prod"}
    Object <- Keys
    Version <- Specs
SPECIFICATION FairSpec
PROPERTY SelfHealing
PROPERTY ReadyConverges
PROPERTY ActiveConverges
