\* Two Clusters, one policy with two modules; one change and one fault; nobody else writes policies.
CONSTANTS
    Absent = Absent
    Unversioned = Unversioned
    c1 = c1
    c2 = c2
    Cluster = {c1, c2}
    Policy = {"p1"}
    Submitted <- TwoModules
    Drifting = FALSE
    MaxUid = 1
    MaxEdits = 1
    MaxFaults = 1
    PolicyNamespace <- OneNamespace
    Label = {"prod"}
    Object <- Keys
    Version <- Specs
SPECIFICATION Spec
SYMMETRY Symmetric
INVARIANT TypeOK
INVARIANT InstalledFirst
PROPERTY StatusCurrent
PROPERTY ReadyDeployed
