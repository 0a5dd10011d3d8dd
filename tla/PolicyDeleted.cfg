\* One Cluster, one policy; one change.
CONSTANTS
    Absent = Absent
    Unversioned = Unversioned
    c1 = c1
    c2 = c2
    Cluster = {c1}
    Policy = {"p1"}
    Submitted <- JustOne
    Drifting = FALSE
    MaxUid = 1
    MaxEdits = 1
    MaxFaults = 0
    PolicyNamespace <- OneNamespace
    Label = {"prod"}
    Object <- Keys
    Version <- Specs
SPECIFICATION Spec
INVARIANT PolicyRemoved
