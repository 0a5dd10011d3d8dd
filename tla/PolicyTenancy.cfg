\* One policy submitted in many ways, a Cluster beside it and one in another namespace; no fault.
CONSTANTS
    Absent = Absent
    Unversioned = Unversioned
    c1 = c1
    c2 = c2
    Cluster = {c1, c2}
    Policy = {"p1"}
    Submitted <- ManySpecs
    Drifting = FALSE
    MaxUid = 1
    MaxEdits = 1
    MaxFaults = 0
    PolicyNamespace <- TwoNamespaces
    Label = {"prod"}
    Object <- Keys
    Version <- Specs
SPECIFICATION Spec
INVARIANT PolicyTenancy
INVARIANT Deployable
