\* Two addons, a Cluster beside them and one in another namespace; one change, no fault.
CONSTANTS
    Absent = Absent
    Unversioned = Unversioned
    c1 = c1
    c2 = c2
    a1 = a1
    a2 = a2
    Cluster = {c1, c2}
    Addon = {a1, a2}
    Label = {"prod"}
    Version = {"v1"}
    Released = {"v1"}
    DefaultVersion = "v1"
    MaxUid = 1
    MaxEdits = 1
    MaxFaults = 0
    Object <- MCObject
    Manifests <- MCManifests
    NamespaceOf <- TwoNamespaces
    Requested <- AnyVersion
    Selector <- SomeSelectors
SPECIFICATION Spec
SYMMETRY SymmetricAddons
INVARIANT Tenancy
INVARIANT NothingSelectedNotReady
INVARIANT NoLostWakeup
