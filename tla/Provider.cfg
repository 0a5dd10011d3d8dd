\* One Cluster, one addon, one policy; one change or one fault.
CONSTANTS
    Absent = Absent
    Unversioned = Unversioned
    Cluster = {"c1"}
    Label = {"prod"}
    MaxUid = 1
    MaxEdits = 1
    MaxFaults = 1
    MaxDisturbances = 1
    Addon = {"a1"}
    Version = {"v1"}
    Released = {"v1"}
    DefaultVersion = "v1"
    Policy = {"p1"}
    Namespace <- OneNamespace
    Requested <- LeftEmpty
    Selector <- AllSelector
    Object <- MCObject
    Manifests <- MCManifests
    Submitted <- OneModule
    PolicyObject <- Keys
    PolicySpec <- Specs
SPECIFICATION Spec
INVARIANT PoliciesAfterKubewarden
PROPERTY ReadyProtected
