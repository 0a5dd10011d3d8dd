\* Two Clusters, one addon; one change and one fault.
CONSTANTS
    Absent = Absent
    Unversioned = Unversioned
    c1 = c1
    c2 = c2
    a1 = a1
    a2 = a2
    Cluster = {c1, c2}
    Addon = {a1}
    Label = {"prod"}
    Version = {"v1"}
    Released = {"v1"}
    DefaultVersion = "v1"
    MaxUid = 1
    MaxEdits = 1
    MaxFaults = 1
    Object <- MCObject
    Manifests <- NoScannerManifests
    NamespaceOf <- OneNamespace
    Requested <- AnyVersion
    Selector <- AllOrInvalid
SPECIFICATION Spec
SYMMETRY Symmetric
INVARIANT TypeOK
INVARIANT AnnotationSound
INVARIANT NoLostWakeup
PROPERTY ReadyJustified
PROPERTY ImplementsInstall
