\* One Cluster name, used twice.
CONSTANTS
    Absent = Absent
    Unversioned = Unversioned
    c1 = c1
    c2 = c2
    a1 = a1
    a2 = a2
    Cluster = {c1}
    Addon = {a1}
    Label = {"prod"}
    Version = {"v1"}
    Released = {"v1"}
    DefaultVersion = "v1"
    MaxUid = 2
    MaxEdits = 2
    MaxFaults = 0
    Object <- MCObject
    Manifests <- MCManifests
    NamespaceOf <- OneNamespace
    Requested <- AnyVersion
    Selector <- SomeSelectors
SPECIFICATION Spec
INVARIANT AnnotationSoundAcrossIncarnations
