\* One Cluster name, used twice, with two labels; one addon; two versions, one of them released;
\* two CRD files and null documents at the end of the charts; two changes, one fault; fair.
CONSTANTS
    Absent = Absent
    Unversioned = Unversioned
    c1 = c1
    c2 = c2
    a1 = a1
    a2 = a2
    Cluster = {c1}
    Addon = {a1}
    Label = {"prod", "dev"}
    Version = {"v1", "v2"}
    Released = {"v1"}
    DefaultVersion = "v1"
    MaxUid = 2
    MaxEdits = 2
    MaxFaults = 1
    Object <- MoreObjects
    Manifests <- MoreManifests
    NamespaceOf <- OneNamespace
    Requested <- UnreleasedOrUnset
    Selector <- ProdSelectors
SPECIFICATION FairSpec
INVARIANT InstallOrder
PROPERTY Convergence
