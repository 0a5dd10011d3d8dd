\* Seven archives, four charts of either name and one more published; four attempts and three faults.
CONSTANTS
    Object <- MCObject
    Archives <- MCArchives
    Charts <- MCCharts
    Yaml <- MCYaml
    MaxPublished = 1
    MaxAttempts = 4
    MaxFaults = 3
SPECIFICATION Spec
INVARIANT InstalledAsPublished
INVARIANT WholeArchives
INVARIANT FailuresAreFaults
INVARIANT Residue
\* The attempts end with the first that succeeds, or with the bound.
CHECK_DEADLOCK FALSE
