\* The same archives and charts; one attempt, nothing fails and nothing is published meanwhile.
CONSTANTS
    Object <- MCObject
    Archives <- MCArchives
    Charts <- MCCharts
    Yaml <- MCYaml
    MaxPublished = 0
    MaxAttempts = 1
    MaxFaults = 0
SPECIFICATION Spec
INVARIANT NullsSkipped
\* The only attempt ends.
CHECK_DEADLOCK FALSE
