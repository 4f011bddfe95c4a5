SPECIFICATION Spec
CONSTANTS
    RequestTopics <- MCTopics
    MaxLosses = 2
INVARIANT Served
PROPERTIES
    StaysServed
    ShutdownReleases
CHECK_DEADLOCK FALSE
