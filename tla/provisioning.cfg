SPECIFICATION Spec
CONSTANTS
    Uids = {a1, a2}
    Threads = {1, 2}
    RedfishAgents = {a2}
    SignalPoints = {}
    MayTimeOut = FALSE
    MaxFaults = 0
INVARIANTS
    SensorsKnown
    DeregisteredIsGone
    KafkaKnows
    UuidsAreNotShared
PROPERTIES
    ServesAsDirectory
    RunsItsCourse
CHECK_DEADLOCK FALSE
