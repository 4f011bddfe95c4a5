SPECIFICATION Spec
CONSTANTS
    Uids = {a1}
    Threads = {1, 2}
    RedfishAgents = {}
    SignalPoints = {}
    MayTimeOut = FALSE
    MaxFaults = 0
INVARIANT RegistrationSetsUuid
CHECK_DEADLOCK FALSE
