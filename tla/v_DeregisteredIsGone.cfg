SPECIFICATION Spec
CONSTANTS
    Uids = {a1}
    Threads = {1, 2}
    RedfishAgents = {}
    SignalPoints = {"awaitDevices"}
    MayTimeOut = FALSE
    MaxFaults = 0
INVARIANT DeregisteredIsGone
CHECK_DEADLOCK FALSE
