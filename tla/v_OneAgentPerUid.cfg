SPECIFICATION Spec
CONSTANTS
    Uids = {a1}
    Threads = {1, 2}
    RedfishAgents = {}
    SignalPoints = {}
    MayTimeOut = FALSE
    MaxFaults = 1
INVARIANT OneAgentPerUid
CHECK_DEADLOCK FALSE
