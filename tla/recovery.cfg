SPECIFICATION Spec
CONSTANTS
    Uids = {a1}
    Threads = {1, 2}
    RedfishAgents = {a1}
    SignalPoints = {"awaitRegistered", "mapped", "awaitDevices"}
    MayTimeOut = TRUE
    MaxFaults = 1
INVARIANTS
    RegistryTypeOK
    AnswersAreKept
    KnownAgents
    WithinReach
PROPERTIES
    EventuallyRegistered
    EventuallyEquipped
    SendingGoesOn
CHECK_DEADLOCK FALSE
