SPECIFICATION Spec
CONSTANTS
    Agents = {u1, u2, u3}
    MaxCount = 2
    MaxLosses = 1
INVARIANT TypeOK
PROPERTIES
    FinalCountersReported
    OnceKnownStaysAlive
CHECK_DEADLOCK FALSE
