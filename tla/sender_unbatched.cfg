SPECIFICATION Spec
CONSTANTS
    NumTopics = 4
    ListRecords = 2
    BatchRecords = 0
    sendNumberOfMessages = 13
INVARIANTS
    NothingLeftBehind
PROPERTY Terminates
CHECK_DEADLOCK FALSE
