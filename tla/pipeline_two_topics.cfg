SPECIFICATION Spec
CONSTANTS
    NumTopics = 2
    ListRecords = 2
    BatchRecords = 3
    sendNumberOfMessages = 13
    Procs <- Topics
    mqttBatching <- MCOn
    enableMQTTbatchCount <- MCOn
    enableMQTTpassthrough <- MCOff
    QueueLimit = 1
    MaxFailures = 0
INVARIANTS
    PipelineTypeOK
    NothingLeftBehind
    EvenRotation
    NoFalseAlarm
    NoMissedLoss
CHECK_DEADLOCK FALSE
