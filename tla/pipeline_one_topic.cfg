SPECIFICATION Spec
CONSTANTS
    NumTopics = 1
    ListRecords = 2
    BatchRecords = 47
    sendNumberOfMessages = 141
    Procs <- Topics
    mqttBatching <- MCOn
    enableMQTTbatchCount <- MCOn
    enableMQTTpassthrough <- MCOff
    QueueLimit = 1
    MaxFailures = 0
INVARIANTS
    NoMissedLoss
CHECK_DEADLOCK FALSE
