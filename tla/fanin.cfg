SPECIFICATION Spec
CONSTANTS
    Procs = {"plain", "unbatched", "passthrough"}
    mqttBatching <- MCBatching
    enableMQTTbatchCount <- MCCount
    enableMQTTpassthrough <- MCPassthrough
    QueueLimit = 2
    MaxFailures = 1
    Messages <- MCMessages
    MaxRecords = 4
INVARIANTS
    KafkaAccounts
PROPERTY AllSettled
CHECK_DEADLOCK FALSE
