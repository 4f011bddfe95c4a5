------------------------------- MODULE FanIn -------------------------------
(***************************************************************************)
(* The fan-in gateway (fanin/FanIn.py): one process per MQTT subtopic.  In  *)
(* each process the network thread runs mqtt_on_message, which checks the  *)
(* batch counters of the records and hands them to the Kafka producer, and *)
(* the main thread polls the producer, which runs the delivery callbacks.  *)
(*                                                                         *)
(* A message is the sequence of the stamps of its records.  The dictionary *)
(* myMQTTtopicCounterPerUUID is followed for one agent uuid: the loop body *)
(* reads and writes the entry of the record's own uuid and no other.       *)
(* librdkafka is external: a bounded local queue, a broker that delivers   *)
(* or fails each message, and reports that wait for poll.  produce raises   *)
(* a BufferError when the queue is full and may raise a KafkaException at   *)
(* any time; both drop the record.  The network thread counts a record      *)
(* after produce has returned: the brokers and the main thread may have     *)
(* dealt with it by then.                                                   *)
(***************************************************************************)
EXTENDS Integers, Sequences

CONSTANTS
    Procs,                  \* the processes, each named by its subtopic
    mqttBatching,           \* --batching                     [Procs -> BOOLEAN]
    enableMQTTbatchCount,   \* --enableMQTTbatchesCounter     [Procs -> BOOLEAN]
    enableMQTTpassthrough,  \* --enableMQTTbatchPassthrough   [Procs -> BOOLEAN]
    QueueLimit,             \* queue.buffering.max.messages
    MaxFailures             \* bound: failed deliveries of a process

ASSUME FanInAssumption ==
    /\ mqttBatching \in [Procs -> BOOLEAN]
    /\ enableMQTTbatchCount \in [Procs -> BOOLEAN]
    /\ enableMQTTpassthrough \in [Procs -> BOOLEAN]
    /\ QueueLimit \in Nat \ {0}
    /\ MaxFailures \in Nat

VARIABLES
    netThread,                  \* "up", or "dead" after an exception
    query_data,                 \* the records of the message still to loop over
    myMQTTtopicCounterPerUUID,  \* 0: the uuid is not in the dictionary
    alarmed,                    \* ATTENTION was printed for this message
    producing,                  \* produce has returned, the counter is still to go up
    kafka_msg_counter,
    kafka_msg_ack_received,
    queued,                     \* messages the producer holds for the broker
    reports,                    \* delivery reports not yet polled
    stored,                     \* messages the brokers hold
    failed,                     \* failed deliveries (history)
    dropped                     \* records produce refused (history)

counterVars == <<query_data, myMQTTtopicCounterPerUUID, alarmed>>
kafkaVars == <<producing, kafka_msg_counter, kafka_msg_ack_received, queued,
               reports, stored, failed, dropped>>
fanInVars == <<netThread, counterVars, kafkaVars>>

FanInTypeOK ==
    /\ netThread \in [Procs -> {"up", "dead"}]
    /\ query_data \in [Procs -> Seq(Nat)]
    /\ myMQTTtopicCounterPerUUID \in [Procs -> Nat]
    /\ alarmed \in [Procs -> BOOLEAN]
    /\ producing \in [Procs -> BOOLEAN]
    /\ kafka_msg_counter \in [Procs -> Nat]
    /\ kafka_msg_ack_received \in [Procs -> Nat]
    /\ queued \in [Procs -> Nat]
    /\ reports \in [Procs -> [ok : Nat, err : Nat]]
    /\ stored \in [Procs -> Nat]
    /\ failed \in [Procs -> Nat]
    /\ dropped \in [Procs -> Nat]

FanInInit ==
    /\ netThread = [p \in Procs |-> "up"]
    /\ query_data = [p \in Procs |-> << >>]
    /\ myMQTTtopicCounterPerUUID = [p \in Procs |-> 0]
    /\ alarmed = [p \in Procs |-> FALSE]
    /\ producing = [p \in Procs |-> FALSE]
    /\ kafka_msg_counter = [p \in Procs |-> 1]
    /\ kafka_msg_ack_received = [p \in Procs |-> 0]
    /\ queued = [p \in Procs |-> 0]
    /\ reports = [p \in Procs |-> [ok |-> 0, err |-> 0]]
    /\ stored = [p \in Procs |-> 0]
    /\ failed = [p \in Procs |-> 0]
    /\ dropped = [p \in Procs |-> 0]

----------------------------------------------------------------------------
(* The local queue counts what the broker has not answered and what the main *)
(* thread has not polled.                                                    *)
Outstanding(p) == queued[p] + reports[p].ok + reports[p].err

ProduceAccepted(p) ==
    /\ Outstanding(p) < QueueLimit
    /\ queued' = [queued EXCEPT ![p] = @ + 1]
    /\ producing' = [producing EXCEPT ![p] = TRUE]
    /\ UNCHANGED <<kafka_msg_counter, kafka_msg_ack_received, reports, stored,
                   failed, dropped>>

(* Mutant of ProduceRefused: a refused record is counted as published.       *)
ProduceRefusedCounts(p) ==
    /\ dropped' = [dropped EXCEPT ![p] = @ + 1]
    /\ producing' = [producing EXCEPT ![p] = TRUE]
    /\ UNCHANGED <<kafka_msg_counter, kafka_msg_ack_received, queued, reports,
                   stored, failed>>

(* BufferError or KafkaException: the record is gone and not counted.        *)
ProduceRefused(p) ==
    /\ dropped' = [dropped EXCEPT ![p] = @ + 1]
    /\ UNCHANGED <<producing, kafka_msg_counter, kafka_msg_ack_received, queued,
                   reports, stored, failed>>

Produce(p) == ProduceAccepted(p) \/ ProduceRefused(p)

(* Mutant of Mismatch: a step of two is taken for a step of one.             *)
MismatchTolerant(p, v) ==
    IF myMQTTtopicCounterPerUUID[p] = 0
    THEN v > 2
    ELSE v - myMQTTtopicCounterPerUUID[p] \notin {0, 1, 2}

(* The batch counter check of one record: silent when the stamp repeats or   *)
(* follows the last one; a uuid seen for the first time must start at 1.     *)
Mismatch(p, v) ==
    IF myMQTTtopicCounterPerUUID[p] = 0
    THEN v # 1
    ELSE v - myMQTTtopicCounterPerUUID[p] \notin {0, 1}

(* Mutant of CheckCounter: the entry keeps its value after a mismatch.       *)
CheckCounterKeeps(p) ==
    LET v == Head(query_data[p]) IN
    IF enableMQTTbatchCount[p] /\ Mismatch(p, v)
    THEN /\ alarmed' = [alarmed EXCEPT ![p] = TRUE]
         /\ UNCHANGED myMQTTtopicCounterPerUUID
    ELSE /\ myMQTTtopicCounterPerUUID' = [myMQTTtopicCounterPerUUID EXCEPT ![p] = v]
         /\ UNCHANGED alarmed

CheckCounter(p) ==
    LET v == Head(query_data[p]) IN
    IF enableMQTTbatchCount[p]
    THEN /\ myMQTTtopicCounterPerUUID' = [myMQTTtopicCounterPerUUID EXCEPT ![p] = v]
         /\ alarmed' = IF Mismatch(p, v) THEN [alarmed EXCEPT ![p] = TRUE] ELSE alarmed
    ELSE UNCHANGED <<myMQTTtopicCounterPerUUID, alarmed>>

(* mqtt_on_message is entered with a message of the process's topic.  With   *)
(* pass-through the payload goes to Kafka whole; without --batching the      *)
(* payload is put in a list, and indexing the list with "tripletBatch"       *)
(* raises a TypeError that ends the network thread.                          *)
OnMessage(p, message) ==
    /\ netThread[p] = "up"
    /\ query_data[p] = << >> /\ ~producing[p]
    /\ alarmed' = [alarmed EXCEPT ![p] = FALSE]
    /\ UNCHANGED myMQTTtopicCounterPerUUID
    /\ \/ /\ enableMQTTpassthrough[p]
          /\ Produce(p)
          /\ UNCHANGED <<netThread, query_data>>
       \/ /\ ~enableMQTTpassthrough[p] /\ mqttBatching[p]
          /\ query_data' = [query_data EXCEPT ![p] = message]
          /\ UNCHANGED <<netThread, kafkaVars>>
       \/ /\ ~enableMQTTpassthrough[p] /\ ~mqttBatching[p]
          /\ netThread' = [netThread EXCEPT ![p] = "dead"]
          /\ UNCHANGED <<query_data, kafkaVars>>

(* One turn of the loop over the records of the message.                     *)
LoopRecord(p) ==
    /\ query_data[p] # << >> /\ ~producing[p]
    /\ query_data' = [query_data EXCEPT ![p] = Tail(@)]
    /\ CheckCounter(p)
    /\ Produce(p)
    /\ UNCHANGED netThread

(* kafka_msg_counter += 1, of a record or of a whole message.               *)
CountProduced(p) ==
    /\ producing[p]
    /\ producing' = [producing EXCEPT ![p] = FALSE]
    /\ kafka_msg_counter' = [kafka_msg_counter EXCEPT ![p] = @ + 1]
    /\ UNCHANGED <<netThread, counterVars, kafka_msg_ack_received, queued, reports,
                   stored, failed, dropped>>

(* Mutant of Poll: an error report blocks the ones behind it.                *)
PollStopsAtError(p) ==
    /\ reports[p].ok > 0 /\ reports[p].err = 0
    /\ kafka_msg_ack_received' = [kafka_msg_ack_received EXCEPT ![p] = @ + 1]
    /\ reports' = [reports EXCEPT ![p].ok = @ - 1]
    /\ UNCHANGED <<netThread, counterVars, producing, kafka_msg_counter, queued,
                   stored, failed, dropped>>

(* The main thread: poll(0) calls kafka_producer_on_delivery for the waiting *)
(* reports, one after the other.                                             *)
Poll(p) ==
    /\ \/ /\ reports[p].ok > 0
          /\ reports' = [reports EXCEPT ![p].ok = @ - 1]
          /\ kafka_msg_ack_received' = [kafka_msg_ack_received EXCEPT ![p] = @ + 1]
          /\ UNCHANGED failed
       \/ /\ reports[p].err > 0
          /\ reports' = [reports EXCEPT ![p].err = @ - 1]
          /\ failed' = [failed EXCEPT ![p] = @ + 1]
          /\ UNCHANGED kafka_msg_ack_received
    /\ UNCHANGED <<netThread, counterVars, producing, kafka_msg_counter, queued,
                   stored, dropped>>

(* External: the brokers store a message or its delivery fails.              *)
BrokerStores(p) ==
    /\ queued[p] > 0
    /\ queued' = [queued EXCEPT ![p] = @ - 1]
    /\ stored' = [stored EXCEPT ![p] = @ + 1]
    /\ reports' = [reports EXCEPT ![p].ok = @ + 1]
    /\ UNCHANGED <<netThread, counterVars, producing, kafka_msg_counter,
                   kafka_msg_ack_received, failed, dropped>>

DeliveryFails(p) ==
    /\ queued[p] > 0
    /\ failed[p] + reports[p].err < MaxFailures
    /\ queued' = [queued EXCEPT ![p] = @ - 1]
    /\ reports' = [reports EXCEPT ![p].err = @ + 1]
    /\ UNCHANGED <<netThread, counterVars, producing, kafka_msg_counter,
                   kafka_msg_ack_received, stored, failed, dropped>>

(* What a process does of itself, once a message is in.                      *)
ProcessStep(p) ==
    \/ LoopRecord(p) \/ CountProduced(p) \/ Poll(p)
    \/ BrokerStores(p) \/ DeliveryFails(p)
=============================================================================
