---------------------------- MODULE BatchSender ----------------------------
(***************************************************************************)
(* The sending side of the telemetry path: the loop of                     *)
(* IBswitchSimulator.send_data and AgentCommon.mqtt_send_triplet_batch,    *)
(* as the agent's main thread runs them.                                   *)
(*                                                                         *)
(* send_data assembles one record list per switch and stamps every record  *)
(* of the list with the batch counter of the subtopic that is current when *)
(* the list is assembled.  mqtt_send_triplet_batch appends the records one *)
(* by one to a batch that outlives the call, publishes the batch when it   *)
(* is full, counts it and moves on to the next subtopic.  A list may thus  *)
(* straddle a flush: its last records were stamped before the flush and    *)
(* are published in the batch after it.                                    *)
(*                                                                         *)
(* A record is its stamp (IBswitchSimulator.py:462).  The byte size test   *)
(* of line 571 is a number of records: sys.getsizeof of a list depends on  *)
(* its length alone, and crosses mqtt_batch_size = 512 at 47 records       *)
(* (FanIn.py:262 expects that 47).                                         *)
(***************************************************************************)
EXTENDS Integers, Sequences

CONSTANTS
    NumTopics,              \* --numberOfTopic
    ListRecords,            \* records of one record list: the two ibmetrics
    BatchRecords,           \* records that fill a batch; 0: batching is off
    sendNumberOfMessages    \* records to send; -1: no limit

ASSUME SenderAssumption ==
    /\ NumTopics \in Nat \ {0}
    /\ ListRecords \in Nat \ {0}
    /\ BatchRecords \in Nat
    /\ sendNumberOfMessages \in Nat \cup {-1}

VARIABLES
    status,             \* of the sending process
    record_list,        \* the records of the current list not yet in a batch
    myByteBatch,        \* the stamps of the batch being filled
    myMessageCounter,   \* records put in a batch so far
    myBatchCounter,     \* for every subtopic, the number of its next batch
    myCurrentSubtopic,
    wire,               \* for every subtopic, the batches published to it and
                        \* not yet taken off by the network or the receiver
    published           \* records handed to client.publish (history)

senderVars == <<status, record_list, myByteBatch, myMessageCounter,
                myBatchCounter, myCurrentSubtopic, wire, published>>

Topics == 0 .. NumTopics - 1

SenderTypeOK ==
    /\ status \in {"sending", "finished", "interrupted"}
    /\ record_list \in Seq(Nat)
    /\ myByteBatch \in Seq(Nat)
    /\ myMessageCounter \in Nat
    /\ myBatchCounter \in [Topics -> Nat]
    /\ myCurrentSubtopic \in Topics
    /\ wire \in [Topics -> Seq(Seq(Nat))]
    /\ published \in Nat

(* setMqttNumberOfPublishingTopics draws the first subtopic at random.      *)
SenderInit ==
    /\ status = "sending"
    /\ record_list = << >>
    /\ myByteBatch = << >>
    /\ myMessageCounter = 0
    /\ myBatchCounter = [t \in Topics |-> 1]
    /\ myCurrentSubtopic \in Topics
    /\ wire = [t \in Topics |-> << >>]
    /\ published = 0

----------------------------------------------------------------------------
(* One publication to the current subtopic, and the counter that numbers it. *)
Publish(batch) ==
    /\ wire' = [wire EXCEPT ![myCurrentSubtopic] = Append(@, batch)]
    /\ myBatchCounter' = [myBatchCounter EXCEPT ![myCurrentSubtopic] = @ + 1]
    /\ published' = published + Len(batch)

(* Mutants of NextSubtopic: one subtopic too many; no way back to the first. *)
NextSubtopicOffByOne ==
    IF myCurrentSubtopic < NumTopics THEN myCurrentSubtopic + 1 ELSE 0

NextSubtopicStays ==
    IF myCurrentSubtopic < NumTopics - 1 THEN myCurrentSubtopic + 1
    ELSE myCurrentSubtopic

NextSubtopic ==
    IF NumTopics > 1
    THEN IF myCurrentSubtopic < NumTopics - 1 THEN myCurrentSubtopic + 1 ELSE 0
    ELSE myCurrentSubtopic

(* send_data assembles and stamps the list of the next switch.              *)
NextRecordList ==
    /\ status = "sending"
    /\ record_list = << >>
    /\ record_list' = [i \in 1 .. ListRecords |-> myBatchCounter[myCurrentSubtopic]]
    /\ UNCHANGED <<status, myByteBatch, myMessageCounter, myBatchCounter,
                   myCurrentSubtopic, wire, published>>

(* One turn of the loop over the list, below the limit.                     *)
TakeRecord ==
    /\ status = "sending"
    /\ record_list # << >>
    /\ myMessageCounter # sendNumberOfMessages
    /\ record_list' = Tail(record_list)
    /\ myMessageCounter' = myMessageCounter + 1
    /\ UNCHANGED status

FillBatch ==
    /\ TakeRecord
    /\ Len(myByteBatch) + 1 < BatchRecords
    /\ myByteBatch' = Append(myByteBatch, Head(record_list))
    /\ UNCHANGED <<myBatchCounter, myCurrentSubtopic, wire, published>>

FlushBatch ==
    /\ TakeRecord
    /\ BatchRecords > 0
    /\ Len(myByteBatch) + 1 >= BatchRecords
    /\ Publish(Append(myByteBatch, Head(record_list)))
    /\ myCurrentSubtopic' = NextSubtopic
    /\ myByteBatch' = << >>

(* Mutant of SendSingle: the record is published but not popped.             *)
SendSingleKeeps ==
    /\ TakeRecord
    /\ BatchRecords = 0
    /\ Publish(Append(myByteBatch, Head(record_list)))
    /\ myByteBatch' = Append(myByteBatch, Head(record_list))
    /\ UNCHANGED myCurrentSubtopic

(* Without batching every record is published alone, and the subtopic stays. *)
SendSingle ==
    /\ TakeRecord
    /\ BatchRecords = 0
    /\ Publish(<<Head(record_list)>>)
    /\ myByteBatch' = << >>
    /\ UNCHANGED myCurrentSubtopic

(* Mutants of Finish: the left-over batch is forgotten; the limit must be    *)
(* exceeded.                                                                 *)
FinishDropsLeftOver ==
    /\ status = "sending"
    /\ record_list # << >>
    /\ myMessageCounter = sendNumberOfMessages
    /\ status' = "finished"
    /\ UNCHANGED <<record_list, myByteBatch, myMessageCounter, myBatchCounter,
                   myCurrentSubtopic, wire, published>>

FinishAboveLimit ==
    /\ status = "sending"
    /\ record_list # << >>
    /\ myMessageCounter > sendNumberOfMessages
    /\ status' = "finished"
    /\ UNCHANGED <<record_list, myByteBatch, myMessageCounter, myBatchCounter,
                   myCurrentSubtopic, wire, published>>

(* The limit is reached with a record in hand: the left-over batch goes out, *)
(* the agent deregisters, closes its client and exits.                       *)
Finish ==
    /\ status = "sending"
    /\ record_list # << >>
    /\ myMessageCounter = sendNumberOfMessages
    /\ status' = "finished"
    /\ IF BatchRecords > 0 /\ myByteBatch # << >>
       THEN Publish(myByteBatch)
       ELSE UNCHANGED <<wire, myBatchCounter, published>>
    /\ UNCHANGED <<record_list, myByteBatch, myMessageCounter, myCurrentSubtopic>>

(* SIGINT: the handler deregisters, closes and exits; the batch being filled *)
(* is never published.                                                       *)
Interrupt ==
    /\ status = "sending"
    /\ status' = "interrupted"
    /\ UNCHANGED <<record_list, myByteBatch, myMessageCounter, myBatchCounter,
                   myCurrentSubtopic, wire, published>>

MainThread == NextRecordList \/ FillBatch \/ FlushBatch \/ SendSingle \/ Finish

SenderNext == MainThread \/ Interrupt

----------------------------------------------------------------------------
(* Every record the agent counts as sent is either published or in the one   *)
(* batch being filled, and a sender that ends at its limit has published     *)
(* exactly that many: the batch kept across calls loses and repeats nothing. *)
NothingLeftBehind ==
    /\ status = "sending" => published + Len(myByteBatch) = myMessageCounter
    /\ status = "finished" => published = sendNumberOfMessages

(* The subtopics are used in rotation: no counter is ever two ahead of       *)
(* another, whatever the subtopic the agent started from.                    *)
EvenRotation ==
    BatchRecords > 0 =>
        \A t, u \in Topics : myBatchCounter[t] - myBatchCounter[u] <= 1

(* A limit is reached however the record lists and the batches are aligned   *)
(* with it: the test of line 475 is an equality, so a count that stepped     *)
(* over the limit would send for ever.                                       *)
Terminates == <>(status # "sending")
=============================================================================
