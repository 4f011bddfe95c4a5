------------------------------ MODULE MCFanIn ------------------------------
(* The fan-in processes on their own, fed with any messages, run in the ways *)
(* BatchPipeline leaves out: batches without the counter check, pass-through *)
(* and no --batching.  (FanInProcess has the main loop's walk over the       *)
(* counters that the check fills.)                                           *)
EXTENDS FanIn

CONSTANTS
    Messages,       \* the messages of a topic: sequences of stamps
    MaxRecords      \* bound: what a process takes in

MCBatching == [p \in Procs |-> p # "unbatched"]
MCCount == [p \in Procs |-> FALSE]
MCPassthrough == [p \in Procs |-> p = "passthrough"]

(* The record whose produce has returned and which is not counted yet.       *)
Uncounted(p) == IF producing[p] THEN 1 ELSE 0

MCMessages == {<<1>>, <<1, 2>>}

TakenIn(p) ==
    Uncounted(p) + kafka_msg_counter[p] - 1 + dropped[p] + Len(query_data[p])

Arrive(p) ==
    \E m \in Messages :
        /\ TakenIn(p) + Len(m) <= MaxRecords
        /\ OnMessage(p, m)

Next == \E p \in Procs : Arrive(p) \/ ProcessStep(p)

(* The callback thread, the main loop and the brokers keep going; nothing    *)
(* forces a message to come or a delivery to fail.                           *)
Spec ==
    /\ FanInInit
    /\ [][Next]_fanInVars
    /\ \A p \in Procs : /\ WF_fanInVars(LoopRecord(p))
                        /\ WF_fanInVars(CountProduced(p))
                        /\ WF_fanInVars(Poll(p))
                        /\ WF_fanInVars(BrokerStores(p))

----------------------------------------------------------------------------
(* The books of the two threads agree: every record the callback thread has *)
(* counted, or is about to count, is stored, failed or still on its way, and *)
(* every stored one is acknowledged to the main thread or waits for its      *)
(* poll.  (So kafka_msg_counter may lag kafka_msg_ack_received by the one    *)
(* record between FanIn.py:218 and 223, and by no more.)                     *)
KafkaAccounts ==
    \A p \in Procs :
        /\ Uncounted(p) + kafka_msg_counter[p] - 1 =
               queued[p] + stored[p] + failed[p] + reports[p].err
        /\ stored[p] = kafka_msg_ack_received[p] + reports[p].ok

(* Once messages stop, every counted record ends acknowledged or failed.     *)
AllSettled ==
    \A p \in Procs :
        <>[](kafka_msg_counter[p] - 1 = kafka_msg_ack_received[p] + failed[p])
=============================================================================
