--------------------------- MODULE BatchPipeline ---------------------------
(***************************************************************************)
(* One agent, its subtopics and the fan-in process of each: BatchSender and *)
(* FanIn joined by the MQTT telemetry topics.  Both ends use QoS 0          *)
(* (client.publish with its default, mqttMultiProcessTopicQOS = 0), so a    *)
(* topic keeps its order and may lose any message.  Losing the oldest one   *)
(* in flight is enough: every pattern of losses is reached that way.        *)
(*                                                                         *)
(* The agent runs with --enableMQTTbatchesCounter, each process with        *)
(* --batching; the counters then are a loss detector.  The module states    *)
(* what the detector reports against what the network really lost.          *)
(***************************************************************************)
EXTENDS BatchSender, FanIn

VARIABLES
    current,    \* number of the batch last taken by the process (history)
    gap         \* batches lost just before it (history)

ASSUME PipelineAssumption ==
    /\ BatchRecords > 0
    /\ Procs = Topics
    /\ \A p \in Procs : mqttBatching[p] /\ enableMQTTbatchCount[p]
                        /\ ~enableMQTTpassthrough[p]

pipelineVars == <<senderVars, fanInVars, current, gap>>

PipelineTypeOK ==
    /\ SenderTypeOK
    /\ FanInTypeOK
    /\ current \in [Topics -> Nat]
    /\ gap \in [Topics -> Int]

Init ==
    /\ SenderInit
    /\ FanInInit
    /\ current = [t \in Topics |-> 0]
    /\ gap = [t \in Topics |-> 0]

(* The oldest batch in flight was the (counter - in flight)-th of its topic. *)
OldestInFlight(t) == myBatchCounter[t] - Len(wire[t])

Receive(t) ==
    /\ wire[t] # << >>
    /\ OnMessage(t, Head(wire[t]))
    /\ wire' = [wire EXCEPT ![t] = Tail(@)]
    /\ current' = [current EXCEPT ![t] = OldestInFlight(t)]
    /\ gap' = [gap EXCEPT ![t] = OldestInFlight(t) - current[t] - 1]
    /\ UNCHANGED <<status, record_list, myByteBatch, myMessageCounter,
                   myBatchCounter, myCurrentSubtopic, published>>

Lose(t) ==
    /\ wire[t] # << >>
    /\ wire' = [wire EXCEPT ![t] = Tail(@)]
    /\ UNCHANGED <<status, record_list, myByteBatch, myMessageCounter,
                   myBatchCounter, myCurrentSubtopic, published,
                   fanInVars, current, gap>>

SenderStep == SenderNext /\ UNCHANGED <<fanInVars, current, gap>>

FanInStep(t) == ProcessStep(t) /\ UNCHANGED <<senderVars, current, gap>>

Next == SenderStep \/ \E t \in Topics : Receive(t) \/ Lose(t) \/ FanInStep(t)

Spec == Init /\ [][Next]_pipelineVars

----------------------------------------------------------------------------
(* The gateway never cries wolf: "ATTENTION: Missing" is printed for a batch *)
(* only when a batch of that subtopic was lost right before it, however the  *)
(* record lists straddle the batches and the subtopics.                      *)
NoFalseAlarm == \A t \in Topics : alarmed[t] => gap[t] > 0

(* The gateway misses nothing: when the first batch after a loss has been    *)
(* processed, ATTENTION has been printed.                                    *)
NoMissedLoss ==
    \A t \in Topics : gap[t] > 0 /\ query_data[t] = << >> => alarmed[t]
=============================================================================
