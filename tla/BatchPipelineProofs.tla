------------------------- MODULE BatchPipelineProofs -------------------------
(***************************************************************************)
(* Proofs about the telemetry path, for any number of subtopics, any limit *)
(* and any losses: the type invariant, that nothing is left behind, that   *)
(* the subtopics are used evenly, that the gateway never reports a loss    *)
(* that did not happen when a record list is no longer than a batch, and   *)
(* that it misses none when a round of the subtopics takes a whole number  *)
(* of record lists.                                                        *)
(***************************************************************************)
EXTENDS BatchPipeline, TLAPS

(* Type correctness needs that the oldest batch in flight has a number.      *)
BaseInv ==
    /\ PipelineTypeOK
    /\ \A t \in Topics : Len(wire[t]) < myBatchCounter[t]
    /\ NothingLeftBehind

(* How many flushes it takes until the next batch goes to subtopic t.        *)
TurnsUntil(t) ==
    IF t >= myCurrentSubtopic THEN t - myCurrentSubtopic
                              ELSE t - myCurrentSubtopic + NumTopics

(* In the order of their next turns, the counters never decrease and never   *)
(* exceed that of the current subtopic by more than one.                     *)
InTurn ==
    /\ \A t, u \in Topics :
         TurnsUntil(t) <= TurnsUntil(u) => myBatchCounter[t] <= myBatchCounter[u]
    /\ \A t \in Topics : myBatchCounter[t] <= myBatchCounter[myCurrentSubtopic] + 1

RotationInv ==
    /\ status # "finished" => InTurn
    /\ EvenRotation

(* A sequence of stamps that batch n may carry: those of its own number and, *)
(* before them, those of the list that was cut by the flush of batch n - 1.  *)
Stamped(batch, n) ==
    /\ \A i \in 1 .. Len(batch) : batch[i] \in {n - 1, n} /\ batch[i] >= 1
    /\ \A i, j \in 1 .. Len(batch) : i <= j => batch[i] <= batch[j]

EndsIn(batch, n) == batch # << >> => batch[Len(batch)] = n

(* Number of the batch being filled.                                         *)
Filling == myBatchCounter[myCurrentSubtopic]

SenderStamps ==
    status = "sending" =>
        /\ Stamped(myByteBatch, Filling)
        /\ Stamped(record_list, Filling)
        /\ \A i, j \in 1 .. Len(record_list) : record_list[i] = record_list[j]
        /\ \A i \in 1 .. Len(myByteBatch), j \in 1 .. Len(record_list) :
               myByteBatch[i] <= record_list[j]
        /\ Len(record_list) <= ListRecords
        /\ record_list # << >> /\ record_list[1] # Filling =>
               Len(myByteBatch) + Len(record_list) < ListRecords

(* Number of the i-th batch in flight.                                       *)
InFlight(t, i) == myBatchCounter[t] - Len(wire[t]) + i - 1

(* Only the left-over batch of a sender that has finished may consist of     *)
(* stamps of the list before alone; nothing follows it.                      *)
WireStamps ==
    \A t \in Topics : \A i \in 1 .. Len(wire[t]) :
        /\ wire[t][i] # << >>
        /\ Stamped(wire[t][i], InFlight(t, i))
        /\ \/ status = "finished" /\ i = Len(wire[t])
           \/ EndsIn(wire[t][i], InFlight(t, i))

(* The detector of subtopic t against the batch it last took.                *)
FollowsAt(t) ==
    /\ current[t] < OldestInFlight(t)
    /\ gap[t] >= 0
    /\ Stamped(query_data[t], current[t])
    /\ \/ status = "finished" /\ wire[t] = << >>
       \/ /\ EndsIn(query_data[t], current[t])
          /\ query_data[t] = << >> => myMQTTtopicCounterPerUUID[t] = current[t]
    /\ query_data[t] # << >> /\ gap[t] = 0 =>
          /\ myMQTTtopicCounterPerUUID[t] \in {current[t] - 1, current[t]}
          /\ myMQTTtopicCounterPerUUID[t] <= Head(query_data[t])
          /\ myMQTTtopicCounterPerUUID[t] = 0 => current[t] = 1
    /\ alarmed[t] => gap[t] > 0

DetectorFollows == \A t \in Topics : FollowsAt(t)

DetectorInv ==
    /\ SenderStamps
    /\ WireStamps
    /\ DetectorFollows

----------------------------------------------------------------------------
LEMMA BaseInit == Init => BaseInv
  BY SenderAssumption, FanInAssumption, PipelineAssumption
  DEF Init, SenderInit, FanInInit, BaseInv, PipelineTypeOK, SenderTypeOK,
      FanInTypeOK, NothingLeftBehind, Topics

(* A publication to the current subtopic keeps the shape of the wire.        *)
LEMMA PublishTypes ==
  ASSUME SenderTypeOK, NEW batch \in Seq(Nat), Publish(batch),
         \A t \in Topics : Len(wire[t]) < myBatchCounter[t]
  PROVE  /\ wire' \in [Topics -> Seq(Seq(Nat))]
         /\ myBatchCounter' \in [Topics -> Nat]
         /\ published' = published + Len(batch)
         /\ published' \in Nat
         /\ \A t \in Topics : Len(wire'[t]) < myBatchCounter'[t]
<1> DEFINE s == myCurrentSubtopic
<1>1. /\ s \in Topics /\ wire[s] \in Seq(Seq(Nat)) /\ myBatchCounter[s] \in Nat
      /\ Len(batch) \in Nat
  BY DEF SenderTypeOK
<1>2. Append(wire[s], batch) \in Seq(Seq(Nat)) /\ Len(Append(wire[s], batch)) = Len(wire[s]) + 1
  BY <1>1
<1>3. wire' = [wire EXCEPT ![s] = Append(wire[s], batch)]
  BY DEF Publish, SenderTypeOK
<1>4. wire' \in [Topics -> Seq(Seq(Nat))]
  BY <1>1, <1>2, <1>3 DEF SenderTypeOK
<1>5. /\ myBatchCounter' \in [Topics -> Nat] /\ published' \in Nat
      /\ published' = published + Len(batch)
  BY <1>1 DEF Publish, SenderTypeOK
<1>6. ASSUME NEW t \in Topics PROVE Len(wire'[t]) < myBatchCounter'[t]
  <2>1. CASE t = s
    <3>1. wire'[t] = Append(wire[s], batch) /\ myBatchCounter'[t] = myBatchCounter[s] + 1
      BY <2>1, <1>1, <1>3 DEF Publish, SenderTypeOK
    <3> QED BY <3>1, <1>1, <1>2
  <2>2. CASE t # s
    <3>1. wire'[t] = wire[t] /\ myBatchCounter'[t] = myBatchCounter[t]
      BY <2>2, <1>1, <1>3 DEF Publish, SenderTypeOK
    <3> QED BY <3>1
  <2> QED BY <2>1, <2>2
<1> QED BY <1>4, <1>5, <1>6

LEMMA NextSubtopicType == myCurrentSubtopic \in Topics => NextSubtopic \in Topics
  BY SenderAssumption DEF NextSubtopic, Topics
(* A step of the sender.                                                     *)
LEMMA BaseSender ==
  ASSUME BaseInv, SenderNext
  PROVE  /\ SenderTypeOK'
         /\ \A t \in Topics : Len(wire'[t]) < myBatchCounter'[t]
         /\ NothingLeftBehind'
<1> USE SenderAssumption
<1> DEFINE h == Head(record_list)
<1>1. SenderTypeOK /\ NothingLeftBehind /\ \A t \in Topics : Len(wire[t]) < myBatchCounter[t]
  BY DEF BaseInv, PipelineTypeOK
<1>2. ASSUME record_list # << >>
      PROVE  /\ h \in Nat /\ Tail(record_list) \in Seq(Nat)
             /\ Append(myByteBatch, h) \in Seq(Nat)
             /\ Len(Append(myByteBatch, h)) = Len(myByteBatch) + 1
             /\ Len(myByteBatch) \in Nat
  BY <1>1, <1>2 DEF SenderTypeOK
<1>3. CASE NextRecordList
  <2>1. myBatchCounter[myCurrentSubtopic] \in Nat
    BY <1>1 DEF SenderTypeOK
  <2>2. record_list' \in Seq(Nat)
    <3> DEFINE F == myBatchCounter[myCurrentSubtopic]
    <3>1. [i \in 1 .. ListRecords |-> F] \in [1 .. ListRecords -> Nat]
      BY <2>1
    <3> HIDE DEF F
    <3>2. [i \in 1 .. ListRecords |-> F] \in Seq(Nat)
      BY <3>1
    <3> QED BY <3>2, <1>3 DEF NextRecordList, F
  <2> QED BY <1>1, <1>3, <2>2 DEF NextRecordList, SenderTypeOK, NothingLeftBehind
<1>4. CASE FillBatch
  <2> QED BY <1>1, <1>2, <1>4 DEF FillBatch, TakeRecord, SenderTypeOK, NothingLeftBehind
<1>5. CASE FlushBatch
  <2>1. /\ Publish(Append(myByteBatch, h)) /\ record_list # << >>
        /\ record_list' = Tail(record_list) /\ status' = "sending" /\ status = "sending"
        /\ myMessageCounter' = myMessageCounter + 1
        /\ myCurrentSubtopic' = NextSubtopic /\ myByteBatch' = << >>
    BY <1>5 DEF FlushBatch, TakeRecord
  <2>2. /\ wire' \in [Topics -> Seq(Seq(Nat))]
        /\ myBatchCounter' \in [Topics -> Nat]
        /\ published' = published + (Len(myByteBatch) + 1) /\ published' \in Nat
        /\ \A t \in Topics : Len(wire'[t]) < myBatchCounter'[t]
    <3> HIDE DEF h
    <3> QED BY <1>1, <1>2, <2>1, PublishTypes
  <2>3. NextSubtopic \in Topics
    BY <1>1, NextSubtopicType DEF SenderTypeOK
  <2>4. SenderTypeOK'
    BY <1>1, <1>2, <2>1, <2>2, <2>3 DEF SenderTypeOK
  <2>5. published + Len(myByteBatch) = myMessageCounter /\ Len(myByteBatch') = 0
    BY <1>1, <2>1 DEF NothingLeftBehind
  <2>6. NothingLeftBehind'
    BY <1>1, <1>2, <2>1, <2>2, <2>5 DEF SenderTypeOK, NothingLeftBehind
  <2> QED BY <2>2, <2>4, <2>6
<1>6. CASE SendSingle
  BY <1>6, PipelineAssumption DEF SendSingle
<1>7. CASE Finish
  <2>1. CASE myByteBatch # << >>
    <3>1. /\ Publish(myByteBatch) /\ status' = "finished" /\ status = "sending"
          /\ myMessageCounter = sendNumberOfMessages
          /\ UNCHANGED <<record_list, myByteBatch, myMessageCounter, myCurrentSubtopic>>
      BY <1>7, <2>1, PipelineAssumption DEF Finish
    <3>2. /\ wire' \in [Topics -> Seq(Seq(Nat))]
          /\ myBatchCounter' \in [Topics -> Nat]
          /\ published' = published + Len(myByteBatch) /\ published' \in Nat
          /\ \A t \in Topics : Len(wire'[t]) < myBatchCounter'[t]
      <4>1. myByteBatch \in Seq(Nat)
        BY <1>1 DEF SenderTypeOK
      <4> QED BY <1>1, <3>1, <4>1, PublishTypes
    <3> QED BY <1>1, <3>1, <3>2 DEF SenderTypeOK, NothingLeftBehind
  <2>2. CASE myByteBatch = << >>
    BY <1>1, <1>7, <2>2 DEF Finish, SenderTypeOK, NothingLeftBehind
  <2> QED BY <2>1, <2>2
<1>8. CASE Interrupt
  BY <1>1, <1>8 DEF Interrupt, SenderTypeOK, NothingLeftBehind
<1> QED BY <1>3, <1>4, <1>5, <1>6, <1>7, <1>8 DEF SenderNext, MainThread

(* A turn of the loop over the records of a message.                         *)
LEMMA BaseLoop ==
  ASSUME FanInTypeOK, NEW p \in Procs, LoopRecord(p)
  PROVE  FanInTypeOK'
<1> USE FanInAssumption
<1> DEFINE v == Head(query_data[p])
<1>1. v \in Nat /\ Tail(query_data[p]) \in Seq(Nat)
  BY DEF LoopRecord, FanInTypeOK
<1>2. /\ query_data' \in [Procs -> Seq(Nat)] /\ netThread' \in [Procs -> {"up", "dead"}]
  BY <1>1 DEF LoopRecord, FanInTypeOK
<1>3. /\ myMQTTtopicCounterPerUUID' \in [Procs -> Nat]
      /\ alarmed' \in [Procs -> BOOLEAN]
  <2>1. CheckCounter(p)
    BY DEF LoopRecord
  <2> HIDE DEF v
  <2>3. CASE enableMQTTbatchCount[p] /\ Mismatch(p, v)
    <3>1. /\ myMQTTtopicCounterPerUUID' = [myMQTTtopicCounterPerUUID EXCEPT ![p] = v]
          /\ alarmed' = [alarmed EXCEPT ![p] = TRUE]
      BY <2>1, <2>3 DEF CheckCounter, v
    <3> QED BY <3>1, <1>1 DEF FanInTypeOK
  <2>4. CASE ~(enableMQTTbatchCount[p] /\ Mismatch(p, v))
    <3>1. /\ \/ myMQTTtopicCounterPerUUID' = [myMQTTtopicCounterPerUUID EXCEPT ![p] = v]
             \/ myMQTTtopicCounterPerUUID' = myMQTTtopicCounterPerUUID
          /\ alarmed' = alarmed
      BY <2>1, <2>4 DEF CheckCounter, v
    <3>2. myMQTTtopicCounterPerUUID' \in [Procs -> Nat]
      BY <3>1, <1>1 DEF FanInTypeOK
    <3> QED BY <3>1, <3>2 DEF FanInTypeOK
  <2> QED BY <2>3, <2>4
<1>4. Produce(p)
  BY DEF LoopRecord
<1>5. /\ kafka_msg_counter' = kafka_msg_counter
      /\ kafka_msg_ack_received' = kafka_msg_ack_received /\ reports' = reports
      /\ stored' = stored /\ failed' = failed
  BY <1>4 DEF Produce, ProduceAccepted, ProduceRefused
<1>6. queued[p] + 1 \in Nat /\ dropped[p] + 1 \in Nat
  BY DEF FanInTypeOK
<1>7. /\ producing' \in [Procs -> BOOLEAN] /\ queued' \in [Procs -> Nat]
      /\ dropped' \in [Procs -> Nat]
  <2>1. CASE ProduceAccepted(p)
    BY <1>6, <2>1 DEF ProduceAccepted, FanInTypeOK
  <2>2. CASE ProduceRefused(p)
    BY <1>6, <2>2 DEF ProduceRefused, FanInTypeOK
  <2> QED BY <1>4, <2>1, <2>2 DEF Produce
<1> QED BY <1>2, <1>3, <1>5, <1>7 DEF FanInTypeOK

LEMMA BaseFanIn ==
  ASSUME FanInTypeOK, NEW p \in Procs, ProcessStep(p)
  PROVE  FanInTypeOK'
<1>1. CASE LoopRecord(p)
  BY <1>1, BaseLoop
<1> DEFINE r == reports[p]
           Reports == [ok : Nat, err : Nat]
<1>2. r \in Reports /\ r.ok \in Nat /\ r.err \in Nat
  BY DEF FanInTypeOK
<1>3. CASE Poll(p)
  <2>1. UNCHANGED <<netThread, counterVars, producing, kafka_msg_counter, queued,
                    stored, dropped>>
    BY <1>3 DEF Poll
  <2>2. CASE /\ r.ok > 0
             /\ reports' = [reports EXCEPT ![p] = [r EXCEPT !.ok = r.ok - 1]]
             /\ kafka_msg_ack_received' =
                    [kafka_msg_ack_received EXCEPT ![p] = kafka_msg_ack_received[p] + 1]
             /\ failed' = failed
    <3>1. [r EXCEPT !.ok = r.ok - 1] \in Reports
      BY <1>2, <2>2
    <3>2. /\ reports' \in [Procs -> Reports]
          /\ kafka_msg_ack_received' \in [Procs -> Nat]
      BY <2>2, <3>1 DEF FanInTypeOK
    <3> QED BY <2>1, <2>2, <3>2 DEF FanInTypeOK, counterVars
  <2>3. CASE /\ r.err > 0
             /\ reports' = [reports EXCEPT ![p] = [r EXCEPT !.err = r.err - 1]]
             /\ failed' = [failed EXCEPT ![p] = failed[p] + 1]
             /\ kafka_msg_ack_received' = kafka_msg_ack_received
    <3>1. [r EXCEPT !.err = r.err - 1] \in Reports
      BY <1>2, <2>3
    <3>2. reports' \in [Procs -> Reports] /\ failed' \in [Procs -> Nat]
      BY <2>3, <3>1 DEF FanInTypeOK
    <3> QED BY <2>1, <2>3, <3>2 DEF FanInTypeOK, counterVars
  <2> QED BY <1>3, <2>2, <2>3 DEF Poll
<1>4. CASE BrokerStores(p)
  <2>1. /\ queued' = [queued EXCEPT ![p] = queued[p] - 1] /\ queued[p] > 0
        /\ stored' = [stored EXCEPT ![p] = stored[p] + 1]
        /\ reports' = [reports EXCEPT ![p] = [r EXCEPT !.ok = r.ok + 1]]
        /\ UNCHANGED <<netThread, counterVars, producing, kafka_msg_counter,
                       kafka_msg_ack_received, failed, dropped>>
    BY <1>4 DEF BrokerStores
  <2>2. reports' \in [Procs -> Reports]
    <3>1. [r EXCEPT !.ok = r.ok + 1] \in Reports
      BY <1>2
    <3> QED BY <2>1, <3>1 DEF FanInTypeOK
  <2>3. queued' \in [Procs -> Nat] /\ stored' \in [Procs -> Nat]
    BY <2>1 DEF FanInTypeOK
  <2> QED BY <2>1, <2>2, <2>3 DEF FanInTypeOK, counterVars
<1>5. CASE DeliveryFails(p)
  <2>1. /\ queued' = [queued EXCEPT ![p] = queued[p] - 1] /\ queued[p] > 0
        /\ reports' = [reports EXCEPT ![p] = [r EXCEPT !.err = r.err + 1]]
        /\ UNCHANGED <<netThread, counterVars, producing, kafka_msg_counter,
                       kafka_msg_ack_received, stored, failed, dropped>>
    BY <1>5 DEF DeliveryFails
  <2>2. reports' \in [Procs -> Reports]
    <3>1. [r EXCEPT !.err = r.err + 1] \in Reports
      BY <1>2
    <3> QED BY <2>1, <3>1 DEF FanInTypeOK
  <2>3. queued' \in [Procs -> Nat]
    BY <2>1 DEF FanInTypeOK
  <2> QED BY <2>1, <2>2, <2>3 DEF FanInTypeOK, counterVars
<1>6. CASE CountProduced(p)
  <2>1. kafka_msg_counter[p] + 1 \in Nat
    BY DEF FanInTypeOK
  <2>2. kafka_msg_counter' \in [Procs -> Nat] /\ producing' \in [Procs -> BOOLEAN]
    BY <1>6, <2>1 DEF CountProduced, FanInTypeOK
  <2> QED BY <1>6, <2>2 DEF CountProduced, FanInTypeOK, counterVars
<1> QED BY <1>1, <1>3, <1>4, <1>5, <1>6 DEF ProcessStep

(* A step of the network; every process runs with --batching.                *)
LEMMA BaseReceive ==
  ASSUME BaseInv, NEW t \in Topics, Receive(t)
  PROVE  BaseInv'
<1> USE PipelineAssumption
<1>1. /\ wire[t] \in Seq(Seq(Nat)) /\ wire[t] # << >>
      /\ Head(wire[t]) \in Seq(Nat) /\ Tail(wire[t]) \in Seq(Seq(Nat))
      /\ Len(Tail(wire[t])) = Len(wire[t]) - 1 /\ Len(wire[t]) \in Nat
  BY DEF Receive, BaseInv, PipelineTypeOK, SenderTypeOK
<1>2. /\ wire' = [wire EXCEPT ![t] = Tail(wire[t])]
      /\ current' = [current EXCEPT ![t] = OldestInFlight(t)]
      /\ gap' = [gap EXCEPT ![t] = OldestInFlight(t) - current[t] - 1]
      /\ UNCHANGED <<status, record_list, myByteBatch, myMessageCounter,
                     myBatchCounter, myCurrentSubtopic, published>>
  BY DEF Receive
<1>3. OldestInFlight(t) \in Nat /\ current[t] \in Nat
  BY <1>1 DEF BaseInv, PipelineTypeOK, SenderTypeOK, OldestInFlight
<1>4. SenderTypeOK' /\ NothingLeftBehind'
  <2>1. wire' \in [Topics -> Seq(Seq(Nat))]
    BY <1>1, <1>2 DEF BaseInv, PipelineTypeOK, SenderTypeOK
  <2> QED BY <1>2, <2>1 DEF BaseInv, PipelineTypeOK, SenderTypeOK, NothingLeftBehind
<1>5. \A u \in Topics : Len(wire'[u]) < myBatchCounter'[u]
  BY <1>1, <1>2 DEF BaseInv, PipelineTypeOK, SenderTypeOK
<1>6. FanInTypeOK'
  <2>1. OnMessage(t, Head(wire[t])) /\ t \in Procs
    BY DEF Receive
  <2>2. /\ query_data' = [query_data EXCEPT ![t] = Head(wire[t])]
        /\ alarmed' = [alarmed EXCEPT ![t] = FALSE]
        /\ UNCHANGED <<netThread, myMQTTtopicCounterPerUUID, kafkaVars>>
    BY <2>1 DEF OnMessage
  <2>3. /\ query_data' \in [Procs -> Seq(Nat)] /\ alarmed' \in [Procs -> BOOLEAN]
      BY <1>1, <2>1, <2>2 DEF BaseInv, PipelineTypeOK, FanInTypeOK
  <2> QED BY <2>2, <2>3 DEF BaseInv, PipelineTypeOK, FanInTypeOK, kafkaVars
<1>7. current' \in [Topics -> Nat] /\ gap' \in [Topics -> Int]
  BY <1>2, <1>3 DEF BaseInv, PipelineTypeOK
<1> QED BY <1>4, <1>5, <1>6, <1>7 DEF BaseInv, PipelineTypeOK

LEMMA BaseLose ==
  ASSUME BaseInv, NEW t \in Topics, Lose(t)
  PROVE  BaseInv'
<1>1. /\ wire[t] \in Seq(Seq(Nat)) /\ wire[t] # << >> /\ Tail(wire[t]) \in Seq(Seq(Nat))
      /\ Len(Tail(wire[t])) = Len(wire[t]) - 1 /\ Len(wire[t]) \in Nat
  BY DEF Lose, BaseInv, PipelineTypeOK, SenderTypeOK
<1>2. /\ wire' = [wire EXCEPT ![t] = Tail(wire[t])]
      /\ UNCHANGED <<status, record_list, myByteBatch, myMessageCounter,
                     myBatchCounter, myCurrentSubtopic, published,
                     fanInVars, current, gap>>
  BY DEF Lose
<1>3. SenderTypeOK' /\ NothingLeftBehind'
  <2>1. wire' \in [Topics -> Seq(Seq(Nat))]
    BY <1>1, <1>2 DEF BaseInv, PipelineTypeOK, SenderTypeOK
  <2> QED BY <1>2, <2>1 DEF BaseInv, PipelineTypeOK, SenderTypeOK, NothingLeftBehind
<1>4. \A u \in Topics : Len(wire'[u]) < myBatchCounter'[u]
  BY <1>1, <1>2 DEF BaseInv, PipelineTypeOK, SenderTypeOK
<1>5. FanInTypeOK'
  BY <1>2 DEF BaseInv, PipelineTypeOK, FanInTypeOK, fanInVars, counterVars, kafkaVars
<1> QED BY <1>2, <1>3, <1>4, <1>5 DEF BaseInv, PipelineTypeOK

LEMMA BaseStep == BaseInv /\ [Next]_pipelineVars => BaseInv'
<1> SUFFICES ASSUME BaseInv, [Next]_pipelineVars PROVE BaseInv'
  OBVIOUS
<1>1. CASE SenderStep
  <2>1. /\ SenderTypeOK' /\ NothingLeftBehind'
        /\ \A t \in Topics : Len(wire'[t]) < myBatchCounter'[t]
    BY <1>1, BaseSender DEF SenderStep
  <2>2. FanInTypeOK' /\ UNCHANGED <<current, gap>>
    BY <1>1 DEF SenderStep, BaseInv, PipelineTypeOK, FanInTypeOK, fanInVars,
                counterVars, kafkaVars
  <2> QED BY <2>1, <2>2 DEF BaseInv, PipelineTypeOK
<1>2. ASSUME NEW t \in Topics, Receive(t) PROVE BaseInv'
  BY <1>2, BaseReceive
<1>3. ASSUME NEW t \in Topics, Lose(t) PROVE BaseInv'
  BY <1>3, BaseLose
<1>4. ASSUME NEW t \in Topics, FanInStep(t) PROVE BaseInv'
  <2>1. FanInTypeOK'
    BY <1>4, BaseFanIn, PipelineAssumption DEF FanInStep, BaseInv, PipelineTypeOK
  <2> QED
    BY <1>4, <2>1 DEF FanInStep, BaseInv, PipelineTypeOK, SenderTypeOK, senderVars,
                      NothingLeftBehind
<1>5. CASE UNCHANGED pipelineVars
  BY <1>5 DEF pipelineVars, senderVars, fanInVars, counterVars, kafkaVars, BaseInv,
              PipelineTypeOK, SenderTypeOK, FanInTypeOK, NothingLeftBehind
<1> QED BY <1>1, <1>2, <1>3, <1>4, <1>5 DEF Next

(* The state of both ends keeps its type; in particular the batches in       *)
(* flight never outnumber the counter that the subtopic's records are        *)
(* stamped with (mqtt_send_triplet_batch, mqtt_on_message).                  *)
THEOREM TypesCorrect == Spec => []PipelineTypeOK
<1>1. BaseInv => PipelineTypeOK
  BY DEF BaseInv
<1> QED BY <1>1, BaseInit, BaseStep, PTL DEF Spec

(* However the record lists straddle the batches, every record counted as    *)
(* sent is published or in the batch kept across the calls of                *)
(* mqtt_send_triplet_batch, and a sender that ends at its limit has          *)
(* published exactly that many.                                              *)
THEOREM NothingStaysBehind == Spec => []NothingLeftBehind
<1>1. BaseInv => NothingLeftBehind
  BY DEF BaseInv
<1> QED BY <1>1, BaseInit, BaseStep, PTL DEF Spec
----------------------------------------------------------------------------
(* After a flush every other subtopic is one turn nearer, and the one just   *)
(* used has become the last.                                                 *)
LEMMA Turns ==
  ASSUME myCurrentSubtopic \in Topics, myCurrentSubtopic' = NextSubtopic
  PROVE  /\ \A t \in Topics : TurnsUntil(t) \in 0 .. NumTopics - 1
         /\ \A t \in Topics : TurnsUntil(t) = 0 <=> t = myCurrentSubtopic
         /\ \A t \in Topics : t # myCurrentSubtopic => TurnsUntil(t)' = TurnsUntil(t) - 1
         /\ \A t \in Topics : t = myCurrentSubtopic => TurnsUntil(t)' = NumTopics - 1
  BY SenderAssumption DEF Topics, TurnsUntil, NextSubtopic

LEMMA RotationInit == Init => RotationInv
<1> SUFFICES ASSUME Init PROVE RotationInv
  OBVIOUS
<1>1. /\ myCurrentSubtopic \in Topics
      /\ \A t \in Topics : myBatchCounter[t] = 1
  BY DEF Init, SenderInit
<1> QED BY <1>1 DEF RotationInv, InTurn, EvenRotation

LEMMA RotationFlush ==
  ASSUME BaseInv, InTurn, FlushBatch
  PROVE  InTurn' /\ EvenRotation'
<1> DEFINE s == myCurrentSubtopic
           n == myBatchCounter
<1>1. /\ s \in Topics /\ \A t \in Topics : n[t] \in Nat
  BY DEF BaseInv, PipelineTypeOK, SenderTypeOK
<1>2. /\ myCurrentSubtopic' = NextSubtopic
      /\ n'[s] = n[s] + 1
      /\ \A t \in Topics : t # s => n'[t] = n[t]
  BY <1>1 DEF FlushBatch, Publish, BaseInv, PipelineTypeOK, SenderTypeOK
<1>3. NextSubtopic \in Topics
  BY <1>1, NextSubtopicType
<1>4. /\ \A t \in Topics : TurnsUntil(t) \in 0 .. NumTopics - 1
      /\ \A t \in Topics : TurnsUntil(t) = 0 <=> t = s
      /\ \A t \in Topics : t # s => TurnsUntil(t)' = TurnsUntil(t) - 1
      /\ \A t \in Topics : t = s => TurnsUntil(t)' = NumTopics - 1
  BY <1>1, <1>2, Turns
<1>5. /\ \A t, u \in Topics : TurnsUntil(t) <= TurnsUntil(u) => n[t] <= n[u]
      /\ \A t \in Topics : n[t] <= n[s] + 1
  BY DEF InTurn
<1>6. ASSUME NEW t \in Topics PROVE n[s] <= n'[t] /\ n'[t] <= n[s] + 1
  BY <1>1, <1>2, <1>4, <1>5, <1>6
<1> HIDE DEF s, n
<1>7. ASSUME NEW t \in Topics, NEW u \in Topics, TurnsUntil(t)' <= TurnsUntil(u)'
      PROVE  n'[t] <= n'[u]
  <2>1. CASE u = s
    BY <2>1, <1>2, <1>6
  <2>2. CASE u # s /\ t # s
    BY <2>2, <1>2, <1>4, <1>5, <1>7
  <2>3. CASE u # s /\ t = s
    BY <2>3, <1>4, <1>7, SenderAssumption
  <2> QED BY <2>1, <2>2, <2>3
<1>8. ASSUME NEW t \in Topics PROVE n'[t] <= n'[NextSubtopic] + 1
  <2>1. CASE NextSubtopic = s
    BY <1>1, <1>2, <1>6, <2>1
  <2>2. CASE NextSubtopic # s
    BY <1>1, <1>2, <1>3, <1>6, <2>2
  <2> QED BY <2>1, <2>2
<1>9. \A t, u \in Topics : n'[t] - n'[u] <= 1
  <2>1. \A t \in Topics : n[s] <= n'[t] /\ n'[t] <= n[s] + 1 /\ n[s] \in Nat /\ n'[t] \in Nat
    BY <1>1, <1>2, <1>6
  <2> QED BY <2>1
<1> QED BY <1>2, <1>7, <1>8, <1>9 DEF InTurn, EvenRotation, n

(* In turn, no two counters are further apart than one.                      *)
LEMMA InTurnIsEven ==
  ASSUME BaseInv, InTurn
  PROVE  /\ EvenRotation
         /\ \A t \in Topics :
              myBatchCounter[t] \in {myBatchCounter[myCurrentSubtopic],
                                     myBatchCounter[myCurrentSubtopic] + 1}
<1>1. /\ myCurrentSubtopic \in Topics /\ \A t \in Topics : myBatchCounter[t] \in Nat
  BY DEF BaseInv, PipelineTypeOK, SenderTypeOK
<1>2. \A t \in Topics : TurnsUntil(myCurrentSubtopic) <= TurnsUntil(t)
  BY <1>1, SenderAssumption DEF TurnsUntil, Topics
<1>3. \A t \in Topics : /\ myBatchCounter[myCurrentSubtopic] <= myBatchCounter[t]
                        /\ myBatchCounter[t] <= myBatchCounter[myCurrentSubtopic] + 1
  BY <1>1, <1>2 DEF InTurn
<1> QED BY <1>1, <1>3 DEF EvenRotation

LEMMA RotationStep == BaseInv /\ RotationInv /\ [Next]_pipelineVars => RotationInv'
<1> SUFFICES ASSUME BaseInv, RotationInv, [Next]_pipelineVars PROVE RotationInv'
  OBVIOUS
<1>1. CASE FlushBatch
  <2>1. InTurn' /\ EvenRotation'
    BY <1>1, RotationFlush DEF RotationInv, FlushBatch, TakeRecord
  <2> QED BY <2>1 DEF RotationInv
<1>2. CASE Finish
  <2> DEFINE n == myBatchCounter
             s == myCurrentSubtopic
  <2>1. /\ s \in Topics /\ \A t \in Topics : n[t] \in Nat
        /\ \A t \in Topics : n[t] \in {n[s], n[s] + 1}
    BY <1>2, InTurnIsEven DEF Finish, RotationInv, BaseInv, PipelineTypeOK, SenderTypeOK
  <2>2. \A t \in Topics : n'[t] \in {n[s], n[s] + 1}
    <3>1. \A t \in Topics : n'[t] = n[t] \/ (t = s /\ n'[t] = n[t] + 1)
      BY <1>2, <2>1 DEF Finish, Publish, BaseInv, PipelineTypeOK, SenderTypeOK
    <3> QED BY <2>1, <3>1
  <2>3. EvenRotation'
    BY <2>1, <2>2 DEF EvenRotation
  <2> QED BY <1>2, <2>3 DEF Finish, RotationInv
<1>3. CASE NextRecordList \/ FillBatch \/ Interrupt
  <2>1. UNCHANGED <<myBatchCounter, myCurrentSubtopic>> /\ status # "finished"
    BY <1>3 DEF NextRecordList, FillBatch, TakeRecord, Interrupt
  <2> QED BY <2>1 DEF RotationInv, InTurn, TurnsUntil, EvenRotation
<1>4. CASE UNCHANGED <<status, myBatchCounter, myCurrentSubtopic>>
  BY <1>4 DEF RotationInv, InTurn, TurnsUntil, EvenRotation
<1>5. ~SendSingle
  BY PipelineAssumption DEF SendSingle
<1> QED
  BY <1>1, <1>2, <1>3, <1>4, <1>5
  DEF Next, SenderStep, SenderNext, MainThread, Receive, Lose, FanInStep, pipelineVars,
      senderVars

(* The subtopics are used in rotation, whatever their number, the subtopic   *)
(* the agent started from and the alignment of lists and batches             *)
(* (mqtt_send_triplet_batch, setMqttNumberOfPublishingTopics).               *)
THEOREM RotationIsEven == Spec => []EvenRotation
<1> DEFINE Inv == BaseInv /\ RotationInv
<1>1. Init => Inv
  BY BaseInit, RotationInit
<1>2. Inv /\ [Next]_pipelineVars => Inv'
  BY BaseStep, RotationStep
<1>3. Inv => EvenRotation
  BY DEF RotationInv
<1> QED BY <1>1, <1>2, <1>3, PTL DEF Spec
----------------------------------------------------------------------------
LEMMA StampedAppend ==
  ASSUME NEW b \in Seq(Nat), NEW n \in Nat, NEW h \in Nat,
         h \in {n - 1, n}, h >= 1, Stamped(b, n), \A i \in 1 .. Len(b) : b[i] <= h
  PROVE  /\ Stamped(Append(b, h), n)
         /\ h = n => EndsIn(Append(b, h), n)
<1> DEFINE c == Append(b, h)
<1>1. /\ Len(c) = Len(b) + 1 /\ Len(b) \in Nat /\ c[Len(b) + 1] = h
      /\ \A i \in 1 .. Len(b) : c[i] = b[i] /\ b[i] \in Nat
  OBVIOUS
<1> HIDE DEF c
<1>2. ASSUME NEW i \in 1 .. Len(c) PROVE c[i] \in {n - 1, n} /\ c[i] >= 1
  BY <1>1 DEF Stamped
<1>3. ASSUME NEW i \in 1 .. Len(c), NEW j \in 1 .. Len(c), i <= j PROVE c[i] <= c[j]
  <2>1. CASE j = Len(b) + 1
    BY <1>1, <2>1
  <2>2. CASE j # Len(b) + 1
    <3>1. i \in 1 .. Len(b) /\ j \in 1 .. Len(b)
      BY <1>1, <1>3, <2>2
    <3> QED BY <1>1, <1>3, <3>1 DEF Stamped
  <2> QED BY <2>1, <2>2
<1>4. Stamped(c, n)
  BY <1>2, <1>3 DEF Stamped
<1>5. h = n => EndsIn(c, n)
  BY <1>1 DEF EndsIn
<1> QED BY <1>4, <1>5 DEF c

LEMMA StampedTail ==
  ASSUME NEW b \in Seq(Nat), NEW n \in Nat, b # << >>, Stamped(b, n)
  PROVE  /\ Head(b) \in {n - 1, n} /\ Head(b) >= 1
         /\ Stamped(Tail(b), n)
         /\ Tail(b) # << >> => Head(b) <= Head(Tail(b))
         /\ EndsIn(b, n) => EndsIn(Tail(b), n) /\ (Tail(b) = << >> => Head(b) = n)
<1> DEFINE c == Tail(b)
<1>1. /\ Len(b) \in Nat /\ Len(b) > 0 /\ Len(c) = Len(b) - 1 /\ Head(b) = b[1]
      /\ \A i \in 1 .. Len(c) : c[i] = b[i + 1]
      /\ c \in Seq(Nat)
  OBVIOUS
<1>2. c # << >> => Len(c) > 0 /\ Head(c) = c[1]
  BY <1>1
<1> HIDE DEF c
<1>3. c = << >> => Len(b) = 1
  <2>1. c = << >> => Len(c) = 0
    OBVIOUS
  <2> QED BY <1>1, <2>1
<1>4. Head(b) \in {n - 1, n} /\ Head(b) >= 1
  BY <1>1 DEF Stamped
<1>5. Stamped(c, n)
  <2>1. ASSUME NEW i \in 1 .. Len(c) PROVE c[i] \in {n - 1, n} /\ c[i] >= 1
    <3>1. i + 1 \in 1 .. Len(b) /\ c[i] = b[i + 1]
      BY <1>1
    <3> QED BY <3>1 DEF Stamped
  <2>2. ASSUME NEW i \in 1 .. Len(c), NEW j \in 1 .. Len(c), i <= j PROVE c[i] <= c[j]
    <3>1. /\ i + 1 \in 1 .. Len(b) /\ c[i] = b[i + 1]
          /\ j + 1 \in 1 .. Len(b) /\ c[j] = b[j + 1] /\ i + 1 <= j + 1
      BY <1>1, <2>2
    <3> QED BY <3>1 DEF Stamped
  <2> QED BY <2>1, <2>2 DEF Stamped
<1>6. c # << >> => Head(b) <= Head(c)
  <2>1. c # << >> => Head(c) = b[2] /\ 2 \in 1 .. Len(b) /\ 1 \in 1 .. Len(b)
    BY <1>1, <1>2
  <2> QED BY <1>1, <2>1 DEF Stamped
<1>7. EndsIn(b, n) => EndsIn(c, n) /\ (c = << >> => Head(b) = n)
  <2>1. c # << >> => c[Len(c)] = b[Len(b)]
    BY <1>1, <1>2
  <2> QED BY <1>1, <1>3, <2>1 DEF EndsIn
<1> QED BY <1>4, <1>5, <1>6, <1>7 DEF c

LEMMA StampedAlike ==
  ASSUME NEW b \in Seq(Nat), NEW n \in Nat, NEW h \in Nat,
         h \in {n - 1, n}, h >= 1, \A i \in 1 .. Len(b) : b[i] = h
  PROVE  Stamped(b, n)
<1>1. ASSUME NEW i \in 1 .. Len(b) PROVE b[i] \in {n - 1, n} /\ b[i] >= 1
  BY <1>1
<1>2. ASSUME NEW i \in 1 .. Len(b), NEW j \in 1 .. Len(b) PROVE b[i] <= b[j]
  <2>1. b[i] = h /\ b[j] = h
    BY <1>2
  <2> QED BY <2>1
<1> QED BY <1>1, <1>2 DEF Stamped

(* The number of the batch being filled.                                     *)
LEMMA FillingType == BaseInv => Filling \in Nat /\ Filling >= 1
<1> SUFFICES ASSUME BaseInv PROVE Filling \in Nat /\ Filling >= 1
  OBVIOUS
<1>1. myCurrentSubtopic \in Topics /\ myBatchCounter[myCurrentSubtopic] \in Nat
  BY DEF BaseInv, PipelineTypeOK, SenderTypeOK
<1>2. /\ Len(wire[myCurrentSubtopic]) < myBatchCounter[myCurrentSubtopic]
      /\ Len(wire[myCurrentSubtopic]) \in Nat
  BY <1>1 DEF BaseInv, PipelineTypeOK, SenderTypeOK
<1> QED BY <1>1, <1>2 DEF Filling

LEMMA DetectorInit == Init => DetectorInv
<1> SUFFICES ASSUME Init PROVE DetectorInv
  OBVIOUS
<1>1. /\ record_list = << >> /\ myByteBatch = << >>
      /\ \A t \in Topics : wire[t] = << >> /\ myBatchCounter[t] = 1
  BY DEF Init, SenderInit
<1>2. \A t \in Topics :
          /\ query_data[t] = << >> /\ myMQTTtopicCounterPerUUID[t] = 0
          /\ current[t] = 0 /\ gap[t] = 0 /\ alarmed[t] = FALSE
  BY PipelineAssumption DEF Init, FanInInit
<1>3. Len(<< >>) = 0 /\ 1 .. 0 = {}
  OBVIOUS
<1>4. SenderStamps
  BY <1>1, <1>3, SenderAssumption DEF SenderStamps, Stamped
<1>5. WireStamps
  BY <1>1, <1>3 DEF WireStamps
<1>6. DetectorFollows
  BY <1>1, <1>2, <1>3 DEF DetectorFollows, FollowsAt, OldestInFlight, Stamped, EndsIn
<1> QED BY <1>4, <1>5, <1>6 DEF DetectorInv
(* A batch that is published gets the number it was filled under, and the    *)
(* oldest batch in flight keeps its own.                                     *)
LEMMA PublishStamps ==
  ASSUME BaseInv, WireStamps, status = "sending",
         NEW batch \in Seq(Nat), Publish(batch),
         batch # << >>, Stamped(batch, Filling),
         status' = "finished" \/ EndsIn(batch, Filling)
  PROVE  /\ WireStamps'
         /\ \A t \in Topics : OldestInFlight(t)' = OldestInFlight(t)
<1> DEFINE w == Append(wire[myCurrentSubtopic], batch)
<1>1. /\ myCurrentSubtopic \in Topics
      /\ \A t \in Topics : wire[t] \in Seq(Seq(Nat)) /\ Len(wire[t]) \in Nat
                           /\ myBatchCounter[t] \in Nat
  BY DEF BaseInv, PipelineTypeOK, SenderTypeOK
<1>2. \A t \in Topics : t # myCurrentSubtopic =>
          wire'[t] = wire[t] /\ myBatchCounter'[t] = myBatchCounter[t]
  BY DEF Publish, BaseInv, PipelineTypeOK, SenderTypeOK
<1>3. \A t \in Topics : t = myCurrentSubtopic =>
          wire'[t] = w /\ myBatchCounter'[t] = myBatchCounter[t] + 1
  BY <1>1 DEF Publish, BaseInv, PipelineTypeOK, SenderTypeOK
<1>4. /\ Len(w) = Len(wire[myCurrentSubtopic]) + 1
      /\ \A i \in 1 .. Len(wire[myCurrentSubtopic]) : w[i] = wire[myCurrentSubtopic][i]
      /\ w[Len(wire[myCurrentSubtopic]) + 1] = batch
  BY <1>1
<1> HIDE DEF w
<1>5. \A t \in Topics :
        \/ /\ t # myCurrentSubtopic
           /\ wire'[t] = wire[t] /\ myBatchCounter'[t] = myBatchCounter[t]
        \/ /\ t = myCurrentSubtopic
           /\ wire'[t] = w /\ myBatchCounter'[t] = myBatchCounter[t] + 1
           /\ Len(wire'[t]) = Len(wire[t]) + 1
           /\ \A i \in 1 .. Len(wire[t]) : w[i] = wire[t][i]
           /\ w[Len(wire[t]) + 1] = batch
  BY <1>2, <1>3, <1>4
<1>6. ASSUME NEW t \in Topics
      PROVE  myBatchCounter'[t] - Len(wire'[t]) = myBatchCounter[t] - Len(wire[t])
  <2>1. CASE t # myCurrentSubtopic
    BY <1>5, <2>1
  <2>2. CASE t = myCurrentSubtopic
    <3>1. Len(wire'[t]) = Len(wire[t]) + 1 /\ myBatchCounter'[t] = myBatchCounter[t] + 1
      BY <1>5, <2>2
    <3> QED BY <1>1, <3>1
  <2> QED BY <2>1, <2>2
<1>7. ASSUME NEW t \in Topics, NEW i \in 1 .. Len(wire'[t])
      PROVE  /\ wire'[t][i] # << >>
             /\ Stamped(wire'[t][i], InFlight(t, i)')
             /\ \/ status' = "finished" /\ i = Len(wire'[t])
                \/ EndsIn(wire'[t][i], InFlight(t, i)')
  <2>1. CASE i \in 1 .. Len(wire[t])
    <3>1. wire'[t][i] = wire[t][i]
      BY <1>5, <2>1
    <3>2. InFlight(t, i)' = InFlight(t, i)
      BY <1>6 DEF InFlight
    <3> QED BY <2>1, <3>1, <3>2 DEF WireStamps
  <2>2. CASE i \notin 1 .. Len(wire[t])
    <3>1. t = myCurrentSubtopic /\ i = Len(wire[t]) + 1
      BY <1>1, <1>5, <2>2
    <3>2. wire'[t][i] = batch /\ i = Len(wire'[t]) /\ i \in Nat
      BY <1>1, <1>5, <3>1
    <3>3. InFlight(t, i)' = Filling
      <4>1. InFlight(t, i)' = (myBatchCounter[t] - Len(wire[t])) + i - 1
        BY <1>6 DEF InFlight
      <4>2. Filling = myBatchCounter[t]
        BY <3>1 DEF Filling
      <4> QED BY <1>1, <3>1, <4>1, <4>2
    <3> QED BY <3>2, <3>3
  <2> QED BY <2>1, <2>2
<1>8. \A t \in Topics : OldestInFlight(t)' = OldestInFlight(t)
  BY <1>6 DEF OldestInFlight
<1> QED BY <1>7, <1>8 DEF WireStamps

LEMMA SendersFlush ==
  ASSUME BaseInv, RotationInv, SenderStamps, FlushBatch, BatchRecords >= ListRecords
  PROVE  /\ Stamped(Append(myByteBatch, Head(record_list)), Filling)
         /\ EndsIn(Append(myByteBatch, Head(record_list)), Filling)
         /\ SenderStamps'
<1> USE SenderAssumption
<1> DEFINE h == Head(record_list)
           r == Tail(record_list)
<1>1. /\ status = "sending" /\ record_list # << >> /\ Len(myByteBatch) + 1 >= BatchRecords
      /\ record_list' = r /\ myByteBatch' = << >> /\ myCurrentSubtopic' = NextSubtopic
      /\ Publish(Append(myByteBatch, h))
  BY DEF FlushBatch, TakeRecord
<1>2. /\ record_list \in Seq(Nat) /\ Len(record_list) \in Nat /\ Len(record_list) > 0
      /\ h = record_list[1] /\ h \in Nat
      /\ myByteBatch \in Seq(Nat) /\ Len(myByteBatch) \in Nat
      /\ r \in Seq(Nat) /\ Len(r) = Len(record_list) - 1
      /\ \A i \in 1 .. Len(r) : r[i] = record_list[i + 1] /\ i + 1 \in 1 .. Len(record_list)
  BY <1>1 DEF BaseInv, PipelineTypeOK, SenderTypeOK
<1>3. Filling \in Nat /\ Filling >= 1
  BY FillingType
<1> HIDE DEF h, r
<1>4. /\ Stamped(myByteBatch, Filling) /\ Stamped(record_list, Filling)
      /\ Len(record_list) <= ListRecords
      /\ \A i, j \in 1 .. Len(record_list) : record_list[i] = record_list[j]
      /\ \A i \in 1 .. Len(myByteBatch) : myByteBatch[i] <= h
      /\ record_list[1] # Filling => Len(myByteBatch) + Len(record_list) < ListRecords
  BY <1>1, <1>2 DEF SenderStamps
<1>5. h = Filling
  BY <1>1, <1>2, <1>4
<1>6. /\ Stamped(Append(myByteBatch, h), Filling) /\ EndsIn(Append(myByteBatch, h), Filling)
  BY <1>2, <1>3, <1>4, <1>5, StampedAppend
<1>7. Filling' \in {Filling, Filling + 1}
  <2>1. myCurrentSubtopic \in Topics /\ NextSubtopic \in Topics
    BY NextSubtopicType DEF BaseInv, PipelineTypeOK, SenderTypeOK
  <2>2. myBatchCounter[NextSubtopic] \in {Filling, Filling + 1}
    BY <1>1, <2>1, InTurnIsEven DEF RotationInv, Filling
  <2>3. myBatchCounter' = [myBatchCounter EXCEPT ![myCurrentSubtopic] = Filling + 1]
    BY <1>1 DEF Publish, Filling
  <2>4. Filling' \in {myBatchCounter[NextSubtopic], Filling + 1}
    BY <1>1, <2>1, <2>3 DEF Filling, BaseInv, PipelineTypeOK, SenderTypeOK
  <2> QED BY <2>2, <2>4
<1>8. ASSUME NEW i \in 1 .. Len(r) PROVE r[i] = Filling
  <2>1. 1 \in 1 .. Len(record_list) /\ i + 1 \in 1 .. Len(record_list) /\ r[i] = record_list[i + 1]
    BY <1>2
  <2> QED BY <1>2, <1>4, <1>5, <2>1
<1>9. SenderStamps'
  <2> DEFINE n == Filling'
  <2>1. n \in Nat /\ Filling \in {n - 1, n}
    <3>1. n = Filling \/ n = Filling + 1
      BY <1>7
    <3> HIDE DEF n
    <3> QED BY <1>3, <3>1
  <2> HIDE DEF n
  <2>2. Stamped(r, n)
    BY <1>2, <1>3, <1>8, <2>1, StampedAlike
  <2>3. Len(<< >>) = 0 /\ 1 .. 0 = {}
    OBVIOUS
  <2>4. Stamped(<< >>, n)
    BY <2>3 DEF Stamped
  <2>5. /\ Len(r) < ListRecords /\ Len(r) \in Nat
    BY <1>2, <1>4
  <2> QED BY <1>1, <1>8, <2>2, <2>3, <2>4, <2>5 DEF SenderStamps, n
<1> QED BY <1>6, <1>9 DEF h

LEMMA SendersFill ==
  ASSUME BaseInv, SenderStamps, FillBatch
  PROVE  SenderStamps'
<1> USE SenderAssumption
<1> DEFINE h == Head(record_list)
           r == Tail(record_list)
           b == Append(myByteBatch, h)
<1>1. /\ status = "sending" /\ record_list # << >>
      /\ record_list' = r /\ myByteBatch' = b
      /\ UNCHANGED <<myBatchCounter, myCurrentSubtopic>>
  BY DEF FillBatch, TakeRecord
<1>2. /\ record_list \in Seq(Nat) /\ Len(record_list) \in Nat /\ Len(record_list) > 0
      /\ h = record_list[1] /\ h \in Nat
      /\ myByteBatch \in Seq(Nat) /\ Len(myByteBatch) \in Nat
      /\ r \in Seq(Nat) /\ Len(r) = Len(record_list) - 1
      /\ \A i \in 1 .. Len(r) : r[i] = record_list[i + 1] /\ i + 1 \in 1 .. Len(record_list)
      /\ Len(b) = Len(myByteBatch) + 1 /\ b[Len(myByteBatch) + 1] = h
      /\ \A i \in 1 .. Len(myByteBatch) : b[i] = myByteBatch[i]
  BY <1>1 DEF BaseInv, PipelineTypeOK, SenderTypeOK
<1>3. Filling \in Nat /\ Filling >= 1 /\ Filling' = Filling
  BY <1>1, FillingType DEF Filling
<1> HIDE DEF h, r
<1>4. /\ Stamped(myByteBatch, Filling) /\ Stamped(record_list, Filling)
      /\ Len(record_list) <= ListRecords
      /\ \A i, j \in 1 .. Len(record_list) : record_list[i] = record_list[j]
      /\ \A i \in 1 .. Len(myByteBatch) : myByteBatch[i] <= h
      /\ h # Filling => Len(myByteBatch) + Len(record_list) < ListRecords
  BY <1>1, <1>2 DEF SenderStamps
<1>5. Stamped(b, Filling)
  <2>1. h \in {Filling - 1, Filling} /\ h >= 1
    BY <1>2, <1>4 DEF Stamped
  <2> QED BY <1>2, <1>3, <1>4, <2>1, StampedAppend
<1> HIDE DEF b
<1>6. ASSUME NEW i \in 1 .. Len(r) PROVE r[i] = h
  <2>1. 1 \in 1 .. Len(record_list) /\ i + 1 \in 1 .. Len(record_list) /\ r[i] = record_list[i + 1]
    BY <1>2
  <2> QED BY <1>2, <1>4, <2>1
<1>7. Stamped(r, Filling)
  <2>1. h \in {Filling - 1, Filling} /\ h >= 1
    BY <1>2, <1>4 DEF Stamped
  <2> QED BY <1>2, <1>3, <1>6, <2>1, StampedAlike
<1>8. ASSUME NEW i \in 1 .. Len(b) PROVE b[i] <= h
  <2>1. CASE i \in 1 .. Len(myByteBatch)
    BY <1>2, <1>4, <2>1
  <2>2. CASE i = Len(myByteBatch) + 1
    BY <1>2, <2>2
  <2> QED BY <1>2, <2>1, <2>2
<1>9. Len(b) + Len(r) = Len(myByteBatch) + Len(record_list) /\ Len(r) <= ListRecords
  BY <1>2, <1>4
<1>10. r # << >> => 1 \in 1 .. Len(r)
  BY <1>2
<1> QED BY <1>1, <1>3, <1>4, <1>5, <1>6, <1>7, <1>8, <1>9, <1>10 DEF SenderStamps

LEMMA SendersList ==
  ASSUME BaseInv, SenderStamps, NextRecordList
  PROVE  SenderStamps'
<1> USE SenderAssumption
<1>1. /\ status = "sending" /\ UNCHANGED <<myByteBatch, myBatchCounter, myCurrentSubtopic>>
      /\ record_list' = [i \in 1 .. ListRecords |-> Filling]
  BY DEF NextRecordList, Filling
<1>2. Filling \in Nat /\ Filling >= 1 /\ Filling' = Filling
  BY <1>1, FillingType DEF Filling
<1>3. /\ Len(record_list') = ListRecords
      /\ \A i \in 1 .. ListRecords : record_list'[i] = Filling
      /\ 1 \in 1 .. ListRecords
  BY <1>1, <1>2
<1>4. Stamped(myByteBatch, Filling)
  BY <1>1 DEF SenderStamps
<1>5. Stamped(record_list', Filling)
  BY <1>2, <1>3 DEF Stamped
<1>6. \A i \in 1 .. Len(myByteBatch) : myByteBatch[i] <= Filling
  BY <1>2, <1>4 DEF Stamped
<1> QED BY <1>1, <1>2, <1>3, <1>4, <1>5, <1>6 DEF SenderStamps
(* The sender adds to the wire and touches nothing of the detector.          *)
LEMMA DetectorSender ==
  ASSUME BaseInv, RotationInv, DetectorInv, SenderStep, BatchRecords >= ListRecords
  PROVE  DetectorInv'
<1>1. /\ SenderStamps /\ WireStamps /\ DetectorFollows /\ SenderNext /\ status = "sending"
      /\ UNCHANGED <<query_data, myMQTTtopicCounterPerUUID, alarmed, current, gap>>
  BY DEF DetectorInv, SenderStep, SenderNext, MainThread, NextRecordList, FillBatch,
         FlushBatch, SendSingle, TakeRecord, Finish, Interrupt, fanInVars, counterVars
<1>2. ASSUME \A t \in Topics : OldestInFlight(t)' = OldestInFlight(t)
      PROVE  DetectorFollows'
  BY <1>1, <1>2 DEF DetectorFollows, FollowsAt, Stamped, EndsIn
<1>3. ASSUME UNCHANGED <<wire, myBatchCounter>>, status # "finished"
      PROVE  WireStamps' /\ DetectorFollows'
  <2>1. \A t \in Topics : OldestInFlight(t)' = OldestInFlight(t)
    BY <1>3 DEF OldestInFlight
  <2> QED BY <1>1, <1>2, <1>3, <2>1 DEF WireStamps, InFlight
<1>4. CASE NextRecordList
  BY <1>1, <1>3, <1>4, SendersList DEF NextRecordList, DetectorInv
<1>5. CASE FillBatch
  BY <1>1, <1>3, <1>5, SendersFill DEF FillBatch, DetectorInv
<1>6. CASE FlushBatch
  <2> DEFINE batch == Append(myByteBatch, Head(record_list))
  <2>1. batch \in Seq(Nat) /\ batch # << >> /\ Publish(batch)
    <3>1. myByteBatch \in Seq(Nat) /\ Head(record_list) \in Nat
      BY <1>6 DEF FlushBatch, TakeRecord, BaseInv, PipelineTypeOK, SenderTypeOK
    <3> QED BY <1>6, <3>1 DEF FlushBatch
  <2>2. Stamped(batch, Filling) /\ EndsIn(batch, Filling) /\ SenderStamps'
    BY <1>1, <1>6, SendersFlush
  <2> HIDE DEF batch
  <2>3. WireStamps' /\ \A t \in Topics : OldestInFlight(t)' = OldestInFlight(t)
    BY <1>1, <2>1, <2>2, PublishStamps
  <2> QED BY <1>2, <2>2, <2>3 DEF DetectorInv
<1>7. CASE Finish /\ myByteBatch # << >>
  <2>1. /\ myByteBatch \in Seq(Nat) /\ Publish(myByteBatch) /\ status' = "finished"
    BY <1>7, PipelineAssumption DEF Finish, BaseInv, PipelineTypeOK, SenderTypeOK
  <2>2. Stamped(myByteBatch, Filling)
    BY <1>1 DEF SenderStamps
  <2>3. WireStamps' /\ \A t \in Topics : OldestInFlight(t)' = OldestInFlight(t)
    BY <1>1, <1>7, <2>1, <2>2, PublishStamps
  <2>4. SenderStamps'
    BY <2>1 DEF SenderStamps
  <2> QED BY <1>2, <2>3, <2>4 DEF DetectorInv
<1>8. CASE (Finish /\ myByteBatch = << >>) \/ Interrupt
  <2>1. UNCHANGED <<wire, myBatchCounter>> /\ status' # "sending"
    BY <1>8 DEF Finish, Interrupt
  <2>2. SenderStamps'
    BY <2>1 DEF SenderStamps
  <2> QED BY <1>1, <1>3, <2>1, <2>2 DEF DetectorInv
<1>9. ~SendSingle
  BY PipelineAssumption DEF SendSingle
<1> QED BY <1>1, <1>4, <1>5, <1>6, <1>7, <1>8, <1>9 DEF SenderNext, MainThread

LEMMA TailOfWire ==
  ASSUME NEW w \in Seq(Seq(Nat)), w # << >>
  PROVE  /\ Len(w) \in Nat /\ Len(w) > 0 /\ Len(Tail(w)) = Len(w) - 1
         /\ Head(w) = w[1] /\ Head(w) \in Seq(Nat)
         /\ Tail(w) = << >> <=> Len(w) = 1
         /\ \A i \in 1 .. Len(w) - 1 : Tail(w)[i] = w[i + 1]
<1> DEFINE v == Tail(w)
<1>1. /\ Len(w) \in Nat /\ Len(w) > 0 /\ Len(v) = Len(w) - 1 /\ v \in Seq(Seq(Nat))
      /\ Head(w) = w[1] /\ Head(w) \in Seq(Nat)
      /\ \A i \in 1 .. Len(w) - 1 : v[i] = w[i + 1]
  OBVIOUS
<1> HIDE DEF v
<1>2. v = << >> <=> Len(v) = 0
  <2>1. v = << >> => Len(v) = 0
    OBVIOUS
  <2>2. ASSUME Len(v) = 0 PROVE v = << >>
    BY <1>1, <2>2
  <2> QED BY <2>1, <2>2
<1> QED BY <1>1, <1>2 DEF v

(* Taking the oldest batch of t off the wire leaves the others their number. *)
LEMMA WireTail ==
  ASSUME BaseInv, WireStamps, NEW t \in Topics, wire[t] # << >>,
         wire' = [wire EXCEPT ![t] = Tail(@)], UNCHANGED <<status, myBatchCounter>>
  PROVE  /\ WireStamps'
         /\ OldestInFlight(t)' = OldestInFlight(t) + 1
         /\ \A u \in Topics : u # t => wire'[u] = wire[u] /\ OldestInFlight(u)' = OldestInFlight(u)
         /\ wire'[t] = << >> <=> Len(wire[t]) = 1
<1>1. /\ \A u \in Topics : wire[u] \in Seq(Seq(Nat)) /\ Len(wire[u]) \in Nat
                           /\ myBatchCounter[u] \in Nat /\ myBatchCounter'[u] = myBatchCounter[u]
      /\ wire'[t] = Tail(wire[t]) /\ \A u \in Topics : u # t => wire'[u] = wire[u]
  BY DEF BaseInv, PipelineTypeOK, SenderTypeOK
<1>2. /\ Len(wire'[t]) = Len(wire[t]) - 1 /\ Len(wire[t]) \in Nat
      /\ wire'[t] = << >> <=> Len(wire[t]) = 1
      /\ \A i \in 1 .. Len(wire[t]) - 1 : wire'[t][i] = wire[t][i + 1]
  BY <1>1, TailOfWire
<1>3. OldestInFlight(t)' = OldestInFlight(t) + 1
  <2>1. myBatchCounter'[t] = myBatchCounter[t] /\ myBatchCounter[t] \in Nat
    BY <1>1
  <2> QED BY <1>2, <2>1 DEF OldestInFlight
<1>4. \A u \in Topics : u # t => OldestInFlight(u)' = OldestInFlight(u)
  BY <1>1 DEF OldestInFlight
<1>5. ASSUME NEW u \in Topics, NEW i \in 1 .. Len(wire'[u])
      PROVE  /\ wire'[u][i] # << >>
             /\ Stamped(wire'[u][i], InFlight(u, i)')
             /\ \/ status' = "finished" /\ i = Len(wire'[u])
                \/ EndsIn(wire'[u][i], InFlight(u, i)')
  <2>1. CASE u # t
    <3>1. wire'[u] = wire[u] /\ InFlight(u, i)' = InFlight(u, i)
      BY <1>1, <2>1 DEF InFlight
    <3> QED BY <3>1 DEF WireStamps
  <2>2. CASE u = t
    <3>1. /\ i \in 1 .. Len(wire[t]) - 1 /\ i + 1 \in 1 .. Len(wire[t])
          /\ i = Len(wire'[t]) <=> i + 1 = Len(wire[t])
      BY <1>2, <2>2
    <3>2. wire'[t][i] = wire[t][i + 1]
      BY <1>2, <3>1
    <3>3. InFlight(t, i)' = InFlight(t, i + 1)
      <4>1. myBatchCounter'[t] = myBatchCounter[t] /\ myBatchCounter[t] \in Nat
        BY <1>1
      <4> QED BY <1>2, <3>1, <4>1 DEF InFlight
    <3> QED BY <2>2, <3>1, <3>2, <3>3 DEF WireStamps
  <2> QED BY <2>1, <2>2
<1>6. WireStamps'
  BY <1>5 DEF WireStamps
<1> QED BY <1>1, <1>2, <1>3, <1>4, <1>6

LEMMA DetectorLose ==
  ASSUME BaseInv, DetectorInv, NEW t \in Topics, Lose(t)
  PROVE  DetectorInv'
<1>1. /\ wire[t] # << >> /\ wire' = [wire EXCEPT ![t] = Tail(@)]
      /\ UNCHANGED <<status, record_list, myByteBatch, myBatchCounter, myCurrentSubtopic>>
      /\ UNCHANGED <<query_data, myMQTTtopicCounterPerUUID, alarmed, current, gap>>
      /\ SenderStamps /\ WireStamps /\ DetectorFollows
  BY DEF Lose, DetectorInv, fanInVars, counterVars
<1>2. /\ WireStamps' /\ OldestInFlight(t)' = OldestInFlight(t) + 1
      /\ \A u \in Topics : u # t => wire'[u] = wire[u] /\ OldestInFlight(u)' = OldestInFlight(u)
  BY <1>1, WireTail
<1>3. SenderStamps'
  BY <1>1 DEF SenderStamps, Stamped, Filling
<1>4. ASSUME NEW u \in Topics PROVE FollowsAt(u)'
  <2>1. FollowsAt(u)
    BY <1>1 DEF DetectorFollows
  <2>2. CASE u # t
    BY <1>1, <1>2, <2>1, <2>2 DEF FollowsAt, Stamped, EndsIn
  <2>3. CASE u = t
    <3>1. current[t] < OldestInFlight(t)'
      <4>1. current[t] \in Nat /\ OldestInFlight(t) \in Int /\ current[t] < OldestInFlight(t)
        BY <2>1, <2>3 DEF FollowsAt, OldestInFlight, BaseInv, PipelineTypeOK, SenderTypeOK
      <4> QED BY <1>2, <4>1
    <3> QED BY <1>1, <2>1, <2>3, <3>1 DEF FollowsAt, Stamped, EndsIn
  <2> QED BY <2>2, <2>3
<1> QED BY <1>2, <1>3, <1>4 DEF DetectorInv, DetectorFollows

(* A message is taken only by an idle process, whose entry then is the       *)
(* number of the batch before; the gap to the new one is what was lost.      *)
LEMMA DetectorReceive ==
  ASSUME BaseInv, DetectorInv, NEW t \in Topics, Receive(t)
  PROVE  DetectorInv'
<1> USE PipelineAssumption
<1> DEFINE b == Head(wire[t])
           n == OldestInFlight(t)
<1>1. /\ wire[t] # << >> /\ wire' = [wire EXCEPT ![t] = Tail(@)]
      /\ UNCHANGED <<status, record_list, myByteBatch, myBatchCounter, myCurrentSubtopic>>
      /\ SenderStamps /\ WireStamps /\ DetectorFollows
      /\ query_data[t] = << >>
      /\ query_data' = [query_data EXCEPT ![t] = b]
      /\ alarmed' = [alarmed EXCEPT ![t] = FALSE]
      /\ UNCHANGED myMQTTtopicCounterPerUUID
      /\ current' = [current EXCEPT ![t] = n]
      /\ gap' = [gap EXCEPT ![t] = n - current[t] - 1]
  BY DEF Receive, OnMessage, DetectorInv
<1>2. /\ WireStamps' /\ OldestInFlight(t)' = n + 1
      /\ \A u \in Topics : u # t => wire'[u] = wire[u] /\ OldestInFlight(u)' = OldestInFlight(u)
      /\ wire'[t] = << >> <=> Len(wire[t]) = 1
  BY <1>1, WireTail
<1>3. SenderStamps'
  BY <1>1 DEF SenderStamps, Stamped, Filling
<1>4. /\ current[t] \in Nat /\ n \in Int /\ current[t] < n /\ n \in Nat
      /\ myMQTTtopicCounterPerUUID[t] = current[t]
  <2>1. FollowsAt(t)
    BY <1>1 DEF DetectorFollows
  <2>2. current[t] \in Nat /\ n \in Int
    BY DEF OldestInFlight, BaseInv, PipelineTypeOK, SenderTypeOK
  <2> QED BY <1>1, <2>1, <2>2 DEF FollowsAt
<1>5. /\ b \in Seq(Nat) /\ b # << >> /\ Stamped(b, n)
      /\ (status = "finished" /\ Len(wire[t]) = 1) \/ EndsIn(b, n)
  <2>1. /\ wire[t] \in Seq(Seq(Nat)) /\ myBatchCounter[t] \in Nat
    BY DEF BaseInv, PipelineTypeOK, SenderTypeOK
  <2>2. /\ b = wire[t][1] /\ b \in Seq(Nat) /\ 1 \in 1 .. Len(wire[t]) /\ Len(wire[t]) \in Nat
    BY <1>1, <2>1, TailOfWire
  <2>3. InFlight(t, 1) = n
    BY <2>1, <2>2 DEF InFlight, OldestInFlight
  <2> QED BY <1>1, <2>2, <2>3 DEF WireStamps
<1>6. ASSUME NEW u \in Topics PROVE FollowsAt(u)'
  <2>1. CASE u # t
    <3>1. /\ query_data'[u] = query_data[u] /\ alarmed'[u] = alarmed[u]
          /\ current'[u] = current[u] /\ gap'[u] = gap[u]
      BY <1>1, <2>1 DEF BaseInv, PipelineTypeOK, FanInTypeOK
    <3>2. FollowsAt(u)
      BY <1>1 DEF DetectorFollows
    <3> QED BY <1>1, <1>2, <2>1, <3>1, <3>2 DEF FollowsAt, Stamped, EndsIn
  <2>2. CASE u = t
    <3>1. /\ query_data'[t] = b /\ alarmed'[t] = FALSE
          /\ current'[t] = n /\ gap'[t] = n - current[t] - 1
      BY <1>1 DEF BaseInv, PipelineTypeOK, FanInTypeOK
    <3>2. Head(b) \in {n - 1, n} /\ Head(b) >= 1 /\ Head(b) \in Nat
      BY <1>4, <1>5, StampedTail
    <3> HIDE DEF b, n
    <3>3. current'[t] < OldestInFlight(t)' /\ gap'[t] >= 0
      BY <1>2, <1>4, <3>1
    <3>4. \/ status' = "finished" /\ wire'[t] = << >>
          \/ EndsIn(query_data'[t], current'[t])
      BY <1>1, <1>2, <1>5, <3>1
    <3>5. gap'[t] = 0 => current[t] = n - 1
      BY <1>4, <3>1
    <3> QED BY <1>1, <1>4, <1>5, <2>2, <3>1, <3>2, <3>3, <3>4, <3>5 DEF FollowsAt
  <2> QED BY <2>1, <2>2
<1> QED BY <1>2, <1>3, <1>6 DEF DetectorInv, DetectorFollows

(* A record is checked: with no loss before its batch it is no mismatch, and *)
(* the last record leaves the entry at the number of the batch.              *)
LEMMA DetectorLoop ==
  ASSUME BaseInv, DetectorInv, NEW t \in Topics, LoopRecord(t),
         UNCHANGED <<senderVars, current, gap>>
  PROVE  DetectorInv'
<1> USE PipelineAssumption
<1> DEFINE v == Head(query_data[t])
           q == Tail(query_data[t])
           m == myMQTTtopicCounterPerUUID[t]
           n == current[t]
<1>1. /\ UNCHANGED <<status, record_list, myByteBatch, myBatchCounter, myCurrentSubtopic, wire>>
      /\ UNCHANGED <<current, gap>>
      /\ SenderStamps /\ WireStamps /\ DetectorFollows
      /\ query_data[t] # << >> /\ query_data' = [query_data EXCEPT ![t] = q]
      /\ myMQTTtopicCounterPerUUID' = [myMQTTtopicCounterPerUUID EXCEPT ![t] = v]
      /\ alarmed' = IF Mismatch(t, v) THEN [alarmed EXCEPT ![t] = TRUE] ELSE alarmed
  BY DEF LoopRecord, CheckCounter, DetectorInv, senderVars
<1>2. SenderStamps' /\ WireStamps'
  BY <1>1 DEF SenderStamps, WireStamps, Stamped, Filling, InFlight, EndsIn
<1>3. /\ FollowsAt(t) /\ query_data[t] \in Seq(Nat) /\ n \in Nat /\ m \in Nat /\ gap[t] \in Int
      /\ v \in Nat /\ q \in Seq(Nat) /\ alarmed[t] \in BOOLEAN
  BY <1>1 DEF DetectorFollows, BaseInv, PipelineTypeOK, FanInTypeOK
<1>4. /\ v \in {n - 1, n} /\ v >= 1
      /\ Stamped(q, n)
      /\ q # << >> => v <= Head(q)
      /\ EndsIn(query_data[t], n) => EndsIn(q, n) /\ (q = << >> => v = n)
  BY <1>1, <1>3, StampedTail DEF FollowsAt
<1>5. /\ query_data'[t] = q /\ myMQTTtopicCounterPerUUID'[t] = v
      /\ alarmed'[t] => alarmed[t] \/ Mismatch(t, v)
  BY <1>1 DEF BaseInv, PipelineTypeOK, FanInTypeOK
<1>6. gap[t] = 0 => ~Mismatch(t, v)
  <2> SUFFICES ASSUME gap[t] = 0 PROVE ~Mismatch(t, v)
    OBVIOUS
  <2>1. m \in {n - 1, n} /\ m <= v /\ (m = 0 => n = 1)
    BY <1>1, <1>3 DEF FollowsAt
  <2> HIDE DEF v, n
  <2>2. CASE m = 0
    BY <1>3, <1>4, <2>1, <2>2 DEF Mismatch
  <2>3. CASE m # 0
    BY <1>3, <1>4, <2>1, <2>3 DEF Mismatch
  <2> QED BY <2>2, <2>3
<1>7. FollowsAt(t)'
  <2> HIDE DEF v, q, m
  <2>1. current'[t] < OldestInFlight(t)' /\ gap'[t] >= 0
    BY <1>1, <1>3 DEF FollowsAt, OldestInFlight
  <2>2. \/ status' = "finished" /\ wire'[t] = << >>
        \/ EndsIn(q, n) /\ (q = << >> => v = n)
    BY <1>1, <1>3, <1>4 DEF FollowsAt
  <2>3. alarmed'[t] => gap'[t] > 0
    BY <1>1, <1>3, <1>5, <1>6 DEF FollowsAt
  <2> QED BY <1>1, <1>3, <1>4, <1>5, <2>1, <2>2, <2>3 DEF FollowsAt
<1>8. ASSUME NEW u \in Topics, u # t PROVE FollowsAt(u)'
  <2>1. /\ query_data'[u] = query_data[u] /\ alarmed'[u] = alarmed[u]
        /\ myMQTTtopicCounterPerUUID'[u] = myMQTTtopicCounterPerUUID[u]
    BY <1>1, <1>8 DEF BaseInv, PipelineTypeOK, FanInTypeOK
  <2>2. FollowsAt(u)
    BY <1>1 DEF DetectorFollows
  <2> QED BY <1>1, <2>1, <2>2 DEF FollowsAt, Stamped, EndsIn, OldestInFlight
<1> QED BY <1>2, <1>7, <1>8 DEF DetectorInv, DetectorFollows

LEMMA DetectorStep ==
  ASSUME BatchRecords >= ListRecords
  PROVE  BaseInv /\ RotationInv /\ DetectorInv /\ [Next]_pipelineVars => DetectorInv'
<1> SUFFICES ASSUME BaseInv, RotationInv, DetectorInv, [Next]_pipelineVars PROVE DetectorInv'
  OBVIOUS
<1>1. CASE SenderStep
  BY <1>1, DetectorSender
<1>2. ASSUME NEW t \in Topics, Receive(t) PROVE DetectorInv'
  BY <1>2, DetectorReceive
<1>3. ASSUME NEW t \in Topics, Lose(t) PROVE DetectorInv'
  BY <1>3, DetectorLose
<1>4. CASE UNCHANGED <<senderVars, counterVars, current, gap>>
  BY <1>4 DEF senderVars, counterVars, DetectorInv, SenderStamps, WireStamps,
              DetectorFollows, FollowsAt, Stamped, EndsIn, Filling, InFlight, OldestInFlight
<1>5. ASSUME NEW t \in Topics, FanInStep(t) PROVE DetectorInv'
  <2>1. CASE LoopRecord(t)
    BY <1>5, <2>1, DetectorLoop DEF FanInStep
  <2>2. CASE CountProduced(t) \/ Poll(t) \/ BrokerStores(t) \/ DeliveryFails(t)
    BY <1>4, <1>5, <2>2 DEF FanInStep, CountProduced, Poll, BrokerStores, DeliveryFails
  <2> QED BY <1>5, <2>1, <2>2 DEF FanInStep, ProcessStep
<1>6. CASE UNCHANGED pipelineVars
  BY <1>4, <1>6 DEF pipelineVars, fanInVars
<1> QED BY <1>1, <1>2, <1>3, <1>5, <1>6 DEF Next

(* When a record list is no longer than a batch, as the two records of       *)
(* IBswitchSimulator and the 47 that fill 512 bytes are, the check of        *)
(* mqtt_on_message reports no loss that did not happen, whatever the         *)
(* subtopics, the limit and the losses.  The condition is needed: a list of  *)
(* three over batches of one is reported as a loss.                          *)
THEOREM NoLossIsInvented ==
  ASSUME BatchRecords >= ListRecords
  PROVE  Spec => []NoFalseAlarm
<1> DEFINE Inv == BaseInv /\ RotationInv /\ DetectorInv
<1>1. Init => Inv
  BY BaseInit, RotationInit, DetectorInit
<1>2. Inv /\ [Next]_pipelineVars => Inv'
  BY BaseStep, RotationStep, DetectorStep
<1>3. Inv => NoFalseAlarm
  BY DEF DetectorInv, DetectorFollows, FollowsAt, NoFalseAlarm
<1> QED BY <1>1, <1>2, <1>3, PTL DEF Spec

----------------------------------------------------------------------------
(* Why no loss is missed when a round of the subtopics takes a whole number  *)
(* of record lists.  Then no list straddles the end of a round, where the    *)
(* counter of the subtopics changes: although a list may straddle a flush,   *)
(* every record is stamped with the number of the batch it travels in.  So   *)
(* the first record of a batch tells the gateway the batch's own number, and *)
(* the check sees every gap before it.  Without the condition NoMissedLoss   *)
(* is false: one subtopic and 47 records a batch are a counterexample.       *)
AllAre(batch, n) == \A k \in 1 .. Len(batch) : batch[k] = n

(* How many flushes it takes until a round that began at subtopic s is over. *)
Left(s) == IF TurnsUntil(s) = 0 THEN NumTopics ELSE TurnsUntil(s)

(* The subtopics the round has been at are one ahead of the others.          *)
Round(s) ==
    \A t \in Topics :
        myBatchCounter[t] =
            IF TurnsUntil(s) # 0 /\ TurnsUntil(s) <= TurnsUntil(t)
            THEN Filling + 1 ELSE Filling

(* What the round still has room for is the list in hand and whole lists.    *)
Whole(s) ==
    \E q \in Nat :
        Left(s) * BatchRecords =
            Len(myByteBatch) + Len(record_list) + q * ListRecords

SenderIsWhole(s) ==
    status = "sending" =>
        /\ Len(myByteBatch) < BatchRecords
        /\ Round(s)
        /\ Whole(s)
        /\ AllAre(myByteBatch, Filling)
        /\ AllAre(record_list, Filling)

WireIsWhole ==
    \A t \in Topics : \A k \in 1 .. Len(wire[t]) :
        wire[t][k] # << >> /\ AllAre(wire[t][k], InFlight(t, k))

(* The process either knows the batch it last took, and has said so if one   *)
(* was lost before it, or has yet to look at its first record.               *)
Informed(t) ==
    /\ myMQTTtopicCounterPerUUID[t] = current[t]
    /\ gap[t] > 0 => alarmed[t]

ToBeInformed(t) ==
    /\ query_data[t] # << >>
    /\ myMQTTtopicCounterPerUUID[t] = current[t] - gap[t] - 1

Aware == \A t \in Topics :
    /\ AllAre(query_data[t], current[t])
    /\ Informed(t) \/ ToBeInformed(t)

LossInv(s) == SenderIsWhole(s) /\ WireIsWhole /\ Aware

WholeRounds == \E k \in Nat : NumTopics * BatchRecords = k * ListRecords
----------------------------------------------------------------------------
LEMMA NoneAreAll == \A n : AllAre(<< >>, n)
BY DEF AllAre

LEMMA AppendAll ==
  ASSUME NEW b \in Seq(Nat), NEW n \in Nat, AllAre(b, n)
  PROVE  AllAre(Append(b, n), n)
<1> DEFINE c == Append(b, n)
<1>1. /\ Len(c) = Len(b) + 1 /\ Len(b) \in Nat /\ c[Len(b) + 1] = n
      /\ \A k \in 1 .. Len(b) : c[k] = b[k]
  OBVIOUS
<1> HIDE DEF c
<1>2. ASSUME NEW k \in 1 .. Len(c) PROVE c[k] = n
  <2>1. CASE k \in 1 .. Len(b)
    BY <1>1, <2>1 DEF AllAre
  <2>2. CASE k = Len(b) + 1
    BY <1>1, <2>2
  <2> QED
    BY <1>1, <2>1, <2>2
<1> QED
  BY <1>2 DEF AllAre, c

LEMMA TailAll ==
  ASSUME NEW b \in Seq(Nat), NEW n, b # << >>, AllAre(b, n)
  PROVE  /\ Head(b) = n /\ AllAre(Tail(b), n)
         /\ Tail(b) \in Seq(Nat) /\ Len(Tail(b)) = Len(b) - 1 /\ Len(b) > 0
<1> DEFINE c == Tail(b)
<1>1. /\ Len(b) \in Nat /\ Len(b) > 0 /\ Len(c) = Len(b) - 1 /\ Head(b) = b[1]
      /\ \A k \in 1 .. Len(c) : c[k] = b[k + 1]
      /\ c \in Seq(Nat)
  OBVIOUS
<1> HIDE DEF c
<1>2. Head(b) = n
  BY <1>1 DEF AllAre
<1>3. AllAre(c, n)
  BY <1>1 DEF AllAre
<1> QED
  BY <1>1, <1>2, <1>3 DEF c

(* Every subtopic starts at one and no record is made yet.                   *)
LEMMA LossInit ==
  ASSUME Init, WholeRounds
  PROVE  \E s \in Topics : LossInv(s)
<1> USE SenderAssumption, PipelineAssumption
<1> DEFINE s == myCurrentSubtopic
<1>1. /\ s \in Topics /\ TurnsUntil(s) = 0 /\ Left(s) = NumTopics
      /\ record_list = << >> /\ myByteBatch = << >>
      /\ \A t \in Topics : wire[t] = << >> /\ query_data[t] = << >>
      /\ \A t \in Topics : myMQTTtopicCounterPerUUID[t] = 0
      /\ \A t \in Topics : current[t] = 0 /\ gap[t] = 0
  BY DEF Init, SenderInit, FanInInit, Topics, TurnsUntil, Left
<1>2. Round(s) /\ Filling = 1
  BY <1>1 DEF Init, SenderInit, Round, Filling
<1>3. Whole(s)
  <2>1. PICK k \in Nat : NumTopics * BatchRecords = k * ListRecords
    BY DEF WholeRounds
  <2>2. Left(s) * BatchRecords = 0 + 0 + k * ListRecords
    BY <1>1, <2>1
  <2> QED
    BY <1>1, <2>2 DEF Whole
<1>4. SenderIsWhole(s)
  BY <1>1, <1>2, <1>3, NoneAreAll DEF SenderIsWhole
<1>5. WireIsWhole /\ Aware
  BY <1>1, NoneAreAll DEF WireIsWhole, Aware, Informed
<1> QED
  BY <1>1, <1>4, <1>5 DEF LossInv

----------------------------------------------------------------------------
(* The lists and batches of the sender.                                      *)
LEMMA WholeList ==
  ASSUME BaseInv, NEW s \in Topics, SenderIsWhole(s), NextRecordList
  PROVE  SenderIsWhole(s)'
<1> USE SenderAssumption
<1>1. /\ status = "sending" /\ record_list = << >>
      /\ UNCHANGED <<status, myByteBatch, myBatchCounter, myCurrentSubtopic>>
      /\ record_list' = [k \in 1 .. ListRecords |-> Filling]
  BY DEF NextRecordList, Filling
<1>2. /\ Filling \in Nat /\ Filling' = Filling /\ Left(s)' = Left(s)
      /\ \A t \in Topics : TurnsUntil(t)' = TurnsUntil(t)
  BY <1>1, FillingType DEF Filling, Left, TurnsUntil
<1>3. Len(record_list') = ListRecords /\ AllAre(record_list', Filling)
  BY <1>1, <1>2 DEF AllAre
<1>4. /\ Len(myByteBatch) < BatchRecords /\ Len(myByteBatch) \in Nat
      /\ Len(record_list) = 0
  BY <1>1 DEF SenderIsWhole, BaseInv, PipelineTypeOK, SenderTypeOK
<1>5. Left(s) \in Nat \ {0}
  <2>1. TurnsUntil(s) \in Nat
    BY DEF BaseInv, PipelineTypeOK, SenderTypeOK, Topics, TurnsUntil
  <2> QED
    BY <2>1 DEF Left
<1>6. Whole(s)'
  <2>1. PICK q \in Nat :
          Left(s) * BatchRecords = Len(myByteBatch) + 0 + q * ListRecords
    BY <1>1, <1>4 DEF SenderIsWhole, Whole
  <2>2. Left(s) * BatchRecords >= BatchRecords
    BY <1>5
  <2>3. q # 0
    BY <1>4, <2>1, <2>2
  <2>4. q - 1 \in Nat /\ q * ListRecords = ListRecords + (q - 1) * ListRecords
    BY <2>3
  <2>5. Left(s)' * BatchRecords =
          Len(myByteBatch') + Len(record_list') + (q - 1) * ListRecords
    BY <1>1, <1>2, <1>3, <1>4, <2>1, <2>4
  <2> QED
    BY <2>4, <2>5 DEF Whole
<1> QED
  BY <1>1, <1>2, <1>3, <1>6 DEF SenderIsWhole, Round, AllAre

LEMMA WholeFill ==
  ASSUME BaseInv, NEW s \in Topics, SenderIsWhole(s), FillBatch
  PROVE  SenderIsWhole(s)'
<1> USE SenderAssumption
<1>1. /\ status = "sending" /\ record_list # << >>
      /\ Len(myByteBatch) + 1 < BatchRecords
      /\ record_list' = Tail(record_list)
      /\ myByteBatch' = Append(myByteBatch, Head(record_list))
      /\ UNCHANGED <<status, myBatchCounter, myCurrentSubtopic>>
  BY DEF FillBatch, TakeRecord
<1>2. /\ Filling \in Nat /\ Filling' = Filling /\ Left(s)' = Left(s)
      /\ \A t \in Topics : TurnsUntil(t)' = TurnsUntil(t)
  BY <1>1, FillingType DEF Filling, Left, TurnsUntil
<1>3. record_list \in Seq(Nat) /\ myByteBatch \in Seq(Nat)
  BY DEF BaseInv, PipelineTypeOK, SenderTypeOK
<1>4. /\ Head(record_list) = Filling /\ AllAre(record_list', Filling)
      /\ Len(record_list') = Len(record_list) - 1
  BY <1>1, <1>2, <1>3, TailAll DEF SenderIsWhole
<1>5. /\ AllAre(myByteBatch', Filling)
      /\ Len(myByteBatch') = Len(myByteBatch) + 1 /\ Len(myByteBatch) \in Nat
  <2>1. AllAre(Append(myByteBatch, Filling), Filling)
    BY <1>1, <1>2, <1>3, AppendAll DEF SenderIsWhole
  <2> QED
    BY <1>1, <1>2, <1>3, <1>4, <2>1
<1>6. Whole(s)'
  <2>1. PICK q \in Nat : Left(s) * BatchRecords =
                           Len(myByteBatch) + Len(record_list) + q * ListRecords
    BY <1>1 DEF SenderIsWhole, Whole
  <2>2. Len(record_list) \in Nat
    BY <1>3
  <2>3. Len(myByteBatch') + Len(record_list') = Len(myByteBatch) + Len(record_list)
    BY <1>4, <1>5, <2>2
  <2> QED
    BY <1>2, <2>1, <2>3 DEF Whole
<1> QED
  BY <1>1, <1>2, <1>4, <1>5, <1>6 DEF SenderIsWhole, Round

(* A flush gives the turn to the next subtopic; only the last of a round     *)
(* raises the number of the batch being filled, and no record is in hand     *)
(* then.                                                                     *)
LEMMA FlushRound ==
  ASSUME BaseInv, NEW s \in Topics, Round(s),
         myBatchCounter' = [myBatchCounter EXCEPT ![myCurrentSubtopic] = Filling + 1],
         myCurrentSubtopic' = NextSubtopic
  PROVE  /\ Round(s)'
         /\ Left(s) = 1 => Left(s)' = NumTopics
         /\ Left(s) # 1 => Left(s)' = Left(s) - 1 /\ Filling' = Filling
         /\ Left(s) \in Nat \ {0}
<1> USE SenderAssumption
<1> DEFINE c == myCurrentSubtopic
           d == NextSubtopic
<1>1. /\ c \in Topics /\ d \in Topics /\ Filling \in Nat
      /\ \A t \in Topics : myBatchCounter[t] \in Nat
      /\ \A t \in Topics : myBatchCounter'[t] =
             IF t = c THEN Filling + 1 ELSE myBatchCounter[t]
  BY NextSubtopicType, FillingType DEF BaseInv, PipelineTypeOK, SenderTypeOK
<1>2. /\ \A t \in Topics : TurnsUntil(t) \in 0 .. NumTopics - 1
      /\ \A t \in Topics : TurnsUntil(t) = 0 <=> t = c
      /\ \A t \in Topics : t # c => TurnsUntil(t)' = TurnsUntil(t) - 1
      /\ \A t \in Topics : t = c => TurnsUntil(t)' = NumTopics - 1
  BY <1>1, Turns
<1>3. d # c => TurnsUntil(d) = 1
  <2>1. \A t \in Topics : t = d => TurnsUntil(t)' = 0
    BY <1>1 DEF TurnsUntil, Topics
  <2>2. ASSUME NEW t \in Topics, t = d, t # c PROVE TurnsUntil(t) = 1
    <3>1. TurnsUntil(t)' = TurnsUntil(t) - 1 /\ TurnsUntil(t)' = 0
      BY <1>2, <2>1, <2>2
    <3>2. TurnsUntil(t) \in Int
      BY <1>2
    <3> QED
      BY <3>1, <3>2
  <2> QED
    BY <1>1, <2>2
<1>0. Filling' = myBatchCounter'[d]
  BY DEF Filling
<1> HIDE DEF c, d
<1>4. Left(s) \in Nat \ {0}
  BY <1>2 DEF Left
<1>5. CASE Left(s) = 1
  <2>1. Left(s)' = NumTopics /\ TurnsUntil(s)' = 0
    BY <1>1, <1>2, <1>5 DEF Left
  <2>2. \A t \in Topics : myBatchCounter'[t] = Filling + 1
    <3>1. ASSUME NEW t \in Topics, t # c PROVE myBatchCounter[t] = Filling + 1
      BY <1>1, <1>2, <1>5, <3>1 DEF Left, Round
    <3> QED
      BY <1>1, <3>1
  <2>3. Filling' = Filling + 1
    BY <1>0, <1>1, <2>2
  <2> QED
    BY <1>4, <1>5, <2>1, <2>2, <2>3 DEF Round
<1>6. CASE Left(s) # 1
  <2>1. NumTopics # 1
    BY <1>2, <1>6 DEF Left
  <2>2. /\ Left(s)' = Left(s) - 1
        /\ TurnsUntil(s)' = Left(s) - 1 /\ TurnsUntil(s)' # 0
    BY <1>1, <1>2, <1>6, <2>1 DEF Left
  <2>3. d # c /\ TurnsUntil(d) = 1
    BY <1>1, <1>2, <1>3, <2>1 DEF NextSubtopic, c, d, Topics
  <2>4. Filling' = Filling
    <3>1. myBatchCounter'[d] = myBatchCounter[d]
      BY <1>1, <2>3
    <3>2. myBatchCounter[d] = Filling
      BY <1>1, <1>2, <1>6, <2>3 DEF Round, Left
    <3> QED
      BY <1>0, <3>1, <3>2
  <2>5. ASSUME NEW t \in Topics
        PROVE  myBatchCounter'[t] =
                 IF TurnsUntil(s)' <= TurnsUntil(t)' THEN Filling + 1 ELSE Filling
    <3>1. CASE t = c
      BY <1>1, <1>2, <2>2, <3>1 DEF Left
    <3>2. CASE t # c
      BY <1>1, <1>2, <2>2, <3>2 DEF Left, Round
    <3> QED
      BY <3>1, <3>2
  <2> QED
    BY <1>4, <1>6, <2>2, <2>4, <2>5 DEF Round
<1> QED
  BY <1>5, <1>6

LEMMA WholeFlush ==
  ASSUME BaseInv, WholeRounds, NEW s \in Topics, SenderIsWhole(s), FlushBatch
  PROVE  /\ AllAre(Append(myByteBatch, Head(record_list)), Filling)
         /\ SenderIsWhole(s)'
<1> USE SenderAssumption, PipelineAssumption
<1>1. /\ status = "sending" /\ status' = status /\ record_list # << >>
      /\ Len(myByteBatch) + 1 >= BatchRecords
      /\ record_list' = Tail(record_list) /\ myByteBatch' = << >>
      /\ myBatchCounter' = [myBatchCounter EXCEPT ![myCurrentSubtopic] = Filling + 1]
      /\ myCurrentSubtopic' = NextSubtopic
  BY DEF FlushBatch, TakeRecord, Publish, Filling
<1>2. record_list \in Seq(Nat) /\ myByteBatch \in Seq(Nat) /\ Filling \in Nat
  BY FillingType DEF BaseInv, PipelineTypeOK, SenderTypeOK
<1>3. /\ Head(record_list) = Filling /\ AllAre(record_list', Filling)
      /\ record_list' \in Seq(Nat)
      /\ Len(record_list') = Len(record_list) - 1 /\ Len(record_list) > 0
      /\ Len(record_list) \in Nat
  BY <1>1, <1>2, TailAll DEF SenderIsWhole
<1>4. AllAre(Append(myByteBatch, Head(record_list)), Filling)
  BY <1>1, <1>2, <1>3, AppendAll DEF SenderIsWhole
<1>5. /\ Round(s)'
      /\ Left(s) = 1 => Left(s)' = NumTopics
      /\ Left(s) # 1 => Left(s)' = Left(s) - 1 /\ Filling' = Filling
      /\ Left(s) \in Nat \ {0}
  BY <1>1, FlushRound DEF SenderIsWhole
<1>6. Len(myByteBatch) + 1 = BatchRecords /\ Len(myByteBatch) \in Nat
  BY <1>1, <1>2 DEF SenderIsWhole
<1>7. PICK q \in Nat : Left(s) * BatchRecords =
                          Len(myByteBatch) + Len(record_list) + q * ListRecords
  BY <1>1 DEF SenderIsWhole, Whole
<1>8. q * ListRecords \in Nat
  OBVIOUS
<1>9. Len(myByteBatch') = 0 /\ AllAre(myByteBatch', Filling')
  BY <1>1, NoneAreAll
<1>10. CASE Left(s) = 1
  <2>1. Len(record_list') = 0
    BY <1>3, <1>6, <1>7, <1>8, <1>10
  <2>2. AllAre(record_list', Filling')
    BY <2>1 DEF AllAre
  <2>3. PICK k \in Nat : NumTopics * BatchRecords = k * ListRecords
    BY DEF WholeRounds
  <2>4. Whole(s)'
    <3>1. Left(s)' * BatchRecords =
            Len(myByteBatch') + Len(record_list') + k * ListRecords
      BY <1>5, <1>9, <1>10, <2>1, <2>3
    <3> QED
      BY <3>1 DEF Whole
  <2> QED
    BY <1>1, <1>4, <1>5, <1>9, <2>2, <2>4 DEF SenderIsWhole
<1>11. CASE Left(s) # 1
  <2>1. (Left(s) - 1) * BatchRecords = Left(s) * BatchRecords - BatchRecords
    BY <1>5
  <2>2. Whole(s)'
    <3>1. Left(s)' * BatchRecords =
            Len(myByteBatch') + Len(record_list') + q * ListRecords
      <4>1. Left(s)' * BatchRecords = Left(s) * BatchRecords - BatchRecords
        BY <1>5, <1>11, <2>1
      <4> QED
        BY <1>3, <1>6, <1>7, <1>8, <1>9, <4>1
    <3> QED
      BY <3>1 DEF Whole
  <2>3. AllAre(record_list', Filling')
    BY <1>3, <1>5, <1>11
  <2> QED
    BY <1>1, <1>4, <1>5, <1>9, <2>2, <2>3 DEF SenderIsWhole
<1> QED
  BY <1>10, <1>11

----------------------------------------------------------------------------
(* The wire: a publication adds the batch with the number being filled; the  *)
(* oldest batch leaves and the others keep their numbers.                    *)
LEMMA PublishWhole ==
  ASSUME BaseInv, WireIsWhole, NEW batch \in Seq(Nat), Publish(batch),
         batch # << >>, AllAre(batch, Filling)
  PROVE  WireIsWhole'
<1> DEFINE c == myCurrentSubtopic
           w == Append(wire[c], batch)
<1>1. /\ c \in Topics
      /\ \A t \in Topics : wire[t] \in Seq(Seq(Nat)) /\ Len(wire[t]) \in Nat
                           /\ myBatchCounter[t] \in Nat
  BY DEF BaseInv, PipelineTypeOK, SenderTypeOK
<1>2. /\ Len(w) = Len(wire[c]) + 1
      /\ \A k \in 1 .. Len(wire[c]) : w[k] = wire[c][k]
      /\ w[Len(wire[c]) + 1] = batch
  BY <1>1
<1>3. /\ \A t \in Topics : t # c =>
             wire'[t] = wire[t] /\ myBatchCounter'[t] = myBatchCounter[t]
      /\ \A t \in Topics : t = c =>
             wire'[t] = w /\ myBatchCounter'[t] = myBatchCounter[t] + 1
  BY <1>1 DEF Publish, BaseInv, PipelineTypeOK, SenderTypeOK
<1>4. Filling = myBatchCounter[c]
  BY DEF Filling
<1> HIDE DEF c, w
<1>5. ASSUME NEW t \in Topics, NEW k \in 1 .. Len(wire'[t])
      PROVE  wire'[t][k] # << >> /\ AllAre(wire'[t][k], InFlight(t, k)')
  <2>1. CASE t # c
    <3>1. InFlight(t, k)' = InFlight(t, k) /\ wire'[t] = wire[t]
      BY <1>3, <2>1 DEF InFlight
    <3> QED
      BY <3>1 DEF WireIsWhole
  <2>2. CASE t = c /\ k \in 1 .. Len(wire[t])
    <3>1. wire'[t] = w /\ wire'[t][k] = wire[t][k]
      BY <1>1, <1>2, <1>3, <2>2
    <3>2. /\ Len(wire'[t]) = Len(wire[t]) + 1 /\ Len(wire[t]) \in Nat
          /\ myBatchCounter'[t] = myBatchCounter[t] + 1
          /\ myBatchCounter[t] \in Nat
      BY <1>1, <1>2, <1>3, <2>2, <3>1
    <3>3. InFlight(t, k)' = InFlight(t, k)
      <4>1. k \in Int
        BY <2>2, <3>2
      <4>2. myBatchCounter'[t] - Len(wire'[t]) = myBatchCounter[t] - Len(wire[t])
        BY <1>1, <3>2
      <4> QED
        BY <4>1, <4>2 DEF InFlight
    <3> QED
      BY <2>2, <3>1, <3>3 DEF WireIsWhole
  <2>3. CASE t = c /\ k \notin 1 .. Len(wire[t])
    <3>1. k = Len(wire[t]) + 1 /\ wire'[t][k] = batch
      BY <1>1, <1>2, <1>3, <2>3
    <3>2. /\ Len(wire'[t]) = Len(wire[t]) + 1 /\ Len(wire[t]) \in Nat
          /\ myBatchCounter'[t] = myBatchCounter[t] + 1
          /\ myBatchCounter[t] \in Nat
      BY <1>1, <1>2, <1>3, <2>3
    <3>3. Filling = myBatchCounter[t]
      BY <1>4, <2>3
    <3>4. InFlight(t, k)' = Filling
      <4>1. myBatchCounter'[t] - Len(wire'[t]) = myBatchCounter[t] - Len(wire[t])
        BY <1>1, <3>2
      <4>2. InFlight(t, k)' = myBatchCounter[t] - Len(wire[t]) + (Len(wire[t]) + 1) - 1
        BY <3>1, <4>1 DEF InFlight
      <4> QED
        BY <3>2, <3>3, <4>2
    <3> QED
      BY <3>1, <3>4
  <2> QED
    BY <2>1, <2>2, <2>3
<1> QED
  BY <1>5 DEF WireIsWhole

LEMMA TakeWhole ==
  ASSUME BaseInv, WireIsWhole, NEW t \in Topics, wire[t] # << >>,
         wire' = [wire EXCEPT ![t] = Tail(@)], UNCHANGED myBatchCounter
  PROVE  /\ WireIsWhole'
         /\ Head(wire[t]) \in Seq(Nat) /\ Head(wire[t]) # << >>
         /\ AllAre(Head(wire[t]), OldestInFlight(t))
<1>1. /\ wire[t] \in Seq(Seq(Nat)) /\ myBatchCounter[t] \in Nat
      /\ wire'[t] = Tail(wire[t])
      /\ \A u \in Topics : u # t => wire'[u] = wire[u]
  BY DEF BaseInv, PipelineTypeOK, SenderTypeOK
<1>2. /\ Len(wire[t]) \in Nat /\ Len(wire[t]) > 0
      /\ Len(wire'[t]) = Len(wire[t]) - 1
      /\ Head(wire[t]) = wire[t][1] /\ Head(wire[t]) \in Seq(Nat)
      /\ \A k \in 1 .. Len(wire[t]) - 1 : wire'[t][k] = wire[t][k + 1]
  BY <1>1, TailOfWire
<1>3. InFlight(t, 1) = OldestInFlight(t)
  BY <1>1, <1>2 DEF InFlight, OldestInFlight
<1>4. Head(wire[t]) # << >> /\ AllAre(Head(wire[t]), OldestInFlight(t))
  BY <1>2, <1>3 DEF WireIsWhole
<1>5. ASSUME NEW u \in Topics, NEW k \in 1 .. Len(wire'[u])
      PROVE  wire'[u][k] # << >> /\ AllAre(wire'[u][k], InFlight(u, k)')
  <2>1. CASE u # t
    <3>1. InFlight(u, k)' = InFlight(u, k) /\ wire'[u] = wire[u]
      BY <1>1, <2>1 DEF InFlight
    <3> QED
      BY <3>1 DEF WireIsWhole
  <2>2. CASE u = t
    <3>1. k \in 1 .. Len(wire[t]) - 1 /\ k + 1 \in 1 .. Len(wire[t])
      BY <1>2, <2>2
    <3>2. wire'[t][k] = wire[t][k + 1]
      BY <1>2, <3>1
    <3>3. InFlight(t, k)' = InFlight(t, k + 1)
      BY <1>1, <1>2, <3>1 DEF InFlight
    <3> QED
      BY <2>2, <3>1, <3>2, <3>3 DEF WireIsWhole
  <2> QED
    BY <2>1, <2>2
<1> QED
  BY <1>2, <1>4, <1>5 DEF WireIsWhole

LEMMA LossSender ==
  ASSUME BaseInv, WholeRounds, NEW s \in Topics, LossInv(s), SenderStep
  PROVE  LossInv(s)'
<1>1. /\ SenderIsWhole(s) /\ WireIsWhole /\ SenderNext
      /\ Aware'
  BY DEF LossInv, SenderStep, fanInVars, counterVars, Aware, Informed,
         ToBeInformed
<1>2. ASSUME UNCHANGED <<wire, myBatchCounter>> PROVE WireIsWhole'
  BY <1>1, <1>2 DEF WireIsWhole, InFlight
<1>3. CASE NextRecordList
  BY <1>1, <1>2, <1>3, WholeList DEF NextRecordList, LossInv
<1>4. CASE FillBatch
  BY <1>1, <1>2, <1>4, WholeFill DEF FillBatch, LossInv
<1>5. CASE FlushBatch
  <2> DEFINE batch == Append(myByteBatch, Head(record_list))
  <2>1. batch \in Seq(Nat) /\ batch # << >> /\ Publish(batch)
    <3>1. myByteBatch \in Seq(Nat) /\ Head(record_list) \in Nat
      BY <1>5 DEF FlushBatch, TakeRecord, BaseInv, PipelineTypeOK, SenderTypeOK
    <3> QED
      BY <1>5, <3>1 DEF FlushBatch
  <2>2. AllAre(batch, Filling) /\ SenderIsWhole(s)'
    BY <1>1, <1>5, WholeFlush
  <2> HIDE DEF batch
  <2> QED
    BY <1>1, <2>1, <2>2, PublishWhole DEF LossInv
<1>6. CASE Finish /\ myByteBatch # << >>
  <2>1. /\ myByteBatch \in Seq(Nat) /\ Publish(myByteBatch)
        /\ status = "sending" /\ status' = "finished"
    BY <1>6, PipelineAssumption
    DEF Finish, BaseInv, PipelineTypeOK, SenderTypeOK
  <2>2. AllAre(myByteBatch, Filling)
    BY <1>1, <2>1 DEF SenderIsWhole
  <2>3. SenderIsWhole(s)'
    BY <2>1 DEF SenderIsWhole
  <2> QED
    BY <1>1, <1>6, <2>1, <2>2, <2>3, PublishWhole DEF LossInv
<1>7. CASE (Finish /\ myByteBatch = << >>) \/ Interrupt
  <2>1. UNCHANGED <<wire, myBatchCounter>> /\ status' # "sending"
    BY <1>7 DEF Finish, Interrupt
  <2>2. SenderIsWhole(s)'
    BY <2>1 DEF SenderIsWhole
  <2> QED
    BY <1>1, <1>2, <2>1, <2>2 DEF LossInv
<1>8. ~SendSingle
  BY PipelineAssumption DEF SendSingle
<1> QED
  BY <1>1, <1>3, <1>4, <1>5, <1>6, <1>7, <1>8 DEF SenderNext, MainThread

----------------------------------------------------------------------------
(* The gateway.                                                              *)
LEMMA LossLose ==
  ASSUME BaseInv, NEW s \in Topics, LossInv(s), NEW t \in Topics, Lose(t)
  PROVE  LossInv(s)'
<1>1. /\ SenderIsWhole(s) /\ Aware
      /\ UNCHANGED <<status, record_list, myByteBatch, myBatchCounter,
                     myCurrentSubtopic>>
      /\ UNCHANGED <<query_data, myMQTTtopicCounterPerUUID, alarmed, current,
                     gap>>
  BY DEF Lose, LossInv, fanInVars, counterVars
<1>2. WireIsWhole'
  BY TakeWhole DEF Lose, LossInv
<1>3. SenderIsWhole(s)'
  BY <1>1
  DEF SenderIsWhole, Round, Whole, Left, TurnsUntil, Filling, AllAre
<1>4. Aware'
  BY <1>1 DEF Aware, Informed, ToBeInformed
<1> QED
  BY <1>2, <1>3, <1>4 DEF LossInv

(* Only a process that has looked at its last batch takes the next one.      *)
LEMMA LossReceive ==
  ASSUME BaseInv, NEW s \in Topics, LossInv(s), NEW t \in Topics, Receive(t)
  PROVE  LossInv(s)'
<1> USE PipelineAssumption
<1> DEFINE b == Head(wire[t])
           n == OldestInFlight(t)
<1>1. /\ wire[t] # << >> /\ query_data[t] = << >>
      /\ wire' = [wire EXCEPT ![t] = Tail(@)]
      /\ UNCHANGED <<status, record_list, myByteBatch, myBatchCounter,
                     myCurrentSubtopic>>
      /\ SenderIsWhole(s) /\ Aware /\ WireIsWhole
      /\ UNCHANGED myMQTTtopicCounterPerUUID
      /\ query_data' = [query_data EXCEPT ![t] = b]
      /\ alarmed' = [alarmed EXCEPT ![t] = FALSE]
      /\ current' = [current EXCEPT ![t] = n]
      /\ gap' = [gap EXCEPT ![t] = n - current[t] - 1]
  BY DEF Receive, OnMessage, LossInv
<1>2. WireIsWhole' /\ b # << >> /\ AllAre(b, n)
  BY <1>1, TakeWhole
<1>3. SenderIsWhole(s)'
  BY <1>1
  DEF SenderIsWhole, Round, Whole, Left, TurnsUntil, Filling, AllAre
<1>4. current[t] \in Nat /\ n \in Int /\ myMQTTtopicCounterPerUUID[t] = current[t]
  <2>1. current[t] \in Nat /\ n \in Int
    BY DEF OldestInFlight, BaseInv, PipelineTypeOK, SenderTypeOK
  <2>2. ~ToBeInformed(t)
    BY <1>1 DEF ToBeInformed
  <2> QED
    BY <1>1, <2>1, <2>2 DEF Aware, Informed
<1>5. /\ query_data'[t] = b /\ current'[t] = n
      /\ gap'[t] = n - current[t] - 1
      /\ \A u \in Topics : u # t =>
             /\ query_data'[u] = query_data[u] /\ alarmed'[u] = alarmed[u]
             /\ current'[u] = current[u] /\ gap'[u] = gap[u]
  BY <1>1 DEF BaseInv, PipelineTypeOK, FanInTypeOK
<1> HIDE DEF b, n
<1>6. AllAre(query_data'[t], current'[t]) /\ ToBeInformed(t)'
  BY <1>1, <1>2, <1>4, <1>5 DEF ToBeInformed
<1>7. Aware'
  <2> SUFFICES ASSUME NEW u \in Topics
               PROVE  /\ AllAre(query_data'[u], current'[u])
                      /\ Informed(u)' \/ ToBeInformed(u)'
    BY DEF Aware, AllAre
  <2>1. CASE u # t
    BY <1>1, <1>5, <2>1 DEF Aware, Informed, ToBeInformed
  <2>2. CASE u = t
    BY <1>6, <2>2
  <2> QED
    BY <2>1, <2>2
<1> QED
  BY <1>2, <1>3, <1>7 DEF LossInv

(* The first record of a batch that follows a loss differs from the entry by *)
(* more than one.                                                            *)
LEMMA LossLoop ==
  ASSUME BaseInv, NEW s \in Topics, LossInv(s), NEW t \in Topics,
         LoopRecord(t), UNCHANGED <<senderVars, current, gap>>
  PROVE  LossInv(s)'
<1> USE PipelineAssumption
<1> DEFINE v == Head(query_data[t])
           m == myMQTTtopicCounterPerUUID[t]
<1>1. /\ query_data[t] # << >>
      /\ query_data' = [query_data EXCEPT ![t] = Tail(@)]
      /\ UNCHANGED <<senderVars, current, gap>>
      /\ myMQTTtopicCounterPerUUID' = [myMQTTtopicCounterPerUUID EXCEPT ![t] = v]
      /\ alarmed' = IF Mismatch(t, v) THEN [alarmed EXCEPT ![t] = TRUE]
                                      ELSE alarmed
      /\ SenderIsWhole(s) /\ Aware /\ WireIsWhole
  BY DEF LoopRecord, CheckCounter, LossInv
<1>2. SenderIsWhole(s)' /\ WireIsWhole'
  BY <1>1
  DEF SenderIsWhole, Round, Whole, Left, TurnsUntil, Filling, AllAre,
      WireIsWhole, InFlight, senderVars
<1>3. /\ query_data[t] \in Seq(Nat) /\ current[t] \in Nat /\ m \in Nat
      /\ gap[t] \in Int /\ alarmed[t] \in BOOLEAN
      /\ AllAre(query_data[t], current[t])
      /\ Informed(t) \/ ToBeInformed(t)
  BY <1>1 DEF Aware, BaseInv, PipelineTypeOK, FanInTypeOK
<1>4. v = current[t] /\ AllAre(Tail(query_data[t]), current[t])
  BY <1>1, <1>3, TailAll
<1>5. /\ query_data'[t] = Tail(query_data[t])
      /\ myMQTTtopicCounterPerUUID'[t] = v
      /\ alarmed'[t] = (alarmed[t] \/ Mismatch(t, v))
      /\ current'[t] = current[t] /\ gap'[t] = gap[t]
  BY <1>1, <1>3 DEF BaseInv, PipelineTypeOK, FanInTypeOK
<1>6. \A u \in Topics : u # t =>
             /\ query_data'[u] = query_data[u] /\ alarmed'[u] = alarmed[u]
             /\ current'[u] = current[u] /\ gap'[u] = gap[u]
             /\ myMQTTtopicCounterPerUUID'[u] = myMQTTtopicCounterPerUUID[u]
  BY <1>1 DEF BaseInv, PipelineTypeOK, FanInTypeOK
<1> HIDE DEF v
<1>7. Informed(t)'
  <2>1. ASSUME ToBeInformed(t), gap[t] > 0 PROVE Mismatch(t, v)
    <3>1. m = v - gap[t] - 1 /\ gap[t] > 0
      BY <1>4, <2>1 DEF ToBeInformed
    <3>2. v \in Nat
      BY <1>3, <1>4
    <3>3. m = 0 => v # 1
      BY <1>3, <3>1, <3>2
    <3>4. v - m \notin {0, 1}
      BY <1>3, <3>1, <3>2
    <3> QED
      BY <3>3, <3>4 DEF Mismatch
  <2>2. gap[t] > 0 => alarmed[t] \/ Mismatch(t, v)
    BY <1>3, <2>1 DEF Informed
  <2> QED
    BY <1>4, <1>5, <2>2 DEF Informed
<1>8. Aware'
  <2> SUFFICES ASSUME NEW u \in Topics
               PROVE  /\ AllAre(query_data'[u], current'[u])
                      /\ Informed(u)' \/ ToBeInformed(u)'
    BY DEF Aware, AllAre
  <2>1. CASE u # t
    BY <1>1, <1>6, <2>1 DEF Aware, Informed, ToBeInformed
  <2>2. CASE u = t
    BY <1>4, <1>5, <1>7, <2>2
  <2> QED
    BY <2>1, <2>2
<1> QED
  BY <1>2, <1>8 DEF LossInv

LEMMA LossStep ==
  ASSUME WholeRounds, BaseInv, NEW s \in Topics, LossInv(s), [Next]_pipelineVars
  PROVE  LossInv(s)'
<1>1. CASE SenderStep
  BY <1>1, LossSender
<1>2. ASSUME NEW t \in Topics, Receive(t) PROVE LossInv(s)'
  BY <1>2, LossReceive
<1>3. ASSUME NEW t \in Topics, Lose(t) PROVE LossInv(s)'
  BY <1>3, LossLose
<1>4. CASE UNCHANGED <<senderVars, counterVars, current, gap>>
  BY <1>4
  DEF LossInv, SenderIsWhole, Round, Whole, Left, TurnsUntil, Filling, AllAre,
      WireIsWhole, InFlight, Aware, Informed, ToBeInformed, senderVars,
      counterVars
<1>5. ASSUME NEW t \in Topics, FanInStep(t) PROVE LossInv(s)'
  <2>1. CASE LoopRecord(t)
    BY <1>5, <2>1, LossLoop DEF FanInStep
  <2>2. CASE CountProduced(t) \/ Poll(t) \/ BrokerStores(t) \/ DeliveryFails(t)
    BY <1>4, <1>5, <2>2 DEF FanInStep, CountProduced, Poll, BrokerStores, DeliveryFails
  <2> QED
    BY <1>5, <2>1, <2>2 DEF FanInStep, ProcessStep
<1>6. CASE UNCHANGED pipelineVars
  BY <1>4, <1>6 DEF pipelineVars, fanInVars
<1> QED
  BY <1>1, <1>2, <1>3, <1>5, <1>6 DEF Next

(* When a round of the subtopics takes a whole number of record lists, as    *)
(* two subtopics, batches of 47 and lists of two do, the check of            *)
(* mqtt_on_message reports every loss, whatever the limit, the interrupts    *)
(* and the losses.                                                           *)
THEOREM NoLossIsMissed ==
  ASSUME WholeRounds
  PROVE  Spec => []NoMissedLoss
<1> DEFINE Inv == BaseInv /\ \E s \in Topics : LossInv(s)
<1>1. Init => Inv
  BY BaseInit, LossInit
<1>2. Inv /\ [Next]_pipelineVars => Inv'
  <2> SUFFICES ASSUME BaseInv, NEW s \in Topics, LossInv(s), [Next]_pipelineVars
               PROVE  BaseInv' /\ LossInv(s)'
    BY DEF Topics
  <2> QED
    BY BaseStep, LossStep
<1>3. Inv => NoMissedLoss
  BY DEF LossInv, Aware, Informed, ToBeInformed, NoMissedLoss
<1> QED
  BY <1>1, <1>2, <1>3, PTL DEF Spec
=============================================================================
