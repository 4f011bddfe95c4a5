---------------------------- MODULE FanInProofs -----------------------------
(***************************************************************************)
(* Proof that the books of the gateway's threads agree, for any processes,  *)
(* any messages, any queue and any failed deliveries.                       *)
(***************************************************************************)
EXTENDS MCFanIn, TLAPS

(* The counters are numbers, one per process.                                *)
CountersAreNumbers ==
    /\ producing \in [Procs -> BOOLEAN]
    /\ kafka_msg_counter \in [Procs -> Nat]
    /\ kafka_msg_ack_received \in [Procs -> Nat]
    /\ queued \in [Procs -> Nat]
    /\ reports \in [Procs -> [ok : Nat, err : Nat]]
    /\ stored \in [Procs -> Nat]
    /\ failed \in [Procs -> Nat]

Books == CountersAreNumbers /\ KafkaAccounts

LEMMA BooksInit == FanInInit => Books
<1> SUFFICES ASSUME FanInInit PROVE Books
  OBVIOUS
<1>1. [ok |-> 0, err |-> 0] \in [ok : Nat, err : Nat]
  OBVIOUS
<1> QED
  BY <1>1 DEF FanInInit, Books, CountersAreNumbers, KafkaAccounts, Uncounted

Numbers(q) ==
    /\ producing[q] \in BOOLEAN
    /\ kafka_msg_counter[q] \in Nat /\ kafka_msg_ack_received[q] \in Nat
    /\ queued[q] \in Nat /\ stored[q] \in Nat /\ failed[q] \in Nat
    /\ reports[q] \in [ok : Nat, err : Nat]

Account(q) ==
    /\ Uncounted(q) + kafka_msg_counter[q] - 1 =
           queued[q] + stored[q] + failed[q] + reports[q].err
    /\ stored[q] = kafka_msg_ack_received[q] + reports[q].ok

LEMMA BooksByProcess ==
    Books <=> CountersAreNumbers /\ \A q \in Procs : Numbers(q) /\ Account(q)
BY DEF Books, KafkaAccounts, CountersAreNumbers, Numbers, Account

(* What the callback thread does to the producer: one more is queued and     *)
(* about to be counted, or neither.                                          *)
LEMMA ProduceKeepsBooks ==
    ASSUME Books, NEW p \in Procs, ~producing[p], Produce(p)
    PROVE  Books'
<1> USE BooksByProcess DEF CountersAreNumbers
<1>1. CASE ProduceAccepted(p)
  <2>1. /\ queued' = [queued EXCEPT ![p] = queued[p] + 1]
        /\ producing' = [producing EXCEPT ![p] = TRUE]
        /\ UNCHANGED <<kafka_msg_counter, kafka_msg_ack_received, reports, stored,
                       failed>>
    BY <1>1 DEF ProduceAccepted
  <2>2. CountersAreNumbers'
    BY <2>1 DEF Numbers
  <2>3. ASSUME NEW q \in Procs PROVE Account(q)'
    <3>1. CASE q = p
      BY <2>1, <3>1 DEF Numbers, Account, Uncounted
    <3>2. CASE q # p
      BY <2>1, <3>2 DEF Account, Uncounted
    <3> QED
      BY <3>1, <3>2
  <2> QED
    BY <2>2, <2>3 DEF Books, KafkaAccounts, Account
<1>2. CASE ProduceRefused(p)
  BY <1>2 DEF ProduceRefused, Books, KafkaAccounts, Uncounted
<1> QED
  BY <1>1, <1>2 DEF Produce

(* The count catches up; what the main thread and the brokers do moves       *)
(* messages between the queue, the brokers and the reports.                  *)
Settles(p) == CountProduced(p) \/ Poll(p) \/ BrokerStores(p) \/ DeliveryFails(p)

LEMMA SettlingKeepsBooks ==
    ASSUME Books, NEW p \in Procs, Settles(p)
    PROVE  Books'
<1> USE DEF CountersAreNumbers
<1>1. CountersAreNumbers /\ \A q \in Procs : Numbers(q) /\ Account(q)
  BY BooksByProcess
<1>2. CountersAreNumbers'
  <2>1. CASE Poll(p)
    <3>1. CASE /\ reports[p].ok > 0
               /\ reports' = [reports EXCEPT ![p].ok = @ - 1]
               /\ kafka_msg_ack_received' = [kafka_msg_ack_received EXCEPT ![p] = @ + 1]
               /\ UNCHANGED failed
      BY <1>1, <2>1, <3>1 DEF Poll, Numbers
    <3>2. CASE /\ reports[p].err > 0
               /\ reports' = [reports EXCEPT ![p].err = @ - 1]
               /\ failed' = [failed EXCEPT ![p] = @ + 1]
               /\ UNCHANGED kafka_msg_ack_received
      BY <1>1, <2>1, <3>2 DEF Poll, Numbers
    <3> QED
      BY <2>1, <3>1, <3>2 DEF Poll
  <2>2. CASE BrokerStores(p)
    BY <1>1, <2>2 DEF BrokerStores, Numbers
  <2>3. CASE DeliveryFails(p)
    BY <1>1, <2>3 DEF DeliveryFails, Numbers
  <2>4. CASE CountProduced(p)
    BY <1>1, <2>4 DEF CountProduced, Numbers
  <2> QED
    BY <2>1, <2>2, <2>3, <2>4 DEF Settles
<1>3. ASSUME NEW q \in Procs, q # p PROVE Account(q)'
  BY <1>1, <1>3 DEF Settles, CountProduced, Poll, BrokerStores, DeliveryFails, Account,
                    Uncounted
<1>4. Account(p)'
  <2> USE DEF Numbers, Account, Uncounted
  <2>1. CASE Poll(p)
    <3>1. /\ \/ /\ reports'[p].ok = reports[p].ok - 1
                /\ reports'[p].err = reports[p].err
                /\ kafka_msg_ack_received'[p] = kafka_msg_ack_received[p] + 1
                /\ failed' = failed
             \/ /\ reports'[p].ok = reports[p].ok
                /\ reports'[p].err = reports[p].err - 1
                /\ failed'[p] = failed[p] + 1
                /\ kafka_msg_ack_received' = kafka_msg_ack_received
          /\ UNCHANGED <<producing, kafka_msg_counter, queued, stored>>
      BY <1>1, <2>1 DEF Poll
    <3> QED
      BY <1>1, <3>1
  <2>2. CASE BrokerStores(p)
    <3>1. /\ reports'[p].ok = reports[p].ok + 1 /\ reports'[p].err = reports[p].err
          /\ queued'[p] = queued[p] - 1 /\ stored'[p] = stored[p] + 1
          /\ UNCHANGED <<producing, kafka_msg_counter, kafka_msg_ack_received, failed>>
      BY <1>1, <2>2 DEF BrokerStores
    <3> QED
      BY <1>1, <3>1
  <2>3. CASE DeliveryFails(p)
    <3>1. /\ reports'[p].ok = reports[p].ok /\ reports'[p].err = reports[p].err + 1
          /\ queued'[p] = queued[p] - 1
          /\ UNCHANGED <<producing, kafka_msg_counter, kafka_msg_ack_received, stored,
                         failed>>
      BY <1>1, <2>3 DEF DeliveryFails
    <3> QED
      BY <1>1, <3>1
  <2>4. CASE CountProduced(p)
    <3>1. /\ producing[p] /\ ~producing'[p]
          /\ kafka_msg_counter'[p] = kafka_msg_counter[p] + 1
          /\ UNCHANGED <<kafka_msg_ack_received, queued, reports, stored, failed>>
      BY <1>1, <2>4 DEF CountProduced
    <3> QED
      BY <1>1, <3>1
  <2> QED
    BY <2>1, <2>2, <2>3, <2>4 DEF Settles
<1> QED
  BY <1>2, <1>3, <1>4 DEF Books, KafkaAccounts, Account

LEMMA BooksStep == Books /\ [Next]_fanInVars => Books'
<1> SUFFICES ASSUME Books, [Next]_fanInVars PROVE Books'
  OBVIOUS
<1>1. CASE UNCHANGED fanInVars
  BY <1>1 DEF fanInVars, kafkaVars, Books, CountersAreNumbers, KafkaAccounts, Uncounted
<1>2. ASSUME NEW p \in Procs, Arrive(p) PROVE Books'
  <2>1. PICK m \in Messages : OnMessage(p, m)
    BY <1>2 DEF Arrive
  <2>2. (Produce(p) /\ ~producing[p]) \/ UNCHANGED kafkaVars
    BY <2>1 DEF OnMessage
  <2> QED
    BY <2>2, ProduceKeepsBooks DEF kafkaVars, Books, CountersAreNumbers, KafkaAccounts, Uncounted
<1>3. ASSUME NEW p \in Procs, ProcessStep(p) PROVE Books'
  <2>1. CASE LoopRecord(p)
    BY <2>1, ProduceKeepsBooks DEF LoopRecord
  <2> QED
    BY <1>3, <2>1, SettlingKeepsBooks DEF ProcessStep, Settles
<1> QED
  BY <1>1, <1>2, <1>3 DEF Next

(* Every record the callback thread counted, or is about to count after      *)
(* produce, is stored, failed, or still on its way; every stored one is      *)
(* acknowledged or waits for the main thread's poll (kafka_msg_counter,      *)
(* kafka_msg_ack_received of FanIn.py): the counter lags by one at most.     *)
THEOREM BooksAgree == Spec => []KafkaAccounts
<1>1. Books => KafkaAccounts
  BY DEF Books
<1> QED
  BY <1>1, BooksInit, BooksStep, PTL DEF Spec
=============================================================================
