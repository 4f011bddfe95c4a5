------------------------- MODULE FanInProcessProofs -------------------------
(***************************************************************************)
(* Proof that the idle report of a gateway process cannot end it once the   *)
(* agents of its topic are known, for any set of agents.                    *)
(***************************************************************************)
EXTENDS FanInProcess, FiniteSetTheorems, TLAPS

USE FanInProcessAssumption

LEMMA KnownAreFinite ==
    ASSUME TypeOK
    PROVE  /\ Cardinality(DOMAIN counters) \in 0 .. Cardinality(Agents)
           /\ IsFiniteSet(DOMAIN counters)
BY FS_Subset, FS_CardinalityType DEF TypeOK

(* The entry a message gets is one of an agent, with its counter.            *)
LEMMA EntryFits ==
    ASSUME TypeOK, CheckCounter
    PROVE  /\ DOMAIN counters' = DOMAIN counters \cup {message.uuid}
           /\ message.uuid \in Agents
           /\ counters' \in [DOMAIN counters' -> 1 .. MaxCount]
<1>1. message \in [uuid : Agents, count : 1 .. MaxCount]
  BY DEF TypeOK, CheckCounter
<1> QED
  BY <1>1 DEF TypeOK, CheckCounter, Assigned

LEMMA TypeInit == Init => TypeOK
<1> SUFFICES ASSUME Init PROVE TypeOK
  OBVIOUS
<1>1. Cardinality(Agents) \in Nat
  BY FS_CardinalityType
<1>2. NoCounters \in [DOMAIN NoCounters -> 1 .. MaxCount] /\ DOMAIN NoCounters = {}
  BY DEF NoCounters
<1>3. size \in 0 .. Cardinality(Agents) /\ losses \in 0 .. MaxLosses
  BY <1>1 DEF Init
<1>4. toPrint \subseteq DOMAIN counters /\ DOMAIN counters \subseteq Agents
  BY <1>2 DEF Init
<1>5. counters \in [DOMAIN counters -> 1 .. MaxCount]
  BY <1>2 DEF Init
<1> QED
  BY <1>3, <1>4, <1>5 DEF Init, TypeOK, Starting, Looping

LEMMA TypeStep == TypeOK /\ [Next]_vars => TypeOK'
<1> SUFFICES ASSUME TypeOK, [Next]_vars PROVE TypeOK'
  OBVIOUS
<1> USE DEF TypeOK, Starting, Looping, Ended, Go, messageVars, mqttVars, timeVars,
            reportVars
<1>1. CASE MainThread
  <2>1. CASE BeginReport
    BY <2>1, KnownAreFinite DEF BeginReport
  <2>2. CASE PrintCounter
    BY <2>2 DEF PrintCounter
  <2>3. CASE ReportFails
    BY <2>3 DEF ReportFails, NoMessage
  <2>4. CASE ReadTimer
    BY <2>4 DEF ReadTimer
  <2>5. CASE ReadClock
    BY <2>5 DEF ReadClock
  <2>6. CASE GetSchemas \/ KafkaCheckTopic \/ KafkaProducerConnect \/ MqttInit
    BY <2>6 DEF GetSchemas, KafkaCheckTopic, KafkaProducerConnect, MqttInit
  <2>7. CASE EnterLoop \/ NoReport \/ EndReport
    BY <2>7 DEF EnterLoop, NoReport, EndReport
  <2>8. CASE RaiseDone \/ Close
    BY <2>8 DEF RaiseDone, Close
  <2> QED
    BY <1>1, <2>1, <2>2, <2>3, <2>4, <2>5, <2>6, <2>7, <2>8 DEF MainThread
<1>2. CASE StartFails \/ Interrupt
  BY <1>2 DEF StartFails, Interrupt
<1>3. CASE NetworkThread
  <2>1. CASE CheckCounter
    BY <2>1, EntryFits DEF CheckCounter
  <2>2. CASE LeaveOnMessage
    BY <2>2 DEF LeaveOnMessage
  <2> QED
    BY <1>3, <2>1, <2>2 DEF NetworkThread, Reconnected
<1>4. CASE Arrive
  <2>1. PICK u \in Agents : \E n \in Count(u) + 1 .. MaxCount : OnMessage(u, n)
    BY <1>4 DEF Arrive
  <2>0. PICK n \in Count(u) + 1 .. MaxCount : OnMessage(u, n)
    BY <2>1
  <2>2. Count(u) \in Nat
    BY DEF Count
  <2>3. n \in 1 .. MaxCount
    BY <2>2
  <2>4. [uuid |-> u, count |-> n] # NoMessage
    BY <2>3 DEF NoMessage
  <2> QED
    BY <2>0, <2>3, <2>4 DEF OnMessage, NoReportDue
<1>5. CASE ConnectionLost
  <2>1. losses' \in 0 .. MaxLosses
    BY <1>5 DEF ConnectionLost
  <2> QED
    BY <1>5, <2>1 DEF ConnectionLost
<1>6. CASE TenSecondsPass
  BY <1>6 DEF TenSecondsPass
<1>7. CASE UNCHANGED vars
  BY <1>7 DEF vars
<1> QED
  BY <1>1, <1>2, <1>3, <1>4, <1>5, <1>6, <1>7 DEF Next

(* Every reachable state of a gateway process is of its type: an iteration   *)
(* never asks for a uuid the dictionary does not have, and a message is      *)
(* being handled exactly while mqtt_on_message has something left to do.     *)
THEOREM TypeCorrect == Spec => []TypeOK
BY TypeInit, TypeStep, PTL DEF Spec

(* All agents are known, the process runs, and an iteration under way has    *)
(* begun with all of them.                                                   *)
AllKnown ==
    /\ main \in Looping \cup {"closing", "closed"}
    /\ DOMAIN counters = Agents
    /\ main \in {"report", "printed"} => size = Cardinality(Agents)

LEMMA AllKnownStep == TypeOK /\ AllKnown /\ [Next]_vars => AllKnown'
<1> SUFFICES ASSUME TypeOK, AllKnown, [Next]_vars PROVE AllKnown'
  OBVIOUS
<1> USE DEF AllKnown, Looping, Go, messageVars, mqttVars, reportVars
<1>1. CASE MainThread
  <2>1. ~ReportFails
    BY DEF ReportFails, Unchanged
  <2> QED
    BY <1>1, <2>1 DEF MainThread, GetSchemas, KafkaCheckTopic, KafkaProducerConnect,
       MqttInit, EnterLoop, ReadTimer, ReadClock, BeginReport, NoReport, PrintCounter,
       RaiseDone, EndReport, Close
<1>2. CASE StartFails \/ Interrupt
  BY <1>2 DEF StartFails, Interrupt
<1>3. CASE NetworkThread
  <2>1. CASE CheckCounter
    BY <2>1, EntryFits DEF CheckCounter
  <2> QED
    BY <1>3, <2>1 DEF NetworkThread, LeaveOnMessage, Reconnected
<1>4. CASE Arrive \/ ConnectionLost \/ TenSecondsPass
  BY <1>4 DEF Arrive, OnMessage, ConnectionLost, TenSecondsPass
<1>5. CASE UNCHANGED vars
  BY <1>5 DEF vars
<1> QED
  BY <1>1, <1>2, <1>3, <1>4, <1>5 DEF Next

(* Once a process in its main loop knows all agents of its topic, no report  *)
(* ends it, whatever messages come while it reports (FanIn.py:463).          *)
THEOREM KnownAgentsKeepItAlive == Spec => OnceKnownStaysAlive
<1>1. main = "loop" /\ DOMAIN counters = Agents => AllKnown
  BY DEF AllKnown, Looping
<1>2. AllKnown => main # "dead"
  BY DEF AllKnown, Looping
<1> QED
  BY <1>1, <1>2, TypeCorrect, AllKnownStep, PTL DEF Spec, OnceKnownStaysAlive
=============================================================================
