---------------------------- MODULE FanInProcess ----------------------------
(***************************************************************************)
(* The life of one process of the fan-in gateway: FanIn.run with the        *)
(* MQTT client it inherits from AgentCommon.  FanIn models what a message   *)
(* does to the Kafka producer; this module models what the two threads do   *)
(* to each other around it.                                                 *)
(*                                                                          *)
(* The main thread starts the process and then loops: it polls, and when    *)
(* ten seconds have passed since the last message and done is down, it      *)
(* prints the counter of every uuid in myMQTTtopicCounterPerUUID and raises *)
(* done.  It reads mqttMsgTimer, the clock and done one after the other,    *)
(* without a lock; the network thread, which sets the timer and resets      *)
(* done, may run in between.  It may also insert a uuid: the iteration then *)
(* raises a RuntimeError, which ends the main thread and with it the        *)
(* process, since paho's thread is a daemon.                                *)
(*                                                                          *)
(* All records of a message carry the uuid of one agent and the first of    *)
(* them decides whether it is new: a message is its uuid and last counter.  *)
(* Time is abstracted to whether the ten seconds are over.  A connection    *)
(* that is back but not yet subscribed again is as good as a lost one: the  *)
(* link is up when the broker has the subscription.                         *)
(***************************************************************************)
EXTENDS Integers, FiniteSets

CONSTANTS
    Agents,     \* the uuids that publish on the topic of this process
    MaxCount,   \* bound: the batches of an agent
    MaxLosses   \* bound: lost connections to the broker

ASSUME FanInProcessAssumption ==
    IsFiniteSet(Agents) /\ MaxCount \in Nat /\ MaxLosses \in Nat

VARIABLES
    main,           \* where the main thread is
    link,           \* connection and subscription: "none", "up" or "lost"
    message,        \* what mqtt_on_message is called with
    callback,       \* what is left of mqtt_on_message, or "none"
    counters,       \* myMQTTtopicCounterPerUUID
    done,
    quiet,          \* mqttMsgTimer is more than ten seconds ago
    timerRead,      \* what the main thread has read of mqttMsgTimer (see ReadTimer)
    toPrint,        \* uuids the iteration has not come to
    size,           \* len of the dictionary when the iteration began
    printed,        \* the counter last printed of each uuid (history)
    timely,         \* neither ten seconds nor a report met this message (history)
    losses

mqttVars == <<link, losses>>
messageVars == <<message, callback, counters>>
reportVars == <<toPrint, size, printed>>
timeVars == <<quiet, timerRead>>
vars == <<main, mqttVars, messageVars, done, timeVars, reportVars, timely>>

Starting == {"schemas", "topic", "producer", "mqtt", "enter"}
Looping == {"loop", "clock", "tested", "report", "printed"}
Ended == {"dead", "closed"}
NoMessage == [uuid |-> "none", count |-> 0]
NoCounters == [u \in {} |-> 0]

TypeOK ==
    /\ main \in Starting \cup Looping \cup {"closing"} \cup Ended
    /\ link \in {"none", "up", "lost"}
    /\ message \in [uuid : Agents, count : 1 .. MaxCount] \cup {NoMessage}
    /\ callback \in {"none", "check", "leave"}
    /\ callback = "none" <=> message = NoMessage
    /\ DOMAIN counters \subseteq Agents
    /\ counters \in [DOMAIN counters -> 1 .. MaxCount]
    /\ done \in BOOLEAN /\ quiet \in BOOLEAN /\ timely \in BOOLEAN
    /\ timerRead \in {"none", "recent", "renewed", "old"}
    /\ timerRead = "none" => main \notin Looping \ {"loop"}
    /\ toPrint \subseteq DOMAIN counters
    /\ size \in 0 .. Cardinality(Agents)
    /\ losses \in 0 .. MaxLosses

Init ==
    /\ main = "schemas"
    /\ link = "none" /\ losses = 0
    /\ message = NoMessage /\ callback = "none" /\ counters = NoCounters
    /\ done = FALSE /\ quiet = FALSE /\ timerRead = "none"
    /\ toPrint = {} /\ size = 0 /\ printed = NoCounters
    /\ timely = FALSE

Go(place) == main' = place

(* The assignment f[u] = n of a Python dictionary.                           *)
Assigned(f, u, n) ==
    [v \in DOMAIN f \cup {u} |-> IF v = u THEN n ELSE f[v]]

----------------------------------------------------------------------------
(* The main thread starts the process.  A schema that is not there, a topic  *)
(* or brokers that do not answer are asked for again; a schema registry or   *)
(* an MQTT broker that cannot be reached raises.                             *)
GetSchemas ==
    /\ main = "schemas" /\ Go("topic")
    /\ UNCHANGED <<mqttVars, messageVars, done, timeVars, reportVars, timely>>

KafkaCheckTopic ==
    /\ main = "topic" /\ Go("producer")
    /\ UNCHANGED <<mqttVars, messageVars, done, timeVars, reportVars, timely>>

KafkaProducerConnect ==
    /\ main = "producer" /\ Go("mqtt")
    /\ UNCHANGED <<mqttVars, messageVars, done, timeVars, reportVars, timely>>

(* mqtt_init connects, subscribes and starts the network thread.             *)
MqttInit ==
    /\ main = "mqtt" /\ Go("enter")
    /\ link' = "up"
    /\ UNCHANGED <<losses, messageVars, done, timeVars, reportVars, timely>>

StartFails ==
    /\ main \in {"schemas", "mqtt"} /\ Go("dead")
    /\ UNCHANGED <<mqttVars, messageVars, done, timeVars, reportVars, timely>>

EnterLoop ==
    /\ main = "enter" /\ Go("loop")
    /\ done' = FALSE /\ quiet' = FALSE
    /\ UNCHANGED <<mqttVars, messageVars, timerRead, reportVars, timely>>

----------------------------------------------------------------------------
(* The idle test of the main loop reads mqttMsgTimer ...  The value it holds *)
(* is "recent" while it is the timer's and less than ten seconds old,        *)
(* "renewed" once the network thread has set the timer again, and "old".     *)
ReadTimer ==
    /\ main = "loop" /\ Go("clock")
    /\ timerRead' = IF quiet THEN "old" ELSE "recent"
    /\ UNCHANGED <<mqttVars, messageVars, done, quiet, reportVars, timely>>

(* ... then the clock (the age of a renewed value is not known here) ...     *)
ReadClock ==
    /\ main = "clock"
    /\ \/ timerRead \in {"renewed", "old"} /\ Go("tested") /\ timerRead' = "old"
       \/ timerRead \in {"recent", "renewed"} /\ Go("loop") /\ timerRead' = "none"
    /\ UNCHANGED <<mqttVars, messageVars, done, quiet, reportVars, timely>>

(* Mutant of BeginReport: a report takes the counters and leaves none.       *)
BeginReportTakes ==
    /\ main = "tested" /\ Go("report")
    /\ ~done /\ counters # NoCounters
    /\ toPrint' = DOMAIN counters
    /\ size' = Cardinality(DOMAIN counters)
    /\ counters' = NoCounters
    /\ UNCHANGED <<mqttVars, message, callback, done, timeVars, printed, timely>>

(* ... then done.  Between done and the start of the iteration nobody raises *)
(* done, so that the two are one step.                                       *)
BeginReport ==
    /\ main = "tested" /\ Go("report")
    /\ ~done /\ counters # NoCounters
    /\ toPrint' = DOMAIN counters
    /\ size' = Cardinality(DOMAIN counters)
    /\ UNCHANGED <<mqttVars, messageVars, done, timeVars, printed, timely>>

(* Reported before; or nothing to iterate over, which leaves done down.      *)
NoReport ==
    /\ main = "tested" /\ Go("loop")
    /\ done \/ counters = NoCounters
    /\ timerRead' = "none"
    /\ UNCHANGED <<mqttVars, messageVars, done, quiet, reportVars, timely>>

Unchanged == Cardinality(DOMAIN counters) = size

PrintCounter ==
    /\ main = "report" /\ Unchanged /\ Go("printed")
    /\ \E u \in toPrint :
         /\ toPrint' = toPrint \ {u}
         /\ printed' = Assigned(printed, u, counters[u])
    /\ UNCHANGED <<mqttVars, messageVars, done, timeVars, size, timely>>

RaiseDone ==
    /\ main = "printed" /\ Go("report")
    /\ done' = TRUE
    /\ UNCHANGED <<mqttVars, messageVars, timeVars, reportVars, timely>>

(* Mutant of EndReport: every report starts from an empty dictionary.        *)
EndReportClears ==
    /\ main = "report" /\ Unchanged /\ toPrint = {} /\ Go("loop")
    /\ counters' = NoCounters
    /\ timerRead' = "none"
    /\ UNCHANGED <<mqttVars, message, callback, done, quiet, reportVars, timely>>

EndReport ==
    /\ main = "report" /\ Unchanged /\ toPrint = {} /\ Go("loop")
    /\ timerRead' = "none"
    /\ UNCHANGED <<mqttVars, messageVars, done, quiet, reportVars, timely>>

(* RuntimeError: dictionary changed size during iteration.  The process and  *)
(* its connection end, with a message half handled if there is one.          *)
ReportFails ==
    /\ main = "report" /\ ~Unchanged /\ Go("dead")
    /\ link' = "none"
    /\ callback' = "none" /\ message' = NoMessage
    /\ UNCHANGED <<losses, counters, done, timeVars, reportVars, timely>>

(* SIGINT: mqtt_close waits for the network thread, then disconnects.        *)
Interrupt ==
    /\ main \in {"enter"} \cup Looping /\ Go("closing")
    /\ UNCHANGED <<mqttVars, messageVars, done, timeVars, reportVars, timely>>

Close ==
    /\ main = "closing" /\ callback = "none" /\ Go("closed")
    /\ link' = "none"
    /\ UNCHANGED <<losses, messageVars, done, timeVars, reportVars, timely>>

MainThread ==
    \/ GetSchemas \/ KafkaCheckTopic \/ KafkaProducerConnect \/ MqttInit \/ EnterLoop
    \/ ReadTimer \/ ReadClock \/ BeginReport \/ NoReport
    \/ PrintCounter \/ RaiseDone \/ EndReport \/ ReportFails \/ Close

----------------------------------------------------------------------------
(* The network thread.                                                       *)
Listening == main \in {"enter", "closing"} \cup Looping
(* The main thread is not about to report, nor reporting.                    *)
NoReportDue == ~quiet /\ timerRead \in {"none", "recent"}
Count(u) == IF u \in DOMAIN counters THEN counters[u] ELSE 0

(* Mutant of OnMessage: done is not reset.                                   *)
OnMessageKeepsDone(u, n) ==
    /\ Listening /\ link = "up" /\ callback = "none"
    /\ message' = [uuid |-> u, count |-> n]
    /\ callback' = "check"
    /\ timely' = NoReportDue
    /\ UNCHANGED <<main, mqttVars, counters, done, timeVars, reportVars>>

OnMessage(u, n) ==
    /\ Listening /\ link = "up" /\ callback = "none"
    /\ message' = [uuid |-> u, count |-> n]
    /\ callback' = "check"
    /\ done' = FALSE
    /\ timely' = NoReportDue
    /\ UNCHANGED <<main, mqttVars, counters, timeVars, reportVars>>

CheckCounter ==
    /\ Listening /\ callback = "check"
    /\ counters' = Assigned(counters, message.uuid, message.count)
    /\ callback' = "leave"
    /\ UNCHANGED <<main, mqttVars, message, done, timeVars, reportVars, timely>>

LeaveOnMessage ==
    /\ Listening /\ callback = "leave"
    /\ callback' = "none" /\ message' = NoMessage
    /\ quiet' = FALSE
    /\ timerRead' = IF timerRead = "recent" THEN "renewed" ELSE timerRead
    /\ UNCHANGED <<main, mqttVars, counters, done, reportVars, timely>>

(* The session is clean: the broker forgets the subscription with the        *)
(* connection, and telemetry of the meantime is not kept.                    *)
ConnectionLost ==
    /\ Listening /\ link = "up" /\ losses < MaxLosses
    /\ link' = "lost" /\ losses' = losses + 1
    /\ UNCHANGED <<main, messageVars, done, timeVars, reportVars, timely>>

(* paho connects again by itself and calls mqtt_on_connect, which subscribes *)
(* again.                                                                    *)
Reconnected ==
    /\ Listening /\ link = "lost" /\ callback = "none"
    /\ link' = "up"
    /\ UNCHANGED <<main, losses, messageVars, done, timeVars, reportVars, timely>>

TenSecondsPass ==
    /\ Listening /\ ~quiet
    /\ quiet' = TRUE
    /\ timerRead' = IF timerRead = "none" THEN "none" ELSE "old"
    /\ timely' = (timely /\ callback = "none")
    /\ UNCHANGED <<main, mqttVars, messageVars, done, reportVars>>

Arrive == \E u \in Agents : \E n \in Count(u) + 1 .. MaxCount : OnMessage(u, n)

NetworkThread == CheckCounter \/ LeaveOnMessage \/ Reconnected

Next ==
    \/ MainThread \/ StartFails \/ Interrupt
    \/ NetworkThread \/ Arrive
    \/ ConnectionLost \/ TenSecondsPass

(* Both threads keep running and time passes.  No message need come, no      *)
(* connection need be lost and nobody need interrupt the process.            *)
Spec ==
    /\ Init /\ [][Next]_vars
    /\ WF_vars(MainThread) /\ WF_vars(NetworkThread) /\ WF_vars(TenSecondsPass)

----------------------------------------------------------------------------
(* The counters a burst ends with are reported (FanIn.py:459-465), if its    *)
(* last message came within ten seconds of the one before, was handled       *)
(* within ten seconds, and found the main loop neither reporting nor past    *)
(* its test of the timer.  (Otherwise the main loop may find the timer of an *)
(* earlier message old and then, when this message has reset done at         *)
(* FanIn.py:180, done down: it prints the counters as they were before this  *)
(* message and raises done, which only a further message resets.)            *)
FinalCountersReported ==
    (main = "loop" /\ callback = "none" /\ timely) ~>
        (printed = counters \/ callback # "none" \/ main \notin Looping)

(* Once every agent of the topic is known and no report is under way, no     *)
(* report ends the process.                                                  *)
OnceKnownStaysAlive ==
    [](main = "loop" /\ DOMAIN counters = Agents => [](main # "dead"))
=============================================================================
