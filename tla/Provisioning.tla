---------------------------- MODULE Provisioning ----------------------------
(***************************************************************************)
(* The agents, the framework manager and the broker between them: Agent and *)
(* FrameworkRegistry joined by the request and response topics.            *)
(*                                                                         *)
(* The broker (mosquitto, external) is modelled from how both ends use it. *)
(* Requests and responses are QoS 2, so the broker neither loses nor       *)
(* repeats one within a session.  The framework's session has a fixed      *)
(* client id and is persistent (setCleanSession(false)): what is published *)
(* while the framework is away waits for it.  The agents publish every     *)
(* request retained, so each subscription of the framework, and each       *)
(* renewed one, brings all requests ever made again.  Responses are not    *)
(* retained: they reach the agents subscribed when they are sent.          *)
(***************************************************************************)
EXTENDS FrameworkRegistry, Agent, SequencesExt

CONSTANT MaxFaults  \* bound: crashes of the framework and losses of its connection

VARIABLES
    retained,       \* the retained requests
    session,        \* requests the broker holds for the framework
    hasSession,     \* the framework has connected before
    faults          \* so far

brokerVars == <<retained, session, hasSession>>
vars == <<registryVars, agentVars, brokerVars, faults>>

Init ==
    /\ RegistryInit
    /\ AgentInit
    /\ retained = {}
    /\ session = << >>
    /\ hasSession = FALSE
    /\ faults = 0

----------------------------------------------------------------------------
(* Mutant of Publish: the request is not retained.                           *)
PublishOnce(request) ==
    /\ session' = IF hasSession THEN Append(session, request) ELSE session
    /\ UNCHANGED <<retained, hasSession>>

Publish(request) ==
    /\ retained' = retained \cup {request}
    /\ session' = IF hasSession THEN Append(session, request) ELSE session
    /\ UNCHANGED hasSession

AgentPublishes(a) ==
    /\ \/ Register(a) /\ Publish(RegistrationRequest(a))
       \/ RegisterDevices(a) /\ Publish(DevicesRequest(a))
       \/ Deregister(a) /\ Publish(DeregistrationRequest(a))
    /\ UNCHANGED <<registryVars, faults>>

AgentStep(a) ==
    /\ LocalStep(a) \/ NetworkThread(a)
    /\ UNCHANGED <<registryVars, brokerVars, faults>>

Deliver ==
    /\ session # << >>
    /\ MessageArrived(Head(session))
    /\ session' = Tail(session)
    /\ UNCHANGED <<agentVars, retained, hasSession, faults>>

FrameworkStep(t) ==
    /\ Start(t) \/ Work(t)
    /\ UNCHANGED <<agentVars, brokerVars, faults>>

(* The broker passes a response on to the agents that subscribed to its topic. *)
ResponseTopic(r) ==
    [op |-> r.op, key |-> IF r.op = "register" THEN r.uid ELSE r.uuid]

FrameworkAnswers(t) ==
    /\ Respond(t)
    /\ mailbox' = [a \in Uids |->
                     IF ResponseTopic(Response(t)) \in subscribed[a]
                     THEN Append(mailbox[a], Response(t))
                     ELSE mailbox[a]]
    /\ UNCHANGED <<threadVars, mqttVars, attrVars, brokerVars, faults>>

(* A subscription brings the retained requests: registrations, device lists, *)
(* deregistrations, in the order the listeners are registered.               *)
RetainedOf(op) == SetToSeq({r \in retained : r.op = op})

(* Mutant of Resent: only the registrations come again.                      *)
ResentRegistrations == RetainedOf("register")

Resent == RetainedOf("register") \o RetainedOf("devices") \o RetainedOf("deregister")

(* The framework starts.  Its listeners are registered after it is           *)
(* connected: what the broker hands over before that goes to the default     *)
(* callback, which only logs it.                                             *)
StartFramework ==
    /\ link = "down"
    /\ Connect
    /\ hasSession' = TRUE
    /\ \E n \in 0 .. Len(session) :
         session' = SubSeq(session, n + 1, Len(session)) \o Resent
    /\ UNCHANGED <<agentVars, retained, faults>>

(* Mutant of Reconnect: the subscriptions are not renewed.                   *)
ReconnectOnly ==
    /\ link = "lost"
    /\ Connect
    /\ UNCHANGED <<agentVars, brokerVars, faults>>

(* The client reconnects by itself; its listeners are still in place.        *)
Reconnect ==
    /\ link = "lost"
    /\ Connect
    /\ hasSession' = TRUE
    /\ session' = session \o Resent
    /\ UNCHANGED <<agentVars, retained, faults>>

FrameworkFault ==
    /\ faults < MaxFaults
    /\ ConnectionLost \/ Crash
    /\ faults' = faults + 1
    /\ UNCHANGED <<agentVars, brokerVars>>

(* The broker restarts and everybody loses the connection.  What mosquitto   *)
(* keeps it saves now and then and when it stops in order: after a crash it  *)
(* may have forgotten sessions, subscriptions and retained requests.         *)
BrokerForgets ==
    /\ retained' = {} /\ session' = << >> /\ hasSession' = FALSE
    /\ subscribed' = [a \in Uids |-> {}]
    /\ mailbox' = [a \in Uids |-> << >>]

BrokerRestarts ==
    /\ faults < MaxFaults
    /\ faults' = faults + 1
    /\ BrokerForgets \/ UNCHANGED <<brokerVars, subscribed, mailbox>>
    /\ attached' = [a \in Uids |-> FALSE]
    /\ IF link = "up" THEN ConnectionLost ELSE UNCHANGED registryVars
    /\ UNCHANGED <<threadVars, userdata, attrVars>>

FrameworkActs ==
    Deliver \/ \E t \in Threads : FrameworkStep(t) \/ FrameworkAnswers(t)

Next ==
    \/ \E a \in Uids : AgentPublishes(a) \/ AgentStep(a)
    \/ FrameworkActs
    \/ StartFramework \/ Reconnect \/ FrameworkFault \/ BrokerRestarts

(* Threads keep running: both threads of every agent and those of the        *)
(* executor; the broker delivers; automatic reconnection goes on until it    *)
(* succeeds.  An agent that sends need not stop, no signal need come, no     *)
(* time-out need pass, and nothing restarts a framework that crashed.        *)
MainThread(a) ==
    \/ Register(a) /\ Publish(RegistrationRequest(a)) /\ UNCHANGED <<registryVars, faults>>
    \/ RegisterDevices(a) /\ Publish(DevicesRequest(a)) /\ UNCHANGED <<registryVars, faults>>
    \/ /\ \/ CreateDeviceMap(a) \/ DeviceUnreachable(a) \/ NoTopicsYet(a)
          \/ StartSending(a) \/ LookUp(a) \/ LookUpFails(a) \/ Close(a)
       /\ UNCHANGED <<registryVars, brokerVars, faults>>

Fairness ==
    /\ \A a \in Uids :
         /\ WF_vars(MainThread(a))
         /\ WF_vars(NetworkThread(a) /\ UNCHANGED <<registryVars, brokerVars, faults>>)
    /\ WF_vars(Deliver)
    /\ \A t \in Threads : WF_vars(FrameworkStep(t) \/ FrameworkAnswers(t))
    /\ WF_vars(Reconnect)

Spec == Init /\ [][Next]_vars /\ Fairness

----------------------------------------------------------------------------
AtRest == session = << >> /\ inbox = << >> /\ \A t \in Threads : job[t] = Idle

(* The framework serves the agents as the abstract directory does, although  *)
(* its tasks interleave.                                                     *)
Directory == INSTANCE AgentDirectory WITH
    entries <- repo, past <- {e.uuid : e \in enrolled}

ServesAsDirectory == Directory!Spec

(* An agent that sends stamps its data with sensor UUIDs the repository has  *)
(* for it, under the uuid it believes to have.                               *)
SensorsKnown ==
    \A a \in Uids : pc[a] = "sending" =>
        \/ a \in RedfishAgents /\ sensor_uuid[a] = 0     \* has not looked one up yet
        \/ /\ sensor_uuid[a] # 0
           /\ [uuid |-> myAgent_uuid[a], uid |-> a, devices |-> sensor_uuid[a]] \in repo

(* As long as an agent has not asked to leave, the uuid it goes by is that   *)
(* of an agent the repository holds under its uid.                           *)
KnownAgents ==
    \A a \in Uids : myAgent_uuid[a] # 0 =>
        \/ myAgent_uuid[a] \in leaving
        \/ \E e \in repo : e.uuid = myAgent_uuid[a] /\ e.uid = a

AnsweredTwice(a) ==
    \E r, s \in responses : /\ r.op = "register" /\ r.uid = a
                           /\ s.op = "register" /\ s.uid = a
                           /\ r # s

(* The look-ups of a RedfishAgent that sends fail only when its registration *)
(* was answered a second time: its map is complete before the flag that      *)
(* makes it send, and no other answer of the network thread disturbs it.     *)
SendingGoesOn ==
    [][\A a \in Uids : pc[a] = "sending" /\ pc'[a] = "failed" => AnsweredTwice(a)]_vars

(* An agent that is connected can be reached with the answer it waits for,   *)
(* whatever the broker has forgotten: on_connect renews the subscriptions,   *)
(* those of the first answer included (IBswitchSimulator.py:214).            *)
WithinReach ==
    \A a \in Uids : attached[a] /\ ~AnsweredTwice(a) =>
        /\ pc[a] = "awaitRegistered" => Topic("register", a) \in subscribed[a]
        /\ pc[a] = "awaitDevices" /\ mapUuid[a] # 0 =>
               Topic("devices", mapUuid[a]) \in subscribed[a]
        /\ pc[a] = "awaitDeregistered" => Topic("deregister", topics[a]) \in subscribed[a]

(* Once the framework is at rest, the Kafka stream tells what it holds: the  *)
(* device list of every agent that has one was announced, and so was every   *)
(* agent that is gone.  (A fault can break this: a task whose response       *)
(* cannot be published ends before its event is sent.)                       *)
KafkaKnows ==
    AtRest => \A e \in enrolled :
        \/ \E a \in Stored(e.uuid) :
              \/ a.devices = 0
              \/ [op |-> "devices", uuid |-> a.uuid, devices |-> a.devices] \in Range(kafka)
        \/ [op |-> "deregister", uuid |-> e.uuid, success |-> TRUE] \in Range(kafka)

(* An agent that has deregistered leaves nothing behind                      *)
(* (MqttAgentTest: assertEquals(0, repo.count()) after agent.deregister).    *)
DeregisteredIsGone ==
    \A a \in Uids : pc[a] = "closed" /\ AtRest => \A e \in repo : e.uid # a

(* However often its request is delivered, a registered agent is one agent   *)
(* (MqttAgentTest: assertEquals(1, repo.count()) after agent.register).      *)
OneAgentPerUid ==
    AtRest => \A e, f \in repo : e.uid = f.uid => e = f

(* A framework that ends up running registers every agent that has not died, *)
(* though it may start late, crash with the request acknowledged but not     *)
(* processed, or lose its connection before it could answer -- unless the    *)
(* broker has forgotten the request, which no agent sends again.             *)
EventuallyRegistered ==
    <>[](link # "down") => \A a \in Uids :
        <>\/ pc[a] \notin {"start", "awaitRegistered"}
          \/ pc[a] = "awaitRegistered" /\ RegistrationRequest(a) \notin retained

(* Nor does an agent wait for its devices for ever, if it named itself in    *)
(* its request and no second answer to its registration has made the topic   *)
(* of the first one unknown to it.                                           *)
EventuallyEquipped ==
    <>[](link # "down") => \A a \in Uids :
        pc[a] = "awaitDevices" ~>
            \/ pc[a] # "awaitDevices" \/ mapUuid[a] = 0 \/ AnsweredTwice(a)
            \/ DevicesRequest(a) \notin retained

(* With a framework that stays up, every agent gets to send, and one that    *)
(* asks to leave gets to close.  The exception is an agent whose main thread *)
(* saw the registration flag before its network thread had set the uuid or   *)
(* the topics: it fails on a missing attribute, or sends a device list       *)
(* without its uuid, which is never answered.  (A RedfishAgent also fails    *)
(* when its device does not answer.)                                         *)
Overtaken(a) == pc[a] = "failed" \/ (pc[a] = "awaitDevices" /\ mapUuid[a] = 0)

RunsItsCourse ==
    <>[](link = "up") => \A a \in Uids :
        /\ <>(pc[a] = "sending" \/ Overtaken(a))
        /\ (pc[a] = "awaitDeregistered") ~> (pc[a] = "closed")

(* At the end of the registration process, agent UUID must be set            *)
(* (MqttAgentTest): the agent builds its device list with its uuid.          *)
RegistrationSetsUuid == \A a \in Uids : pc[a] = "mapped" => mapUuid[a] # 0
=============================================================================
