------------------------- MODULE UndisturbedProofs -------------------------
(***************************************************************************)
(* What the provisioning protocol does while nothing fails: no crash, no   *)
(* lost connection and no restart of the broker so far, whatever the       *)
(* agents, the threads and the order of their steps.                       *)
(*                                                                         *)
(* Every request is then served once.  Deliver moves a request from the    *)
(* end of one queue to the end of the other, so that inbox \o session is   *)
(* one queue all requests pass through; no request is in it twice, or in   *)
(* it and in the hands of a thread, or with two threads.  So an agent is   *)
(* enrolled once and equipped once; and since it asks to leave only after  *)
(* the answer to its device list (LeavesInPeace), nobody takes it out of   *)
(* the repository while it waits for that.                                 *)
(*                                                                         *)
(* From this follow the results of the run provisioning for all constants: *)
(* the Kafka stream tells what the repository holds (StreamTellsAll), data *)
(* is stamped with sensor UUIDs the repository has (SensorsStayKnown),     *)
(* nothing is left of an agent that closed (NothingIsLeft), and the tasks  *)
(* serve the agents as AgentDirectory says (ServesAgentsAsDirectory).      *)
(***************************************************************************)
EXTENDS ProvisioningProofs

(* SIGINT reaches an agent before it has asked to leave, and it asks once.   *)
LeavesOnce ==
    SignalPoints \subseteq {"start", "awaitRegistered", "mapped", "awaitDevices", "sending"}

(* ... and not while it waits for its devices.                               *)
LeavesInPeace == LeavesOnce /\ "awaitDevices" \notin SignalPoints

Queue == inbox \o session

Ask(op, uuid) == [op |-> op, uuid |-> uuid]

Queued(request) == \E i \in 1 .. Len(Queue) : Queue[i] = request

Does(t, request) == job[t] # Idle /\ job[t].request = request

(* Until it connects, the framework has nothing; from then on it stays up.   *)
Connection ==
    /\ hasSession => link = "up"
    /\ ~hasSession =>
         /\ link = "down"
         /\ inbox = << >> /\ session = << >>
         /\ \A t \in Threads : job[t] = Idle
         /\ repo = {} /\ enrolled = {} /\ responses = {} /\ kafka = << >>

(* Nobody has published a request before its time.                           *)
HasLeft(a) == pc[a] \notin {"start", "awaitRegistered", "mapped", "awaitDevices", "sending"}

PublishedInTime ==
    \A r \in retained :
        /\ r.op = "register" => pc[r.uid] # "start"
        /\ r.op = "devices" /\ r.uuid # 0 => \E a \in Uids :
             mapUuid[a] = r.uuid /\ pc[a] \notin {"start", "awaitRegistered", "mapped"}
        /\ r.op = "deregister" => \E a \in Uids :
             r.uuid # 0 /\ myAgent_uuid[a] = r.uuid /\ HasLeft(a)

OnlyOnce ==
    /\ \A i \in 1 .. Len(Queue) : Queue[i] \in retained
    /\ \A i, j \in 1 .. Len(Queue) :
         i # j /\ Decodes(Queue[i]) => Queue[i] # Queue[j]
    /\ \A t \in Threads : job[t] # Idle =>
         /\ job[t].request \in retained
         /\ Decodes(job[t].request)
         /\ ~Queued(job[t].request)
         /\ \A u \in Threads : Does(u, job[t].request) => u = t

(* A uid is enrolled once, by the one task of its one request.               *)
EnrolledByOne ==
    /\ \A e, f \in enrolled : e.uid = f.uid => e = f
    /\ \A e \in enrolled :
         /\ RegistrationRequest(e.uid) \in retained
         /\ ~Queued(RegistrationRequest(e.uid))
         /\ \A t \in Threads : Does(t, RegistrationRequest(e.uid)) => At(t, "respond")
    /\ \A r \in responses : r.op = "register" =>
         \A t \in Threads : ~Does(t, RegistrationRequest(r.uid))
    /\ \A t \in Threads : At(t, "save") => job[t].agent.devices = 0

(* An agent is equipped once, by the one task of its one device list.        *)
EquippedByOne ==
    /\ \A x \in repo : x.devices # 0 =>
         /\ Ask("devices", x.uuid) \in retained
         /\ ~Queued(Ask("devices", x.uuid))
         /\ \A t \in Threads : Does(t, Ask("devices", x.uuid)) =>
              job[t].step \in {"respond", "kafka"}
    /\ \A r \in responses : r.op = "devices" =>
         /\ Ask("devices", r.uuid) \in retained
         /\ ~Queued(Ask("devices", r.uuid))
         /\ \A t \in Threads : Does(t, Ask("devices", r.uuid)) => At(t, "kafka")
    /\ \A t \in Threads : job[t].step \in {"update", "respond", "kafka"} /\ Op(t) = "devices" =>
         job[t].agent.uuid = job[t].request.uuid
    /\ \A r, s \in responses :
         r.op = "devices" /\ s.op = "devices" /\ r.uuid = s.uuid => r = s

(* What the repository holds is announced, or about to be.                   *)
Announced(event) == event \in Range(kafka)

Announces(t, op, uuid) ==
    job[t].step \in {"respond", "kafka"} /\ job[t].request = Ask(op, uuid)

EventsFollow ==
    /\ \A e \in enrolled : Stored(e.uuid) = {} =>
         \/ Announced([op |-> "deregister", uuid |-> e.uuid, success |-> TRUE])
         \/ \E t \in Threads : Announces(t, "deregister", e.uuid) /\ job[t].success
    /\ \A x \in repo : x.devices # 0 =>
         \/ Announced([op |-> "devices", uuid |-> x.uuid, devices |-> x.devices])
         \/ \E t \in Threads : /\ Announces(t, "devices", x.uuid)
                               /\ job[t].agent.devices = x.devices

(* What an agent stamps its data with was answered under its own uuid.       *)
SensorsAnswered ==
    /\ sensor_uuid \in [Uids -> Nat]
    /\ \A a \in Uids :
        /\ myDeviceSensorUUIDsMap[a] # 0 =>
             [op |-> "devices", uuid |-> myAgent_uuid[a],
              devices |-> myDeviceSensorUUIDsMap[a]] \in responses
        /\ sensor_uuid[a] # 0 =>
             [op |-> "devices", uuid |-> myAgent_uuid[a],
              devices |-> sensor_uuid[a]] \in responses
        /\ pc[a] = "sending" /\ a \notin RedfishAgents => sensor_uuid[a] # 0

FarewellAnswered ==
    /\ myMQTTderegistered \in [Uids -> BOOLEAN]
    /\ \A a \in Uids :
         /\ pc[a] = "closed" => myMQTTderegistered[a]
         /\ myMQTTderegistered[a] => \E r \in responses :
              r.op = "deregister" /\ r.uuid = myAgent_uuid[a]
    /\ \A r \in responses : r.op = "deregister" => Ask("deregister", r.uuid) \in retained

Undisturbed ==
    /\ Connection
    /\ PublishedInTime
    /\ OnlyOnce
    /\ EnrolledByOne
    /\ EquippedByOne
    /\ EventsFollow
    /\ SensorsAnswered
    /\ FarewellAnswered

(* An agent asks to leave only when its device list, if it sent one, has     *)
(* been answered; so it is there when it is equipped, and what it was told   *)
(* stays in the repository until it leaves.                                  *)
LeavesAnswered ==
    \A r \in retained : r.op = "deregister" /\ Ask("devices", r.uuid) \in retained =>
        \E s \in responses : s.op = "devices" /\ s.uuid = r.uuid

EquipsThePresent ==
    /\ \A t \in Threads : At(t, "update") =>
         [job[t].agent EXCEPT !.devices = 0] \in repo
    /\ \A t \in Threads : job[t].step \in {"respond", "kafka"} /\ Op(t) = "devices" =>
         Ask("deregister", job[t].request.uuid) \in retained \/ job[t].agent \in repo
    /\ \A r \in responses : r.op = "devices" =>
         \/ Ask("deregister", r.uuid) \in retained
         \/ \E x \in repo : x.uuid = r.uuid /\ x.devices = r.devices

LeaversAreGone ==
    /\ \A t \in Threads : job[t].step \in {"respond", "kafka"} /\ Op(t) = "deregister" =>
         Stored(job[t].request.uuid) = {}
    /\ \A r \in responses : r.op = "deregister" => Stored(r.uuid) = {}

InPeace ==
    /\ LeavesAnswered
    /\ EquipsThePresent
    /\ LeaversAreGone


----------------------------------------------------------------------------
(* The steps that are left when nothing fails.                               *)
TaskStep(t) ==
    /\ \/ Start(t) \/ Create(t) \/ Save(t) \/ Get(t) \/ Update(t) \/ Delete(t)
       \/ SendKafka(t)
    /\ UNCHANGED <<agentVars, brokerVars, faults>>

QuietNext ==
    \/ \E a \in Uids : AgentPublishes(a) \/ AgentStep(a)
    \/ \E t \in Threads : TaskStep(t) \/ FrameworkAnswers(t)
    \/ Deliver \/ StartFramework

LEMMA QuietSteps ==
  ASSUME Connection, [Next]_vars, faults = 0, faults' = 0
  PROVE  QuietNext \/ UNCHANGED vars
<1>1. ASSUME FrameworkFault \/ BrokerRestarts PROVE FALSE
  BY <1>1 DEF FrameworkFault, BrokerRestarts
<1>2. ASSUME Reconnect PROVE FALSE
  BY <1>2 DEF Reconnect, Connection
<1>3. ASSUME NEW t \in Threads, RespondFails(t) PROVE FALSE
  <2>1. hasSession
    BY <1>3 DEF Connection, RespondFails, At, Idle
  <2> QED BY <1>3, <2>1 DEF Connection, RespondFails
<1>4. ASSUME NEW t \in Threads, FrameworkStep(t) PROVE TaskStep(t)
  BY <1>3, <1>4 DEF FrameworkStep, TaskStep, Work
<1> QED BY <1>1, <1>2, <1>4 DEF Next, FrameworkActs, QuietNext

(* What a step of a thread does to its task.                                 *)
LEMMA TaskBegins ==
  ASSUME RegistryInv, NEW t \in Threads, Start(t)
  PROVE  /\ UNCHANGED <<repo, responses, kafka, enrolled, link>>
         /\ job[t] = Idle /\ inbox # << >> /\ inbox' = Tail(inbox)
         /\ \A u \in Threads \ {t} : job'[u] = job[u]
         /\ \/ ~Decodes(Head(inbox)) /\ job'[t] = Idle
            \/ /\ Decodes(Head(inbox))
               /\ job'[t] # Idle /\ job'[t].request = Head(inbox)
               /\ job'[t].step \in {"create", "get"}
<1>1. job \in [Threads -> Jobs \cup {Idle}]
  BY DEF RegistryInv, TypeInv, RegistryTypeOK
<1>2. CASE Decodes(Head(inbox))
  <2> DEFINE new == [step |-> FirstStep(Head(inbox)), request |-> Head(inbox),
                     agent |-> NoAgent, success |-> FALSE]
  <2>1. job' = [job EXCEPT ![t] = new]
    BY <1>2 DEF Start
  <2>2. new.request = Head(inbox) /\ new.step \in {"create", "get"}
    BY DEF FirstStep
  <2> HIDE DEF new
  <2>3. job'[t].request = Head(inbox) /\ job'[t].step \in {"create", "get"}
    BY <1>1, <2>1, <2>2
  <2>4. job'[t] # Idle
    BY <2>3 DEF Idle
  <2>5. \A u \in Threads \ {t} : job'[u] = job[u]
    BY <1>1, <2>1
  <2> QED BY <1>2, <2>3, <2>4, <2>5 DEF Start
<1>3. CASE ~Decodes(Head(inbox))
  BY <1>3 DEF Start
<1> QED BY <1>2, <1>3

(* It keeps its request until it is done.                                    *)
TaskGoesOn(t) ==
    /\ job[t] \in Jobs /\ job[t] # Idle
    /\ \A u \in Threads \ {t} : job'[u] = job[u]
    /\ \/ job'[t] = Idle
       \/ job'[t] # Idle /\ job'[t].request = job[t].request
    /\ UNCHANGED <<inbox, link>>

LEMMA TaskCreates ==
  ASSUME RegistryInv, NEW t \in Threads, Create(t)
  PROVE  /\ TaskGoesOn(t) /\ Op(t) = "register" /\ At(t, "create")
         /\ job'[t].step = "save" /\ job'[t].agent.devices = 0
         /\ job'[t].request = job[t].request
         /\ UNCHANGED <<repo, responses, kafka, enrolled>>
<1> DEFINE agent == [uuid |-> counter', uid |-> job[t].request.uid, devices |-> 0]
<1>1. job \in [Threads -> Jobs \cup {Idle}] /\ job[t] \in Jobs /\ Op(t) = "register"
  BY DEF RegistryInv, TypeInv, RegistryTypeOK, JobsFit, Create, At, Idle
<1>2. job' = [job EXCEPT ![t].step = "save", ![t].agent = agent] /\ agent.devices = 0
  BY DEF Create
<1> HIDE DEF agent
<1>3. /\ job'[t].step = "save" /\ job'[t].agent = agent /\ job'[t].request = job[t].request
      /\ \A u \in Threads \ {t} : job'[u] = job[u]
  BY <1>1, <1>2 DEF Jobs
<1> QED BY <1>1, <1>2, <1>3 DEF Create, TaskGoesOn, At, Idle

LEMMA TaskSaves ==
  ASSUME RegistryInv, NEW t \in Threads, Save(t)
  PROVE  /\ TaskGoesOn(t) /\ Op(t) = "register" /\ At(t, "save")
         /\ job'[t].step = "respond" /\ job'[t].request = job[t].request
         /\ job[t].agent \in Agents /\ HashSet(job[t].agent)
         /\ enrolled' = enrolled \cup {Identity(job[t].agent)}
         /\ job[t].agent.uid = job[t].request.uid
         /\ job[t].request = RegistrationRequest(job[t].agent.uid)
         /\ \A e \in enrolled : e.uuid # job[t].agent.uuid
         /\ UNCHANGED <<responses, kafka>>
<1>1. job \in [Threads -> Jobs \cup {Idle}] /\ job[t] \in Jobs /\ Op(t) = "register"
  BY DEF RegistryInv, TypeInv, RegistryTypeOK, JobsFit, Save, At, Idle
<1>2. job[t].agent \in Agents
  BY DEF RegistryInv, TypeInv, JobsFit, Save, At
<1>3. /\ job'[t].step = "respond" /\ job'[t].request = job[t].request
      /\ \A u \in Threads \ {t} : job'[u] = job[u]
  BY <1>1 DEF Save, GoTo, Jobs
<1>4. /\ job[t].agent.uid = job[t].request.uid
      /\ \A e \in enrolled : e.uuid # job[t].agent.uuid
  BY DEF RegistryInv, SavesAreFresh, Save
<1>5. job[t].request = RegistrationRequest(job[t].agent.uid)
  BY <1>1, <1>4 DEF Jobs, Requests, Op, RegistrationRequest
<1> QED BY <1>1, <1>2, <1>3, <1>4, <1>5 DEF Save, TaskGoesOn, Identity, At, Idle

LEMMA TaskGets ==
  ASSUME RegistryInv, NEW t \in Threads, Get(t)
  PROVE  /\ TaskGoesOn(t) /\ At(t, "get") /\ Op(t) # "register"
         /\ UNCHANGED <<repo, responses, kafka, enrolled>>
         /\ \/ job'[t] = Idle
            \/ /\ Op(t) = "devices" /\ job'[t].step = "update"
               /\ \E x \in Stored(job[t].request.uuid) :
                    job'[t].agent = [x EXCEPT !.devices = drawn']
            \/ /\ Op(t) = "deregister" /\ job'[t].step = "delete"
<1>1. job \in [Threads -> Jobs \cup {Idle}] /\ job[t] \in Jobs /\ Op(t) # "register"
  BY DEF RegistryInv, TypeInv, RegistryTypeOK, JobsFit, Get, At, Idle
<1>2. ASSUME Quit(t) PROVE TaskGoesOn(t) /\ job'[t] = Idle
  <2>1. job[t].step = "get" /\ UNCHANGED <<inbox, link>>
    BY DEF Get, At
  <2> QED BY <1>1, <1>2, <2>1 DEF Quit, TaskGoesOn, Idle
<1>3. ASSUME NEW x \in Stored(job[t].request.uuid), Op(t) = "devices", drawn' = drawn + 1,
             job' = [job EXCEPT ![t].step = "update",
                                ![t].agent = [x EXCEPT !.devices = drawn']]
      PROVE  /\ TaskGoesOn(t) /\ job'[t].step = "update"
             /\ job'[t].agent = [x EXCEPT !.devices = drawn']
  <2> DEFINE y == [x EXCEPT !.devices = drawn']
  <2>1. job' = [job EXCEPT ![t].step = "update", ![t].agent = y]
    BY <1>3
  <2> HIDE DEF y
  <2>2. /\ job'[t].step = "update" /\ job'[t].agent = y /\ job'[t].request = job[t].request
        /\ \A u \in Threads \ {t} : job'[u] = job[u]
    BY <1>1, <2>1 DEF Jobs
  <2> QED BY <1>1, <2>2 DEF y, TaskGoesOn, Get, At, Idle
<1>4. ASSUME NEW x \in Stored(job[t].request.uuid), Op(t) # "devices",
             job' = [job EXCEPT ![t].step = "delete", ![t].agent = x]
      PROVE  TaskGoesOn(t) /\ Op(t) = "deregister" /\ job'[t].step = "delete"
  <2>1. /\ job'[t].step = "delete" /\ job'[t].request = job[t].request
        /\ \A u \in Threads \ {t} : job'[u] = job[u]
    BY <1>1, <1>4 DEF Jobs
  <2>2. Op(t) = "deregister"
    BY <1>1, <1>4 DEF Jobs, Requests, Op
  <2> QED BY <1>1, <2>1, <2>2 DEF TaskGoesOn, Get, At, Idle
<1> QED BY <1>1, <1>2, <1>3, <1>4 DEF Get, Op

LEMMA TaskUpdates ==
  ASSUME RegistryInv, NEW t \in Threads, Update(t)
  PROVE  /\ TaskGoesOn(t) /\ Op(t) = "devices" /\ At(t, "update")
         /\ job'[t].step = "respond" /\ job'[t].request = job[t].request
         /\ job'[t].agent = job[t].agent
         /\ job[t].request = Ask("devices", job[t].request.uuid)
         /\ job[t].agent \in Agents /\ HashSet(job[t].agent)
         /\ UNCHANGED <<responses, kafka, enrolled>>
<1>1. job \in [Threads -> Jobs \cup {Idle}] /\ job[t] \in Jobs /\ Op(t) = "devices"
  BY DEF RegistryInv, TypeInv, RegistryTypeOK, JobsFit, Update, At, Idle
<1>2. /\ job'[t].step = "respond" /\ job'[t].request = job[t].request
      /\ job'[t].agent = job[t].agent
      /\ \A u \in Threads \ {t} : job'[u] = job[u]
  BY <1>1 DEF Update, GoTo, Jobs
<1>3. job[t].request = Ask("devices", job[t].request.uuid)
  BY <1>1 DEF Jobs, Requests, Op, Ask
<1>4. job[t].agent \in Agents
  BY DEF RegistryInv, TypeInv, JobsFit, Update, At
<1> QED BY <1>1, <1>2, <1>3, <1>4 DEF Update, TaskGoesOn, At, Idle

LEMMA TaskDeletes ==
  ASSUME RegistryInv, NEW t \in Threads, Delete(t)
  PROVE  /\ TaskGoesOn(t) /\ Op(t) = "deregister" /\ At(t, "delete")
         /\ job'[t].step = "respond" /\ job'[t].request = job[t].request
         /\ job'[t].success = (Stored(job[t].request.uuid) # {})
         /\ job[t].request = Ask("deregister", job[t].request.uuid)
         /\ HashDelete(job[t].request.uuid)
         /\ UNCHANGED <<responses, kafka, enrolled>>
<1>1. job \in [Threads -> Jobs \cup {Idle}] /\ job[t] \in Jobs /\ Op(t) = "deregister"
  BY DEF RegistryInv, TypeInv, RegistryTypeOK, JobsFit, Delete, At, Idle
<1>2. job[t].agent.uuid = job[t].request.uuid
  BY DEF RegistryInv, LeaversAreKnown, Delete
<1> DEFINE found == Stored(job[t].agent.uuid) # {}
<1>3. job' = [job EXCEPT ![t].step = "respond", ![t].success = found]
  BY DEF Delete
<1> HIDE DEF found
<1>4. /\ job'[t].step = "respond" /\ job'[t].request = job[t].request
      /\ job'[t].success = found
      /\ \A u \in Threads \ {t} : job'[u] = job[u]
  BY <1>1, <1>3 DEF Jobs
<1>5. job[t].request = Ask("deregister", job[t].request.uuid)
  BY <1>1 DEF Jobs, Requests, Op, Ask
<1> QED BY <1>1, <1>2, <1>4, <1>5 DEF Delete, TaskGoesOn, At, Idle, found

LEMMA TaskResponds ==
  ASSUME RegistryInv, NEW t \in Threads, Respond(t)
  PROVE  /\ TaskGoesOn(t) /\ At(t, "respond") /\ responses' = responses \cup {Response(t)}
         /\ \/ Op(t) = "register" /\ job'[t] = Idle
            \/ /\ Op(t) # "register" /\ job'[t].step = "kafka"
               /\ job'[t].request = job[t].request
               /\ job'[t].agent = job[t].agent /\ job'[t].success = job[t].success
         /\ UNCHANGED <<repo, kafka, enrolled>>
<1>1. job \in [Threads -> Jobs \cup {Idle}] /\ job[t] \in Jobs
  BY DEF RegistryInv, TypeInv, RegistryTypeOK, Respond, At, Idle
<1>2. CASE Op(t) = "register"
  BY <1>1, <1>2 DEF Respond, Quit, TaskGoesOn, At, Idle
<1>3. CASE Op(t) # "register"
  <2>1. /\ job'[t].step = "kafka" /\ job'[t].request = job[t].request
        /\ job'[t].agent = job[t].agent /\ job'[t].success = job[t].success
        /\ \A u \in Threads \ {t} : job'[u] = job[u]
    BY <1>1, <1>3 DEF Respond, GoTo, Jobs
  <2> QED BY <1>1, <1>3, <2>1 DEF Respond, TaskGoesOn, At, Idle
<1> QED BY <1>2, <1>3

LEMMA TaskSends ==
  ASSUME RegistryInv, NEW t \in Threads, SendKafka(t)
  PROVE  /\ TaskGoesOn(t) /\ At(t, "kafka") /\ Op(t) # "register" /\ job'[t] = Idle
         /\ kafka' = Append(kafka, Response(t))
         /\ UNCHANGED <<repo, responses, enrolled>>
<1>1. job \in [Threads -> Jobs \cup {Idle}] /\ job[t] \in Jobs /\ Op(t) # "register"
  BY DEF RegistryInv, TypeInv, RegistryTypeOK, JobsFit, SendKafka, At, Idle
<1> QED BY <1>1 DEF SendKafka, Quit, TaskGoesOn, At, Idle

----------------------------------------------------------------------------
(* The one queue of requests.                                                *)
LEMMA QueueIsTyped ==
  ASSUME ProvisioningInv
  PROVE  /\ inbox \in Seq(Requests) /\ session \in Seq(Requests)
         /\ Queue \in Seq(Requests)
         /\ job \in [Threads -> Jobs \cup {Idle}]
<1>1. inbox \in Seq(Requests) /\ session \in Seq(Requests)
      /\ job \in [Threads -> Jobs \cup {Idle}]
  BY DEF ProvisioningInv, RegistryInv, TypeInv, RegistryTypeOK, BrokerFits
<1> QED BY <1>1 DEF Queue

LEMMA DeliverKeepsQueue ==
  ASSUME ProvisioningInv, Deliver
  PROVE  Queue' = Queue
<1>1. inbox \in Seq(Requests) /\ session \in Seq(Requests) /\ session # << >>
  BY QueueIsTyped DEF Deliver
<1>2. inbox' = Append(inbox, Head(session)) /\ session' = Tail(session)
  BY DEF Deliver, MessageArrived
<1> QED BY <1>1, <1>2 DEF Queue

LEMMA TaskTakesFirst ==
  ASSUME ProvisioningInv, NEW t \in Threads, Start(t), session' = session
  PROVE  /\ Queue # << >> /\ Head(inbox) = Queue[1]
         /\ Queue' = Tail(Queue)
<1>1. inbox \in Seq(Requests) /\ session \in Seq(Requests) /\ inbox # << >>
      /\ inbox' = Tail(inbox)
  BY QueueIsTyped DEF Start
<1> QED BY <1>1 DEF Queue

LEMMA PublishQueues ==
  ASSUME ProvisioningInv, NEW request \in Requests, Publish(request), inbox' = inbox
  PROVE  Queue' = Queue \/ Queue' = Append(Queue, request)
<1>1. inbox \in Seq(Requests) /\ session \in Seq(Requests)
  BY QueueIsTyped
<1>2. session' = session \/ session' = Append(session, request)
  BY DEF Publish
<1>3. ASSUME session' = Append(session, request)
      PROVE  inbox \o session' = Append(inbox \o session, request)
  <2> DEFINE s == inbox \o session'
             t == Append(inbox \o session, request)
  <2>1. s \in Seq(Requests) /\ t \in Seq(Requests) /\ Len(s) = Len(t)
    BY <1>1, <1>3
  <2>2. \A i \in 1 .. Len(s) : s[i] = t[i]
    BY <1>1, <1>3
  <2> HIDE DEF s, t
  <2>3. s = t
    BY <2>1, <2>2
  <2> QED BY <2>3 DEF s, t
<1> QED BY <1>2, <1>3 DEF Queue

LEMMA StartResends ==
  ASSUME ProvisioningInv, Connection, StartFramework
  PROVE  Queue' = Resent /\ \A t \in Threads : job[t] = Idle
<1>1. ~hasSession
  BY DEF Connection, StartFramework
<1>2. inbox = << >> /\ session = << >> /\ \A t \in Threads : job[t] = Idle
  BY <1>1 DEF Connection
<1>3. PICK n \in 0 .. Len(session) : session' = SubSeq(session, n + 1, Len(session)) \o Resent
  BY DEF StartFramework
<1>4. n = 0 /\ SubSeq(<< >>, 1, 0) = << >>
  BY <1>2, <1>3
<1>5. Resent \in Seq(Requests)
  BY ResentType DEF ProvisioningInv
<1>6. session' = Resent
  BY <1>2, <1>3, <1>4, <1>5
<1>7. inbox' = << >>
  BY <1>2 DEF StartFramework, Connect
<1> QED BY <1>2, <1>5, <1>6, <1>7 DEF Queue

LEMMA JoinedOnce ==
  ASSUME NEW S, NEW s \in Seq(S), NEW t \in Seq(S),
         \A i, j \in 1 .. Len(s) : i # j => s[i] # s[j],
         \A i, j \in 1 .. Len(t) : i # j => t[i] # t[j],
         \A i \in 1 .. Len(s), j \in 1 .. Len(t) : s[i] # t[j]
  PROVE  \A i, j \in 1 .. Len(s \o t) : i # j => (s \o t)[i] # (s \o t)[j]
<1>1. Len(s \o t) = Len(s) + Len(t) /\ Len(s) \in Nat /\ Len(t) \in Nat
  OBVIOUS
<1>2. ASSUME NEW i \in 1 .. Len(s \o t)
      PROVE  \/ i \in 1 .. Len(s) /\ (s \o t)[i] = s[i]
             \/ i - Len(s) \in 1 .. Len(t) /\ (s \o t)[i] = t[i - Len(s)]
  BY <1>1
<1> SUFFICES ASSUME NEW i \in 1 .. Len(s \o t), NEW j \in 1 .. Len(s \o t), i # j
             PROVE  (s \o t)[i] # (s \o t)[j]
  OBVIOUS
<1>3. i \in Int /\ j \in Int /\ (i - Len(s) # j - Len(s))
  BY <1>1
<1> QED BY <1>2, <1>3

(* A subscription brings every retained request once.                        *)
LEMMA ResentOnce ==
  ASSUME BrokerFits
  PROVE  \A i, j \in 1 .. Len(Resent) : i # j => Resent[i] # Resent[j]
<1>1. ASSUME NEW op
      PROVE  /\ RetainedOf(op) \in Seq(retained)
             /\ \A i \in 1 .. Len(RetainedOf(op)) : RetainedOf(op)[i].op = op
             /\ \A i, j \in 1 .. Len(RetainedOf(op)) :
                  i # j => RetainedOf(op)[i] # RetainedOf(op)[j]
  <2> DEFINE S == {r \in retained : r.op = op}
             n == Cardinality(S)
  <2>1. IsFiniteSet(S) /\ S \subseteq retained /\ \A r \in S : r.op = op
    BY FS_Subset DEF BrokerFits
  <2>2. RetainedOf(op) = SetToSeq(S)
    BY DEF RetainedOf
  <2> HIDE DEF S
  <2>3. n \in Nat /\ ExistsBijection(1 .. n, S)
    BY <2>1, FS_CardinalityType
  <2>4. \E f \in [1 .. n -> S] : IsInjective(f)
    BY <2>3 DEF ExistsBijection, Bijection, Injection
  <2>5. SetToSeq(S) \in [1 .. n -> S] /\ IsInjective(SetToSeq(S))
    BY <2>4 DEF SetToSeq
  <2>6. Len(SetToSeq(S)) = n /\ SetToSeq(S) \in Seq(retained)
    BY <2>1, <2>3, <2>5
  <2> QED BY <2>1, <2>2, <2>5, <2>6 DEF IsInjective
<1> DEFINE R == RetainedOf("register")
           D == RetainedOf("devices")
           G == RetainedOf("deregister")
<1>2. /\ R \in Seq(retained) /\ D \in Seq(retained) /\ G \in Seq(retained)
      /\ \A i \in 1 .. Len(R) : R[i].op = "register"
      /\ \A i \in 1 .. Len(D) : D[i].op = "devices"
      /\ \A i \in 1 .. Len(G) : G[i].op = "deregister"
  BY <1>1
<1>3. /\ \A i, j \in 1 .. Len(R) : i # j => R[i] # R[j]
      /\ \A i, j \in 1 .. Len(D) : i # j => D[i] # D[j]
      /\ \A i, j \in 1 .. Len(G) : i # j => G[i] # G[j]
  BY <1>1
<1>4. Resent = R \o D \o G
  BY DEF Resent
<1> HIDE DEF R, D, G
<1>5. \A i, j \in 1 .. Len(R \o D) : i # j => (R \o D)[i] # (R \o D)[j]
  <2>1. \A i \in 1 .. Len(R), j \in 1 .. Len(D) : R[i] # D[j]
    BY <1>2
  <2> QED BY <1>2, <1>3, <2>1, JoinedOnce
<1>6. R \o D \in Seq(retained) /\ \A i \in 1 .. Len(R \o D) : (R \o D)[i].op # "deregister"
  BY <1>2
<1>7. \A i \in 1 .. Len(R \o D), j \in 1 .. Len(G) : (R \o D)[i] # G[j]
  BY <1>2, <1>6
<1> QED BY <1>2, <1>3, <1>4, <1>5, <1>6, <1>7, JoinedOnce

----------------------------------------------------------------------------
(* The agents while nothing fails.                                           *)
LEMMA QuietGrows ==
  ASSUME QuietNext \/ UNCHANGED vars
  PROVE  retained \subseteq retained' /\ responses \subseteq responses'
<1>1. ASSUME NEW a \in Uids, AgentPublishes(a) \/ AgentStep(a)
      PROVE  retained \subseteq retained' /\ responses \subseteq responses'
  BY <1>1 DEF AgentPublishes, AgentStep, Publish, brokerVars, registryVars
<1>2. ASSUME NEW t \in Threads, TaskStep(t) \/ FrameworkAnswers(t)
      PROVE  retained \subseteq retained' /\ responses \subseteq responses'
  BY <1>2 DEF TaskStep, FrameworkAnswers, brokerVars, Start, Create, Save, Get, Update,
              Delete, SendKafka, Respond
<1>3. CASE Deliver \/ StartFramework \/ UNCHANGED vars
  BY <1>3 DEF Deliver, MessageArrived, StartFramework, Connect, vars, brokerVars, registryVars
<1> QED BY <1>1, <1>2, <1>3 DEF QuietNext

LEMMA AnsweredOnce ==
  ASSUME RegistryInv, EnrolledByOne, NEW a
  PROVE  ~AnsweredTwice(a)
<1> SUFFICES ASSUME NEW r \in responses, NEW s \in responses,
                    r.op = "register", r.uid = a, s.op = "register", s.uid = a
             PROVE  r = s
  BY DEF AnsweredTwice
<1>1. [uuid |-> r.uuid, uid |-> a] \in enrolled /\ [uuid |-> s.uuid, uid |-> a] \in enrolled
  BY DEF RegistryInv, AnswersAreEnrolled
<1>2. r.uuid = s.uuid
  BY <1>1 DEF EnrolledByOne
<1>3. r \in [op : {"register"}, uid : Uids, uuid : Nat]
      /\ s \in [op : {"register"}, uid : Uids, uuid : Nat]
  BY DEF RegistryInv, TypeInv, RegistryTypeOK, Responses
<1> QED BY <1>2, <1>3

(* The agent of a uuid, and the identity it is enrolled under.               *)
LEMMA UuidIsEnrolled ==
  ASSUME ProvisioningInv, NEW a \in Uids, myAgent_uuid[a] # 0
  PROVE  [uuid |-> myAgent_uuid[a], uid |-> a] \in enrolled
<1>1. RegistrationOf(a, myAgent_uuid[a]) \in responses
  BY DEF ProvisioningInv, UuidsAreAnswers
<1> QED BY <1>1 DEF RegistrationOf, ProvisioningInv, RegistryInv, AnswersAreEnrolled

LEMMA UuidsAgree ==
  ASSUME ProvisioningInv, ReachInv, SteadyInv, EnrolledByOne, NEW a \in Uids
  PROVE  /\ topics[a] # 0 => myAgent_uuid[a] = topics[a]
         /\ \A b \in Uids : mapUuid[b] # 0 /\ mapUuid[b] = myAgent_uuid[a] => b = a
         /\ \A b \in Uids : myAgent_uuid[b] # 0 /\ myAgent_uuid[b] = myAgent_uuid[a] => b = a
         /\ \A b \in Uids : mapUuid[b] # 0 /\ mapUuid[b] = mapUuid[a] => b = a
<1>1. /\ \A b \in Uids : myAgent_uuid[b] # 0 => RegistrationOf(b, myAgent_uuid[b]) \in responses
      /\ \A b \in Uids : mapUuid[b] # 0 => RegistrationOf(b, mapUuid[b]) \in responses
      /\ topics[a] # 0 => RegistrationOf(a, topics[a]) \in responses
      /\ topics[a] # 0 => myAgent_uuid[a] # 0
  BY DEF ProvisioningInv, UuidsAreAnswers, ReachInv, Reach, SteadyInv, SteadyAgents, Steady
<1>2. RegistryInv /\ NumbersFit /\ ~AnsweredTwice(a)
  BY AnsweredOnce DEF ProvisioningInv, SteadyInv
<1> QED BY <1>1, <1>2, OneAnswer, AnswersMeetOneAgent

LEMMA UuidsStay ==
  ASSUME ProvisioningInv, ReachInv, SteadyInv, EnrolledByOne, QuietNext \/ UNCHANGED vars,
         NEW b \in Uids
  PROVE  /\ myAgent_uuid[b] # 0 => myAgent_uuid'[b] = myAgent_uuid[b]
         /\ mapUuid[b] # 0 => mapUuid'[b] = mapUuid[b]
<1>1. /\ AgentsFit /\ UuidsAreAnswers /\ SteadyAgents /\ RegistryInv
  BY DEF ProvisioningInv, SteadyInv
<1>2. ASSUME NEW a \in Uids, AgentPublishes(a) PROVE UNCHANGED <<myAgent_uuid, mapUuid>>
  BY <1>2 DEF AgentPublishes, Register, RegisterDevices, Deregister, attrVars
<1>3. ASSUME NEW a \in Uids, LocalStep(a)
      PROVE  /\ myAgent_uuid' = myAgent_uuid
             /\ mapUuid[b] # 0 => mapUuid'[b] = mapUuid[b]
  <2>1. \/ UNCHANGED <<myAgent_uuid, mapUuid>>
        \/ /\ pc[a] = "awaitRegistered" /\ mapUuid' = [mapUuid EXCEPT ![a] = myAgent_uuid[a]]
           /\ myAgent_uuid' = myAgent_uuid
    BY <1>3 DEF LocalStep, CreateDeviceMap, DeviceUnreachable, NoTopicsYet, StartSending,
                LookUp, LookUpFails, SignalTooEarly, Close, TimeOut, attrVars
  <2> QED BY <1>1, <2>1 DEF SteadyAgents, Steady, AgentsFit
<1>4. ASSUME NEW a \in Uids, NetworkThread(a)
      PROVE  /\ mapUuid' = mapUuid
             /\ myAgent_uuid[b] # 0 => myAgent_uuid'[b] = myAgent_uuid[b]
  <2>1. /\ mapUuid' = mapUuid
        /\ \/ myAgent_uuid' = myAgent_uuid
           \/ /\ callback[a].at = "setUuid"
              /\ myAgent_uuid' = [myAgent_uuid EXCEPT ![a] = callback[a].uuid]
    BY <1>4 DEF NetworkThread, Reattach, RegistrationResult, SetUuid, SetTopics, DevicesResult,
                SetDeviceFlag, DeregistrationResult, UnknownTopic, Takes, attrVars
  <2>2. ASSUME callback[b].at = "setUuid", myAgent_uuid[b] # 0
        PROVE  callback[b].uuid = myAgent_uuid[b]
    BY <1>1, <2>2, AnsweredOnce, OneAnswer DEF UuidsAreAnswers
  <2> QED BY <1>1, <2>1, <2>2 DEF AgentsFit
<1>5. CASE UNCHANGED agentVars
  BY <1>5 DEF agentVars, attrVars
<1>6. CASE \E t \in Threads : TaskStep(t) \/ FrameworkAnswers(t)
  BY <1>6 DEF TaskStep, FrameworkAnswers, agentVars, attrVars
<1> QED BY <1>2, <1>3, <1>4, <1>5, <1>6 DEF QuietNext, AgentStep, Deliver, StartFramework, vars

(* Which places the main thread comes from; it does not come back from       *)
(* having left.                                                              *)
Beginning == {"start", "awaitRegistered", "mapped"}

LEMMA MainThreadMoves ==
  ASSUME ReachInv, LeavesOnce, QuietNext \/ UNCHANGED vars, NEW b \in Uids
  PROVE  /\ pc'[b] = "start" => pc[b] = "start"
         /\ pc'[b] \in Beginning => pc[b] \in Beginning
         /\ HasLeft(b) => HasLeft(b)'
         /\ pc'[b] = "closed" /\ pc[b] # "closed" => Close(b)
         /\ pc'[b] = "sending" /\ pc[b] # "sending" => StartSending(b)
<1>1. pc \in [Uids -> Places]
  BY DEF ReachInv
<1>2. CASE pc' = pc
  BY <1>2 DEF HasLeft
<1>3. ASSUME NEW a \in Uids, NEW place, pc' = [pc EXCEPT ![a] = place],
             place # "start", ~HasLeft(a) \/ place \in Ended,
             place \in {"awaitRegistered", "mapped"} => pc[a] \in Beginning,
             place = "closed" => Close(a), place = "sending" => StartSending(a)
      PROVE  /\ pc'[b] = "start" => pc[b] = "start"
             /\ pc'[b] \in Beginning => pc[b] \in Beginning
             /\ HasLeft(b) => HasLeft(b)'
             /\ pc'[b] = "closed" /\ pc[b] # "closed" => Close(b)
             /\ pc'[b] = "sending" /\ pc[b] # "sending" => StartSending(b)
  BY <1>1, <1>3 DEF HasLeft, Beginning, Ended
<1>4. ASSUME NEW a \in Uids, AgentPublishes(a)
      PROVE  \E place :
                /\ pc' = [pc EXCEPT ![a] = place] /\ ~HasLeft(a)
                /\ place \in {"awaitRegistered", "awaitDevices", "awaitDeregistered"}
                /\ place = "awaitRegistered" => pc[a] = "start"
  BY <1>4 DEF AgentPublishes, Register, RegisterDevices, Deregister, Move, Leaving, HasLeft,
              LeavesOnce
<1>5. ASSUME NEW a \in Uids, LocalStep(a)
      PROVE  \/ pc' = pc
             \/ pc' = [pc EXCEPT ![a] = "mapped"] /\ pc[a] = "awaitRegistered"
             \/ pc' = [pc EXCEPT ![a] = "sending"] /\ StartSending(a) /\ pc[a] = "awaitDevices"
             \/ pc' = [pc EXCEPT ![a] = "closed"] /\ Close(a)
             \/ \E place \in {"failed", "timedOut"} : pc' = [pc EXCEPT ![a] = place]
  BY <1>5 DEF LocalStep, CreateDeviceMap, DeviceUnreachable, NoTopicsYet, StartSending,
              LookUp, LookUpFails, SignalTooEarly, Close, TimeOut, Move
<1>6. ASSUME NEW a \in Uids, NetworkThread(a) PROVE pc' = pc
  BY <1>6 DEF NetworkThread, Reattach, RegistrationResult, SetUuid, SetTopics, DevicesResult,
              SetDeviceFlag, DeregistrationResult, UnknownTopic, Takes, threadVars
<1>7. CASE \E t \in Threads : TaskStep(t) \/ FrameworkAnswers(t)
  BY <1>2, <1>7 DEF TaskStep, FrameworkAnswers, agentVars, threadVars
<1>8. CASE Deliver \/ StartFramework \/ UNCHANGED vars
  BY <1>2, <1>8 DEF Deliver, StartFramework, vars, agentVars, threadVars
<1>9. ASSUME NEW a \in Uids, AgentPublishes(a) \/ AgentStep(a)
      PROVE  \/ pc' = pc
             \/ \E place : /\ pc' = [pc EXCEPT ![a] = place]
                           /\ place # "start" /\ (~HasLeft(a) \/ place \in Ended)
                           /\ place \in {"awaitRegistered", "mapped"} => pc[a] \in Beginning
                           /\ place = "closed" => Close(a)
                           /\ place = "sending" => StartSending(a)
  <2>1. CASE AgentPublishes(a)
    BY <1>4, <2>1 DEF Beginning
  <2>2. CASE LocalStep(a)
    BY <1>5, <2>2 DEF Beginning, HasLeft, Ended
  <2> QED BY <1>6, <1>9, <2>1, <2>2 DEF AgentStep
<1> QED BY <1>2, <1>3, <1>7, <1>8, <1>9 DEF QuietNext

----------------------------------------------------------------------------
(* Undisturbed, part by part.                                                *)
Calm == ProvisioningInv /\ ReachInv /\ SteadyInv /\ Undisturbed

LEMMA ConnectionStep ==
  ASSUME Calm, QuietNext \/ UNCHANGED vars
  PROVE  Connection'
<1>1. Connection
  BY DEF Calm, Undisturbed
<1>2. ASSUME NEW a \in Uids, AgentPublishes(a) \/ AgentStep(a) PROVE Connection'
  <2>1. /\ UNCHANGED <<hasSession, link, inbox, job, repo, enrolled, responses, kafka>>
        /\ ~hasSession => session' = session
    BY <1>2 DEF AgentPublishes, AgentStep, Publish, registryVars, brokerVars
  <2> QED BY <1>1, <2>1 DEF Connection
<1>3. ASSUME NEW t \in Threads, TaskStep(t) \/ FrameworkAnswers(t) PROVE Connection'
  <2>1. hasSession
    BY <1>1, <1>3 DEF Connection, TaskStep, FrameworkAnswers, Start, Create, Save, Get, Update,
                      Delete, SendKafka, Respond, At, Idle
  <2>2. UNCHANGED <<hasSession, link>>
    BY <1>3 DEF TaskStep, FrameworkAnswers, Start, Create, Save, Get, Update, Delete,
                SendKafka, Respond, brokerVars
  <2> QED BY <1>1, <2>1, <2>2 DEF Connection
<1>4. CASE Deliver
  BY <1>1, <1>4 DEF Connection, Deliver, MessageArrived
<1>5. CASE StartFramework
  BY <1>1, <1>5 DEF Connection, StartFramework, Connect
<1>6. CASE UNCHANGED vars
  BY <1>1, <1>6 DEF Connection, vars, registryVars, brokerVars
<1> QED BY <1>2, <1>3, <1>4, <1>5, <1>6 DEF QuietNext

(* No agent publishes a request a second time, but for the device list       *)
(* without a uuid, which is not served.                                      *)
LEMMA RequestsAreFresh ==
  ASSUME Calm, LeavesOnce, NEW a \in Uids, AgentPublishes(a)
  PROVE  \E request \in Requests :
            /\ Publish(request)
            /\ Decodes(request) => request \notin retained
            /\ \/ Register(a) /\ request = RegistrationRequest(a)
               \/ RegisterDevices(a) /\ request = DevicesRequest(a)
               \/ /\ Deregister(a) /\ request = DeregistrationRequest(a)
                  /\ myAgent_uuid[a] # 0 /\ ~HasLeft(a)
<1>1. /\ AgentsFit /\ PublishedInTime /\ EnrolledByOne
      /\ ProvisioningInv /\ ReachInv /\ SteadyInv
  BY DEF Calm, Undisturbed, ProvisioningInv
<1>2. CASE Register(a) /\ Publish(RegistrationRequest(a))
  <2>1. RegistrationRequest(a) \in Requests
    BY DEF RegistrationRequest, Requests
  <2>2. RegistrationRequest(a) \notin retained
    BY <1>1, <1>2 DEF PublishedInTime, RegistrationRequest, Register
  <2> QED BY <1>2, <2>1, <2>2
<1>3. CASE RegisterDevices(a) /\ Publish(DevicesRequest(a))
  <2>1. DevicesRequest(a) \in Requests
    BY <1>1 DEF DevicesRequest, Requests, AgentsFit
  <2>2. ASSUME mapUuid[a] # 0, DevicesRequest(a) \in retained PROVE FALSE
    <3>1. DevicesRequest(a).op = "devices" /\ DevicesRequest(a).uuid = mapUuid[a]
      BY DEF DevicesRequest
    <3>2. PICK b \in Uids : mapUuid[b] = mapUuid[a] /\ pc[b] # "mapped"
      BY <1>1, <2>2, <3>1 DEF PublishedInTime
    <3> QED BY <1>1, <1>3, <2>2, <3>2, UuidsAgree DEF RegisterDevices
  <2>3. Decodes(DevicesRequest(a)) => DevicesRequest(a) \notin retained
    BY <2>2 DEF Decodes, DevicesRequest
  <2> QED BY <1>3, <2>1, <2>3
<1>4. CASE Deregister(a) /\ Publish(DeregistrationRequest(a))
  <2>1. DeregistrationRequest(a) \in Requests
    BY <1>1 DEF DeregistrationRequest, Requests, AgentsFit
  <2>2. myAgent_uuid[a] # 0
    BY <1>1, <1>4 DEF Deregister, SteadyInv, SteadyAgents, Steady
  <2>3. ~HasLeft(a)
    BY <1>4 DEF Deregister, Leaving, LeavesOnce, HasLeft
  <2>4. ASSUME DeregistrationRequest(a) \in retained PROVE FALSE
    <3>1. /\ DeregistrationRequest(a).op = "deregister"
          /\ DeregistrationRequest(a).uuid = myAgent_uuid[a]
      BY DEF DeregistrationRequest
    <3>2. PICK b \in Uids : myAgent_uuid[b] = myAgent_uuid[a] /\ HasLeft(b)
      BY <1>1, <2>4, <3>1 DEF PublishedInTime
    <3> QED BY <1>1, <2>2, <2>3, <3>2, UuidsAgree
  <2> QED BY <1>4, <2>1, <2>2, <2>3, <2>4
<1> QED BY <1>2, <1>3, <1>4 DEF AgentPublishes

LEMMA PublishedInTimeStep ==
  ASSUME Calm, LeavesOnce, QuietNext \/ UNCHANGED vars
  PROVE  PublishedInTime'
<1> DEFINE InTime(r) ==
             /\ r.op = "register" => pc[r.uid] # "start"
             /\ r.op = "devices" /\ r.uuid # 0 => \E a \in Uids :
                  mapUuid[a] = r.uuid /\ pc[a] \notin {"start", "awaitRegistered", "mapped"}
             /\ r.op = "deregister" => \E a \in Uids :
                  r.uuid # 0 /\ myAgent_uuid[a] = r.uuid /\ HasLeft(a)
<1>1. /\ AgentsFit /\ PublishedInTime /\ EnrolledByOne /\ retained \subseteq Requests
      /\ ProvisioningInv /\ ReachInv /\ SteadyInv /\ pc \in [Uids -> Places]
  BY DEF Calm, Undisturbed, ProvisioningInv, BrokerFits, ReachInv
<1>2. ASSUME NEW r \in retained PROVE InTime(r)'
  <2>1. InTime(r)
    BY <1>1 DEF PublishedInTime
  <2>2. r.op = "register" => r.uid \in Uids
    BY <1>1 DEF Requests
  <2>3. r.op = "register" => pc'[r.uid] # "start"
    BY <1>1, <2>1, <2>2, MainThreadMoves
  <2>4. ASSUME r.op = "devices", r.uuid # 0
        PROVE  \E a \in Uids : mapUuid'[a] = r.uuid
                               /\ pc'[a] \notin {"start", "awaitRegistered", "mapped"}
    BY <1>1, <2>1, <2>4, UuidsStay, MainThreadMoves DEF Beginning
  <2>5. ASSUME r.op = "deregister"
        PROVE  \E a \in Uids : r.uuid # 0 /\ myAgent_uuid'[a] = r.uuid /\ HasLeft(a)'
    BY <1>1, <2>1, <2>5, UuidsStay, MainThreadMoves
  <2> QED BY <2>3, <2>4, <2>5
<1>3. ASSUME retained' = retained PROVE PublishedInTime'
  BY <1>2, <1>3 DEF PublishedInTime
<1>4. ASSUME NEW a \in Uids, AgentPublishes(a) PROVE PublishedInTime'
  <2>1. PICK request \in Requests :
            /\ Publish(request)
            /\ \/ Register(a) /\ request = RegistrationRequest(a)
               \/ RegisterDevices(a) /\ request = DevicesRequest(a)
               \/ /\ Deregister(a) /\ request = DeregistrationRequest(a)
                  /\ myAgent_uuid[a] # 0 /\ ~HasLeft(a)
    BY <1>4, RequestsAreFresh
  <2>2. InTime(request)'
    <3>1. CASE Register(a) /\ request = RegistrationRequest(a)
      BY <1>1, <3>1 DEF Register, RegistrationRequest, Move
    <3>2. CASE RegisterDevices(a) /\ request = DevicesRequest(a)
      <4>1. pc'[a] = "awaitDevices" /\ mapUuid' = mapUuid
        BY <1>1, <3>2 DEF RegisterDevices, Move, attrVars
      <4> QED BY <3>2, <4>1 DEF DevicesRequest
    <3>3. CASE /\ Deregister(a) /\ request = DeregistrationRequest(a)
               /\ myAgent_uuid[a] # 0
      <4>1. pc'[a] = "awaitDeregistered" /\ myAgent_uuid' = myAgent_uuid
        BY <1>1, <3>3 DEF Deregister, Move, attrVars
      <4> QED BY <3>3, <4>1 DEF DeregistrationRequest, HasLeft
    <3> QED BY <2>1, <3>1, <3>2, <3>3
  <2>3. retained' = retained \cup {request}
    BY <2>1 DEF Publish
  <2> HIDE DEF InTime
  <2>4. \A r \in retained' : InTime(r)'
    BY <1>2, <2>2, <2>3
  <2> QED BY <2>4 DEF PublishedInTime, InTime
<1>5. CASE \E a \in Uids : AgentStep(a)
  BY <1>3, <1>5 DEF AgentStep, brokerVars
<1>6. CASE \E t \in Threads : TaskStep(t) \/ FrameworkAnswers(t)
  BY <1>3, <1>6 DEF TaskStep, FrameworkAnswers, brokerVars
<1>7. CASE Deliver \/ StartFramework \/ UNCHANGED vars
  BY <1>3, <1>7 DEF Deliver, StartFramework, vars, brokerVars
<1> QED BY <1>4, <1>5, <1>6, <1>7 DEF QuietNext

(* The steps as the requests see them: one is published, the first of the    *)
(* queue is taken up, all are there again as the framework starts, or a task *)
(* goes on.                                                                  *)
QueueMoves ==
    \/ \E request \in Requests :
         /\ Decodes(request) => request \notin retained
         /\ retained' = retained \cup {request} /\ job' = job
         /\ Queue' = Queue \/ Queue' = Append(Queue, request)
    \/ /\ Queue' = Queue /\ retained' = retained
       /\ \/ job' = job
          \/ \E t \in Threads : TaskGoesOn(t)
    \/ \E t \in Threads :
         /\ Queue # << >> /\ Queue' = Tail(Queue) /\ retained' = retained
         /\ \A u \in Threads \ {t} : job'[u] = job[u]
         /\ \/ job'[t] = Idle
            \/ Decodes(Queue[1]) /\ job'[t] # Idle /\ job'[t].request = Queue[1]
    \/ /\ ~hasSession /\ Queue = << >> /\ \A t \in Threads : job[t] = Idle
       /\ Queue' = Resent /\ retained' = retained /\ job' = job

LEMMA QueueStep ==
  ASSUME Calm, LeavesOnce, QuietNext \/ UNCHANGED vars
  PROVE  QueueMoves
<1>1. ProvisioningInv /\ RegistryInv /\ Connection
  BY DEF Calm, Undisturbed, ProvisioningInv
<1>2. ASSUME UNCHANGED <<inbox, session, retained, job>> PROVE QueueMoves
  BY <1>2 DEF QueueMoves, Queue
<1>3. ASSUME NEW a \in Uids, AgentPublishes(a) PROVE QueueMoves
  <2>1. PICK request \in Requests :
            Publish(request) /\ (Decodes(request) => request \notin retained)
    BY <1>3, RequestsAreFresh
  <2>2. inbox' = inbox /\ job' = job
    BY <1>3 DEF AgentPublishes, registryVars
  <2>3. Queue' = Queue \/ Queue' = Append(Queue, request)
    BY <1>1, <2>1, <2>2, PublishQueues
  <2> QED BY <2>1, <2>2, <2>3 DEF QueueMoves, Publish
<1>4. CASE \E a \in Uids : AgentStep(a)
  BY <1>2, <1>4 DEF AgentStep, registryVars, brokerVars
<1>5. ASSUME NEW t \in Threads, TaskGoesOn(t), UNCHANGED <<session, retained>>
      PROVE  QueueMoves
  BY <1>5 DEF QueueMoves, Queue, TaskGoesOn
<1>6. ASSUME NEW t \in Threads, Start(t), UNCHANGED <<session, retained>>
      PROVE  QueueMoves
  <2>1. /\ \A u \in Threads \ {t} : job'[u] = job[u]
        /\ \/ job'[t] = Idle
           \/ /\ Decodes(Head(inbox))
              /\ job'[t] # Idle /\ job'[t].request = Head(inbox)
    BY <1>1, <1>6, TaskBegins
  <2>2. Queue # << >> /\ Head(inbox) = Queue[1] /\ Queue' = Tail(Queue)
    BY <1>1, <1>6, TaskTakesFirst
  <2> QED BY <1>6, <2>1, <2>2 DEF QueueMoves
<1>7. ASSUME NEW t \in Threads, TaskStep(t) PROVE QueueMoves
  <2>1. UNCHANGED <<session, retained>>
    BY <1>7 DEF TaskStep, brokerVars
  <2>2. Start(t) \/ TaskGoesOn(t)
    BY <1>1, <1>7, TaskCreates, TaskSaves, TaskGets, TaskUpdates, TaskDeletes, TaskSends
    DEF TaskStep
  <2> QED BY <1>5, <1>6, <2>1, <2>2
<1>8. ASSUME NEW t \in Threads, FrameworkAnswers(t) PROVE QueueMoves
  BY <1>1, <1>5, <1>8, TaskResponds DEF FrameworkAnswers, brokerVars
<1>9. CASE Deliver
  <2>1. retained' = retained /\ job' = job
    BY <1>9 DEF Deliver, MessageArrived
  <2> QED BY <1>1, <1>9, <2>1, DeliverKeepsQueue DEF QueueMoves
<1>10. CASE StartFramework
  <2>1. Queue = << >> /\ ~hasSession
    BY <1>1, <1>10 DEF StartFramework, Connection, Queue
  <2>2. retained' = retained /\ job' = job
    BY <1>10 DEF StartFramework, Connect
  <2> QED BY <1>1, <1>10, <2>1, <2>2, StartResends DEF QueueMoves
<1>11. CASE UNCHANGED vars
  BY <1>2, <1>11 DEF vars, registryVars, brokerVars
<1> QED BY <1>3, <1>4, <1>7, <1>8, <1>9, <1>10, <1>11 DEF QuietNext

LEMMA OnlyOnceStep ==
  ASSUME Calm, LeavesOnce, QuietNext \/ UNCHANGED vars
  PROVE  OnlyOnce'
<1>1. /\ OnlyOnce /\ BrokerFits /\ QueueMoves /\ Queue \in Seq(Requests)
  BY QueueStep, QueueIsTyped DEF Calm, Undisturbed, ProvisioningInv
<1>2. ASSUME NEW request \in Requests, Decodes(request) => request \notin retained,
             retained' = retained \cup {request}, job' = job,
             Queue' = Queue \/ Queue' = Append(Queue, request)
      PROVE  OnlyOnce'
  <2>1. ASSUME NEW i \in 1 .. Len(Queue')
        PROVE  \/ i \in 1 .. Len(Queue) /\ Queue'[i] = Queue[i]
               \/ i = Len(Queue) + 1 /\ Queue'[i] = request
    BY <1>1, <1>2
  <2>2. \A i \in 1 .. Len(Queue') : Queue'[i] \in retained'
    BY <1>1, <1>2, <2>1 DEF OnlyOnce
  <2>3. ASSUME NEW i \in 1 .. Len(Queue'), NEW j \in 1 .. Len(Queue'), i # j,
               Decodes(Queue'[i])
        PROVE  Queue'[i] # Queue'[j]
    BY <1>1, <1>2, <2>1, <2>3 DEF OnlyOnce
  <2>4. ASSUME NEW t \in Threads, job[t] # Idle PROVE ~Queued(job[t].request)'
    <3>1. job[t].request \in retained /\ Decodes(job[t].request) /\ ~Queued(job[t].request)
      BY <1>1, <2>4 DEF OnlyOnce
    <3>2. \A i \in 1 .. Len(Queue') : Queue'[i] # job[t].request
      BY <1>2, <2>1, <3>1 DEF Queued
    <3> QED BY <1>2, <3>2 DEF Queued
  <2>5. \A i, j \in 1 .. Len(Queue') : i # j /\ Decodes(Queue'[i]) => Queue'[i] # Queue'[j]
    BY <2>3
  <2> QED BY <1>1, <1>2, <2>2, <2>4, <2>5 DEF OnlyOnce, Does, Decodes
<1>3. ASSUME Queue' = Queue, retained' = retained, job' = job PROVE OnlyOnce'
  BY <1>1, <1>3 DEF OnlyOnce, Queued, Does, Decodes
<1>4. ASSUME NEW t \in Threads, TaskGoesOn(t), Queue' = Queue, retained' = retained
      PROVE  OnlyOnce'
  <2>1. \A u \in Threads : job'[u] # Idle => job[u] # Idle /\ job'[u].request = job[u].request
    BY <1>4 DEF TaskGoesOn
  <2> QED BY <1>1, <1>4, <2>1 DEF OnlyOnce, Queued, Does, Decodes
<1>5. ASSUME NEW t \in Threads, Queue # << >>, Queue' = Tail(Queue), retained' = retained,
             \A u \in Threads \ {t} : job'[u] = job[u],
             \/ job'[t] = Idle
             \/ Decodes(Queue[1]) /\ job'[t] # Idle /\ job'[t].request = Queue[1]
      PROVE  OnlyOnce'
  <2>1. ASSUME NEW i \in 1 .. Len(Queue')
        PROVE  i + 1 \in 1 .. Len(Queue) /\ Queue'[i] = Queue[i + 1] /\ i + 1 # 1
    BY <1>1, <1>5
  <2>2. 1 \in 1 .. Len(Queue)
    BY <1>1, <1>5
  <2>3. \A i \in 1 .. Len(Queue') : Queue'[i] \in retained'
    BY <1>1, <1>5, <2>1 DEF OnlyOnce
  <2>4. ASSUME NEW i \in 1 .. Len(Queue'), NEW j \in 1 .. Len(Queue'), i # j,
               Decodes(Queue'[i])
        PROVE  Queue'[i] # Queue'[j]
    <3>1. i + 1 # j + 1
      BY <2>4
    <3> QED BY <1>1, <2>1, <2>4, <3>1 DEF OnlyOnce
  <2>5. ASSUME Decodes(Queue[1]) PROVE \A i \in 1 .. Len(Queue') : Queue'[i] # Queue[1]
    BY <1>1, <2>1, <2>2, <2>5 DEF OnlyOnce
  <2>6. ASSUME NEW u \in Threads, job'[u] # Idle
        PROVE  /\ job'[u].request \in retained'
               /\ Decodes(job'[u].request)
               /\ \A i \in 1 .. Len(Queue') : Queue'[i] # job'[u].request
               /\ \A v \in Threads : job'[v] # Idle /\ job'[v].request = job'[u].request => v = u
    <3>1. ASSUME NEW v \in Threads, v # t, job[v] # Idle
          PROVE  /\ job[v].request \in retained /\ Decodes(job[v].request)
                 /\ job[v].request # Queue[1]
                 /\ \A i \in 1 .. Len(Queue) : Queue[i] # job[v].request
      BY <1>1, <2>2, <3>1 DEF OnlyOnce, Queued
    <3>2. CASE u = t
      BY <1>1, <1>5, <2>2, <2>5, <2>6, <3>1, <3>2 DEF OnlyOnce
    <3>3. CASE u # t
      BY <1>1, <1>5, <2>1, <2>6, <3>1, <3>3 DEF OnlyOnce, Does
    <3> QED BY <3>2, <3>3
  <2>7. \A i, j \in 1 .. Len(Queue') : i # j /\ Decodes(Queue'[i]) => Queue'[i] # Queue'[j]
    BY <2>4
  <2> QED BY <2>3, <2>6, <2>7 DEF OnlyOnce, Queued, Does, Decodes
<1>6. ASSUME \A t \in Threads : job[t] = Idle, Queue' = Resent, retained' = retained, job' = job
      PROVE  OnlyOnce'
  <2>1. Resent \in Seq(retained) /\ \A i, j \in 1 .. Len(Resent) : i # j => Resent[i] # Resent[j]
    BY <1>1, ResentRetained, ResentOnce
  <2>2. \A i \in 1 .. Len(Resent) : Resent[i] \in retained
    BY <2>1
  <2> QED BY <1>6, <2>1, <2>2 DEF OnlyOnce
<1> QED BY <1>1, <1>2, <1>3, <1>4, <1>5, <1>6 DEF QueueMoves

(* A request that has been taken up does not come back: the framework has    *)
(* subscribed by then, and does so once.                                     *)
LEMMA ServedForGood ==
  ASSUME Calm, LeavesOnce, QuietNext \/ UNCHANGED vars,
         hasSession, NEW r \in retained, Decodes(r), ~Queued(r)
  PROVE  /\ r \in retained' /\ ~Queued(r)'
         /\ \A t \in Threads : Does(t, r)' => Does(t, r)
<1>1. QueueMoves /\ Queue \in Seq(Requests) /\ BrokerFits
  BY QueueStep, QueueIsTyped DEF Calm, ProvisioningInv
<1>2. \A i \in 1 .. Len(Queue) : Queue[i] # r
  BY DEF Queued
<1>3. ASSUME NEW request \in Requests, Decodes(request) => request \notin retained,
             retained' = retained \cup {request}, job' = job,
             Queue' = Queue \/ Queue' = Append(Queue, request)
      PROVE  r \in retained' /\ ~Queued(r)' /\ \A t \in Threads : Does(t, r)' => Does(t, r)
  <2>1. \A i \in 1 .. Len(Queue') : Queue'[i] = request \/ \E j \in 1 .. Len(Queue) : Queue'[i] = Queue[j]
    BY <1>1, <1>3
  <2>2. request # r
    BY <1>3
  <2> QED BY <1>2, <1>3, <2>1, <2>2 DEF Queued, Does
<1>4. ASSUME Queue' = Queue, retained' = retained,
             job' = job \/ \E t \in Threads : TaskGoesOn(t)
      PROVE  r \in retained' /\ ~Queued(r)' /\ \A t \in Threads : Does(t, r)' => Does(t, r)
  BY <1>4 DEF Queued, Does, TaskGoesOn
<1>5. ASSUME NEW t \in Threads, Queue # << >>, Queue' = Tail(Queue), retained' = retained,
             \A u \in Threads \ {t} : job'[u] = job[u],
             job'[t] = Idle \/ job'[t].request = Queue[1]
      PROVE  r \in retained' /\ ~Queued(r)' /\ \A u \in Threads : Does(u, r)' => Does(u, r)
  <2>1. 1 \in 1 .. Len(Queue)
        /\ \A i \in 1 .. Len(Queue') : \E j \in 1 .. Len(Queue) : Queue'[i] = Queue[j]
    BY <1>1, <1>5
  <2> QED BY <1>2, <1>5, <2>1 DEF Queued, Does
<1> QED BY <1>1, <1>3, <1>4, <1>5 DEF QueueMoves

(* The repository and what is sent change only as a thread takes a step.     *)
ThreadActs(t) ==
    \/ Start(t) \/ Create(t) \/ Save(t) \/ Get(t) \/ Update(t) \/ Delete(t)
    \/ Respond(t) \/ SendKafka(t)

LEMMA OnlyThreadsAct ==
  ASSUME QuietNext \/ UNCHANGED vars
  PROVE  \/ \E t \in Threads : ThreadActs(t)
         \/ UNCHANGED <<job, repo, responses, kafka, enrolled>>
<1>1. CASE \E a \in Uids : AgentPublishes(a) \/ AgentStep(a)
  BY <1>1 DEF AgentPublishes, AgentStep, registryVars
<1>2. CASE \E t \in Threads : TaskStep(t) \/ FrameworkAnswers(t)
  BY <1>2 DEF TaskStep, FrameworkAnswers, ThreadActs
<1>3. CASE Deliver \/ StartFramework \/ UNCHANGED vars
  BY <1>3 DEF Deliver, MessageArrived, StartFramework, Connect, vars, registryVars
<1> QED BY <1>1, <1>2, <1>3 DEF QuietNext

(* What holds of the task of a thread that acts.                             *)
LEMMA ActingThread ==
  ASSUME Calm, NEW t \in Threads, job[t] # Idle
  PROVE  /\ job[t].request \in retained /\ Decodes(job[t].request)
         /\ ~Queued(job[t].request)
         /\ \A u \in Threads : Does(u, job[t].request) => u = t
         /\ job[t] \in Jobs /\ job[t].request \in Requests
         /\ Op(t) = "register" => job[t].request = RegistrationRequest(job[t].request.uid)
         /\ Op(t) # "register" => /\ job[t].request = Ask(Op(t), job[t].request.uuid)
                                  /\ job[t].request.uuid # 0
         /\ hasSession
<1>1. OnlyOnce /\ Connection /\ job \in [Threads -> Jobs \cup {Idle}]
  BY QueueIsTyped DEF Calm, Undisturbed
<1>2. job[t] \in Jobs /\ job[t].request \in Requests
  BY <1>1 DEF Jobs
<1>3. Op(t) = "register" => job[t].request = RegistrationRequest(job[t].request.uid)
  BY <1>2 DEF Requests, Op, RegistrationRequest
<1>4. Op(t) # "register" => job[t].request = Ask(Op(t), job[t].request.uuid)
  BY <1>2 DEF Requests, Op, Ask
<1> QED BY <1>1, <1>2, <1>3, <1>4 DEF OnlyOnce, Connection, Decodes, Op

LEMMA EnrolledByOneStep ==
  ASSUME Calm, LeavesOnce, QuietNext \/ UNCHANGED vars
  PROVE  EnrolledByOne'
<1>1. /\ EnrolledByOne /\ Connection /\ OnlyOnce /\ RegistryInv
      /\ \A t \in Threads : job[t] # Idle => job[t] \in Jobs
  BY ActingThread DEF Calm, Undisturbed, ProvisioningInv
<1> DEFINE TakenUp(uid) == /\ RegistrationRequest(uid) \in retained
                           /\ ~Queued(RegistrationRequest(uid))
<1>2. ASSUME NEW uid, hasSession, TakenUp(uid)
      PROVE  /\ TakenUp(uid)'
             /\ \A t \in Threads : Does(t, RegistrationRequest(uid))' =>
                  Does(t, RegistrationRequest(uid))
  <2>1. Decodes(RegistrationRequest(uid))
    BY DEF Decodes, RegistrationRequest
  <2> QED BY <1>2, <2>1, ServedForGood
<1>3. ASSUME NEW e \in enrolled
      PROVE  /\ TakenUp(e.uid)'
             /\ \A t \in Threads : Does(t, RegistrationRequest(e.uid))' => At(t, "respond")'
  <2>1. hasSession /\ TakenUp(e.uid)
    BY <1>1 DEF EnrolledByOne, Connection
  <2>2. ASSUME NEW t \in Threads, Does(t, RegistrationRequest(e.uid))' PROVE At(t, "respond")'
    <3>1. At(t, "respond") /\ Op(t) = "register" /\ job'[t] # Idle
      BY <1>1, <1>2, <2>1, <2>2 DEF EnrolledByOne, Does, Op, RegistrationRequest
    <3>2. ASSUME NEW u \in Threads, ThreadActs(u) PROVE job'[t] = job[t]
      <4>1. CASE Start(u)
        BY <1>1, <3>1, <4>1, TaskBegins DEF At, Idle
      <4>2. CASE Respond(u)
        BY <1>1, <3>1, <4>2, TaskResponds DEF TaskGoesOn
      <4>3. CASE ~Start(u) /\ ~Respond(u)
        BY <1>1, <3>1, <3>2, <4>3, TaskCreates, TaskSaves, TaskGets, TaskUpdates, TaskDeletes,
           TaskSends
        DEF ThreadActs, TaskGoesOn, At
      <4> QED BY <4>1, <4>2, <4>3
    <3> QED BY <3>1, <3>2, OnlyThreadsAct DEF At
  <2> QED BY <1>2, <2>1, <2>2
<1>4. ASSUME NEW r \in responses, r.op = "register"
      PROVE  \A t \in Threads : ~Does(t, RegistrationRequest(r.uid))'
  <2>1. [uuid |-> r.uuid, uid |-> r.uid] \in enrolled
    BY <1>1, <1>4 DEF RegistryInv, AnswersAreEnrolled
  <2>2. hasSession /\ TakenUp(r.uid)
    BY <1>1, <2>1 DEF EnrolledByOne, Connection
  <2> QED BY <1>1, <1>2, <1>4, <2>2 DEF EnrolledByOne
<1>5. ASSUME UNCHANGED <<enrolled, responses>>,
             \A t \in Threads : At(t, "save")' =>
                (At(t, "save") /\ job'[t] = job[t]) \/ job'[t].agent.devices = 0
      PROVE  EnrolledByOne'
  BY <1>1, <1>3, <1>4, <1>5 DEF EnrolledByOne
<1>6. ASSUME NEW t \in Threads, ThreadActs(t), ~Save(t), ~Respond(t) PROVE EnrolledByOne'
  <2>1. /\ UNCHANGED <<enrolled, responses>>
        /\ \A u \in Threads \ {t} : job'[u] = job[u]
        /\ At(t, "save")' => job'[t].agent.devices = 0
    <3>1. CASE Start(t)
      BY <1>1, <3>1, TaskBegins DEF At, Idle
    <3>2. CASE Create(t)
      BY <1>1, <3>2, TaskCreates DEF TaskGoesOn
    <3>3. CASE Get(t)
      BY <1>1, <3>3, TaskGets DEF TaskGoesOn, At, Idle
    <3>4. CASE Update(t) \/ Delete(t) \/ SendKafka(t)
      BY <1>1, <3>4, TaskUpdates, TaskDeletes, TaskSends DEF TaskGoesOn, At, Idle
    <3> QED BY <1>6, <3>1, <3>2, <3>3, <3>4 DEF ThreadActs
  <2> QED BY <1>5, <2>1 DEF At
<1>7. ASSUME NEW t \in Threads, Save(t) PROVE EnrolledByOne'
  <2>1. PICK x : x = job[t].agent
    OBVIOUS
  <2>2. /\ TaskGoesOn(t) /\ Op(t) = "register" /\ At(t, "save")
        /\ job'[t].step = "respond" /\ job'[t].request = job[t].request
        /\ enrolled' = enrolled \cup {Identity(x)} /\ responses' = responses
        /\ job[t].request = RegistrationRequest(x.uid)
    BY <1>1, <1>7, <2>1, TaskSaves
  <2>3. TakenUp(x.uid) /\ hasSession /\ \A u \in Threads : Does(u, RegistrationRequest(x.uid)) => u = t
    BY <2>2, ActingThread DEF TaskGoesOn
  <2>4. /\ TakenUp(x.uid)'
        /\ \A u \in Threads : Does(u, RegistrationRequest(x.uid))' => At(u, "respond")'
    BY <1>2, <2>2, <2>3 DEF At
  <2>5. ASSUME NEW e \in enrolled PROVE e.uid # x.uid
    <3>1. Does(t, RegistrationRequest(x.uid))
      BY <2>2 DEF Does, TaskGoesOn
    <3> QED BY <1>1, <2>2, <3>1 DEF EnrolledByOne, At
  <2>6. Identity(x).uid = x.uid
    BY DEF Identity
  <2>7. \A e, f \in enrolled' : e.uid = f.uid => e = f
    BY <1>1, <2>2, <2>5, <2>6 DEF EnrolledByOne
  <2>8. ASSUME NEW e \in enrolled'
        PROVE  /\ TakenUp(e.uid)'
               /\ \A u \in Threads : Does(u, RegistrationRequest(e.uid))' => At(u, "respond")'
    BY <1>3, <2>2, <2>4, <2>6
  <2>9. \A u \in Threads : At(u, "save")' => job'[u].agent.devices = 0
    BY <1>1, <2>2 DEF EnrolledByOne, TaskGoesOn, At
  <2> QED BY <1>4, <2>2, <2>7, <2>8, <2>9 DEF EnrolledByOne
<1>8. ASSUME NEW t \in Threads, Respond(t) PROVE EnrolledByOne'
  <2>1. /\ TaskGoesOn(t) /\ responses' = responses \cup {Response(t)} /\ enrolled' = enrolled
        /\ Op(t) = "register" => job'[t] = Idle
        /\ Op(t) # "register" => job'[t].step = "kafka"
    BY <1>1, <1>8, TaskResponds
  <2>2. PICK r : r = Response(t)
    OBVIOUS
  <2>3. ASSUME r.op = "register"
        PROVE  \A u \in Threads : ~Does(u, RegistrationRequest(r.uid))'
    <3>1. Op(t) = "register" /\ r.uid = job[t].request.uid
      <4>1. job[t].request \in Requests
        BY <2>1, ActingThread DEF TaskGoesOn
      <4> QED BY <2>2, <2>3, <4>1 DEF Response, Op, Requests
    <3>2. /\ job[t].request = RegistrationRequest(r.uid)
          /\ \A u \in Threads : Does(u, RegistrationRequest(r.uid)) => u = t
      BY <2>1, <3>1, ActingThread DEF TaskGoesOn
    <3> QED BY <2>1, <3>1, <3>2 DEF TaskGoesOn, Does
  <2>4. \A u \in Threads : At(u, "save")' => job'[u].agent.devices = 0
    BY <1>1, <2>1 DEF EnrolledByOne, TaskGoesOn, At, Idle
  <2>5. \A s \in responses' : s.op = "register" =>
            \A u \in Threads : ~Does(u, RegistrationRequest(s.uid))'
    BY <1>4, <2>1, <2>2, <2>3
  <2> QED BY <1>1, <1>3, <2>1, <2>4, <2>5 DEF EnrolledByOne
<1> QED BY <1>5, <1>6, <1>7, <1>8, OnlyThreadsAct DEF At

(* The same for the requests that name a uuid.                               *)
LEMMA AskedForGood ==
  ASSUME Calm, LeavesOnce, QuietNext \/ UNCHANGED vars, hasSession, NEW op, NEW uuid, uuid # 0,
         Ask(op, uuid) \in retained, ~Queued(Ask(op, uuid))
  PROVE  /\ Ask(op, uuid) \in retained' /\ ~Queued(Ask(op, uuid))'
         /\ \A t \in Threads : Does(t, Ask(op, uuid))' => Does(t, Ask(op, uuid))
<1>1. Decodes(Ask(op, uuid))
  BY DEF Decodes, Ask
<1> QED BY <1>1, ServedForGood

LEMMA AskIsUnique ==
  ASSUME NEW op, NEW uuid PROVE Ask(op, uuid).op = op /\ Ask(op, uuid).uuid = uuid
BY DEF Ask

(* A task whose repository call is done answers, announces and ends.         *)
LEMMA LateTask ==
  ASSUME RegistryInv, QuietNext \/ UNCHANGED vars, NEW t \in Threads,
         job[t].step \in {"respond", "kafka"}
  PROVE  \/ job'[t] = job[t]
         \/ Respond(t) /\ Op(t) = "register" /\ job'[t] = Idle
         \/ /\ Respond(t) /\ Op(t) # "register" /\ At(t, "respond") /\ job'[t].step = "kafka"
            /\ job'[t].request = job[t].request
            /\ job'[t].agent = job[t].agent /\ job'[t].success = job[t].success
         \/ SendKafka(t) /\ At(t, "kafka") /\ job'[t] = Idle
<1>1. ASSUME NEW u \in Threads \ {t}, ThreadActs(u) PROVE job'[t] = job[t]
  BY <1>1, TaskBegins, TaskCreates, TaskSaves, TaskGets, TaskUpdates, TaskDeletes, TaskResponds,
     TaskSends
  DEF ThreadActs, TaskGoesOn
<1>2. ASSUME ThreadActs(t) PROVE Respond(t) \/ SendKafka(t)
  BY <1>2 DEF ThreadActs, Start, Create, Save, Get, Update, Delete, At, Idle
<1> QED BY <1>1, <1>2, OnlyThreadsAct, TaskResponds, TaskSends

LEMMA RepositoryMoves ==
  ASSUME RegistryInv, QuietNext \/ UNCHANGED vars
  PROVE  \/ repo' = repo /\ enrolled' = enrolled
         \/ \E t \in Threads : Save(t) \/ Update(t) \/ Delete(t)
BY OnlyThreadsAct, TaskBegins, TaskCreates, TaskGets, TaskResponds, TaskSends DEF ThreadActs

LEMMA AnswersMove ==
  ASSUME RegistryInv, QuietNext \/ UNCHANGED vars
  PROVE  responses' = responses \/ \E t \in Threads : Respond(t)
BY OnlyThreadsAct, TaskBegins, TaskCreates, TaskSaves, TaskGets, TaskUpdates, TaskDeletes,
   TaskSends
DEF ThreadActs

(* An entry and an answer are there only once the framework has started, and *)
(* under a number that is a uuid.                                            *)
LEMMA EntriesAreNumbered ==
  ASSUME Calm
  PROVE  /\ \A x \in repo : x.uuid # 0 /\ hasSession /\ x \in Agents /\ Identity(x) \in enrolled
         /\ \A r \in responses : hasSession /\ (r.op = "devices" => r.uuid # 0)
<1>1. /\ NumbersFit /\ Connection /\ repo \subseteq Agents
      /\ \A x \in repo : Identity(x) \in enrolled
  BY DEF Calm, SteadyInv, Undisturbed, ProvisioningInv, RegistryInv, RepositoryIsEnrolled,
         TypeInv, RegistryTypeOK
<1>2. \A x \in repo : x.uuid # 0
  BY <1>1 DEF NumbersFit, Identity
<1> QED BY <1>1, <1>2 DEF NumbersFit, Connection

LEMMA EquippedByOneStep ==
  ASSUME Calm, LeavesOnce, QuietNext \/ UNCHANGED vars
  PROVE  EquippedByOne'
<1>1. /\ EquippedByOne /\ EnrolledByOne /\ RegistryInv
  BY DEF Calm, Undisturbed, ProvisioningInv
<1> DEFINE TakenUp(uuid) == /\ Ask("devices", uuid) \in retained
                            /\ ~Queued(Ask("devices", uuid))
           Late(uuid) == \A t \in Threads : Does(t, Ask("devices", uuid)) =>
                            job[t].step \in {"respond", "kafka"}
           AtEnd(uuid) == \A t \in Threads : Does(t, Ask("devices", uuid)) => At(t, "kafka")
<1>2. ASSUME NEW uuid, uuid # 0, hasSession, TakenUp(uuid)
      PROVE  /\ TakenUp(uuid)'
             /\ \A t \in Threads : Does(t, Ask("devices", uuid))' => Does(t, Ask("devices", uuid))
  BY <1>2, AskedForGood
<1>3. ASSUME NEW uuid, uuid # 0, hasSession, TakenUp(uuid), Late(uuid) PROVE Late(uuid)'
  <2> SUFFICES ASSUME NEW t \in Threads, Does(t, Ask("devices", uuid))'
               PROVE  job'[t].step \in {"respond", "kafka"}
    OBVIOUS
  <2>1. job[t].step \in {"respond", "kafka"} /\ job'[t] # Idle
    BY <1>2, <1>3 DEF Does
  <2> QED BY <1>1, <2>1, LateTask
<1>4. ASSUME NEW uuid, uuid # 0, hasSession, TakenUp(uuid), AtEnd(uuid) PROVE AtEnd(uuid)'
  <2> SUFFICES ASSUME NEW t \in Threads, Does(t, Ask("devices", uuid))'
               PROVE  job'[t].step = "kafka"
    BY DEF At
  <2>1. At(t, "kafka") /\ job'[t] # Idle
    BY <1>2, <1>4 DEF Does
  <2> QED BY <1>1, <2>1, LateTask DEF At
<1>5. ASSUME NEW x \in repo', x.devices # 0 PROVE TakenUp(x.uuid)' /\ Late(x.uuid)'
  <2>1. CASE x \in repo
    <3>1. x.uuid # 0 /\ hasSession /\ TakenUp(x.uuid) /\ Late(x.uuid)
      BY <1>1, <1>5, <2>1, EntriesAreNumbered DEF EquippedByOne
    <3> QED BY <1>2, <1>3, <3>1
  <2>2. ASSUME NEW t \in Threads, Save(t), x \notin repo PROVE FALSE
    <3>1. x = job[t].agent /\ At(t, "save")
      BY <1>1, <1>5, <2>2, TaskSaves DEF HashSet
    <3> QED BY <1>1, <1>5, <3>1 DEF EnrolledByOne
  <2>3. ASSUME NEW t \in Threads, Update(t), x \notin repo PROVE TakenUp(x.uuid)' /\ Late(x.uuid)'
    <3>1. /\ x = job[t].agent /\ At(t, "update") /\ Op(t) = "devices" /\ TaskGoesOn(t)
          /\ job'[t].step = "respond"
      BY <1>1, <1>5, <2>3, TaskUpdates DEF HashSet
    <3>2. x.uuid = job[t].request.uuid
      BY <1>1, <3>1 DEF EquippedByOne, At
    <3>3. /\ x.uuid # 0 /\ hasSession /\ TakenUp(x.uuid)
          /\ \A u \in Threads : Does(u, Ask("devices", x.uuid)) => u = t
      BY <3>1, <3>2, ActingThread DEF TaskGoesOn
    <3> QED BY <1>2, <3>1, <3>3
  <2>4. ASSUME NEW t \in Threads, Delete(t), x \notin repo PROVE FALSE
    BY <1>1, <1>5, <2>4, TaskDeletes DEF HashDelete
  <2>5. CASE repo' = repo
    BY <1>5, <2>1, <2>5
  <2> HIDE DEF TakenUp, Late
  <2> QED BY <1>1, <2>1, <2>2, <2>3, <2>4, <2>5, RepositoryMoves
<1>6. ASSUME NEW r \in responses, r.op = "devices"
      PROVE  r.uuid # 0 /\ hasSession /\ TakenUp(r.uuid) /\ AtEnd(r.uuid)
  BY <1>1, <1>6, EntriesAreNumbered DEF EquippedByOne
<1>7. ASSUME NEW r \in responses, r.op = "devices" PROVE TakenUp(r.uuid)' /\ AtEnd(r.uuid)'
  BY <1>2, <1>4, <1>6, <1>7
<1>8. ASSUME NEW t \in Threads, Respond(t), NEW r, r = Response(t), r.op = "devices"
      PROVE  /\ TakenUp(r.uuid)' /\ AtEnd(r.uuid)'
             /\ \A s \in responses : s.op = "devices" => s.uuid # r.uuid
  <2>1. TaskGoesOn(t) /\ At(t, "respond") /\ job[t].request \in Requests
    BY <1>1, <1>8, TaskResponds, ActingThread DEF TaskGoesOn
  <2>2. Op(t) = "devices" /\ r.uuid = job[t].request.uuid
    BY <1>8, <2>1 DEF Response, Op, Requests
  <2>3. job'[t].step = "kafka"
    BY <1>1, <1>8, <2>2, TaskResponds
  <2>4. /\ r.uuid # 0 /\ hasSession /\ TakenUp(r.uuid) /\ Does(t, Ask("devices", r.uuid))
        /\ \A u \in Threads : Does(u, Ask("devices", r.uuid)) => u = t
    BY <2>1, <2>2, ActingThread DEF TaskGoesOn, Does
  <2>5. TakenUp(r.uuid)' /\ AtEnd(r.uuid)'
    BY <1>2, <2>3, <2>4 DEF At
  <2>6. \A s \in responses : s.op = "devices" => s.uuid # r.uuid
    BY <1>6, <2>1, <2>4 DEF At
  <2> QED BY <2>5, <2>6
<1>9. ASSUME NEW t \in Threads, job'[t].step \in {"update", "respond", "kafka"}, Op(t)' = "devices"
      PROVE  job'[t].agent.uuid = job'[t].request.uuid
  <2>1. CASE job'[t] = job[t]
    BY <1>1, <1>9, <2>1 DEF EquippedByOne, Op
  <2>2. ASSUME NEW u \in Threads, u # t, ThreadActs(u) PROVE job'[t] = job[t]
    BY <1>1, <2>2, TaskBegins, TaskCreates, TaskSaves, TaskGets, TaskUpdates, TaskDeletes,
       TaskResponds, TaskSends
    DEF ThreadActs, TaskGoesOn
  <2>3. ASSUME ThreadActs(t) PROVE job'[t].agent.uuid = job'[t].request.uuid
    <3>1. CASE Start(t)
      BY <1>1, <1>9, <3>1, TaskBegins DEF Idle
    <3>2. CASE Create(t) \/ Save(t) \/ Delete(t) \/ SendKafka(t)
      BY <1>1, <1>9, <3>2, TaskCreates, TaskSaves, TaskDeletes, TaskSends DEF Op, Idle
    <3>3. CASE Get(t)
      <4>1. /\ TaskGoesOn(t) /\ job'[t] # Idle
            /\ \E x \in Stored(job[t].request.uuid) : job'[t].agent = [x EXCEPT !.devices = drawn']
        BY <1>1, <1>9, <3>3, TaskGets DEF Idle
      <4>2. PICK x \in repo : /\ x.uuid = job[t].request.uuid
                              /\ job'[t].agent = [x EXCEPT !.devices = drawn']
        BY <4>1 DEF Stored
      <4>3. x \in Agents
        BY EntriesAreNumbered
      <4>4. job'[t].agent.uuid = x.uuid
        BY <4>2, <4>3 DEF Agents
      <4> QED BY <4>1, <4>2, <4>4 DEF TaskGoesOn
    <3>4. CASE Update(t)
      BY <1>1, <1>9, <3>4, TaskUpdates DEF EquippedByOne, At
    <3>5. CASE Respond(t)
      BY <1>1, <1>9, <3>5, TaskResponds DEF EquippedByOne, At, Op, Idle
    <3> QED BY <2>3, <3>1, <3>2, <3>3, <3>4, <3>5 DEF ThreadActs
  <2> QED BY <2>1, <2>2, <2>3, OnlyThreadsAct
<1>10. \A t \in Threads : (job[t].step \in {"update", "respond", "kafka"} /\ Op(t) = "devices" =>
                              job[t].agent.uuid = job[t].request.uuid)'
  BY <1>9
<1>11. \A x \in repo' : x.devices # 0 => TakenUp(x.uuid)' /\ Late(x.uuid)'
  BY <1>5
<1>12. CASE responses' = responses
  <2>1. \A r \in responses' : r.op = "devices" => TakenUp(r.uuid)' /\ AtEnd(r.uuid)'
    BY <1>7, <1>12
  <2> QED BY <1>1, <1>10, <1>11, <1>12, <2>1 DEF EquippedByOne
<1>13. ASSUME NEW t \in Threads, Respond(t) PROVE EquippedByOne'
  <2>1. PICK r : r = Response(t)
    OBVIOUS
  <2>2. responses' = responses \cup {r}
    BY <1>1, <1>13, <2>1, TaskResponds
  <2>3. \A s \in responses' : s.op = "devices" => TakenUp(s.uuid)' /\ AtEnd(s.uuid)'
    BY <1>7, <1>8, <1>13, <2>1, <2>2
  <2>4. \A s, q \in responses' :
            s.op = "devices" /\ q.op = "devices" /\ s.uuid = q.uuid => s = q
    BY <1>1, <1>8, <1>13, <2>1, <2>2 DEF EquippedByOne
  <2> QED BY <1>10, <1>11, <2>3, <2>4 DEF EquippedByOne
<1> QED BY <1>1, <1>12, <1>13, AnswersMove

(* The events sent so far, and how one comes about.                          *)
LEMMA EventsMove ==
  ASSUME RegistryInv, QuietNext \/ UNCHANGED vars
  PROVE  /\ Range(kafka) \subseteq Range(kafka')
         /\ \A t \in Threads : SendKafka(t) => Response(t) \in Range(kafka')
<1>1. kafka \in Seq(Events)
  BY DEF RegistryInv, TypeInv, RegistryTypeOK
<1>2. ASSUME NEW t \in Threads, SendKafka(t)
      PROVE  Range(kafka) \subseteq Range(kafka') /\ Response(t) \in Range(kafka')
  <2> DEFINE event == Response(t)
  <2>1. kafka' = Append(kafka, event)
    BY <1>2, TaskSends
  <2> HIDE DEF event
  <2>2. /\ Len(kafka) + 1 \in DOMAIN kafka' /\ kafka'[Len(kafka) + 1] = event
        /\ \A i \in DOMAIN kafka : i \in DOMAIN kafka' /\ kafka'[i] = kafka[i]
    BY <1>1, <2>1
  <2> QED BY <2>2 DEF Range, event
<1>3. kafka' = kafka \/ \E t \in Threads : SendKafka(t)
  BY OnlyThreadsAct, TaskBegins, TaskCreates, TaskSaves, TaskGets, TaskUpdates, TaskDeletes,
     TaskResponds
  DEF ThreadActs
<1> QED BY <1>2, <1>3

LEMMA AnnouncementComes ==
  ASSUME RegistryInv, QuietNext \/ UNCHANGED vars, NEW t \in Threads, NEW op, NEW uuid,
         Announces(t, op, uuid), op # "register"
  PROVE  \/ /\ Announces(t, op, uuid)'
            /\ job'[t].agent = job[t].agent /\ job'[t].success = job[t].success
         \/ Response(t) \in Range(kafka')
<1>1. Op(t) = op
  BY DEF Announces, Op, Ask
<1> QED BY <1>1, LateTask, EventsMove DEF Announces

LEMMA EventsFollowStep ==
  ASSUME Calm, QuietNext \/ UNCHANGED vars
  PROVE  EventsFollow'
<1>1. EventsFollow /\ EnrolledByOne /\ RegistryInv
  BY DEF Calm, Undisturbed, ProvisioningInv
<1> DEFINE Gone(uuid) ==
             \/ Announced([op |-> "deregister", uuid |-> uuid, success |-> TRUE])
             \/ \E t \in Threads : Announces(t, "deregister", uuid) /\ job[t].success
           Told(uuid, devices) ==
             \/ Announced([op |-> "devices", uuid |-> uuid, devices |-> devices])
             \/ \E t \in Threads : /\ Announces(t, "devices", uuid)
                                   /\ job[t].agent.devices = devices
<1>2. ASSUME NEW uuid, Gone(uuid) PROVE Gone(uuid)'
  <2>1. CASE Announced([op |-> "deregister", uuid |-> uuid, success |-> TRUE])
    BY <1>1, <2>1, EventsMove DEF Announced
  <2>2. ASSUME NEW t \in Threads, Announces(t, "deregister", uuid), job[t].success
        PROVE  Gone(uuid)'
    <3>1. job[t] \in Jobs /\ Op(t) = "deregister" /\ job[t].request.uuid = uuid
      BY <2>2, QueueIsTyped DEF Calm, Announces, Idle, Op, Ask
    <3>2. Response(t) = [op |-> "deregister", uuid |-> uuid, success |-> TRUE]
      BY <2>2, <3>1 DEF Response, Jobs
    <3> QED BY <1>1, <2>2, <3>2, AnnouncementComes DEF Announced
  <2> QED BY <1>2, <2>1, <2>2
<1>3. ASSUME NEW uuid, NEW devices, Told(uuid, devices) PROVE Told(uuid, devices)'
  <2>1. CASE Announced([op |-> "devices", uuid |-> uuid, devices |-> devices])
    BY <1>1, <2>1, EventsMove DEF Announced
  <2>2. ASSUME NEW t \in Threads, Announces(t, "devices", uuid), job[t].agent.devices = devices
        PROVE  Told(uuid, devices)'
    <3>1. Op(t) = "devices" /\ job[t].request.uuid = uuid
      BY <2>2 DEF Announces, Op, Ask
    <3>2. Response(t) = [op |-> "devices", uuid |-> uuid, devices |-> devices]
      BY <2>2, <3>1 DEF Response
    <3> QED BY <1>1, <2>2, <3>2, AnnouncementComes DEF Announced
  <2> QED BY <1>3, <2>1, <2>2
<1>4. ASSUME NEW e \in enrolled', \A x \in repo' : x.uuid # e.uuid PROVE Gone(e.uuid)'
  <2>1. ASSUME NEW t \in Threads, Save(t) PROVE e \in enrolled /\ Stored(e.uuid) = {}
    <3>1. /\ HashSet(job[t].agent) /\ enrolled' = enrolled \cup {Identity(job[t].agent)}
      BY <1>1, <2>1, TaskSaves
    <3>2. job[t].agent \in repo' /\ Identity(job[t].agent).uuid = job[t].agent.uuid
      BY <3>1 DEF HashSet, Identity
    <3>3. \A x \in repo : x \in repo' \/ x.uuid = job[t].agent.uuid
      BY <3>1 DEF HashSet, Stored
    <3> QED BY <1>4, <3>1, <3>2, <3>3 DEF Stored
  <2>2. ASSUME NEW t \in Threads, Update(t) PROVE e \in enrolled /\ Stored(e.uuid) = {}
    <3>1. HashSet(job[t].agent) /\ enrolled' = enrolled
      BY <1>1, <2>2, TaskUpdates
    <3>2. job[t].agent \in repo' /\ \A x \in repo : x \in repo' \/ x.uuid = job[t].agent.uuid
      BY <3>1 DEF HashSet, Stored
    <3> QED BY <1>4, <3>1, <3>2 DEF Stored
  <2>3. ASSUME NEW t \in Threads, Delete(t)
        PROVE  e \in enrolled /\ (Stored(e.uuid) = {} \/ Gone(e.uuid)')
    <3>1. /\ HashDelete(job[t].request.uuid) /\ enrolled' = enrolled
          /\ job'[t].step = "respond" /\ job'[t].request = job[t].request
          /\ job'[t].success = (Stored(job[t].request.uuid) # {})
          /\ job[t].request = Ask("deregister", job[t].request.uuid)
      BY <1>1, <2>3, TaskDeletes
    <3>2. ASSUME NEW x \in Stored(e.uuid) PROVE Gone(e.uuid)'
      <4>1. x.uuid = e.uuid /\ job[t].request.uuid = e.uuid
        BY <1>4, <3>1, <3>2 DEF HashDelete, Stored
      <4>2. Announces(t, "deregister", e.uuid)' /\ job'[t].success
        BY <3>1, <3>2, <4>1 DEF Announces
      <4> QED BY <4>2
    <3> QED BY <3>1, <3>2
  <2>4. CASE repo' = repo /\ enrolled' = enrolled
    BY <1>1, <1>2, <1>4, <2>4 DEF EventsFollow, Stored
  <2>5. ASSUME e \in enrolled, Stored(e.uuid) = {} PROVE Gone(e.uuid)'
    BY <1>1, <1>2, <2>5 DEF EventsFollow
  <2> HIDE DEF Gone
  <2> QED BY <1>1, <2>1, <2>2, <2>3, <2>4, <2>5, RepositoryMoves
<1>5. ASSUME NEW x \in repo', x.devices # 0 PROVE Told(x.uuid, x.devices)'
  <2>1. CASE x \in repo
    BY <1>1, <1>3, <1>5, <2>1 DEF EventsFollow
  <2>2. ASSUME NEW t \in Threads, Save(t), x \notin repo PROVE FALSE
    <3>1. x = job[t].agent /\ At(t, "save")
      BY <1>1, <1>5, <2>2, TaskSaves DEF HashSet
    <3> QED BY <1>1, <1>5, <3>1 DEF EnrolledByOne
  <2>3. ASSUME NEW t \in Threads, Update(t), x \notin repo PROVE Told(x.uuid, x.devices)'
    <3>1. /\ x = job[t].agent /\ At(t, "update") /\ Op(t) = "devices"
          /\ job'[t].step = "respond" /\ job'[t].request = job[t].request
          /\ job'[t].agent = x
          /\ job[t].request = Ask("devices", job[t].request.uuid)
      BY <1>1, <1>5, <2>3, TaskUpdates DEF HashSet
    <3>2. x.uuid = job[t].request.uuid
      BY <3>1 DEF Calm, Undisturbed, EquippedByOne, At
    <3>3. Announces(t, "devices", x.uuid)' /\ job'[t].agent.devices = x.devices
      BY <3>1, <3>2 DEF Announces
    <3> QED BY <3>3
  <2>4. ASSUME NEW t \in Threads, Delete(t), x \notin repo PROVE FALSE
    BY <1>1, <1>5, <2>4, TaskDeletes DEF HashDelete
  <2>5. CASE repo' = repo
    BY <1>5, <2>1, <2>5
  <2> HIDE DEF Told
  <2> QED BY <1>1, <2>1, <2>2, <2>3, <2>4, <2>5, RepositoryMoves
<1> QED BY <1>4, <1>5 DEF EventsFollow, Stored

(* How an agent comes to the sensor UUIDs it knows, and to the flag of its   *)
(* deregistration.                                                           *)
Waits == <<myDeviceSensorUUIDsMap, sensor_uuid, myMQTTderegistered>>

LEMMA AnswersReachAgents ==
  ASSUME QuietNext \/ UNCHANGED vars
  PROVE  \/ UNCHANGED Waits
         \/ \E a \in Uids : StartSending(a) \/ LookUp(a) \/ DevicesResult(a)
                            \/ DeregistrationResult(a)
<1>1. ASSUME NEW a \in Uids, AgentPublishes(a) PROVE UNCHANGED Waits
  BY <1>1 DEF AgentPublishes, Register, RegisterDevices, Deregister, attrVars, Waits
<1>2. ASSUME NEW a \in Uids, LocalStep(a) PROVE UNCHANGED Waits \/ StartSending(a) \/ LookUp(a)
  BY <1>2 DEF LocalStep, CreateDeviceMap, DeviceUnreachable, NoTopicsYet, LookUpFails,
              SignalTooEarly, Close, TimeOut, attrVars, Waits
<1>3. ASSUME NEW a \in Uids, NetworkThread(a)
      PROVE  UNCHANGED Waits \/ DevicesResult(a) \/ DeregistrationResult(a)
  BY <1>3 DEF NetworkThread, Reattach, RegistrationResult, SetUuid, SetTopics, SetDeviceFlag,
              UnknownTopic, Takes, attrVars, Waits
<1>4. CASE \E t \in Threads : TaskStep(t) \/ FrameworkAnswers(t)
  BY <1>4 DEF TaskStep, FrameworkAnswers, agentVars, attrVars, Waits
<1>5. CASE Deliver \/ StartFramework \/ UNCHANGED vars
  BY <1>5 DEF Deliver, StartFramework, vars, agentVars, attrVars, Waits
<1> QED BY <1>1, <1>2, <1>3, <1>4, <1>5 DEF QuietNext, AgentStep

LEMMA SensorsAnsweredStep ==
  ASSUME Calm, LeavesOnce, QuietNext \/ UNCHANGED vars
  PROVE  SensorsAnswered'
<1> DEFINE Given(b, devices) ==
             devices # 0 =>
               [op |-> "devices", uuid |-> myAgent_uuid[b], devices |-> devices] \in responses
           StillGiven(b, devices) ==
             devices # 0 =>
               [op |-> "devices", uuid |-> myAgent_uuid'[b], devices |-> devices] \in responses'
<1>1. /\ SensorsAnswered /\ SteadyAgents /\ NumbersFit /\ AgentsFit
      /\ ProvisioningInv /\ ReachInv /\ SteadyInv /\ EnrolledByOne /\ RegistryInv
      /\ sensor_uuid \in [Uids -> Nat] /\ myDeviceSensorUUIDsMap \in [Uids -> Nat]
  BY DEF Calm, Undisturbed, ProvisioningInv, SteadyInv, SensorsAnswered, SteadyAgents
<1>2. ASSUME NEW b \in Uids, NEW devices, Given(b, devices) PROVE StillGiven(b, devices)
  <2>1. ASSUME devices # 0 PROVE myAgent_uuid[b] # 0
    BY <1>1, <1>2, <2>1 DEF NumbersFit
  <2>2. devices # 0 => myAgent_uuid'[b] = myAgent_uuid[b]
    BY <1>1, <2>1, UuidsStay
  <2> QED BY <1>2, <2>2, QuietGrows
<1>3. ASSUME NEW b \in Uids
      PROVE  StillGiven(b, myDeviceSensorUUIDsMap[b]) /\ StillGiven(b, sensor_uuid[b])
  <2>1. Given(b, myDeviceSensorUUIDsMap[b]) /\ Given(b, sensor_uuid[b])
    BY <1>1 DEF SensorsAnswered
  <2> HIDE DEF Given, StillGiven
  <2> QED BY <1>2, <2>1
<1>4. ASSUME NEW b \in Uids, myDeviceRegistered[b] PROVE myDeviceSensorUUIDsMap[b] # 0
  <2>1. ~AnsweredTwice(b)
    BY <1>1, AnsweredOnce
  <2> QED BY <1>1, <1>4, <2>1 DEF SteadyAgents, Steady, Equipped
<1> DEFINE MapGiven(b) == StillGiven(b, myDeviceSensorUUIDsMap'[b])
           StampGiven(b) == StillGiven(b, sensor_uuid'[b])
           Stamps(b) == pc'[b] = "sending" /\ b \notin RedfishAgents => sensor_uuid'[b] # 0
<1>5. ASSUME NEW b \in Uids, sensor_uuid'[b] = sensor_uuid[b],
             pc'[b] = "sending" => pc[b] = "sending"
      PROVE  StampGiven(b) /\ Stamps(b)
  BY <1>1, <1>3, <1>5 DEF SensorsAnswered
<1>6. ASSUME UNCHANGED Waits \/ \E a \in Uids : DevicesResult(a) \/ DeregistrationResult(a),
             NEW b \in Uids
      PROVE  StampGiven(b) /\ Stamps(b)
  <2>1. sensor_uuid' = sensor_uuid
    BY <1>6 DEF Waits, DevicesResult, DeregistrationResult, Takes
  <2>2. pc'[b] = "sending" => pc[b] = "sending" \/ StartSending(b)
    BY <1>1, MainThreadMoves
  <2>3. StartSending(b) => b \in RedfishAgents \/ sensor_uuid'[b] # 0
    BY <1>1, <1>4 DEF StartSending
  <2> QED BY <1>1, <1>3, <2>1, <2>2, <2>3 DEF SensorsAnswered
<1>7. ASSUME NEW a \in Uids, StartSending(a) \/ LookUp(a), NEW b \in Uids
      PROVE  StampGiven(b) /\ Stamps(b) /\ myDeviceSensorUUIDsMap' = myDeviceSensorUUIDsMap
             /\ sensor_uuid' \in [Uids -> Nat]
  <2>1. /\ myDeviceSensorUUIDsMap' = myDeviceSensorUUIDsMap
        /\ \/ sensor_uuid' = sensor_uuid /\ a \in RedfishAgents
           \/ sensor_uuid' = [sensor_uuid EXCEPT ![a] = myDeviceSensorUUIDsMap[a]]
        /\ pc' = pc \/ pc' = [pc EXCEPT ![a] = "sending"]
        /\ a \in RedfishAgents \/ myDeviceRegistered[a]
    BY <1>7 DEF StartSending, LookUp, Move
  <2>2. sensor_uuid' \in [Uids -> Nat]
    BY <1>1, <2>1
  <2>3. b # a => sensor_uuid'[b] = sensor_uuid[b] /\ pc'[b] = pc[b]
    BY <1>1, <2>1 DEF ReachInv
  <2>4. \/ sensor_uuid'[a] = sensor_uuid[a] /\ a \in RedfishAgents
        \/ sensor_uuid'[a] = myDeviceSensorUUIDsMap[a]
    BY <1>1, <2>1
  <2>5. Stamps(a) /\ StampGiven(a)
    BY <1>3, <1>4, <2>1, <2>4
  <2> HIDE DEF Stamps, StampGiven
  <2> QED BY <1>5, <2>1, <2>2, <2>3, <2>5
<1>8. ASSUME NEW a \in Uids, DevicesResult(a), NEW b \in Uids
      PROVE  MapGiven(b) /\ myDeviceSensorUUIDsMap' \in [Uids -> Nat]
  <2> DEFINE r == Head(mailbox[a])
  <2>1. /\ mailbox[a] # << >> /\ r.op = "devices"
        /\ myDeviceSensorUUIDsMap' =
             IF r.uuid = myAgent_uuid[a]
             THEN [myDeviceSensorUUIDsMap EXCEPT ![a] = r.devices]
             ELSE myDeviceSensorUUIDsMap
        /\ myAgent_uuid' = myAgent_uuid
    BY <1>8 DEF DevicesResult, Takes
  <2>2. mailbox[a] \in Seq(Responses) /\ r = mailbox[a][1] /\ 1 \in 1 .. Len(mailbox[a])
    BY <1>1, <2>1 DEF AgentsFit
  <2>3. r \in responses /\ r \in Responses
    BY <1>1, <2>2 DEF SteadyAgents, Steady
  <2> HIDE DEF r
  <2>4. r \in [op : {"devices"}, uuid : Nat, devices : Nat]
    BY <2>1, <2>3 DEF Responses
  <2>5. r = [op |-> "devices", uuid |-> r.uuid, devices |-> r.devices]
    BY <2>4
  <2>6. myDeviceSensorUUIDsMap'[b] # myDeviceSensorUUIDsMap[b] =>
            b = a /\ r.uuid = myAgent_uuid[a] /\ myDeviceSensorUUIDsMap'[b] = r.devices
    BY <1>1, <2>1, <2>4
  <2>7. MapGiven(b)
    <3>1. CASE myDeviceSensorUUIDsMap'[b] = myDeviceSensorUUIDsMap[b]
      BY <1>3, <3>1
    <3>2. CASE myDeviceSensorUUIDsMap'[b] # myDeviceSensorUUIDsMap[b]
      BY <2>1, <2>3, <2>5, <2>6, <3>2, QuietGrows
    <3> QED BY <3>1, <3>2
  <2> QED BY <1>1, <2>1, <2>4, <2>7
<1>9. sensor_uuid' \in [Uids -> Nat] /\ \A b \in Uids : MapGiven(b) /\ StampGiven(b) /\ Stamps(b)
  <2>1. CASE UNCHANGED Waits
    <3>1. UNCHANGED <<myDeviceSensorUUIDsMap, sensor_uuid>>
      BY <2>1 DEF Waits
    <3> QED BY <1>1, <1>3, <1>6, <2>1, <3>1
  <2>2. ASSUME NEW a \in Uids, StartSending(a) \/ LookUp(a)
        PROVE  sensor_uuid' \in [Uids -> Nat] /\ \A b \in Uids : MapGiven(b) /\ StampGiven(b) /\ Stamps(b)
    <3>1. /\ sensor_uuid' \in [Uids -> Nat]
          /\ myDeviceSensorUUIDsMap' = myDeviceSensorUUIDsMap
          /\ \A b \in Uids : StampGiven(b) /\ Stamps(b)
      BY <1>7, <2>2
    <3> HIDE DEF StampGiven, Stamps, StillGiven
    <3> QED BY <1>3, <3>1
  <2>3. ASSUME NEW a \in Uids, DevicesResult(a)
        PROVE  sensor_uuid' \in [Uids -> Nat] /\ \A b \in Uids : MapGiven(b) /\ StampGiven(b) /\ Stamps(b)
    <3>1. sensor_uuid' = sensor_uuid
      BY <2>3 DEF DevicesResult, Takes
    <3> HIDE DEF MapGiven, StampGiven, Stamps
    <3> QED BY <1>1, <1>6, <1>8, <2>3, <3>1
  <2>4. ASSUME NEW a \in Uids, DeregistrationResult(a)
        PROVE  sensor_uuid' \in [Uids -> Nat] /\ \A b \in Uids : MapGiven(b) /\ StampGiven(b) /\ Stamps(b)
    <3>1. UNCHANGED <<sensor_uuid, myDeviceSensorUUIDsMap>>
      BY <2>4 DEF DeregistrationResult, Takes
    <3>2. \A b \in Uids : StampGiven(b) /\ Stamps(b)
      BY <1>6, <2>4
    <3> HIDE DEF StampGiven, Stamps, StillGiven
    <3> QED BY <1>1, <1>3, <3>1, <3>2
  <2> HIDE DEF MapGiven, StampGiven, Stamps
  <2> QED BY <2>1, <2>2, <2>3, <2>4, AnswersReachAgents
<1> QED BY <1>9 DEF SensorsAnswered

LEMMA FarewellAnsweredStep ==
  ASSUME Calm, LeavesOnce, QuietNext \/ UNCHANGED vars
  PROVE  FarewellAnswered'
<1>1. /\ FarewellAnswered /\ SteadyAgents /\ AgentsFit /\ PublishedInTime
      /\ ProvisioningInv /\ ReachInv /\ SteadyInv /\ EnrolledByOne /\ RegistryInv
      /\ myMQTTderegistered \in [Uids -> BOOLEAN]
  BY DEF Calm, Undisturbed, ProvisioningInv, SteadyInv, FarewellAnswered
<1>2. ASSUME NEW r \in responses', r.op = "deregister"
      PROVE  Ask("deregister", r.uuid) \in retained'
  <2>1. CASE r \in responses
    BY <1>1, <1>2, <2>1, QuietGrows DEF FarewellAnswered
  <2>2. ASSUME NEW t \in Threads, Respond(t), r = Response(t)
        PROVE  Ask("deregister", r.uuid) \in retained
    <3>1. TaskGoesOn(t) /\ job[t].request \in Requests
      BY <1>1, <2>2, TaskResponds, ActingThread DEF TaskGoesOn
    <3>2. Op(t) = "deregister" /\ r.uuid = job[t].request.uuid
      BY <1>2, <2>2, <3>1 DEF Response, Op, Requests
    <3> QED BY <3>1, <3>2, ActingThread DEF TaskGoesOn
  <2>3. r \notin responses => \E t \in Threads : Respond(t) /\ r = Response(t)
    BY <1>1, <1>2, AnswersMove, TaskResponds
  <2> QED BY <2>1, <2>2, <2>3, QuietGrows
<1> DEFINE Answer(uuid) == \E r \in responses : r.op = "deregister" /\ r.uuid = uuid
           FlagsFit == myMQTTderegistered \in [Uids -> BOOLEAN]
<1>3. ASSUME NEW r \in responses, r.op = "deregister" PROVE r.uuid # 0
  <2>1. Ask("deregister", r.uuid) \in retained
    BY <1>1, <1>3 DEF FarewellAnswered
  <2> QED BY <1>1, <2>1, AskIsUnique DEF PublishedInTime
<1>4. ASSUME NEW b \in Uids, myMQTTderegistered[b]
      PROVE  \E r \in responses' : r.op = "deregister" /\ r.uuid = myAgent_uuid'[b]
  <2>1. PICK r \in responses : r.op = "deregister" /\ r.uuid = myAgent_uuid[b]
    BY <1>1, <1>4 DEF FarewellAnswered
  <2>2. myAgent_uuid'[b] = myAgent_uuid[b]
    BY <1>1, <1>3, <2>1, UuidsStay
  <2> QED BY <2>1, <2>2, QuietGrows
<1>5. ASSUME NEW a \in Uids, DeregistrationResult(a)
      PROVE  /\ myMQTTderegistered' = [myMQTTderegistered EXCEPT ![a] = TRUE]
             /\ \E r \in responses' : r.op = "deregister" /\ r.uuid = myAgent_uuid'[a]
  <2> DEFINE r == Head(mailbox[a])
  <2>1. /\ mailbox[a] # << >> /\ r.op = "deregister" /\ r.uuid = topics[a]
        /\ myMQTTderegistered' = [myMQTTderegistered EXCEPT ![a] = TRUE]
        /\ myAgent_uuid' = myAgent_uuid
    BY <1>5 DEF DeregistrationResult, Takes
  <2>2. mailbox[a] \in Seq(Responses) /\ r = mailbox[a][1] /\ 1 \in 1 .. Len(mailbox[a])
    BY <1>1, <2>1 DEF AgentsFit
  <2>3. r \in responses
    BY <1>1, <2>2 DEF SteadyAgents, Steady
  <2> HIDE DEF r
  <2>4. topics[a] # 0
    BY <1>3, <2>1, <2>3
  <2>5. myAgent_uuid[a] = topics[a]
    BY <1>1, <2>4, UuidsAgree
  <2> QED BY <2>1, <2>3, <2>5, QuietGrows
<1>6. myMQTTderegistered' = myMQTTderegistered \/ \E a \in Uids : DeregistrationResult(a)
  BY AnswersReachAgents DEF Waits, StartSending, LookUp, DevicesResult
<1>7. FlagsFit' /\ \A b \in Uids : myMQTTderegistered[b] => myMQTTderegistered'[b]
  BY <1>1, <1>5, <1>6
<1>8. ASSUME NEW b \in Uids, myMQTTderegistered'[b]
      PROVE  \E r \in responses' : r.op = "deregister" /\ r.uuid = myAgent_uuid'[b]
  BY <1>1, <1>4, <1>5, <1>6, <1>8
<1>9. ASSUME NEW b \in Uids, pc'[b] = "closed" PROVE myMQTTderegistered'[b]
  <2>1. pc[b] = "closed" \/ Close(b)
    BY <1>1, <1>9, MainThreadMoves
  <2>2. myMQTTderegistered[b]
    BY <1>1, <2>1 DEF FarewellAnswered, Close
  <2> QED BY <1>7, <2>2
<1> QED BY <1>2, <1>7, <1>8, <1>9 DEF FarewellAnswered

----------------------------------------------------------------------------
LEMMA UndisturbedInit == Init => Undisturbed
<1> SUFFICES ASSUME Init PROVE Undisturbed
  OBVIOUS
<1>1. /\ inbox = << >> /\ session = << >> /\ retained = {} /\ ~hasSession /\ link = "down"
      /\ job = [t \in Threads |-> Idle]
      /\ repo = {} /\ responses = {} /\ kafka = << >> /\ enrolled = {}
  BY DEF Init, RegistryInit
<1>2. /\ sensor_uuid = [a \in Uids |-> 0] /\ myDeviceSensorUUIDsMap = [a \in Uids |-> 0]
      /\ myMQTTderegistered = [a \in Uids |-> FALSE] /\ pc = [a \in Uids |-> "start"]
  BY DEF Init, AgentInit
<1>3. Queue = << >> /\ Len(<< >>) = 0 /\ 1 .. 0 = {}
  BY <1>1 DEF Queue
<1>4. Connection
  BY <1>1 DEF Connection
<1>5. PublishedInTime /\ OnlyOnce
  BY <1>1, <1>3 DEF PublishedInTime, OnlyOnce
<1>6. EnrolledByOne /\ EquippedByOne /\ EventsFollow
  BY <1>1 DEF EnrolledByOne, EquippedByOne, EventsFollow, At, Idle
<1>7. SensorsAnswered /\ FarewellAnswered
  BY <1>1, <1>2 DEF SensorsAnswered, FarewellAnswered
<1> QED BY <1>4, <1>5, <1>6, <1>7 DEF Undisturbed

LEMMA UndisturbedStep ==
  ASSUME Calm, LeavesOnce, QuietNext \/ UNCHANGED vars
  PROVE  Undisturbed'
BY ConnectionStep, PublishedInTimeStep, OnlyOnceStep, EnrolledByOneStep, EquippedByOneStep,
   EventsFollowStep, SensorsAnsweredStep, FarewellAnsweredStep
DEF Undisturbed

(* A fault is not undone: while there is none, there was none before.        *)
LEMMA FaultsStep ==
  faults \in Nat /\ [Next]_vars => faults' \in Nat /\ (faults' = 0 => faults = 0)
BY DEF Next, FrameworkActs, AgentPublishes, AgentStep, Deliver, FrameworkStep, FrameworkAnswers,
       StartFramework, Reconnect, FrameworkFault, BrokerRestarts, vars

QuietInv ==
    /\ ProvisioningInv /\ ReachInv /\ SteadyInv
    /\ faults \in Nat
    /\ faults = 0 => Undisturbed

LEMMA QuietInit == Init => QuietInv
<1> SUFFICES ASSUME Init PROVE QuietInv
  OBVIOUS
<1>1. faults \in Nat
  BY DEF Init
<1> QED BY <1>1, ProvisioningInit, ReachInit, SteadyInit, UndisturbedInit DEF QuietInv

LEMMA QuietStep ==
  ASSUME LeavesOnce, QuietInv, [Next]_vars
  PROVE  QuietInv'
<1>1. ProvisioningInv' /\ ReachInv' /\ SteadyInv'
  BY ProvisioningStep, ReachStep, SteadyStep DEF QuietInv
<1>2. faults' \in Nat /\ (faults' = 0 => faults = 0)
  BY FaultsStep DEF QuietInv
<1>3. ASSUME faults' = 0 PROVE Undisturbed'
  <2>1. faults = 0 /\ Calm
    BY <1>2, <1>3 DEF QuietInv, Calm
  <2>2. QuietNext \/ UNCHANGED vars
    BY <1>3, <2>1, QuietSteps DEF Calm, Undisturbed
  <2> QED BY <2>1, <2>2, UndisturbedStep
<1> QED BY <1>1, <1>2, <1>3 DEF QuietInv

(* While nothing fails, the Kafka stream tells what the framework holds once *)
(* it is at rest, for any agents and threads: every device list and every    *)
(* departure is announced by the task that stored it.  SIGINT may come at    *)
(* any point of an agent's life that lets it ask to leave once.              *)
THEOREM StreamTellsAll ==
  ASSUME LeavesOnce
  PROVE  Spec => [](faults = 0 => KafkaKnows)
<1>1. QuietInv => (faults = 0 => KafkaKnows)
  <2> SUFFICES ASSUME EventsFollow, \A t \in Threads : job[t] = Idle, NEW e \in enrolled
               PROVE  \/ \E a \in Stored(e.uuid) :
                            \/ a.devices = 0
                            \/ [op |-> "devices", uuid |-> a.uuid, devices |-> a.devices]
                                 \in Range(kafka)
                      \/ [op |-> "deregister", uuid |-> e.uuid, success |-> TRUE] \in Range(kafka)
    BY DEF QuietInv, Undisturbed, KafkaKnows, AtRest
  <2>1. \A t \in Threads : job[t].step = "idle"
    BY DEF Idle
  <2>2. \A x \in repo : x.devices # 0 =>
            [op |-> "devices", uuid |-> x.uuid, devices |-> x.devices] \in Range(kafka)
    BY <2>1 DEF EventsFollow, Announced, Announces
  <2>3. Stored(e.uuid) = {} =>
            [op |-> "deregister", uuid |-> e.uuid, success |-> TRUE] \in Range(kafka)
    BY <2>1 DEF EventsFollow, Announced, Announces
  <2> QED BY <2>2, <2>3 DEF Stored
<1>2. QuietInv /\ [Next]_vars => QuietInv'
  BY QuietStep
<1> QED
  BY QuietInit, <1>1, <1>2, PTL DEF Spec

----------------------------------------------------------------------------
(* An entry is removed and written only under its own uuid.                  *)
LEMMA EntryStays ==
  ASSUME Calm, QuietNext \/ UNCHANGED vars, NEW x \in repo
  PROVE  \/ x \in repo'
         \/ \E t \in Threads : Update(t) /\ job[t].request = Ask("devices", x.uuid)
         \/ \E t \in Threads : Delete(t) /\ job[t].request = Ask("deregister", x.uuid)
<1>1. RegistryInv /\ EquippedByOne
  BY DEF Calm, Undisturbed, ProvisioningInv
<1>2. ASSUME NEW t \in Threads, Save(t) PROVE x \in repo'
  <2>1. HashSet(job[t].agent) /\ \A e \in enrolled : e.uuid # job[t].agent.uuid
    BY <1>1, <1>2, TaskSaves
  <2>2. x.uuid # job[t].agent.uuid
    BY <2>1, EntriesAreNumbered DEF Identity
  <2> QED BY <2>1, <2>2 DEF HashSet, Stored
<1>3. ASSUME NEW t \in Threads, Update(t), x \notin repo'
      PROVE  job[t].request = Ask("devices", x.uuid)
  <2>1. /\ HashSet(job[t].agent) /\ job[t].request = Ask("devices", job[t].request.uuid)
        /\ At(t, "update") /\ Op(t) = "devices"
    BY <1>1, <1>3, TaskUpdates
  <2>2. x.uuid = job[t].agent.uuid
    BY <1>3, <2>1 DEF HashSet, Stored
  <2>3. job[t].agent.uuid = job[t].request.uuid
    BY <1>1, <2>1 DEF EquippedByOne, At
  <2> QED BY <2>1, <2>2, <2>3
<1>4. ASSUME NEW t \in Threads, Delete(t), x \notin repo'
      PROVE  job[t].request = Ask("deregister", x.uuid)
  <2>1. /\ HashDelete(job[t].request.uuid)
        /\ job[t].request = Ask("deregister", job[t].request.uuid)
    BY <1>1, <1>4, TaskDeletes
  <2> QED BY <1>4, <2>1 DEF HashDelete, Stored
<1> QED BY <1>1, <1>2, <1>3, <1>4, RepositoryMoves

LEMMA EntryComes ==
  ASSUME Calm, QuietNext \/ UNCHANGED vars, NEW x \in repo', x \notin repo
  PROVE  \/ \E t \in Threads : Save(t) /\ \A e \in enrolled : e.uuid # x.uuid
         \/ \E t \in Threads : /\ Update(t) /\ job[t].agent = x
                               /\ job[t].request = Ask("devices", x.uuid)
<1>1. RegistryInv /\ EquippedByOne
  BY DEF Calm, Undisturbed, ProvisioningInv
<1>2. ASSUME NEW t \in Threads, Save(t) PROVE \A e \in enrolled : e.uuid # x.uuid
  BY <1>1, <1>2, TaskSaves DEF HashSet
<1>3. ASSUME NEW t \in Threads, Update(t)
      PROVE  job[t].agent = x /\ job[t].request = Ask("devices", x.uuid)
  <2>1. /\ HashSet(job[t].agent) /\ job[t].request = Ask("devices", job[t].request.uuid)
        /\ At(t, "update") /\ Op(t) = "devices"
    BY <1>1, <1>3, TaskUpdates
  <2>2. x = job[t].agent
    BY <2>1 DEF HashSet
  <2>3. job[t].agent.uuid = job[t].request.uuid
    BY <1>1, <2>1 DEF EquippedByOne, At
  <2> QED BY <2>1, <2>2, <2>3
<1>4. ASSUME NEW t \in Threads, Delete(t) PROVE FALSE
  BY <1>1, <1>4, TaskDeletes DEF HashDelete
<1> QED BY <1>1, <1>2, <1>3, <1>4, RepositoryMoves

(* A deregistration is asked for under the uuid of an enrolled agent that    *)
(* has left.                                                                 *)
LEMMA LeaverIsEnrolled ==
  ASSUME Calm, NEW uuid, Ask("deregister", uuid) \in retained
  PROVE  \E a \in Uids : /\ uuid # 0 /\ myAgent_uuid[a] = uuid /\ HasLeft(a)
                         /\ [uuid |-> uuid, uid |-> a] \in enrolled
<1>1. PICK a \in Uids : uuid # 0 /\ myAgent_uuid[a] = uuid /\ HasLeft(a)
  BY AskIsUnique DEF Calm, Undisturbed, PublishedInTime
<1>2. [uuid |-> uuid, uid |-> a] \in enrolled
  BY <1>1, UuidIsEnrolled DEF Calm
<1> QED BY <1>1, <1>2

LEMMA LeavesAnsweredStep ==
  ASSUME Calm, LeavesInPeace, LeavesAnswered, QuietNext \/ UNCHANGED vars
  PROVE  LeavesAnswered'
<1>1. /\ PublishedInTime /\ SensorsAnswered /\ EnrolledByOne /\ LeavesOnce
      /\ ProvisioningInv /\ ReachInv /\ SteadyInv /\ retained \subseteq Requests
  BY DEF Calm, Undisturbed, LeavesInPeace, ProvisioningInv, BrokerFits
<1> DEFINE Answer(uuid) == \E s \in responses : s.op = "devices" /\ s.uuid = uuid
<1>2. ASSUME retained' = retained PROVE LeavesAnswered'
  BY <1>2, QuietGrows DEF LeavesAnswered
<1>3. ASSUME NEW a \in Uids, Deregister(a), myAgent_uuid[a] # 0,
             Ask("devices", myAgent_uuid[a]) \in retained
      PROVE  Answer(myAgent_uuid[a])
  <2>1. PICK b \in Uids : mapUuid[b] = myAgent_uuid[a]
                          /\ pc[b] \notin {"start", "awaitRegistered", "mapped"}
    BY <1>1, <1>3, AskIsUnique DEF PublishedInTime
  <2>2. b = a
    BY <1>1, <1>3, <2>1, UuidsAgree
  <2>3. pc[a] = "sending"
    BY <1>3, <2>1, <2>2 DEF Deregister, Leaving, LeavesInPeace, LeavesOnce
  <2>4. ~AnsweredTwice(a)
    BY <1>1, AnsweredOnce DEF ProvisioningInv
  <2>5. myDeviceSensorUUIDsMap[a] # 0
    BY <1>1, <2>3, <2>4 DEF SteadyInv, SteadyAgents, Steady, Equipped
  <2>6. [op |-> "devices", uuid |-> myAgent_uuid[a],
         devices |-> myDeviceSensorUUIDsMap[a]] \in responses
    BY <1>1, <2>5 DEF SensorsAnswered
  <2> QED BY <2>6
<1>4. ASSUME NEW a \in Uids, AgentPublishes(a) PROVE LeavesAnswered'
  <2>1. PICK request \in Requests :
            /\ Publish(request)
            /\ \/ Register(a) /\ request = RegistrationRequest(a)
               \/ RegisterDevices(a) /\ request = DevicesRequest(a)
               \/ /\ Deregister(a) /\ request = DeregistrationRequest(a)
                  /\ myAgent_uuid[a] # 0
    BY <1>1, <1>4, RequestsAreFresh
  <2>2. retained' = retained \cup {request} /\ responses' = responses
    BY <1>4, <2>1 DEF Publish, AgentPublishes, registryVars
  <2> SUFFICES ASSUME NEW r \in retained', r.op = "deregister",
                      Ask("devices", r.uuid) \in retained'
               PROVE  Answer(r.uuid)
    BY <2>2 DEF LeavesAnswered
  <2>3. CASE r \in retained /\ Ask("devices", r.uuid) \in retained
    BY <2>3 DEF LeavesAnswered
  <2>4. CASE r \notin retained
    <3>1. Deregister(a) /\ r = DeregistrationRequest(a) /\ myAgent_uuid[a] # 0
      BY <2>1, <2>2, <2>4 DEF RegistrationRequest, DevicesRequest
    <3>2. r.uuid = myAgent_uuid[a] /\ Ask("devices", r.uuid) # r
      BY <3>1 DEF DeregistrationRequest, Ask
    <3>3. Ask("devices", r.uuid) \in retained
      BY <2>2, <2>4, <3>2
    <3> QED BY <1>3, <3>1, <3>2, <3>3
  <2>5. CASE r \in retained /\ Ask("devices", r.uuid) \notin retained
    <3>1. PICK b \in Uids : r.uuid # 0 /\ myAgent_uuid[b] = r.uuid /\ HasLeft(b)
      BY <1>1, <2>5 DEF PublishedInTime
    <3>2. Ask("devices", r.uuid) = request
      BY <2>2, <2>5
    <3>3. RegisterDevices(a) /\ mapUuid[a] = r.uuid
      BY <2>1, <3>2 DEF RegistrationRequest, DevicesRequest, DeregistrationRequest, Ask
    <3>4. a = b
      BY <1>1, <3>1, <3>3, UuidsAgree
    <3> QED BY <3>1, <3>3, <3>4 DEF RegisterDevices, HasLeft
  <2> QED BY <2>3, <2>4, <2>5
<1>5. CASE \E a \in Uids : AgentStep(a)
  BY <1>2, <1>5 DEF AgentStep, brokerVars
<1>6. CASE \E t \in Threads : TaskStep(t) \/ FrameworkAnswers(t)
  BY <1>2, <1>6 DEF TaskStep, FrameworkAnswers, brokerVars
<1>7. CASE Deliver \/ StartFramework \/ UNCHANGED vars
  BY <1>2, <1>7 DEF Deliver, StartFramework, vars, brokerVars
<1> QED BY <1>4, <1>5, <1>6, <1>7 DEF QuietNext

LEMMA ChangedTaskActs ==
  ASSUME RegistryInv, QuietNext \/ UNCHANGED vars, NEW t \in Threads, job'[t] # job[t]
  PROVE  ThreadActs(t)
<1>1. ASSUME NEW u \in Threads \ {t}, ThreadActs(u) PROVE job'[t] = job[t]
  BY <1>1, TaskBegins, TaskCreates, TaskSaves, TaskGets, TaskUpdates, TaskDeletes, TaskResponds,
     TaskSends
  DEF ThreadActs, TaskGoesOn
<1> QED BY <1>1, OnlyThreadsAct

(* What a device list is about to be written to is still there, and what it  *)
(* was written to stays until its agent leaves.                              *)
LEMMA EquipsThePresentStep ==
  ASSUME Calm, InPeace, LeavesInPeace, QuietNext \/ UNCHANGED vars
  PROVE  EquipsThePresent'
<1>1. /\ EquipsThePresent /\ LeavesAnswered /\ EquippedByOne /\ RegistryInv /\ LeavesOnce
      /\ retained \subseteq retained'
  BY QuietGrows DEF Calm, InPeace, LeavesInPeace, Undisturbed, ProvisioningInv
<1>2. ASSUME NEW t \in Threads, At(t, "update")
      PROVE  /\ job[t].request = Ask("devices", job[t].request.uuid)
             /\ job[t].agent \in Agents /\ job[t].agent.uuid = job[t].request.uuid
             /\ Ask("devices", job[t].request.uuid) \in retained /\ job[t] # Idle
  <2>1. job[t] # Idle /\ Op(t) = "devices" /\ job[t].agent \in Agents
    BY <1>1, <1>2 DEF RegistryInv, TypeInv, JobsFit, At, Idle
  <2> QED BY <1>1, <1>2, <2>1, ActingThread DEF EquippedByOne, At
<1>3. ASSUME NEW t \in Threads, At(t, "update"), Ask("deregister", job[t].request.uuid) \in retained
      PROVE  FALSE
  <2>1. PICK s \in responses : s.op = "devices" /\ s.uuid = job[t].request.uuid
    BY <1>1, <1>2, <1>3, AskIsUnique DEF LeavesAnswered
  <2>2. Does(t, Ask("devices", s.uuid))
    BY <1>2, <1>3, <2>1 DEF Does
  <2> QED BY <1>1, <1>3, <2>1, <2>2 DEF EquippedByOne, At
<1>4. ASSUME NEW u \in Threads, Delete(u) PROVE job[u].request \in retained
  BY <1>1, <1>4, TaskDeletes, ActingThread DEF TaskGoesOn
<1>5. ASSUME NEW t \in Threads, At(t, "update")' PROVE [job'[t].agent EXCEPT !.devices = 0] \in repo'
  <2>1. CASE job'[t] = job[t]
    <3> DEFINE x == [job[t].agent EXCEPT !.devices = 0]
    <3>1. At(t, "update") /\ x \in repo
      BY <1>1, <1>5, <2>1 DEF EquipsThePresent, At
    <3>2. x.uuid = job[t].request.uuid
      BY <1>2, <3>1 DEF Agents
    <3>3. [job'[t].agent EXCEPT !.devices = 0] = x
      BY <2>1
    <3> HIDE DEF x
    <3>4. ASSUME NEW u \in Threads, Update(u), job[u].request = Ask("devices", x.uuid) PROVE FALSE
      <4>1. job[u].request = job[t].request /\ TaskGoesOn(u) /\ job'[u].step = "respond"
        BY <1>1, <1>2, <3>1, <3>2, <3>4, TaskUpdates
      <4>2. u = t
        BY <1>2, <3>1, <4>1, ActingThread DEF Does, TaskGoesOn
      <4> QED BY <1>5, <4>1, <4>2 DEF At
    <3>5. ASSUME NEW u \in Threads, Delete(u), job[u].request = Ask("deregister", x.uuid) PROVE FALSE
      BY <1>3, <1>4, <3>1, <3>2, <3>5
    <3> QED BY <3>1, <3>3, <3>4, <3>5, EntryStays
  <2>2. CASE Get(t)
    <3>1. /\ TaskGoesOn(t) /\ job'[t] # Idle /\ Op(t) = "devices" /\ At(t, "get") /\ repo' = repo
          /\ \E x \in Stored(job[t].request.uuid) : job'[t].agent = [x EXCEPT !.devices = drawn']
      BY <1>1, <1>5, <2>2, TaskGets DEF At, Idle
    <3>2. PICK x \in repo : /\ x.uuid = job[t].request.uuid
                            /\ job'[t].agent = [x EXCEPT !.devices = drawn']
      BY <3>1 DEF Stored
    <3>3. Does(t, Ask("devices", x.uuid))
      BY <3>1, <3>2, ActingThread DEF TaskGoesOn, Does
    <3>4. x.devices = 0
      BY <1>1, <3>1, <3>3 DEF EquippedByOne, At
    <3>5. x \in Agents
      BY EntriesAreNumbered
    <3>6. [[x EXCEPT !.devices = drawn'] EXCEPT !.devices = 0] = x
      BY <3>4, <3>5 DEF Agents
    <3> QED BY <3>1, <3>2, <3>6
  <2>3. ASSUME ThreadActs(t), ~Get(t) PROVE FALSE
    BY <1>1, <1>5, <2>3, TaskBegins, TaskCreates, TaskSaves, TaskUpdates, TaskDeletes,
       TaskResponds, TaskSends
    DEF ThreadActs, At, Idle
  <2> QED BY <1>1, <2>1, <2>2, <2>3, ChangedTaskActs
<1>6. ASSUME NEW t \in Threads, job[t].step \in {"respond", "kafka"}, Op(t) = "devices"
      PROVE  \/ Ask("deregister", job[t].request.uuid) \in retained'
             \/ job[t].agent \in repo'
  <2>1. Ask("deregister", job[t].request.uuid) \in retained \/ job[t].agent \in repo
    BY <1>1, <1>6 DEF EquipsThePresent
  <2>2. /\ job[t] # Idle /\ job[t].agent.uuid = job[t].request.uuid
        /\ job[t].request = Ask("devices", job[t].request.uuid)
    BY <1>1, <1>6, ActingThread DEF EquippedByOne, Idle
  <2>3. ASSUME NEW u \in Threads, Update(u), job[u].request = job[t].request PROVE FALSE
    <3>1. u = t /\ At(u, "update")
      BY <1>1, <2>2, <2>3, ActingThread, TaskUpdates DEF Does, TaskGoesOn
    <3> QED BY <1>6, <3>1 DEF At
  <2> QED BY <1>1, <1>4, <2>1, <2>2, <2>3, EntryStays
<1>7. ASSUME NEW t \in Threads, job'[t].step \in {"respond", "kafka"}, Op(t)' = "devices"
      PROVE  \/ Ask("deregister", job'[t].request.uuid) \in retained'
             \/ job'[t].agent \in repo'
  <2>1. CASE job[t].step \in {"respond", "kafka"}
    <3>1. job'[t].request = job[t].request /\ job'[t].agent = job[t].agent
      BY <1>1, <1>7, <2>1, LateTask DEF Idle
    <3> QED BY <1>6, <1>7, <2>1, <3>1 DEF Op
  <2>2. CASE Update(t)
    BY <1>1, <2>2, TaskUpdates DEF HashSet
  <2>3. ASSUME job[t].step \notin {"respond", "kafka"} PROVE Update(t)
    <3>1. ThreadActs(t)
      BY <1>1, <1>7, <2>3, ChangedTaskActs
    <3> QED BY <1>1, <1>7, <2>3, <3>1, TaskBegins, TaskCreates, TaskSaves, TaskGets, TaskDeletes,
               TaskResponds, TaskSends
            DEF ThreadActs, At, Op, Idle
  <2> QED BY <2>1, <2>2, <2>3
<1>8. ASSUME NEW r \in responses, r.op = "devices"
      PROVE  \/ Ask("deregister", r.uuid) \in retained'
             \/ \E x \in repo' : x.uuid = r.uuid /\ x.devices = r.devices
  <2>1. CASE Ask("deregister", r.uuid) \in retained
    BY <1>1, <2>1
  <2>2. ASSUME NEW x \in repo, x.uuid = r.uuid, x.devices = r.devices
        PROVE  Ask("deregister", r.uuid) \in retained' \/ x \in repo'
    <3>1. ASSUME NEW u \in Threads, Update(u), job[u].request = Ask("devices", r.uuid) PROVE FALSE
      <4>1. At(u, "update") /\ Does(u, Ask("devices", r.uuid))
        BY <1>1, <3>1, TaskUpdates DEF Does, TaskGoesOn
      <4> QED BY <1>1, <1>8, <4>1 DEF EquippedByOne, At
    <3> QED BY <1>1, <1>4, <2>2, <3>1, EntryStays
  <2> QED BY <1>1, <1>8, <2>1, <2>2 DEF EquipsThePresent
<1>9. ASSUME NEW r \in responses', r.op = "devices"
      PROVE  \/ Ask("deregister", r.uuid) \in retained'
             \/ \E x \in repo' : x.uuid = r.uuid /\ x.devices = r.devices
  <2>1. ASSUME NEW t \in Threads, Respond(t), r = Response(t)
        PROVE  \/ Ask("deregister", r.uuid) \in retained'
               \/ \E x \in repo' : x.uuid = r.uuid /\ x.devices = r.devices
    <3>1. TaskGoesOn(t) /\ At(t, "respond") /\ job[t].request \in Requests
      BY <1>1, <2>1, TaskResponds, ActingThread DEF TaskGoesOn
    <3>2. /\ Op(t) = "devices" /\ r.uuid = job[t].request.uuid
          /\ r.devices = job[t].agent.devices
      BY <1>9, <2>1, <3>1 DEF Response, Op, Requests
    <3>3. job[t].agent.uuid = job[t].request.uuid
      BY <1>1, <3>1, <3>2 DEF EquippedByOne, At
    <3> QED BY <1>6, <3>1, <3>2, <3>3 DEF At
  <2>2. r \notin responses => \E t \in Threads : Respond(t) /\ r = Response(t)
    BY <1>1, <1>9, AnswersMove, TaskResponds
  <2> QED BY <1>8, <1>9, <2>1, <2>2
<1> QED BY <1>5, <1>7, <1>9 DEF EquipsThePresent, At

LEMMA LeaversAreGoneStep ==
  ASSUME Calm, InPeace, LeavesInPeace, QuietNext \/ UNCHANGED vars
  PROVE  LeaversAreGone'
<1>1. /\ EquipsThePresent /\ LeaversAreGone /\ EquippedByOne /\ FarewellAnswered /\ RegistryInv
  BY DEF Calm, InPeace, Undisturbed, ProvisioningInv
<1>2. ASSUME NEW uuid, Ask("deregister", uuid) \in retained, Stored(uuid) = {},
             NEW y \in repo', y.uuid = uuid
      PROVE  FALSE
  <2>1. y \notin repo
    BY <1>2 DEF Stored
  <2>2. PICK a \in Uids : [uuid |-> uuid, uid |-> a] \in enrolled
    BY <1>2, LeaverIsEnrolled
  <2>3. ASSUME NEW t \in Threads, Update(t), job[t].agent = y PROVE FALSE
    <3>1. At(t, "update") /\ y \in Agents
      BY <1>1, <2>3, TaskUpdates
    <3>2. [y EXCEPT !.devices = 0] \in repo /\ [y EXCEPT !.devices = 0].uuid = uuid
      BY <1>1, <1>2, <2>3, <3>1 DEF EquipsThePresent, Agents
    <3> QED BY <1>2, <3>2 DEF Stored
  <2> QED BY <1>2, <2>1, <2>2, <2>3, EntryComes
<1>3. ASSUME NEW t \in Threads, job[t].step \in {"respond", "kafka"}, Op(t) = "deregister"
      PROVE  Stored(job[t].request.uuid) = {} /\ \A y \in repo' : y.uuid # job[t].request.uuid
  <2>1. Stored(job[t].request.uuid) = {}
    BY <1>1, <1>3 DEF LeaversAreGone
  <2>2. job[t] # Idle
    BY <1>3 DEF Idle
  <2>3. Ask("deregister", job[t].request.uuid) \in retained
    BY <1>3, <2>2, ActingThread
  <2> QED BY <1>2, <2>1, <2>3
<1>4. ASSUME NEW t \in Threads, job'[t].step \in {"respond", "kafka"}, Op(t)' = "deregister"
      PROVE  \A y \in repo' : y.uuid # job'[t].request.uuid
  <2>1. CASE job[t].step \in {"respond", "kafka"}
    <3>1. job'[t].request = job[t].request
      BY <1>1, <1>4, <2>1, LateTask DEF Idle
    <3> QED BY <1>3, <1>4, <2>1, <3>1 DEF Op
  <2>2. CASE Delete(t)
    BY <1>1, <2>2, TaskDeletes DEF HashDelete, Stored
  <2>3. ASSUME job[t].step \notin {"respond", "kafka"} PROVE Delete(t)
    <3>1. ThreadActs(t)
      BY <1>1, <1>4, <2>3, ChangedTaskActs
    <3> QED BY <1>1, <1>4, <2>3, <3>1, TaskBegins, TaskCreates, TaskSaves, TaskGets, TaskUpdates,
               TaskResponds, TaskSends
            DEF ThreadActs, At, Op, Idle
  <2> QED BY <2>1, <2>2, <2>3
<1>5. ASSUME NEW r \in responses', r.op = "deregister" PROVE \A y \in repo' : y.uuid # r.uuid
  <2>1. CASE r \in responses
    BY <1>1, <1>2, <1>5, <2>1 DEF FarewellAnswered, LeaversAreGone
  <2>2. ASSUME NEW t \in Threads, Respond(t), r = Response(t) PROVE \A y \in repo' : y.uuid # r.uuid
    <3>1. TaskGoesOn(t) /\ At(t, "respond") /\ job[t].request \in Requests
      BY <1>1, <2>2, TaskResponds, ActingThread DEF TaskGoesOn
    <3>2. Op(t) = "deregister" /\ r.uuid = job[t].request.uuid
      BY <1>5, <2>2, <3>1 DEF Response, Op, Requests
    <3> QED BY <1>3, <3>1, <3>2 DEF At
  <2>3. r \notin responses => \E t \in Threads : Respond(t) /\ r = Response(t)
    BY <1>1, <1>5, AnswersMove, TaskResponds
  <2> QED BY <2>1, <2>2, <2>3
<1> QED BY <1>4, <1>5 DEF LeaversAreGone, Stored

----------------------------------------------------------------------------
PeaceInv == QuietInv /\ (faults = 0 => InPeace)

LEMMA PeaceInit == Init => PeaceInv
<1> SUFFICES ASSUME Init PROVE PeaceInv
  OBVIOUS
<1>1. retained = {} /\ responses = {} /\ job = [t \in Threads |-> Idle]
  BY DEF Init, RegistryInit
<1>2. InPeace
  BY <1>1 DEF InPeace, LeavesAnswered, EquipsThePresent, LeaversAreGone, At, Idle
<1> QED BY <1>2, QuietInit DEF PeaceInv

LEMMA PeaceStep ==
  ASSUME LeavesInPeace, PeaceInv, [Next]_vars
  PROVE  PeaceInv'
<1>1. LeavesOnce /\ QuietInv
  BY DEF LeavesInPeace, PeaceInv
<1>2. QuietInv'
  BY <1>1, QuietStep
<1>3. ASSUME faults' = 0 PROVE InPeace'
  <2>1. faults = 0 /\ Calm /\ InPeace
    BY <1>1, <1>3, FaultsStep DEF PeaceInv, QuietInv, Calm
  <2>2. QuietNext \/ UNCHANGED vars
    BY <1>3, <2>1, QuietSteps DEF Calm, Undisturbed
  <2>3. LeavesAnswered /\ LeavesAnswered' /\ EquipsThePresent' /\ LeaversAreGone'
    BY <2>1, <2>2, LeavesAnsweredStep, EquipsThePresentStep, LeaversAreGoneStep DEF InPeace
  <2> QED BY <2>3 DEF InPeace
<1> QED BY <1>2, <1>3 DEF PeaceInv

LEMMA CalmInPeace == PeaceInv /\ faults = 0 => Calm /\ InPeace
BY DEF PeaceInv, QuietInv, Calm

(* While nothing fails, an agent that sends (send_data) stamps its data with *)
(* sensor UUIDs that the repository holds for it, under the uuid it goes by: *)
(* the answer it took them from was stored before it was sent, and its entry *)
(* stays until it asks to leave.  For any agents, threads and interleaving,  *)
(* as long as SIGINT does not come while the agent waits for its devices.    *)
THEOREM SensorsStayKnown ==
  ASSUME LeavesInPeace
  PROVE  Spec => [](faults = 0 => SensorsKnown)
<1>1. ASSUME Calm, InPeace PROVE SensorsKnown
  <2>1. /\ ProvisioningInv /\ ReachInv /\ SteadyInv /\ EnrolledByOne /\ SensorsAnswered
        /\ EquipsThePresent
    BY <1>1 DEF Calm, Undisturbed, InPeace
  <2> SUFFICES ASSUME NEW a \in Uids, pc[a] = "sending", sensor_uuid[a] # 0
               PROVE  [uuid |-> myAgent_uuid[a], uid |-> a, devices |-> sensor_uuid[a]] \in repo
    BY <2>1 DEF SensorsKnown, SensorsAnswered
  <2> DEFINE r == [op |-> "devices", uuid |-> myAgent_uuid[a], devices |-> sensor_uuid[a]]
  <2>2. r \in responses
    BY <2>1 DEF SensorsAnswered
  <2>3. myAgent_uuid[a] # 0
    BY <1>1, <2>2, EntriesAreNumbered
  <2>4. Ask("deregister", myAgent_uuid[a]) \notin retained
    <3> SUFFICES ASSUME Ask("deregister", myAgent_uuid[a]) \in retained PROVE FALSE
      OBVIOUS
    <3>1. PICK b \in Uids : myAgent_uuid[b] = myAgent_uuid[a] /\ HasLeft(b)
      BY <1>1, LeaverIsEnrolled
    <3>2. b = a
      BY <2>1, <2>3, <3>1, UuidsAgree
    <3> QED BY <3>1, <3>2 DEF HasLeft
  <2>5. PICK x \in repo : x.uuid = myAgent_uuid[a] /\ x.devices = sensor_uuid[a]
    BY <2>1, <2>2, <2>4 DEF EquipsThePresent
  <2>6. x \in Agents /\ Identity(x) \in enrolled
    BY <1>1, EntriesAreNumbered
  <2>7. [uuid |-> myAgent_uuid[a], uid |-> a] \in enrolled
    BY <2>1, <2>3, UuidIsEnrolled
  <2>8. x.uid = a
    BY <2>1, <2>5, <2>6, <2>7 DEF ProvisioningInv, RegistryInv, EnrolledOnce, Identity
  <2>9. x = [uuid |-> myAgent_uuid[a], uid |-> a, devices |-> sensor_uuid[a]]
    BY <2>5, <2>6, <2>8 DEF Agents
  <2> QED BY <2>9
<1>2. PeaceInv => (faults = 0 => SensorsKnown)
  BY <1>1, CalmInPeace
<1>3. PeaceInv /\ [Next]_vars => PeaceInv'
  BY PeaceStep
<1> QED
  BY PeaceInit, <1>2, <1>3, PTL DEF Spec

(* While nothing fails, an agent that has closed after its deregistration    *)
(* was answered has left nothing in the repository (MqttAgentTest), neither  *)
(* its own entry nor one that a device task wrote back; the same proviso on  *)
(* SIGINT, without which the run v_DeregisteredIsGone shows an entry that    *)
(* comes back.                                                               *)
THEOREM NothingIsLeft ==
  ASSUME LeavesInPeace
  PROVE  Spec => [](faults = 0 => DeregisteredIsGone)
<1>1. ASSUME Calm, InPeace PROVE DeregisteredIsGone
  <2>1. /\ ProvisioningInv /\ PublishedInTime /\ EnrolledByOne /\ FarewellAnswered
        /\ LeaversAreGone
    BY <1>1 DEF Calm, Undisturbed, InPeace
  <2> SUFFICES ASSUME NEW a \in Uids, pc[a] = "closed", NEW e \in repo, e.uid = a
               PROVE  FALSE
    BY DEF DeregisteredIsGone
  <2>2. PICK r \in responses : r.op = "deregister" /\ r.uuid = myAgent_uuid[a]
    BY <2>1 DEF FarewellAnswered
  <2>3. Stored(myAgent_uuid[a]) = {} /\ Ask("deregister", myAgent_uuid[a]) \in retained
    BY <2>1, <2>2 DEF LeaversAreGone, FarewellAnswered
  <2>4. myAgent_uuid[a] # 0
    BY <1>1, <2>3, LeaverIsEnrolled
  <2>5. [uuid |-> myAgent_uuid[a], uid |-> a] \in enrolled
    BY <2>1, <2>4, UuidIsEnrolled
  <2>6. Identity(e) \in enrolled
    BY <1>1, EntriesAreNumbered
  <2>7. e.uuid = myAgent_uuid[a]
    BY <2>1, <2>5, <2>6 DEF EnrolledByOne, Identity
  <2> QED BY <2>3, <2>7 DEF Stored
<1>2. PeaceInv => (faults = 0 => DeregisteredIsGone)
  BY <1>1, CalmInPeace
<1>3. PeaceInv /\ [Next]_vars => PeaceInv'
  BY PeaceStep
<1> QED
  BY PeaceInit, <1>2, <1>3, PTL DEF Spec

----------------------------------------------------------------------------
(* What the tasks do to the repository, seen as steps of the directory.      *)
LEMMA SaveEnrols ==
  ASSUME Calm, NEW t \in Threads, Save(t)
  PROVE  Directory!Enrol
<1> DEFINE e == job[t].agent
<1>1. RegistryInv /\ EnrolledByOne
  BY DEF Calm, Undisturbed, ProvisioningInv
<1>2. /\ HashSet(e) /\ e \in Agents /\ At(t, "save") /\ job[t] # Idle
      /\ enrolled' = enrolled \cup {Identity(e)}
      /\ job[t].request = RegistrationRequest(e.uid)
      /\ \A f \in enrolled : f.uuid # e.uuid
  BY <1>1, TaskSaves DEF TaskGoesOn
<1>3. e.devices = 0
  BY <1>1, <1>2 DEF EnrolledByOne
<1>4. ASSUME NEW f \in repo PROVE f.uid # e.uid /\ f.uuid # e.uuid
  <2>1. Identity(f) \in enrolled
    BY EntriesAreNumbered
  <2>2. Does(t, RegistrationRequest(f.uid)) => At(t, "respond")
    BY <1>1, <2>1 DEF EnrolledByOne, Identity
  <2> QED BY <1>2, <2>1, <2>2 DEF Does, At, Identity
<1> HIDE DEF e
<1>5. repo' = repo \cup {e}
  BY <1>2, <1>4 DEF HashSet, Stored
<1>6. {x.uuid : x \in enrolled'} = {x.uuid : x \in enrolled} \cup {e.uuid}
  <2> DEFINE identity == Identity(e)
  <2>1. identity.uuid = e.uuid /\ enrolled' = enrolled \cup {identity}
    BY <1>2 DEF Identity
  <2> HIDE DEF identity
  <2> QED BY <2>1
<1> QED BY <1>2, <1>3, <1>4, <1>5, <1>6 DEF Directory!Enrol

LEMMA UpdateEquips ==
  ASSUME Calm, InPeace, NEW t \in Threads, Update(t)
  PROVE  Directory!Equip
<1> DEFINE f == job[t].agent
           e == [f EXCEPT !.devices = 0]
<1>1. RegistryInv /\ EquipsThePresent /\ NumbersFit
  BY DEF Calm, InPeace, ProvisioningInv, SteadyInv
<1>2. /\ HashSet(f) /\ f \in Agents /\ At(t, "update") /\ job[t] # Idle /\ Op(t) = "devices"
      /\ enrolled' = enrolled
  BY <1>1, TaskUpdates DEF TaskGoesOn
<1>3. e \in repo
  BY <1>1, <1>2 DEF EquipsThePresent
<1>4. f.devices # 0
  BY <1>1, <1>2 DEF NumbersFit, Numbered, At, Op
<1>5. e.uuid = f.uuid /\ e.devices = 0 /\ [e EXCEPT !.devices = f.devices] = f
  BY <1>2 DEF Agents
<1> HIDE DEF e, f
<1>6. Stored(f.uuid) = {e}
  BY <1>1, <1>3, <1>5 DEF RegistryInv, RepositoryIsEnrolled, Stored
<1>7. repo' = (repo \ {e}) \cup {f}
  BY <1>2, <1>6 DEF HashSet
<1> QED BY <1>2, <1>3, <1>4, <1>5, <1>7 DEF Directory!Equip

LEMMA DeleteWithdraws ==
  ASSUME Calm, NEW t \in Threads, Delete(t)
  PROVE  Directory!Withdraw \/ UNCHANGED <<repo, enrolled>>
<1>1. RegistryInv
  BY DEF Calm, ProvisioningInv
<1>2. repo' = repo \ Stored(job[t].request.uuid) /\ enrolled' = enrolled
  BY <1>1, TaskDeletes DEF HashDelete
<1>3. ASSUME NEW e \in Stored(job[t].request.uuid) PROVE Directory!Withdraw
  <2>1. e \in repo /\ Stored(job[t].request.uuid) = {e}
    BY <1>1, <1>3 DEF RegistryInv, RepositoryIsEnrolled, Stored
  <2> QED BY <1>2, <2>1 DEF Directory!Withdraw
<1> QED BY <1>2, <1>3

(* While nothing fails, the framework serves its agents as the abstract      *)
(* directory does, although every request takes a task of several repository *)
(* calls and the tasks of all threads interleave: the save of a registration *)
(* is where an agent is enrolled, the update of a device list where it is    *)
(* equipped, the delete where it leaves, and no other step is seen.  The     *)
(* same proviso on SIGINT.                                                   *)
THEOREM ServesAgentsAsDirectory ==
  ASSUME LeavesInPeace
  PROVE  Spec /\ [](faults = 0) => ServesAsDirectory
<1>1. Init => Directory!Init
  BY DEF Init, RegistryInit, Directory!Init
<1>2. PeaceInv /\ [Next]_vars /\ faults = 0 /\ (faults = 0)' =>
        [Directory!Next]_Directory!directoryVars
  <2> SUFFICES ASSUME PeaceInv, [Next]_vars, faults = 0, faults' = 0
               PROVE  Directory!Next \/ UNCHANGED Directory!directoryVars
    OBVIOUS
  <2>1. Calm /\ InPeace /\ RegistryInv /\ Connection
    BY CalmInPeace DEF Calm, ProvisioningInv, Undisturbed
  <2>2. QuietNext \/ UNCHANGED vars
    BY <2>1, QuietSteps
  <2>3. CASE UNCHANGED <<repo, enrolled>>
    BY <2>3 DEF Directory!directoryVars
  <2> QED
    BY <2>1, <2>2, <2>3, RepositoryMoves, SaveEnrols, UpdateEquips, DeleteWithdraws
    DEF Directory!Next
<1>3. PeaceInv /\ [Next]_vars => PeaceInv'
  BY PeaceStep
<1> QED
  BY PeaceInit, <1>1, <1>2, <1>3, PTL DEF Spec, ServesAsDirectory, Directory!Spec
=============================================================================
