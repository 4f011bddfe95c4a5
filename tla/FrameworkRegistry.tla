------------------------- MODULE FrameworkRegistry -------------------------
(***************************************************************************)
(* The framework manager: the MQTT listeners that serve agent registration, *)
(* device lists and deregistration on the threads of one executor, and the *)
(* Redis repository they share (package com.hpe.krakenmare).               *)
(*                                                                         *)
(* messageArrived only queues a task; the message is acknowledged to the   *)
(* broker before it is processed.  A task then runs on any thread, one     *)
(* repository call after the other, and interleaves with the tasks of the  *)
(* other threads.  An exception ends the task and is only logged: the      *)
(* requester gets no answer.                                               *)
(*                                                                         *)
(* UUID.randomUUID is external: its only property used is that no UUID is  *)
(* drawn twice, so the n-th agent created has uuid n (and, since create    *)
(* takes its id from the same Redis counter, id n) and the UUIDs the n-th  *)
(* device list receives are the number n; 0 is the empty device list, and  *)
(* as an agent uuid the "-1" that does not parse as a UUID.                *)
(*                                                                         *)
(* What the environment does is left open here: any request may arrive at  *)
(* any time, any number of times.                                          *)
(***************************************************************************)
EXTENDS Integers, Sequences, Identities

CONSTANT Threads    \* of the executor

VARIABLES
    link,       \* "down": not running, "up", "lost": running, not connected
    inbox,      \* tasks queued in the executor
    job,        \* what every thread is doing
    repo,       \* the hash myAgentsKey: a set of agents
    counter,    \* myCounterKey
    drawn,      \* device lists that have received UUIDs
    responses,  \* MQTT responses sent (history)
    kafka,      \* the events handed to the Kafka producer, in order
    enrolled,   \* the agents saved so far, as [uuid, uid] (history)
    leaving     \* the uuids whose deregistration was requested (history)

registryVars == <<link, inbox, job, repo, counter, drawn, responses, kafka,
                  enrolled, leaving>>

Requests ==
    [op : {"register"}, uid : Uids] \cup [op : {"devices", "deregister"}, uuid : Nat]

Responses ==
         [op : {"register"}, uid : Uids, uuid : Nat]
    \cup [op : {"devices"}, uuid : Nat, devices : Nat]
    \cup [op : {"deregister"}, uuid : Nat, success : BOOLEAN]

Events ==
         [op : {"devices"}, uuid : Nat, devices : Nat]
    \cup [op : {"deregister"}, uuid : Nat, success : BOOLEAN]

Agents == [uuid : Nat, uid : Uids, devices : Nat]

Steps == {"create", "save", "get", "update", "delete", "respond", "kafka"}

(* A task: its request, the step it is at, the agent it created or read and  *)
(* has changed since, and what delete returned.                              *)
NoAgent == [uuid |-> 0]

Jobs == [step : Steps, request : Requests, agent : Agents \cup {NoAgent},
         success : BOOLEAN]

Idle == [step |-> "idle"]

RegistryTypeOK ==
    /\ link \in {"down", "up", "lost"}
    /\ inbox \in Seq(Requests)
    /\ job \in [Threads -> Jobs \cup {Idle}]
    /\ repo \in SUBSET Agents
    /\ counter \in Nat
    /\ drawn \in Nat
    /\ responses \in SUBSET Responses
    /\ kafka \in Seq(Events)
    /\ enrolled \in SUBSET [uuid : Nat, uid : Uids]
    /\ leaving \in SUBSET Nat

RegistryInit ==
    /\ link = "down"
    /\ inbox = << >>
    /\ job = [t \in Threads |-> Idle]
    /\ repo = {}
    /\ counter = 0
    /\ drawn = 0
    /\ responses = {}
    /\ kafka = << >>
    /\ enrolled = {}
    /\ leaving = {}

----------------------------------------------------------------------------
(* The repository (AgentRedisRepository): one Redis command each.            *)
Stored(uuid) == {a \in repo : a.uuid = uuid}

(* Mutant of HashSet: the old value of the field stays.                      *)
HashSetAppends(agent) == repo' = repo \cup {agent}

HashSet(agent) == repo' = (repo \ Stored(agent.uuid)) \cup {agent}

HashDelete(uuid) == repo' = repo \ Stored(uuid)

At(t, step) == job[t].step = step

Op(t) == job[t].request.op

GoTo(t, step) == job' = [job EXCEPT ![t].step = step]

Quit(t) == job' = [job EXCEPT ![t] = Idle]

----------------------------------------------------------------------------
(* messageArrived: a task is queued for the message.                         *)
MessageArrived(request) ==
    /\ link = "up"
    /\ inbox' = Append(inbox, request)
    /\ leaving' = IF request.op = "deregister" THEN leaving \cup {request.uuid}
                  ELSE leaving
    /\ UNCHANGED <<link, job, repo, counter, drawn, responses, kafka, enrolled>>

(* A thread takes the oldest task and deserializes its payload; the uuid     *)
(* "-1" does not deserialize.                                                *)
Decodes(request) == request.op = "register" \/ request.uuid # 0

(* Mutant of FirstStep: a deregistration is answered and nothing else.       *)
FirstStepOnlyAnswers(request) ==
    CASE request.op = "register" -> "create"
      [] request.op = "devices" -> "get"
      [] request.op = "deregister" -> "respond"

FirstStep(request) == IF request.op = "register" THEN "create" ELSE "get"

Start(t) ==
    /\ job[t] = Idle
    /\ inbox # << >>
    /\ inbox' = Tail(inbox)
    /\ IF Decodes(Head(inbox))
       THEN job' = [job EXCEPT ![t] = [step    |-> FirstStep(Head(inbox)),
                                       request |-> Head(inbox),
                                       agent   |-> NoAgent,
                                       success |-> FALSE]]
       ELSE UNCHANGED job
    /\ UNCHANGED <<link, repo, counter, drawn, responses, kafka, enrolled, leaving>>

(* Mutant of Create: the Redis counter is read but not incremented.          *)
CreateReads(t) ==
    /\ At(t, "create")
    /\ job' = [job EXCEPT ![t].step = "save",
                          ![t].agent = [uuid |-> counter + 1,
                                        uid |-> job[t].request.uid,
                                        devices |-> 0]]
    /\ UNCHANGED <<link, inbox, repo, counter, drawn, responses, kafka, enrolled, leaving>>

(* MqttRegistrationListener: a new agent for every request, whatever agents  *)
(* its uid already has.                                                      *)
Create(t) ==
    /\ At(t, "create")
    /\ counter' = counter + 1
    /\ job' = [job EXCEPT ![t].step = "save",
                          ![t].agent = [uuid |-> counter',
                                        uid |-> job[t].request.uid,
                                        devices |-> 0]]
    /\ UNCHANGED <<link, inbox, repo, drawn, responses, kafka, enrolled, leaving>>

(* Mutant of Save: a uid already there is not saved again, but the request   *)
(* is still answered with the new uuid.                                      *)
SaveOncePerUid(t) ==
    /\ At(t, "save")
    /\ IF \E a \in repo : a.uid = job[t].agent.uid
       THEN UNCHANGED repo
       ELSE HashSet(job[t].agent)
    /\ GoTo(t, "respond")
    /\ UNCHANGED <<link, inbox, counter, drawn, responses, kafka, enrolled, leaving>>

Save(t) ==
    /\ At(t, "save")
    /\ HashSet(job[t].agent)
    /\ enrolled' = enrolled \cup {[uuid |-> job[t].agent.uuid, uid |-> job[t].agent.uid]}
    /\ GoTo(t, "respond")
    /\ UNCHANGED <<link, inbox, counter, drawn, responses, kafka, leaving>>

(* Mutants of Get: a missing agent is not an error; the device list is       *)
(* answered without the update.                                              *)
GetIgnoresMissing(t) ==
    /\ At(t, "get")
    /\ \/ /\ Stored(job[t].request.uuid) = {}
          /\ GoTo(t, IF Op(t) = "devices" THEN "update" ELSE "delete")
       \/ \E agent \in Stored(job[t].request.uuid) :
            job' = [job EXCEPT ![t].step = IF Op(t) = "devices" THEN "update" ELSE "delete",
                               ![t].agent = agent]
    /\ UNCHANGED <<link, inbox, repo, counter, drawn, responses, kafka, enrolled, leaving>>

GetAnswersAtOnce(t) ==
    /\ At(t, "get")
    /\ IF Stored(job[t].request.uuid) = {}
       THEN Quit(t) /\ UNCHANGED drawn
       ELSE \E agent \in Stored(job[t].request.uuid) :
              IF Op(t) = "devices"
              THEN /\ drawn' = drawn + 1
                   /\ job' = [job EXCEPT ![t].step = "respond",
                                         ![t].agent = [agent EXCEPT !.devices = drawn']]
              ELSE /\ job' = [job EXCEPT ![t].step = "delete", ![t].agent = agent]
                   /\ UNCHANGED drawn
    /\ UNCHANGED <<link, inbox, repo, counter, responses, kafka, enrolled, leaving>>

(* MqttDeviceListListener draws the UUIDs and reads the agent;               *)
(* MqttDeregistrationListener reads it too.  An agent that is not there is   *)
(* an EntityNotFoundException.                                               *)
Get(t) ==
    /\ At(t, "get")
    /\ IF Stored(job[t].request.uuid) = {}
       THEN Quit(t) /\ UNCHANGED drawn
       ELSE \E agent \in Stored(job[t].request.uuid) :
              IF Op(t) = "devices"
              THEN /\ drawn' = drawn + 1
                   /\ job' = [job EXCEPT ![t].step = "update",
                                         ![t].agent = [agent EXCEPT !.devices = drawn']]
              ELSE /\ job' = [job EXCEPT ![t].step = "delete", ![t].agent = agent]
                   /\ UNCHANGED drawn
    /\ UNCHANGED <<link, inbox, repo, counter, responses, kafka, enrolled, leaving>>

(* update writes the whole agent back, and ignores that hset may report a    *)
(* new field: an agent deleted since the read is stored again.               *)
Update(t) ==
    /\ At(t, "update")
    /\ HashSet(job[t].agent)
    /\ GoTo(t, "respond")
    /\ UNCHANGED <<link, inbox, counter, drawn, responses, kafka, enrolled, leaving>>

(* Mutants of Delete: success is what the hash says after the deletion; all  *)
(* agents of the uid go.                                                     *)
DeleteAsksAfter(t) ==
    /\ At(t, "delete")
    /\ HashDelete(job[t].agent.uuid)
    /\ job' = [job EXCEPT ![t].step = "respond", ![t].success = FALSE]
    /\ UNCHANGED <<link, inbox, counter, drawn, responses, kafka, enrolled, leaving>>

DeleteByUid(t) ==
    /\ At(t, "delete")
    /\ repo' = {a \in repo : a.uid # job[t].agent.uid}
    /\ job' = [job EXCEPT ![t].step = "respond",
                          ![t].success = Stored(job[t].agent.uuid) # {}]
    /\ UNCHANGED <<link, inbox, counter, drawn, responses, kafka, enrolled, leaving>>

(* delete reports whether the field was there.                               *)
Delete(t) ==
    /\ At(t, "delete")
    /\ HashDelete(job[t].agent.uuid)
    /\ job' = [job EXCEPT ![t].step = "respond",
                          ![t].success = Stored(job[t].agent.uuid) # {}]
    /\ UNCHANGED <<link, inbox, counter, drawn, responses, kafka, enrolled, leaving>>

(* sendMqttResponse: publish throws while the client is not connected.       *)
Response(t) ==
    CASE Op(t) = "register" ->
           [op |-> "register", uid |-> job[t].request.uid, uuid |-> job[t].agent.uuid]
      [] Op(t) = "devices" ->
           [op |-> "devices", uuid |-> job[t].request.uuid, devices |-> job[t].agent.devices]
      [] Op(t) = "deregister" ->
           [op |-> "deregister", uuid |-> job[t].request.uuid, success |-> job[t].success]

Respond(t) ==
    /\ At(t, "respond")
    /\ link = "up"
    /\ responses' = responses \cup {Response(t)}
    /\ IF Op(t) = "register" THEN Quit(t) ELSE GoTo(t, "kafka")
    /\ UNCHANGED <<link, inbox, repo, counter, drawn, kafka, enrolled, leaving>>

RespondFails(t) ==
    /\ At(t, "respond")
    /\ link # "up"
    /\ Quit(t)
    /\ UNCHANGED <<link, inbox, repo, counter, drawn, responses, kafka, enrolled, leaving>>

(* sendKafkaMessage, for a device list or a deregistration.                  *)
SendKafka(t) ==
    /\ At(t, "kafka")
    /\ kafka' = Append(kafka, Response(t))
    /\ Quit(t)
    /\ UNCHANGED <<link, inbox, repo, counter, drawn, responses, enrolled, leaving>>

Work(t) ==
    Create(t) \/ Save(t) \/ Get(t) \/ Update(t) \/ Delete(t) \/ RespondFails(t)
    \/ SendKafka(t)

----------------------------------------------------------------------------
(* The client connects (FrameworkImpl.startFramework) or, after a loss,      *)
(* reconnects by itself; either way it then subscribes to the requests.      *)
Connect ==
    /\ link # "up"
    /\ link' = "up"
    /\ UNCHANGED <<inbox, job, repo, counter, drawn, responses, kafka, enrolled, leaving>>

ConnectionLost ==
    /\ link = "up"
    /\ link' = "lost"
    /\ UNCHANGED <<inbox, job, repo, counter, drawn, responses, kafka, enrolled, leaving>>

(* The process ends at any point: queued and running tasks are gone, Redis   *)
(* keeps the repository.                                                     *)
Crash ==
    /\ link # "down"
    /\ link' = "down"
    /\ inbox' = << >>
    /\ job' = [t \in Threads |-> Idle]
    /\ UNCHANGED <<repo, counter, drawn, responses, kafka, enrolled, leaving>>

RegistryNext ==
    \/ \E request \in Requests : MessageArrived(request)
    \/ \E t \in Threads : Start(t) \/ Work(t) \/ Respond(t)
    \/ Connect \/ ConnectionLost \/ Crash

RegistrySpec == RegistryInit /\ [][RegistryNext]_registryVars

----------------------------------------------------------------------------
(* An answered registration is kept: the uuid an agent was told stays in the *)
(* repository, under the uid it was given for, until a deregistration of     *)
(* that uuid is requested -- through concurrent tasks that write whole       *)
(* agents back, repeated requests, lost connections and crashes.             *)
AnswersAreKept ==
    \A r \in responses :
        r.op = "register" =>
            \/ \E a \in repo : a.uuid = r.uuid /\ a.uid = r.uid
            \/ r.uuid \in leaving

(* No two registrations are ever given one uuid, and the repository never    *)
(* holds two agents under one uuid.                                          *)
UuidsAreNotShared ==
    /\ \A r, s \in responses :
         r.op = "register" /\ s.op = "register" /\ r.uuid = s.uuid => r.uid = s.uid
    /\ \A a, b \in repo : a.uuid = b.uuid => a = b
=============================================================================
