# KrakenMare in TLA+

KrakenMare moves sensor readings from agents to Kafka.  Agents (Python) register
themselves and their devices with a framework manager (Java) over MQTT, then
publish batches of readings over MQTT; a fan-in gateway (Python) takes the batches
off MQTT and hands the records to Kafka.  This directory models the parts of the
repository that run concurrently or survive failures, checks them with TLC and
proves the central properties of some of them with TLAPS.

## 1. The system

| Component | State it keeps | Operations | Talks to |
|---|---|---|---|
| Telemetry sender (`simulator/IBswitchSimulator.py` send_data, `agent-python-module/agentcommon.py` mqtt_send_triplet_batch) | the batch being filled, message counter, one batch counter per subtopic, current subtopic | assemble and stamp a record list, append, flush, rotate, stop at a limit, stop at SIGINT | MQTT telemetry topics, QoS 0 |
| Fan-in gateway (`fanin/FanIn.py`), one process per subtopic | last batch counter per agent uuid, `done`, the time of the last message, produced and acknowledged counters, the producer's queue | start-up, poll, delivery callback and idle report (main thread); on_message and on_connect (network thread); SIGINT | MQTT, Kafka |
| Agent life cycle (`agentcommon.py`, `IBswitchSimulator.py`, `redfish/RedfishAgent.py`) | registration flags, uuid, topics, sensor UUID map, the topics to subscribe to again (`userdata`) | register, register devices, send, deregister, time out (main thread); on_message, on_connect (network thread) | MQTT requests and responses, QoS 2 |
| Framework manager, listeners (`framework/.../impl/*Listener.java`) | tasks of an executor with 128 threads | registration, device list, deregistration | MQTT, Redis, Kafka |
| Framework manager, repository (`AgentRedisRepository.java`) | a Redis hash uuid -> agent, a counter | create, save, get, update, delete | Redis |
| Framework manager, MQTT client (`FrameworkMqttClient.java`, `FrameworkImpl.java`, `Main.java`) | client, subscribers | start, stop, reconnect, shutdown hooks | MQTT |
| Python logger (`fanin/KrakenMareLogger.py`) | log files, backups, archives | open, write, roll over | file system |
| REST resource, container start-up, certificates, playbooks, configuration of third-party services | | | not modelled, see section 7 |

What is hard: two threads per agent that share attributes without a lock; many
executor threads that read an agent, change it and write all of it back; requests
that are acknowledged before they are processed and delivered again after a
reconnection because they are retained; telemetry that may be lost, numbered by a
counter read before the batch it ends up in is known; a bounded producer queue
drained by another thread.  `PROJECT.json` ("hazards") lists these at their lines,
each with the properties that would catch it, or with the reason why none does: several
are things the code does get wrong, and the properties then name them as exceptions.

What makes each part correct:

- sender: records are published once each and in full, subtopics are used evenly, a limit ends it;
- gateway: it reports a loss when and only when there was one; its counters account for every record it took; its idle report neither ends the process nor forgets the last counters but in named races (a uuid inserted under the iteration; a message that comes after the main loop's test of the timer has begun to succeed);
- framework: an answered registration is kept, uuids are not shared, a deregistered agent does not come back, the task interleavings look like a directory with atomic operations;
- agents: an agent that sends uses sensor UUIDs the repository has for it, each request is answered in the end, an agent that waits is subscribed to the topic of its answer, nobody waits for ever for a reason other than the faults named below;
- logger: what was logged recently is on disk, wherever a rollover is cut off.

## 2. Modules

| Module | Models | Extends |
|---|---|---|
| `BatchSender` | one agent's sending loop | |
| `FanIn` | what a message does to the counters and the producer, the producer's queue, delivery | |
| `FanInProcess` | one process of the gateway from start-up to its end: idle report against on_message, lost connections, SIGINT | |
| `BatchPipeline` | sender and gateway joined by lossy, ordered topics | BatchSender, FanIn |
| `Identities` | the agents' uids | |
| `FrameworkRegistry` | the listeners' tasks and the Redis repository, in an open environment | Identities |
| `Agent` | the two threads of an agent | Identities |
| `AgentDirectory` | abstract: what the framework promises, each request in one step | |
| `Provisioning` | agents, framework and broker joined by request and response topics | FrameworkRegistry, Agent |
| `FrameworkClient` | the framework's MQTT client from start to shutdown hooks | |
| `LogRotation` | the files of the compressing, rotating log handler | |
| `MCBatchSender`, `MCBatchPipeline`, `MCFanIn`, `MCProvisioning`, `MCFrameworkClient` | instances for TLC | |
| `FrameworkRegistryProofs`, `BatchPipelineProofs`, `ProvisioningProofs`, `FrameworkClientProofs`, `FanInProofs`, `FanInProcessProofs`, `LogRotationProofs` | theorems | the component |
| `UndisturbedProofs` | theorems about provisioning while nothing fails | ProvisioningProofs |

### How state and actions correspond to the code

`BatchSender`.  `record_list` is the list send_data assembles for one switch (two
metrics, hence ListRecords = 2), a record being its stamp: with
`--enableMQTTbatchesCounter` its value is the counter of the subtopic current at
that moment (IBswitchSimulator.py:462).  `FillBatch`, `FlushBatch` and `SendSingle` are
one turn of the loop of mqtt_send_triplet_batch: append only, append and publish a
full batch, publish at once when batching is off.  The test
`sys.getsizeof(myByteBatch) >= 512` counts records, since the size of a list
depends on its length only: it is crossed at 47 (the figure of FanIn.py:262).
`Finish` is the branch of line 475, `Interrupt` the signal handler.  `published` is
a history variable.

`FanIn`.  `OnMessage` is the head of mqtt_on_message, `LoopRecord` one turn of its
loop (the check of lines 197-211, then produce), `CountProduced` the `kafka_msg_counter += 1`
after it: a step of its own, since the brokers and the main thread may already deal with
the record (`producing` is the place in between).  `ProduceRefused` is a BufferError, which a full
queue always raises, or a KafkaException, which may come at any time.  `Poll` is one call of
kafka_producer_on_delivery from the main loop's poll.  The producer is external: its queue holds at
most QueueLimit messages, counting those whose report was not yet polled, as librdkafka
does; `BrokerStores` and `DeliveryFails` are what the brokers do.  `alarmed`: ATTENTION
was printed for the current message.

`FanInProcess`.  `main` is where the main thread is: the start-up calls of FanIn.run, the
loop, its idle test, the iteration of the idle report or the SIGINT handler (`Interrupt`,
`Close`).  The test of line 462 takes the lock-free reads one at a time: mqttMsgTimer
(`ReadTimer`), the clock (`ReadClock`), then done (`BeginReport`, or `NoReport`); a report prints
one counter (`PrintCounter`) and then raises done (`RaiseDone`) until the iteration ends
(`EndReport`).  `callback` is what is left of mqtt_on_message: the counter is assigned
(`CheckCounter`) after `done` was reset (`OnMessage`) and before the timer is set
(`LeaveOnMessage`), and any of these may fall between any two steps of the main thread.
Python raises a RuntimeError when the dictionary changed size under the iteration
(`ReportFails`), which ends the main thread and the process.
`quiet` is the comparison of the timer with ten seconds; `timerRead` the same of the value
the main thread has read, which the network thread may have renewed since: its age is then
unknown and `ReadClock` may find it either way.  `Reconnected` is paho's automatic
reconnection with mqtt_on_connect, which subscribes again (the session is clean); a connection
without the subscription counts as lost.  `printed` and `timely` are history variables.

`FrameworkRegistry`.  A message becomes a task in `inbox` (messageArrived); a thread
takes it (`Start`) and performs one repository call per action: `Create` and `Save` for
a registration, `Get` and `Update` for a device list, `Get` and `Delete` for a
deregistration; then `Respond` (or `RespondFails` when the client is not connected,
which ends the task) and `SendKafka`.  `repo` is the Redis hash.  A uuid is the
counter's value at its creation (only their being distinct is used); the UUIDs a
device list receives are one number.  `enrolled`, `leaving` and `responses` are history
variables.  Sending twice or in another order is not excluded: any request may
arrive at any time.

`Agent`.  `pc` is where the main thread is; `callback` what is left of mqtt_on_message
when an assignment of it may be seen by the main thread (the flag before the uuid
before the topics; the sensor map before its flag).  The simulator copies its sensor
UUIDs once (`StartSending`); an agent of `RedfishAgents` looks them up as it sends
(`LookUp`), under names made from the uuid it has at that moment, and dies of a KeyError
when that is no longer the uuid its device list was made with (`LookUpFails`).
`attached` is its connection; `userdata` holds the topics mqtt_on_connect subscribes to
(`Reattach`), which mqtt_on_message changes with the answer to the registration.

`Provisioning`.  `retained` are the requests published with the retain flag; `session`
is what the broker holds for the framework (fixed client id, clean session off);
each start and each reconnection subscribes again and `Resent` delivers all
retained requests once more.  `StartFramework` may lose messages of the session that
arrive before the listeners are registered (they go to the default callback).
`BrokerRestarts` cuts every connection; the broker comes back with its saved state or
without it (`BrokerForgets`: no retained request, no session, no subscription, no message).

`FrameworkClient`.  `monitor` is the lock of the synchronized methods start, addSubscriber
and stop; addSubscriber is two steps, the list (`AddToSubscribers`) and the subscription
(`Subscribe`).  `walk` is the iterator of connectComplete, which runs on paho's callback
thread without the monitor: `WalkFails` is the ConcurrentModificationException of
an addition.  What paho does is external: it shuts the connection down when a callback
throws, connects again only after the callback thread has ended its work, and completes a
disconnection only then too.  `granted` is forgotten when the broker restarts without its
saved state.  The hooks run when the Java process gets a signal or exits; in the container
the entry point's shell does not forward the one docker sends.  `Provisioning` sees of all
this `StartFramework`, `Reconnect` and `FrameworkFault`.

`LogRotation`.  A file is the segment it holds, a segment being what is written between
two openings of a new base file.  Each action is one call that changes the
directory: `RemoveTarget` and `Shift` are the library's loop over the backups (external),
`RemoveArchive`, `ShiftArchive`, `Compress` and `RemoveOldLog` that of doRollover.  The code
passes lines of text to a gzip file opened for bytes, which raises a TypeError
at the first line: `Compress` leaves an empty archive, keeps the old log and drops the
record that asked for the rollover.  Only a log without a line is compressed.

## 3. Runs

| Run | Bounds | What it shows |
|---|---|---|
| sender_unbatched | 4 subtopics, lists of 2, limit 13 | no record is lost or repeated and the sender stops, with a limit inside a list |
| pipeline_two_topics | 2 subtopics, lists of 2, batches of 3, limit 13, queue of 1 | the deployed shape (two subtopics, even lists, an odd batch size): ATTENTION exactly after a loss, even rotation, left-over batch published |
| fanin | three processes: batches without the check, pass-through, no `--batching`; queue of 2, 4 records each, 1 failed delivery each | the counters of the two threads and the queue agree at every step, also between produce and its count; everything settles |
| provisioning | a simulator and a RedfishAgent, 2 executor threads, no faults | the framework implements `AgentDirectory`; sensors known, Kafka told, agents get through |
| recovery | 1 RedfishAgent, 2 threads, 1 fault (crash, lost connection or restart of the broker, with or without its state), SIGINT at three places, time-outs | what was answered is kept, agents know who they are, a connected agent is subscribed to the answer it waits for, the registration and the device list are answered unless the broker forgot the request or the registration was answered twice; look-ups fail only after a second answer |
| client | 3 topics, 2 lost connections, shutdown anywhere | every subscription is renewed, whatever addSubscriber and the walk do to each other; the shutdown ends and closes the producer and the pool |
| gateway | 3 uuids, counters up to 2, 1 lost connection, SIGINT anywhere | which bursts have their final counters reported, that no report ends a process that knows all its agents |
| rotation | 3 backups, 8 segments, 2 crashes | what is recent is in a plain file, wherever the process dies in doRollover |
| pipeline_one_topic | violation: 1 subtopic, batches of 47, lists of 2, limit 141 | a loss goes unnoticed |
| signal_while_equipping | violation | SIGINT while waiting for devices: the deregistered agent is stored again |
| renewed_subscription | violation | a reconnection registers the same uid again |
| flag_before_uuid | violation | the device list is built before the uuid is set |

Why the bounds are enough.  With lists of 2 and batches of 3 every second flush
happens inside a list, on each subtopic in turn, from each starting subtopic, and a
limit of 13 leaves a partial batch; several losses in a row fit.  Two threads are the
least number that interleaves two tasks of one agent (`client`: two losses let
the broker forget the session before and during the walk, and three additions fall
before, into and after it); two agents the least that
could be confused with one another.  One fault is enough to separate a request's
acknowledgement from its processing, or its processing from its answer, and to
restart the broker at any of these points.  Three uuids (`gateway`) let a new one arrive
while the report has one behind it and one before it.  Three backups, two
crashes and eight segments (`rotation`) let a gap be shifted out at the end again, and a
further crash hit the rollover that meets it.  A batch of
47 records is cut from lists of two as one of 3 is: every other one ends inside a list.

CHECK_DEADLOCK is off everywhere because all these systems may end: a sender
stops at its limit, agents close, inputs are bounded.

Mutants: next to the definition it changes, each component module has the mutated
forms (`FinishDropsLeftOver`, `SaveOncePerUid`, ...) that a plausible slip in the code
would give; each property is violated by one of them.

## 4. Fairness

- `BatchSender`: the main thread keeps running (WF on its steps); SIGINT need not come.
- `MCFanIn`: the callback thread (the loop and the count after produce), the main loop's poll and the brokers keep going; no message need come, no delivery need fail.
- `Provisioning`: both threads of every agent, every executor thread, the broker's delivery and paho's automatic reconnection (WF each).  A sending agent need not stop, no signal or time-out need happen, and nothing restarts a crashed framework: the liveness properties assume that the framework ends up running (`EventuallyRegistered`) or connected (`RunsItsCourse`).
  mqtt_on_connect of an agent (`Reattach`) is part of its network thread: paho connects again by itself.
- `FanInProcess`: both threads go on and ten seconds pass; no message need come, no connection need be lost, nobody need interrupt.
- `FrameworkClient`: the main thread, the callback thread, paho's reconnection, the hooks and the broker's acknowledgements go on until the process ends; no connection need be lost, no shutdown need come.

## 5. What is proved

Every theorem is about the specification as it stands, for all values of the
constants that the named assumptions of the component modules allow
(`SenderAssumption`, `FanInAssumption`, `PipelineAssumption`, `ClientAssumption`,
`FanInProcessAssumption`, `LogRotationAssumption`; the other modules assume nothing).

`FrameworkRegistryProofs`, for any set of threads and uids and any requests:

- `TypeCorrect`: `RegistryTypeOK` always holds.  It is not inductive alone, since a save
  writes whatever the task carries; `JobsFit` adds what each step has in hand.
- `AnswersStayKept` and `UuidsStayApart`: from `RegistryInv`, which says that agents about to
  be saved are fresh (below the counter, not enrolled, different between threads)
  and that agents about to be written back are enrolled under their uuid and uid.
  So an update, however stale, stores an agent under an identity it already has, and
  only a deregistration, of a uuid in `leaving`, removes one.

`BatchPipelineProofs`, for any number of subtopics, list size, batch size and limit, and
any losses (batching and the batch check on, one gateway process per subtopic):

- `TypesCorrect`, `NothingStaysBehind`: from `BaseInv`, which adds to the two that a
  subtopic never has as many batches in flight as its counter says.
- `RotationIsEven`: `EvenRotation` compares two counters and says nothing of where the
  sender is.  `RotationInv` does: taken in the order of their next turns, the counters
  never decrease and never exceed the current subtopic's by more than one (`InTurn`).
- `NoLossIsInvented` (if `BatchRecords >= ListRecords`): `DetectorInv` follows one stamp from
  the sender to the gateway.  `SenderStamps` says which counter the records of the
  batch being filled and of the rest of the list carry, `WireStamps` that a batch in
  flight carries stamps of its own number and of the one before and ends in its own
  (but for the left-over batch of a finished sender), `DetectorFollows` where the
  gateway's counter stands as it goes through the batch it took.  The condition is what
  the code satisfies (lists of 2, batches of 47) and is needed: with lists of three
  and batches of one on one subtopic, several batches carry the same stamp and the
  gateway reports a loss.
- `NoLossIsMissed`, under `WholeRounds` (a round of the subtopics takes a whole number of
  record lists: two subtopics, batches of 47 and lists of two do): `NoMissedLoss` is not inductive and has no simple cause, since lists do
  straddle batches.  The counter that stamps a list changes only when a round
  ends, though, and `Whole` says that what is left of the round is the list in hand and a
  whole number of lists: so the list in hand is empty when the round ends, every record
  carries the number of the batch it travels in (`SenderIsWhole`, `WireIsWhole`) and the
  first record of a batch shows the gateway every gap before it (`Aware`).  Without
  `WholeRounds` the property is false: the option's default of one subtopic with batches of
  47 is the counterexample of `pipeline_one_topic`.

`FanInProofs`, for any processes, queue, messages and failed deliveries:

- `BooksAgree`: `KafkaAccounts`, in which `Uncounted` stands for the record between produce and its
  count, is inductive once the counters are known to be numbers.  It follows that kafka_msg_counter
  never lags what was acknowledged and failed by more than that record.

`FanInProcessProofs`, for any agents, counters and lost connections:

- `TypeCorrect`: the report never looks for a uuid the dictionary does not have.
- `KnownAgentsKeepItAlive`: `OnceKnownStaysAlive` is a temporal formula; the proof shows that
  "all agents known and any report begun with all of them" is never left but for the closing of
  the process, since on_message can only insert a uuid that is missing.

`ProvisioningProofs`, for any agents, threads, signals, time-outs and faults:

- `ImplementsRegistry`: every step of `Provisioning` is a step of the framework manager's
  open specification or leaves its variables alone.  This needs an invariant too: the
  requests that the session, the retained set and the mailboxes hold are requests,
  so that what `Deliver` and `Resent` hand over is something the open environment can send.
- `AnswersStayKeptThroughout`: hence what was proved of the open specification holds
  of the whole system.
- `AgentsStayKnown`: `KnownAgents` from `AnswersAreKept` and `UuidsAreAnswers`: a uuid an agent
  goes by, or is about to, is one some answer to its own registration gave.
- `AgentsStayWithinReach`: `WithinReach` from `ReachInv`, which says of every connected agent what
  the broker's subscriptions are (those in `userdata` and those asked for since) and
  of every agent, connected or not, that `userdata` has the topics of the answer it waits for.
- `LookUpsGoOn`: `SendingGoesOn` from `SteadyInv`.  Every device list on its way, and every answer
  to one, carries a uuid with which some agent has built its device list (`DevicesAsked`,
  from the retained set to the responses); no two agents were given one uuid, so an answer on this
  agent's topic is to this agent's own request; it has sensor UUIDs (`NumbersFit`), and the
  flag that starts the sending comes after the map (`Steady`).  With one answer to the
  registration the uuid at a look-up is the one in the map's names.

`UndisturbedProofs`, for any agents, threads and interleaving, as long as no crash, lost
connection or broker restart has happened (`faults = 0`; TLC finds each of the four false with
`MaxFaults = 1`: a repeated request enrols an agent twice, a task ends before its event is sent):

- `StreamTellsAll`: `KafkaKnows`, if `LeavesOnce` (SIGINT comes before the agent has asked to
  leave, so it asks once).
- `SensorsStayKnown`: `SensorsKnown`, `NothingIsLeft`: `DeregisteredIsGone`, and
  `ServesAgentsAsDirectory`: the refinement `ServesAsDirectory`, if also SIGINT does not come
  while the agent waits for its devices (`LeavesInPeace`).  That condition is needed: the run
  `signal_while_equipping` shows the deregistered agent stored again without it.

The argument has two layers on top of `RegistryInv`, `ReachInv` and `SteadyInv`.  `Undisturbed` says
that every request is served once.  `Deliver` takes a request from the end of one queue to
another, so `inbox \o session` is the one queue all requests pass through; no request is in it
twice, or in it and in a thread's hands, or with two threads (`OnlyOnce`), and none is published
before its time (`PublishedInTime`).  The first start of the framework is the delicate step: it
delivers the retained requests, in any order, to a queue that is still empty (`Connection`,
`ResentOnce`).  From this, an agent is enrolled by the one task of its one registration
(`EnrolledByOne`) and equipped by the one task of its one device list (`EquippedByOne`), what the
repository holds is announced or in the hands of the task that will (`EventsFollow`), and what an
agent knows was answered under its own uuid (`SensorsAnswered`, `FarewellAnswered`).  `InPeace` adds,
under `LeavesInPeace`, that a deregistration follows the answer to the device list
(`LeavesAnswered`); so the agent a device task is about to write back is the one in the
repository (`EquipsThePresent`), which is what makes the update a step of `AgentDirectory`, and a
deleted one stays deleted (`LeaversAreGone`).  `ServesAgentsAsDirectory` then takes the steps one
by one: `SaveEnrols`, `UpdateEquips`, `DeleteWithdraws`, all others leave the directory alone.

`LogRotationProofs`, for any number of backups, rollovers and crashes:

- `TypeCorrect`: the numbers of files and archives stay in their ranges.
- `RotationKeepsRecent`: `RecentKept` from `NotTooFar` (the number of the file a segment is
  in never exceeds the segment's age by more than the crashes) and `Ahead` (the
  part of the directory the shift has not come to is not affected by it): so the one file
  that is removed, number `backupCount`, is old enough.

`FrameworkClientProofs`, for any request topics and any number of lost connections:

- `SubscribersServed`: `Served` speaks of a client with nothing left to do; `AskedSoFar`
  says how far the subscriptions are at any time: up to the walk's cursor, or
  without a walk up to the subscriber being added.  `WalkFits` (the cursor is not beyond
  the end the list had when the walk began) gives that a walk which misses an addition
  cannot end without the exception.

## 6. What is only model-checked

- All liveness properties and the fairness they rest on (TLAPS has no proof rules for
  ENABLED here).
  They are `Terminates`, `AllSettled`, `RunsItsCourse`, `EventuallyRegistered`,
  `EventuallyEquipped`, `StaysServed`, `ShutdownReleases` and `FinalCountersReported`.

## 7. Not modelled

- REST resource (one read of all agents), certificate scripts, playbooks, container start-up (shell loops that wait for a port): sequential code without shared state, or third-party configuration.
- The levels of the logger and a second handler of one name (`setLogger` called twice), which the class comment excludes.  The logger itself is used by its unit tests only.
- Kafka, ZooKeeper, the schema registry, Druid, Prometheus and Grafana: third-party images; only the producer's queue and delivery reports appear.
- A publish that fails although the client is connected: paho refuses one only when max_inflight (1024, `config.properties:19`) requests are unanswered, beyond any instance here.
- A second SIGINT while the handler of the first runs.
- The values of the simulated metrics, the Avro encoding, the wording of what is printed.

Noticed on the way, and not the subject of a run:

- FanIn.py:201 prints one too many missing batches for a uuid it knows (two when one was lost); line 211, for a new uuid, is right.
- FanIn.py:254 says "try again" when the producer's queue is full, but the record is dropped (`ProduceRefused`).
- FanIn.py:421: the SIGINT handler does not flush the producer.
- FanIn.py:165 calls the module `KrakenMareLogger` instead of the class in it: a TypeError as soon as `--logLevel` is given.
- KrakenMareLogger.py:69: "log file rotation with gzip compression" (line 41) never compresses a line, see `LogRotation`.

## 8. Status

The plan of the first version is carried out but for two items: the composition of
`FrameworkClient` with `Provisioning` (a framework that serves some of its topics; each
side is checked with the other abstracted) and the start-up order of the containers.
Every safety property of the passing runs, and the refinement of `AgentDirectory`, is the
subject of a theorem.  What would be worth proving next is what of `UndisturbedProofs` is left
after a fault: with a weaker directory, in which a uid may be enrolled again, the
tasks of a framework that lost its connection should still implement it.
