------------------------------- MODULE Agent -------------------------------
(***************************************************************************)
(* The life of the Python agents (AgentCommon with IBswitchSimulator or    *)
(* RedfishAgent): registration, device registration, sending,              *)
(* deregistration.  Each agent has two threads: the main thread, which     *)
(* publishes requests and polls flags until an answer has come, and the    *)
(* network thread, which runs mqtt_on_message.  They share attributes      *)
(* without a lock, so mqtt_on_message is modelled one assignment at a time *)
(* wherever the main thread can see the difference.  The two agents have   *)
(* the same handlers; a simulator copies its sensor UUIDs before it sends, *)
(* a RedfishAgent looks each of them up as it sends.                       *)
(*                                                                         *)
(* An agent is identified with its uid.  uuid 0 is the initial -1 of       *)
(* myAgent_uuid; topics = 0 says that the request topics, which            *)
(* mqtt_on_message derives from the uuid, are not yet attributes.          *)
(***************************************************************************)
EXTENDS Integers, Sequences, Identities

CONSTANTS
    RedfishAgents,  \* the agents that are RedfishAgents
    SignalPoints,   \* where SIGINT may reach the main thread
    MayTimeOut      \* whether the 300 polls of 0.1 s may pass unanswered

VARIABLES
    pc,                     \* of the main thread
    callback,               \* of the network thread: what is left of mqtt_on_message
    mailbox,                \* responses the broker has sent and not yet handled
    attached,               \* connected to the broker
    userdata,               \* the response topics on_connect subscribes to
    subscribed,             \* those the broker has, as [op, key]
    myMQTTregistered,
    myAgent_uuid,
    topics,                 \* the uuid in the request and response topics
    mapUuid,                \* the uuid create_my_device_map put in the device list
    myDeviceRegistered,
    myDeviceSensorUUIDsMap,
    sensor_uuid,            \* the sensor UUIDs send_data stamps its records with
    myMQTTderegistered

threadVars == <<pc, callback>>
mqttVars == <<attached, userdata, subscribed>>
attrVars == <<myMQTTregistered, myAgent_uuid, topics, mapUuid, myDeviceRegistered,
              myDeviceSensorUUIDsMap, sensor_uuid, myMQTTderegistered>>
agentVars == <<threadVars, mailbox, mqttVars, attrVars>>

Waiting == {"awaitRegistered", "awaitDevices", "awaitDeregistered"}
Ended == {"closed", "timedOut", "failed"}

Topic(op, key) == [op |-> op, key |-> key]

AgentInit ==
    /\ pc = [a \in Uids |-> "start"]
    /\ callback = [a \in Uids |-> [at |-> "none"]]
    /\ mailbox = [a \in Uids |-> << >>]
    /\ attached = [a \in Uids |-> FALSE]
    /\ userdata = [a \in Uids |-> {Topic("register", a)}]
    /\ subscribed = [a \in Uids |-> {}]
    /\ myMQTTregistered = [a \in Uids |-> FALSE]
    /\ myAgent_uuid = [a \in Uids |-> 0]
    /\ topics = [a \in Uids |-> 0]
    /\ mapUuid = [a \in Uids |-> 0]
    /\ myDeviceRegistered = [a \in Uids |-> FALSE]
    /\ myDeviceSensorUUIDsMap = [a \in Uids |-> 0]
    /\ sensor_uuid = [a \in Uids |-> 0]
    /\ myMQTTderegistered = [a \in Uids |-> FALSE]

Move(a, place) == pc' = [pc EXCEPT ![a] = place]

Subscribe(a, op, key) ==
    subscribed' = [subscribed EXCEPT ![a] = @ \cup {Topic(op, key)}]

----------------------------------------------------------------------------
(* The main thread.  Start is mqtt_init and the publication of               *)
(* mqtt_registration; the request is RegistrationRequest(a).                 *)
RegistrationRequest(a) == [op |-> "register", uid |-> a]
DevicesRequest(a) == [op |-> "devices", uuid |-> mapUuid[a]]
DeregistrationRequest(a) == [op |-> "deregister", uuid |-> myAgent_uuid[a]]

Register(a) ==
    /\ pc[a] = "start"
    /\ Move(a, "awaitRegistered")
    /\ attached' = [attached EXCEPT ![a] = TRUE]
    /\ Subscribe(a, "register", a)
    /\ UNCHANGED <<callback, mailbox, userdata, attrVars>>

(* The flag is up: create_my_device_map reads the uuid.                      *)
CreateDeviceMap(a) ==
    /\ pc[a] = "awaitRegistered"
    /\ myMQTTregistered[a]
    /\ Move(a, "mapped")
    /\ mapUuid' = [mapUuid EXCEPT ![a] = myAgent_uuid[a]]
    /\ UNCHANGED <<callback, mailbox, mqttVars, myMQTTregistered, myAgent_uuid,
                   topics, myDeviceRegistered, myDeviceSensorUUIDsMap,
                   sensor_uuid, myMQTTderegistered>>

(* create_my_device_map of a RedfishAgent asks the device first; when it     *)
(* does not answer, the result is used although it was never assigned.       *)
DeviceUnreachable(a) ==
    /\ a \in RedfishAgents
    /\ pc[a] = "awaitRegistered"
    /\ myMQTTregistered[a]
    /\ Move(a, "failed")
    /\ UNCHANGED <<callback, mailbox, mqttVars, attrVars>>

(* mqtt_device_registration subscribes, then publishes; without the topics   *)
(* its arguments raise an AttributeError.                                    *)
RegisterDevices(a) ==
    /\ pc[a] = "mapped"
    /\ topics[a] # 0
    /\ attached[a]
    /\ Move(a, "awaitDevices")
    /\ Subscribe(a, "devices", topics[a])
    /\ UNCHANGED <<callback, mailbox, attached, userdata, attrVars>>

NoTopicsYet(a) ==
    /\ pc[a] = "mapped"
    /\ topics[a] = 0
    /\ Move(a, "failed")
    /\ UNCHANGED <<callback, mailbox, mqttVars, attrVars>>

(* send_data of the simulator copies the sensor UUIDs once, before its       *)
(* endless loop ...                                                          *)
StartSending(a) ==
    /\ pc[a] = "awaitDevices"
    /\ myDeviceRegistered[a]
    /\ Move(a, "sending")
    /\ sensor_uuid' = IF a \in RedfishAgents
                      THEN sensor_uuid
                      ELSE [sensor_uuid EXCEPT ![a] = myDeviceSensorUUIDsMap[a]]
    /\ UNCHANGED <<callback, mailbox, mqttVars, myMQTTregistered, myAgent_uuid,
                   topics, mapUuid, myDeviceRegistered, myDeviceSensorUUIDsMap,
                   myMQTTderegistered>>

(* ... that of RedfishAgent looks them up for every record, under names that *)
(* begin with the uuid it has at that moment; the names in the map begin     *)
(* with the uuid it had in create_my_device_map.                             *)
Known(a) == myDeviceSensorUUIDsMap[a] # 0 /\ myAgent_uuid[a] = mapUuid[a]

LookUp(a) ==
    /\ a \in RedfishAgents
    /\ pc[a] = "sending"
    /\ Known(a)
    /\ sensor_uuid' = [sensor_uuid EXCEPT ![a] = myDeviceSensorUUIDsMap[a]]
    /\ UNCHANGED <<pc, callback, mailbox, mqttVars, myMQTTregistered, myAgent_uuid,
                   topics, mapUuid, myDeviceRegistered, myDeviceSensorUUIDsMap,
                   myMQTTderegistered>>

(* A KeyError, which ends the main thread and with it the process.           *)
LookUpFails(a) ==
    /\ a \in RedfishAgents
    /\ pc[a] = "sending"
    /\ ~Known(a)
    /\ Move(a, "failed")
    /\ UNCHANGED <<callback, mailbox, mqttVars, attrVars>>

(* The limit of mqtt_send_triplet_batch, or SIGINT: mqtt_deregistration      *)
(* subscribes, then publishes.  Before the topics exist the handler of the   *)
(* signal raises an AttributeError, and the process ends.                    *)
Leaving(a) == pc[a] = "sending" \/ pc[a] \in SignalPoints

Deregister(a) ==
    /\ Leaving(a)
    /\ topics[a] # 0
    /\ attached[a]
    /\ Move(a, "awaitDeregistered")
    /\ Subscribe(a, "deregister", topics[a])
    /\ UNCHANGED <<callback, mailbox, attached, userdata, attrVars>>

SignalTooEarly(a) ==
    /\ Leaving(a)
    /\ topics[a] = 0
    /\ Move(a, "failed")
    /\ UNCHANGED <<callback, mailbox, mqttVars, attrVars>>

Close(a) ==
    /\ pc[a] = "awaitDeregistered"
    /\ myMQTTderegistered[a]
    /\ Move(a, "closed")
    /\ UNCHANGED <<callback, mailbox, mqttVars, attrVars>>

Answered(a) ==
    \/ pc[a] = "awaitRegistered" /\ myMQTTregistered[a]
    \/ pc[a] = "awaitDevices" /\ myDeviceRegistered[a]
    \/ pc[a] = "awaitDeregistered" /\ myMQTTderegistered[a]

TimeOut(a) ==
    /\ MayTimeOut
    /\ pc[a] \in Waiting
    /\ ~Answered(a)
    /\ Move(a, "timedOut")
    /\ UNCHANGED <<callback, mailbox, mqttVars, attrVars>>

----------------------------------------------------------------------------
(* The network thread runs until the process ends.  A registration response  *)
(* raises the flag first, then sets the uuid, then the topics.               *)
Listening(a) == pc[a] \notin Ended \cup {"start"}

Resume(a, place, uuid) ==
    callback' = [callback EXCEPT ![a] = [at |-> place, uuid |-> uuid]]

Return(a) == callback' = [callback EXCEPT ![a] = [at |-> "none"]]

Takes(a, op) ==
    /\ Listening(a)
    /\ callback[a] = [at |-> "none"]
    /\ mailbox[a] # << >>
    /\ Head(mailbox[a]).op = op
    /\ mailbox' = [mailbox EXCEPT ![a] = Tail(@)]
    /\ UNCHANGED <<pc, mqttVars, mapUuid, sensor_uuid>>

RegistrationResult(a) ==
    /\ Takes(a, "register")
    /\ myMQTTregistered' = [myMQTTregistered EXCEPT ![a] = TRUE]
    /\ Resume(a, "setUuid", Head(mailbox[a]).uuid)
    /\ UNCHANGED <<myAgent_uuid, topics, myDeviceRegistered,
                   myDeviceSensorUUIDsMap, myMQTTderegistered>>

SetUuid(a) ==
    /\ Listening(a)
    /\ callback[a].at = "setUuid"
    /\ myAgent_uuid' = [myAgent_uuid EXCEPT ![a] = callback[a].uuid]
    /\ Resume(a, "setTopics", callback[a].uuid)
    /\ UNCHANGED <<pc, mailbox, mqttVars, myMQTTregistered, topics, mapUuid,
                   myDeviceRegistered, myDeviceSensorUUIDsMap, sensor_uuid,
                   myMQTTderegistered>>

(* Mutant of SetTopics: the new response topics are not added to userdata.   *)
SetTopicsOnly(a) ==
    /\ Listening(a)
    /\ callback[a].at = "setTopics"
    /\ topics' = [topics EXCEPT ![a] = callback[a].uuid]
    /\ Return(a)
    /\ UNCHANGED <<pc, mailbox, mqttVars, myMQTTregistered, myAgent_uuid, mapUuid,
                   myDeviceRegistered, myDeviceSensorUUIDsMap, sensor_uuid,
                   myMQTTderegistered>>

SetTopics(a) ==
    /\ Listening(a)
    /\ callback[a].at = "setTopics"
    /\ topics' = [topics EXCEPT ![a] = callback[a].uuid]
    /\ userdata' = [userdata EXCEPT ![a] = @ \cup {Topic("devices", callback[a].uuid),
                                                 Topic("deregister", callback[a].uuid)}]
    /\ Return(a)
    /\ UNCHANGED <<pc, mailbox, attached, subscribed, myMQTTregistered, myAgent_uuid, mapUuid,
                   myDeviceRegistered, myDeviceSensorUUIDsMap, sensor_uuid,
                   myMQTTderegistered>>

(* Mutant of DevicesResult: the map is assigned to a local name, without     *)
(* "self.".                                                                  *)
DevicesResultLocal(a) ==
    /\ Takes(a, "devices")
    /\ Head(mailbox[a]).uuid = topics[a]
    /\ Resume(a, "setDeviceFlag", Head(mailbox[a]).uuid)
    /\ UNCHANGED <<myMQTTregistered, myAgent_uuid, topics, myDeviceRegistered,
                   myDeviceSensorUUIDsMap, myMQTTderegistered>>

(* A device response of the current topic: the map, if the response is for   *)
(* this agent, then the flag whatever it is for.                             *)
DevicesResult(a) ==
    /\ Takes(a, "devices")
    /\ Head(mailbox[a]).uuid = topics[a]
    /\ myDeviceSensorUUIDsMap' =
         IF Head(mailbox[a]).uuid = myAgent_uuid[a]
         THEN [myDeviceSensorUUIDsMap EXCEPT ![a] = Head(mailbox[a]).devices]
         ELSE myDeviceSensorUUIDsMap
    /\ Resume(a, "setDeviceFlag", Head(mailbox[a]).uuid)
    /\ UNCHANGED <<myMQTTregistered, myAgent_uuid, topics, myDeviceRegistered,
                   myMQTTderegistered>>

SetDeviceFlag(a) ==
    /\ Listening(a)
    /\ callback[a].at = "setDeviceFlag"
    /\ myDeviceRegistered' = [myDeviceRegistered EXCEPT ![a] = TRUE]
    /\ Return(a)
    /\ UNCHANGED <<pc, mailbox, mqttVars, myMQTTregistered, myAgent_uuid, topics,
                   mapUuid, myDeviceSensorUUIDsMap, sensor_uuid, myMQTTderegistered>>

(* The flag goes up whether or not the response says success.                *)
DeregistrationResult(a) ==
    /\ Takes(a, "deregister")
    /\ Head(mailbox[a]).uuid = topics[a]
    /\ myMQTTderegistered' = [myMQTTderegistered EXCEPT ![a] = TRUE]
    /\ UNCHANGED <<callback, myMQTTregistered, myAgent_uuid, topics,
                   myDeviceRegistered, myDeviceSensorUUIDsMap>>

(* "Unknown topic": the response is for a topic the agent has left behind.   *)
UnknownTopic(a) ==
    /\ \/ Takes(a, "devices")
       \/ Takes(a, "deregister")
    /\ Head(mailbox[a]).uuid # topics[a]
    /\ UNCHANGED <<callback, myMQTTregistered, myAgent_uuid, topics,
                   myDeviceRegistered, myDeviceSensorUUIDsMap, myMQTTderegistered>>

(* paho connects again by itself; on_connect renews the subscriptions.       *)
Reattach(a) ==
    /\ Listening(a)
    /\ ~attached[a]
    /\ callback[a] = [at |-> "none"]
    /\ attached' = [attached EXCEPT ![a] = TRUE]
    /\ subscribed' = [subscribed EXCEPT ![a] = @ \cup userdata[a]]
    /\ UNCHANGED <<threadVars, mailbox, userdata, attrVars>>

NetworkThread(a) ==
    \/ Reattach(a)
    \/ RegistrationResult(a) \/ SetUuid(a) \/ SetTopics(a)
    \/ DevicesResult(a) \/ SetDeviceFlag(a)
    \/ DeregistrationResult(a) \/ UnknownTopic(a)

(* The steps of the main thread that publish nothing.                        *)
LocalStep(a) ==
    \/ CreateDeviceMap(a) \/ DeviceUnreachable(a) \/ NoTopicsYet(a)
    \/ StartSending(a) \/ LookUp(a) \/ LookUpFails(a)
    \/ SignalTooEarly(a) \/ Close(a) \/ TimeOut(a)
=============================================================================
