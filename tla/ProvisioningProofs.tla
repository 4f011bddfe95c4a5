------------------------- MODULE ProvisioningProofs -------------------------
(***************************************************************************)
(* Proofs about the agents and the framework manager together, for any     *)
(* agents, threads and faults: joined by the broker, the framework behaves *)
(* as it does in the open environment of RegistrySpec, so what is proved   *)
(* there holds here, and an agent that goes by a uuid is known under it,   *)
(* can be reached with the answer it waits for, and goes on sending.       *)
(***************************************************************************)
EXTENDS Provisioning, FrameworkRegistryProofs, FiniteSetTheorems

(* What the broker holds, and what has reached the agents.                   *)
BrokerFits ==
    /\ retained \subseteq Requests /\ IsFiniteSet(retained)
    /\ session \in Seq(Requests)

AnswerTopics == [op : {"register", "devices", "deregister"}, key : Uids \cup Nat]

AgentsFit ==
    /\ mailbox \in [Uids -> Seq(Responses)]
    /\ callback \in [Uids -> [at : {"setUuid", "setTopics", "setDeviceFlag"}, uuid : Nat]
                               \cup {[at |-> "none"]}]
    /\ myAgent_uuid \in [Uids -> Nat]
    /\ mapUuid \in [Uids -> Nat]
    /\ topics \in [Uids -> Nat]
    /\ subscribed \in [Uids -> SUBSET AnswerTopics]
    /\ userdata \in [Uids -> SUBSET AnswerTopics]

RegistrationOf(a, uuid) == [op |-> "register", uid |-> a, uuid |-> uuid]

(* A uuid an agent goes by was once the answer to its registration.          *)
UuidsAreAnswers ==
    \A a \in Uids :
        /\ \A s \in subscribed[a] \cup userdata[a] : s.op = "register" => s.key = a
        /\ \A i \in 1 .. Len(mailbox[a]) :
             mailbox[a][i].op = "register" =>
                 mailbox[a][i].uid = a /\ mailbox[a][i] \in responses
        /\ callback[a].at = "setUuid" => RegistrationOf(a, callback[a].uuid) \in responses
        /\ myAgent_uuid[a] # 0 => RegistrationOf(a, myAgent_uuid[a]) \in responses

ProvisioningInv ==
    /\ RegistryInv
    /\ BrokerFits
    /\ AgentsFit
    /\ UuidsAreAnswers

----------------------------------------------------------------------------
LEMMA ProvisioningInit == Init => ProvisioningInv
<1> SUFFICES ASSUME Init PROVE ProvisioningInv
  OBVIOUS
<1>1. RegistryInv
  BY InvInit DEF Init
<1>2. BrokerFits
  BY FS_EmptySet DEF Init, BrokerFits
<1>3. AgentsFit
  <2>1. \A a \in Uids : Topic("register", a) \in AnswerTopics
    BY DEF Topic, AnswerTopics
  <2> QED BY <2>1 DEF Init, AgentInit, AgentsFit
<1>4. UuidsAreAnswers
  <2>1. \A a \in Uids : /\ subscribed[a] = {} /\ mailbox[a] = << >>
                        /\ userdata[a] = {Topic("register", a)}
                        /\ callback[a].at = "none" /\ myAgent_uuid[a] = 0
    BY DEF Init, AgentInit
  <2>2. Len(<< >>) = 0 /\ 1 .. 0 = {}
    OBVIOUS
  <2>3. ASSUME NEW a \in Uids
        PROVE  \A s \in subscribed[a] \cup userdata[a] : s.op = "register" => s.key = a
    <3>1. subscribed[a] \cup userdata[a] = {Topic("register", a)}
      BY <2>1
    <3> QED BY <3>1 DEF Topic
  <2> QED BY <2>1, <2>2, <2>3 DEF UuidsAreAnswers
<1> QED BY <1>1, <1>2, <1>3, <1>4 DEF ProvisioningInv

(* Every step is one of the framework manager, or leaves it alone.           *)
LEMMA RegistryOrStutter ==
  ASSUME ProvisioningInv, [Next]_vars
  PROVE  [RegistryNext]_registryVars
<1>1. ASSUME NEW a \in Uids, AgentPublishes(a) \/ AgentStep(a)
      PROVE  UNCHANGED registryVars
  BY <1>1 DEF AgentPublishes, AgentStep
<1>2. CASE Deliver
  <2>1. Head(session) \in Requests
    BY <1>2 DEF Deliver, ProvisioningInv, BrokerFits
  <2> QED BY <1>2, <2>1 DEF Deliver, RegistryNext
<1>3. ASSUME NEW t \in Threads, FrameworkStep(t) \/ FrameworkAnswers(t)
      PROVE  RegistryNext
  BY <1>3 DEF FrameworkStep, FrameworkAnswers, RegistryNext
<1>4. CASE StartFramework \/ Reconnect \/ FrameworkFault \/ BrokerRestarts
  BY <1>4 DEF StartFramework, Reconnect, FrameworkFault, BrokerRestarts, RegistryNext
<1>5. CASE UNCHANGED vars
  BY <1>5 DEF vars
<1> QED BY <1>1, <1>2, <1>3, <1>4, <1>5 DEF Next, FrameworkActs

(* What a subscription brings is a sequence of retained requests.            *)
LEMMA ResentRetained == BrokerFits => Resent \in Seq(retained)
<1> SUFFICES ASSUME BrokerFits PROVE Resent \in Seq(retained)
  OBVIOUS
<1>1. ASSUME NEW op PROVE RetainedOf(op) \in Seq(retained)
  <2> DEFINE S == {r \in retained : r.op = op}
             n == Cardinality(S)
  <2>1. IsFiniteSet(S) /\ S \subseteq retained
    BY FS_Subset DEF BrokerFits
  <2> HIDE DEF S
  <2>2. n \in Nat /\ ExistsBijection(1 .. n, S)
    BY <2>1, FS_CardinalityType
  <2>3. \E f \in [1 .. n -> S] : IsInjective(f)
    BY <2>2 DEF ExistsBijection, Bijection, Injection
  <2>4. SetToSeq(S) \in [1 .. n -> S]
    BY <2>3 DEF SetToSeq
  <2>5. SetToSeq(S) \in [1 .. n -> retained]
    BY <2>1, <2>4
  <2>6. SetToSeq(S) \in Seq(retained)
    BY <2>2, <2>5
  <2> QED BY <2>6 DEF RetainedOf, S
<1> QED BY <1>1 DEF Resent

LEMMA ResentType == BrokerFits => Resent \in Seq(Requests)
<1> SUFFICES ASSUME BrokerFits PROVE Resent \in Seq(Requests)
  OBVIOUS
<1> DEFINE n == Len(Resent)
<1>1. n \in Nat /\ Resent \in [1 .. n -> retained]
  BY ResentRetained
<1>2. Resent \in [1 .. n -> Requests]
  BY <1>1 DEF BrokerFits
<1> QED BY <1>1, <1>2

LEMMA BrokerStep ==
  ASSUME ProvisioningInv, [Next]_vars
  PROVE  BrokerFits'
<1> USE DEF BrokerFits
<1>1. BrokerFits /\ AgentsFit /\ Resent \in Seq(Requests)
  BY ResentType DEF ProvisioningInv
<1>2. ASSUME NEW request \in Requests, Publish(request) PROVE BrokerFits'
  <2>1. IsFiniteSet(retained \cup {request})
    BY <1>1, FS_AddElement
  <2> QED BY <1>1, <1>2, <2>1 DEF Publish
<1>3. ASSUME NEW a \in Uids, AgentPublishes(a) PROVE BrokerFits'
  <2>1. RegistrationRequest(a) \in Requests
    BY DEF RegistrationRequest, Requests
  <2>2. DevicesRequest(a) \in Requests
    BY <1>1 DEF DevicesRequest, Requests, AgentsFit
  <2>3. DeregistrationRequest(a) \in Requests
    BY <1>1 DEF DeregistrationRequest, Requests, AgentsFit
  <2> QED BY <1>2, <1>3, <2>1, <2>2, <2>3 DEF AgentPublishes
<1>4. CASE Deliver
  BY <1>1, <1>4 DEF Deliver
<1>5. CASE StartFramework
  <2>1. PICK n \in 0 .. Len(session) :
            session' = SubSeq(session, n + 1, Len(session)) \o Resent
    BY <1>5 DEF StartFramework
  <2>2. SubSeq(session, n + 1, Len(session)) \in Seq(Requests)
    BY <1>1, <2>1
  <2> QED BY <1>1, <1>5, <2>1, <2>2 DEF StartFramework
<1>6. CASE Reconnect
  BY <1>1, <1>6 DEF Reconnect
<1>7. CASE UNCHANGED brokerVars
  BY <1>1, <1>7 DEF brokerVars
<1>8. CASE BrokerRestarts
  <2>1. CASE BrokerForgets
    <3>1. retained' = {} /\ session' = << >>
      BY <2>1 DEF BrokerForgets
    <3>2. IsFiniteSet({}) /\ << >> \in Seq(Requests)
      BY FS_EmptySet
    <3> QED BY <3>1, <3>2
  <2> QED BY <1>7, <1>8, <2>1 DEF BrokerRestarts
<1> QED
  BY <1>3, <1>4, <1>5, <1>6, <1>7, <1>8
  DEF Next, FrameworkActs, AgentStep, FrameworkStep, FrameworkAnswers, FrameworkFault, vars

----------------------------------------------------------------------------
(* What UuidsAreAnswers says of one agent.                                   *)
AnswerOf(a) ==
    /\ \A s \in subscribed[a] \cup userdata[a] : s.op = "register" => s.key = a
    /\ \A i \in 1 .. Len(mailbox[a]) :
         mailbox[a][i].op = "register" =>
             mailbox[a][i].uid = a /\ mailbox[a][i] \in responses
    /\ callback[a].at = "setUuid" => RegistrationOf(a, callback[a].uuid) \in responses
    /\ myAgent_uuid[a] # 0 => RegistrationOf(a, myAgent_uuid[a]) \in responses

LEMMA MainPublishes ==
  ASSUME AgentsFit, UuidsAreAnswers, responses' = responses, NEW a \in Uids,
         Register(a) \/ RegisterDevices(a) \/ Deregister(a)
  PROVE  AgentsFit' /\ UuidsAreAnswers'
<1>1. PICK new \in AnswerTopics :
          /\ subscribed' = [subscribed EXCEPT ![a] = @ \cup {new}]
          /\ new.op = "register" => new.key = a
  <2>1. /\ Topic("register", a) \in AnswerTopics
        /\ Topic("devices", topics[a]) \in AnswerTopics
        /\ Topic("deregister", topics[a]) \in AnswerTopics
    BY DEF Topic, AnswerTopics, AgentsFit
  <2> QED BY <2>1 DEF Register, RegisterDevices, Deregister, Subscribe, Topic
<1>2. UNCHANGED <<callback, mailbox, userdata, myAgent_uuid, mapUuid, topics>>
  BY DEF Register, RegisterDevices, Deregister, attrVars
<1>3. AgentsFit'
  BY <1>1, <1>2 DEF AgentsFit
<1>4. ASSUME NEW b \in Uids PROVE AnswerOf(b)'
  <2>1. AnswerOf(b)
    BY DEF AnswerOf, UuidsAreAnswers
  <2>2. \A s \in subscribed'[b] \cup userdata'[b] : s.op = "register" => s.key = b
    BY <1>1, <1>2, <2>1 DEF AgentsFit, AnswerOf
  <2> QED BY <1>2, <2>1, <2>2 DEF AnswerOf
<1> QED BY <1>3, <1>4 DEF UuidsAreAnswers, AnswerOf

(* A step of the main thread that publishes nothing.                         *)
LEMMA MainLocal ==
  ASSUME AgentsFit, UuidsAreAnswers, responses' = responses, NEW a \in Uids, LocalStep(a)
  PROVE  AgentsFit' /\ UuidsAreAnswers'
<1>1. UNCHANGED <<callback, mailbox, userdata, subscribed, myAgent_uuid, topics>>
  BY DEF LocalStep, CreateDeviceMap, DeviceUnreachable, NoTopicsYet,
         StartSending, LookUp, LookUpFails, SignalTooEarly, Close,
         TimeOut, attrVars, mqttVars
<1>2. mapUuid' \in [Uids -> Nat]
  <2>1. mapUuid' = mapUuid \/ mapUuid' = [mapUuid EXCEPT ![a] = myAgent_uuid[a]]
    BY DEF LocalStep, CreateDeviceMap, DeviceUnreachable, NoTopicsYet,
           StartSending, LookUp, LookUpFails, SignalTooEarly, Close,
           TimeOut, attrVars
  <2> QED BY <2>1 DEF AgentsFit
<1> QED BY <1>1, <1>2 DEF AgentsFit, UuidsAreAnswers

(* The network thread takes a response: its uuid is an answer to this agent. *)
LEMMA NetworkTakes ==
  ASSUME AgentsFit, UuidsAreAnswers, responses' = responses, NEW a \in Uids,
         NEW op, Takes(a, op),
         UNCHANGED <<myAgent_uuid, topics>>,
         \/ callback' = callback
         \/ op = "devices" /\ Resume(a, "setDeviceFlag", Head(mailbox[a]).uuid)
         \/ op = "register" /\ Resume(a, "setUuid", Head(mailbox[a]).uuid)
  PROVE  AgentsFit' /\ UuidsAreAnswers'
<1> DEFINE r == Head(mailbox[a])
           m == Tail(mailbox[a])
<1>1. /\ UNCHANGED <<subscribed, userdata, mapUuid>> /\ mailbox[a] # << >> /\ r.op = op
      /\ mailbox' = [mailbox EXCEPT ![a] = m]
  BY DEF Takes, mqttVars
<1>2. /\ mailbox[a] \in Seq(Responses) /\ m \in Seq(Responses) /\ r \in Responses
      /\ r = mailbox[a][1] /\ 1 \in 1 .. Len(mailbox[a])
      /\ \A i \in 1 .. Len(m) : m[i] = mailbox[a][i + 1] /\ i + 1 \in 1 .. Len(mailbox[a])
  BY <1>1 DEF AgentsFit
<1>3. r.uuid \in Nat
  BY <1>2 DEF Responses
<1>4. r.op = "register" => RegistrationOf(a, r.uuid) \in responses
  <2> SUFFICES ASSUME r.op = "register" PROVE RegistrationOf(a, r.uuid) \in responses
    OBVIOUS
  <2>1. r.uid = a /\ r \in responses
    BY <1>2 DEF UuidsAreAnswers
  <2>2. r \in [op : {"register"}, uid : Uids, uuid : Nat]
    BY <1>2 DEF Responses
  <2> HIDE DEF r
  <2>3. r = RegistrationOf(a, r.uuid)
    BY <2>1, <2>2 DEF RegistrationOf
  <2> QED BY <2>1, <2>3
<1> HIDE DEF r, m
<1>5. PICK c \in [at : {"setUuid", "setTopics", "setDeviceFlag"}, uuid : Nat] \cup {[at |-> "none"]} :
          /\ callback' = [callback EXCEPT ![a] = c]
          /\ c.at = "setUuid" => RegistrationOf(a, c.uuid) \in responses
  <2>1. CASE callback' = callback
    <3>1. callback' = [callback EXCEPT ![a] = callback[a]]
      BY <2>1 DEF AgentsFit
    <3> QED BY <3>1 DEF AgentsFit, UuidsAreAnswers
  <2>2. CASE op = "devices" /\ Resume(a, "setDeviceFlag", r.uuid)
    <3> DEFINE c == [at |-> "setDeviceFlag", uuid |-> r.uuid]
    <3>1. callback' = [callback EXCEPT ![a] = c] /\ c.at = "setDeviceFlag"
      BY <2>2 DEF Resume
    <3>2. c \in [at : {"setUuid", "setTopics", "setDeviceFlag"}, uuid : Nat]
      BY <1>3
    <3> HIDE DEF c
    <3> QED BY <3>1, <3>2
  <2>3. CASE op = "register" /\ Resume(a, "setUuid", r.uuid)
    <3> DEFINE c == [at |-> "setUuid", uuid |-> r.uuid]
    <3>1. callback' = [callback EXCEPT ![a] = c] /\ c.uuid = r.uuid
      BY <2>3 DEF Resume
    <3>2. c \in [at : {"setUuid", "setTopics", "setDeviceFlag"}, uuid : Nat]
      BY <1>3
    <3> HIDE DEF c
    <3> QED BY <1>1, <1>4, <2>3, <3>1, <3>2
  <2> QED BY <2>1, <2>2, <2>3 DEF r
<1>6. AgentsFit'
  BY <1>1, <1>2, <1>5 DEF AgentsFit
<1>7. ASSUME NEW b \in Uids PROVE AnswerOf(b)'
  <2>1. AnswerOf(b)
    BY DEF AnswerOf, UuidsAreAnswers
  <2>2. CASE b # a
    <3>1. callback'[b] = callback[b] /\ mailbox'[b] = mailbox[b]
      BY <1>1, <1>5, <2>2 DEF AgentsFit
    <3> QED BY <1>1, <2>1, <3>1 DEF AnswerOf
  <2>3. CASE b = a
    <3>1. callback'[a] = c /\ mailbox'[a] = m
      BY <1>1, <1>5 DEF AgentsFit
    <3>2. \A i \in 1 .. Len(m) : m[i].op = "register" => m[i].uid = a /\ m[i] \in responses
      BY <1>2, <2>1, <2>3 DEF AnswerOf
    <3> QED BY <1>1, <1>5, <2>1, <2>3, <3>1, <3>2 DEF AnswerOf
  <2> QED BY <2>2, <2>3
<1> QED BY <1>6, <1>7 DEF UuidsAreAnswers, AnswerOf

LEMMA NetworkStep ==
  ASSUME AgentsFit, UuidsAreAnswers, responses' = responses, NEW a \in Uids, NetworkThread(a)
  PROVE  AgentsFit' /\ UuidsAreAnswers'
<1>1. CASE RegistrationResult(a)
  BY <1>1, NetworkTakes DEF RegistrationResult
<1>2. CASE DevicesResult(a)
  BY <1>2, NetworkTakes DEF DevicesResult
<1>3. CASE DeregistrationResult(a) \/ UnknownTopic(a)
  BY <1>3, NetworkTakes DEF DeregistrationResult, UnknownTopic
<1> DEFINE place == callback[a].at
           uuid == callback[a].uuid
<1>4. place # "none" => uuid \in Nat
  BY DEF AgentsFit
<1>5. CASE SetUuid(a)
  <2>1. /\ uuid \in Nat /\ RegistrationOf(a, uuid) \in responses
    BY <1>4, <1>5 DEF SetUuid, UuidsAreAnswers
  <2> DEFINE c == [at |-> "setTopics", uuid |-> uuid]
  <2>2. /\ c \in [at : {"setUuid", "setTopics", "setDeviceFlag"}, uuid : Nat]
        /\ c.at # "setUuid"
    BY <2>1
  <2>3. /\ myAgent_uuid' = [myAgent_uuid EXCEPT ![a] = uuid]
        /\ callback' = [callback EXCEPT ![a] = c]
        /\ UNCHANGED <<mailbox, userdata, subscribed, topics, mapUuid>>
    BY <1>5 DEF SetUuid, Resume, mqttVars
  <2> HIDE DEF c, uuid
  <2>4. AgentsFit'
    BY <2>1, <2>2, <2>3 DEF AgentsFit
  <2>5. ASSUME NEW b \in Uids PROVE AnswerOf(b)'
    <3>1. AnswerOf(b)
      BY DEF AnswerOf, UuidsAreAnswers
    <3>2. CASE b # a
      <4>1. callback'[b] = callback[b] /\ myAgent_uuid'[b] = myAgent_uuid[b]
        BY <2>3, <3>2 DEF AgentsFit
      <4> QED BY <2>3, <3>1, <4>1 DEF AnswerOf
    <3>3. CASE b = a
      <4>1. callback'[a] = c /\ myAgent_uuid'[a] = uuid
        BY <2>3 DEF AgentsFit
      <4> QED BY <2>1, <2>2, <2>3, <3>1, <3>3, <4>1 DEF AnswerOf
    <3> QED BY <3>2, <3>3
  <2> QED BY <2>4, <2>5 DEF UuidsAreAnswers, AnswerOf
<1>6. CASE SetTopics(a) \/ SetDeviceFlag(a)
  <2>1. /\ callback' = [callback EXCEPT ![a] = [at |-> "none"]]
        /\ \/ uuid \in Nat /\ topics' = [topics EXCEPT ![a] = uuid]
           \/ topics' = topics
        /\ UNCHANGED <<mailbox, subscribed, mapUuid, myAgent_uuid>>
    BY <1>4, <1>6 DEF SetTopics, SetDeviceFlag, Return, mqttVars
  <2>5. PICK new \in SUBSET AnswerTopics :
            /\ userdata' = [userdata EXCEPT ![a] = @ \cup new]
            /\ \A s \in new : s.op # "register"
    <3>1. CASE SetDeviceFlag(a)
      <4>1. userdata' = userdata /\ {} \in SUBSET AnswerTopics
        BY <3>1 DEF SetDeviceFlag, mqttVars
      <4>2. userdata' = [userdata EXCEPT ![a] = userdata[a] \cup {}]
        BY <4>1 DEF AgentsFit
      <4> QED BY <4>1, <4>2
    <3>2. CASE SetTopics(a)
      <4> DEFINE new == {Topic("devices", uuid), Topic("deregister", uuid)}
      <4>1. uuid \in Nat
        BY <1>4, <3>2 DEF SetTopics
      <4>2. new \in SUBSET AnswerTopics /\ \A s \in new : s.op # "register"
        BY <4>1 DEF Topic, AnswerTopics
      <4>3. userdata' = [userdata EXCEPT ![a] = @ \cup new]
        BY <3>2 DEF SetTopics
      <4> HIDE DEF new
      <4> QED BY <4>2, <4>3
    <3> QED BY <1>6, <3>1, <3>2
  <2> HIDE DEF uuid
  <2>2. topics' \in [Uids -> Nat]
    BY <2>1 DEF AgentsFit
  <2>3. AgentsFit'
    BY <2>1, <2>2, <2>5 DEF AgentsFit
  <2>4. ASSUME NEW b \in Uids PROVE AnswerOf(b)'
    <3>1. AnswerOf(b)
      BY DEF AnswerOf, UuidsAreAnswers
    <3>2. callback'[b] = callback[b] \/ callback'[b].at # "setUuid"
      BY <2>1 DEF AgentsFit
    <3>3. \A s \in userdata'[b] : s.op = "register" => s \in userdata[b]
      BY <2>5 DEF AgentsFit
    <3> QED BY <2>1, <3>1, <3>2, <3>3 DEF AnswerOf
  <2> QED BY <2>3, <2>4 DEF UuidsAreAnswers, AnswerOf
<1>7. CASE Reattach(a)
  <2>1. /\ UNCHANGED <<callback, mailbox, userdata, myAgent_uuid, mapUuid, topics>>
        /\ subscribed' = [subscribed EXCEPT ![a] = @ \cup userdata[a]]
    BY <1>7 DEF Reattach, threadVars, attrVars
  <2>2. AgentsFit'
    BY <2>1 DEF AgentsFit
  <2>3. ASSUME NEW b \in Uids PROVE subscribed'[b] \subseteq subscribed[b] \cup userdata[b]
    BY <2>1 DEF AgentsFit
  <2> QED BY <2>1, <2>2, <2>3 DEF UuidsAreAnswers
<1> QED BY <1>1, <1>2, <1>3, <1>5, <1>6, <1>7 DEF NetworkThread

(* The framework answers: what arrives is a response now sent, and only the  *)
(* agent it is for subscribed to the topic of a registration's answer.       *)
LEMMA AnswerArrives ==
  ASSUME AgentsFit, UuidsAreAnswers, NEW t \in Threads, FrameworkAnswers(t),
         responses' \subseteq Responses
  PROVE  AgentsFit' /\ UuidsAreAnswers'
<1> DEFINE r == Response(t)
<1>1. /\ responses' = responses \cup {r}
      /\ mailbox' = [a \in Uids |-> IF ResponseTopic(r) \in subscribed[a]
                                    THEN Append(mailbox[a], r) ELSE mailbox[a]]
      /\ UNCHANGED <<callback, userdata, subscribed, myAgent_uuid, mapUuid, topics>>
  BY DEF FrameworkAnswers, Respond, threadVars, attrVars, mqttVars
<1> HIDE DEF r
<1>2. r \in Responses
  BY <1>1
<1>3. ASSUME NEW a \in Uids PROVE mailbox'[a] \in Seq(Responses)
  BY <1>1, <1>2 DEF AgentsFit
<1>4. AgentsFit'
  BY <1>1, <1>3 DEF AgentsFit
<1>5. ASSUME NEW a \in Uids PROVE AnswerOf(a)'
  <2>1. AnswerOf(a)
    BY DEF AnswerOf, UuidsAreAnswers
  <2>2. CASE ResponseTopic(r) \notin subscribed[a]
    <3>1. mailbox'[a] = mailbox[a]
      BY <1>1, <2>2
    <3> QED BY <1>1, <2>1, <3>1 DEF AnswerOf
  <2>3. CASE ResponseTopic(r) \in subscribed[a]
    <3>1. r.op = "register" => r.uid = a
      BY <2>1, <2>3 DEF AnswerOf, ResponseTopic
    <3>2. /\ mailbox[a] \in Seq(Responses) /\ mailbox'[a] = Append(mailbox[a], r)
      BY <1>1, <2>3 DEF AgentsFit
    <3>3. /\ Len(mailbox'[a]) = Len(mailbox[a]) + 1 /\ Len(mailbox[a]) \in Nat
          /\ mailbox'[a][Len(mailbox[a]) + 1] = r
          /\ \A i \in 1 .. Len(mailbox[a]) : mailbox'[a][i] = mailbox[a][i]
      BY <1>2, <3>2
    <3>4. ASSUME NEW i \in 1 .. Len(mailbox'[a]), mailbox'[a][i].op = "register"
          PROVE  mailbox'[a][i].uid = a /\ mailbox'[a][i] \in responses'
      <4>1. CASE i = Len(mailbox[a]) + 1
        BY <1>1, <3>1, <3>3, <3>4, <4>1
      <4>2. CASE i # Len(mailbox[a]) + 1
        <5>1. i \in 1 .. Len(mailbox[a])
          BY <3>3, <4>2
        <5> QED BY <1>1, <2>1, <3>3, <3>4, <5>1 DEF AnswerOf
      <4> QED BY <4>1, <4>2
    <3> QED BY <1>1, <2>1, <3>4 DEF AnswerOf
  <2> QED BY <2>2, <2>3
<1> QED BY <1>4, <1>5 DEF UuidsAreAnswers, AnswerOf

(* The broker restarts: what it forgets only makes subscriptions and         *)
(* mailboxes smaller.                                                        *)
LEMMA BrokerForgetsAnswers ==
  ASSUME AgentsFit, UuidsAreAnswers, responses' = responses, BrokerRestarts
  PROVE  AgentsFit' /\ UuidsAreAnswers'
<1>1. UNCHANGED <<callback, userdata, myAgent_uuid, mapUuid, topics>>
  BY DEF BrokerRestarts, threadVars, attrVars
<1>2. CASE UNCHANGED <<subscribed, mailbox>>
  BY <1>1, <1>2 DEF AgentsFit, UuidsAreAnswers
<1>3. CASE BrokerForgets
  <2>1. /\ subscribed' = [a \in Uids |-> {}] /\ mailbox' = [a \in Uids |-> << >>]
        /\ Len(<< >>) = 0 /\ 1 .. 0 = {}
    BY <1>3 DEF BrokerForgets
  <2>2. AgentsFit'
    BY <1>1, <2>1 DEF AgentsFit
  <2> QED BY <1>1, <2>1, <2>2 DEF UuidsAreAnswers
<1> QED BY <1>2, <1>3 DEF BrokerRestarts

LEMMA ProvisioningStep == ProvisioningInv /\ [Next]_vars => ProvisioningInv'
<1> SUFFICES ASSUME ProvisioningInv, [Next]_vars PROVE ProvisioningInv'
  OBVIOUS
<1>1. RegistryInv' /\ BrokerFits' /\ AgentsFit /\ UuidsAreAnswers
  BY RegistryOrStutter, InvStep, BrokerStep DEF ProvisioningInv
<1>2. AgentsFit' /\ UuidsAreAnswers'
  <2>1. ASSUME NEW a \in Uids, AgentPublishes(a) \/ AgentStep(a)
        PROVE  AgentsFit' /\ UuidsAreAnswers'
    BY <1>1, <2>1, MainPublishes, MainLocal, NetworkStep
    DEF AgentPublishes, AgentStep, registryVars
  <2>2. ASSUME NEW t \in Threads, FrameworkAnswers(t)
        PROVE  AgentsFit' /\ UuidsAreAnswers'
    <3>1. responses' \subseteq Responses
      BY <1>1 DEF RegistryInv, TypeInv, RegistryTypeOK
    <3> QED BY <1>1, <2>2, <3>1, AnswerArrives
  <2>3. CASE UNCHANGED agentVars /\ responses' = responses
    BY <1>1, <2>3 DEF agentVars, threadVars, attrVars, mqttVars, AgentsFit, UuidsAreAnswers
  <2>4. ASSUME NEW t \in Threads, FrameworkStep(t)
        PROVE  UNCHANGED agentVars /\ responses' = responses
    BY <2>4 DEF FrameworkStep, Start, Work, Create, Save, Get, Update, Delete,
                RespondFails, SendKafka
  <2>5. CASE Deliver \/ StartFramework \/ Reconnect \/ FrameworkFault
    BY <2>3, <2>5 DEF Deliver, MessageArrived, StartFramework, Reconnect, FrameworkFault,
                      Connect, ConnectionLost, Crash
  <2>6. CASE UNCHANGED vars
    BY <2>3, <2>6 DEF vars, registryVars
  <2>7. CASE BrokerRestarts
    BY <1>1, <2>7, BrokerForgetsAnswers DEF BrokerRestarts, ConnectionLost, registryVars
  <2> QED BY <2>1, <2>2, <2>3, <2>4, <2>5, <2>6, <2>7 DEF Next, FrameworkActs
<1> QED BY <1>1, <1>2 DEF ProvisioningInv

(* Joined to its agents by the broker, the framework manager does nothing it *)
(* does not do in the open environment: what arrives are requests, and the   *)
(* rest of the system leaves its state alone.                                *)
THEOREM ImplementsRegistry == Spec => RegistrySpec
<1>1. Init => RegistryInit
  BY DEF Init
<1>2. ProvisioningInv /\ [Next]_vars => [RegistryNext]_registryVars
  BY RegistryOrStutter
<1> QED
  BY ProvisioningInit, ProvisioningStep, <1>1, <1>2, PTL DEF Spec, RegistrySpec

(* So every answered registration is kept in the whole system.               *)
THEOREM AnswersStayKeptThroughout == Spec => []AnswersAreKept
  BY ImplementsRegistry, AnswersStayKept, PTL

(* An agent that has a uuid, and has not asked to leave, is held by the      *)
(* repository under this uuid and its own uid: through crashes of the        *)
(* framework manager, repeated registrations and late or repeated answers.   *)
THEOREM AgentsStayKnown == Spec => []KnownAgents
<1>1. ProvisioningInv /\ AnswersAreKept => KnownAgents
  BY DEF ProvisioningInv, UuidsAreAnswers, RegistrationOf, AnswersAreKept, KnownAgents
<1> QED
  BY ProvisioningInit, ProvisioningStep, AnswersStayKeptThroughout, <1>1, PTL DEF Spec

----------------------------------------------------------------------------
(* Why an agent that waits can be reached: the topics of an answer are in    *)
(* userdata as soon as the main thread can use them, and an agent that was   *)
(* answered once has no other uuid.                                          *)
Reach(a) ==
    /\ Topic("register", a) \in userdata[a]
    /\ topics[a] # 0 => /\ RegistrationOf(a, topics[a]) \in responses
                        /\ Topic("devices", topics[a]) \in userdata[a]
                        /\ Topic("deregister", topics[a]) \in userdata[a]
    /\ callback[a].at = "setTopics" => RegistrationOf(a, callback[a].uuid) \in responses
    /\ mapUuid[a] # 0 => RegistrationOf(a, mapUuid[a]) \in responses
    /\ attached[a] /\ pc[a] = "awaitRegistered" => Topic("register", a) \in subscribed[a]
    /\ ~AnsweredTwice(a) =>
         /\ pc[a] \in {"awaitDevices", "awaitDeregistered"} => topics[a] # 0
         /\ attached[a] /\ pc[a] = "awaitDevices" =>
                Topic("devices", topics[a]) \in subscribed[a]
         /\ attached[a] /\ pc[a] = "awaitDeregistered" =>
                Topic("deregister", topics[a]) \in subscribed[a]

Places == Waiting \cup Ended \cup {"start", "mapped", "sending"}

ReachInv ==
    /\ pc \in [Uids -> Places] /\ attached \in [Uids -> BOOLEAN]
    /\ \A a \in Uids : Reach(a)

LEMMA OneAnswer ==
  ASSUME NEW a, NEW u, NEW v, ~AnsweredTwice(a),
         RegistrationOf(a, u) \in responses, RegistrationOf(a, v) \in responses
  PROVE  u = v
<1>1. RegistrationOf(a, u) = RegistrationOf(a, v)
  BY DEF AnsweredTwice, RegistrationOf
<1>2. RegistrationOf(a, u).uuid = u /\ RegistrationOf(a, v).uuid = v
  BY DEF RegistrationOf
<1> QED BY <1>1, <1>2

LEMMA ReachInit == Init => ReachInv
<1> SUFFICES ASSUME Init PROVE ReachInv
  OBVIOUS
<1>1. /\ pc \in [Uids -> Places] /\ attached \in [Uids -> BOOLEAN]
      /\ \A a \in Uids : /\ pc[a] = "start" /\ attached[a] = FALSE /\ topics[a] = 0
                         /\ mapUuid[a] = 0 /\ callback[a].at = "none"
                         /\ userdata[a] = {Topic("register", a)}
  BY DEF Init, AgentInit, Places
<1> QED BY <1>1 DEF ReachInv, Reach

(* What leaves an agent within reach: a main thread that stays or stops      *)
(* waiting, subscriptions that grow, and connections that go.                *)
LEMMA ReachFrame ==
  ASSUME NEW a \in Uids, Reach(a), responses \subseteq responses',
         userdata'[a] = userdata[a], topics'[a] = topics[a], mapUuid'[a] = mapUuid[a],
         callback'[a] = callback[a] \/ callback'[a].at # "setTopics",
         pc'[a] = pc[a] \/ pc'[a] \notin Waiting,
         attached'[a] => attached[a] /\ subscribed[a] \subseteq subscribed'[a]
  PROVE  Reach(a)'
<1>1. AnsweredTwice(a) => AnsweredTwice(a)'
  BY DEF AnsweredTwice
<1> QED BY <1>1 DEF Reach, Waiting

LEMMA ReachPublishes ==
  ASSUME ReachInv, AgentsFit, responses' = responses, NEW a \in Uids,
         Register(a) \/ RegisterDevices(a) \/ Deregister(a)
  PROVE  ReachInv'
<1>1. UNCHANGED <<callback, userdata, mapUuid, topics>>
  BY DEF Register, RegisterDevices, Deregister, attrVars
<1>2. PICK place \in Waiting, new \in AnswerTopics :
          /\ pc' = [pc EXCEPT ![a] = place]
          /\ attached' = attached \/ attached' = [attached EXCEPT ![a] = TRUE]
          /\ subscribed' = [subscribed EXCEPT ![a] = @ \cup {new}]
          /\ place = "awaitRegistered" => new = Topic("register", a)
          /\ place = "awaitDevices" => new = Topic("devices", topics[a]) /\ topics[a] # 0
          /\ place = "awaitDeregistered" => new = Topic("deregister", topics[a]) /\ topics[a] # 0
  <2>1. /\ Topic("register", a) \in AnswerTopics
        /\ Topic("devices", topics[a]) \in AnswerTopics
        /\ Topic("deregister", topics[a]) \in AnswerTopics
    BY DEF Topic, AnswerTopics, AgentsFit
  <2> QED BY <2>1 DEF Register, RegisterDevices, Deregister, Move, Subscribe, Waiting
<1>3. pc' \in [Uids -> Places] /\ attached' \in [Uids -> BOOLEAN]
  <2>1. place \in Places
    BY <1>2 DEF Waiting, Places
  <2>2. pc' \in [Uids -> Places]
    BY <1>2, <2>1 DEF ReachInv
  <2>3. attached' \in [Uids -> BOOLEAN]
    BY <1>2 DEF ReachInv
  <2> QED BY <2>2, <2>3
<1>4. ASSUME NEW b \in Uids, b # a PROVE Reach(b)'
  <2>1. pc'[b] = pc[b] /\ attached'[b] = attached[b] /\ subscribed'[b] = subscribed[b]
    BY <1>2, <1>4 DEF ReachInv, AgentsFit
  <2> QED BY <1>1, <2>1, ReachFrame DEF ReachInv
<1>5. Reach(a)'
  <2>1. pc'[a] = place /\ new \in subscribed'[a]
    BY <1>2 DEF ReachInv, AgentsFit
  <2>2. AnsweredTwice(a)' = AnsweredTwice(a)
    BY DEF AnsweredTwice
  <2> QED BY <1>1, <1>2, <2>1, <2>2 DEF ReachInv, Reach, Waiting
<1> QED BY <1>3, <1>4, <1>5 DEF ReachInv

LEMMA ReachLocal ==
  ASSUME ReachInv, AgentsFit, UuidsAreAnswers, responses' = responses,
         NEW a \in Uids, LocalStep(a)
  PROVE  ReachInv'
<1>1. UNCHANGED <<callback, attached, userdata, subscribed, topics>>
  BY DEF LocalStep, CreateDeviceMap, DeviceUnreachable, NoTopicsYet, StartSending,
         LookUp, LookUpFails, SignalTooEarly, Close, TimeOut, attrVars, mqttVars
<1>2. PICK place \in Places :
          /\ pc' = [pc EXCEPT ![a] = place]
          /\ place = pc[a] \/ place \notin Waiting
  <2>1. {"failed", "mapped", "sending", "closed", "timedOut"} \subseteq Places \ Waiting
    BY DEF Places, Waiting, Ended
  <2>2. CASE pc' = pc
    BY <2>2 DEF ReachInv
  <2>3. CASE pc' # pc
    <3>1. \E place \in {"failed", "mapped", "sending", "closed", "timedOut"} : Move(a, place)
      BY <2>3 DEF LocalStep, CreateDeviceMap, DeviceUnreachable, NoTopicsYet, StartSending,
                  LookUp, LookUpFails, SignalTooEarly, Close, TimeOut
    <3> QED BY <2>1, <3>1 DEF Move
  <2> QED BY <2>2, <2>3
<1>3. mapUuid' = mapUuid \/ mapUuid' = [mapUuid EXCEPT ![a] = myAgent_uuid[a]]
  BY DEF LocalStep, CreateDeviceMap, DeviceUnreachable, NoTopicsYet, StartSending,
         LookUp, LookUpFails, SignalTooEarly, Close, TimeOut, attrVars
<1>4. pc' \in [Uids -> Places]
  BY <1>2 DEF ReachInv
<1>5. ASSUME NEW b \in Uids PROVE Reach(b)'
  <2>1. pc'[b] = pc[b] \/ pc'[b] \notin Waiting
    BY <1>2 DEF ReachInv
  <2>2. CASE mapUuid'[b] = mapUuid[b]
    BY <1>1, <2>1, <2>2, ReachFrame DEF ReachInv
  <2>3. CASE mapUuid'[b] = myAgent_uuid[b]
    <3>1. mapUuid'[b] # 0 => RegistrationOf(b, mapUuid'[b]) \in responses
      BY <2>3 DEF UuidsAreAnswers
    <3>2. AnsweredTwice(b)' = AnsweredTwice(b)
      BY DEF AnsweredTwice
    <3> QED BY <1>1, <2>1, <3>1, <3>2 DEF ReachInv, Reach, Waiting
  <2> QED BY <1>3, <2>2, <2>3 DEF AgentsFit
<1> QED BY <1>1, <1>4, <1>5 DEF ReachInv

LEMMA ReachNetwork ==
  ASSUME ReachInv, AgentsFit, UuidsAreAnswers, responses' = responses,
         NEW a \in Uids, NetworkThread(a)
  PROVE  ReachInv'
<1> DEFINE uuid == callback[a].uuid
<1>1. UNCHANGED <<pc, mapUuid>>
  BY DEF NetworkThread, Reattach, RegistrationResult, SetUuid, SetTopics, DevicesResult,
         SetDeviceFlag, DeregistrationResult, UnknownTopic, Takes, threadVars, attrVars
<1>2. AnsweredTwice(a)' = AnsweredTwice(a)
  BY DEF AnsweredTwice
<1>3. CASE SetTopics(a)
  <2>1. /\ topics' = [topics EXCEPT ![a] = uuid]
        /\ userdata' = [userdata EXCEPT ![a] = @ \cup {Topic("devices", uuid),
                                                     Topic("deregister", uuid)}]
        /\ callback' = [callback EXCEPT ![a] = [at |-> "none"]]
        /\ UNCHANGED <<attached, subscribed>>
    BY <1>3 DEF SetTopics, Return
  <2>2. RegistrationOf(a, uuid) \in responses
    BY <1>3 DEF SetTopics, ReachInv, Reach
  <2> HIDE DEF uuid
  <2>3. /\ topics'[a] = uuid /\ callback'[a] = [at |-> "none"]
        /\ userdata'[a] = userdata[a] \cup {Topic("devices", uuid), Topic("deregister", uuid)}
    BY <2>1 DEF AgentsFit
  <2>4. Reach(a)
    BY DEF ReachInv
  <2>5. ~AnsweredTwice(a) /\ topics[a] # 0 => topics[a] = uuid
    BY <2>2, <2>4, OneAnswer DEF Reach
  <2>6. Reach(a)'
    BY <1>1, <1>2, <2>1, <2>2, <2>3, <2>4, <2>5 DEF Reach
  <2>7. ASSUME NEW b \in Uids, b # a PROVE Reach(b)'
    <3>1. topics'[b] = topics[b] /\ userdata'[b] = userdata[b] /\ callback'[b] = callback[b]
      BY <2>1, <2>7 DEF AgentsFit
    <3> QED BY <1>1, <2>1, <3>1, ReachFrame DEF ReachInv
  <2> QED BY <1>1, <2>1, <2>6, <2>7 DEF ReachInv
<1>4. CASE Reattach(a)
  <2>1. /\ UNCHANGED <<callback, userdata, topics>>
        /\ attached' = [attached EXCEPT ![a] = TRUE]
        /\ subscribed' = [subscribed EXCEPT ![a] = @ \cup userdata[a]]
    BY <1>4 DEF Reattach, threadVars, attrVars
  <2>2. userdata[a] \subseteq subscribed'[a]
    BY <2>1 DEF AgentsFit
  <2>3. Reach(a)'
    BY <1>1, <1>2, <2>1, <2>2 DEF ReachInv, Reach
  <2>4. ASSUME NEW b \in Uids, b # a PROVE Reach(b)'
    <3>1. attached'[b] = attached[b] /\ subscribed'[b] = subscribed[b]
      BY <2>1, <2>4 DEF AgentsFit, ReachInv
    <3> QED BY <1>1, <2>1, <3>1, ReachFrame DEF ReachInv
  <2>5. attached' \in [Uids -> BOOLEAN]
    BY <2>1 DEF ReachInv
  <2> QED BY <1>1, <2>3, <2>4, <2>5 DEF ReachInv
<1>5. CASE SetUuid(a)
  <2>1. /\ callback' = [callback EXCEPT ![a] = [at |-> "setTopics", uuid |-> uuid]]
        /\ UNCHANGED <<attached, subscribed, userdata, topics>>
    BY <1>5 DEF SetUuid, Resume, mqttVars
  <2>2. RegistrationOf(a, uuid) \in responses
    BY <1>5 DEF SetUuid, UuidsAreAnswers
  <2> HIDE DEF uuid
  <2>3. callback'[a] = [at |-> "setTopics", uuid |-> uuid]
    BY <2>1 DEF AgentsFit
  <2>4. Reach(a)'
    BY <1>1, <1>2, <2>1, <2>2, <2>3 DEF ReachInv, Reach
  <2>5. ASSUME NEW b \in Uids, b # a PROVE Reach(b)'
    <3>1. callback'[b] = callback[b]
      BY <2>1, <2>5 DEF AgentsFit
    <3> QED BY <1>1, <2>1, <3>1, ReachFrame DEF ReachInv
  <2> QED BY <1>1, <2>1, <2>4, <2>5 DEF ReachInv
<1>6. CASE \/ RegistrationResult(a) \/ DevicesResult(a) \/ SetDeviceFlag(a)
           \/ DeregistrationResult(a) \/ UnknownTopic(a)
  <2>1. UNCHANGED <<attached, subscribed, userdata, topics>>
    BY <1>6 DEF RegistrationResult, DevicesResult, SetDeviceFlag, DeregistrationResult,
                UnknownTopic, Takes, mqttVars
  <2>2. ASSUME NEW b \in Uids PROVE callback'[b] = callback[b] \/ callback'[b].at # "setTopics"
    BY <1>6 DEF RegistrationResult, DevicesResult, SetDeviceFlag, DeregistrationResult,
                UnknownTopic, Resume, Return, AgentsFit
  <2>3. ASSUME NEW b \in Uids PROVE Reach(b)'
    BY <1>1, <2>1, <2>2, ReachFrame DEF ReachInv
  <2> QED BY <1>1, <2>1, <2>3 DEF ReachInv
<1> QED BY <1>3, <1>4, <1>5, <1>6 DEF NetworkThread

LEMMA ReachStep == ProvisioningInv /\ ReachInv /\ [Next]_vars => ReachInv'
<1> SUFFICES ASSUME ProvisioningInv, ReachInv, [Next]_vars PROVE ReachInv'
  OBVIOUS
<1>1. AgentsFit /\ UuidsAreAnswers
  BY DEF ProvisioningInv
<1>2. ASSUME NEW a \in Uids, AgentPublishes(a) \/ AgentStep(a) PROVE ReachInv'
  BY <1>1, <1>2, ReachPublishes, ReachLocal, ReachNetwork
  DEF AgentPublishes, AgentStep, registryVars
<1>3. CASE responses \subseteq responses' /\ UNCHANGED <<threadVars, mqttVars, attrVars>>
  BY <1>3, ReachFrame DEF ReachInv, threadVars, mqttVars, attrVars
<1>4. ASSUME NEW t \in Threads, FrameworkStep(t) \/ FrameworkAnswers(t) PROVE ReachInv'
  <2>1. UNCHANGED <<threadVars, mqttVars, attrVars>>
    BY <1>4 DEF FrameworkStep, FrameworkAnswers, agentVars
  <2>2. responses \subseteq responses'
    BY <1>4 DEF FrameworkStep, FrameworkAnswers, Start, Work, Create, Save, Get, Update, Delete,
                RespondFails, SendKafka, Respond
  <2> QED BY <1>3, <2>1, <2>2
<1>5. CASE Deliver \/ StartFramework \/ Reconnect \/ FrameworkFault
  BY <1>3, <1>5 DEF Deliver, MessageArrived, StartFramework, Reconnect, FrameworkFault,
                    Connect, ConnectionLost, Crash, agentVars
<1>6. CASE BrokerRestarts
  <2>1. /\ attached' = [a \in Uids |-> FALSE] /\ responses' = responses
        /\ UNCHANGED <<pc, callback, userdata, topics, mapUuid>>
    BY <1>6 DEF BrokerRestarts, ConnectionLost, registryVars, threadVars, attrVars
  <2>2. ASSUME NEW b \in Uids PROVE Reach(b)'
    BY <2>1, ReachFrame DEF ReachInv
  <2> QED BY <2>1, <2>2 DEF ReachInv
<1>7. CASE UNCHANGED vars
  BY <1>3, <1>7 DEF vars, registryVars, agentVars
<1> QED BY <1>2, <1>4, <1>5, <1>6, <1>7 DEF Next, FrameworkActs

(* An agent that is connected and waits for an answer is subscribed to the   *)
(* topic it comes on, for any agents, threads and faults: on_connect renews  *)
(* what mqtt_on_message adds to userdata.                                    *)
THEOREM AgentsStayWithinReach == Spec => []WithinReach
<1>1. ReachInv => WithinReach
  <2> SUFFICES ASSUME ReachInv, NEW a \in Uids, attached[a], ~AnsweredTwice(a)
               PROVE  /\ pc[a] = "awaitRegistered" => Topic("register", a) \in subscribed[a]
                      /\ pc[a] = "awaitDevices" /\ mapUuid[a] # 0 =>
                             Topic("devices", mapUuid[a]) \in subscribed[a]
                      /\ pc[a] = "awaitDeregistered" =>
                             Topic("deregister", topics[a]) \in subscribed[a]
    BY DEF WithinReach
  <2>1. Reach(a)
    BY DEF ReachInv
  <2>2. mapUuid[a] # 0 /\ topics[a] # 0 => mapUuid[a] = topics[a]
    BY <2>1, OneAnswer DEF Reach
  <2> QED BY <2>1, <2>2 DEF Reach
<1> QED
  BY ProvisioningInit, ProvisioningStep, ReachInit, ReachStep, <1>1, PTL DEF Spec
----------------------------------------------------------------------------
(* Why the look-ups of an agent that sends do not fail: a device list is     *)
(* answered only when an agent asked for it with a uuid of its own, and the  *)
(* answer has sensor UUIDs; its topic is this agent's only if it asked.      *)
Numbered(j) ==
    /\ j.step = "save" => j.agent.uuid # 0
    /\ j.step # "idle" /\ j.request.op = "devices" =>
         /\ j.request.uuid # 0
         /\ j.step \in {"update", "respond"} => j.agent.devices # 0

NumbersFit ==
    /\ \A e \in enrolled : e.uuid # 0
    /\ \A t \in Threads : Numbered(job[t])
    /\ \A r \in responses : r.op = "devices" => r.uuid # 0 /\ r.devices # 0

AskedFor(r) ==
    r.op = "devices" /\ r.uuid # 0 => \E b \in Uids : mapUuid[b] = r.uuid

DevicesAsked ==
    /\ \A r \in retained : AskedFor(r)
    /\ \A i \in 1 .. Len(session) : AskedFor(session[i])
    /\ \A i \in 1 .. Len(inbox) : AskedFor(inbox[i])
    /\ \A t \in Threads : job[t] # Idle => AskedFor(job[t].request)
    /\ \A r \in responses : AskedFor(r)

Equipped(a) ==
    myDeviceSensorUUIDsMap[a] # 0 /\ mapUuid[a] # 0 /\ topics[a] # 0

Steady(a) ==
    /\ pc[a] \in {"start", "awaitRegistered"} => mapUuid[a] = 0
    /\ topics[a] # 0 \/ callback[a].at = "setTopics" => myAgent_uuid[a] # 0
    /\ \A i \in 1 .. Len(mailbox[a]) : mailbox[a][i] \in responses
    /\ ~AnsweredTwice(a) =>
         (callback[a].at = "setDeviceFlag" \/ myDeviceRegistered[a] \/ pc[a] = "sending"
             => Equipped(a))

SteadyAgents ==
    /\ myDeviceSensorUUIDsMap \in [Uids -> Nat] /\ myDeviceRegistered \in [Uids -> BOOLEAN]
    /\ \A a \in Uids : Steady(a)

SteadyInv == NumbersFit /\ DevicesAsked /\ SteadyAgents

LEMMA SteadyInit == Init => SteadyInv
<1> SUFFICES ASSUME Init PROVE SteadyInv
  OBVIOUS
<1>1. /\ enrolled = {} /\ responses = {} /\ retained = {} /\ session = << >> /\ inbox = << >>
      /\ \A t \in Threads : job[t] = Idle
  BY DEF Init, RegistryInit
<1>2. Len(<< >>) = 0 /\ 1 .. 0 = {}
  OBVIOUS
<1>3. NumbersFit
  BY <1>1 DEF NumbersFit, Numbered, Idle
<1>4. DevicesAsked
  BY <1>1, <1>2 DEF DevicesAsked
<1>5. /\ myDeviceSensorUUIDsMap \in [Uids -> Nat] /\ myDeviceRegistered \in [Uids -> BOOLEAN]
      /\ \A a \in Uids : /\ pc[a] = "start" /\ mapUuid[a] = 0 /\ topics[a] = 0
                         /\ callback[a].at = "none" /\ mailbox[a] = << >>
                         /\ myDeviceRegistered[a] = FALSE
  BY DEF Init, AgentInit
<1>6. \A a \in Uids : Steady(a)
  BY <1>2, <1>5 DEF Steady
<1> QED BY <1>3, <1>4, <1>5, <1>6 DEF SteadyInv, SteadyAgents

(* The numbers the framework gives out count from one.                       *)
LEMMA NumbersStep ==
  ASSUME RegistryInv, NumbersFit, [RegistryNext]_registryVars
  PROVE  NumbersFit'
<1> USE DEF NumbersFit
<1>0. /\ job \in [Threads -> Jobs \cup {Idle}] /\ inbox \in Seq(Requests)
      /\ counter \in Nat /\ drawn \in Nat /\ JobsFit
  BY DEF RegistryInv, TypeInv, RegistryTypeOK
<1>1. CASE UNCHANGED <<job, enrolled, responses>>
  BY <1>1
<1>2. ASSUME NEW t \in Threads, job' = [job EXCEPT ![t] = Idle],
             UNCHANGED <<enrolled, responses>>
      PROVE  NumbersFit'
  BY <1>0, <1>2 DEF Numbered, Idle
<1>3. ASSUME NEW t \in Threads, Start(t) PROVE NumbersFit'
  <2>1. CASE Decodes(Head(inbox))
    <3> DEFINE new == [step |-> FirstStep(Head(inbox)), request |-> Head(inbox),
                       agent |-> NoAgent, success |-> FALSE]
    <3>1. job' = [job EXCEPT ![t] = new]
      BY <1>3, <2>1 DEF Start
    <3>2. Numbered(new)
      BY <2>1 DEF Numbered, Decodes, FirstStep
    <3> HIDE DEF new
    <3> QED BY <1>0, <1>3, <3>1, <3>2 DEF Start
  <2> QED BY <1>1, <1>3, <2>1 DEF Start
<1>4. ASSUME NEW t \in Threads, Create(t) PROVE NumbersFit'
  <2>1. job[t] \in Jobs /\ Op(t) = "register"
    BY <1>0, <1>4 DEF Create, At, Idle, JobsFit
  <2>2. /\ job'[t].step = "save" /\ job'[t].request = job[t].request
        /\ job'[t].agent.uuid = counter + 1
    BY <1>0, <1>4, <2>1 DEF Create, Jobs
  <2>3. Numbered(job'[t])
    BY <1>0, <2>1, <2>2 DEF Numbered, Op
  <2>4. \A u \in Threads \ {t} : job'[u] = job[u]
    BY <1>0, <1>4 DEF Create
  <2> QED BY <1>4, <2>3, <2>4 DEF Create
<1>5. ASSUME NEW t \in Threads, Save(t) PROVE NumbersFit'
  <2>1. job[t] \in Jobs /\ Op(t) = "register" /\ job[t].agent.uuid # 0
    BY <1>0, <1>5 DEF Save, At, Idle, JobsFit, Numbered
  <2>2. job'[t].step = "respond" /\ job'[t].request = job[t].request
    BY <1>0, <1>5, <2>1 DEF Save, GoTo, Jobs
  <2>3. Numbered(job'[t])
    BY <2>1, <2>2 DEF Numbered, Op
  <2>4. \A u \in Threads \ {t} : job'[u] = job[u]
    BY <1>0, <1>5 DEF Save, GoTo
  <2> QED BY <1>5, <2>1, <2>3, <2>4 DEF Save
<1>6. ASSUME NEW t \in Threads, Get(t) PROVE NumbersFit'
  <2>1. job[t] \in Jobs
    BY <1>0, <1>6 DEF Get, At, Idle
  <2>2. CASE Quit(t)
    BY <1>2, <1>6, <2>2 DEF Get, Quit
  <2>3. ASSUME NEW agent \in Stored(job[t].request.uuid), Op(t) = "devices",
               job' = [job EXCEPT ![t].step = "update",
                                  ![t].agent = [agent EXCEPT !.devices = drawn + 1]]
        PROVE  NumbersFit'
    <3>1. agent \in Agents
      BY <2>3 DEF Stored, RegistryInv, TypeInv, RegistryTypeOK
    <3>2. /\ job'[t].step = "update" /\ job'[t].request = job[t].request
          /\ job'[t].agent.devices = drawn + 1
      BY <1>0, <2>1, <2>3, <3>1 DEF Jobs, Agents
    <3>3. job[t].request.uuid # 0
      BY <1>6, <2>3 DEF Get, At, Op, Numbered
    <3>4. Numbered(job'[t])
      BY <1>0, <3>2, <3>3 DEF Numbered
    <3>5. \A u \in Threads \ {t} : job'[u] = job[u]
      BY <1>0, <2>3
    <3> QED BY <1>6, <3>4, <3>5 DEF Get
  <2>4. ASSUME NEW agent \in Stored(job[t].request.uuid), Op(t) # "devices",
               job' = [job EXCEPT ![t].step = "delete", ![t].agent = agent]
        PROVE  NumbersFit'
    <3>1. job'[t].step = "delete" /\ job'[t].request = job[t].request
      BY <1>0, <2>1, <2>4 DEF Jobs
    <3>2. Numbered(job'[t])
      BY <2>4, <3>1 DEF Numbered, Op
    <3>3. \A u \in Threads \ {t} : job'[u] = job[u]
      BY <1>0, <2>4
    <3> QED BY <1>6, <3>2, <3>3 DEF Get
  <2> QED BY <1>6, <2>2, <2>3, <2>4 DEF Get
<1>7. ASSUME NEW t \in Threads, Update(t) PROVE NumbersFit'
  <2>1. job[t] \in Jobs
    BY <1>0, <1>7 DEF Update, At, Idle
  <2>2. /\ job'[t].step = "respond" /\ job'[t].request = job[t].request
        /\ job'[t].agent = job[t].agent
    BY <1>0, <1>7, <2>1 DEF Update, GoTo, Jobs
  <2>3. Numbered(job'[t])
    BY <1>7, <2>2 DEF Update, At, Numbered
  <2>4. \A u \in Threads \ {t} : job'[u] = job[u]
    BY <1>0, <1>7 DEF Update, GoTo
  <2> QED BY <1>7, <2>3, <2>4 DEF Update
<1>8. ASSUME NEW t \in Threads, Delete(t) PROVE NumbersFit'
  <2>1. job[t] \in Jobs /\ Op(t) = "deregister"
    BY <1>0, <1>8 DEF Delete, At, Idle, JobsFit
  <2>2. job'[t].step = "respond" /\ job'[t].request = job[t].request
    BY <1>0, <1>8, <2>1 DEF Delete, Jobs
  <2>3. Numbered(job'[t])
    BY <2>1, <2>2 DEF Numbered, Op
  <2>4. \A u \in Threads \ {t} : job'[u] = job[u]
    BY <1>0, <1>8 DEF Delete
  <2> QED BY <1>8, <2>3, <2>4 DEF Delete
<1>9. ASSUME NEW t \in Threads, Respond(t) PROVE NumbersFit'
  <2>1. job[t] \in Jobs
    BY <1>0, <1>9 DEF Respond, At, Idle
  <2>2. Response(t).op = "devices" => Response(t).uuid # 0 /\ Response(t).devices # 0
    BY <1>9, <2>1 DEF Respond, Response, At, Op, Numbered, Jobs, Requests
  <2>3. Numbered(job'[t])
    <3>1. CASE Quit(t)
      BY <1>0, <3>1 DEF Quit, Numbered, Idle
    <3>2. CASE GoTo(t, "kafka")
      <4>1. job'[t].step = "kafka" /\ job'[t].request = job[t].request
        BY <1>0, <2>1, <3>2 DEF GoTo, Jobs
      <4> QED BY <1>9, <4>1 DEF Respond, At, Numbered
    <3> QED BY <1>9, <3>1, <3>2 DEF Respond
  <2>4. \A u \in Threads \ {t} : job'[u] = job[u]
    BY <1>0, <1>9 DEF Respond, GoTo, Quit
  <2> HIDE DEF Numbered
  <2> QED BY <1>9, <2>2, <2>3, <2>4 DEF Respond
<1>10. ASSUME NEW t \in Threads, RespondFails(t) \/ SendKafka(t) PROVE NumbersFit'
  BY <1>2, <1>10 DEF RespondFails, SendKafka, Quit
<1>11. CASE Crash
  BY <1>11 DEF Crash, Numbered, Idle
<1>12. CASE \/ \E request \in Requests : MessageArrived(request)
            \/ Connect \/ ConnectionLost \/ UNCHANGED registryVars
  BY <1>1, <1>12 DEF MessageArrived, Connect, ConnectionLost, registryVars
<1> QED
  BY <1>3, <1>4, <1>5, <1>6, <1>7, <1>8, <1>9, <1>10, <1>11, <1>12 DEF RegistryNext, Work

(* Every device list on its way, and every answer to one, was asked for by an *)
(* agent under a uuid that agent still builds its device list with.          *)
LEMMA AskedStep ==
  ASSUME ProvisioningInv, DevicesAsked, [Next]_vars,
         \A b \in Uids : mapUuid[b] # 0 => mapUuid'[b] = mapUuid[b]
  PROVE  DevicesAsked'
<1>0. /\ session \in Seq(Requests) /\ inbox \in Seq(Requests)
      /\ job \in [Threads -> Jobs \cup {Idle}]
  BY DEF ProvisioningInv, BrokerFits, RegistryInv, TypeInv, RegistryTypeOK
<1>1. ASSUME NEW r, AskedFor(r) PROVE AskedFor(r)'
  BY <1>1 DEF AskedFor
<1>15. \A b \in Uids : mapUuid[b] # 0 => mapUuid'[b] = mapUuid[b]
  OBVIOUS
<1> DEFINE InBroker == /\ \A r \in retained : AskedFor(r)
                       /\ \A i \in 1 .. Len(session) : AskedFor(session[i])
           InFramework == /\ \A i \in 1 .. Len(inbox) : AskedFor(inbox[i])
                          /\ \A t \in Threads : job[t] # Idle => AskedFor(job[t].request)
                          /\ \A r \in responses : AskedFor(r)
<1> SUFFICES InBroker' /\ InFramework'
  BY DEF DevicesAsked
<1>2. InBroker /\ InFramework
  BY DEF DevicesAsked
<1>3. ASSUME UNCHANGED brokerVars PROVE InBroker'
  <2>1. retained' = retained /\ session' = session
    BY <1>3 DEF brokerVars
  <2> QED BY <1>1, <1>2, <2>1
<1>4. ASSUME UNCHANGED registryVars PROVE InFramework'
  <2>1. inbox' = inbox /\ job' = job /\ responses' = responses
    BY <1>4 DEF registryVars
  <2> QED BY <1>1, <1>2, <2>1
<1>5. ASSUME NEW a \in Uids, AgentPublishes(a) PROVE InBroker' /\ InFramework'
  <2>1. PICK request :
            /\ Publish(request)
            /\ \/ request.op # "devices"
               \/ RegisterDevices(a) /\ request = DevicesRequest(a)
    BY <1>5 DEF AgentPublishes, RegistrationRequest, DeregistrationRequest
  <2>2. AskedFor(request)'
    <3>1. CASE request.op # "devices"
      BY <3>1 DEF AskedFor
    <3>2. CASE RegisterDevices(a) /\ request = DevicesRequest(a)
      <4>1. mapUuid' = mapUuid /\ request.uuid = mapUuid[a]
        BY <3>2 DEF RegisterDevices, attrVars, DevicesRequest
      <4> QED BY <4>1 DEF AskedFor
    <3> QED BY <2>1, <3>1, <3>2
  <2>3. /\ retained' = retained \cup {request}
        /\ session' = session \/ session' = Append(session, request)
    BY <2>1 DEF Publish
  <2>4. InBroker'
    BY <1>0, <1>1, <1>2, <2>2, <2>3
  <2> QED BY <1>4, <1>5, <2>4 DEF AgentPublishes
<1>6. CASE Deliver
  <2>1. /\ inbox' = Append(inbox, Head(session)) /\ session' = Tail(session)
        /\ session # << >> /\ retained' = retained /\ job' = job /\ responses' = responses
    BY <1>6 DEF Deliver, MessageArrived
  <2>2. AskedFor(Head(session))
    BY <1>0, <1>2, <2>1
  <2>3. InBroker'
    <3>1. \A i \in 1 .. Len(session') : session'[i] = session[i + 1] /\ i + 1 \in 1 .. Len(session)
      BY <1>0, <2>1
    <3> QED BY <1>1, <1>2, <2>1, <3>1
  <2>4. InFramework'
    <3>1. /\ Len(inbox') = Len(inbox) + 1 /\ inbox'[Len(inbox) + 1] = Head(session)
          /\ \A i \in 1 .. Len(inbox) : inbox'[i] = inbox[i]
      BY <1>0, <2>1
    <3>2. Len(inbox) \in Nat
      BY <1>0
    <3>3. \A i \in 1 .. Len(inbox') : i = Len(inbox) + 1 \/ i \in 1 .. Len(inbox)
      BY <3>1, <3>2
    <3> QED BY <1>1, <1>2, <2>1, <2>2, <3>1, <3>3
  <2> QED BY <2>3, <2>4
<1>7. ASSUME NEW t \in Threads, FrameworkStep(t) PROVE InBroker' /\ InFramework'
  <2>1. CASE Start(t)
    <3>1. /\ inbox # << >> /\ inbox' = Tail(inbox) /\ responses' = responses
          /\ \/ job' = job
             \/ \E new : job' = [job EXCEPT ![t] = new] /\ new.request = Head(inbox)
      <4> DEFINE new == [step |-> FirstStep(Head(inbox)), request |-> Head(inbox),
                         agent |-> NoAgent, success |-> FALSE]
      <4>1. job' = job \/ job' = [job EXCEPT ![t] = new]
        BY <2>1 DEF Start
      <4>2. new.request = Head(inbox)
        OBVIOUS
      <4> HIDE DEF new
      <4> QED BY <2>1, <4>1, <4>2 DEF Start
    <3>2. AskedFor(Head(inbox))
      BY <1>0, <1>2, <3>1
    <3>3. \A i \in 1 .. Len(inbox') : inbox'[i] = inbox[i + 1] /\ i + 1 \in 1 .. Len(inbox)
      BY <1>0, <3>1
    <3>4. \A u \in Threads : job'[u] = job[u] \/ job'[u].request = Head(inbox)
      BY <1>0, <3>1
    <3>5. InFramework'
      BY <1>1, <1>2, <3>1, <3>2, <3>3, <3>4
    <3> QED BY <1>3, <1>7, <3>5 DEF FrameworkStep
  <2>2. CASE Work(t)
    <3>1. inbox' = inbox /\ responses' = responses /\ \A u \in Threads \ {t} : job'[u] = job[u]
      BY <1>0, <2>2 DEF Work, Create, Save, Get, Update, Delete, RespondFails, SendKafka, GoTo, Quit
    <3>2. job[t] \in Jobs
      BY <1>0, <2>2 DEF Work, Create, Save, Get, Update, Delete, RespondFails, SendKafka, At, Idle
    <3>3. job'[t] = Idle \/ job'[t].request = job[t].request
      BY <1>0, <2>2, <3>2 DEF Work, Create, Save, Get, Update, Delete, RespondFails, SendKafka,
                              GoTo, Quit, Jobs
    <3>4. job[t] # Idle
      BY <3>2 DEF Jobs, Idle, Steps
    <3>5. InFramework'
      BY <1>1, <1>2, <3>1, <3>3, <3>4
    <3> QED BY <1>3, <1>7, <3>5 DEF FrameworkStep
  <2> QED BY <1>7, <2>1, <2>2 DEF FrameworkStep
<1>8. ASSUME NEW t \in Threads, FrameworkAnswers(t) PROVE InBroker' /\ InFramework'
  <2>1. /\ inbox' = inbox /\ responses' = responses \cup {Response(t)}
        /\ \A u \in Threads \ {t} : job'[u] = job[u]
    BY <1>0, <1>8 DEF FrameworkAnswers, Respond, GoTo, Quit
  <2>2. job[t] \in Jobs /\ job[t] # Idle
    BY <1>0, <1>8 DEF FrameworkAnswers, Respond, At, Idle
  <2>3. job'[t] = Idle \/ job'[t].request = job[t].request
    BY <1>0, <1>8, <2>2 DEF FrameworkAnswers, Respond, GoTo, Quit, Jobs
  <2>4. AskedFor(Response(t))
    <3>1. Response(t).op = "devices" => Op(t) = "devices" /\ Response(t).uuid = job[t].request.uuid
      BY <2>2 DEF Response, Op, Jobs, Requests
    <3> QED BY <1>2, <2>2, <3>1 DEF AskedFor, Op
  <2>5. InFramework'
    BY <1>1, <1>2, <2>1, <2>2, <2>3, <2>4
  <2> QED BY <1>3, <1>8, <2>5 DEF FrameworkAnswers
<1>9. CASE StartFramework \/ Reconnect
  <2>1. /\ inbox' = inbox /\ job' = job /\ responses' = responses /\ retained' = retained
        /\ \E n \in 0 .. Len(session) :
             session' = SubSeq(session, n + 1, Len(session)) \o Resent
    <3>1. SubSeq(session, 0 + 1, Len(session)) = session /\ 0 \in 0 .. Len(session)
      BY <1>0
    <3>2. UNCHANGED <<inbox, job, responses, retained>>
      BY <1>9 DEF StartFramework, Reconnect, Connect
    <3>3. CASE StartFramework
      BY <3>2, <3>3 DEF StartFramework
    <3>4. CASE Reconnect
      <4>1. session' = SubSeq(session, 0 + 1, Len(session)) \o Resent
        BY <3>1, <3>4 DEF Reconnect
      <4> QED BY <3>1, <3>2, <4>1
    <3> QED BY <1>9, <3>3, <3>4
  <2>2. PICK n \in 0 .. Len(session) :
            session' = SubSeq(session, n + 1, Len(session)) \o Resent
    BY <2>1
  <2>3. Resent \in Seq(retained)
    BY ResentRetained DEF ProvisioningInv
  <2> DEFINE rest == SubSeq(session, n + 1, Len(session))
  <2>4. /\ rest \in Seq(Requests) /\ Len(rest) \in Nat
        /\ \A i \in 1 .. Len(rest) : rest[i] = session[n + i] /\ n + i \in 1 .. Len(session)
    BY <1>0
  <2> HIDE DEF rest
  <2>5. ASSUME NEW i \in 1 .. Len(session') PROVE AskedFor(session'[i])
    <3>1. CASE i \in 1 .. Len(rest)
      <4>1. session'[i] = rest[i]
        BY <2>2, <2>3, <2>4, <3>1 DEF rest
      <4> QED BY <1>2, <2>4, <3>1, <4>1
    <3>2. CASE i \notin 1 .. Len(rest)
      <4>1. session'[i] \in retained
        BY <2>2, <2>3, <2>4, <3>2 DEF rest
      <4> QED BY <1>2, <4>1
    <3> QED BY <3>1, <3>2
  <2>6. InBroker'
    <3>1. (\A i \in 1 .. Len(session) : AskedFor(session[i]))'
      BY <1>15, <2>5 DEF AskedFor
    <3> QED BY <1>1, <1>2, <2>1, <3>1
  <2>7. InFramework'
    BY <1>1, <1>2, <2>1
  <2> QED BY <2>6, <2>7
<1>10. ASSUME ConnectionLost \/ Crash PROVE InFramework'
  <2>1. /\ responses' = responses
        /\ \/ inbox' = inbox /\ job' = job
           \/ inbox' = << >> /\ \A t \in Threads : job'[t] = Idle
    BY <1>10 DEF ConnectionLost, Crash
  <2>2. Len(<< >>) = 0 /\ 1 .. 0 = {}
    OBVIOUS
  <2> QED BY <1>1, <1>2, <2>1, <2>2 DEF Idle
<1>11. CASE FrameworkFault
  BY <1>3, <1>10, <1>11 DEF FrameworkFault
<1>12. CASE BrokerRestarts
  <2>1. InFramework'
    BY <1>4, <1>10, <1>12 DEF BrokerRestarts
  <2>2. CASE BrokerForgets
    <3>1. retained' = {} /\ session' = << >> /\ Len(<< >>) = 0 /\ 1 .. 0 = {}
      BY <2>2 DEF BrokerForgets
    <3>2. InBroker'
      BY <3>1
    <3> QED BY <2>1, <3>2
  <2> QED BY <1>3, <1>12, <2>1, <2>2 DEF BrokerRestarts
<1>13. ASSUME NEW a \in Uids, AgentStep(a) PROVE InBroker' /\ InFramework'
  BY <1>3, <1>4, <1>13 DEF AgentStep
<1>14. CASE UNCHANGED vars
  BY <1>3, <1>4, <1>14 DEF vars
<1> HIDE DEF InBroker, InFramework
<1> QED
  BY <1>5, <1>6, <1>7, <1>8, <1>9, <1>11, <1>12, <1>13, <1>14 DEF Next, FrameworkActs

(* What leaves an agent steady: a network thread that has not heard of       *)
(* devices, and a main thread that does not start to send.                   *)
LEMMA SteadyFrame ==
  ASSUME NEW a \in Uids, Steady(a), responses \subseteq responses',
         \/ pc'[a] = pc[a] \/ pc'[a] \notin {"start", "awaitRegistered", "sending"}
         \/ pc[a] = "start" /\ pc'[a] = "awaitRegistered",
         \/ callback'[a] = callback[a]
         \/ callback'[a].at \notin {"setTopics", "setDeviceFlag"},
         mapUuid'[a] = mapUuid[a], topics'[a] = topics[a],
         myAgent_uuid'[a] = myAgent_uuid[a], myDeviceRegistered'[a] = myDeviceRegistered[a],
         myDeviceSensorUUIDsMap'[a] = myDeviceSensorUUIDsMap[a],
         (\A i \in 1 .. Len(mailbox[a]) : mailbox[a][i] \in responses)'
  PROVE  Steady(a)'
<1>1. AnsweredTwice(a) => AnsweredTwice(a)'
  BY DEF AnsweredTwice
<1>2. Equipped(a)' = Equipped(a)
  BY DEF Equipped
<1> QED BY <1>1, <1>2 DEF Steady

LEMMA SteadyPublishes ==
  ASSUME SteadyAgents, ReachInv, AgentsFit, responses' = responses, NEW a \in Uids,
         Register(a) \/ RegisterDevices(a) \/ Deregister(a)
  PROVE  SteadyAgents' /\ mapUuid' = mapUuid
<1>1. UNCHANGED <<callback, mailbox, mapUuid, topics, myAgent_uuid, myDeviceRegistered,
                  myDeviceSensorUUIDsMap>>
  BY DEF Register, RegisterDevices, Deregister, attrVars
<1>2. \/ pc[a] = "start" /\ pc' = [pc EXCEPT ![a] = "awaitRegistered"]
      \/ pc' = [pc EXCEPT ![a] = "awaitDevices"]
      \/ pc' = [pc EXCEPT ![a] = "awaitDeregistered"]
  BY DEF Register, RegisterDevices, Deregister, Move
<1>3. ASSUME NEW b \in Uids PROVE Steady(b)'
  <2>1. \/ pc'[b] = pc[b] \/ pc'[b] \notin {"start", "awaitRegistered", "sending"}
        \/ pc[b] = "start" /\ pc'[b] = "awaitRegistered"
    BY <1>2 DEF ReachInv
  <2>2. Steady(b)
    BY DEF SteadyAgents
  <2>3. (\A i \in 1 .. Len(mailbox[b]) : mailbox[b][i] \in responses)'
    BY <1>1, <2>2 DEF Steady
  <2> QED BY <1>1, <2>1, <2>2, <2>3, SteadyFrame
<1> QED BY <1>1, <1>3 DEF SteadyAgents

LEMMA SteadyLocal ==
  ASSUME SteadyAgents, ReachInv, AgentsFit, responses' = responses, NEW a \in Uids, LocalStep(a)
  PROVE  SteadyAgents' /\ \A b \in Uids : mapUuid[b] # 0 => mapUuid'[b] = mapUuid[b]
<1>1. UNCHANGED <<callback, mailbox, topics, myAgent_uuid, myDeviceRegistered,
                  myDeviceSensorUUIDsMap>>
  BY DEF LocalStep, CreateDeviceMap, DeviceUnreachable, NoTopicsYet, StartSending,
         LookUp, LookUpFails, SignalTooEarly, Close, TimeOut, attrVars
<1>2. \/ /\ pc[a] = "awaitRegistered" /\ pc' = [pc EXCEPT ![a] = "mapped"]
         /\ mapUuid' = [mapUuid EXCEPT ![a] = myAgent_uuid[a]]
      \/ /\ myDeviceRegistered[a] /\ pc' = [pc EXCEPT ![a] = "sending"] /\ mapUuid' = mapUuid
      \/ /\ \/ pc' = pc
            \/ \E place \in {"failed", "closed", "timedOut"} : pc' = [pc EXCEPT ![a] = place]
         /\ mapUuid' = mapUuid
  BY DEF LocalStep, CreateDeviceMap, DeviceUnreachable, NoTopicsYet, StartSending,
         LookUp, LookUpFails, SignalTooEarly, Close, TimeOut, attrVars, Move
<1>3. Steady(a) /\ (AnsweredTwice(a)' = AnsweredTwice(a))
  BY DEF SteadyAgents, AnsweredTwice
<1>4. (\A b \in Uids : \A i \in 1 .. Len(mailbox[b]) : mailbox[b][i] \in responses)'
  BY <1>1 DEF SteadyAgents, Steady
<1>5. ASSUME NEW b \in Uids, mapUuid[b] # 0 PROVE mapUuid'[b] = mapUuid[b]
  BY <1>2, <1>3, <1>5 DEF Steady, AgentsFit
<1>6. ASSUME NEW b \in Uids, b # a PROVE Steady(b)'
  <2>1. pc'[b] = pc[b] /\ mapUuid'[b] = mapUuid[b]
    BY <1>2, <1>6 DEF ReachInv, AgentsFit
  <2> QED BY <1>1, <1>4, <2>1, SteadyFrame DEF SteadyAgents
<1>7. Steady(a)'
  <2>1. CASE mapUuid' # mapUuid
    <3>1. pc[a] = "awaitRegistered" /\ pc'[a] = "mapped"
      BY <1>2, <2>1 DEF ReachInv
    <3>2. mapUuid[a] = 0
      BY <1>3, <3>1 DEF Steady
    <3> QED BY <1>1, <1>3, <1>4, <3>1, <3>2 DEF Steady, Equipped
  <2>2. CASE mapUuid' = mapUuid /\ myDeviceRegistered[a]
    <3>1. \/ pc'[a] = pc[a] \/ pc'[a] \notin {"start", "awaitRegistered"}
      BY <1>2 DEF ReachInv
    <3> QED BY <1>1, <1>3, <1>4, <2>2, <3>1 DEF Steady, Equipped
  <2>3. CASE mapUuid' = mapUuid /\ ~myDeviceRegistered[a]
    <3>1. \/ pc'[a] = pc[a] \/ pc'[a] \notin {"start", "awaitRegistered", "sending"}
      BY <1>2, <2>3 DEF ReachInv
    <3> QED BY <1>1, <1>3, <1>4, <2>3, <3>1, SteadyFrame
  <2> QED BY <2>1, <2>2, <2>3
<1> QED BY <1>1, <1>5, <1>6, <1>7 DEF SteadyAgents

(* No two agents have been given one uuid, and none the number 0.            *)
LEMMA AnswersMeetOneAgent ==
  ASSUME RegistryInv, NumbersFit, NEW a, NEW b, NEW u,
         RegistrationOf(a, u) \in responses, RegistrationOf(b, u) \in responses
  PROVE  a = b /\ u # 0
<1>1. /\ RegistrationOf(a, u).op = "register" /\ RegistrationOf(a, u).uid = a
      /\ RegistrationOf(b, u).op = "register" /\ RegistrationOf(b, u).uid = b
      /\ RegistrationOf(a, u).uuid = u /\ RegistrationOf(b, u).uuid = u
  BY DEF RegistrationOf
<1>2. [uuid |-> u, uid |-> a] \in enrolled /\ [uuid |-> u, uid |-> b] \in enrolled
  BY <1>1 DEF RegistryInv, AnswersAreEnrolled
<1>3. [uuid |-> u, uid |-> a] = [uuid |-> u, uid |-> b]
  BY <1>2 DEF RegistryInv, EnrolledOnce
<1>4. [uuid |-> u, uid |-> a].uid = a /\ [uuid |-> u, uid |-> b].uid = b
  OBVIOUS
<1> QED BY <1>2, <1>3, <1>4 DEF NumbersFit

LEMMA SteadyNetwork ==
  ASSUME SteadyInv, ReachInv, ProvisioningInv, responses' = responses,
         NEW a \in Uids, NetworkThread(a)
  PROVE  SteadyAgents' /\ mapUuid' = mapUuid
<1> DEFINE uuid == callback[a].uuid
           r == Head(mailbox[a])
<1>1. /\ UNCHANGED <<pc, mapUuid>>
      /\ \A b \in Uids \ {a} :
           /\ callback'[b] = callback[b] /\ mailbox'[b] = mailbox[b] /\ topics'[b] = topics[b]
           /\ myAgent_uuid'[b] = myAgent_uuid[b]
           /\ myDeviceRegistered'[b] = myDeviceRegistered[b]
           /\ myDeviceSensorUUIDsMap'[b] = myDeviceSensorUUIDsMap[b]
  <2>1. UNCHANGED <<pc, mapUuid>>
    BY DEF NetworkThread, Reattach, RegistrationResult, SetUuid, SetTopics, DevicesResult,
           SetDeviceFlag, DeregistrationResult, UnknownTopic, Takes, threadVars, attrVars
  <2>2. ASSUME NEW b \in Uids \ {a}
        PROVE  /\ callback'[b] = callback[b] /\ mailbox'[b] = mailbox[b] /\ topics'[b] = topics[b]
               /\ myAgent_uuid'[b] = myAgent_uuid[b]
               /\ myDeviceRegistered'[b] = myDeviceRegistered[b]
               /\ myDeviceSensorUUIDsMap'[b] = myDeviceSensorUUIDsMap[b]
    BY DEF NetworkThread, Reattach, RegistrationResult, SetUuid, SetTopics, DevicesResult,
           SetDeviceFlag, DeregistrationResult, UnknownTopic, Takes, Resume, Return,
           threadVars, attrVars, ProvisioningInv, AgentsFit, SteadyInv, SteadyAgents
  <2> QED BY <2>1, <2>2
<1>2. /\ RegistryInv /\ AgentsFit /\ UuidsAreAnswers /\ NumbersFit /\ Reach(a) /\ Steady(a)
      /\ AnsweredTwice(a)' = AnsweredTwice(a)
  BY DEF ProvisioningInv, SteadyInv, SteadyAgents, ReachInv, AnsweredTwice
<1>3. (\A b \in Uids : \A i \in 1 .. Len(mailbox[b]) : mailbox[b][i] \in responses)'
  <2>1. \/ mailbox'[a] = mailbox[a]
        \/ mailbox[a] # << >> /\ mailbox'[a] = Tail(mailbox[a])
    <3>1. \/ mailbox' = mailbox
          \/ mailbox[a] # << >> /\ mailbox' = [mailbox EXCEPT ![a] = Tail(mailbox[a])]
      BY DEF NetworkThread, Reattach, RegistrationResult, SetUuid, SetTopics, DevicesResult,
             SetDeviceFlag, DeregistrationResult, UnknownTopic, Takes
    <3> QED BY <1>2, <3>1 DEF AgentsFit
  <2>2. mailbox[a] \in Seq(Responses)
    BY <1>2 DEF AgentsFit
  <2>3. ASSUME NEW b \in Uids, NEW i \in 1 .. Len(mailbox'[b])
        PROVE  mailbox'[b][i] \in responses
    <3>1. CASE mailbox'[b] = mailbox[b]
      BY <2>3, <3>1 DEF SteadyInv, SteadyAgents, Steady
    <3>2. CASE b = a /\ mailbox[a] # << >> /\ mailbox'[a] = Tail(mailbox[a])
      <4>1. mailbox'[b][i] = mailbox[a][i + 1] /\ i + 1 \in 1 .. Len(mailbox[a])
        BY <2>2, <2>3, <3>2
      <4> QED BY <1>2, <4>1 DEF Steady
    <3> QED BY <1>1, <2>1, <3>1, <3>2
  <2> QED BY <2>3
<1>4. ASSUME NEW b \in Uids, b # a PROVE Steady(b)'
  BY <1>1, <1>3, <1>4, SteadyFrame DEF SteadyInv, SteadyAgents
<1> SUFFICES /\ myDeviceSensorUUIDsMap' \in [Uids -> Nat]
             /\ myDeviceRegistered' \in [Uids -> BOOLEAN]
             /\ Steady(a)'
  BY <1>1, <1>4 DEF SteadyAgents
<1>5. myDeviceSensorUUIDsMap \in [Uids -> Nat] /\ myDeviceRegistered \in [Uids -> BOOLEAN]
  BY DEF SteadyInv, SteadyAgents
<1>6. CASE RegistrationResult(a) \/ DeregistrationResult(a) \/ UnknownTopic(a) \/ Reattach(a)
  <2>1. UNCHANGED <<topics, myAgent_uuid, myDeviceRegistered, myDeviceSensorUUIDsMap>>
    BY <1>6 DEF RegistrationResult, DeregistrationResult, UnknownTopic, Reattach, attrVars
  <2>2. \/ callback'[a] = callback[a]
        \/ callback'[a].at \notin {"setTopics", "setDeviceFlag"}
    BY <1>2, <1>6 DEF RegistrationResult, DeregistrationResult, UnknownTopic, Reattach, Resume,
                      threadVars, AgentsFit
  <2> QED BY <1>1, <1>2, <1>3, <1>5, <2>1, <2>2, SteadyFrame
<1>7. CASE SetUuid(a)
  <2>1. /\ myAgent_uuid' = [myAgent_uuid EXCEPT ![a] = uuid]
        /\ callback' = [callback EXCEPT ![a] = [at |-> "setTopics", uuid |-> uuid]]
        /\ UNCHANGED <<topics, myDeviceRegistered, myDeviceSensorUUIDsMap>>
    BY <1>7 DEF SetUuid, Resume
  <2>2. uuid # 0
    BY <1>2, <1>7, AnswersMeetOneAgent DEF SetUuid, UuidsAreAnswers
  <2>3. myAgent_uuid'[a] # 0 /\ callback'[a].at = "setTopics"
    BY <1>2, <2>1, <2>2 DEF AgentsFit
  <2> QED BY <1>1, <1>2, <1>3, <1>5, <2>1, <2>3 DEF Steady, Equipped
<1>8. CASE SetTopics(a)
  <2>1. /\ topics' = [topics EXCEPT ![a] = uuid]
        /\ callback' = [callback EXCEPT ![a] = [at |-> "none"]]
        /\ UNCHANGED <<myAgent_uuid, myDeviceRegistered, myDeviceSensorUUIDsMap>>
    BY <1>8 DEF SetTopics, Return
  <2>2. uuid # 0
    BY <1>2, <1>8, AnswersMeetOneAgent DEF SetTopics, Reach
  <2>3. topics'[a] # 0 /\ callback'[a].at = "none" /\ myAgent_uuid[a] # 0
    BY <1>2, <1>8, <2>1, <2>2 DEF AgentsFit, SetTopics, Steady
  <2> QED BY <1>1, <1>2, <1>3, <1>5, <2>1, <2>3 DEF Steady, Equipped
<1>9. CASE DevicesResult(a)
  <2>1. /\ mailbox[a] # << >> /\ r.op = "devices" /\ r.uuid = topics[a]
        /\ callback' = [callback EXCEPT ![a] = [at |-> "setDeviceFlag", uuid |-> r.uuid]]
        /\ myDeviceSensorUUIDsMap' =
             IF r.uuid = myAgent_uuid[a]
             THEN [myDeviceSensorUUIDsMap EXCEPT ![a] = r.devices]
             ELSE myDeviceSensorUUIDsMap
        /\ UNCHANGED <<topics, myAgent_uuid, myDeviceRegistered>>
    BY <1>9 DEF DevicesResult, Takes, Resume
  <2>2. mailbox[a] \in Seq(Responses) /\ r = mailbox[a][1] /\ 1 \in 1 .. Len(mailbox[a])
    BY <1>2, <2>1 DEF AgentsFit
  <2>3. r \in responses /\ r \in Responses
    BY <1>2, <2>2 DEF Steady
  <2> HIDE DEF r
  <2>4. r.uuid # 0 /\ r.devices # 0 /\ r.devices \in Nat
    BY <1>2, <2>1, <2>3 DEF NumbersFit, Responses
  <2>5. PICK b \in Uids : mapUuid[b] = r.uuid
    BY <2>1, <2>3, <2>4 DEF SteadyInv, DevicesAsked, AskedFor
  <2>6. RegistrationOf(b, r.uuid) \in responses /\ RegistrationOf(a, r.uuid) \in responses
    BY <1>2, <2>1, <2>4, <2>5 DEF ReachInv, Reach
  <2>7. mapUuid[a] # 0 /\ topics[a] # 0
    BY <1>2, <2>1, <2>4, <2>5, <2>6, AnswersMeetOneAgent
  <2>8. ~AnsweredTwice(a) => myAgent_uuid[a] = r.uuid
    BY <1>2, <2>6, <2>7, OneAnswer DEF Steady, UuidsAreAnswers
  <2>9. ~AnsweredTwice(a) => myDeviceSensorUUIDsMap'[a] # 0
    BY <1>5, <2>1, <2>4, <2>8
  <2>10. myDeviceSensorUUIDsMap' \in [Uids -> Nat]
    BY <1>5, <2>1, <2>4
  <2>11. callback'[a].at = "setDeviceFlag"
    BY <1>2, <2>1 DEF AgentsFit
  <2> QED BY <1>1, <1>2, <1>3, <1>5, <2>1, <2>7, <2>9, <2>10, <2>11 DEF Steady, Equipped
<1>10. CASE SetDeviceFlag(a)
  <2>1. /\ myDeviceRegistered' = [myDeviceRegistered EXCEPT ![a] = TRUE]
        /\ callback[a].at = "setDeviceFlag"
        /\ callback' = [callback EXCEPT ![a] = [at |-> "none"]]
        /\ UNCHANGED <<topics, myAgent_uuid, myDeviceSensorUUIDsMap>>
    BY <1>10 DEF SetDeviceFlag, Return
  <2>2. callback'[a].at = "none"
    BY <1>2, <2>1 DEF AgentsFit
  <2> QED BY <1>1, <1>2, <1>3, <1>5, <2>1, <2>2 DEF Steady, Equipped
<1> QED BY <1>6, <1>7, <1>8, <1>9, <1>10 DEF NetworkThread

LEMMA SteadyAnswer ==
  ASSUME SteadyInv, AgentsFit, NEW t \in Threads, FrameworkAnswers(t)
  PROVE  SteadyAgents' /\ mapUuid' = mapUuid
<1> DEFINE r == Response(t)
<1>1. /\ responses' = responses \cup {r}
      /\ mailbox' = [a \in Uids |-> IF ResponseTopic(r) \in subscribed[a]
                                    THEN Append(mailbox[a], r) ELSE mailbox[a]]
      /\ UNCHANGED <<pc, callback, mapUuid, topics, myAgent_uuid, myDeviceRegistered,
                     myDeviceSensorUUIDsMap>>
  BY DEF FrameworkAnswers, Respond, threadVars, attrVars
<1> HIDE DEF r
<1>2. ASSUME NEW a \in Uids PROVE Steady(a)'
  <2>1. Steady(a) /\ mailbox[a] \in Seq(Responses)
    BY DEF SteadyInv, SteadyAgents, AgentsFit
  <2>2. ASSUME NEW i \in 1 .. Len(mailbox'[a]) PROVE mailbox'[a][i] \in responses'
    <3>1. CASE mailbox'[a] = mailbox[a]
      BY <1>1, <2>1, <2>2, <3>1 DEF Steady
    <3>2. CASE mailbox'[a] = Append(mailbox[a], r)
      <4>1. i = Len(mailbox[a]) + 1 \/ i \in 1 .. Len(mailbox[a])
        BY <2>1, <2>2, <3>2
      <4>2. \/ mailbox'[a][i] = r
            \/ i \in 1 .. Len(mailbox[a]) /\ mailbox'[a][i] = mailbox[a][i]
        BY <2>1, <3>2, <4>1
      <4> QED BY <1>1, <2>1, <4>2 DEF Steady
    <3> QED BY <1>1, <3>1, <3>2
  <2> QED BY <1>1, <2>1, <2>2, SteadyFrame
<1> QED BY <1>1, <1>2 DEF SteadyInv, SteadyAgents

LEMMA SteadyStep == ProvisioningInv /\ ReachInv /\ SteadyInv /\ [Next]_vars => SteadyInv'
<1> SUFFICES ASSUME ProvisioningInv, ReachInv, SteadyInv, [Next]_vars PROVE SteadyInv'
  OBVIOUS
<1> DEFINE Kept == SteadyAgents' /\ \A b \in Uids : mapUuid[b] # 0 => mapUuid'[b] = mapUuid[b]
<1>1. RegistryInv /\ AgentsFit /\ NumbersFit /\ DevicesAsked /\ SteadyAgents
  BY DEF ProvisioningInv, SteadyInv
<1>2. ASSUME NEW a \in Uids, AgentPublishes(a) \/ AgentStep(a) PROVE Kept
  <2>1. responses' = responses
    BY <1>2 DEF AgentPublishes, AgentStep, registryVars
  <2> QED BY <1>1, <1>2, <2>1, SteadyPublishes, SteadyLocal, SteadyNetwork
          DEF AgentPublishes, AgentStep
<1>3. ASSUME UNCHANGED agentVars /\ responses' = responses PROVE Kept
  BY <1>1, <1>3 DEF agentVars, threadVars, attrVars, SteadyAgents, Steady, Equipped, AnsweredTwice
<1>4. ASSUME NEW t \in Threads, FrameworkStep(t) PROVE Kept
  BY <1>3, <1>4 DEF FrameworkStep, Start, Work, Create, Save, Get, Update, Delete,
                    RespondFails, SendKafka
<1>5. ASSUME NEW t \in Threads, FrameworkAnswers(t) PROVE Kept
  BY <1>1, <1>5, SteadyAnswer
<1>6. ASSUME Deliver \/ StartFramework \/ Reconnect \/ FrameworkFault PROVE Kept
  BY <1>3, <1>6 DEF Deliver, MessageArrived, StartFramework, Reconnect, FrameworkFault,
                    Connect, ConnectionLost, Crash
<1>7. ASSUME BrokerRestarts PROVE Kept
  <2>1. UNCHANGED <<threadVars, attrVars>> /\ responses' = responses
    BY <1>7 DEF BrokerRestarts, ConnectionLost, registryVars
  <2>2. (\A a \in Uids : \A i \in 1 .. Len(mailbox[a]) : mailbox[a][i] \in responses)'
    <3>1. CASE mailbox' = mailbox
      BY <1>1, <2>1, <3>1 DEF SteadyAgents, Steady
    <3>2. CASE mailbox' = [a \in Uids |-> << >>]
      <4>1. Len(<< >>) = 0 /\ 1 .. 0 = {}
        OBVIOUS
      <4> QED BY <3>2, <4>1
    <3> QED BY <1>7, <3>1, <3>2 DEF BrokerRestarts, BrokerForgets
  <2>3. ASSUME NEW a \in Uids PROVE Steady(a)'
    BY <1>1, <2>1, <2>2, SteadyFrame DEF SteadyAgents, threadVars, attrVars
  <2> QED BY <1>1, <2>1, <2>3 DEF SteadyAgents, attrVars
<1>8. ASSUME UNCHANGED vars PROVE Kept
  BY <1>3, <1>8 DEF vars, registryVars
<1>9. Kept
  <2> HIDE DEF Kept
  <2> QED BY <1>2, <1>4, <1>5, <1>6, <1>7, <1>8 DEF Next, FrameworkActs
<1>10. NumbersFit'
  BY <1>1, RegistryOrStutter, NumbersStep
<1>11. DevicesAsked'
  BY <1>1, <1>9, AskedStep
<1> QED BY <1>9, <1>10, <1>11 DEF SteadyInv

(* A RedfishAgent whose registration was answered once never fails on a      *)
(* look-up, for any agents, threads and faults: when the flag that makes it  *)
(* send is up its map is complete, and its uuid stays that of the map.       *)
THEOREM LookUpsGoOn == Spec => SendingGoesOn
<1>1. ASSUME ProvisioningInv, ReachInv, SteadyInv, [Next]_vars
      PROVE  [\A a \in Uids : pc[a] = "sending" /\ pc'[a] = "failed" => AnsweredTwice(a)]_vars
  <2> SUFFICES ASSUME Next, NEW a \in Uids, pc[a] = "sending", pc'[a] = "failed",
                      ~AnsweredTwice(a)
               PROVE  FALSE
    BY <1>1
  <2>1. Steady(a) /\ Reach(a) /\ pc \in [Uids -> Places]
    BY <1>1 DEF SteadyInv, SteadyAgents, ReachInv
  <2>2. Equipped(a) /\ myAgent_uuid[a] # 0
    BY <2>1 DEF Steady, Equipped
  <2>3. Known(a)
    <3>1. RegistrationOf(a, mapUuid[a]) \in responses
      BY <2>1, <2>2 DEF Reach, Equipped
    <3>2. RegistrationOf(a, myAgent_uuid[a]) \in responses
      BY <1>1, <2>2 DEF ProvisioningInv, UuidsAreAnswers
    <3> QED BY <2>2, <3>1, <3>2, OneAnswer DEF Known, Equipped
  <2>4. ASSUME NEW b \in Uids, AgentPublishes(b) PROVE FALSE
    BY <2>1, <2>4 DEF AgentPublishes, Register, RegisterDevices, Deregister, Move
  <2>5. ASSUME NEW b \in Uids, AgentStep(b) PROVE FALSE
    <3>1. CASE NetworkThread(b)
      BY <3>1 DEF NetworkThread, Reattach, RegistrationResult, SetUuid, SetTopics, DevicesResult,
                  SetDeviceFlag, DeregistrationResult, UnknownTopic, Takes, threadVars
    <3>2. CASE LocalStep(b)
      <4>1. b = a
        BY <2>1, <3>2 DEF LocalStep, CreateDeviceMap, DeviceUnreachable, NoTopicsYet,
                          StartSending, LookUp, LookUpFails, SignalTooEarly, Close, TimeOut, Move
      <4>2. LookUpFails(a) \/ SignalTooEarly(a)
        BY <2>1, <3>2, <4>1 DEF LocalStep, CreateDeviceMap, DeviceUnreachable, NoTopicsYet,
                                StartSending, LookUp, Close, TimeOut, Move, Waiting
      <4> QED BY <2>2, <2>3, <4>2 DEF LookUpFails, SignalTooEarly, Equipped
    <3> QED BY <2>5, <3>1, <3>2 DEF AgentStep
  <2>6. pc' = pc \/ \E b \in Uids : AgentPublishes(b) \/ AgentStep(b)
    BY DEF Next, FrameworkActs, Deliver, FrameworkStep, FrameworkAnswers, StartFramework,
           Reconnect, FrameworkFault, BrokerRestarts, agentVars, threadVars
  <2> QED BY <2>4, <2>5, <2>6
<1> QED
  BY ProvisioningInit, ProvisioningStep, ReachInit, ReachStep, SteadyInit, SteadyStep, <1>1, PTL
  DEF Spec, SendingGoesOn
=============================================================================
