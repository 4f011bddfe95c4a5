----------------------- MODULE FrameworkRegistryProofs -----------------------
(***************************************************************************)
(* Proofs about the framework manager, for any number of threads, uids and *)
(* requests in any order, repeated, and interrupted by lost connections    *)
(* and crashes: its type invariant, that an answered registration is kept, *)
(* and that no uuid is shared.                                             *)
(*                                                                         *)
(* The argument is a strengthening of both properties, RegistryInv.  It    *)
(* says of every agent a task carries whether it is enrolled (it was saved *)
(* once, under this uuid and uid) or fresh (its uuid is below the counter, *)
(* not enrolled, and no other task's).  An update then writes back an      *)
(* agent under the identity it is enrolled with, whatever happened between *)
(* the read and the write, and only a deregistration removes one.          *)
(***************************************************************************)
EXTENDS FrameworkRegistry, TLAPS

(* What a task at a step is about and has in hand.                           *)
JobsFit ==
    \A t \in Threads :
        /\ job[t].step \in {"create", "save"} => Op(t) = "register"
        /\ job[t].step \in {"get", "kafka"} => Op(t) # "register"
        /\ job[t].step = "update" => Op(t) = "devices"
        /\ job[t].step = "delete" => Op(t) = "deregister"
        /\ job[t].step \in {"save", "update", "delete"} => job[t].agent \in Agents
        /\ job[t].step \in {"respond", "kafka"} /\ Op(t) # "deregister" =>
               job[t].agent \in Agents

Identity(agent) == [uuid |-> agent.uuid, uid |-> agent.uid]

RepositoryIsEnrolled ==
    /\ \A a, b \in repo : a.uuid = b.uuid => a = b
    /\ \A a \in repo : Identity(a) \in enrolled

EnrolledOnce ==
    /\ \A e, f \in enrolled : e.uuid = f.uuid => e = f
    /\ \A e \in enrolled : e.uuid <= counter

EnrolledAreKept ==
    \A e \in enrolled :
        \/ \E a \in repo : a.uuid = e.uuid /\ a.uid = e.uid
        \/ e.uuid \in leaving

(* An agent about to be saved is new; all others in hand are enrolled.       *)
SavesAreFresh ==
    /\ \A t \in Threads : At(t, "save") =>
           /\ job[t].agent.uuid <= counter
           /\ job[t].agent.uid = job[t].request.uid
           /\ \A e \in enrolled : e.uuid # job[t].agent.uuid
    /\ \A t, u \in Threads : At(t, "save") /\ At(u, "save") /\ t # u =>
           job[t].agent.uuid # job[u].agent.uuid

CarriedAreEnrolled ==
    \A t \in Threads :
        /\ At(t, "update") => Identity(job[t].agent) \in enrolled
        /\ At(t, "respond") /\ Op(t) = "register" =>
               [uuid |-> job[t].agent.uuid, uid |-> job[t].request.uid] \in enrolled

AnswersAreEnrolled ==
    \A r \in responses :
        r.op = "register" => [uuid |-> r.uuid, uid |-> r.uid] \in enrolled

(* A deregistration is processed for a uuid only when it was requested.      *)
LeaversAreKnown ==
    /\ \A i \in 1 .. Len(inbox) :
           inbox[i].op = "deregister" => inbox[i].uuid \in leaving
    /\ \A t \in Threads :
           /\ job[t] # Idle /\ Op(t) = "deregister" => job[t].request.uuid \in leaving
           /\ At(t, "delete") => job[t].agent.uuid = job[t].request.uuid

TypeInv == RegistryTypeOK /\ JobsFit

RegistryInv ==
    /\ TypeInv
    /\ RepositoryIsEnrolled
    /\ EnrolledOnce
    /\ EnrolledAreKept
    /\ SavesAreFresh
    /\ CarriedAreEnrolled
    /\ AnswersAreEnrolled
    /\ LeaversAreKnown
----------------------------------------------------------------------------
(* Every state of the framework manager is of its type, and every task has   *)
(* in hand what its step needs: no step meets a missing agent.               *)
LEMMA TypeInit == RegistryInit => TypeInv
BY DEF RegistryInit, TypeInv, RegistryTypeOK, JobsFit, Idle, At

LEMMA TypeStep == TypeInv /\ [RegistryNext]_registryVars => TypeInv'
<1> SUFFICES ASSUME TypeInv, [RegistryNext]_registryVars PROVE TypeInv'
  OBVIOUS
<1> USE DEF TypeInv, RegistryTypeOK, JobsFit, Op
<1>1. ASSUME NEW request \in Requests, MessageArrived(request) PROVE TypeInv'
  <2>1. inbox' \in Seq(Requests)
    BY <1>1 DEF MessageArrived
  <2>2. leaving' \subseteq Nat
    BY <1>1 DEF MessageArrived, Requests
  <2> QED
    BY <1>1, <2>1, <2>2 DEF MessageArrived
<1>2. ASSUME NEW t \in Threads, Start(t) PROVE TypeInv'
  <2>1. /\ inbox' \in Seq(Requests)
        /\ Head(inbox) \in Requests
    BY <1>2 DEF Start
  <2>2. ASSUME Decodes(Head(inbox))
        PROVE  job' \in [Threads -> Jobs \cup {Idle}] /\ JobsFit'
    <3> DEFINE new == [step |-> FirstStep(Head(inbox)), request |-> Head(inbox),
                       agent |-> NoAgent, success |-> FALSE]
    <3>1. job' = [job EXCEPT ![t] = new]
      BY <1>2, <2>2 DEF Start
    <3>2. /\ new.step \in {"create", "get"}
          /\ new.step = "create" <=> Head(inbox).op = "register"
          /\ new.request = Head(inbox)
      BY DEF FirstStep
    <3>3. new \in Jobs
      BY <2>1, <3>2 DEF Jobs, Steps
    <3> HIDE DEF new
    <3> QED
      BY <3>1, <3>2, <3>3
  <2>3. ASSUME ~Decodes(Head(inbox)) PROVE UNCHANGED job
    BY <1>2, <2>3 DEF Start
  <2> QED
    BY <1>2, <2>1, <2>2, <2>3 DEF Start
<1>3. ASSUME NEW t \in Threads, Create(t) PROVE TypeInv'
  <2> DEFINE agent == [uuid |-> counter + 1, uid |-> job[t].request.uid, devices |-> 0]
  <2>1. job[t] \in Jobs /\ job[t].request.uid \in Uids
    BY <1>3 DEF Create, At, Jobs, Idle, Requests
  <2>2. agent \in Agents
    BY <2>1 DEF Agents
  <2> HIDE DEF agent
  <2>3. job' = [job EXCEPT ![t].step = "save", ![t].agent = agent]
    BY <1>3 DEF Create, agent
  <2>4. job' \in [Threads -> Jobs \cup {Idle}]
    BY <2>1, <2>2, <2>3 DEF Jobs, Steps
  <2>5. JobsFit'
    BY <1>3, <2>1, <2>2, <2>3 DEF Create, At, Jobs
  <2> QED
    BY <1>3, <2>4, <2>5 DEF Create
<1>4. ASSUME NEW t \in Threads, Save(t) PROVE TypeInv'
  <2>1. job[t] \in Jobs /\ job[t].agent \in Agents
    BY <1>4 DEF Save, At, Idle
  <2>2. repo' \subseteq Agents /\ enrolled' \subseteq [uuid : Nat, uid : Uids]
    BY <1>4, <2>1 DEF Save, HashSet, Stored, Agents
  <2>3. job' \in [Threads -> Jobs \cup {Idle}]
    BY <1>4, <2>1 DEF Save, GoTo, Jobs, Steps
  <2>4. JobsFit'
    BY <1>4, <2>1 DEF Save, At, GoTo, Jobs
  <2> QED
    BY <1>4, <2>2, <2>3, <2>4 DEF Save
<1>5. ASSUME NEW t \in Threads, Get(t) PROVE TypeInv'
  <2>1. job[t] \in Jobs /\ Op(t) \in {"devices", "deregister"}
    BY <1>5 DEF Get, At, Jobs, Idle, Requests
  <2>2. CASE Quit(t) /\ UNCHANGED drawn
    BY <1>5, <2>2 DEF Get, Quit, Idle
  <2>3. ASSUME NEW agent \in Stored(job[t].request.uuid), Op(t) = "devices",
               drawn' = drawn + 1,
               job' = [job EXCEPT ![t].step = "update",
                                  ![t].agent = [agent EXCEPT !.devices = drawn']]
        PROVE  TypeInv'
    <3>0. agent \in Agents /\ drawn' \in Nat
      BY <2>3 DEF Stored
    <3>1. [agent EXCEPT !.devices = drawn'] \in Agents
      BY <3>0 DEF Agents
    <3>2. job' \in [Threads -> Jobs \cup {Idle}]
      BY <2>1, <2>3, <3>1 DEF Jobs, Steps
    <3>3. JobsFit'
      BY <2>1, <2>3, <3>1 DEF Jobs
    <3> QED
      BY <1>5, <2>3, <3>0, <3>2, <3>3 DEF Get
  <2>4. ASSUME NEW agent \in Stored(job[t].request.uuid), Op(t) # "devices",
               UNCHANGED drawn,
               job' = [job EXCEPT ![t].step = "delete", ![t].agent = agent]
        PROVE  TypeInv'
    <3>1. agent \in Agents
      BY <2>4 DEF Stored
    <3>2. job' \in [Threads -> Jobs \cup {Idle}]
      BY <2>1, <2>4, <3>1 DEF Jobs, Steps
    <3>3. JobsFit'
      BY <2>1, <2>4, <3>1 DEF Jobs
    <3> QED
      BY <1>5, <2>4, <3>2, <3>3 DEF Get
  <2> QED
    BY <1>5, <2>2, <2>3, <2>4 DEF Get
<1>6. ASSUME NEW t \in Threads, Update(t) PROVE TypeInv'
  BY <1>6 DEF Update, At, GoTo, HashSet, Stored, Jobs, Idle, Agents, Steps
<1>7. ASSUME NEW t \in Threads, Delete(t) PROVE TypeInv'
  <2>1. job[t] \in Jobs
    BY <1>7 DEF Delete, At, Idle
  <2> DEFINE success == Stored(job[t].agent.uuid) # {}
  <2>2. success \in BOOLEAN
    OBVIOUS
  <2> HIDE DEF success
  <2>3. job' = [job EXCEPT ![t].step = "respond", ![t].success = success]
    BY <1>7 DEF Delete, success
  <2>4. job' \in [Threads -> Jobs \cup {Idle}]
    BY <2>1, <2>2, <2>3 DEF Jobs, Steps
  <2>5. JobsFit'
    BY <1>7, <2>1, <2>3 DEF Delete, At, Jobs
  <2> QED
    BY <1>7, <2>4, <2>5 DEF Delete, HashDelete
<1>8. ASSUME NEW t \in Threads, Respond(t) PROVE TypeInv'
  <2>1. job[t] \in Jobs
    BY <1>8 DEF Respond, At, Idle
  <2>2. Response(t) \in Responses
    BY <1>8, <2>1 DEF Respond, Response, At, Jobs, Agents, Requests, Responses
  <2>3. job' \in [Threads -> Jobs \cup {Idle}]
    BY <1>8, <2>1 DEF Respond, GoTo, Quit, Jobs, Steps
  <2>4. JobsFit'
    BY <1>8, <2>1 DEF Respond, At, GoTo, Quit, Idle, Jobs
  <2> QED
    BY <1>8, <2>2, <2>3, <2>4 DEF Respond
<1>9. ASSUME NEW t \in Threads, RespondFails(t) PROVE TypeInv'
  BY <1>9 DEF RespondFails, At, Quit, Jobs, Idle
<1>10. ASSUME NEW t \in Threads, SendKafka(t) PROVE TypeInv'
  BY <1>10 DEF SendKafka, Response, At, Quit, Jobs, Idle, Agents, Requests, Events
<1>11. CASE Connect \/ ConnectionLost
  BY <1>11 DEF Connect, ConnectionLost
<1>12. CASE Crash
  BY <1>12 DEF Crash, Idle
<1>13. CASE UNCHANGED registryVars
  BY <1>13 DEF registryVars
<1> QED
  BY <1>1, <1>2, <1>3, <1>4, <1>5, <1>6, <1>7, <1>8, <1>9, <1>10, <1>11, <1>12, <1>13
     DEF RegistryNext, Work

THEOREM TypeCorrect == RegistrySpec => []RegistryTypeOK
<1>1. TypeInv => RegistryTypeOK
  BY DEF TypeInv
<1> QED
  BY TypeInit, TypeStep, <1>1, PTL DEF RegistrySpec
----------------------------------------------------------------------------
LEMMA InvInit == RegistryInit => RegistryInv
<1> SUFFICES ASSUME RegistryInit PROVE RegistryInv
  OBVIOUS
<1>1. TypeInv
  BY TypeInit
<1>2. \A t \in Threads : job[t] = Idle /\ job[t].step = "idle"
  BY DEF RegistryInit, Idle
<1> QED
  BY <1>1, <1>2
     DEF RegistryInit, RegistryInv, RepositoryIsEnrolled, EnrolledOnce, EnrolledAreKept,
         SavesAreFresh, CarriedAreEnrolled, AnswersAreEnrolled, LeaversAreKnown, At

(* The parts of the invariant about tasks survive when one thread's task     *)
(* ends, or goes on to a step at which nothing is claimed of its agent.      *)
LEMMA TaskLeaves ==
  ASSUME RegistryInv, NEW t \in Threads,
         UNCHANGED <<inbox, counter, enrolled, leaving>>,
         \A u \in Threads \ {t} : job'[u] = job[u],
         \/ job'[t] = Idle
         \/ /\ job'[t].step \in {"respond", "kafka"}
            /\ job'[t].request = job[t].request
            /\ job[t] # Idle
            /\ job'[t].request.op # "register"
  PROVE  SavesAreFresh' /\ CarriedAreEnrolled' /\ LeaversAreKnown'
<1>1. job'[t].step \notin {"save", "update", "delete"}
  BY DEF Idle
<1>2. ~(At(t, "respond") /\ Op(t) = "register")'
  BY DEF Idle, At, Op
<1>3. SavesAreFresh'
  BY <1>1 DEF RegistryInv, SavesAreFresh, At
<1>4. CarriedAreEnrolled'
  BY <1>1, <1>2 DEF RegistryInv, CarriedAreEnrolled, At, Op
<1>5. LeaversAreKnown'
  BY <1>1 DEF RegistryInv, LeaversAreKnown, At, Op
<1> QED
  BY <1>3, <1>4, <1>5

LEMMA InvStep == RegistryInv /\ [RegistryNext]_registryVars => RegistryInv'
<1> SUFFICES ASSUME RegistryInv, [RegistryNext]_registryVars PROVE RegistryInv'
  OBVIOUS
<1>0. TypeInv'
  BY TypeStep DEF RegistryInv
<1>1. ASSUME NEW request \in Requests, MessageArrived(request) PROVE RegistryInv'
  <2>1. EnrolledAreKept'
    BY <1>1 DEF MessageArrived, EnrolledAreKept, RegistryInv
  <2>2. LeaversAreKnown'
    <3>1. inbox \in Seq(Requests) /\ inbox' = Append(inbox, request)
      BY <1>1 DEF MessageArrived, RegistryInv, TypeInv, RegistryTypeOK
    <3>2. leaving \subseteq leaving' /\ (request.op = "deregister" => request.uuid \in leaving')
      BY <1>1 DEF MessageArrived
    <3> QED
      BY <1>1, <3>1, <3>2 DEF MessageArrived, RegistryInv, LeaversAreKnown, At, Op
  <2> QED
    BY <1>0, <1>1, <2>1, <2>2
       DEF MessageArrived, RegistryInv, RepositoryIsEnrolled, EnrolledOnce, SavesAreFresh,
           CarriedAreEnrolled, AnswersAreEnrolled, At, Op
<1>2. ASSUME NEW t \in Threads, Start(t) PROVE RegistryInv'
  <2>1. /\ inbox \in Seq(Requests) /\ inbox # << >> /\ inbox' = Tail(inbox)
        /\ job \in [Threads -> Jobs \cup {Idle}]
    BY <1>2 DEF Start, RegistryInv, TypeInv, RegistryTypeOK
  <2>2. /\ \A u \in Threads \ {t} : job'[u] = job[u]
        /\ \/ job'[t] = Idle
           \/ /\ job'[t].step \in {"create", "get"}
              /\ job'[t].request = Head(inbox)
    BY <1>2, <2>1 DEF Start, FirstStep
  <2>3. job'[t].step \notin {"save", "update", "delete", "respond"}
    BY <2>2 DEF Idle
  <2>4. SavesAreFresh' /\ CarriedAreEnrolled'
    BY <1>2, <2>2, <2>3 DEF Start, RegistryInv, SavesAreFresh, CarriedAreEnrolled, At, Op
  <2>5. LeaversAreKnown'
    <3>1. \A i \in 1 .. Len(inbox') : inbox'[i] = inbox[i + 1] /\ i + 1 \in 1 .. Len(inbox)
      BY <2>1
    <3>2. Head(inbox) = inbox[1] /\ 1 \in 1 .. Len(inbox)
      BY <2>1
    <3>3. leaving' = leaving
      BY <1>2 DEF Start
    <3> QED
      BY <2>2, <2>3, <3>1, <3>2, <3>3 DEF RegistryInv, LeaversAreKnown, At, Op
  <2> QED
    BY <1>0, <1>2, <2>4, <2>5
       DEF Start, RegistryInv, RepositoryIsEnrolled, EnrolledOnce, EnrolledAreKept,
           AnswersAreEnrolled
<1>3. ASSUME NEW t \in Threads, Create(t) PROVE RegistryInv'
  <2>0. UNCHANGED <<inbox, repo, responses, enrolled, leaving>>
    BY <1>3 DEF Create
  <2>1. /\ job[t] \in Jobs /\ job[t].request.op = "register"
        /\ counter \in Nat /\ counter' = counter + 1
        /\ \A u \in Threads : At(u, "save") => job[u].agent.uuid \in Nat
        /\ \A e \in enrolled : e.uuid \in Nat
    BY <1>3 DEF Create, At, Op, Idle, Jobs, Agents, RegistryInv, TypeInv, RegistryTypeOK, JobsFit
  <2>2. /\ \A u \in Threads \ {t} : job'[u] = job[u]
        /\ job'[t].step = "save"
        /\ job'[t].request = job[t].request
        /\ job'[t].agent.uuid = counter'
        /\ job'[t].agent.uid = job[t].request.uid
    BY <1>3, <2>1 DEF Create, Jobs, RegistryInv, TypeInv, RegistryTypeOK
  <2>3. EnrolledOnce'
    BY <1>3, <2>1 DEF Create, RegistryInv, EnrolledOnce
  <2>4. SavesAreFresh'
    <3>1. \A u \in Threads \ {t} : At(u, "save") => job[u].agent.uuid <= counter
      BY DEF RegistryInv, SavesAreFresh
    <3>2. \A e \in enrolled : e.uuid <= counter
      BY DEF RegistryInv, EnrolledOnce
    <3> QED
      BY <2>1, <2>2, <2>0, <3>1, <3>2 DEF RegistryInv, SavesAreFresh, At
  <2>5. CarriedAreEnrolled'
    BY <2>2, <2>0 DEF RegistryInv, CarriedAreEnrolled, At, Op
  <2>6. LeaversAreKnown'
    BY <2>1, <2>2, <2>0 DEF RegistryInv, LeaversAreKnown, At, Op
  <2> QED
    BY <1>0, <2>3, <2>0, <2>4, <2>5, <2>6
       DEF RegistryInv, RepositoryIsEnrolled, EnrolledAreKept, AnswersAreEnrolled
<1>4. ASSUME NEW t \in Threads, Save(t) PROVE RegistryInv'
  <2> DEFINE agent == job[t].agent
  <2>1. /\ job[t] \in Jobs /\ job[t].step = "save" /\ job[t].request.op = "register"
        /\ agent \in Agents /\ agent.uid = job[t].request.uid
        /\ agent.uuid <= counter
        /\ \A e \in enrolled : e.uuid # agent.uuid
    BY <1>4 DEF Save, At, Op, Idle, RegistryInv, TypeInv, RegistryTypeOK, JobsFit, SavesAreFresh
  <2>2. /\ \A u \in Threads \ {t} : job'[u] = job[u]
        /\ job'[t].step = "respond"
        /\ job'[t].request = job[t].request
        /\ job'[t].agent = agent
    BY <1>4, <2>1 DEF Save, GoTo, Jobs, RegistryInv, TypeInv, RegistryTypeOK
  <2>3. /\ repo' = repo \cup {agent}
        /\ enrolled' = enrolled \cup {Identity(agent)}
    BY <1>4, <2>1 DEF Save, HashSet, Stored, Identity, RegistryInv, RepositoryIsEnrolled
  <2>4. RepositoryIsEnrolled'
    BY <2>1, <2>3 DEF RegistryInv, RepositoryIsEnrolled, Identity
  <2>5. EnrolledOnce'
    BY <1>4, <2>1, <2>3 DEF Save, RegistryInv, EnrolledOnce, Identity
  <2>6. EnrolledAreKept'
    BY <1>4, <2>1, <2>3 DEF Save, RegistryInv, EnrolledAreKept, Identity
  <2>7. SavesAreFresh'
    BY <1>4, <2>1, <2>2, <2>3 DEF Save, RegistryInv, SavesAreFresh, Identity, At
  <2>8. CarriedAreEnrolled'
    BY <2>1, <2>2, <2>3 DEF RegistryInv, CarriedAreEnrolled, Identity, At, Op
  <2>9. AnswersAreEnrolled' /\ LeaversAreKnown'
    BY <1>4, <2>1, <2>2, <2>3
       DEF Save, RegistryInv, AnswersAreEnrolled, LeaversAreKnown, At, Op
  <2> QED
    BY <1>0, <2>4, <2>5, <2>6, <2>7, <2>8, <2>9 DEF RegistryInv
<1>5. ASSUME NEW t \in Threads, Get(t) PROVE RegistryInv'
  <2>1. /\ job[t] \in Jobs /\ job[t].step = "get" /\ job[t].request.op # "register"
        /\ job[t] # Idle
    BY <1>5 DEF Get, At, Op, Idle, RegistryInv, TypeInv, RegistryTypeOK, JobsFit
  <2>2. /\ UNCHANGED <<inbox, repo, counter, responses, enrolled, leaving>>
        /\ \A u \in Threads \ {t} : job'[u] = job[u]
    BY <1>5 DEF Get, Quit, RegistryInv, TypeInv, RegistryTypeOK
  <2>3. CASE Quit(t)
    <3>1. job'[t] = Idle
      BY <2>3 DEF Quit, RegistryInv, TypeInv, RegistryTypeOK
    <3>2. SavesAreFresh' /\ CarriedAreEnrolled' /\ LeaversAreKnown'
      BY <2>2, <3>1, TaskLeaves
    <3> QED
      BY <1>0, <2>2, <3>2
         DEF RegistryInv, RepositoryIsEnrolled, EnrolledOnce, EnrolledAreKept, AnswersAreEnrolled
  <2>4. ASSUME NEW agent \in Stored(job[t].request.uuid), NEW new,
               new.uuid = agent.uuid, new.uid = agent.uid,
               job'[t].step \in {"update", "delete"},
               job'[t].request = job[t].request,
               job'[t].agent = new
        PROVE  RegistryInv'
    <3>1. /\ agent.uuid = job[t].request.uuid
          /\ Identity(new) \in enrolled
      BY <2>4 DEF Stored, Identity, RegistryInv, RepositoryIsEnrolled
    <3>2. SavesAreFresh'
      BY <2>2, <2>4 DEF RegistryInv, SavesAreFresh, At
    <3>3. CarriedAreEnrolled'
      BY <2>2, <2>4, <3>1 DEF RegistryInv, CarriedAreEnrolled, At, Op
    <3>4. LeaversAreKnown'
      BY <2>1, <2>2, <2>4, <3>1 DEF RegistryInv, LeaversAreKnown, At, Op
    <3> QED
      BY <1>0, <2>2, <3>2, <3>3, <3>4
         DEF RegistryInv, RepositoryIsEnrolled, EnrolledOnce, EnrolledAreKept, AnswersAreEnrolled
  <2>5. ASSUME NEW agent \in Stored(job[t].request.uuid),
               job' = [job EXCEPT ![t].step = "update",
                                  ![t].agent = [agent EXCEPT !.devices = drawn']]
        PROVE  RegistryInv'
    <3> DEFINE new == [agent EXCEPT !.devices = drawn']
    <3>1. agent \in Agents
      BY DEF Stored, RegistryInv, TypeInv, RegistryTypeOK
    <3>2. new.uuid = agent.uuid /\ new.uid = agent.uid
      BY <3>1 DEF Agents
    <3> HIDE DEF new
    <3>3. job' = [job EXCEPT ![t].step = "update", ![t].agent = new]
      BY <2>5 DEF new
    <3>4. /\ job'[t].step = "update" /\ job'[t].request = job[t].request
          /\ job'[t].agent = new
      BY <2>1, <3>3 DEF Jobs, RegistryInv, TypeInv, RegistryTypeOK
    <3> QED
      BY <2>4, <3>2, <3>4
  <2>6. ASSUME NEW agent \in Stored(job[t].request.uuid),
               job' = [job EXCEPT ![t].step = "delete", ![t].agent = agent]
        PROVE  RegistryInv'
    <3>1. /\ job'[t].step = "delete" /\ job'[t].request = job[t].request
          /\ job'[t].agent = agent
      BY <2>1, <2>6 DEF Jobs, RegistryInv, TypeInv, RegistryTypeOK
    <3> QED
      BY <2>4, <3>1
  <2> QED
    BY <1>5, <2>3, <2>5, <2>6 DEF Get
<1>6. ASSUME NEW t \in Threads, Update(t) PROVE RegistryInv'
  <2> DEFINE agent == job[t].agent
  <2>0. Identity(agent) \in enrolled
    BY <1>6 DEF Update, RegistryInv, CarriedAreEnrolled
  <2>1. /\ job[t] \in Jobs /\ job[t].step = "update" /\ job[t].request.op = "devices"
        /\ agent \in Agents
        /\ job[t] # Idle
    BY <1>6 DEF Update, At, Op, Idle, RegistryInv, TypeInv, RegistryTypeOK, JobsFit
  <2>2. /\ \A u \in Threads \ {t} : job'[u] = job[u]
        /\ job'[t].step = "respond"
        /\ job'[t].request = job[t].request
    BY <1>6, <2>1 DEF Update, GoTo, Jobs, RegistryInv, TypeInv, RegistryTypeOK
  <2>3. SavesAreFresh' /\ CarriedAreEnrolled' /\ LeaversAreKnown'
    BY <1>6, <2>1, <2>2, TaskLeaves DEF Update
  <2>4. repo' = {a \in repo : a.uuid # agent.uuid} \cup {agent}
    BY <1>6 DEF Update, HashSet, Stored
  <2>5. UNCHANGED <<enrolled, counter, responses, leaving>>
    BY <1>6 DEF Update
  <2>6. RepositoryIsEnrolled'
    BY <2>0, <2>4, <2>5 DEF RegistryInv, RepositoryIsEnrolled
  <2>7. EnrolledAreKept'
    <3> SUFFICES ASSUME NEW e \in enrolled, e.uuid \notin leaving
                 PROVE  \E a \in repo' : a.uuid = e.uuid /\ a.uid = e.uid
      BY <2>5 DEF EnrolledAreKept
    <3>1. CASE e.uuid = agent.uuid
      <4>1. e = Identity(agent)
        BY <2>0, <3>1 DEF RegistryInv, EnrolledOnce, Identity
      <4> QED
        BY <2>4, <4>1 DEF Identity
    <3>2. CASE e.uuid # agent.uuid
      BY <2>4, <3>2 DEF RegistryInv, EnrolledAreKept
    <3> QED
      BY <3>1, <3>2
  <2> QED
    BY <1>0, <2>3, <2>5, <2>6, <2>7 DEF RegistryInv, EnrolledOnce, AnswersAreEnrolled
<1>7. ASSUME NEW t \in Threads, Delete(t) PROVE RegistryInv'
  <2>1. /\ job[t] \in Jobs /\ job[t].step = "delete" /\ job[t].request.op = "deregister"
        /\ job[t] # Idle
        /\ job[t].agent.uuid \in leaving
    BY <1>7 DEF Delete, At, Op, Idle, RegistryInv, TypeInv, RegistryTypeOK, JobsFit,
                LeaversAreKnown
  <2>2. /\ \A u \in Threads \ {t} : job'[u] = job[u]
        /\ job'[t].step = "respond"
        /\ job'[t].request = job[t].request
    <3> DEFINE success == Stored(job[t].agent.uuid) # {}
    <3> HIDE DEF success
    <3>1. job' = [job EXCEPT ![t].step = "respond", ![t].success = success]
      BY <1>7 DEF Delete, success
    <3> QED
      BY <2>1, <3>1 DEF Jobs, RegistryInv, TypeInv, RegistryTypeOK
  <2>3. SavesAreFresh' /\ CarriedAreEnrolled' /\ LeaversAreKnown'
    BY <1>7, <2>1, <2>2, TaskLeaves DEF Delete
  <2>4. repo' = {a \in repo : a.uuid # job[t].agent.uuid}
    BY <1>7 DEF Delete, HashDelete, Stored
  <2>5. UNCHANGED <<enrolled, counter, responses, leaving>>
    BY <1>7 DEF Delete
  <2>6. RepositoryIsEnrolled'
    BY <2>4, <2>5 DEF RegistryInv, RepositoryIsEnrolled
  <2>7. EnrolledAreKept'
    BY <2>1, <2>4, <2>5 DEF RegistryInv, EnrolledAreKept
  <2> QED
    BY <1>0, <2>3, <2>5, <2>6, <2>7 DEF RegistryInv, EnrolledOnce, AnswersAreEnrolled
<1>8. ASSUME NEW t \in Threads, Respond(t) PROVE RegistryInv'
  <2>1. /\ job[t] \in Jobs /\ job[t].step = "respond" /\ job[t] # Idle
        /\ job \in [Threads -> Jobs \cup {Idle}]
    BY <1>8 DEF Respond, At, Idle, RegistryInv, TypeInv, RegistryTypeOK
  <2>2. /\ \A u \in Threads \ {t} : job'[u] = job[u]
        /\ \/ job'[t] = Idle
           \/ /\ job'[t].step = "kafka"
              /\ job'[t].request = job[t].request
              /\ job'[t].request.op # "register"
    BY <1>8, <2>1 DEF Respond, Quit, GoTo, Op, Jobs
  <2>3. SavesAreFresh' /\ CarriedAreEnrolled' /\ LeaversAreKnown'
    BY <1>8, <2>1, <2>2, TaskLeaves DEF Respond
  <2>4. AnswersAreEnrolled'
    <3>1. Response(t).op = "register" =>
              [uuid |-> Response(t).uuid, uid |-> Response(t).uid] \in enrolled
      BY <1>8, <2>1
         DEF Respond, Response, RegistryInv, CarriedAreEnrolled, At, Op, Jobs, Requests
    <3> QED
      BY <1>8, <3>1 DEF Respond, RegistryInv, AnswersAreEnrolled
  <2> QED
    BY <1>0, <1>8, <2>3, <2>4
       DEF Respond, RegistryInv, RepositoryIsEnrolled, EnrolledOnce, EnrolledAreKept
<1>9. ASSUME NEW t \in Threads, RespondFails(t) \/ SendKafka(t) PROVE RegistryInv'
  <2>1. /\ \A u \in Threads \ {t} : job'[u] = job[u]
        /\ job'[t] = Idle
    BY <1>9 DEF RespondFails, SendKafka, Quit, RegistryInv, TypeInv, RegistryTypeOK
  <2>2. SavesAreFresh' /\ CarriedAreEnrolled' /\ LeaversAreKnown'
    BY <1>9, <2>1, TaskLeaves DEF RespondFails, SendKafka
  <2> QED
    BY <1>0, <1>9, <2>2
       DEF RespondFails, SendKafka, RegistryInv, RepositoryIsEnrolled, EnrolledOnce,
           EnrolledAreKept, AnswersAreEnrolled
<1>10. CASE Connect \/ ConnectionLost \/ UNCHANGED registryVars
  BY <1>0, <1>10
     DEF Connect, ConnectionLost, registryVars, RegistryInv, RepositoryIsEnrolled, EnrolledOnce,
         EnrolledAreKept, SavesAreFresh, CarriedAreEnrolled, AnswersAreEnrolled,
         LeaversAreKnown, At, Op
<1>11. CASE Crash
  <2>1. /\ \A t \in Threads : job'[t] = Idle /\ job'[t].step = "idle"
        /\ inbox' = << >>
    BY <1>11 DEF Crash, Idle
  <2> QED
    BY <1>0, <1>11, <2>1
       DEF Crash, RegistryInv, RepositoryIsEnrolled, EnrolledOnce, EnrolledAreKept,
           SavesAreFresh, CarriedAreEnrolled, AnswersAreEnrolled, LeaversAreKnown, At, Op
<1> QED
  BY <1>1, <1>2, <1>3, <1>4, <1>5, <1>6, <1>7, <1>8, <1>9, <1>10, <1>11
     DEF RegistryNext, Work

(* An answered registration is kept until its deregistration is requested:   *)
(* through concurrent tasks that write whole agents back, requests repeated  *)
(* by the broker, lost connections and crashes of the framework manager.     *)
THEOREM AnswersStayKept == RegistrySpec => []AnswersAreKept
<1>1. RegistryInv => AnswersAreKept
  BY DEF RegistryInv, AnswersAreEnrolled, EnrolledAreKept, AnswersAreKept
<1> QED
  BY InvInit, InvStep, <1>1, PTL DEF RegistrySpec

(* No two registrations are answered with one uuid unless they are of one    *)
(* uid, and the repository holds at most one agent under a uuid.             *)
THEOREM UuidsStayApart == RegistrySpec => []UuidsAreNotShared
<1>1. RegistryInv => UuidsAreNotShared
  BY DEF RegistryInv, AnswersAreEnrolled, EnrolledOnce, RepositoryIsEnrolled, UuidsAreNotShared
<1> QED
  BY InvInit, InvStep, <1>1, PTL DEF RegistrySpec
=============================================================================
