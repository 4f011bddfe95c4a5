----------------------- MODULE FrameworkClientProofs -----------------------
(***************************************************************************)
(* Proof that a connected client of the framework manager holds the        *)
(* subscriptions of its subscribers, for any request topics and any        *)
(* number of lost connections.                                             *)
(***************************************************************************)
EXTENDS FrameworkClient, TLAPS

ClientTypes ==
    /\ main \in {"starting", "connecting", "registering", "subscribing", "started",
                 "serving", "failed"}
    /\ connection \in {"none", "up", "lost"}
    /\ subscribers \in Seq(Range(RequestTopics))
    /\ walk \in [cursor : Nat, modCount : Nat]
    /\ main \in {"starting", "connecting"} =>
         subscribers = << >> /\ connection = "none" /\ walk = NoWalk
    /\ main = "registering" => Len(subscribers) < Len(RequestTopics)
    /\ main = "subscribing" => Len(subscribers) \in 1 .. Len(RequestTopics)

(* The iterator has not passed the end its list had when it was made, and    *)
(* the list has not become shorter.                                          *)
WalkFits ==
    walk # NoWalk => /\ walk.cursor \in 1 .. walk.modCount + 1
                     /\ walk.modCount <= Len(subscribers)

(* The first n subscribers have their subscription, or asked for it on this  *)
(* connection.                                                               *)
Asked(n) == \A i \in 1 .. n : subscribers[i] \in granted \cup pending

(* How far the subscriptions have come: to the walk's cursor, or, without a  *)
(* walk, to all but the one addSubscriber is about to ask for.               *)
AskedSoFar ==
    connection = "up" =>
        IF walk # NoWalk
        THEN Asked(walk.cursor - 1)
        ELSE Asked(IF main = "subscribing" THEN Len(subscribers) - 1 ELSE Len(subscribers))

ServedInv == ClientTypes /\ WalkFits /\ AskedSoFar

----------------------------------------------------------------------------
LEMMA ServedInit == Init => ServedInv
<1> SUFFICES ASSUME Init PROVE ServedInv
  OBVIOUS
<1>1. NoWalk \in [cursor : Nat, modCount : Nat]
  BY DEF NoWalk
<1> QED
  BY <1>1 DEF Init, ServedInv, ClientTypes, WalkFits, AskedSoFar

LEMMA ServedMain == ASSUME ServedInv, MainThread PROVE ServedInv'
<1> USE ClientAssumption DEF ServedInv, ClientTypes, WalkFits, AskedSoFar, Asked,
                             pahoVars, hookVars
<1>1. CASE Start
  BY <1>1 DEF Start
<1>2. CASE Connected
  BY <1>2 DEF Connected
<1>3. CASE AddToSubscribers
  <2> DEFINE topic == RequestTopics[Len(subscribers) + 1]
  <2>1. topic \in Range(RequestTopics)
    BY <1>3 DEF AddToSubscribers, Range
  <2>2. subscribers' = Append(subscribers, topic)
    BY <1>3 DEF AddToSubscribers
  <2> HIDE DEF topic
  <2>3. /\ subscribers' \in Seq(Range(RequestTopics))
        /\ Len(subscribers') = Len(subscribers) + 1
        /\ \A i \in 1 .. Len(subscribers) : subscribers'[i] = subscribers[i]
    BY <2>1, <2>2
  <2>4. /\ main = "registering" /\ main' = "subscribing"
        /\ UNCHANGED <<connection, pending, granted, walk>>
    BY <1>3 DEF AddToSubscribers
  <2>5. ClientTypes' /\ WalkFits'
    BY <2>3, <2>4
  <2>6. AskedSoFar'
    <3>1. ASSUME NEW n \in Nat, n <= Len(subscribers), Asked(n) PROVE Asked(n)'
      BY <2>3, <2>4, <3>1
    <3>2. CASE walk # NoWalk
      <4>1. walk.cursor - 1 \in Nat /\ walk.cursor - 1 <= Len(subscribers)
        BY <3>2
      <4> QED BY <2>4, <3>1, <3>2, <4>1
    <3>3. CASE walk = NoWalk
      <4>1. Len(subscribers) \in Nat
        OBVIOUS
      <4> QED BY <2>3, <2>4, <3>1, <3>3, <4>1
    <3> QED BY <3>2, <3>3
  <2> QED BY <2>5, <2>6
<1>4. CASE ClientStopped \/ AddHook
  BY <1>4 DEF ClientStopped, AddHook
<1>5. CASE Subscribe
  <2> DEFINE n == Len(subscribers)
  <2>1. /\ main = "subscribing" /\ n \in Nat \ {0}
        /\ UNCHANGED <<subscribers, connection, granted, walk>>
    BY <1>5 DEF Subscribe
  <2>2. ClientTypes' /\ WalkFits'
    BY <1>5 DEF Subscribe
  <2>3. AskedSoFar'
    <3>1. CASE connection = "up"
      <4>1. pending' = pending \cup {subscribers[n]} /\ main' # "subscribing"
        BY <1>5, <3>1 DEF Subscribe
      <4>2. CASE walk # NoWalk
        BY <2>1, <3>1, <4>1, <4>2
      <4>3. CASE walk = NoWalk
        <5>1. Asked(n - 1)
          BY <2>1, <3>1, <4>3
        <5>2. \A i \in 1 .. n : i \in 1 .. n - 1 \/ i = n
          BY <2>1
        <5> QED BY <2>1, <3>1, <4>1, <4>3, <5>1, <5>2
      <4> QED BY <4>2, <4>3
    <3>2. CASE connection # "up"
      BY <2>1, <3>2
    <3> QED BY <3>1, <3>2
  <2> QED BY <2>2, <2>3
<1> QED BY <1>1, <1>2, <1>3, <1>4, <1>5 DEF MainThread

LEMMA ServedPaho == ASSUME ServedInv, Paho \/ ConnectionLost PROVE ServedInv'
<1> USE DEF ServedInv, ClientTypes, WalkFits, AskedSoFar, Asked, mainVars, hookVars
<1>1. CASE ConnectionLost
  BY <1>1 DEF ConnectionLost
<1>2. CASE Granted
  BY <1>2 DEF Granted
<1>3. CASE Reconnected
  <2>1. walk' = [cursor |-> 1, modCount |-> Len(subscribers)]
    BY <1>3 DEF Reconnected
  <2> QED BY <1>3, <2>1 DEF Reconnected, NoWalk
<1>4. CASE Resubscribe
  <2>1. /\ walk.cursor \in 1 .. Len(subscribers)
        /\ walk' = [cursor |-> walk.cursor + 1, modCount |-> walk.modCount]
    BY <1>4 DEF Resubscribe, HasNext
  <2> QED BY <1>4, <2>1 DEF Resubscribe, NoWalk
<1>5. CASE WalkFails
  BY <1>5 DEF WalkFails, NoWalk
<1>6. CASE WalkEnds
  <2>1. walk.cursor = Len(subscribers) + 1
    BY <1>6 DEF WalkEnds, HasNext
  <2> QED BY <1>6, <2>1 DEF WalkEnds, NoWalk
<1> QED BY <1>1, <1>2, <1>3, <1>4, <1>5, <1>6 DEF Paho

LEMMA ServedHooks ==
  ASSUME ServedInv, Shutdown \/ \E h \in 1 .. 2 : Hook(h)
  PROVE  ServedInv'
<1> USE DEF ServedInv, ClientTypes, WalkFits, AskedSoFar, Asked, mainVars, pahoVars
<1>1. CASE Shutdown
  BY <1>1 DEF Shutdown
<1>2. ASSUME NEW h \in 1 .. 2, Hook(h) PROVE ServedInv'
  <2>1. CASE NothingToStop(h) \/ Finish(h)
    BY <2>1 DEF NothingToStop, Finish
  <2>2. CASE Disconnect(h)
    BY <2>2 DEF Disconnect
  <2>3. CASE Close(h)
    BY <2>3 DEF Close
  <2> QED BY <1>2, <2>1, <2>2, <2>3 DEF Hook
<1> QED BY <1>1, <1>2

LEMMA ServedStep == ServedInv /\ [Next]_clientVars => ServedInv'
<1> SUFFICES ASSUME ServedInv, [Next]_clientVars PROVE ServedInv'
  OBVIOUS
<1>1. CASE UNCHANGED clientVars
  BY <1>1 DEF clientVars, mainVars, pahoVars, hookVars, ServedInv, ClientTypes, WalkFits,
              AskedSoFar, Asked
<1> QED BY <1>1, ServedMain, ServedPaho, ServedHooks DEF Next

(* However addSubscriber, lost connections, restarts of the broker and       *)
(* connectComplete's unguarded walk interleave, a connected client to which  *)
(* nothing is left to do holds all its subscriptions: the walk either        *)
(* reaches every subscriber or fails and is made again.                      *)
THEOREM SubscribersServed == Spec => []Served
<1>1. ServedInv => Served
  BY DEF ServedInv, ClientTypes, AskedSoFar, Asked, Served, Range
<1> QED BY <1>1, ServedInit, ServedStep, PTL DEF Spec
=============================================================================
