-------------------------- MODULE FrameworkClient --------------------------
(***************************************************************************)
(* The framework manager's MQTT client (FrameworkMqttClient) from the      *)
(* start of the process (Main.main, FrameworkImpl.startFramework) to its   *)
(* shutdown hooks.  Three kinds of thread meet in it: the main thread      *)
(* connects and adds one subscriber per request topic, paho's callback     *)
(* thread walks over the subscribers after each reconnection, and the two  *)
(* shutdown hooks stop the client.  start, addSubscriber and stop hold the *)
(* client's monitor; the walk does not.                                    *)
(*                                                                         *)
(* paho and the broker are external: a lost connection fails the           *)
(* subscriptions that were not acknowledged, and paho connects again by    *)
(* itself; the broker keeps the session's subscriptions unless it restarts *)
(* without its saved state; an exception that leaves a callback makes paho *)
(* shut the connection down.                                               *)
(***************************************************************************)
EXTENDS Naturals, Sequences, Functions

CONSTANTS
    RequestTopics,  \* the topics in the order startFramework subscribes to them
    MaxLosses       \* bound: connections that are lost

ASSUME ClientAssumption ==
    /\ RequestTopics \in Seq(Range(RequestTopics))
    /\ RequestTopics # << >>

VARIABLES
    main,           \* where the main thread is
    monitor,        \* who holds the client's monitor
    client,         \* whether the field client is set
    connection,     \* "none", "up", or "lost": paho will connect again
    subscribers,    \* the ArrayList, as topics
    pending,        \* subscriptions asked for on this connection
    granted,        \* the session's subscriptions at the broker
    walk,           \* connectComplete's iterator
    hooks,          \* 1: registered by FrameworkMqttClient, 2: by Main
    released,       \* stopFramework has closed the Kafka producer and the pool
    losses

mainVars == <<main, monitor, client, subscribers>>
pahoVars == <<connection, pending, granted, walk, losses>>
hookVars == <<hooks, released>>
clientVars == <<mainVars, pahoVars, hookVars>>

NoWalk == [cursor |-> 0, modCount |-> 0]

Init ==
    /\ main = "starting"
    /\ monitor = "nobody"
    /\ client = FALSE
    /\ connection = "none"
    /\ subscribers = << >>
    /\ pending = {}
    /\ granted = {}
    /\ walk = NoWalk
    /\ hooks = <<"idle", "idle">>
    /\ released = FALSE
    /\ losses = 0

----------------------------------------------------------------------------
(* The main thread.  start waits for the connection inside the monitor; if   *)
(* it fails the field stays set and nothing connects again.                  *)
Start ==
    /\ main = "starting"
    /\ monitor = "nobody"
    /\ main' = "connecting"
    /\ monitor' = "main"
    /\ client' = TRUE
    /\ UNCHANGED <<subscribers, pahoVars, hookVars>>

Connected ==
    /\ main = "connecting"
    /\ main' = "registering"
    /\ monitor' = "nobody"
    /\ connection' \in {"up", "none"}
    /\ UNCHANGED <<client, subscribers, pending, granted, walk, losses, hookVars>>

(* addSubscriber: first the list, then the subscription, which throws when   *)
(* the client is not connected.  A client that was stopped throws at once.   *)
AddToSubscribers ==
    /\ main = "registering"
    /\ monitor = "nobody"
    /\ client
    /\ subscribers' = Append(subscribers, RequestTopics[Len(subscribers) + 1])
    /\ main' = "subscribing"
    /\ monitor' = "main"
    /\ UNCHANGED <<client, pahoVars, hookVars>>

ClientStopped ==
    /\ main = "registering"
    /\ monitor = "nobody"
    /\ ~client
    /\ main' = "failed"
    /\ UNCHANGED <<monitor, client, subscribers, pahoVars, hookVars>>

Subscribe ==
    /\ main = "subscribing"
    /\ monitor' = "nobody"
    /\ \/ /\ connection = "up"
          /\ pending' = pending \cup {subscribers[Len(subscribers)]}
          /\ main' = IF Len(subscribers) = Len(RequestTopics) THEN "started"
                                                              ELSE "registering"
       \/ /\ connection # "up"
          /\ main' = "failed"
          /\ UNCHANGED pending
    /\ UNCHANGED <<client, subscribers, connection, granted, walk, losses, hookVars>>

(* Main registers its hook; during a shutdown that throws.                   *)
AddHook ==
    /\ main = "started"
    /\ main' = IF hooks[1] = "idle" THEN "serving" ELSE "failed"
    /\ UNCHANGED <<monitor, client, subscribers, pahoVars, hookVars>>

MainThread ==
    Start \/ Connected \/ AddToSubscribers \/ ClientStopped \/ Subscribe \/ AddHook

----------------------------------------------------------------------------
(* paho's threads.  A loss may come with a restart of the broker that has    *)
(* forgotten the session.                                                    *)
ConnectionLost ==
    /\ connection = "up"
    /\ losses < MaxLosses
    /\ losses' = losses + 1
    /\ connection' = "lost"
    /\ pending' = {}
    /\ granted' \in {granted, {}}
    /\ UNCHANGED <<walk, mainVars, hookVars>>

Granted ==
    /\ connection = "up"
    /\ \E t \in pending :
         /\ pending' = pending \ {t}
         /\ granted' = granted \cup {t}
    /\ UNCHANGED <<connection, walk, losses, mainVars, hookVars>>

(* Mutant of Reconnected: connectComplete leaves the subscriptions to the    *)
(* persistent session.                                                       *)
ReconnectedTrusts ==
    /\ connection = "lost"
    /\ walk = NoWalk
    /\ connection' = "up"
    /\ UNCHANGED <<pending, granted, walk, losses, mainVars, hookVars>>

(* connectComplete begins its walk, on the callback thread, which has ended  *)
(* the one before; the iterator keeps the list's modCount, that is, its size *)
(* as it only grows.                                                         *)
Reconnected ==
    /\ connection = "lost"
    /\ walk = NoWalk
    /\ connection' = "up"
    /\ walk' = [cursor |-> 1, modCount |-> Len(subscribers)]
    /\ UNCHANGED <<pending, granted, losses, mainVars, hookVars>>

(* hasNext compares the cursor with the size the list has now.               *)
HasNext == walk.cursor # Len(subscribers) + 1

(* Mutant of Resubscribe: the walk takes the monitor.                        *)
ResubscribeSynchronized ==
    /\ walk # NoWalk
    /\ HasNext
    /\ walk.modCount = Len(subscribers)
    /\ monitor = "nobody"
    /\ walk' = [walk EXCEPT !.cursor = @ + 1]
    /\ pending' = IF connection = "up" THEN pending \cup {subscribers[walk.cursor]}
                                       ELSE pending
    /\ UNCHANGED <<connection, granted, losses, mainVars, hookVars>>

(* One turn of the walk; it catches the exception of a client that is not    *)
(* connected (any more).                                                     *)
Resubscribe ==
    /\ walk # NoWalk
    /\ HasNext
    /\ walk.modCount = Len(subscribers)
    /\ walk' = [walk EXCEPT !.cursor = @ + 1]
    /\ pending' = IF connection = "up" THEN pending \cup {subscribers[walk.cursor]}
                                       ELSE pending
    /\ UNCHANGED <<connection, granted, losses, mainVars, hookVars>>

(* Mutant of WalkFails: connectComplete catches every exception.             *)
WalkFailsQuietly ==
    /\ walk # NoWalk
    /\ HasNext
    /\ walk.modCount # Len(subscribers)
    /\ walk' = NoWalk
    /\ UNCHANGED <<connection, pending, granted, losses, mainVars, hookVars>>

(* A subscriber was added meanwhile: a ConcurrentModificationException, which *)
(* connectComplete does not catch.                                           *)
WalkFails ==
    /\ walk # NoWalk
    /\ HasNext
    /\ walk.modCount # Len(subscribers)
    /\ walk' = NoWalk
    /\ connection' = IF connection = "up" THEN "lost" ELSE connection
    /\ pending' = {}
    /\ UNCHANGED <<granted, losses, mainVars, hookVars>>

WalkEnds ==
    /\ walk # NoWalk
    /\ ~HasNext
    /\ walk' = NoWalk
    /\ UNCHANGED <<connection, pending, granted, losses, mainVars, hookVars>>

Paho == Granted \/ Reconnected \/ Resubscribe \/ WalkFails \/ WalkEnds

----------------------------------------------------------------------------
(* The shutdown hooks run concurrently.  The second exists once Main has     *)
(* registered it.                                                            *)
Shutdown ==
    /\ hooks[1] = "idle"
    /\ hooks' = <<"running", IF main = "serving" THEN "running" ELSE "idle">>
    /\ UNCHANGED <<mainVars, pahoVars, released>>

(* stop, inside the monitor: nothing to do, or disconnect, which refuses     *)
(* unless there is a connection or paho is just making one ...               *)
NothingToStop(h) ==
    /\ hooks[h] = "running"
    /\ monitor = "nobody"
    /\ ~client \/ connection # "up"
    /\ hooks' = [hooks EXCEPT ![h] = "stopped"]
    /\ UNCHANGED <<mainVars, pahoVars, released>>

Disconnect(h) ==
    /\ hooks[h] = "running"
    /\ monitor = "nobody"
    /\ client
    /\ connection # "none"
    /\ monitor' = "hook"
    /\ connection' = "none"
    /\ pending' = {}
    /\ hooks' = [hooks EXCEPT ![h] = "disconnecting"]
    /\ UNCHANGED <<main, client, subscribers, granted, walk, losses, released>>

(* ... and is waited for: paho completes it when its callback thread is done. *)
Close(h) ==
    /\ hooks[h] = "disconnecting"
    /\ walk = NoWalk
    /\ client' = FALSE
    /\ monitor' = "nobody"
    /\ hooks' = [hooks EXCEPT ![h] = "stopped"]
    /\ UNCHANGED <<main, subscribers, pahoVars, released>>

(* stopFramework goes on to close the Kafka producer and the Redis pool.     *)
Finish(h) ==
    /\ hooks[h] = "stopped"
    /\ hooks' = [hooks EXCEPT ![h] = "done"]
    /\ released' = (released \/ h = 2)
    /\ UNCHANGED <<mainVars, pahoVars>>

Hook(h) == NothingToStop(h) \/ Disconnect(h) \/ Close(h) \/ Finish(h)

(* The process ends with its hooks.                                          *)
Ended == hooks[1] = "done" /\ hooks[2] \in {"idle", "done"}

Next ==
    /\ ~Ended
    /\ \/ MainThread
       \/ Paho
       \/ ConnectionLost
       \/ Shutdown
       \/ \E h \in 1 .. 2 : Hook(h)

(* Every thread keeps running, and paho connects again as often as it takes; *)
(* no connection need be lost and no shutdown need come.                     *)
Fairness ==
    /\ WF_clientVars(~Ended /\ MainThread)
    /\ WF_clientVars(~Ended /\ Granted)
    /\ WF_clientVars(~Ended /\ Reconnected)
    /\ WF_clientVars(~Ended /\ (Resubscribe \/ WalkFails \/ WalkEnds))
    /\ \A h \in 1 .. 2 : WF_clientVars(~Ended /\ Hook(h))

Spec == Init /\ [][Next]_clientVars /\ Fairness

----------------------------------------------------------------------------
(* A connected client to which nothing is left to do holds the subscriptions *)
(* of all its subscribers, although addSubscriber and the walk of            *)
(* connectComplete meet in any order and the broker may have forgotten them. *)
Served ==
    (connection = "up" /\ walk = NoWalk /\ pending = {} /\ main # "subscribing")
        => Range(subscribers) \subseteq granted

(* A framework that started and is not stopped listens to every request      *)
(* topic in the end.                                                         *)
StaysServed ==
    <>[](main = "serving" /\ hooks[1] = "idle")
        => <>[](connection = "up" /\ granted = Range(RequestTopics))

(* Shutting down ends: the hooks, which both stop the client, neither wait   *)
(* for each other nor for the callback thread for ever, and the producer and *)
(* the pool are closed.                                                      *)
ShutdownReleases == hooks[2] = "running" ~> released
=============================================================================
