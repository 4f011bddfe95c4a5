--------------------------- MODULE AgentDirectory ---------------------------
(***************************************************************************)
(* What the framework manager promises its agents, with every request       *)
(* served in one step: a directory with at most one entry for a uid, in     *)
(* which a uuid is never used twice, only an agent that is there receives   *)
(* sensor UUIDs, and an agent that has left does not come back.             *)
(***************************************************************************)
VARIABLES
    entries,    \* the agents, as [uuid, uid, devices]
    past        \* the uuids of all agents there ever were

directoryVars == <<entries, past>>

Init == entries = {} /\ past = {}

Enrol ==
    \E e \in entries' :
        /\ e.uuid \notin past
        /\ e.devices = 0
        /\ \A f \in entries : f.uid # e.uid
        /\ entries' = entries \cup {e}
        /\ past' = past \cup {e.uuid}

Equip ==
    \E e \in entries, f \in entries' :
        /\ f # e
        /\ f = [e EXCEPT !.devices = f.devices]
        /\ entries' = (entries \ {e}) \cup {f}
        /\ UNCHANGED past

Withdraw ==
    \E e \in entries :
        /\ entries' = entries \ {e}
        /\ UNCHANGED past

Next == Enrol \/ Equip \/ Withdraw

Spec == Init /\ [][Next]_directoryVars
=============================================================================
