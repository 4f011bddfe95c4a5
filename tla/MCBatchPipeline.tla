-------------------------- MODULE MCBatchPipeline --------------------------
(* One agent and its fan-in processes, with every topic's flags as the       *)
(* entry points set them when the batch counters are checked.                *)
EXTENDS BatchPipeline

MCOn == [p \in Topics |-> TRUE]
MCOff == [p \in Topics |-> FALSE]
=============================================================================
