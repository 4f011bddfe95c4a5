--------------------------- MODULE MCBatchSender ---------------------------
(* The sender alone with batching off, as the simulator's default options    *)
(* run it: several subtopics, a limit that ends inside a record list.        *)
(* FillBatch and FlushBatch, whose guards are then false, are left out.      *)
EXTENDS BatchSender

ASSUME BatchingIsOff == BatchRecords = 0

Unbatched == NextRecordList \/ SendSingle \/ Finish

(* The main thread keeps running; a signal need never come.                  *)
Spec ==
    /\ SenderInit
    /\ [][Unbatched \/ Interrupt]_senderVars
    /\ WF_senderVars(Unbatched)
=============================================================================
