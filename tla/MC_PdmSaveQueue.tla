-------------------------- MODULE MC_PdmSaveQueue --------------------------
(***************************************************************************)
(* Model-checking instance of PdmSaveQueue.  Record ids are model values; *)
(* the queue is shortened from 16 entries to QueueSize.                   *)
(***************************************************************************)
EXTENDS PdmSaveQueue, TLC

\* r1, r2, r3 are model values declared in the .cfg files
CONSTANTS r1, r2, r3

MCIdsFit == {r1, r2}
MCIdsOverflow == {r1, r2, r3}

\* r1 is on flash at boot with 20 bytes, the others are not
MCFlashLen == [id \in MCIdsOverflow |-> IF id = r1 THEN 20 ELSE 0]
=============================================================================
