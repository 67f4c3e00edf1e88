----------------------------- MODULE PdmSaveFifo -----------------------------
(***************************************************************************)
(* What the deferred-write build of the settings glue promises (spec.md   *)
(* section 6): save requests wait in a bounded FIFO; a request for an id  *)
(* that is already waiting is dropped, not queued twice; an idle-time     *)
(* task takes them in order and writes the record; a write that fails is  *)
(* asked for again.                                                        *)
(*                                                                         *)
(* pending is the FIFO, taken the request the idle task holds (NoId when  *)
(* none), dirty the records whose RAM copy is newer than flash.           *)
(***************************************************************************)
EXTENDS Naturals, Sequences, FiniteSets

CONSTANTS Ids, Capacity, NoId

VARIABLES pending, taken, dirty

fifoVars == <<pending, taken, dirty>>

Waiting == {pending[i] : i \in DOMAIN pending}

\* put id at the back unless it is already waiting
Enqueue(id) ==
  IF id \in Waiting THEN pending ELSE Append(pending, id)

HasRoom(id) == id \in Waiting \/ Len(pending) < Capacity

\* the RAM copy of a record changes
Change(id) ==
  /\ dirty' = dirty \cup {id}
  /\ UNCHANGED <<pending, taken>>

\* a save request from the settings layer
Request(id) ==
  /\ HasRoom(id)
  /\ pending' = Enqueue(id)
  /\ UNCHANGED <<taken, dirty>>

\* the idle task takes the oldest request
Take ==
  /\ taken = NoId
  /\ pending # <<>>
  /\ taken' = Head(pending)
  /\ pending' = Tail(pending)
  /\ UNCHANGED dirty

\* the record reaches flash
SaveOk ==
  /\ taken # NoId
  /\ dirty' = dirty \ {taken}
  /\ taken' = NoId
  /\ UNCHANGED pending

\* the write fails and the record is asked for again
SaveFailed ==
  /\ taken # NoId
  /\ HasRoom(taken)
  /\ pending' = Enqueue(taken)
  /\ taken' = NoId
  /\ UNCHANGED dirty

Init ==
  /\ pending = <<>>
  /\ taken = NoId
  /\ dirty = {}

Next ==
  \/ \E id \in Ids : Change(id) \/ Request(id)
  \/ Take \/ SaveOk \/ SaveFailed

Spec == Init /\ [][Next]_fifoVars
=============================================================================
