---------------------------- MODULE PdmSaveQueue ----------------------------
(***************************************************************************)
(* The deferred record-save queue of src/src/k32w0/platform/               *)
(* pdm_ram_storage_glue.c (build option PDM_SAVE_IDLE).                    *)
(*                                                                         *)
(* A settings writer changes the RAM copy of a record and asks for it to  *)
(* be saved with FS_eSaveRecordDataInIdleTask, which puts the record id   *)
(* into a wrap-around queue of MAX_QUEUE_SIZE entries unless the id is    *)
(* already queued.  The idle task (FS_vIdleTask) takes entries off the    *)
(* queue and writes each record to flash (FS_SaveRecordData); a failed    *)
(* write puts the id back through FS_eSaveRecordDataInIdleTask.           *)
(*                                                                         *)
(* Task-context callers hold asQueueMutex from the look-ahead to the      *)
(* write-pointer update; a caller in interrupt context skips the mutex.   *)
(* The task-context enqueue is therefore split at the points where an     *)
(* interrupt can run: after the look-ahead, after the entry is written.   *)
(* A record's RAM buffer (PdmRamBuffer) is sized and loaded at boot by   *)
(* getRamBuffer and grown by ramStorageResize before the settings layer  *)
(* appends a block; "dirty" records that the RAM copy holds data flash   *)
(* does not.                                                               *)
(***************************************************************************)
EXTENDS Integers, FiniteSets, Sequences, PdmRamBuffer

CONSTANTS
  Ids,          \* record ids (u16IdValue) used by the settings layer
  QueueSize,    \* MAX_QUEUE_SIZE
  NoId,         \* content of a queue entry never written
  ValueLens,    \* aValueLength of the settings the layer writes
  FlashLen      \* FlashLen[id]: bytes of record id on flash at boot

ASSUME /\ QueueSize \in Nat \ {0, 1}
       /\ NoId \notin Ids
       /\ \A id \in Ids : FlashLen[id] \in 0 .. 65535

QIdx == 0 .. QueueSize - 1

\* the task-context processes that call FS_eSaveRecordDataInIdleTask
Writer == "writer"     \* the settings layer in the application task
Idle   == "idle"       \* FS_vIdleTask re-queueing a failed save
Procs  == {Writer, Idle}

VARIABLES
  asQueue,        \* asQueue[i].u16IdValue
  u8QueueWritePtr,
  u8QueueReadPtr,
  mutex,          \* holder of asQueueMutex, or "none"
  pc,             \* pc[p]: where process p is
  req,            \* req[p]: the id p is saving or queueing
  dirty,          \* ids whose RAM copy is newer than flash
  ramBuf          \* ramBuf[id]: the ramBufferDescriptor of record id

vars == <<asQueue, u8QueueWritePtr, u8QueueReadPtr, mutex, pc, req, dirty,
          ramBuf>>

\* mutant: the wrap test one step late
IncrementQueuePtrLate(v) == IF v + 1 > QueueSize THEN 0 ELSE v + 1

\* u8IncrementQueuePtr
IncrementQueuePtr(v) == IF v + 1 = QueueSize THEN 0 ELSE v + 1

\* the entries from position k up to the write pointer, in queue order
RECURSIVE LiveSeq(_)
LiveSeq(k) ==
  IF k = u8QueueWritePtr THEN <<>>
  ELSE <<asQueue[k]>> \o LiveSeq(IncrementQueuePtr(k))

Queued == LET q == LiveSeq(u8QueueReadPtr) IN {q[i] : i \in DOMAIN q}

\* the buffers getRamBuffer can hand out for the records
Buffers == UNION {GetRamBuffer(FlashLen[id]) : id \in Ids}

(***************************************************************************)
(* FS_eSaveRecordDataInIdleTask, task context.                             *)
(***************************************************************************)

\* mutant: the look-ahead is left out, every call appends an entry
EnqueueLookAheadNoDedupe(p) ==
  /\ pc[p] = "lookahead"
  /\ mutex = "none"
  /\ mutex' = p
  /\ pc' = [pc EXCEPT ![p] = "write"]
  /\ UNCHANGED <<asQueue, u8QueueWritePtr, u8QueueReadPtr, req, dirty, ramBuf>>

\* mutex_lock, then the look-ahead for the same id
EnqueueLookAhead(p) ==
  /\ pc[p] = "lookahead"
  /\ mutex = "none"
  /\ mutex' = p
  /\ pc' = [pc EXCEPT ![p] = IF req[p] \in Queued THEN "unlock" ELSE "write"]
  /\ UNCHANGED <<asQueue, u8QueueWritePtr, u8QueueReadPtr, req, dirty, ramBuf>>

\* psQueueEntry = &asQueue[u8QueueWritePtr]; write the entry
EnqueueWriteEntry(p) ==
  /\ pc[p] = "write"
  /\ asQueue' = [asQueue EXCEPT ![u8QueueWritePtr] = req[p]]
  /\ pc' = [pc EXCEPT ![p] = "bump"]
  /\ UNCHANGED <<u8QueueWritePtr, u8QueueReadPtr, mutex, req, dirty, ramBuf>>

\* u8QueueWritePtr = u8IncrementQueuePtr(u8QueueWritePtr); mutex_unlock
EnqueueBumpAndUnlock(p) ==
  /\ pc[p] = "bump"
  /\ u8QueueWritePtr' = IncrementQueuePtr(u8QueueWritePtr)
  /\ mutex' = "none"
  /\ pc' = [pc EXCEPT ![p] = "ready"]
  /\ UNCHANGED <<asQueue, u8QueueReadPtr, req, dirty, ramBuf>>

\* the id was already queued: mutex_unlock only
EnqueueUnlock(p) ==
  /\ pc[p] = "unlock"
  /\ mutex' = "none"
  /\ pc' = [pc EXCEPT ![p] = "ready"]
  /\ UNCHANGED <<asQueue, u8QueueWritePtr, u8QueueReadPtr, req, dirty, ramBuf>>

(***************************************************************************)
(* FS_eSaveRecordDataInIdleTask from interrupt context: no mutex, and the  *)
(* whole call runs before the interrupted code resumes.                   *)
(***************************************************************************)
IsrSave(id) ==
  /\ dirty' = dirty \cup {id}
  /\ IF id \in Queued
     THEN UNCHANGED <<asQueue, u8QueueWritePtr>>
     ELSE /\ asQueue' = [asQueue EXCEPT ![u8QueueWritePtr] = id]
          /\ u8QueueWritePtr' = IncrementQueuePtr(u8QueueWritePtr)
  /\ UNCHANGED <<u8QueueReadPtr, mutex, pc, req, ramBuf>>

(***************************************************************************)
(* The settings layer adds a block of v bytes to a record: ramStorageResize *)
(* first; if it fails, nothing changes and no   *)
(* save is asked for; otherwise the block is appended (under the buffer  *)
(* mutex) and the record is handed to FS_eSaveRecordDataInIdleTask.      *)
(***************************************************************************)
WriterChange(id, v) ==
  /\ pc[Writer] = "ready"
  /\ \E r \in RamStorageResize(ramBuf[id], v) :
       IF r.err = "NONE"
       THEN /\ ramBuf' = [ramBuf EXCEPT ![id] = AppendBlock(r.buf, v)]
            /\ dirty' = dirty \cup {id}
            /\ req' = [req EXCEPT ![Writer] = id]
            /\ pc' = [pc EXCEPT ![Writer] = "lookahead"]
            /\ UNCHANGED <<asQueue, u8QueueWritePtr, u8QueueReadPtr, mutex>>
       ELSE UNCHANGED vars

(***************************************************************************)
(* FS_vIdleTask: one iteration of its loop takes the entry at the read    *)
(* pointer under the mutex; FS_SaveRecordData then copies the RAM buffer  *)
(* and writes it to flash.  A failed write (buffer mutex busy or PDM      *)
(* error) re-queues the id with FS_eSaveRecordDataInIdleTask.             *)
(***************************************************************************)
\* mutant: the read pointer advanced before the entry is copied out
IdleDequeueAfterIncrement ==
  /\ pc[Idle] = "ready"
  /\ u8QueueReadPtr # u8QueueWritePtr
  /\ mutex = "none"
  /\ req' = [req EXCEPT ![Idle] = asQueue[IncrementQueuePtr(u8QueueReadPtr)]]
  /\ u8QueueReadPtr' = IncrementQueuePtr(u8QueueReadPtr)
  /\ pc' = [pc EXCEPT ![Idle] = "save"]
  /\ UNCHANGED <<asQueue, u8QueueWritePtr, mutex, dirty, ramBuf>>

IdleDequeue ==
  /\ pc[Idle] = "ready"
  /\ u8QueueReadPtr # u8QueueWritePtr
  /\ mutex = "none"
  /\ req' = [req EXCEPT ![Idle] = asQueue[u8QueueReadPtr]]
  /\ u8QueueReadPtr' = IncrementQueuePtr(u8QueueReadPtr)
  /\ pc' = [pc EXCEPT ![Idle] = "save"]
  /\ UNCHANGED <<asQueue, u8QueueWritePtr, mutex, dirty, ramBuf>>

IdleSaveOk ==
  /\ pc[Idle] = "save"
  /\ dirty' = dirty \ {req[Idle]}
  /\ pc' = [pc EXCEPT ![Idle] = "ready"]
  /\ UNCHANGED <<asQueue, u8QueueWritePtr, u8QueueReadPtr, mutex, req, ramBuf>>

\* mutant: a failed write is not re-queued
IdleSaveFailedNoRetry ==
  /\ pc[Idle] = "save"
  /\ req[Idle] \in Ids
  /\ pc' = [pc EXCEPT ![Idle] = "ready"]
  /\ UNCHANGED <<asQueue, u8QueueWritePtr, u8QueueReadPtr, mutex, req, dirty, ramBuf>>

IdleSaveFailed ==
  /\ pc[Idle] = "save"
  /\ req[Idle] \in Ids
  /\ pc' = [pc EXCEPT ![Idle] = "lookahead"]
  /\ UNCHANGED <<asQueue, u8QueueWritePtr, u8QueueReadPtr, mutex, req, dirty, ramBuf>>

Init ==
  /\ asQueue = [k \in QIdx |-> NoId]
  /\ u8QueueWritePtr = 0
  /\ u8QueueReadPtr = 0
  /\ mutex = "none"
  /\ pc = [p \in Procs |-> "ready"]
  /\ req = [p \in Procs |-> NoId]
  /\ dirty = {}
  /\ ramBuf \in {b \in [Ids -> Buffers] : \A id \in Ids : b[id] \in GetRamBuffer(FlashLen[id])}

Next ==
  \/ \E id \in Ids, v \in ValueLens : WriterChange(id, v)
  \/ \E p \in Procs : \/ EnqueueLookAhead(p)
                      \/ EnqueueWriteEntry(p)
                      \/ EnqueueBumpAndUnlock(p)
                      \/ EnqueueUnlock(p)
  \/ IdleDequeue
  \/ IdleSaveOk
  \/ IdleSaveFailed

(***************************************************************************)
(* Fairness.  The task-context enqueue steps run once started (the mutex  *)
(* holder is never blocked inside).  Taking the mutex and the idle task's *)
(* dequeue are enabled only intermittently (another holder, a busy       *)
(* application task): they are strongly fair, which holds when the       *)
(* application task eventually blocks and lets the idle task run.        *)
(* A record's flash write retried forever eventually succeeds.           *)
(***************************************************************************)
Fairness ==
  /\ \A p \in Procs : /\ SF_vars(EnqueueLookAhead(p))
                      /\ WF_vars(EnqueueWriteEntry(p))
                      /\ WF_vars(EnqueueBumpAndUnlock(p))
                      /\ WF_vars(EnqueueUnlock(p))
  /\ SF_vars(IdleDequeue)
  /\ \A id \in Ids : SF_vars(IdleSaveOk /\ req[Idle] = id)

Spec == Init /\ [][Next]_vars

FairSpec == Spec /\ Fairness

\* a build in which some record is also saved from interrupt context
NextWithIsr == Next \/ \E id \in Ids : IsrSave(id)

SpecWithIsr == Init /\ [][NextWithIsr]_vars

(***************************************************************************)
(* Properties                                                              *)
(***************************************************************************)

TypeOK ==
  /\ asQueue \in [QIdx -> Ids \cup {NoId}]
  /\ u8QueueWritePtr \in QIdx
  /\ u8QueueReadPtr \in QIdx
  /\ mutex \in Procs \cup {"none"}
  /\ pc \in [Procs -> {"ready", "lookahead", "write", "bump", "unlock",
                        "save"}]
  /\ req \in [Procs -> Ids \cup {NoId}]
  /\ dirty \subseteq Ids
  /\ ramBuf \in [Ids -> [ok : BOOLEAN, length : Nat, maxLength : Nat]]

(***************************************************************************)
(* Every block the settings layer appends lands inside the memory the     *)
(* buffer holds: across loading at boot (doesDataExist growing maxLength *)
(* in uint16_t steps, loadData) and any run of ramStorageResize/append    *)
(* calls, a buffer's length never passes its maxLength, which never       *)
(* passes kRamBufferMaxAllocSize.                                          *)
(***************************************************************************)
RamBufferHoldsRecord ==
  \A id \in Ids :
    ramBuf[id].ok => ramBuf[id].length <= ramBuf[id].maxLength
                     /\ ramBuf[id].maxLength <= MaxAllocSize

(***************************************************************************)
(* No save request is lost: a record whose RAM copy is newer than flash   *)
(* is in the live part of the queue, or a process is still queueing it,  *)
(* or the idle task is saving it.  Breaking it takes a queue that wraps  *)
(* onto its read pointer, a duplicate entry, a dropped retry, or an       *)
(* interrupt overwriting an entry a task has written but not published.  *)
(***************************************************************************)
NoLostSave ==
  \A id \in dirty :
    \/ id \in Queued
    \/ \E p \in Procs : pc[p] # "ready" /\ req[p] = id

(***************************************************************************)
(* Every record whose RAM copy stops changing is eventually written to    *)
(* flash with its final contents, through dequeue, failed writes and      *)
(* re-queueing.                                                            *)
(***************************************************************************)
(***************************************************************************)
(* The queue implements the FIFO of PdmSaveFifo: its live entries, read   *)
(* pointer to write pointer, are the pending requests in order, and the  *)
(* idle task holds its request from the dequeue until the write succeeds *)
(* or the retry has gone back into the queue.                             *)
(***************************************************************************)
Taken == IF pc[Idle] = "ready" THEN NoId ELSE req[Idle]

Fifo == INSTANCE PdmSaveFifo WITH pending <- LiveSeq(u8QueueReadPtr),
                                  taken <- Taken, Capacity <- QueueSize - 1

ImplementsFifo == Fifo!Spec

Changes(id) == (\E v \in ValueLens : WriterChange(id, v)) \/ IsrSave(id)

EventuallySaved ==
  \A id \in Ids :
    (<>[][~Changes(id)]_vars) => ((id \in dirty) ~> (id \notin dirty))

=============================================================================
