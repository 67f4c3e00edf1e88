---------------------------- MODULE PdmRamBuffer ----------------------------
(***************************************************************************)
(* The RAM buffer of a settings record in src/src/k32w0/platform/          *)
(* pdm_ram_storage_glue.c (build ENABLE_STORAGE_DYNAMIC_MEMORY): how      *)
(* getRamBuffer sizes and loads it at boot and how ramStorageResize grows *)
(* it before the settings layer appends a block.  A buffer is             *)
(* [ok, length, maxLength]: ok is FALSE for the NULL descriptor.          *)
(* Sizes are uint16_t; a sum in a comparison is computed in int.          *)
(***************************************************************************)
EXTENDS Integers

CONSTANTS
  InitialSize,    \* the initialSize the settings layer passes to getRamBuffer
  ReallocSize,    \* kRamBufferReallocSize
  MaxAllocSize,   \* kRamBufferMaxAllocSize
  BlockHeader     \* sizeof(struct settingsBlock)

ASSUME /\ {InitialSize, ReallocSize, MaxAllocSize, BlockHeader} \subseteq 1 .. 65535

U16(v) == v % 65536

(***************************************************************************)
(* The loop both functions use: add kRamBufferReallocSize to a uint16_t   *)
(* size until it reaches need.  It only ends if some size it wraps        *)
(* through is at least need; the models keep need below that.             *)
(***************************************************************************)
RECURSIVE GrowTo(_, _)
GrowTo(size, need) == IF size >= need THEN size ELSE GrowTo(U16(size + ReallocSize), need)

NoBuffer == [ok |-> FALSE, length |-> 0, maxLength |-> 0]

(***************************************************************************)
(* getRamBuffer(nvmId, InitialSize) for a record that flash holds with    *)
(* flashLen bytes (0: no record).  Either allocation or the mutex may     *)
(* fail (HandleError returns NULL); doesDataExist grows maxLength until   *)
(* the record fits, and a record larger than kRamBufferMaxAllocSize gets  *)
(* no buffer; loadData keeps the flash length unless the read fails,     *)
(* which empties the buffer.                                              *)
(***************************************************************************)
GetRamBuffer(flashLen) ==
  LET maxLength == IF flashLen > 0 THEN GrowTo(InitialSize, flashLen) ELSE InitialSize
      loaded    == IF flashLen > 0 THEN {flashLen, 0} ELSE {0}
  IN {NoBuffer}
     \cup IF maxLength <= MaxAllocSize
          THEN {[ok |-> TRUE, length |-> l, maxLength |-> maxLength] : l \in loaded}
          ELSE {}

(***************************************************************************)
(* ramStorageResize(pBuffer, aKey, aValue, aValueLength): the outcomes,   *)
(* otPlatRealloc failing being one of them; a NULL descriptor gives       *)
(* RS_ERROR_NO_BUFS.                                                       *)
(***************************************************************************)
\* mutant: the fit test leaves out the bytes already in the buffer
RamStorageResizeNoLength(buf, aValueLength) ==
  LET newBlockLength == U16(BlockHeader + aValueLength)
      allocSize      == GrowTo(buf.maxLength, newBlockLength)
  IN IF ~buf.ok THEN {[err |-> "NO_BUFS", buf |-> buf]}
     ELSE IF buf.maxLength >= newBlockLength THEN {[err |-> "NONE", buf |-> buf]}
     ELSE IF allocSize <= MaxAllocSize
          THEN {[err |-> "NONE", buf |-> [buf EXCEPT !.maxLength = allocSize]],
                [err |-> "NO_BUFS", buf |-> buf]}
          ELSE {[err |-> "NO_BUFS", buf |-> buf]}

RamStorageResize(buf, aValueLength) ==
  LET newBlockLength == U16(BlockHeader + aValueLength)
      need           == buf.length + newBlockLength
      allocSize      == GrowTo(buf.maxLength, need)
  IN IF ~buf.ok THEN {[err |-> "NO_BUFS", buf |-> buf]}
     ELSE IF buf.maxLength >= need THEN {[err |-> "NONE", buf |-> buf]}
     ELSE IF allocSize <= MaxAllocSize
          THEN {[err |-> "NONE", buf |-> [buf EXCEPT !.maxLength = allocSize]],
                [err |-> "NO_BUFS", buf |-> buf]}
          ELSE {[err |-> "NO_BUFS", buf |-> buf]}

\* the settings layer appends a block of aValueLength bytes after a
\* successful resize (header.length is a uint16_t)
AppendBlock(buf, aValueLength) ==
  [buf EXCEPT !.length = U16(buf.length + BlockHeader + aValueLength)]
=============================================================================
