---------------------------- MODULE PacketConvert ----------------------------
(***************************************************************************)
(* The packet converters of src/src/common/lwip/ot_lwip.c:                *)
(* otPlatLwipConvertToOtMsg copies an lwIP pbuf chain into a new          *)
(* OpenThread message, otPlatLwipConvertToLwipMsg an OpenThread message   *)
(* into a new pbuf.  Each returns NULL when an allocation or a copy       *)
(* fails, after freeing what it allocated.                                *)
(*                                                                         *)
(* Payload bytes are abstracted to the pbuf they come from: a chain is a  *)
(* sequence of pbuf lengths, and a message the sequence of                *)
(* [pos, len] pieces appended to it.  A packet is [totLen, chain]: lwIP   *)
(* keeps tot_len in a u16_t of its own, so it need not be the sum of the *)
(* lengths.                                                                *)
(***************************************************************************)
EXTENDS Naturals, Sequences, SequencesExt

\* NULL: a chain is never empty, so no message or pbuf is the empty sequence
Null == <<>>

U16(v) == v % 65536

\* the pieces a chain holds, in order
Pieces(chain) == [i \in 1 .. Len(chain) |-> [pos |-> i, len |-> chain[i]]]

(***************************************************************************)
(* The copy loop of otPlatLwipConvertToOtMsg from pbuf i on, with         *)
(* remainingLen rem and message msg: a pbuf longer than what remains     *)
(* ends it, otMessageAppend may fail (no message buffers), and the loop   *)
(* succeeds only if remainingLen is 0 at the end of the chain.  rem is a  *)
(* uint16_t.                                                               *)
(***************************************************************************)
\* mutant: the loop leaves out the partialPkt->len <= remainingLen check
RECURSIVE CopyChainUnchecked(_, _, _, _)
CopyChainUnchecked(chain, i, rem, msg) ==
  IF i > Len(chain) THEN {[ok |-> rem = 0, msg |-> msg]}
  ELSE {[ok |-> FALSE, msg |-> msg]}
       \cup CopyChainUnchecked(chain, i + 1, U16(rem - chain[i]),
                               Append(msg, [pos |-> i, len |-> chain[i]]))

RECURSIVE CopyChain(_, _, _, _)
CopyChain(chain, i, rem, msg) ==
  IF i > Len(chain) THEN {[ok |-> rem = 0, msg |-> msg]}
  ELSE IF chain[i] > rem THEN {[ok |-> FALSE, msg |-> msg]}
  ELSE {[ok |-> FALSE, msg |-> msg]}
       \cup CopyChain(chain, i + 1, U16(rem - chain[i]),
                      Append(msg, [pos |-> i, len |-> chain[i]]))

\* otPlatLwipConvertToOtMsg(pkt): the messages it can return (otIp6NewMessage
\* may fail; a failed copy frees the message and returns NULL)
ConvertToOtMsg(pkt) ==
  {Null} \cup {IF r.ok THEN r.msg ELSE Null : r \in CopyChain(pkt.chain, 1, pkt.totLen, <<>>)}

\* otPlatLwipConvertToLwipMsg(otIpPkt, bTransport) for a message of len
\* bytes, as the pbuf chain it returns: pbuf_alloc may fail; otMessageRead from offset 0 reads the whole
\* message, so the length test never frees the pbuf.  The pbuf is taken
\* to hold len bytes in its first payload, which PBUF_RAM guarantees and
\* PBUF_POOL only when PBUF_POOL_BUFSIZE (lwipopts.h, not in src/) is at
\* least the largest Thread datagram.
ConvertToLwipMsg(len) == {Null, <<len>>}

\* the bytes a chain really holds
ChainLength(chain) == FoldLeft(LAMBDA a, b : a + b, 0, chain)
=============================================================================
