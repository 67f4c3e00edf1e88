------------------------------ MODULE IfaceSync ------------------------------
(***************************************************************************)
(* The Interface-State Synchronizer of src/src/common/lwip/ot_lwip.c:      *)
(* otPlatLwipUpdateState keeps the address table of the lwIP netif that    *)
(* stands for the Thread interface (sThreadNetIf) in step with the unicast *)
(* address list and the enabled state of the OpenThread instance.          *)
(*                                                                         *)
(* OpenThread is the environment: it changes its enabled state and its     *)
(* address list and accumulates otChangedFlags, which its notifier later   *)
(* hands, all at once, to the state-changed callback.  The callback runs   *)
(* in the OpenThread task and holds the lwIP core lock for its whole body, *)
(* so it is one atomic step.  Other lwIP users may add addresses to the    *)
(* same netif (ExternalWriters).                                           *)
(*                                                                         *)
(* The lwIP calls are modelled by what lwIP does:                          *)
(*   netif_add_ip6_address returns the slot already holding the address   *)
(*     (netif_get_ip6_addr_match, live slots only), else the first INVALID *)
(*     slot from 1 on (slot 0 is never handed out), else ERR_VAL;          *)
(*   netif_ip6_addr_set writes the address of a slot, not its state.       *)
(***************************************************************************)
EXTENDS Integers, Sequences, SequencesExt

CONSTANTS
  Addr,           \* IPv6 addresses the mesh stack may hold (model values)
  LinkLocal,      \* those with ip6_addr_islinklocal
  RlocAddrs,      \* those with mRloc
  NotValidAddrs,  \* those with mValid = FALSE
  PreferredAddrs, \* those with mPreferred
  ThreadOrigin,   \* those with mAddressOrigin = OT_ADDRESS_ORIGIN_THREAD
  NumAddresses,   \* LWIP_IPV6_NUM_ADDRESSES
  MaxListLen,     \* bound on the length of the mesh unicast address list
  ExternalWriters,\* TRUE: another lwIP user adds addresses to the netif
  NoAddr          \* the content of a slot never written

ASSUME /\ NumAddresses \in Nat \ {0, 1}
       /\ MaxListLen \in Nat
       /\ ExternalWriters \in BOOLEAN
       /\ NoAddr \notin Addr

Slots == 0 .. NumAddresses - 1

\* lwIP ip6 address states (IP6_ADDR_TENTATIVE stands for all tentative ones)
AddrStates == {"INVALID", "TENTATIVE", "VALID", "PREFERRED"}

\* otChangedFlags bits; "other" stands for every bit outside the mask
Flags == {"role", "addrAdded", "addrRemoved", "other"}
UpdateMask == {"role", "addrAdded", "addrRemoved"}
AddrFlags == {"addrAdded", "addrRemoved"}

VARIABLES
  meshUp,        \* otIp6IsEnabled(sInstance)
  meshAddrs,     \* otIp6GetUnicastAddresses(sInstance), in list order
  pending,       \* changed flags not yet delivered to the callback
  linkUp,        \* netif_is_link_up(&sThreadNetIf)
  netifAddr,     \* sThreadNetIf.ip6_addr[i]
  netifState,    \* sThreadNetIf.ip6_addr_state[i]
  sAddrAssigned  \* {i : sAddrAssigned[i]}

vars == <<meshUp, meshAddrs, pending, linkUp, netifAddr, netifState,
          sAddrAssigned>>

IsLive(st) == st # "INVALID"

(***************************************************************************)
(* One pass of the enumeration loop.  t is the part of the netif the loop *)
(* touches plus the local addrAssigned set: [addr, state, asg].            *)
(***************************************************************************)

\* otAddr->mValid && !otAddr->mRloc
Assignable(a) == a \notin NotValidAddrs /\ a \notin RlocAddrs

\* the state passed to netif_ip6_addr_set_state
TargetState(a) ==
  IF a \in PreferredAddrs /\ a \notin ThreadOrigin THEN "PREFERRED" ELSE "VALID"

\* netif_add_ip6_address: chosen slot, or -1 for ERR_VAL
NetifAddIp6Address(addr, state, a) ==
  LET match == {i \in Slots : IsLive(state[i]) /\ addr[i] = a}
      free  == {i \in Slots \ {0} : ~IsLive(state[i])}
  IN  IF match # {} THEN Min(match)
      ELSE IF free # {} THEN Min(free)
      ELSE -1

\* write a into slot i, set its state and record the slot as assigned
Place(t, i, a) ==
  [t EXCEPT !.addr[i] = a, !.state[i] = TargetState(a), !.asg = @ \cup {i}]

\* mutant: the ERR_VAL break dropped, addrAssigned[-1] written
RECURSIVE EnumerateAddrsNoBreak(_, _)
EnumerateAddrsNoBreak(list, t) ==
  IF list = <<>> THEN t
  ELSE LET a == Head(list) IN
       IF ~Assignable(a) THEN EnumerateAddrsNoBreak(Tail(list), t)
       ELSE IF a \in LinkLocal /\ 0 \notin t.asg
            THEN EnumerateAddrsNoBreak(Tail(list), Place(t, 0, a))
            ELSE EnumerateAddrsNoBreak(Tail(list),
                   Place(t, NetifAddIp6Address(t.addr, t.state, a), a))

\* mutant: no special case for the link-local address
RECURSIVE EnumerateAddrsAlwaysAdd(_, _)
EnumerateAddrsAlwaysAdd(list, t) ==
  IF list = <<>> THEN t
  ELSE LET a == Head(list) IN
       IF ~Assignable(a) THEN EnumerateAddrsAlwaysAdd(Tail(list), t)
       ELSE LET idx == NetifAddIp6Address(t.addr, t.state, a) IN
            IF idx = -1 THEN t
            ELSE EnumerateAddrsAlwaysAdd(Tail(list), Place(t, idx, a))

RECURSIVE EnumerateAddrs(_, _)
EnumerateAddrs(list, t) ==
  IF list = <<>> THEN t
  ELSE LET a == Head(list) IN
       IF ~Assignable(a) THEN EnumerateAddrs(Tail(list), t)
       ELSE IF a \in LinkLocal /\ 0 \notin t.asg
            THEN EnumerateAddrs(Tail(list), Place(t, 0, a))
            ELSE LET idx == NetifAddIp6Address(t.addr, t.state, a) IN
                 IF idx = -1 THEN t          \* ERR_VAL: break
                 ELSE EnumerateAddrs(Tail(list), Place(t, idx, a))

(***************************************************************************)
(* otPlatLwipUpdateState(flags): the whole callback, under LOCK_TCPIP_CORE *)
(***************************************************************************)
\* mutant: a link flip does not force address reconciliation
UpdateStateNoFlipForce(flags) ==
  LET isUp       == meshUp
      addrChange == flags \cap AddrFlags # {}
      start      == [addr |-> netifAddr, state |-> netifState, asg |-> {}]
      t          == IF isUp THEN EnumerateAddrs(meshAddrs, start) ELSE start
      removed(i) == ~isUp \/ (i \in sAddrAssigned /\ i \notin t.asg)
  IN  IF flags \cap UpdateMask = {}
      THEN UNCHANGED <<linkUp, netifAddr, netifState, sAddrAssigned>>
      ELSE /\ linkUp' = isUp
           /\ IF addrChange
              THEN /\ netifAddr' = t.addr
                   /\ netifState' = [i \in Slots |->
                                       IF removed(i) THEN "INVALID"
                                       ELSE t.state[i]]
                   /\ sAddrAssigned' = t.asg
              ELSE UNCHANGED <<netifAddr, netifState, sAddrAssigned>>

\* mutant: the shadow set is only remembered when the interface is up
UpdateStateShadowOnlyWhenUp(flags) ==
  LET isUp       == meshUp
      addrChange == (flags \cap AddrFlags # {}) \/ (isUp # linkUp)
      start      == [addr |-> netifAddr, state |-> netifState, asg |-> {}]
      t          == IF isUp THEN EnumerateAddrs(meshAddrs, start) ELSE start
      removed(i) == ~isUp \/ (i \in sAddrAssigned /\ i \notin t.asg)
  IN  IF flags \cap UpdateMask = {}
      THEN UNCHANGED <<linkUp, netifAddr, netifState, sAddrAssigned>>
      ELSE /\ linkUp' = isUp
           /\ IF addrChange
              THEN /\ netifAddr' = t.addr
                   /\ netifState' = [i \in Slots |->
                                       IF removed(i) THEN "INVALID"
                                       ELSE t.state[i]]
                   /\ sAddrAssigned' = IF isUp THEN t.asg ELSE sAddrAssigned
              ELSE UNCHANGED <<netifAddr, netifState, sAddrAssigned>>

UpdateState(flags) ==
  LET isUp       == meshUp
      addrChange == (flags \cap AddrFlags # {}) \/ (isUp # linkUp)
      start      == [addr |-> netifAddr, state |-> netifState, asg |-> {}]
      t          == IF isUp THEN EnumerateAddrs(meshAddrs, start) ELSE start
      removed(i) == ~isUp \/ (i \in sAddrAssigned /\ i \notin t.asg)
  IN  IF flags \cap UpdateMask = {}
      THEN UNCHANGED <<linkUp, netifAddr, netifState, sAddrAssigned>>
      ELSE /\ linkUp' = isUp
           /\ IF addrChange
              THEN /\ netifAddr' = t.addr
                   /\ netifState' = [i \in Slots |->
                                       IF removed(i) THEN "INVALID"
                                       ELSE t.state[i]]
                   /\ sAddrAssigned' = t.asg
              ELSE UNCHANGED <<netifAddr, netifState, sAddrAssigned>>

\* the OpenThread notifier delivers the accumulated flags to the callback
StateChanged ==
  /\ pending # {}
  /\ UpdateState(pending)
  /\ pending' = {}
  /\ UNCHANGED <<meshUp, meshAddrs>>

(***************************************************************************)
(* The environment: OpenThread and other lwIP users.                      *)
(***************************************************************************)

\* otIp6SetEnabled toggles the interface; the role changes with it
MeshSetEnabled(b) ==
  /\ meshUp # b
  /\ meshUp' = b
  /\ pending' = pending \cup {"role"}
  /\ UNCHANGED <<meshAddrs, linkUp, netifAddr, netifState, sAddrAssigned>>

MeshAddAddress(a, pos) ==
  /\ a \notin ToSet(meshAddrs)
  /\ Len(meshAddrs) < MaxListLen
  /\ meshAddrs' = InsertAt(meshAddrs, pos, a)
  /\ pending' = pending \cup {"addrAdded"}
  /\ UNCHANGED <<meshUp, linkUp, netifAddr, netifState, sAddrAssigned>>

MeshRemoveAddress(pos) ==
  /\ meshAddrs' = RemoveAt(meshAddrs, pos)
  /\ pending' = pending \cup {"addrRemoved"}
  /\ UNCHANGED <<meshUp, linkUp, netifAddr, netifState, sAddrAssigned>>

\* a change outside the callback's mask (partition id, channel, ...)
MeshOtherChange ==
  /\ "other" \notin pending
  /\ pending' = pending \cup {"other"}
  /\ UNCHANGED <<meshUp, meshAddrs, linkUp, netifAddr, netifState,
                 sAddrAssigned>>

\* another lwIP user calls netif_add_ip6_address on the Thread netif
ExternalAddAddress(a) ==
  LET idx == NetifAddIp6Address(netifAddr, netifState, a) IN
  /\ ExternalWriters
  /\ idx # -1
  /\ ~IsLive(netifState[idx])
  /\ netifAddr' = [netifAddr EXCEPT ![idx] = a]
  /\ netifState' = [netifState EXCEPT ![idx] = "TENTATIVE"]
  /\ UNCHANGED <<meshUp, meshAddrs, pending, linkUp, sAddrAssigned>>

(***************************************************************************)
(* otPlatLwipInit clears sAddrAssigned; otPlatLwipAddThreadInterface adds  *)
(* the netif with all slots INVALID and sets its link down.  OpenThread    *)
(* starts disabled with no addresses.                                      *)
(***************************************************************************)
Init ==
  /\ meshUp = FALSE
  /\ meshAddrs = <<>>
  /\ pending = {}
  /\ linkUp = FALSE
  /\ netifAddr = [i \in Slots |-> NoAddr]
  /\ netifState = [i \in Slots |-> "INVALID"]
  /\ sAddrAssigned = {}

Next ==
  \/ StateChanged
  \/ \E b \in BOOLEAN : MeshSetEnabled(b)
  \/ \E a \in Addr, pos \in 1 .. Len(meshAddrs) + 1 : MeshAddAddress(a, pos)
  \/ \E pos \in 1 .. Len(meshAddrs) : MeshRemoveAddress(pos)
  \/ MeshOtherChange
  \/ \E a \in Addr \ LinkLocal : ExternalAddAddress(a)

Spec == Init /\ [][Next]_vars

(***************************************************************************)
(* Fairness.  The callback is run by the notifier tasklet, which the ot   *)
(* task eventually runs once it is posted (BrTasks, WorkReachesTaskLoop), *)
(* so delivering pending flags is weakly fair.  OpenThread's own changes  *)
(* and other lwIP users are the environment and need never act.           *)
(***************************************************************************)
FairSpec == Spec /\ WF_vars(StateChanged)

(***************************************************************************)
(* Properties                                                              *)
(***************************************************************************)

TypeOK ==
  /\ meshUp \in BOOLEAN
  /\ meshAddrs \in Seq(Addr) /\ Len(meshAddrs) <= MaxListLen
  /\ pending \subseteq Flags
  /\ linkUp \in BOOLEAN
  /\ netifAddr \in [Slots -> Addr \cup {NoAddr}]
  /\ netifState \in [Slots -> AddrStates]
  /\ sAddrAssigned \subseteq Slots

\* the addresses the callback is meant to put on the netif
Wanted == IF meshUp THEN {a \in ToSet(meshAddrs) : Assignable(a)} ELSE {}

(***************************************************************************)
(* Once every relevant change has been delivered to otPlatLwipUpdateState, *)
(* the netif mirrors OpenThread: its link state is OpenThread's enabled    *)
(* state, the slots the callback owns hold exactly the wanted addresses,   *)
(* each live and in the state its preferred flag and origin ask for,      *)
(* whenever the table has room for them (a full table drops addresses by  *)
(* design: "If the address table fills (ERR_VAL), simply stop").           *)
(* This is the reconciliation contract of the whole callback: link flip   *)
(* forcing a pass, enumeration, slot reuse, stale-slot removal, shadow.   *)
(***************************************************************************)
\* the wanted addresses fit: at most one link-local for slot 0, and the
\* others within the slots netif_add_ip6_address hands out
WantedFits ==
  /\ Cardinality(Wanted \cap LinkLocal) <= 1
  /\ Cardinality(Wanted \ LinkLocal) <= NumAddresses - 1

\* the netif mirrors OpenThread's enabled state and wanted addresses
Mirrors ==
  /\ linkUp = meshUp
  /\ {netifAddr[i] : i \in sAddrAssigned} = Wanted
  /\ \A i \in sAddrAssigned : netifState[i] = TargetState(netifAddr[i])

SyncedWhenIdle == (pending \cap UpdateMask = {} /\ WantedFits) => Mirrors

(***************************************************************************)
(* Convergence: once OpenThread stops changing its enabled state and its  *)
(* address list, the netif comes to mirror it and stays so, however many  *)
(* changes were accumulated and in whatever order the notifier delivered  *)
(* them (a change outside the callback's mask may still arrive).  This    *)
(* needs the notifier to run the callback, and every pass to leave        *)
(* nothing for a later pass that no change will trigger.                  *)
(***************************************************************************)
EventuallyMirrors ==
  <>[][UNCHANGED <<meshUp, meshAddrs>>]_vars => <>[](WantedFits => Mirrors)

(***************************************************************************)
(* The primary link-local address is in slot 0 (the slot lwIP takes as    *)
(* the netif's link-local source) whenever the callback has caught up and *)
(* OpenThread is up with a link-local address: every pass must claim slot *)
(* 0 afresh, whatever the previous pass did.                               *)
(***************************************************************************)
PrimaryLinkLocalInSlotZero ==
  (pending \cap UpdateMask = {} /\ Wanted \cap LinkLocal # {}) =>
    /\ IsLive(netifState[0])
    /\ netifAddr[0] \in Wanted \cap LinkLocal

(***************************************************************************)
(* The shadow set sAddrAssigned only names live slots: a slot the callback *)
(* will later invalidate as "previously assigned" is really in use, and    *)
(* after a link-down pass the shadow set is empty.                         *)
(***************************************************************************)
ShadowNamesLiveSlots ==
  \A i \in sAddrAssigned : IsLive(netifState[i])

=============================================================================
