------------------------------- MODULE BrTasks -------------------------------
(***************************************************************************)
(* The threads of the border-router example and the two locks between     *)
(* them (src/examples/br/br_ot_freertos.c, src/src/common/lwip/ot_lwip.c,  *)
(* src/src/common/br/infra_if.c).                                          *)
(*                                                                         *)
(*  - The "ot" task (mainloop) sleeps in ulTaskNotifyTake, then takes the  *)
(*    OpenThread task lock sMainStackLock, runs otTaskletsProcess and      *)
(*    otSysProcessDrivers, and releases the lock.  The notifier tasklet    *)
(*    calls otPlatLwipUpdateState, which takes the lwIP core lock; the     *)
(*    mDNS forwarder appMdnsTxHook calls udp_sendto_if; received radio     *)
(*    frames go to otPlatLwipReceivePacket, which posts them to the tcpip  *)
(*    mailbox (tcpip_input).                                               *)
(*  - lwIP's tcpip thread holds the core lock while it handles a mailbox  *)
(*    message.  A packet routed to the Thread netif reaches                *)
(*    otPlatLwipSendPacket, which takes the task lock; an mDNS packet      *)
(*    reaches appMdnsRcvHook and an ICMPv6 ND packet reaches               *)
(*    ReceiveIcmp6Message, both of which call OpenThread.                  *)
(*  - The radio interrupt signals driver events (otSysEventSignalPending); *)
(*    OpenThread signals posted tasklets (otTaskletsSignalPending).  Both  *)
(*    give the ot task's notification.                                     *)
(*                                                                         *)
(* Packets are abstracted to the kind of mailbox message they cause; the  *)
(* converters of PacketConvert decide whether a packet gets through.      *)
(***************************************************************************)
EXTENDS Naturals, PacketConvert

CONSTANTS
  InfraKinds,   \* kinds of packets arriving on the infrastructure netif
  TxHook,       \* TRUE: OpenThread forwards mDNS through appMdnsTxHook
  BringUp,      \* TRUE: start at mainloop's entry, before appBrInit
  NoOne,        \* owner of a free lock
  Packets       \* the pbuf chains lwIP routes to the Thread netif

\* mailbox messages of the tcpip thread:
\*   "fromThread"  a Thread packet posted by otPlatLwipReceivePacket
\*   "toThread"    an infrastructure packet routed to the Thread netif
\*   "mdns"        an mDNS packet for the udp pcb bound by appMdnsProxyInit
\*   "nd"          an ICMPv6 RS/RA/NA for the raw pcb of InfraIfInit
MsgKinds == {"fromThread", "toThread", "mdns", "nd"}

ASSUME /\ InfraKinds \subseteq MsgKinds \ {"fromThread"}
       /\ TxHook \in BOOLEAN
       /\ BringUp \in BOOLEAN
       /\ Packets \subseteq [totLen : 0 .. 65535, chain : Seq(0 .. 65535) \ {<<>>}]

Ot    == "ot"      \* the OpenThread task (mainloop)
Tcpip == "tcpip"   \* lwIP's tcpip thread
Threads == {Ot, Tcpip}

VARIABLES
  otLock,          \* holder of sMainStackLock
  coreLock,        \* holder of the lwIP core lock
  otPc,            \* where the ot task is
  tcpipPc,         \* where the tcpip thread is
  notified,        \* the ot task's notification value is non-zero
  tasklets,        \* OpenThread has posted tasklets not yet run
  events,          \* the radio driver has events not yet processed
  notifierPending, \* the notifier tasklet has changed flags to deliver
  mdnsOut,         \* OpenThread has an mDNS message for the forwarder
  mbox,            \* messages waiting in the tcpip mailbox
  hooks,           \* receive hooks registered with lwIP ("mdns", "nd")
  threadLink,      \* the link flag of the Thread netif sThreadNetIf
  ndSock,          \* sInfraIfIcmp6Socket is a socket (TRUE) or -1
  txPkt,           \* pkt of otPlatLwipSendPacket (Null outside it)
  otIpPkt          \* what otPlatLwipConvertToOtMsg returned for it

pktVars == <<txPkt, otIpPkt>>

vars == <<otLock, coreLock, otPc, tcpipPc, notified, tasklets, events,
          notifierPending, mdnsOut, mbox, hooks, threadLink, ndSock, pktVars>>

tcpipVars == <<tcpipPc, mbox, pktVars>>
workVars  == <<notified, tasklets, events, notifierPending, mdnsOut>>
netVars   == <<hooks, threadLink, ndSock>>

(***************************************************************************)
(* Posting a tasklet or a driver event: otTaskletsSignalPending and        *)
(* otSysEventSignalPending both give the ot task's notification            *)
(* (xTaskNotifyGive / vTaskNotifyGiveFromISR increment it).               *)
(***************************************************************************)
\* mutant: the post does not reach the ot task (signal to a wrong handle)
PostTaskletNoSignal ==
  /\ tasklets' = TRUE
  /\ UNCHANGED notified

PostTasklet ==
  /\ tasklets' = TRUE
  /\ notified' = TRUE

(***************************************************************************)
(* The ot task: mainloop, appOtLockOtTask, and what runs inside           *)
(* otTaskletsProcess / otSysProcessDrivers that the modelled code owns.    *)
(***************************************************************************)

\* ulTaskNotifyTake(pdTRUE, portMAX_DELAY): block until notified, clear
OtTake ==
  /\ otPc = "block"
  /\ notified
  /\ notified' = FALSE
  /\ otPc' = "lock"
  /\ UNCHANGED <<otLock, coreLock, tcpipVars, tasklets, events,
                 notifierPending, mdnsOut, netVars>>

\* appOtLockOtTask(true): xSemaphoreTakeRecursive(sMainStackLock)
OtLock ==
  /\ otPc = "lock"
  /\ otLock = NoOne
  /\ otLock' = Ot
  /\ otPc' = "tasklets"
  /\ UNCHANGED <<coreLock, tcpipVars, notified, tasklets, events,
                 notifierPending, mdnsOut, netVars>>

\* where otTaskletsProcess goes after the notifier
AfterNotifier == IF mdnsOut THEN "txHook" ELSE "drivers"

\* otTaskletsProcess: run the posted tasklets; the notifier tasklet calls
\* otPlatLwipUpdateState, which starts with LOCK_TCPIP_CORE
OtTasklets ==
  /\ otPc = "tasklets"
  /\ tasklets' = FALSE
  /\ notifierPending' = FALSE
  /\ otPc' = IF tasklets /\ notifierPending THEN "cbLock" ELSE AfterNotifier
  /\ UNCHANGED <<otLock, coreLock, tcpipVars, notified, events, mdnsOut,
                 netVars>>

\* mutant: the callback runs without LOCK_TCPIP_CORE
OtCallbackLockSkipped ==
  /\ otPc = "cbLock"
  /\ otPc' = "cbBody"
  /\ UNCHANGED <<otLock, coreLock, tcpipVars, notified, tasklets, events,
                 notifierPending, mdnsOut, netVars>>

\* otPlatLwipUpdateState: LOCK_TCPIP_CORE (ot_lwip.c:135)
OtCallbackLock ==
  /\ otPc = "cbLock"
  /\ coreLock = NoOne
  /\ coreLock' = Ot
  /\ otPc' = "cbBody"
  /\ UNCHANGED <<otLock, tcpipVars, notified, tasklets, events,
                 notifierPending, mdnsOut, netVars>>

\* the body of otPlatLwipUpdateState (module IfaceSync): the link of the
\* Thread netif follows otIp6IsEnabled; then UNLOCK_TCPIP_CORE
OtCallbackUnlock ==
  /\ otPc = "cbBody"
  /\ coreLock' = NoOne
  /\ \E up \in BOOLEAN : threadLink' = up
  /\ otPc' = AfterNotifier
  /\ UNCHANGED <<otLock, tcpipVars, workVars, hooks, ndSock>>

\* appMdnsTxHook: otPlatLwipConvertToLwipMsg, udp_sendto_if, pbuf_free;
\* no lwIP core lock is taken
OtMdnsTx ==
  /\ otPc = "txHook"
  /\ mdnsOut' = FALSE
  /\ otPc' = "drivers"
  /\ UNCHANGED <<otLock, coreLock, tcpipVars, notified, tasklets, events,
                 notifierPending, netVars>>

(***************************************************************************)
(* otSysProcessDrivers: a received frame is handed to                      *)
(* otPlatLwipReceivePacket (tcpip_input posts it to the mailbox); what the *)
(* stack does with the events may change its state, which posts the        *)
(* notifier tasklet, and may produce an mDNS message for the forwarder.    *)
(***************************************************************************)
OtDrivers ==
  /\ otPc \in {"firstDrivers", "drivers"}
  /\ events' = FALSE
  /\ \E rx, changed, mdns \in BOOLEAN :
       /\ rx => events
       \* otPlatLwipReceivePacket: tcpip_input only if the conversion succeeded
       /\ \E pkt \in Packets : \E lw \in ConvertToLwipMsg(pkt.totLen) :
            mbox' = IF rx /\ lw # Null THEN mbox \cup {"fromThread"} ELSE mbox
       /\ IF changed
          THEN /\ notifierPending' = TRUE
               /\ PostTasklet
          ELSE UNCHANGED <<notifierPending, tasklets, notified>>
       /\ mdnsOut' = (mdns /\ TxHook)
  \* a routing-manager timer fired: otPlatInfraIfSendIcmp6Nd sends an RS or
  \* RA; sendto on -1 fails at once and changes nothing
  /\ \E nd \in BOOLEAN :
       otPc' = IF nd /\ ndSock THEN "ndLock"
               ELSE IF otPc = "drivers" THEN "unlock" ELSE "lock"
  /\ UNCHANGED <<otLock, coreLock, tcpipPc, netVars, pktVars>>

\* mutant: the ND send without the core lock (raw_sendto called directly)
OtNdLockSkipped ==
  /\ otPc = "ndLock"
  /\ otPc' = "ndSend"
  /\ UNCHANGED <<otLock, coreLock, tcpipVars, workVars, netVars>>

\* otPlatInfraIfSendIcmp6Nd: lwip_sendto runs the send in the calling task
\* under LOCK_TCPIP_CORE (core locking), still inside otSysProcessDrivers
OtNdLock ==
  /\ otPc = "ndLock"
  /\ coreLock = NoOne
  /\ coreLock' = Ot
  /\ otPc' = "ndSend"
  /\ UNCHANGED <<otLock, tcpipVars, workVars, netVars>>

\* raw_sendto on the ICMPv6 socket, UNLOCK_TCPIP_CORE; the drivers call
\* returns to the loop (or, the first time, to the loop's entry)
OtNdSend ==
  /\ otPc = "ndSend"
  /\ coreLock' = NoOne
  /\ otPc' = IF otLock = Ot THEN "unlock" ELSE "lock"
  /\ UNCHANGED <<otLock, tcpipVars, workVars, netVars>>

\* mutant: the notification is cleared when the loop goes back to sleep
OtUnlockClears ==
  /\ otPc = "unlock"
  /\ otLock' = NoOne
  /\ otPc' = "block"
  /\ notified' = FALSE
  /\ UNCHANGED <<coreLock, tcpipVars, tasklets, events, notifierPending,
                 mdnsOut, netVars>>

\* appOtLockOtTask(false), back to ulTaskNotifyTake
OtUnlock ==
  /\ otPc = "unlock"
  /\ otLock' = NoOne
  /\ otPc' = "block"
  /\ UNCHANGED <<coreLock, tcpipVars, notified, tasklets, events,
                 notifierPending, mdnsOut, netVars>>

(***************************************************************************)
(* Bring-up (Ethernet build): mainloop runs appOtInit and appBrInit in the *)
(* ot task before its loop, holding no task lock.  otPlatLwipInit starts  *)
(* the tcpip thread, so every later step runs concurrently with it.        *)
(***************************************************************************)

\* otPlatLwipInit: tcpip_init creates the tcpip thread
OtLwipInit ==
  /\ otPc = "lwipInit"
  /\ tcpipPc' = "fetch"
  /\ otPc' = "enetIf"
  /\ UNCHANGED <<otLock, coreLock, mbox, workVars, netVars, pktVars>>

\* appConfigEnetIf: netifapi_netif_add and netifapi_netif_set_up (run under
\* the core lock) and the link-local address under LOCK_TCPIP_CORE
OtEnetIf ==
  /\ otPc = "enetIf"
  /\ coreLock = NoOne
  /\ otPc' = "threadIf"
  /\ UNCHANGED <<otLock, coreLock, tcpipVars, workVars, netVars>>

\* otPlatLwipAddThreadInterface: netif_add and netif_set_link_down under
\* the core lock, then the OpenThread receive callback and filters;
\* appBrInit then registers otPlatLwipUpdateState
OtThreadIf ==
  /\ otPc = "threadIf"
  /\ coreLock = NoOne
  /\ threadLink' = FALSE
  /\ otPc' = "brInit"
  /\ UNCHANGED <<otLock, coreLock, tcpipVars, workVars, hooks, ndSock>>

\* appStartBrService: otBorderRoutingInit, otBorderRoutingSetEnabled and
\* otSrpServerSetEnabled, which may change OpenThread's state (and post the
\* notifier tasklet)
OtBrInit ==
  /\ otPc = "brInit"
  /\ otPc' = "infraInit"
  /\ \E changed \in BOOLEAN :
       IF changed
       THEN /\ notifierPending' = TRUE
            /\ PostTasklet
       ELSE UNCHANGED <<notifierPending, tasklets, notified>>
  /\ UNCHANGED <<otLock, coreLock, tcpipVars, events, mdnsOut, netVars>>

\* CreateIcmp6Socket: a raw ICMPv6 socket bound to the link-local address
\* of the infrastructure netif (TRUE), or -1 when socket() or bind() fails
CreateIcmp6Socket == BOOLEAN

\* InfraIfInit: the socket, then, if there is one, setsockopt
\* (SO_BINDTODEVICE), whose failure returns before the raw pcb exists;
\* otherwise raw_new_ip_type, raw_bind_netif and
\* raw_recv(ReceiveIcmp6Message).  The socket calls, like the raw pcb
\* calls, run under the core lock.
OtInfraIfInit ==
  /\ otPc = "infraInit"
  /\ coreLock = NoOne
  /\ \E sock \in CreateIcmp6Socket, bound \in BOOLEAN :
       /\ ndSock' = sock
       /\ hooks' = IF sock /\ ~bound THEN hooks ELSE hooks \cup {"nd"}
  /\ otPc' = "prefix"
  /\ UNCHANGED <<otLock, coreLock, tcpipVars, workVars, threadLink>>

\* the busy-wait on otBorderRoutingGetOnLinkPrefix ends once OpenThread
\* has an on-link prefix
OtPrefixReady ==
  /\ otPc = "prefix"
  /\ otPc' = "staticIp"
  /\ UNCHANGED <<otLock, coreLock, tcpipVars, workVars, netVars>>

\* add_static_ipv6: the prefix becomes address 1 of the infrastructure
\* netif, under LOCK_TCPIP_CORE
OtStaticIp ==
  /\ otPc = "staticIp"
  /\ coreLock = NoOne
  /\ otPc' = "mdnsInit"
  /\ UNCHANGED <<otLock, coreLock, tcpipVars, workVars, netVars>>

\* appMdnsProxyInit: mld6_joingroup_netif, udp_new_ip_type, udp_bind and
\* udp_recv(appMdnsRcvHook), with no core lock
OtMdnsProxyInit ==
  /\ otPc = "mdnsInit"
  /\ hooks' = hooks \cup {"mdns"}
  /\ otPc' = "forwarder"
  /\ UNCHANGED <<otLock, coreLock, tcpipVars, workVars, threadLink, ndSock>>

\* otUdpForwardSetForwarder(appMdnsTxHook); mainloop then calls
\* otSysProcessDrivers once, with no task lock, before its loop
OtSetForwarder ==
  /\ otPc = "forwarder"
  /\ otPc' = "firstDrivers"
  /\ UNCHANGED <<otLock, coreLock, tcpipVars, workVars, netVars>>

(***************************************************************************)
(* The tcpip thread: tcpip_thread fetches a message (the core lock is      *)
(* released only while it waits) and handles it holding the core lock.   *)
(***************************************************************************)

\* where handling a message of kind m leads: a packet for the Thread
\* prefix is routed to sThreadNetIf only while its link is up, and an
\* mDNS or ND packet reaches its hook only once the pcb is registered
Handler(m) ==
  CASE m = "fromThread" -> "release"    \* delivered in lwIP
    [] m = "toThread"   -> IF threadLink THEN "sendLock"  \* output_ip6
                                         ELSE "release"
    [] m \in {"mdns", "nd"} -> IF m \in hooks THEN "otCall" ELSE "release"

TcpipFetch ==
  /\ tcpipPc = "fetch"
  /\ coreLock = NoOne
  /\ \E m \in mbox :
       /\ mbox' = mbox \ {m}
       /\ coreLock' = Tcpip
       /\ tcpipPc' = Handler(m)
       \* ip6_input routes a "toThread" pbuf to otPlatLwipSendPacket
       /\ IF m = "toThread" THEN \E pkt \in Packets : txPkt' = pkt
                             ELSE UNCHANGED txPkt
  /\ UNCHANGED <<otLock, otPc, notified, tasklets, events, notifierPending,
                 mdnsOut, netVars, otIpPkt>>

\* mutant: otPlatLwipSendPacket without sLockTaskCb(true)
TcpipSendLockSkipped ==
  /\ tcpipPc = "sendLock"
  /\ tcpipPc' = "send"
  /\ UNCHANGED <<otLock, coreLock, otPc, mbox, notified, tasklets, events,
                 notifierPending, mdnsOut, netVars, pktVars>>

\* otPlatLwipSendPacket: sLockTaskCb(true) (ot_lwip.c:322)
TcpipSendLock ==
  /\ tcpipPc = "sendLock"
  /\ otLock = NoOne
  /\ otLock' = Tcpip
  /\ tcpipPc' = "send"
  /\ UNCHANGED <<coreLock, otPc, mbox, notified, tasklets, events,
                 notifierPending, mdnsOut, netVars, pktVars>>

\* otPlatLwipConvertToOtMsg, otIp6Send (posts a tasklet) if it returned a
\* message, sLockTaskCb(false)
TcpipSend ==
  /\ tcpipPc = "send"
  /\ \E m \in ConvertToOtMsg(txPkt) :
       /\ otIpPkt' = m
       /\ IF m # Null THEN PostTasklet ELSE UNCHANGED <<tasklets, notified>>
  /\ otLock' = NoOne
  /\ tcpipPc' = "release"
  /\ UNCHANGED <<coreLock, otPc, mbox, events, notifierPending, mdnsOut,
                 netVars, txPkt>>

\* otIp6NewMessageFromBuffer + otUdpForwardReceive, or
\* otPlatInfraIfRecvIcmp6Nd: OpenThread entered without the task lock
TcpipOtCall ==
  /\ tcpipPc = "otCall"
  /\ PostTasklet
  /\ tcpipPc' = "release"
  /\ UNCHANGED <<otLock, coreLock, otPc, mbox, events, notifierPending,
                 mdnsOut, netVars, pktVars>>

\* the handler returns; the thread releases the core lock to wait again
TcpipRelease ==
  /\ tcpipPc = "release"
  /\ coreLock' = NoOne
  /\ tcpipPc' = "fetch"
  /\ txPkt' = Null
  /\ otIpPkt' = Null
  /\ UNCHANGED <<otLock, otPc, mbox, notified, tasklets, events,
                 notifierPending, mdnsOut, netVars>>

(***************************************************************************)
(* The environment: the radio interrupt and the infrastructure driver.    *)
(***************************************************************************)

\* radio ISR: otSysEventSignalPending
RadioIsr ==
  /\ events' = TRUE
  /\ notified' = TRUE
  /\ UNCHANGED <<otLock, coreLock, otPc, tcpipVars, tasklets,
                 notifierPending, mdnsOut, netVars>>

\* the Ethernet driver passes a packet to tcpip_input, once
\* appConfigEnetIf has added and raised the infrastructure netif
InfraRx(m) ==
  /\ otPc \notin {"lwipInit", "enetIf"}
  /\ m \notin mbox
  /\ mbox' = mbox \cup {m}
  /\ UNCHANGED <<otLock, coreLock, otPc, tcpipPc, notified, tasklets, events,
                 notifierPending, mdnsOut, netVars, pktVars>>

\* mainloop's entry, before appOtInit and appBrInit
InitBringUp ==
  /\ otPc = "lwipInit"
  /\ tcpipPc = "off"
  /\ hooks = {}
  /\ threadLink = FALSE
  /\ ndSock = FALSE

\* the loop asleep after bring-up: the mDNS pcb is registered, the ND pcb
\* unless InfraIfInit returned early (which it does only with a socket),
\* and the Thread link is up or down
InitRunning ==
  /\ otPc = "block"
  /\ tcpipPc = "fetch"
  /\ hooks \in {{"mdns", "nd"}, {"mdns"}}
  /\ ndSock \in BOOLEAN
  /\ "nd" \notin hooks => ndSock
  /\ threadLink \in BOOLEAN

Init ==
  /\ otLock = NoOne
  /\ coreLock = NoOne
  /\ notified = FALSE
  /\ tasklets = FALSE
  /\ events = FALSE
  /\ notifierPending = FALSE
  /\ mdnsOut = FALSE
  /\ mbox = {}
  /\ txPkt = Null
  /\ otIpPkt = Null
  /\ IF BringUp THEN InitBringUp ELSE InitRunning

BringUpStep ==
  \/ OtLwipInit \/ OtEnetIf \/ OtThreadIf \/ OtBrInit \/ OtInfraIfInit
  \/ OtPrefixReady \/ OtStaticIp \/ OtMdnsProxyInit \/ OtSetForwarder

OtStep ==
  \/ BringUpStep
  \/ OtTake \/ OtLock \/ OtTasklets \/ OtCallbackLock \/ OtCallbackUnlock
  \/ OtMdnsTx \/ OtDrivers \/ OtNdLock \/ OtNdSend \/ OtUnlock

TcpipStep ==
  \/ TcpipFetch \/ TcpipSendLock \/ TcpipSend \/ TcpipOtCall \/ TcpipRelease

Next ==
  \/ OtStep
  \/ TcpipStep
  \/ RadioIsr
  \/ \E m \in InfraKinds : InfraRx(m)

Spec == Init /\ [][Next]_vars

(***************************************************************************)
(* Fairness.  A thread that can run its next step eventually does          *)
(* (FreeRTOS runs every ready task of the highest ready priority, and     *)
(* every thread here blocks again).  A lock that is released and taken  *)
(* again is enabled only intermittently for a waiter; FreeRTOS hands a   *)
(* mutex to a waiting task when it is given, so taking it is strongly    *)
(* fair.  The interrupt and the infrastructure driver are the             *)
(* environment and need not act; nor need OpenThread ever produce the    *)
(* on-link prefix that ends the bring-up busy-wait.                       *)
(***************************************************************************)
Fairness ==
  /\ WF_vars(OtTake) /\ SF_vars(OtLock) /\ WF_vars(OtTasklets)
  /\ SF_vars(OtCallbackLock) /\ WF_vars(OtCallbackUnlock)
  /\ WF_vars(OtMdnsTx) /\ WF_vars(OtDrivers) /\ WF_vars(OtUnlock)
  /\ SF_vars(OtNdLock) /\ WF_vars(OtNdSend)
  /\ SF_vars(TcpipFetch) /\ SF_vars(TcpipSendLock) /\ WF_vars(TcpipSend)
  /\ WF_vars(TcpipOtCall) /\ WF_vars(TcpipRelease)
  /\ WF_vars(OtLwipInit) /\ SF_vars(OtEnetIf) /\ SF_vars(OtThreadIf)
  /\ WF_vars(OtBrInit) /\ SF_vars(OtInfraIfInit) /\ SF_vars(OtStaticIp)
  /\ WF_vars(OtMdnsProxyInit) /\ WF_vars(OtSetForwarder)

FairSpec == Spec /\ Fairness

(***************************************************************************)
(* Properties                                                              *)
(***************************************************************************)

TypeOK ==
  /\ otLock \in Threads \cup {NoOne}
  /\ coreLock \in Threads \cup {NoOne}
  /\ otPc \in {"lwipInit", "enetIf", "threadIf", "brInit", "infraInit",
               "prefix", "staticIp", "mdnsInit", "forwarder", "firstDrivers",
               "block", "lock", "tasklets", "cbLock", "cbBody", "txHook",
               "drivers", "ndLock", "ndSend", "unlock"}
  /\ tcpipPc \in {"off", "fetch", "sendLock", "send", "otCall", "release"}
  /\ txPkt \in Packets \cup {Null}
  /\ otIpPkt \in Seq([pos : Nat, len : Nat])
  /\ mbox \subseteq MsgKinds
  /\ hooks \subseteq {"mdns", "nd"}
  /\ threadLink \in BOOLEAN
  /\ ndSock \in BOOLEAN
  /\ {notified, tasklets, events, notifierPending, mdnsOut} \subseteq BOOLEAN

(***************************************************************************)
(* No lost wake-up: whenever the ot task is about to sleep in              *)
(* ulTaskNotifyTake with tasklets or driver events outstanding, its        *)
(* notification is set, so the take returns.  A tasklet can be posted by  *)
(* the tcpip thread, an interrupt or the ot task itself at any point of   *)
(* the loop; the loop clears the notification only when it wakes.         *)
(***************************************************************************)
NoLostWakeup ==
  (otPc = "block" /\ (tasklets \/ events)) => notified

\* code that runs inside lwIP, or inside OpenThread, in each thread
OtInLwip    == otPc \in {"mdnsInit", "cbBody", "txHook", "ndSend"}
TcpipInLwip == tcpipPc \notin {"off", "fetch"}
OtInOt      == otPc \in {"brInit", "prefix", "forwarder", "firstDrivers",
                         "tasklets", "cbLock", "cbBody", "txHook", "drivers",
                         "ndLock", "ndSend"}
TcpipInOt   == tcpipPc \in {"send", "otCall"}

(***************************************************************************)
(* lwIP is entered by one thread at a time: the ot task touches lwIP      *)
(* state (the Thread netif in otPlatLwipUpdateState, a udp pcb in         *)
(* appMdnsTxHook, the ICMPv6 socket in otPlatInfraIfSendIcmp6Nd) only     *)
(* while the tcpip thread is waiting for a message.                       *)
(***************************************************************************)
LwipExclusive == ~(OtInLwip /\ TcpipInLwip)

(***************************************************************************)
(* OpenThread is entered by one thread at a time: the tcpip thread calls  *)
(* into OpenThread (otPlatLwipSendPacket, the mDNS and ICMPv6 receive     *)
(* hooks) only while the ot task is outside its tasklet and driver        *)
(* processing.                                                             *)
(***************************************************************************)
OtExclusive == ~(OtInOt /\ TcpipInOt)

(***************************************************************************)
(* The message otPlatLwipSendPacket hands to otIp6Send is the routed pbuf  *)
(* chain: every pbuf once, in chain order, and only for a chain whose     *)
(* tot_len is the number of bytes it holds.  The uint16_t remainingLen of *)
(* otPlatLwipConvertToOtMsg must not wrap: lengths summing to tot_len +   *)
(* 65536 would otherwise pass as a whole packet.                          *)
(***************************************************************************)
OtMsgIsPbufChain ==
  otIpPkt # Null => /\ ChainLength(txPkt.chain) = txPkt.totLen
                    /\ otIpPkt = Pieces(txPkt.chain)

\* the lock a thread is blocked on, or "none"
BlockedOn(t) ==
  IF t = Ot
  THEN CASE otPc = "lock"   -> "ot"
         [] otPc \in {"cbLock", "enetIf", "threadIf", "staticIp", "infraInit",
                             "ndLock"} -> "core"
         [] OTHER           -> "none"
  ELSE CASE tcpipPc = "sendLock"             -> "ot"
         [] tcpipPc = "fetch" /\ mbox # {}   -> "core"
         [] OTHER                            -> "none"

Owner(l) == IF l = "ot" THEN otLock ELSE coreLock

(***************************************************************************)
(* No circular wait: the two threads are never each blocked on a lock the *)
(* other holds.  This is the lock order of the design: the task lock      *)
(* before anything that takes the core lock, never the reverse.           *)
(***************************************************************************)
NoCircularWait ==
  ~\E t, u \in Threads :
     /\ t # u
     /\ BlockedOn(t) # "none" /\ Owner(BlockedOn(t)) = u
     /\ BlockedOn(u) # "none" /\ Owner(BlockedOn(u)) = t

(***************************************************************************)
(* Every posted tasklet is eventually run by otTaskletsProcess and every  *)
(* driver event is eventually handled by otSysProcessDrivers, whichever   *)
(* thread or interrupt posted it and wherever the ot task was then.        *)
(***************************************************************************)
WorkReachesTaskLoop ==
  /\ tasklets ~> (otPc = "tasklets")
  /\ events ~> (otPc = "drivers")

=============================================================================
