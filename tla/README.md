# TLA+ models of the ot-nxp border-router glue

These modules model the concurrent and stateful parts of this repository:
the glue between the OpenThread mesh stack, the lwIP IPv6 stack and the
FreeRTOS tasks of the NXP border-router example, and the deferred
flash-record save queue of the K32W0 platform, and the radio
manufacturing CLI.
Each model is translated from the C source named in `PROJECT.json` ("map").
Runs, mutants, findings and hazards are listed there too.

## The system and its parts

| Part | Source | State it keeps | Operations |
|---|---|---|---|
| Interface-State Synchronizer | `src/src/common/lwip/ot_lwip.c` 69-234 | the address slots of the lwIP netif `sThreadNetIf` (address, state), its link flag, the shadow set `sAddrAssigned` | `otPlatLwipInit`, `otPlatLwipAddThreadInterface`, the state-changed callback `otPlatLwipUpdateState` |
| Packet converter | `ot_lwip.c` 236-299 | none (buffers in, buffers out) | `otPlatLwipConvertToLwipMsg`, `otPlatLwipConvertToOtMsg` |
| Packet paths | `ot_lwip.c` 317-360, `src/src/common/br/infra_if.c` 176-202, `src/examples/br/br_ot_freertos.c` 343-402 | the OpenThread task lock, the lwIP core lock | `otPlatLwipSendPacket` (lwIP → Thread), `otPlatLwipReceivePacket` (Thread → lwIP), the mDNS receive and transmit hooks, the ICMPv6 ND receive callback, the ND send `otPlatInfraIfSendIcmp6Nd` (`infra_if.c` 123-139) |
| Task loop | `br_ot_freertos.c` 489-547 | the recursive mutex `sMainStackLock`, the OT task's notification count | `mainloop`, `appOtLockOtTask`, `otTaskletsSignalPending`, `otSysEventSignalPending` |
| Bring-up | `br_ot_freertos.c` 404-487, `infra_if.c` 78-111, 152-173 | which hooks are registered, whether the ICMPv6 socket exists | `appBrInit`, `appStartBrService` (busy-waits for the on-link prefix), `InfraIfInit`, `CreateIcmp6Socket` |
| PDM deferred save queue | `src/src/k32w0/platform/pdm_ram_storage_glue.c` 325-466 | the wrap-around queue `asQueue` with `u8QueueWritePtr`/`u8QueueReadPtr`, its mutex | `FS_eSaveRecordDataInIdleTask`, `u8IncrementQueuePtr`, `FS_vIdleTask`, `FS_SaveRecordData` |
| PDM RAM buffers | `pdm_ram_storage_glue.c` 168-322 | a record's RAM buffer length and capacity | `getRamBuffer`, `ramStorageResize` |
| Radio manufacturing CLI | `src/examples/cli/addons/platform/radio_cli.c` 113-695 | the `mfgEnable` flag | `ProcessRadio` and its six handlers; `ProcessMfgCommands` with its switch and raw-payload fallback |
| Boards, hooks, reset | `src/boards/*`, `app_freertos_hooks.c`, `reset.c` | none | pin, clock and SDK calls |

How they interact:
- OpenThread runs in the "ot" task (`mainloop`), which holds `sMainStackLock` while it processes tasklets.
- The notifier is one of those tasklets. It calls `otPlatLwipUpdateState`, which takes the lwIP core lock.
- lwIP's tcpip thread holds the core lock while it handles a packet. When it routes a packet to the Thread netif it calls `otPlatLwipSendPacket`, which takes `sMainStackLock`.
- The mDNS and ICMPv6 receive hooks run in the tcpip thread and call OpenThread directly.
- Radio interrupts and OpenThread itself wake the ot task through its task notification.
- OpenThread's routing manager sends router solicitations and advertisements from the ot task, inside `otSysProcessDrivers`, through `otPlatInfraIfSendIcmp6Nd`. Its `lwip_sendto` takes the core lock in the calling task.

## Modules

### IfaceSync (the Synchronizer)

State:
- `meshUp` and `meshAddrs` are OpenThread's enabled flag and its unicast address list, in order.
- `pending` holds the changed flags not yet delivered.
- `linkUp`, `netifAddr`, `netifState` and `sAddrAssigned` are the netif and the shadow set.

Actions:
- `StateChanged` is the whole callback: the mask test, the link flip that forces a pass, the enumeration (`EnumerateAddrs`, a RECURSIVE operator over the list), the invalidation loop and the shadow copy. It is atomic because the callback holds the lwIP core lock throughout.
- lwIP's `netif_add_ip6_address` is modelled by what it does: match a live slot, else take the first INVALID slot from 1, else ERR_VAL.
- The environment actions are OpenThread enabling or disabling itself, adding or removing addresses at any list position, and raising other flags. With `ExternalWriters`, another lwIP user adds addresses to free slots.
- Addresses are model values with attributes (link-local, RLOC, preferred, Thread origin), given as constant sets.
- `FairSpec` adds weak fairness on `StateChanged`, for the convergence property `EventuallyMirrors`.

### PdmSaveQueue (deferred saves)

State:
- the queue and its two pointers, the queue mutex;
- a program counter and request per process: the settings writer and the idle task re-queueing after a failed write;
- `dirty`, the records whose RAM copy is newer than flash.

A task-context enqueue is split at the points where an interrupt can run: the look-ahead under the mutex, the entry write, then the pointer update and unlock. `IsrSave` is the interrupt-context call, which takes no mutex and runs atomically. `IdleDequeue` is one iteration of `FS_vIdleTask`'s loop. `IdleSaveOk` and `IdleSaveFailed` are the two outcomes of `FS_SaveRecordData`; a failure re-queues the record.

### PdmRamBuffer (a record's RAM buffer)

Operators only; PdmSaveQueue composes them, one buffer per record in the
variable `ramBuf` (`[ok, length, maxLength]`, `ok` FALSE for a NULL
descriptor).
- `GetRamBuffer(flashLen)` is the set of descriptors `getRamBuffer` can return at boot. It covers `HandleError` after a failed allocation or mutex creation, `doesDataExist` growing `maxLength` by `kRamBufferReallocSize` until the flash record fits, the `kRamBufferMaxAllocSize` check, and `loadData` (a failed read leaves length 0).
- `RamStorageResize(buf, aValueLength)` is the set of outcomes of `ramStorageResize`: no growth needed, growth in `kRamBufferReallocSize` steps (`GrowTo`, RECURSIVE, with `uint16_t` wrap via `U16`), `otPlatRealloc` failing, or the limit exceeded. A NULL descriptor gives `RS_ERROR_NO_BUFS`.
- `AppendBlock` is the settings layer's append after a successful resize. That layer is not in this repository; it is modelled from spec section 6 ("resize(handle, key, value, length) -> status").

In PdmSaveQueue, `WriterChange(id, v)` is the settings layer adding a block of `v` bytes. It runs `ramStorageResize` first. On `RS_ERROR_NO_BUFS` nothing changes and no save is asked for; otherwise the block is appended and the record is queued.

### PdmSaveFifo (what the save queue promises) and the refinement

`PdmSaveFifo` is the abstract specification from spec section 6: a FIFO of
at most `Capacity` pending ids, a request for an id already waiting
dropped, an idle task that takes the oldest request and re-requests it
when the write fails. `PdmSaveQueue` instantiates it as `Fifo` with the
refinement mapping:
- `pending` is the live part of the queue, read pointer to write pointer (`LiveSeq`, RECURSIVE);
- `taken` is the idle task's current entry (`Taken`), held from the dequeue until the write succeeds or the retry is back in the queue;
- `Capacity` is `QueueSize - 1`.

`ImplementsFifo == Fifo!Spec` is checked as a PROPERTY in pdm_core. Each step of the queue is a step of the FIFO or a stutter. The look-ahead and the entry write stutter; the pointer update is the request; the dequeue is `Take`.

### PacketConvert (the packet converters)

Operators only; BrTasks composes them.
- `ConvertToOtMsg(pkt)` is the set of results of `otPlatLwipConvertToOtMsg`: NULL when `otIp6NewMessage` fails, otherwise the copy loop `CopyChain` (RECURSIVE). The loop stops on a pbuf longer than `remainingLen` and may fail in `otMessageAppend`. `remainingLen` is a `uint16_t` decremented per pbuf, and the loop must end at 0. Any failure frees the message and returns NULL.
- `ConvertToLwipMsg(len)` is NULL (pbuf_alloc failed) or a pbuf holding the whole message; `otMessageRead` from offset 0 always reads the full length.
- A pbuf chain is `[totLen, chain]`, `chain` being the pbuf lengths. A message is the sequence of `[pos, len]` pieces appended to it; payload bytes are abstracted to the pbuf they come from.

### BrTasks (threads, locks, packet paths, bring-up)

This module covers `br_ot_freertos.c`, the lock-taking paths of `ot_lwip.c`
and the socket, send and receive paths of `infra_if.c`.

State:
- `otLock` and `coreLock` are the holders of `sMainStackLock` and of the lwIP core lock.
- `otPc` and `tcpipPc` are the program counters of the ot task and the tcpip thread.
- `notified` is the ot task's notification.
- `tasklets`, `events`, `notifierPending` and `mdnsOut` record the work OpenThread and the radio driver have outstanding.
- `mbox` holds the tcpip mailbox, as a set of message kinds.
- `hooks` holds the receive hooks registered so far.
- `threadLink` is the link flag of `sThreadNetIf`.
- `ndSock` says whether `sInfraIfIcmp6Socket` is a socket or -1.

Actions of the ot task:
- Each step of `mainloop` is its own action: `OtTake`, `OtLock`, `OtTasklets`, `OtDrivers` and `OtUnlock`.
- The notifier's call of `otPlatLwipUpdateState` is split where it blocks. `OtCallbackLock` takes the core lock. `OtCallbackUnlock` does the body and releases the lock, leaving the link up or down.
- `OtMdnsTx` is the forwarder `appMdnsTxHook`.
- `OtDrivers` may fire a routing-manager timer. With a socket, the ND send follows: `OtNdLock` takes the core lock, as `lwip_sendto` does, and `OtNdSend` sends and releases it. On socket -1 `sendto` fails at once and nothing changes. The ND send can happen in the first `otSysProcessDrivers`, which holds no task lock, as well as in the loop.
- With `BringUp`, the task first goes through the Ethernet bring-up, in the order `appBrInit` calls it:
  - `otPlatLwipInit` starts the tcpip thread;
  - `appConfigEnetIf` and `otPlatLwipAddThreadInterface` each take the core lock;
  - `appStartBrService` runs `InfraIfInit`, then busy-waits for the on-link prefix. `InfraIfInit` covers three outcomes:
    - `CreateIcmp6Socket` returns -1, and the raw pcb is still registered;
    - it returns a socket, and `setsockopt` fails: the early return leaves the pcb unregistered;
    - both succeed;
  - `add_static_ipv6`;
  - `appMdnsProxyInit` and the forwarder registration;
  - the first `otSysProcessDrivers`.

Actions of the tcpip thread:
- It fetches a message (`TcpipFetch`). A packet for the Thread netif takes the task lock (`TcpipSendLock`) and is sent (`TcpipSend`).
- An mDNS or ND packet whose hook is registered calls OpenThread (`TcpipOtCall`). `TcpipRelease` ends the message.

Environment:
- `RadioIsr` posts driver events.
- The infrastructure driver posts packets of the kinds in `InfraKinds`.

### RadioCli (the radio_nxp commands)

Each handler is an operator from an argument vector and the RCP's answer to an `Outcome` (the `otError` and the RCP calls made). The answer is abstracted to `outputLen` and the status byte. The actions apply an `Outcome` with `Done`.

Parsing is modelled by what it does:
- `Atoi` and `Strtol16` are tables from the argument texts used to their values.
- `U8`, `U16` and `Int8` are the C casts, using modular arithmetic.
- `SetByte` is the half-dBm shift in `uint8_t`.

`ProcessMfgCommands` is modelled in the order the code runs:
1. the toggle (`IsToggle`, after the `uint8_t` cast);
2. the `mfgEnable` gate;
3. the switch (`MfgSwitch`), with the table of get and set commands and their ranges, and one operator per case that parses its own arguments;
4. "HANDLE ERRORS", which re-sends a failed 12-argument command as a raw payload and then reports success.

## Runs

| Run | Bounds | Shows |
|---|---|---|
| iface_core | 4 addresses (ll, ml, rloc, g1), 3 slots, lists up to 3, fairness | the netif mirrors OpenThread once changes are delivered; link-local in slot 0; once OpenThread stops changing, the netif comes to mirror it and stays so (`EventuallyMirrors`) |
| iface_external | as above, plus an external writer | table indices stay in range and the shadow set stays live |
| iface_capacity (violation) | 6 addresses, 3 slots | a batch that adds one address and removes another drops the new one although there is room |
| tasks_core | steady state from every `InfraIfInit` outcome, mDNS and ND traffic, fairness | no lost wake-up; every tasklet and driver event is eventually run; lwIP entered by one thread at a time, ND sends from the ot task included |
| tasks_forward | from mainloop's entry, routed traffic, forwarder on; pbuf chains of 1-2 pbufs with lengths and `tot_len` in {0, 1, 65535} | routed packets enter OpenThread only under the task lock, through bring-up and after it; the message handed to `otIp6Send` is exactly the routed chain (`OtMsgIsPbufChain`) |
| tasks_deadlock (violation) | steady state, routed traffic | `otPlatLwipSendPacket` (core lock, then task lock) against the notifier (task lock, then core lock): both threads block |
| tasks_rxhook (violation) | steady state, hook traffic | the mDNS and ICMPv6 receive hooks call OpenThread from the tcpip thread while the ot task is inside it |
| tasks_txhook (violation) | from mainloop's entry, forwarder on | `appMdnsProxyInit` and `appMdnsTxHook` call lwIP from the ot task without the core lock |
| radio_core | argument texts at every range edge; answers with `outputLen` 3, 4, 5, 12 and status 0/1 | the RCP only receives in-range manufacturing fields, CCA and tx power limit values; at most one RCP call per command; nothing sent while manufacturing mode is off |
| pdm_core | 2 records, 3 entries, with fairness; buffers of 16 bytes grown by 16 up to 48, blocks of 12 + 4 bytes, one record on flash with 20 bytes | no lost save request; every record that stops changing reaches flash; every appended block fits its buffer (`RamBufferHoldsRecord`); the queue implements the FIFO of `PdmSaveFifo` (`ImplementsFifo`) |
| pdm_overflow (violation) | 3 records, 3 entries | the queue wraps onto its read pointer and loses every pending save |
| pdm_isr (violation) | 2 records, 4 entries, interrupt writer | an interrupt-context save overwrites a task's half-published entry |

Every property of a passing run has a mutant in `PROJECT.json`. A mutant is a plausible bug in the mapped code, and TLC finds it.

Why these bounds are enough:
- **IfaceSync slots.** Three slots give slot 0 plus two slots that `netif_add_ip6_address` hands out. That is enough for one stale slot and one free slot, the situation behind the capacity finding.
- **IfaceSync lists.** Lists of length 3 allow a link-local address, a mesh-local address and a global address at once.
- **PDM queue.** A queue of N entries holds N-1 distinct ids. Two ids with three entries exercise wrap-around, dedupe and a retry while another id is queued.
- **RAM buffers.** Record r2 starts with 16 bytes and fills up after three blocks, through two growth steps. Record r1 is loaded from 20 bytes on flash, so `doesDataExist` grows it to 32; a failed read empties it instead. After one block it reaches the 48-byte limit, and then `ramStorageResize` refuses. This covers every branch of both functions; a fit test that leaves out the bytes already held overruns at the second block.
- **pbuf chains.** Lengths 0, 1 and 65535 in chains of one or two pbufs include chains whose `tot_len` is right, too small, too large, and off by exactly 65536 (`tot_len` 0 for 1 + 65535 bytes). The last is the case a `uint16_t` counter can hide. Each chain is chosen when the tcpip thread fetches a routed packet.
- **BrTasks work.** BrTasks has two threads and one interrupt, which is all the code has. Work is tracked as flags, because a second pending tasklet changes nothing the loop does; each flag is either set or clear.
- **RadioCli inputs.** The input sets include:
  - each range's ends and the values one past them;
  - texts that the casts wrap back into a range (`256`, `257`, `267`, `240`, hex `106`, `1ff`);
  - a non-numeric text;
  - a 12-argument vector of each kind: valid, invalid, and not implemented.

## Fairness

PdmSaveQueue:
- The enqueue steps after taking the mutex are weakly fair, because the holder never blocks inside them.
- Taking the mutex and the idle task's dequeue are enabled only intermittently: the mutex has another holder, or the application task is busy. They are strongly fair, which holds when the application task eventually blocks and lets the idle task run.
- A record's flash write that is retried forever eventually succeeds (strong fairness per record). Without this, a flash that always fails would defeat any save.
- `EventuallySaved` is conditioned on the record eventually ceasing to change.

BrTasks:
- Every thread step is weakly fair, because FreeRTOS runs ready tasks.
- Every lock acquisition is strongly fair, because a FreeRTOS mutex is handed to a waiter when it is given.
- The radio interrupt, the infrastructure driver and `OtPrefixReady` (OpenThread producing an on-link prefix) have no fairness. The code gives no guarantee of the prefix, and `appStartBrService` spins on it.

IfaceSync:
- Delivering pending flags to the callback (`StateChanged`) is weakly fair. The notifier is a tasklet, and BrTasks shows that every posted tasklet is eventually run (`WorkReachesTaskLoop`).
- OpenThread's changes and other lwIP users have no fairness.
- `EventuallyMirrors` assumes that OpenThread eventually stops changing its enabled state and address list. It is stated as an implication, so it puts no constraint on the environment.

RadioCli has no liveness property, because a CLI command is a single call.

## Not modelled

- **Buffer pools.** The converters free what they allocated on every failure path. Whether freed buffers go back to their pools is not tracked. A pool pbuf is taken to hold the whole message in its first payload; whether it does depends on `PBUF_POOL_BUFSIZE` in `lwipopts.h`, which is not in this repository (hazard at `ot_lwip.c:255`).
- **Static PDM buffer and encryption.** The static build's `getRamBuffer`, which hands every record the same buffer, is not modelled. Nor are the `PDM_ENCRYPTION` staging-buffer calls.
- **Sizes near 64 KiB.** The 16-bit wrap of `newBlockLength` and `allocSize` is in `PdmRamBuffer`. The runs use buffers of tens of bytes, because a value near 65535 bytes makes `GrowTo` unfold thousands of times.
- **The page loop of `FS_SaveRecordData`.** It is one success-or-failure step. As written it does not compile (`segments` is undeclared), so a record torn by a change between pages is a hazard without a property.
- **The Wi-Fi build (`OT_APP_BR_WIFI_EN`).** BrTasks follows the Ethernet build. The Wi-Fi build differs in four ways, each recorded as a hazard:
  - `appConfigWifiIf` creates a `wifi-cfg` task of priority 3, and that task runs `appStartBrService`. It calls OpenThread without the task lock (`br_ot_freertos.c:410`).
  - The busy-wait for the prefix runs above the ot task's priority (`:418`).
  - `sExtNetifPtr` is set only after that task is created (`:327`).
  - Every `VerifyOrExit` of that path is inverted, so Wi-Fi failures never stop the bring-up (`:273`).

  Modelling it needs a third thread with FreeRTOS priorities, and the waits in `WPL_Join` are Wi-Fi SDK code outside this repository. Its first OpenThread call can already overlap the ot task's tasklets, which breaks `OtExclusive`. A run of it would repeat what the `tasks_rxhook` finding shows.
- **The `PDM_ENCRYPTION` build.** `initPdmEncContext` and `stagingBufferResize` size a staging buffer for the PDM SDK's encryption. The SDK's use of that buffer is not in this repository. The ordering defect in `ramStorageResize` is recorded as a hazard (`pdm_ram_storage_glue.c:278`): the grown buffer is committed before the staging buffer is resized.
- **Address lookup and teardown.** `otPlatInfraIfHasAddress` only reads the netif, and its caller is in OpenThread. `InfraIfDeInit` is never called in this repository.
- **Board and system glue.** Board pin and clock setup, FreeRTOS hooks and the reset shim are only SDK calls and register writes.
- **Defects inside a single call.** A model checker has nothing to explore in these; a unit test or a bounds checker is the right tool:
  - `ReceiveIcmp6Message` reads offset 40 of the payload without checking `p->len`, and passes `p->len` as the length of the message that starts 40 bytes in (`infra_if.c:194`);
  - the raw path of `radio_cli.c` prints `outputLen` bytes of a 12-byte payload (`:610`);
  - `ramStorageResize` reads `pBuffer->header.maxLength` before its NULL check (`pdm_ram_storage_glue.c:255`), and the model follows the intended `RS_ERROR_NO_BUFS`;
  - `otPlatCAlloc` in `br_ot_freertos.c` (573) multiplies `aNum * aSize` without an overflow check, unlike `calloc`; every caller in this repository passes a count of 1;
  - the static build's `getRamBuffer` calls `loadData`, which only the dynamic build defines (`pdm_ram_storage_glue.c:317`);
  - `FS_SaveRecordData` loops over an undeclared `segments`, so the `PDM_SAVE_IDLE` build does not compile as written (`:423`).
- **Data and internals.** Packet contents, CLI output, formatting and logging are left out. So are OpenThread and lwIP internals beyond what the modelled code calls.

## Plan status

1. Done: IfaceSync, PdmSaveQueue with PdmRamBuffer composed in and the refinement to PdmSaveFifo, BrTasks (Ethernet bring-up and steady state) with PacketConvert composed in, RadioCli.
2. Done: the ND send path and the ICMPv6 socket outcomes of `infra_if.c` in BrTasks.
3. Hazards without a property: the Wi-Fi build and the encryption build, which are not modelled (see above).
4. Divergences recorded as hazards without a violation run of their own:
   - the link-down pass invalidating externally assigned slots (`ot_lwip.c:221`);
   - `mfgcmd 256` acting as the toggle;
   - `(int8_t)` truncation accepting out-of-range texts;
   - responses that are not validated on three manufacturing paths.
