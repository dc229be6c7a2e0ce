# TLA+ models of the host HCI transport and flow-control layer

This directory holds TLA+ models of the Bluetooth host stack in `src/`, and the TLC
configurations that check them. The project models eight parts:
- the round-robin ACL scheduler (`RoundRobinScheduler`, in the translation unit that follows `src/gd/btaa/hci_processor.h`, line 59 onward), which is the core of the data path;
- the module registry and the gRPC root server that drives it;
- the ACL manager facade;
- the inquiry shim;
- the HCI layer's command pipeline (from `spec.md`, as only its interface is in `src/`);
- the classic security manager facade, which drives that pipeline;
- the storage config cache.

Each module is translated from the C++ source. Parts whose implementation is not in `src/` are modelled from `spec.md`, or from how the code uses them, and marked `spec_modelled` in `PROJECT.json`. These are the ACL manager, the controller, the HCI layer's command pipeline, the stack manager, the inquiry module, `os::Handler` and `common::LruCache`.

## The system and how its parts interact

| Part | Source | What it does |
|---|---|---|
| Round-robin ACL scheduler | `gd/btaa/hci_processor.h:59-245`, `gd/hci/round_robin_scheduler.h` | Takes payloads from connection queues, fragments them to the MTU, sends the fragments to the HCI queue and counts classic and LE credits. |
| Controller | `unnamed/part_001` (header only) | Reports buffer counts and MTUs. Forwards `Number_Of_Completed_Packets` to `IncomingAclCredits` on the scheduler's handler. |
| ACL manager | not in `src/` | Calls `Register` on connection-complete and `SetDisconnect` on disconnection-complete; `Finish` leads to `Unregister`. |
| HCI layer | `gd/hci/hci_layer.h` (interface only) | Command pipeline with command credits; event and ACL queues. |
| Module registry | `gd/module.cc` | Starts modules recursively, dependencies first; stops them in reverse order. |
| ACL manager facade | `gd/hci/facade.cc:44-297` | gRPC service: connect, disconnect, send ACL data (waits on a future under `mutex_`), event streams. |
| Classic security facade | `gd/hci/facade.cc:299-594` | gRPC service that forwards security commands under `mutex_`; their completions come back on `facade_handler_` and go to `command_complete_stream_`. |
| Inquiry shim | `gd/shim/inquiry.cc` | Legacy inquiry API: activity flags and callbacks around the neighbor inquiry module. |
| gRPC root server | `gd/facade/grpc_root_server.cc` | StartStack/StopStack on `is_running_`; server start/stop. |
| Security module | `gd/security/security_module.cc` | Module lifecycle of the security manager. |
| Storage config cache | `gd/packet/parser/test/variable.h:1412-1620` | Information sections, paired (persistent) devices and an LRU of temporary devices, all under a recursive mutex. |
| Packet parser generator, fuzz harness, tests, mocks, aidl, btm.h, log macros | various | Code generation, tests and declarations. |

The data path works like this:
- An upper layer enqueues payloads on a connection's queue.
- The scheduler registers a one-shot dequeue on every connection (`StartRoundRobin`).
- The reactor runs one dequeue callback (`BufferPacket`). It fragments the payload into `fragments_to_send_`, unregisters every dequeue and registers the enqueue on the HCI queue.
- Each enqueue pull (`HandleEnqueueNextFragment`) spends a credit of the fragment's kind.
- The controller returns credits with `Number_Of_Completed_Packets`, which runs `IncomingAclCredits`.
- A disconnection makes the ACL manager call `SetDisconnect`, which reclaims the connection's outstanding count. `Finish` then calls `Unregister`.

All scheduler methods run on one `os::Handler`, so each method is one atomic step. The interleavings come from the order in which the reactor, the posted tasks, the controller's events and the ACL manager's calls are served.

## Modules

### `RoundRobinScheduler.tla`: the scheduler

| Model | Code |
|---|---|
| `aclQueueHandlers` | `acl_queue_handlers_`, a function from handle to an `acl_queue_handler` record with the code's field names |
| `fragmentsToSend` | `fragments_to_send_` |
| `credits` | `acl_packet_credits_` and `le_acl_packet_credits_`, kept as uint16 with `U16` |
| `enqueueRegistered` | `enqueue_registered_` |
| `startingPoint` | `starting_point_`: a handle; `End`; `Singular` (default constructed); or `PastEnd` (`std::next(end())`, undefined behaviour) |
| `pendingStartRoundRobin` | tasks posted to `handler_` |
| `upQueue` | the connections' queue ends |
| `hciWire` | the fragments handed to the HCI queue |
| `fault` | an `ASSERT` or a crash that ended the process |

Each action is a whole method. A call it makes is part of it, for example `Register` → `StartRoundRobin` → `SendNextFragment`:
- `Register`, `Unregister`, `SetDisconnect`;
- `BufferPacket`, which includes `UnregisterAllConnections`;
- `HandleEnqueueNextFragment`;
- `RunPostedStartRoundRobin`;
- `IncomingAclCredits`.

`StartRoundRobin(m, cred)` has three disjuncts, following its early returns:
- `RoundRobinNoCredits`;
- `RoundRobinResumeSending`;
- `RoundRobinRegisterAll`. Its iterator cases are a valid start, an empty map (advances past end) and an invalid iterator (fault).

`SetDisconnect` changes only the credit pool. The code takes a copy of the map entry (`auto acl_queue_handler = ...->second`), so its writes to `is_disconnected_` and `number_of_sent_packets_` are lost.

Fragmentation (`AclFragmenter`) is a RECURSIVE operator. Its implementation is not in `src/`, so it is spec_modelled.

Payloads are abstracted to an identity and a length. Fragments keep their handle, kind, boundary flag, payload identity and size.

### `AclDataPath.tla`: the scheduler in its environment

This module EXTENDS the scheduler and adds the rest of the data path:
- the upper layer (`SendPayload`);
- the ACL manager (`Connect` → `Register`, `DeliverDisconnection` → `SetDisconnect`, `Finish` → `Unregister`);
- the controller (`ControllerReceive`, `ControllerComplete`, `ControllerDisconnect`);
- delivery of completions to `IncomingAclCredits` (`DeliverCompletedPackets`).

The controller buffers a fragment only while the link is up. A disconnection flushes its buffers.

Controller events are queued in `events`. With `InOrderEvents` the host handles them in the order they were sent. Without it, a completion may be handled after a later disconnection, because the two travel through different handlers: completions through the Controller module's callback, disconnections through the ACL manager.

With `ReuseHandles`, `Connect` may give a handle whose earlier link the ACL manager has finished to a new link. A controller reuses handles once their Disconnection_Complete has been sent. Every configured run sets it to FALSE. It is there to reproduce the underflow trace below.

**Refinement.** `PayloadChannel` instantiates `AclChannel` with two mappings:
- `queued[h]`: the payloads of `sentLog[h]` after the first `CarriedCount(h)`;
- `carried[h]`: the first `CarriedCount(h)`.

`CarriedCount(h)` is the longest prefix of `h`'s payloads each of which has all of its reference fragments on the wire; payload ids are unique, so a payload's fragments are found by id. `PayloadChannelRefined` checks `FairSpec => PayloadChannel!AclChanSpec`.

### `AclChannel.tla`: what the data path promises

The upper layer's view of a connection (spec.md 4.3 and 5). `Enqueue(c, p)` appends a payload to `queued[c]`. `Carry(c)` moves the oldest queued payload to `carried[c]` once the wire holds all of it. Each `Carry(c)` is weakly fair. Fragmentation, credits and the order between connections are not visible at this level.

### `MC_AclDataPath.tla`

This module defines the controller parameters for TLC:
- `MC_ClassicCredits`: two classic buffers and no LE buffers;
- `MC_DualCredits`: one buffer of each kind;
- `MC_Mtu`: MTU 2 for both kinds.

### `ModuleRegistry.tla` and `GrpcRootServer.tla`: starting and stopping the stack

**How the parts interact.** A test client calls `StartStack` on the root server, which runs on gRPC worker threads. The server builds a module list (GrpcModule plus the facades of the HAL, HCI or L2CAP module under test). `StackManager` then runs `ModuleRegistry::Start(list)` on a new stack thread. `StopStack` stops the gRPC server, joins its loop thread and runs `StopAll`.

**`ModuleRegistry` (`module.cc`).**
- The recursion of `Start(module)` is an explicit call stack (`stack`). A frame is a module whose dependency list is being walked, plus the index of its next entry. The bottom frame (`Root`) is the list given to `Start(list)`.
- Each loop iteration is one action:
  - `StartExisting`: the module is already started;
  - `StartConstruct`: ctor, handler, `ListDependencies`, and the recursive call (a push);
  - `StartInstance`: `instance->Start()` with `GetDependency`/`Get` (`DependenciesFound`), `start_order_`, `started_modules_`, and the return (a pop);
  - `StartListDone`: the loop over the list ends.
- `StopAll` is a reverse cursor (`StopAllBegin`, `StopOne`, `StopAllDone`).
- `live` counts the instances constructed and not yet deleted.
- `StackDepth` bounds the recursion. Going past it is the `stack_overflow` fault a dependency cycle would reach.
- The reference start order is the mutually RECURSIVE `RefStartList`/`RefStartModule`.

**`GrpcRootServer` (`grpc_root_server.cc:41-91`).**
- It EXTENDS the registry. `StartStack` and `StopStack` are split where another worker may run:
  - after the unlocked `is_running_` check;
  - while the stack thread runs `Start` or `StopAll`;
  - at the join of the loop thread.
- `pc` is each worker's place in its handler.
- `stackThread`/`liveThreads` track `stack_thread_` and its deletion. `loopThread`/`joinable` track `grpc_loop_thread_` and its join.
- A registry call while another `Start` or `StopAll` is under way is a data race on `started_modules_`. The model ends there with the fault `registry_race`.
- `MC_GrpcRootServer.tla` gives the modules and their dependency lists. The facades' lists are from `facade.cc` and the facade modules' `ListDependencies`. The lower layers follow the layering in `spec.md`: HAL ← HCI layer ← Controller ← ACL manager ← L2CAP. The HCI list shares HciLayer and Controller between two facades (a diamond).

### `InquiryShim.tla`: the legacy inquiry API (`inquiry.cc`)

**State.**
- The four activity flags, `params_`, and whether `callbacks_` is set.
- `ctrlMode`: the inquiry module and controller (spec_modelled).
- `events`: the results and completions queued on the inquiry module's handler, in order.

**Actions.**
- One action per public method: the two one-shot starts, `StopInquiry`, the two periodic starts, `StopPeriodicInquiry` and `SetScanActivity`.
- `Result`: the three result handlers, which ASSERT in the same way.
- `Complete`: ASSERT, then both one-shot flags cleared.
- `ClientChecksActive`: the caller starts an inquiry only when `Is*Active` says none runs.

### `AclManagerFacade.tla`: the ACL manager gRPC service (`facade.cc:44-272`)

**State.**
- `mutexOwner`: the worker holding `mutex_`.
- `rpcPc`, `promiseSet`: each worker's place and its future's promise.
- `aclConnections`: `acl_connections_`, where an entry is `absent`, `null` (the empty `shared_ptr` that `operator[]` inserts) or `live`.
- `enqueueReg`/`dequeueReg`: the queue-end registrations.
- `handlerQ`: the FIFO of callbacks posted to `facade_handler_`.

**Actions.**
- RPCs: `Connect`, `Disconnect`, `SendAclData`/`SendAclDataReturn`, `FetchAclData`/`FetchAclDataEnd` (`OnSubscribe`/`OnUnsubscribe`), `SetPageScanMode`/`SetPageScanModeReturn`.
- `HandlerStep` runs the head callback: `OnConnectSuccess`, `OnConnectFail`, `on_disconnect`, `enqueue_packet`, `on_incoming_acl`, or the scan-enable completion. A callback that locks `mutex_` blocks the handler while a worker holds it.
- The AclManager and the queue ends are spec_modelled: `LinkEstablished`, `LinkFailed`, `LinkLost`, `EnqueueReady`, `IncomingData`, `DequeueReady`.

**Constants.**
- `SequentialClient`: the client waits for each connection change (through the event streams) before its next RPC.
- `RemoteDisconnects`: peers may drop their links.

### `HciLayer.tla`: the HCI command pipeline (spec_modelled)

`hci_layer.h` declares `EnqueueCommand`, and `hci_layer.cc` is not in `src/`, so the pipeline follows `spec.md` 4.2 and 5.

**State.**
- `hciQueue`: commands enqueued and not yet sent.
- `credits`: the command credit, starting at `InitialCredits` (the spec's 1).
- `outstanding`: commands sent and not yet answered.
- `evtQ`: replies on the HAL, Command Complete or Command Status, each `[cmd, n]` with `n` its `Num_HCI_Command_Packets`. The kind of a reply is the kind the command's opcode calls for; the layer treats both kinds alike.
- `replyQ`: replies posted to the submitter's handler.

**Actions.**
- `EnqueueCommand(c)` appends to `hciQueue`. A submitter conjoins it to its own action.
- `SendCommand` needs the command slot free (no command outstanding, spec.md 3 "HCI command slot" and 4.2 "issues them one at a time") and a credit. It moves the oldest queued command to `outstanding` and spends the credit.
- `ControllerComplete` answers the oldest command the controller holds (`CtrlHeld`). It reports any `n` from 1 to its free room after the answer (`CtrlCap` bounds what it can hold).
- `HandleReply` sets the credit to the reply's `n`, pairs the reply with the oldest outstanding command and posts it.

The spec says both that the credit becomes `Num_HCI_Command_Packets` and, elsewhere, that credits are "added back". The model follows the first reading. The mutant `HandleReplyAddCredits` shows that the second reading lets the credit grow past what the controller can hold. The mutant `SendCommandNoSlot` shows why the slot matters: without it, a command sent between the controller's answer and its handling makes the reply's count stale, and the credit promises more room than there is.

The controller always reports room for at least one command. A reply with `Num_HCI_Command_Packets = 0` would need the NOP event that later gives room back, and the spec does not describe that.

### `HciCommandChannel.tla`: what the pipeline promises

This is the abstract specification: a command submitted joins `pending`, `Answer` moves the oldest pending command to `replies`, and `Consume` is the submitter's handler taking the oldest reply. Both are weakly fair. Credits and the controller do not appear.

### `ClassicSecurityFacade.tla`: the classic security gRPC service (`facade.cc:299-569`)

It EXTENDS `HciLayer`. `MC_ClassicSecurityFacade.tla` gives two worker threads.

**State.** `mutexOwner` (the worker holding `mutex_`), `issued` (a history of the commands in the order their RPCs took `mutex_`) and `stream` (the completions written to `command_complete_stream_`).

**Actions.**
- `RpcCall(t, rpc)` is the body every RPC shares: take `mutex_`, convert the request and hand one command to `ClassicSecurityManager`, whose handler enqueues it on the HCI layer. Both hops are FIFOs, so they are folded into `EnqueueCommand`.
- `PairingReplyRpc`, `StoredLinkKeyRpc` and `LocalCommandRpc` are the groups of RPCs whose commands get a Command Complete, by the request fields they convert. `StatusCommandRpc` is `RefreshEncryptionKey` and `AuthenticationRequested`, whose commands get a Command Status. Addresses, keys and the ASSERT on their parsing are left out.
- `RpcReturn(t)` releases `mutex_`.
- `OnCommandComplete` runs on `facade_handler_`. It takes `mutex_`, so it waits while an RPC holds it, and writes the oldest posted Command Complete to the stream.
- `OnCommandStatus` (spec_modelled) is `ClassicSecurityManager`'s status callback. The facade has none, so the status leaves without touching the stream or `mutex_`.
- `HciOnly(A)` frames an HCI step so that it leaves the facade's variables alone.
- `Finished` stutters once every call is made and every reply handled, so deadlock stays checked.

**Refinement.** `Channel` instantiates `HciCommandChannel` with `pending <- outstanding \o hciQueue` and `replies <- replyQ`. `ChannelRefined` checks `SecuritySpec => Channel!ChanSpec`.

### `ConfigCache.tla`: the storage config cache (`variable.h:1412-1620`)

**State.**
- `cache` is one record:
  - `info`: `information_sections_`, a function from section to its property names;
  - `pers`: `persistent_devices_`, in the same form;
  - `temp`: `temporary_devices_`, a sequence with the most recently used first.
- Property values are abstracted away.
- `IsDeviceSection` splits section names into `InfoSections` and `Devices`. Inputs are names without a newline, so `TrimAfterNewLine` leaves them unchanged.

**Operations.**
- Each method is a pure operator on the record: `SetPropertyOp`, `RemoveSectionOp`, `RemovePropertyOp`, `ApplyEntry`.
- An action applies the operator. `Commit(m)` is `FoldLeft(ApplyEntry, cache, m)` over a mutation's entries.
- Every method holds the recursive `mutex_` throughout, so each is one step.
- `HasProperty`/`GetProperty` are actions, because their `find()` reorders the LRU.
- The LRU (`common::LruCache`, not in `src/`) is spec_modelled:
  - `find` moves an entry to the front and `contains` does not;
  - an insertion into a full cache drops the last entry, and `lostPaired` records the drop of a section that held a link key.
- `RemoveRestricted` extracts the node its range-for stands on and then increments that iterator, which is undefined behaviour. The outcome modelled is the one where the freed node still reads as before, and `iterInvalidated` records that the undefined behaviour happened.

## Properties

### Data path (`RoundRobinScheduler`, `AclDataPath`)

| Property | Kind | What it says |
|---|---|---|
| `TypeOK` | type | Every variable has its type; counters stay in uint16. |
| `NoAbort` | safety | No scheduler `ASSERT` fires: credit available at send, pool ≤ max on return, known handle at Unregister, valid iterator. |
| `ControllerBufferNeverOverflows` | safety | The controller never holds more packets of a kind than it has buffers. This relates the host's credit count after reclaims and returns to what the controller really holds. |
| `DequeueOnlyWhenSendable` | safety | A dequeue is registered only while the FIFO is empty and its own pool is positive (spec §4.3). |
| `WireCarriesPayloadsInOrder` | safety | Per connection, the wire carries the reference fragmentation (spec §8: ceil(max(1,L)/M) pieces, FIRST then CONTINUING) of its payloads in order. The fragments of one payload are contiguous. |
| `SentCountMatchesInFlight` | safety | While the controller holds a link, its `number_of_sent_packets_` equals its packets not yet reported completed. These are the packets in the FIFO, on the wire, in the controller's buffers, or in pending events. A count behind this one underflows its uint16 on a later completion. |
| `CursorValid` | safety (not checked by a run) | `starting_point_` is a map entry, `end()` or the initial value; never dangling or past `end()`. |
| `PayloadsEventuallyDispatched` | liveness | A payload waiting on an open connection is eventually taken by `BufferPacket`. |
| `RoundRobinDispatch` | action | The connection whose payload was sent last is not served again while another open connection has a payload waiting (spec §4.3, §5, scenario 1). Checked only by the violation run. |
| `CreditsEventuallyRestored` | liveness | Every credit spent comes back; the pools settle at their maxima. |
| `PayloadChannelRefined` | refinement | The data path implements `AclChannel`. Each step carries at most the next payload of one connection whole, and every enqueued payload is eventually carried. |

### Registry and root server

| Property | Kind | What it says |
|---|---|---|
| `RootTypeOK` | type | Every variable of the registry and the server has its type. |
| `RootNoAbort` | safety | No ASSERT fires: `Get` finds every dependency, `StopAll` finds every module of `start_order_`, `GetInstance<GrpcModule>` finds the module, no thread is joined or deleted twice, and no registry call races another. |
| `DependenciesOutliveDependents` | safety | While a module is started, so is every module it lists. Start records a module after its dependencies, and the reverse `StopAll` removes it before them. |
| `OneLiveInstance` | safety | A module reached twice (the diamond) is constructed once. Every live instance is the started one or the one on the call stack. |
| `StartOrderMatchesReference` | safety | When `Start(list)` returns, `start_order_` is the RECURSIVE reference's depth-first post-order. |
| `StackStateConsistent` | safety | Between requests, `is_running_` agrees with the registry, the server, `stack_thread_` and the loop thread. |
| `RequestsComplete` | liveness | Every `StartStack`/`StopStack` that passed its check returns. |

### Inquiry shim

| Property | Kind | What it says |
|---|---|---|
| `OneShotFlagsEventuallyClear` | liveness | A one-shot inquiry the shim reports active is eventually reported inactive. |
| `InquiryNoAbort` | safety | No result or completion reaches the shim without its callback. |
| `ShimSeesRunningInquiry` | safety | While the controller runs a one-shot inquiry, the shim reports one active. |

### ACL manager facade

| Property | Kind | What it says |
|---|---|---|
| `FacadeNoCrash` | safety | No null connection is dereferenced, and no promise is set twice. |
| `ConnectionMapMatchesLinks` | safety | Once no connection callback for a peer is queued, `acl_connections_` holds it exactly when its link is up (or being disconnected) with `on_disconnect` registered. |
| `SendCompletes` | liveness | Every `SendAclData` returns. |

### HCI command pipeline and classic security facade

| Property | Kind | What it says |
|---|---|---|
| `SecurityTypeOK` | type | Every variable has its type. The credit stays within `0..CtrlCap`. |
| `CreditWithinControllerRoom` | safety | The host's command credit never exceeds the controller's free room (spec §8, one outstanding command per credit), however replies and sends interleave. |
| `EveryCallCompleted` | liveness | Every RPC whose command gets a Command Complete eventually reaches the stream, behind any status commands. No credit is lost, a Command Status frees the slot, and the handler is never kept from `mutex_` for good. The status calls never reach the stream, and no property says they do. |
| `ChannelRefined` | refinement | The pipeline as the facade drives it implements `HciCommandChannel`. |

### Config cache

| Property | Kind | What it says |
|---|---|---|
| `ConfigTypeOK` | type | The maps have their types, and the LRU never holds more than its capacity. |
| `SectionsUnique` | safety | No section is in two maps. This is the assumption `RemoveSection` states in its comment. |
| `PersistentDevicesArePaired` | safety | Every device in `persistent_devices_` holds a link key. |
| `NoPairedDeviceEvicted` | safety | No device holding a link key is evicted from the LRU. |
| `NoInvalidatedIterator` | safety | `RemoveRestricted` never increments an iterator whose node it freed. |

## Runs

The data-path runs use `MC_AclDataPath` with these bounds:
- handles {1, 2} and MTU 2;
- payload lengths {1, 3}, so a payload is one fragment or two;
- at most 3 payloads, and queue capacity 2.

With two buffers and three payloads, credits run out, payloads wait and both connections compete.

The other components' bounds:
- **Registry.** Its runs use the eleven modules of the real facade lists and the three `StartStack` lists, with `StackDepth` 8 (the deepest chain is 6 frames). One worker suffices for the lifecycle run. Two are needed for the race, which is reproduced below.
- **Inquiry.** Its runs bound the handler's queue at 3 events, enough for a result and a completion to wait behind a stop and a restart.
- **Facade.** Its runs use two peers, two workers and a handler queue of 3.
- **Security facade.** Its run uses two workers, four RPCs and a controller that holds 2 commands, with an initial credit of 1. Four commands are enough for the queue, the controller and the reply queue to be non-empty at once, for a reply to raise the credit to 2, and for status and complete commands to alternate. Without the slot, three commands already over-promise.
- **Config cache.** The pass run uses three devices, one adapter section, four property names and an LRU of 2. These are enough for eviction, for demotion with a key left, and for a restricted paired device. The eviction run uses an LRU of 1.

| Run | Module / cfg | Expect | What it shows |
|---|---|---|---|
| `datapath_safety` | `MC_AclDataPath_safety` | pass | Classic links that connect, send, complete and disconnect in controller order. Checks `TypeOK`, `ControllerBufferNeverOverflows`, `DequeueOnlyWhenSendable`, `WireCarriesPayloadsInOrder` and `SentCountMatchesInFlight` (1.26M states). |
| `datapath_live` | `MC_AclDataPath_live` | pass | Links stay up, and the scheduler and controller are fair. Checks `NoAbort`, both liveness properties and `PayloadChannelRefined`. |
| `round_robin_order` | `MC_AclDataPath_fair` | violation | Two classic links stay up with payloads of length 1. `RoundRobinDispatch` fails: `StartRoundRobin` registers every connection, the reactor fires the dequeue of the connection served last, and the other waits. |
| `late_completion_overflow` | `MC_AclDataPath_late` | violation | A completion handled after `SetDisconnect` is credited a second time (the copy bug), and the controller is sent more than it can buffer. |
| `registry_lifecycle` | `MC_GrpcRootServer_lifecycle` | pass | One worker starts and stops each of the three stacks. Checks all the registry properties and `RequestsComplete` (142 states, deadlock checked). |
| `inquiry_live` | `MC_InquiryShim_live` on `InquiryShim` | pass | `OneShotFlagsEventuallyClear` under any caller (534 states). |
| `late_inquiry_result` | `MC_InquiryShim_late` on `InquiryShim` | violation | `StopPeriodicInquiry` does not check for an active periodic inquiry (`inquiry.cc:187-191`). Called during a one-shot inquiry, it unregisters the callbacks while the controller's inquiry goes on, and its next result fires the ASSERT at `inquiry.cc:66`. |
| `facade_sequential` | `MC_AclManagerFacade_seq` | pass | The waiting client. Checks `FacadeNoCrash`, `ConnectionMapMatchesLinks` and `SendCompletes` (2565 states, deadlock checked). |
| `send_blocks_handler` | `MC_AclManagerFacade_block` | violation | A `Connect` to a connected peer queues `OnConnectFail`, and a `SendAclData` then holds `mutex_` while waiting. The handler blocks on `OnConnectFail`, so `enqueue_packet` never runs and the RPC never returns. |
| `security_pipeline` | `MC_ClassicSecurityFacade_pipeline` on `MC_ClassicSecurityFacade` | pass | Two workers make four security RPCs, status-answered ones included, over the one-slot pipeline. Checks `SecurityTypeOK`, `CreditWithinControllerRoom`, `EveryCallCompleted` and `ChannelRefined` (76,357 states, deadlock checked). |
| `config_cache_ops` | `MC_ConfigCache_ops` | pass | Any sequence of methods and two mutations. Checks `ConfigTypeOK`, `SectionsUnique` and `PersistentDevicesArePaired` (1.33M states). |
| `paired_device_evicted` | `MC_ConfigCache_evict` | violation | Removing `LinkKey` from a device that also holds `LE_KEY_PID` moves it to the LRU, and the next new device evicts it. |

**Traces reproducible without a run of their own.** Each of these is also listed as a hazard in `PROJECT.json`.
- **Datapath reclaim.** With `datapath_safety`'s constants, `NoAbort` fails: `SetDisconnect` reclaims fragments still in the FIFO.
- **Datapath cursor.** With `datapath_safety`'s constants, `CursorValid` fails: a posted `StartRoundRobin` runs on an emptied map.
- **Datapath mixed pools.** With `datapath_live`'s constants, plus `ConnTypes` {CLASSIC, LE} and one buffer of each kind, `NoAbort` fails. A classic connection is registered while only the LE pool has credits, and its fragment fails `ASSERT(acl_packet_credits_ > 0)`.
- **Concurrent StartStack.** With the registry constants and `RpcThreads = {w1, w2}`, `RootNoAbort` fails. A second `StartStack` passes the unlocked `is_running_` check while the first is still starting the registry.
- **Datapath handle reuse.** With `datapath_safety`'s constants and `ReuseHandles = TRUE`, `SentCountMatchesInFlight` fails.
  1. A fragment of handle 2 is still in `fragments_to_send_` when its link is disconnected and unregistered.
  2. The handle is given to a new link, whose entry starts at 0.
  3. The fragment is then sent and completed on the new link, and `number_of_sent_packets_ -= credits` wraps to 65535.
- **Datapath credit leak.** With `datapath_live`'s constants and `Disconnects = TRUE`, `CreditsEventuallyRestored` fails: a payload dequeued after `SetDisconnect` spends a credit on the dead link, and the controller never returns it.
- **Datapath stall.** With `FairSpec` and disconnections, `PayloadsEventuallyDispatched` fails: reclaimed credits never restart the round robin.
- **Facade remote disconnect.** With `RemoteDisconnects = TRUE`, `FacadeNoCrash` fails: `on_disconnect` races a registered `enqueue_packet`.
- **Inquiry result after StopInquiry.** With `StopPeriodicInquiry` allowed only during a periodic inquiry, `InquiryNoAbort` still fails in 5 states: a result already queued on the handler when `StopInquiry` unregisters the callbacks reaches `Result`.
- **Inquiry stale Complete.** Under the inquiry constants, `ShimSeesRunningInquiry` fails: a stale `Complete` clears the flags of a new inquiry.
- **Config cache restricted device.** Under the config-cache constants, `NoInvalidatedIterator` fails: `RemoveRestricted` on a paired device marked Restricted.

**Deadlock checking.**
- The registry, facade and security pass runs check for deadlock, because their environment can always act again.
- The data-path, inquiry and config-cache configurations turn deadlock checking off (`CHECK_DEADLOCK FALSE`), each for its own reason:
  - **Data path:** the environment has a budget of payloads and connections, and its final state is the normal end of a run.
  - **Inquiry:** a fault ends the behaviour.
  - **Config cache:** the pass run has no dead end, and the eviction run only needs an invariant.

## Fairness

**Data path.** `FairSpec` assumes:
- **weak fairness** for `HandleEnqueueNextFragment`, the posted `StartRoundRobin`, the delivery of both event kinds, `ControllerReceive` and `ControllerComplete`. The handler drains its queue, and spec §5 assumes a cooperative controller.
- **strong fairness** for each `BufferPacket(h)`. A dequeue is enabled only between a registration pass and the next `BufferPacket`, so it is enabled intermittently. The reactor serves every readable registered queue in turn.
- **no fairness** for the upper layer and for link loss.

**Registry and root server.**
- Weak fairness for the registry's steps on the stack thread, and for each worker's steps after its check.
- No fairness for the client's requests.

**Inquiry.**
- Weak fairness for the module handler's `Result` and `Complete`.
- Strong fairness for the controller's `ControllerComplete`. A one-shot inquiry ends when `inquiry_length` runs out, however many responses keep the queue full, so the completion is enabled infinitely often and must happen.
- No fairness for the caller.

**Facade.**
- Weak fairness for the handler and for each worker's return from a satisfied wait.
- Weak fairness for the queue ends' callbacks, for a page ending in success or failure, and for a disconnection the facade requested.
- No fairness for the client.

**Security facade.**
- Weak fairness for each worker's `RpcReturn`: an RPC only posts, so it returns.
- Weak fairness for `OnCommandComplete` and `OnCommandStatus` (each handler runs what is posted to it).
- Weak fairness for the HCI layer's `SendCommand` and `HandleReply`, and for the controller's `ControllerComplete`. The spec assumes a cooperative controller, and commands carry no timeout.
- No fairness for the client.

## Mutants

Every property of a passing run has a mutant: a plausible bug in a mapped definition that TLC must catch under the run's own configuration.

| Mutant | Replaces | Caught by |
|---|---|---|
| `SuccessorNextHandleValue` | `Successor` | `TypeOK` |
| `TakeNoCredit` | `TakeCredit` | `ControllerBufferNeverOverflows` |
| `StartRoundRobinNoFifoCheck` | `StartRoundRobin` | `DequeueOnlyWhenSendable` |
| `AclFragmentsAllFirst` | `AclFragments` | `WireCarriesPayloadsInOrder` |
| `CountSentOnePerPayload` (counts payloads, not fragments) | `CountSent` | `SentCountMatchesInFlight` |
| `KeepEnqueueAlways` | `KeepEnqueue` | `NoAbort` |
| `RestartsNever` | `RestartsRoundRobin` | `PayloadsEventuallyDispatched` |
| `ReturnOneCredit` | `ReturnCredits` | `CreditsEventuallyRestored` |
| `AclFragmentsFirstOnly` (push loop stops after the first fragment) | `AclFragments` | `PayloadChannelRefined` |
| `RBeginPastEnd` (rbegin one past the end) | `RBegin` | `RootTypeOK` |
| `FrameDoneEarly` (loop stops one short) | `FrameDone` | `RootNoAbort` |
| `StopTargetForward` (StopAll walks forwards) | `StopTarget` | `DependenciesOutliveDependents` |
| `NeverFound` (started lookup misses) | `IsStarted` | `OneLiveInstance` |
| `ListOfReversed` (lists walked backwards) | `ListOf` | `StartOrderMatchesReference` |
| `JoinNothing` (loop thread never joined) | `JoinLoop` | `StackStateConsistent` |
| `RNextStuck` (iterator not advanced) | `RNext` | `RequestsComplete` |
| `ClearOneShotGeneralOnly` (Complete clears one flag) | `ClearOneShot` | `OneShotFlagsEventuallyClear` |
| `UnregisterNothing` (enqueue left registered) | `UnregisterEnqueue` | `FacadeNoCrash` |
| `FulfilNothing` (promise never set) | `Fulfil` | `SendCompletes` |
| `EraseNothing` (on_disconnect keeps the entry) | `EraseConnection` | `ConnectionMapMatchesLinks` |
| `HandleReplyAddCredits` (credit added, not set) | `HandleReply` | `SecurityTypeOK` |
| `SendCommandNoSlot` (command slot dropped) | `SendCommand` | `CreditWithinControllerRoom` |
| `HandleReplyKeepCredits` (credit not refreshed) | `HandleReply` | `EveryCallCompleted` |
| `EnqueueCommandLifo` (queued ahead of earlier ones) | `EnqueueCommand` | `ChannelRefined` |
| `LruInsertOverfull` (eviction one late) | `LruInsert` | `ConfigTypeOK` |
| `PromoteKeepTemp` (paired device left in the LRU) | `PromotePaired` | `SectionsUnique` |
| `RemovePersistentPropertyKeep` (no demotion) | `RemovePersistentProperty` | `PersistentDevicesArePaired` |

## Not modelled, and why

These parts are not modelled yet, in order of importance:
1. **HCI layer beyond commands:** events other than command replies, a zero-credit reply and the NOP that ends it, and the ACL queue end the scheduler uses.
2. **Facade event streams.** A connection completed while a `FetchAclData` stream is open is never dequeued into that stream. In the model `FetchAclData` holds `mutex_` while its stream is open, so `OnConnectSuccess` waits for the stream to end. A property about it needs a client that connects while streaming, which `SequentialClient` excludes.

These parts are left out for good:
- **The scheduler's destructor.** It calls `UnregisterAllConnections` and drops the completion callback. It leaves the enqueue on `hci_queue_end_` registered and any posted `StartRoundRobin` pending, and both are bound with `Unretained(this)`. Whether they can still run depends on how the owner, `AclManager`, orders the teardown of the queue end and the handler. That code is not in this repository. The hazard is listed without a property.
- **Classic security facade: `FetchCommandCompleteEvent`, and the ASSERTs on address parsing.** The stream's subscription is taken as open from the start, and every address in the model parses.
- **Security module.** Its `Start`/`Stop` only create and reset an impl, and no `StartStack` list names it.
- **`GrpcRootServer::StartServer`/`StopServer`/`RunGrpcLoop`.** They build the root server and wait on it.
- **ConfigCache's move constructor and assignment, `HasSection` and `GetPersistentDevices`.** These are moves and reads that change nothing.
- **The packet parser generator**, which writes C++ text.
- **The fuzz harness, the unit tests and the mocks.**
- **`IBluetooth.aidl` and `btm.h`**, which are declarations only.
- **The log macros.** `ASSERT` appears as each module's fault variable.
