--------------------------- MODULE AclManagerFacade ---------------------------
(***************************************************************************)
(* AclManagerFacadeService (gd/hci/facade.cc 44-272).  Its RPCs run on gRPC *)
(* worker threads and take mutex_; AclManager delivers connection callbacks *)
(* and the ACL queue ends deliver their enqueue and dequeue callbacks on the *)
(* single facade_handler_.  SendAclData holds mutex_ while it waits for      *)
(* enqueue_packet to run on that handler; FetchAclData holds it while the    *)
(* stream is open.  OnConnectSuccess and OnConnectFail take mutex_ on the    *)
(* handler; on_disconnect erases from acl_connections_ without it.           *)
(*                                                                          *)
(* AclManager, the controller and the queue ends are not in this           *)
(* repository: they are modelled by the link state per peer and by the      *)
(* callbacks they post.  Addresses are model values; the protobuf and       *)
(* string conversions of the RPCs are left out.                             *)
(***************************************************************************)
EXTENDS Integers, Sequences

CONSTANTS
    Addrs,             \* peer addresses
    RpcThreads,        \* gRPC worker threads
    None,              \* no thread / no address
    MaxTasks,          \* bound on callbacks queued on facade_handler_
    SequentialClient,  \* the client waits for each connection change before its next RPC
    RemoteDisconnects  \* a peer may drop its link

VARIABLES
    mutexOwner,      \* the thread holding mutex_, or None
    rpcPc,           \* where each worker is: "idle", "send_wait", "streaming", "scan_wait"
    promiseSet,      \* each worker's promise has its value
    aclConnections,  \* acl_connections_: "absent", "null" (an empty shared_ptr) or "live"
    subscribed,      \* acl_stream_callback_.subscribed_
    enqueueReg,      \* the worker whose enqueue_packet is registered on a peer's queue end
    dequeueReg,      \* on_incoming_acl registered on a peer's queue end
    handlerQ,        \* callbacks queued on facade_handler_
    link,            \* AclManager's view: "down", "connecting", "up", "disconnecting"
    disconnectCb,    \* on_disconnect registered on the peer's AclConnection
    rxPending,       \* a received packet waits in the peer's queue end
    reported,        \* peers the client has seen connected and not yet disconnected
    facadeFault      \* "none" or the crash that ended the process

facadeVars == <<mutexOwner, rpcPc, promiseSet, aclConnections, subscribed, enqueueReg,
                dequeueReg, handlerQ, link, disconnectCb, rxPending, reported, facadeFault>>

TaskKinds == {"connect_success", "connect_fail", "disconnect", "enqueue", "incoming",
              "scan_complete"}
Task == [kind : TaskKinds, addr : Addrs \cup {None}, thread : RpcThreads \cup {None}]
MkTask(k, a, t) == [kind |-> k, addr |-> a, thread |-> t]

FacadeTypeOK ==
    /\ mutexOwner \in RpcThreads \cup {None}
    /\ rpcPc \in [RpcThreads -> {"idle", "send_wait", "streaming", "scan_wait"}]
    /\ promiseSet \in [RpcThreads -> BOOLEAN]
    /\ aclConnections \in [Addrs -> {"absent", "null", "live"}]
    /\ subscribed \in BOOLEAN
    /\ enqueueReg \in [Addrs -> RpcThreads \cup {None}]
    /\ dequeueReg \in [Addrs -> BOOLEAN]
    /\ handlerQ \in Seq(Task)
    /\ link \in [Addrs -> {"down", "connecting", "up", "disconnecting"}]
    /\ disconnectCb \in [Addrs -> BOOLEAN]
    /\ rxPending \in [Addrs -> BOOLEAN]
    /\ reported \subseteq Addrs
    /\ facadeFault \in {"none", "null_deref", "promise_reused"}

\* the service's constructor registers with AclManager; nothing is connected
FacadeInit ==
    /\ mutexOwner = None
    /\ rpcPc = [t \in RpcThreads |-> "idle"]
    /\ promiseSet = [t \in RpcThreads |-> FALSE]
    /\ aclConnections = [a \in Addrs |-> "absent"]
    /\ subscribed = FALSE
    /\ enqueueReg = [a \in Addrs |-> None]
    /\ dequeueReg = [a \in Addrs |-> FALSE]
    /\ handlerQ = <<>>
    /\ link = [a \in Addrs |-> "down"]
    /\ disconnectCb = [a \in Addrs |-> FALSE]
    /\ rxPending = [a \in Addrs |-> FALSE]
    /\ reported = {}
    /\ facadeFault = "none"

Post(task) == handlerQ' = Append(handlerQ, task)
Queued(k, a) == \E i \in 1..Len(handlerQ) : handlerQ[i].kind = k /\ handlerQ[i].addr = a

\* a client that waits, through the connection and disconnection streams,
\* for every connection change before its next RPC
ClientMay ==
    SequentialClient =>
        /\ \A a \in Addrs : link[a] \notin {"connecting", "disconnecting"}
        /\ \A a \in Addrs : ~Queued("connect_success", a) /\ ~Queued("connect_fail", a)
                            /\ ~Queued("disconnect", a)

RpcMay(t) == facadeFault = "none" /\ rpcPc[t] = "idle" /\ mutexOwner = None /\ ClientMay

-----------------------------------------------------------------------------
(* Connect: under mutex_, acl_manager_->CreateConnection(peer).  AclManager *)
(* pages a peer that is down; a peer already connected makes the           *)
(* controller refuse, reported through OnConnectFail.                       *)
Connect(t, a) ==
    /\ RpcMay(t)
    /\ link[a] \in {"down", "up"}
    /\ Len(handlerQ) < MaxTasks
    /\ IF link[a] = "down"
       THEN link' = [link EXCEPT ![a] = "connecting"] /\ UNCHANGED handlerQ
       ELSE Post(MkTask("connect_fail", a, None)) /\ UNCHANGED link
    /\ UNCHANGED <<mutexOwner, rpcPc, promiseSet, aclConnections, subscribed, enqueueReg,
                   dequeueReg, disconnectCb, rxPending, reported, facadeFault>>

(* Disconnect: under mutex_, find the peer; unknown: an error status; else *)
(* connection->Disconnect(REMOTE_USER_TERMINATED_CONNECTION).               *)
Disconnect(t, a) ==
    /\ RpcMay(t)
    /\ CASE aclConnections[a] = "absent" -> UNCHANGED <<link, facadeFault>>
         [] aclConnections[a] = "null"   -> facadeFault' = "null_deref" /\ UNCHANGED link
         [] OTHER -> /\ link' = [link EXCEPT ![a] = IF @ = "up" THEN "disconnecting" ELSE @]
                     /\ UNCHANGED facadeFault
    /\ UNCHANGED <<mutexOwner, rpcPc, promiseSet, aclConnections, subscribed, enqueueReg,
                   dequeueReg, handlerQ, disconnectCb, rxPending, reported>>

\* acl_connections_[address]: operator[] inserts an empty shared_ptr for a
\* peer it does not hold
LookupInsert(a) ==
    [aclConnections EXCEPT ![a] = IF @ = "absent" THEN "null" ELSE @]

(* SendAclData: take mutex_, RegisterEnqueue(enqueue_packet) on the peer's  *)
(* queue end through acl_connections_[address], then future.wait() with      *)
(* mutex_ held.  A peer the map does not hold is an empty shared_ptr: the    *)
(* call through it crashes.                                                  *)
SendAclData(t, a) ==
    /\ RpcMay(t)
    /\ SequentialClient => a \in reported
    /\ aclConnections' = LookupInsert(a)
    /\ IF aclConnections'[a] = "live"
       THEN /\ mutexOwner' = t
            /\ rpcPc' = [rpcPc EXCEPT ![t] = "send_wait"]
            /\ promiseSet' = [promiseSet EXCEPT ![t] = FALSE]
            /\ enqueueReg' = [enqueueReg EXCEPT ![a] = t]
            /\ UNCHANGED facadeFault
       ELSE /\ facadeFault' = "null_deref"
            /\ UNCHANGED <<mutexOwner, rpcPc, promiseSet, enqueueReg>>
    /\ UNCHANGED <<subscribed, dequeueReg, handlerQ, link, disconnectCb, rxPending, reported>>

(* The future is ready: SendAclData returns and releases mutex_.           *)
SendAclDataReturn(t) ==
    /\ facadeFault = "none"
    /\ rpcPc[t] = "send_wait" /\ promiseSet[t]
    /\ mutexOwner' = None
    /\ rpcPc' = [rpcPc EXCEPT ![t] = "idle"]
    /\ UNCHANGED <<promiseSet, aclConnections, subscribed, enqueueReg, dequeueReg, handlerQ,
                   link, disconnectCb, rxPending, reported, facadeFault>>

\* OnSubscribe / OnUnsubscribe: (un)register on_incoming_acl on the queue end
\* of every connection in the map; an empty shared_ptr crashes the loop
SetDequeue(on) ==
    IF \E a \in Addrs : aclConnections[a] = "null"
    THEN facadeFault' = "null_deref" /\ UNCHANGED dequeueReg
    ELSE /\ dequeueReg' = [a \in Addrs |-> IF aclConnections[a] = "live" THEN on ELSE dequeueReg[a]]
         /\ UNCHANGED facadeFault

(* FetchAclData: take mutex_ and hold it while acl_stream_ serves the       *)
(* stream; HandleRequest subscribes (OnSubscribe; a second subscription is  *)
(* only warned about).                                                       *)
FetchAclData(t) ==
    /\ RpcMay(t)
    /\ mutexOwner' = t
    /\ rpcPc' = [rpcPc EXCEPT ![t] = "streaming"]
    /\ IF subscribed
       THEN UNCHANGED <<dequeueReg, facadeFault, subscribed>>
       ELSE SetDequeue(TRUE) /\ subscribed' = TRUE
    /\ UNCHANGED <<promiseSet, aclConnections, enqueueReg, handlerQ, link, disconnectCb,
                   rxPending, reported>>

(* The client cancels the stream: OnUnsubscribe, mutex_ released.          *)
FetchAclDataEnd(t) ==
    /\ facadeFault = "none"
    /\ rpcPc[t] = "streaming"
    /\ mutexOwner' = None
    /\ rpcPc' = [rpcPc EXCEPT ![t] = "idle"]
    /\ IF subscribed
       THEN SetDequeue(FALSE) /\ subscribed' = FALSE
       ELSE UNCHANGED <<dequeueReg, facadeFault, subscribed>>
    /\ UNCHANGED <<promiseSet, aclConnections, enqueueReg, handlerQ, link, disconnectCb,
                   rxPending, reported>>

(* SetPageScanMode: EnqueueCommand(WriteScanEnable) with its completion on  *)
(* facade_handler_, then future.wait(); mutex_ is not taken.                *)
SetPageScanMode(t) ==
    /\ facadeFault = "none" /\ rpcPc[t] = "idle" /\ ClientMay
    /\ Len(handlerQ) < MaxTasks
    /\ rpcPc' = [rpcPc EXCEPT ![t] = "scan_wait"]
    /\ promiseSet' = [promiseSet EXCEPT ![t] = FALSE]
    /\ Post(MkTask("scan_complete", None, t))
    /\ UNCHANGED <<mutexOwner, aclConnections, subscribed, enqueueReg, dequeueReg, link,
                   disconnectCb, rxPending, reported, facadeFault>>

SetPageScanModeReturn(t) ==
    /\ facadeFault = "none"
    /\ rpcPc[t] = "scan_wait" /\ promiseSet[t]
    /\ rpcPc' = [rpcPc EXCEPT ![t] = "idle"]
    /\ UNCHANGED <<mutexOwner, promiseSet, aclConnections, subscribed, enqueueReg, dequeueReg,
                   handlerQ, link, disconnectCb, rxPending, reported, facadeFault>>

-----------------------------------------------------------------------------
(* facade_handler_ runs its callbacks one at a time, in the order posted;   *)
(* a callback that takes mutex_ blocks the handler until mutex_ is free.    *)

\* mutant: enqueue_packet leaves its registration in place
UnregisterNothing(a) == enqueueReg

\* GetAclQueueEnd()->UnregisterEnqueue()
UnregisterEnqueue(a) == [enqueueReg EXCEPT ![a] = None]

\* mutant: enqueue_packet forgets promise.set_value()
FulfilNothing(t) == promiseSet

\* promise.set_value()
Fulfil(t) == [promiseSet EXCEPT ![t] = TRUE]

\* mutant: on_disconnect leaves the map entry
EraseNothing(a) == aclConnections

\* acl_connections_.erase(address)
EraseConnection(a) == [aclConnections EXCEPT ![a] = "absent"]

\* acl_connections_.emplace(address, connection): no effect on a held key
Emplace(a) == [aclConnections EXCEPT ![a] = IF @ = "absent" THEN "live" ELSE @]

HandlerTask(task) ==
    LET a == task.addr
        t == task.thread
    IN CASE task.kind = "connect_success" ->
              (* OnConnectSuccess: under mutex_, emplace, RegisterDisconnectCallback *)
              /\ mutexOwner = None
              /\ aclConnections' = Emplace(a)
              /\ disconnectCb' = [disconnectCb EXCEPT ![a] = TRUE]
              /\ reported' = reported \cup {a}
              /\ UNCHANGED <<promiseSet, enqueueReg, rxPending, facadeFault>>
         [] task.kind = "connect_fail" ->
              (* OnConnectFail: under mutex_, a ConnectionFailedEvent *)
              /\ mutexOwner = None
              /\ UNCHANGED <<aclConnections, disconnectCb, reported, promiseSet, enqueueReg,
                             rxPending, facadeFault>>
         [] task.kind = "disconnect" ->
              (* on_disconnect: erase without mutex_, a DisconnectionEvent *)
              /\ aclConnections' = EraseConnection(a)
              /\ reported' = reported \ {a}
              /\ UNCHANGED <<disconnectCb, promiseSet, enqueueReg, rxPending, facadeFault>>
         [] task.kind = "enqueue" ->
              (* enqueue_packet: acl_connections_[address]->...->UnregisterEnqueue(), *)
              (* the packet built, promise.set_value()                              *)
              (* a second call finds its promise already used                   *)
              /\ aclConnections' = LookupInsert(a)
              /\ CASE aclConnections'[a] # "live" ->
                        facadeFault' = "null_deref" /\ UNCHANGED <<enqueueReg, promiseSet>>
                   [] promiseSet[t] ->
                        facadeFault' = "promise_reused" /\ UNCHANGED <<enqueueReg, promiseSet>>
                   [] OTHER ->
                        /\ enqueueReg' = UnregisterEnqueue(a)
                        /\ promiseSet' = Fulfil(t)
                        /\ UNCHANGED facadeFault
              /\ UNCHANGED <<disconnectCb, reported, rxPending>>
         [] task.kind = "incoming" ->
              (* on_incoming_acl: an unknown peer is logged and left; otherwise   *)
              (* TryDequeue and the packet goes to acl_stream_                    *)
              /\ rxPending' = [rxPending EXCEPT ![a] = aclConnections[a] = "absent"]
              /\ facadeFault' = IF aclConnections[a] = "null" THEN "null_deref" ELSE "none"
              /\ UNCHANGED <<aclConnections, disconnectCb, reported, promiseSet, enqueueReg>>
         [] task.kind = "scan_complete" ->
              (* the WriteScanEnable completion: promise.set_value() *)
              /\ promiseSet' = [promiseSet EXCEPT ![t] = TRUE]
              /\ UNCHANGED <<aclConnections, disconnectCb, reported, enqueueReg, rxPending,
                             facadeFault>>

HandlerStep ==
    /\ facadeFault = "none"
    /\ handlerQ # <<>>
    /\ HandlerTask(Head(handlerQ))
    /\ handlerQ' = Tail(handlerQ)
    /\ UNCHANGED <<mutexOwner, rpcPc, subscribed, dequeueReg, link>>

-----------------------------------------------------------------------------
(* AclManager and the queue ends.  A paged peer connects or fails; a link   *)
(* goes down when the facade disconnected it or, if RemoteDisconnects, at   *)
(* the peer's will, and on_disconnect is posted once it is registered.  A   *)
(* queue end with room calls its registered enqueue callback, and one       *)
(* holding a received packet its dequeue callback, on facade_handler_.      *)
EnvMay == facadeFault = "none" /\ Len(handlerQ) < MaxTasks

LinkEstablished(a) ==
    /\ EnvMay /\ link[a] = "connecting"
    /\ link' = [link EXCEPT ![a] = "up"]
    /\ Post(MkTask("connect_success", a, None))
    /\ UNCHANGED <<mutexOwner, rpcPc, promiseSet, aclConnections, subscribed, enqueueReg,
                   dequeueReg, disconnectCb, rxPending, reported, facadeFault>>

LinkFailed(a) ==
    /\ EnvMay /\ link[a] = "connecting"
    /\ link' = [link EXCEPT ![a] = "down"]
    /\ Post(MkTask("connect_fail", a, None))
    /\ UNCHANGED <<mutexOwner, rpcPc, promiseSet, aclConnections, subscribed, enqueueReg,
                   dequeueReg, disconnectCb, rxPending, reported, facadeFault>>

LinkLost(a) ==
    /\ EnvMay /\ disconnectCb[a]
    /\ \/ link[a] = "disconnecting"
       \/ RemoteDisconnects /\ link[a] = "up"
    /\ link' = [link EXCEPT ![a] = "down"]
    /\ disconnectCb' = [disconnectCb EXCEPT ![a] = FALSE]
    /\ rxPending' = [rxPending EXCEPT ![a] = FALSE]
    /\ Post(MkTask("disconnect", a, None))
    /\ UNCHANGED <<mutexOwner, rpcPc, promiseSet, aclConnections, subscribed, enqueueReg,
                   dequeueReg, reported, facadeFault>>

EnqueueReady(a) ==
    /\ EnvMay /\ enqueueReg[a] # None /\ ~Queued("enqueue", a)
    /\ Post(MkTask("enqueue", a, enqueueReg[a]))
    /\ UNCHANGED <<mutexOwner, rpcPc, promiseSet, aclConnections, subscribed, enqueueReg,
                   dequeueReg, link, disconnectCb, rxPending, reported, facadeFault>>

IncomingData(a) ==
    /\ EnvMay /\ link[a] = "up" /\ ~rxPending[a]
    /\ rxPending' = [rxPending EXCEPT ![a] = TRUE]
    /\ UNCHANGED <<mutexOwner, rpcPc, promiseSet, aclConnections, subscribed, enqueueReg,
                   dequeueReg, handlerQ, link, disconnectCb, reported, facadeFault>>

DequeueReady(a) ==
    /\ EnvMay /\ dequeueReg[a] /\ rxPending[a] /\ ~Queued("incoming", a)
    /\ Post(MkTask("incoming", a, None))
    /\ UNCHANGED <<mutexOwner, rpcPc, promiseSet, aclConnections, subscribed, enqueueReg,
                   dequeueReg, link, disconnectCb, rxPending, reported, facadeFault>>

FacadeNext ==
    \/ \E t \in RpcThreads, a \in Addrs : Connect(t, a) \/ Disconnect(t, a) \/ SendAclData(t, a)
    \/ \E t \in RpcThreads : \/ SendAclDataReturn(t) \/ FetchAclData(t) \/ FetchAclDataEnd(t)
                             \/ SetPageScanMode(t) \/ SetPageScanModeReturn(t)
    \/ HandlerStep
    \/ \E a \in Addrs : \/ LinkEstablished(a) \/ LinkFailed(a) \/ LinkLost(a)
                        \/ EnqueueReady(a) \/ IncomingData(a) \/ DequeueReady(a)

(* facade_handler_ runs what is posted to it; a woken worker returns; the    *)
(* controller ends a page and answers a Disconnect; a queue end with room   *)
(* or data calls back.  Clients and peers act at will: no fairness.         *)
FacadeFairness ==
    /\ WF_facadeVars(HandlerStep)
    /\ \A t \in RpcThreads : WF_facadeVars(SendAclDataReturn(t)) /\ WF_facadeVars(SetPageScanModeReturn(t))
    /\ \A a \in Addrs :
        /\ WF_facadeVars(LinkEstablished(a) \/ LinkFailed(a))
        /\ WF_facadeVars(link[a] = "disconnecting" /\ LinkLost(a))
        /\ WF_facadeVars(EnqueueReady(a)) /\ WF_facadeVars(DequeueReady(a))

FacadeSpec == FacadeInit /\ [][FacadeNext]_facadeVars /\ FacadeFairness

-----------------------------------------------------------------------------
(* The facade never dereferences an empty shared_ptr or reuses a promise:   *)
(* every acl_connections_[address] of SendAclData and enqueue_packet finds  *)
(* a connection, and enqueue_packet runs once per SendAclData.              *)
FacadeNoCrash == facadeFault = "none"

(* Every SendAclData that registered its enqueue returns: enqueue_packet    *)
(* runs on facade_handler_ although the RPC holds mutex_ meanwhile.  A      *)
(* crash ends the wait too.                                                 *)
SendCompletes ==
    \A t \in RpcThreads :
        rpcPc[t] = "send_wait" ~> (rpcPc[t] = "idle" \/ facadeFault # "none")

(* Once the callbacks about a peer have run, acl_connections_ holds it      *)
(* exactly when AclManager has its link up (or being disconnected) with     *)
(* on_disconnect registered: OnConnectSuccess adds, on_disconnect erases.   *)
ConnectionMapMatchesLinks ==
    \A a \in Addrs :
        ~Queued("connect_success", a) /\ ~Queued("disconnect", a) =>
            ((aclConnections[a] = "live") <=>
                (link[a] \in {"up", "disconnecting"} /\ disconnectCb[a]))

=============================================================================
