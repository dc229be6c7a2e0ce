----------------------------- MODULE AclDataPath -----------------------------
(***************************************************************************)
(* The ACL data path around the round-robin scheduler: the upper layer that *)
(* enqueues payloads on a connection's queue, the ACL manager that calls    *)
(* Register / SetDisconnect / Unregister on connection-complete,            *)
(* disconnection-complete and Finish, and the controller that buffers the   *)
(* fragments it receives, reports Number_Of_Completed_Packets and           *)
(* disconnects links.  The ACL manager and the controller module are not    *)
(* part of the sources; their part is modelled from the specification       *)
(* (sections 4.4, 4.5 and 5).                                               *)
(*                                                                          *)
(* Events from the controller reach the scheduler on two paths: completed   *)
(* packets through the Controller module's callback (a post to the          *)
(* scheduler's handler), disconnection through the ACL manager.  With       *)
(* InOrderEvents they are handled in the order the controller sent them;    *)
(* without it a disconnection may overtake completions sent before it.      *)
(***************************************************************************)
EXTENDS RoundRobinScheduler

CONSTANTS
    ConnTypes,      \* connection types the controller creates links of
    PayloadLengths, \* lengths of the payloads the upper layer sends
    MaxPayloads,    \* payloads sent over the whole run
    QueueCapacity,  \* capacity of a connection's queue
    InOrderEvents,  \* completions and disconnections handled in send order
    Disconnects,    \* the controller may end links
    ReuseHandles    \* the controller may give a finished handle to a new link

ASSUME /\ ConnTypes \subseteq ConnectionType
       /\ PayloadLengths \subseteq Nat
       /\ MaxPayloads \in Nat /\ QueueCapacity \in Nat \ {0}
       /\ InOrderEvents \in BOOLEAN /\ Disconnects \in BOOLEAN /\ ReuseHandles \in BOOLEAN

VARIABLES
    aclState,   \* ACL manager view of each handle
    connType,   \* type of the link on each handle (meaningful once connected)
    linkUp,     \* the controller holds the link
    ctrlBuf,    \* controller buffers holding packets of each handle
    delivered,  \* prefix of hciWire the controller has taken
    events,     \* controller events not yet handled by the host
    sentLog     \* payloads the upper layer enqueued, per handle

envVars == <<aclState, connType, linkUp, ctrlBuf, delivered, events, sentLog>>
vars == <<schedVars, envVars>>

AclStates == {"idle", "open", "disconnected", "finished"}
Event == [type : {"NOCP"}, handle : Handles, n : Nat] \cup [type : {"DISC"}, handle : Handles]

TypeOK ==
    /\ SchedTypeOK
    /\ aclState \in [Handles -> AclStates]
    /\ connType \in [Handles -> ConnectionType]
    /\ linkUp \in [Handles -> BOOLEAN]
    /\ ctrlBuf \in [Handles -> Nat]
    /\ delivered \in 0..Len(hciWire)
    /\ events \in Seq(Event)
    /\ sentLog \in [Handles -> Seq(Payload)]

PayloadsSent == SumFunction([h \in Handles |-> Len(sentLog[h])])

\* index of the first event of a type, 0 if none
FirstEvent(type) ==
    LET idx == {i \in DOMAIN events : events[i].type = type}
    IN IF idx = {} THEN 0 ELSE Min(idx)

EnvInit ==
    /\ aclState = [h \in Handles |-> "idle"]
    /\ connType = [h \in Handles |-> "CLASSIC"]
    /\ linkUp = [h \in Handles |-> FALSE]
    /\ ctrlBuf = [h \in Handles |-> 0]
    /\ delivered = 0
    /\ events = <<>>
    /\ sentLog = [h \in Handles |-> <<>>]

DataPathInit == Init /\ EnvInit

-----------------------------------------------------------------------------
(* Connection complete: the link is up and the ACL manager registers it.    *)
(* A handle is new, or (ReuseHandles) one whose earlier link the ACL       *)
(* manager has finished: the controller hands out handles again once their *)
(* Disconnection_Complete is sent.                                         *)
Connect(h, t) ==
    /\ \/ aclState[h] = "idle"
       \/ ReuseHandles /\ aclState[h] = "finished"
    /\ aclState' = [aclState EXCEPT ![h] = "open"]
    /\ connType' = [connType EXCEPT ![h] = t]
    /\ linkUp' = [linkUp EXCEPT ![h] = TRUE]
    /\ Register(t, h)
    /\ UNCHANGED <<ctrlBuf, delivered, events, sentLog>>

(* The upper layer enqueues a payload on an open connection's queue.       *)
SendPayload(h, len) ==
    /\ fault = "none"
    /\ aclState[h] = "open"
    /\ PayloadsSent < MaxPayloads
    /\ Len(upQueue[h]) < QueueCapacity
    /\ LET p == [pid |-> PayloadsSent + 1, len |-> len]
       IN /\ upQueue' = [upQueue EXCEPT ![h] = Append(@, p)]
          /\ sentLog' = [sentLog EXCEPT ![h] = Append(@, p)]
    /\ UNCHANGED <<aclQueueHandlers, fragmentsToSend, credits, enqueueRegistered,
                   startingPoint, pendingStartRoundRobin, hciWire, fault>>
    /\ UNCHANGED <<aclState, connType, linkUp, ctrlBuf, delivered, events>>

(* The controller takes the next fragment; one for a link it no longer     *)
(* holds is dropped without using a buffer.                                *)
ControllerReceive ==
    /\ delivered < Len(hciWire)
    /\ LET h == hciWire[delivered + 1].handle
       IN ctrlBuf' = IF linkUp[h] THEN [ctrlBuf EXCEPT ![h] = @ + 1] ELSE ctrlBuf
    /\ delivered' = delivered + 1
    /\ UNCHANGED <<schedVars, aclState, connType, linkUp, events, sentLog>>

(* The controller transmits k buffered packets of h and reports them.      *)
ControllerComplete(h, k) ==
    /\ linkUp[h]
    /\ k \in 1..ctrlBuf[h]
    /\ ctrlBuf' = [ctrlBuf EXCEPT ![h] = @ - k]
    /\ events' = Append(events, [type |-> "NOCP", handle |-> h, n |-> k])
    /\ UNCHANGED <<schedVars, aclState, connType, linkUp, delivered, sentLog>>

(* The link ends; the controller flushes its packets and reports it.       *)
ControllerDisconnect(h) ==
    /\ Disconnects
    /\ linkUp[h]
    /\ linkUp' = [linkUp EXCEPT ![h] = FALSE]
    /\ ctrlBuf' = [ctrlBuf EXCEPT ![h] = 0]
    /\ events' = Append(events, [type |-> "DISC", handle |-> h])
    /\ UNCHANGED <<schedVars, aclState, connType, delivered, sentLog>>

(* A Number_Of_Completed_Packets event reaches IncomingAclCredits.          *)
DeliverCompletedPackets ==
    LET i == FirstEvent("NOCP")
    IN /\ i > 0
       /\ InOrderEvents => i = 1
       /\ events' = RemoveAt(events, i)
       /\ IncomingAclCredits(events[i].handle, events[i].n)
       /\ UNCHANGED <<aclState, connType, linkUp, ctrlBuf, delivered, sentLog>>

(* A Disconnection_Complete event reaches the ACL manager: SetDisconnect.   *)
DeliverDisconnection ==
    LET i == FirstEvent("DISC")
        h == events[i].handle
    IN /\ i > 0
       /\ InOrderEvents => i = 1
       /\ events' = RemoveAt(events, i)
       /\ aclState' = [aclState EXCEPT ![h] = "disconnected"]
       /\ SetDisconnect(h)
       /\ UNCHANGED <<connType, linkUp, ctrlBuf, delivered, sentLog>>

(* The upper layer finishes the disconnected connection: Unregister.       *)
Finish(h) ==
    /\ aclState[h] = "disconnected"
    /\ aclState' = [aclState EXCEPT ![h] = "finished"]
    /\ Unregister(h)
    /\ UNCHANGED <<connType, linkUp, ctrlBuf, delivered, events, sentLog>>

SchedulerStep ==
    /\ \/ \E h \in Handles : BufferPacket(h)
       \/ HandleEnqueueNextFragment
       \/ RunPostedStartRoundRobin
    /\ UNCHANGED envVars

Next ==
    \/ \E h \in Handles, t \in ConnTypes : Connect(h, t)
    \/ \E h \in Handles, len \in PayloadLengths : SendPayload(h, len)
    \/ SchedulerStep
    \/ ControllerReceive
    \/ \E h \in Handles : \E k \in 1..ctrlBuf[h] : ControllerComplete(h, k)
    \/ \E h \in Handles : ControllerDisconnect(h)
    \/ DeliverCompletedPackets
    \/ DeliverDisconnection
    \/ \E h \in Handles : Finish(h)

(***************************************************************************)
(* Fairness.  All scheduler work runs on one handler that keeps draining    *)
(* its queue: weak fairness for the enqueue callback, the posted task and   *)
(* the delivery of events.  A dequeue callback is enabled only between a    *)
(* registration pass and the next BufferPacket, so it needs strong          *)
(* fairness: the reactor serves every readable queue that stays            *)
(* registered in turn.  The controller is cooperative (section 5): it       *)
(* takes what it is sent and eventually completes what it buffers.  The     *)
(* upper layer and link loss have no fairness.                              *)
(***************************************************************************)
Fairness ==
    /\ \A h \in Handles : SF_vars(BufferPacket(h) /\ UNCHANGED envVars)
    /\ WF_vars(HandleEnqueueNextFragment /\ UNCHANGED envVars)
    /\ WF_vars(RunPostedStartRoundRobin /\ UNCHANGED envVars)
    /\ WF_vars(ControllerReceive)
    /\ \A h \in Handles : WF_vars(\E k \in 1..ctrlBuf[h] : ControllerComplete(h, k))
    /\ WF_vars(DeliverCompletedPackets)
    /\ WF_vars(DeliverDisconnection)

Spec == DataPathInit /\ [][Next]_vars
FairSpec == Spec /\ Fairness

-----------------------------------------------------------------------------
(* Helpers of the properties.                                              *)

\* packets of kind t the controller holds in its buffers
Buffered(t) == SumFunction([h \in {x \in Handles : connType[x] = t} |-> ctrlBuf[h]])

\* Reference fragmentation of a payload of length L over MTU M:
\* ceil(max(1, L) / M) pieces, all of M bytes but the last, the first FIRST.
ReferenceFragments(h, type, p) ==
    LET M == HciMtu[type]
        n == (IF p.len = 0 THEN 1 ELSE p.len + M - 1) \div M
    IN [i \in 1..n |->
          [handle |-> h, connection_type |-> type,
           pb |-> IF i = 1 THEN FIRST ELSE CONTINUING, pid |-> p.pid,
           size |-> IF i < n THEN M ELSE p.len - (n - 1) * M]]

\* the fragments of connection h's payloads, in the order they were enqueued
ExpectedFragments(h) ==
    FlattenSeq([i \in 1..Len(sentLog[h]) |-> ReferenceFragments(h, connType[h], sentLog[h][i])])

WireOf(h) == SelectSeq(hciWire, LAMBDA f : f.handle = h)

\* the packets of h the host has not yet seen completed: in the FIFO, on
\* the wire not yet taken, in the controller's buffers, in pending events
InFlight(h) ==
    LET ofH(f) == f.handle = h
        nocp == SelectSeq(events, LAMBDA e : e.type = "NOCP" /\ e.handle = h)
    IN  Len(SelectSeq(fragmentsToSend, ofH))
      + Len(SelectSeq(SubSeq(hciWire, delivered + 1, Len(hciWire)), ofH))
      + ctrlBuf[h]
      + FoldLeft(LAMBDA acc, e : acc + e.n, 0, nocp)

-----------------------------------------------------------------------------
(* No ASSERT of the scheduler aborts the process: HandleEnqueueNextFragment *)
(* always finds a credit of the front fragment's kind, IncomingAclCredits   *)
(* never pushes a pool above its maximum, Unregister only sees known        *)
(* handles, and StartRoundRobin never walks an invalid iterator.            *)
NoAbort == fault = "none"

(* The controller is never sent more packets of a kind than it has buffers: *)
(* the credits the host believes it has, after reclaims on SetDisconnect    *)
(* and returns by IncomingAclCredits, never exceed the free buffers.        *)
ControllerBufferNeverOverflows ==
    \A t \in ConnectionType : Buffered(t) <= MaxAclPacketCredits[t]

(* While the controller holds h's link, number_of_sent_packets_ of h is    *)
(* exactly the number of h's packets not yet reported completed, wherever   *)
(* they are: BufferPacket counts a payload's fragments, IncomingAclCredits  *)
(* subtracts the completions.  A count behind this one underflows its       *)
(* uint16 on the next Number_Of_Completed_Packets.                          *)
SentCountMatchesInFlight ==
    \A h \in DOMAIN aclQueueHandlers :
        linkUp[h] => aclQueueHandlers[h].number_of_sent_packets_ = InFlight(h)

(* A connection's dequeue is registered only while the fragment FIFO is     *)
(* empty and its own credit pool is positive (StartRoundRobin registers,    *)
(* BufferPacket unregisters all, HandleEnqueueNextFragment spends credits). *)
DequeueOnlyWhenSendable ==
    \A h \in DOMAIN aclQueueHandlers :
        aclQueueHandlers[h].dequeue_is_registered_ =>
            /\ fragmentsToSend = <<>>
            /\ credits[aclQueueHandlers[h].connection_type_] > 0

(* On the HCI wire each connection's fragments are the fragmentation of its *)
(* payloads in the order the upper layer enqueued them (first piece FIRST,  *)
(* the rest CONTINUING), and the fragments of one payload are contiguous:  *)
(* no other payload's fragment is sent between two of them.                *)
WireCarriesPayloadsInOrder ==
    /\ \A h \in Handles : IsPrefix(WireOf(h), ExpectedFragments(h))
    /\ \A i, j, k \in DOMAIN hciWire :
          (i < j /\ j < k /\ hciWire[i].pid = hciWire[k].pid) => hciWire[j].pid = hciWire[i].pid

(* starting_point_ always denotes an entry of acl_queue_handlers_, end(),    *)
(* or the never-used initial iterator: Unregister rewinds it before erasing *)
(* can leave it dangling, and StartRoundRobin never steps past end().       *)
CursorValid ==
    startingPoint \in DOMAIN aclQueueHandlers \cup {End, Singular}

(* Round-robin dispatch (spec.md 4.3, 5 and scenario 1): a connection     *)
(* whose payload was the last one sent is not served again by BufferPacket  *)
(* while another open connection has a payload waiting; the wire           *)
(* alternates between connections that both have traffic.                  *)
RoundRobinDispatch ==
    [][\A h, k \in Handles :
         /\ Len(upQueue'[h]) < Len(upQueue[h])
         /\ hciWire # <<>> /\ Last(hciWire).handle = h
         /\ k # h /\ aclState[k] = "open" /\ upQueue[k] # <<>>
         => FALSE]_vars

(* A payload waiting on an open connection's queue is eventually taken by   *)
(* BufferPacket: credit returns and posted StartRoundRobin tasks always     *)
(* re-register the dequeue.                                                 *)
PayloadsEventuallyDispatched ==
    \A h \in Handles :
        (aclState[h] = "open" /\ upQueue[h] # <<>>)
            ~> (upQueue[h] = <<>> \/ aclState[h] # "open" \/ fault # "none")

\* payloads of h whose every fragment is on the wire: the longest prefix of
\* sentLog[h] each of whose payloads has all its reference fragments there
CarriedCount(h) ==
    LET whole(p) == Len(SelectSeq(hciWire, LAMBDA f : f.pid = p.pid))
                      = Len(ReferenceFragments(h, connType[h], p))
    IN Cardinality({k \in 1..Len(sentLog[h]) : \A i \in 1..k : whole(sentLog[h][i])})

(* The data path, as the scheduler drives it, implements AclChannel: what   *)
(* the upper layer enqueued and the wire has not carried whole is queued,   *)
(* and each connection's payloads are carried one after the other, in      *)
(* order and eventually (links that stay up).                              *)
PayloadChannel == INSTANCE AclChannel
    WITH Conns <- Handles, Payloads <- [pid : 1..MaxPayloads, len : PayloadLengths],
         queued <- [h \in Handles |-> SubSeq(sentLog[h], CarriedCount(h) + 1, Len(sentLog[h]))],
         carried <- [h \in Handles |-> SubSeq(sentLog[h], 1, CarriedCount(h))]

PayloadChannelRefined == PayloadChannel!AclChanSpec


(* Every credit spent by HandleEnqueueNextFragment eventually comes back,   *)
(* through IncomingAclCredits or the reclaim of SetDisconnect, once traffic *)
(* stops: the pools settle at their maxima (an abort is NoAbort's concern). *)
CreditsEventuallyRestored == <>[](credits = MaxAclPacketCredits \/ fault # "none")

=============================================================================
