------------------------- MODULE RoundRobinScheduler -------------------------
(***************************************************************************)
(* The round-robin ACL scheduler of the HCI layer (class RoundRobinScheduler,  *)
(* gd/hci/round_robin_scheduler.h, implementation in the translation unit     *)
(* that follows gd/btaa/hci_processor.h).  Every method runs on the single    *)
(* os::Handler of the scheduler, so each method is one atomic action here.    *)
(* A method that calls another (Register -> StartRoundRobin ->                *)
(* SendNextFragment) is one action whose effect is the composition.          *)
(*                                                                           *)
(* Payload contents are abstracted to an identity and a length; a fragment   *)
(* keeps its handle, its packet-boundary flag, its length and the identity   *)
(* of the payload it was cut from.  The std::map iterator starting_point_ is *)
(* a handle, the model value End (end()), or one of the model values        *)
(* Singular (default constructed) and PastEnd (std::next(end()), undefined). *)
(***************************************************************************)
EXTENDS Integers, Sequences, FiniteSets, SequencesExt, Functions, TLC

CONSTANTS
    Handles,             \* connection handles: the keys of acl_queue_handlers_
    MaxAclPacketCredits, \* [ConnectionType -> Nat]: controller buffer counts
    HciMtu,              \* [ConnectionType -> Nat]: controller ACL MTUs
    End, Singular, PastEnd  \* iterator values that are not an element

ConnectionType == {"CLASSIC", "LE"}
FIRST == "FIRST_AUTOMATICALLY_FLUSHABLE"
CONTINUING == "CONTINUING_FRAGMENT"

ASSUME /\ Handles \subseteq Nat /\ Handles # {}
       /\ MaxAclPacketCredits \in [ConnectionType -> 0..65535]
       /\ HciMtu \in [ConnectionType -> Nat \ {0}]

\* uint16_t arithmetic of the credit and packet counters
U16(x) == x % 65536

VARIABLES
    aclQueueHandlers,       \* acl_queue_handlers_: handle -> acl_queue_handler
    fragmentsToSend,        \* fragments_to_send_: FIFO of prepared fragments
    credits,                \* acl_packet_credits_ / le_acl_packet_credits_
    enqueueRegistered,      \* enqueue_registered_ on the HCI queue end
    startingPoint,          \* starting_point_
    pendingStartRoundRobin, \* StartRoundRobin tasks posted to handler_
    upQueue,                \* queue_down_end_ of each connection: payloads
    hciWire,                \* fragments handed to the HCI queue end, in order
    fault                   \* "none", or the ASSERT / crash that ended the process

schedVars == <<aclQueueHandlers, fragmentsToSend, credits, enqueueRegistered,
               startingPoint, pendingStartRoundRobin, upQueue, hciWire, fault>>

Payload == [pid : Nat, len : Nat]
Fragment == [handle : Handles, connection_type : ConnectionType,
             pb : {FIRST, CONTINUING}, pid : Nat, size : Nat]
QueueHandler == [connection_type_ : ConnectionType,
                 dequeue_is_registered_ : BOOLEAN,
                 number_of_sent_packets_ : 0..65535,
                 is_disconnected_ : BOOLEAN]

SchedTypeOK ==
    /\ \E D \in SUBSET Handles : aclQueueHandlers \in [D -> QueueHandler]
    /\ fragmentsToSend \in Seq(Fragment)
    /\ credits \in [ConnectionType -> 0..65535]
    /\ enqueueRegistered \in BOOLEAN
    /\ startingPoint \in Handles \cup {End, Singular, PastEnd}
    /\ pendingStartRoundRobin \in Nat
    /\ upQueue \in [Handles -> Seq(Payload)]
    /\ hciWire \in Seq(Fragment)
    /\ fault \in {"none", "credits_exhausted", "credits_above_max",
                  "unregister_unknown", "invalid_iterator"}

-----------------------------------------------------------------------------
(* Fragmentation (AclFragmenter, gd/hci/acl_fragmenter.h): MTU-sized pieces, *)
(* the remainder last.                                                      *)
RECURSIVE AclFragmenter(_, _)
AclFragmenter(len, mtu) ==
    IF len <= mtu THEN <<len>> ELSE <<mtu>> \o AclFragmenter(len - mtu, mtu)

\* Mutant: packet_boundary_flag is never switched to CONTINUING_FRAGMENT.
AclFragmentsAllFirst(h, type, packet) ==
    LET sizes == IF packet.len <= HciMtu[type] THEN <<packet.len>>
                 ELSE AclFragmenter(packet.len, HciMtu[type])
    IN [i \in 1..Len(sizes) |->
          [handle |-> h, connection_type |-> type, pb |-> FIRST,
           pid |-> packet.pid, size |-> sizes[i]]]

\* Mutant: the push loop stops after the first fragment.
AclFragmentsFirstOnly(h, type, packet) ==
    [i \in {1} |->
       [handle |-> h, connection_type |-> type, pb |-> FIRST, pid |-> packet.pid,
        size |-> Head(AclFragmenter(packet.len, HciMtu[type]))]]

\* The fragments BufferPacket pushes for one payload of connection h.
AclFragments(h, type, packet) ==
    LET mtu == HciMtu[type]
        sizes == IF packet.len <= mtu THEN <<packet.len>>
                 ELSE AclFragmenter(packet.len, mtu)
    IN [i \in 1..Len(sizes) |->
          [handle |-> h, connection_type |-> type,
           pb |-> IF i = 1 THEN FIRST ELSE CONTINUING,
           pid |-> packet.pid, size |-> sizes[i]]]

\* Mutant of std::next: the next handle value rather than the next key.
SuccessorNextHandleValue(m, it) == it + 1

\* begin() and std::next() of the ordered std::map
Begin(m) == IF DOMAIN m = {} THEN End ELSE Min(DOMAIN m)
Successor(m, it) ==
    LET later == {k \in DOMAIN m : k > it}
    IN IF later = {} THEN End ELSE Min(later)

-----------------------------------------------------------------------------
Init ==
    /\ aclQueueHandlers = <<>>
    /\ fragmentsToSend = <<>>
    /\ credits = MaxAclPacketCredits
    /\ enqueueRegistered = FALSE
    /\ startingPoint = Singular
    /\ pendingStartRoundRobin = 0
    /\ upQueue = [h \in Handles |-> <<>>]
    /\ hciWire = <<>>
    /\ fault = "none"

\* SendNextFragment: register the enqueue callback unless it already is.
SendNextFragment == enqueueRegistered' = TRUE

(***************************************************************************)
(* StartRoundRobin, called with the map m and the credits cred that the     *)
(* calling method has just produced (the caller primes credits itself).     *)
(* The registration loop visits every entry once, whatever the start, and   *)
(* registers the dequeue of every entry not yet registered.                 *)
(***************************************************************************)
RoundRobinNoCredits(m, cred) ==
    /\ cred["CLASSIC"] = 0 /\ cred["LE"] = 0
    /\ aclQueueHandlers' = m
    /\ UNCHANGED <<startingPoint, enqueueRegistered, fault>>

RoundRobinResumeSending(m, cred) ==
    /\ ~(cred["CLASSIC"] = 0 /\ cred["LE"] = 0)
    /\ fragmentsToSend # <<>>
    /\ aclQueueHandlers' = m
    /\ SendNextFragment
    /\ UNCHANGED <<startingPoint, fault>>

RoundRobinRegisterAll(m, cred) ==
    /\ ~(cred["CLASSIC"] = 0 /\ cred["LE"] = 0)
    /\ fragmentsToSend = <<>>
    /\ LET first == IF Cardinality(DOMAIN m) = 1 \/ startingPoint = End
                    THEN Begin(m) ELSE startingPoint
       IN \/ /\ first \in DOMAIN m
             /\ aclQueueHandlers' =
                  [k \in DOMAIN m |-> [m[k] EXCEPT !.dequeue_is_registered_ = TRUE]]
             /\ startingPoint' = Successor(m, first)
             /\ UNCHANGED fault
          \/ /\ DOMAIN m = {}          \* empty loop, then std::next(end())
             /\ aclQueueHandlers' = m
             /\ startingPoint' = PastEnd
             /\ UNCHANGED fault
          \/ /\ first \in {Singular, PastEnd} /\ DOMAIN m # {}
             /\ aclQueueHandlers' = m  \* dereferencing an invalid iterator
             /\ fault' = "invalid_iterator"
             /\ UNCHANGED startingPoint
    /\ UNCHANGED enqueueRegistered

\* Mutant: the early return on a non-empty fragments_to_send_ is dropped.
StartRoundRobinNoFifoCheck(m, cred) ==
    \/ RoundRobinNoCredits(m, cred)
    \/ /\ ~(cred["CLASSIC"] = 0 /\ cred["LE"] = 0)
       /\ fragmentsToSend # <<>>
       /\ aclQueueHandlers' = [k \in DOMAIN m |-> [m[k] EXCEPT !.dequeue_is_registered_ = TRUE]]
       /\ startingPoint' = Successor(m, IF Cardinality(DOMAIN m) = 1 \/ startingPoint = End
                                       THEN Begin(m) ELSE startingPoint)
       /\ UNCHANGED <<enqueueRegistered, fault>>
    \/ RoundRobinRegisterAll(m, cred)

StartRoundRobin(m, cred) ==
    \/ RoundRobinNoCredits(m, cred)
    \/ RoundRobinResumeSending(m, cred)
    \/ RoundRobinRegisterAll(m, cred)

NewQueueHandler(type) ==
    [connection_type_ |-> type, dequeue_is_registered_ |-> FALSE,
     number_of_sent_packets_ |-> 0, is_disconnected_ |-> FALSE]

-----------------------------------------------------------------------------
(* Register: insert (std::map::insert keeps an existing entry), then start  *)
(* the round robin if no fragment is queued.                                *)
Register(type, h) ==
    /\ fault = "none"
    /\ LET m == IF h \in DOMAIN aclQueueHandlers THEN aclQueueHandlers
                ELSE aclQueueHandlers @@ (h :> NewQueueHandler(type))
       IN IF fragmentsToSend = <<>>
          THEN StartRoundRobin(m, credits)
          ELSE /\ aclQueueHandlers' = m
               /\ UNCHANGED <<startingPoint, enqueueRegistered, fault>>
    /\ UNCHANGED <<fragmentsToSend, credits, pendingStartRoundRobin, upQueue, hciWire>>

(* Unregister: ASSERT the handle is known, erase it, rewind the cursor.     *)
Unregister(h) ==
    /\ fault = "none"
    /\ \/ /\ h \notin DOMAIN aclQueueHandlers
          /\ fault' = "unregister_unknown"
          /\ UNCHANGED <<aclQueueHandlers, startingPoint>>
       \/ /\ h \in DOMAIN aclQueueHandlers
          /\ aclQueueHandlers' = [k \in DOMAIN aclQueueHandlers \ {h} |-> aclQueueHandlers[k]]
          /\ startingPoint' = Begin(aclQueueHandlers')
          /\ UNCHANGED fault
    /\ UNCHANGED <<fragmentsToSend, credits, enqueueRegistered,
                   pendingStartRoundRobin, upQueue, hciWire>>

(***************************************************************************)
(* SetDisconnect: `auto acl_queue_handler = ...find(handle)->second` takes a *)
(* COPY of the entry.  Setting is_disconnected_ and clearing                *)
(* number_of_sent_packets_ on the copy leaves the map as it was; only the   *)
(* reclaim into the credit counter has an effect.                           *)
(***************************************************************************)
SetDisconnect(h) ==
    /\ fault = "none"
    /\ h \in DOMAIN aclQueueHandlers
    /\ LET entry == aclQueueHandlers[h]
       IN credits' = [credits EXCEPT ![entry.connection_type_] =
                                       U16(@ + entry.number_of_sent_packets_)]
    /\ UNCHANGED <<aclQueueHandlers, fragmentsToSend, enqueueRegistered, startingPoint,
                   pendingStartRoundRobin, upQueue, hciWire, fault>>

(***************************************************************************)
(* BufferPacket: the dequeue callback of connection h, run by the reactor   *)
(* when its queue holds a payload.  Fragment, push, unregister every        *)
(* dequeue, count fragments_to_send_.size() as sent by h, SendNextFragment. *)
(***************************************************************************)
\* Mutant: one packet counted per payload, not per fragment.
CountSentOnePerPayload(n, fifo) == U16(n + 1)
\* number_of_sent_packets_ += fragments_to_send_.size()
CountSent(n, fifo) == U16(n + Len(fifo))

BufferPacket(h) ==
    /\ fault = "none"
    /\ h \in DOMAIN aclQueueHandlers
    /\ aclQueueHandlers[h].dequeue_is_registered_
    /\ upQueue[h] # <<>>
    /\ LET type == aclQueueHandlers[h].connection_type_
           fifo == fragmentsToSend \o AclFragments(h, type, Head(upQueue[h]))
       IN /\ fragmentsToSend' = fifo
          /\ aclQueueHandlers' =
               [k \in DOMAIN aclQueueHandlers |->
                  [aclQueueHandlers[k] EXCEPT
                     !.dequeue_is_registered_ = FALSE,
                     !.number_of_sent_packets_ = IF k = h THEN CountSent(@, fifo) ELSE @]]
    /\ upQueue' = [upQueue EXCEPT ![h] = Tail(@)]
    /\ SendNextFragment
    /\ UNCHANGED <<credits, startingPoint, pendingStartRoundRobin, hciWire, fault>>

(***************************************************************************)
(* HandleEnqueueNextFragment: the HCI queue end pulls one fragment.         *)
(* ASSERT a credit of the fragment's type, take it, pop.  An emptied FIFO   *)
(* unregisters the enqueue and posts StartRoundRobin; a next fragment whose *)
(* pool is empty unregisters the enqueue.                                   *)
(***************************************************************************)
\* Mutant: the credit of the sent fragment is not taken.
TakeNoCredit(cred, type) == cred
\* acl_packet_credits_ -= 1 or le_acl_packet_credits_ -= 1
TakeCredit(cred, type) == [cred EXCEPT ![type] = @ - 1]

\* Mutant: the enqueue stays registered whatever the next fragment's pool.
KeepEnqueueAlways(cred, next) == TRUE
\* the enqueue stays registered unless the next fragment's pool is empty
KeepEnqueue(cred, next) == cred[next.connection_type] # 0

HandleEnqueueNextFragment ==
    /\ fault = "none"
    /\ enqueueRegistered
    /\ fragmentsToSend # <<>>
    /\ LET frag == Head(fragmentsToSend)
           rest == Tail(fragmentsToSend)
       IN \/ /\ credits[frag.connection_type] = 0
             /\ fault' = "credits_exhausted"
             /\ UNCHANGED <<credits, fragmentsToSend, hciWire, enqueueRegistered,
                            pendingStartRoundRobin>>
          \/ /\ credits[frag.connection_type] > 0
             /\ credits' = TakeCredit(credits, frag.connection_type)
             /\ fragmentsToSend' = rest
             /\ hciWire' = Append(hciWire, frag)
             /\ \/ /\ rest = <<>>
                   /\ enqueueRegistered' = FALSE
                   /\ pendingStartRoundRobin' = pendingStartRoundRobin + 1
                \/ /\ rest # <<>>
                   /\ enqueueRegistered' = KeepEnqueue(credits', Head(rest))
                   /\ UNCHANGED pendingStartRoundRobin
             /\ UNCHANGED fault
    /\ UNCHANGED <<aclQueueHandlers, startingPoint, upQueue>>

(* The StartRoundRobin task posted by HandleEnqueueNextFragment runs.       *)
RunPostedStartRoundRobin ==
    /\ fault = "none"
    /\ pendingStartRoundRobin > 0
    /\ pendingStartRoundRobin' = pendingStartRoundRobin - 1
    /\ StartRoundRobin(aclQueueHandlers, credits)
    /\ UNCHANGED <<fragmentsToSend, credits, upQueue, hciWire>>

(***************************************************************************)
(* IncomingAclCredits: the completed-packets callback.  Unknown or          *)
(* disconnected handles are dropped.  Otherwise move the credits back,      *)
(* ASSERT both pools within their maxima, and restart if a pool now equals  *)
(* the returned count (it was empty before).                                *)
(***************************************************************************)
\* Mutants of the credit return: one credit per event whatever its count;
\* no restart when a pool was empty.
ReturnOneCredit(cred, type, c) == [cred EXCEPT ![type] = U16(@ + 1)]
RestartsNever(cred, c) == FALSE

\* acl_packet_credits_ += credits or le_acl_packet_credits_ += credits
ReturnCredits(cred, type, c) == [cred EXCEPT ![type] = U16(@ + c)]
\* a pool equals the returned count: it was empty before the return
RestartsRoundRobin(cred, c) == cred["CLASSIC"] = c \/ cred["LE"] = c

\* the handle is known and not marked disconnected
AcceptsCredits(h) ==
    h \in DOMAIN aclQueueHandlers /\ ~aclQueueHandlers[h].is_disconnected_

IncomingAclCredits(h, c) ==
    /\ fault = "none"
    /\ \/ /\ ~AcceptsCredits(h)
          /\ UNCHANGED <<aclQueueHandlers, credits, startingPoint, enqueueRegistered, fault>>
       \/ /\ AcceptsCredits(h)
          /\ LET type == aclQueueHandlers[h].connection_type_
                 m == [aclQueueHandlers EXCEPT ![h].number_of_sent_packets_ = U16(@ - c)]
                 cred == ReturnCredits(credits, type, c)
             IN /\ credits' = cred
                /\ \/ /\ \E t \in ConnectionType : cred[t] > MaxAclPacketCredits[t]
                      /\ aclQueueHandlers' = m
                      /\ fault' = "credits_above_max"
                      /\ UNCHANGED <<startingPoint, enqueueRegistered>>
                   \/ /\ \A t \in ConnectionType : cred[t] <= MaxAclPacketCredits[t]
                      /\ RestartsRoundRobin(cred, c)
                      /\ StartRoundRobin(m, cred)
                   \/ /\ \A t \in ConnectionType : cred[t] <= MaxAclPacketCredits[t]
                      /\ ~RestartsRoundRobin(cred, c)
                      /\ aclQueueHandlers' = m
                      /\ UNCHANGED <<startingPoint, enqueueRegistered, fault>>
    /\ UNCHANGED <<fragmentsToSend, pendingStartRoundRobin, upQueue, hciWire>>

=============================================================================
