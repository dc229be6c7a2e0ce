------------------------------ MODULE AclChannel ------------------------------
(***************************************************************************)
(* What the ACL data path promises the upper layer (spec.md 4.3 and 5):    *)
(* every payload enqueued on a connection's queue reaches the controller    *)
(* whole, after the payloads enqueued on that connection before it, and    *)
(* eventually.  Fragmentation, credits and the order between connections   *)
(* are not visible here.                                                   *)
(***************************************************************************)
EXTENDS Sequences

CONSTANTS
    Conns,      \* connection handles
    Payloads    \* what the upper layer may enqueue

VARIABLES
    queued,     \* per connection: payloads enqueued, not yet on the wire
    carried     \* per connection: payloads the wire has carried, in order

acVars == <<queued, carried>>

AclChanInit ==
    /\ queued = [c \in Conns |-> <<>>]
    /\ carried = [c \in Conns |-> <<>>]

Enqueue(c, p) ==
    /\ queued' = [queued EXCEPT ![c] = Append(@, p)]
    /\ UNCHANGED carried

\* the oldest queued payload of c has all of its pieces on the wire
Carry(c) ==
    /\ queued[c] # <<>>
    /\ carried' = [carried EXCEPT ![c] = Append(@, Head(queued[c]))]
    /\ queued' = [queued EXCEPT ![c] = Tail(@)]

AclChanNext == \E c \in Conns : (\E p \in Payloads : Enqueue(c, p)) \/ Carry(c)

AclChanSpec == AclChanInit /\ [][AclChanNext]_acVars /\ \A c \in Conns : WF_acVars(Carry(c))

=============================================================================
