--------------------------- MODULE HciCommandChannel ---------------------------
(***************************************************************************)
(* What the HCI layer promises a module that submits commands (spec.md     *)
(* sections 5 and 6): every command submitted is answered by exactly one   *)
(* reply, replies are posted to the submitter's handler in the order the   *)
(* commands were submitted, and the handler takes them in that order.      *)
(* How many commands the controller accepts at once is not visible here.   *)
(***************************************************************************)
EXTENDS Sequences

CONSTANT Commands   \* what a submitter may hand over

VARIABLES
    pending,   \* commands submitted and not yet answered, oldest first
    replies    \* replies posted to the submitter's handler, not yet run

chanVars == <<pending, replies>>

ChanInit == pending = <<>> /\ replies = <<>>

\* EnqueueCommand
Submit(c) ==
    /\ pending' = Append(pending, c)
    /\ UNCHANGED replies

\* the oldest pending command is answered
Answer ==
    /\ pending # <<>>
    /\ pending' = Tail(pending)
    /\ replies' = Append(replies, Head(pending))

\* the submitter's handler runs the oldest reply
Consume ==
    /\ replies # <<>>
    /\ replies' = Tail(replies)
    /\ UNCHANGED pending

ChanNext == (\E c \in Commands : Submit(c)) \/ Answer \/ Consume

(* A submitted command is answered: the layer does not stall while it has  *)
(* commands; the submitter's handler runs what is posted to it.            *)
ChanSpec == ChanInit /\ [][ChanNext]_chanVars /\ WF_chanVars(Answer) /\ WF_chanVars(Consume)

=============================================================================
