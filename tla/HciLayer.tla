------------------------------- MODULE HciLayer -------------------------------
(***************************************************************************)
(* The command pipeline of hci::HciLayer (gd/hci/hci_layer.h declares      *)
(* EnqueueCommand; hci_layer.cc is not in this repository, so the pipeline *)
(* follows spec.md 4.2).  Commands wait in a FIFO and are issued one at a *)
(* time (spec.md 3, "HCI command slot", and 4.2): the oldest is sent when   *)
(* no command is outstanding and the host holds a command credit, and       *)
(* sending costs the credit.  The controller answers each command with a   *)
(* Command Complete or a Command Status, as its opcode calls for, carrying *)
(* Num_HCI_Command_Packets, the number of commands it can take now; the    *)
(* layer's handler treats both kinds alike: it sets its credit to that     *)
(* number, pairs the reply with the outstanding command and posts it to    *)
(* the submitter's handler.  Which kind a command gets is the submitter's  *)
(* business (ClassicSecurityFacade).                                        *)
(*                                                                          *)
(* The controller is cooperative (spec.md 5: commands carry no timeout):   *)
(* it answers with the opcode and the reply kind of the command answered,  *)
(* so the opcode- and kind-mismatch paths are never taken and are left     *)
(* out, and it always reports room for one command or more.  The HAL       *)
(* transport is a FIFO in each direction.                                  *)
(***************************************************************************)
EXTENDS Integers, Sequences, SequencesExt

CONSTANTS
    CtrlCap,         \* commands the controller can hold
    InitialCredits   \* the command credit before the first reply (spec: 1)

ASSUME CtrlCap \in Nat \ {0} /\ InitialCredits \in 1..CtrlCap

VARIABLES
    hciQueue,     \* commands enqueued and not yet sent, oldest first
    credits,      \* command_credits: commands the host may send
    outstanding,  \* commands sent whose reply the layer has not handled
    evtQ,         \* replies on the HAL event channel: [cmd, n]
    replyQ        \* replies posted to the submitter's handler

hciVars == <<hciQueue, credits, outstanding, evtQ, replyQ>>

\* the controller answered the first Len(evtQ) outstanding commands; it
\* still holds the others
CtrlHeld == Len(outstanding) - Len(evtQ)

HciInit ==
    /\ hciQueue = <<>>
    /\ credits = InitialCredits
    /\ outstanding = <<>>
    /\ evtQ = <<>>
    /\ replyQ = <<>>

\* mutant: a command is queued ahead of the earlier ones
EnqueueCommandLifo(c) == hciQueue' = <<c>> \o hciQueue

\* EnqueueCommand(command, on_complete, handler): the command is queued on
\* the layer's handler behind the earlier ones
EnqueueCommand(c) == hciQueue' = Append(hciQueue, c)

-----------------------------------------------------------------------------
\* mutant: the command slot is left out; only the credit holds commands back
SendCommandNoSlot ==
    /\ hciQueue # <<>>
    /\ credits > 0
    /\ outstanding' = Append(outstanding, Head(hciQueue))
    /\ hciQueue' = Tail(hciQueue)
    /\ credits' = credits - 1
    /\ UNCHANGED <<evtQ, replyQ>>

(* With the slot free and a credit, the oldest queued command goes to the  *)
(* HAL and the credit is spent.                                             *)
SendCommand ==
    /\ hciQueue # <<>>
    /\ outstanding = <<>>
    /\ credits > 0
    /\ outstanding' = Append(outstanding, Head(hciQueue))
    /\ hciQueue' = Tail(hciQueue)
    /\ credits' = credits - 1
    /\ UNCHANGED <<evtQ, replyQ>>

(* The controller answers the oldest command it holds (Command Complete or *)
(* Command Status) and reports how many it can take now: at most its free  *)
(* room, at least one.                                                      *)
ControllerComplete ==
    /\ CtrlHeld > 0
    /\ \E n \in 1..(CtrlCap - (CtrlHeld - 1)) :
          evtQ' = Append(evtQ, [cmd |-> outstanding[Len(evtQ) + 1], n |-> n])
    /\ UNCHANGED <<hciQueue, credits, outstanding, replyQ>>

\* mutant: the reply's Num_HCI_Command_Packets is added to the credit
HandleReplyAddCredits ==
    /\ evtQ # <<>>
    /\ credits' = credits + Head(evtQ).n
    /\ replyQ' = Append(replyQ, Head(outstanding))
    /\ outstanding' = Tail(outstanding)
    /\ evtQ' = Tail(evtQ)
    /\ UNCHANGED hciQueue

\* mutant: the credit is left as it was
HandleReplyKeepCredits ==
    /\ evtQ # <<>>
    /\ replyQ' = Append(replyQ, Head(outstanding))
    /\ outstanding' = Tail(outstanding)
    /\ evtQ' = Tail(evtQ)
    /\ UNCHANGED <<hciQueue, credits>>

(* A reply on the layer's handler: the credit becomes the reply's         *)
(* Num_HCI_Command_Packets, the reply is paired with the oldest            *)
(* outstanding command and posted to the handler its submitter gave.       *)
HandleReply ==
    /\ evtQ # <<>>
    /\ credits' = Head(evtQ).n
    /\ replyQ' = Append(replyQ, Head(outstanding))
    /\ outstanding' = Tail(outstanding)
    /\ evtQ' = Tail(evtQ)
    /\ UNCHANGED hciQueue

\* the layer's and the controller's own steps; submitters add theirs
HciStep == SendCommand \/ ControllerComplete \/ HandleReply

(* The layer's handler runs what it is posted; the controller answers the  *)
(* commands it holds (spec.md 5: a cooperative controller).                *)
HciFairness ==
    WF_hciVars(SendCommand) /\ WF_hciVars(ControllerComplete) /\ WF_hciVars(HandleReply)

-----------------------------------------------------------------------------
(* Spec.md 8, "exactly one outstanding command per controller command      *)
(* credit": the host's credit never promises more commands than the        *)
(* controller has room for.  A reply's Num_HCI_Command_Packets counts the   *)
(* room when the controller answered; had the host sent another command    *)
(* since, setting the credit to it would over-promise, and the command     *)
(* slot is what rules that out.                                            *)
CreditWithinControllerRoom == credits <= CtrlCap - CtrlHeld

=============================================================================
