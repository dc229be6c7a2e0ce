------------------------ MODULE ClassicSecurityFacade ------------------------
(***************************************************************************)
(* ClassicSecurityManagerFacadeService (gd/hci/facade.cc 299-569) over the *)
(* HCI command pipeline.  Every RPC runs on a gRPC worker, takes mutex_,    *)
(* hands one command to ClassicSecurityManager and returns, releasing      *)
(* mutex_.  The completion comes back through OnCommandComplete on          *)
(* facade_handler_, which also takes mutex_ and writes the completion to    *)
(* command_complete_stream_.  RefreshEncryptionKey and                      *)
(* AuthenticationRequested issue commands the controller answers with a    *)
(* Command Status; the facade implements no status callback, so their      *)
(* replies end in ClassicSecurityManager and never reach the stream.       *)
(*                                                                          *)
(* ClassicSecurityManager (not in this repository) posts each command to    *)
(* its handler, which enqueues it on the HCI layer with the completion      *)
(* bound to the facade's handler; both hops are FIFOs and are folded into   *)
(* EnqueueCommand.  A command is the RPC group that issued it and its place *)
(* in the order the RPCs took mutex_; addresses, keys and the other request *)
(* fields are left out, and so is the ASSERT on their parsing.  The stream  *)
(* is the sequence of events handed to OnIncomingEvent.                     *)
(***************************************************************************)
EXTENDS HciLayer

CONSTANTS
    RpcThreads,   \* gRPC worker threads
    None,         \* no thread holds mutex_
    MaxCmds       \* bound on the RPCs a client makes

\* the groups of RPCs, by the request fields they convert and the reply
\* their command gets
SecurityRpcs == {"pairing_reply", "stored_link_key", "local", "status_command"}
SecurityCommands == [id : 1..MaxCmds, rpc : SecurityRpcs]

VARIABLES
    mutexOwner,   \* the thread holding mutex_, or None
    issued,       \* commands in the order their RPCs took mutex_ (history)
    stream        \* completions written to command_complete_stream_

secVars == <<hciQueue, credits, outstanding, evtQ, replyQ, mutexOwner, issued, stream>>

SecurityTypeOK ==
    /\ hciQueue \in Seq(SecurityCommands) /\ outstanding \in Seq(SecurityCommands)
    /\ credits \in 0..CtrlCap
    /\ Len(outstanding) <= 1
    /\ evtQ \in Seq([cmd : SecurityCommands, n : 1..CtrlCap])
    /\ replyQ \in Seq(SecurityCommands)
    /\ mutexOwner \in RpcThreads \cup {None}
    /\ issued \in Seq(SecurityCommands) /\ Len(issued) <= MaxCmds
    /\ stream \in Seq(SecurityCommands)

\* the service's constructor registers it for ClassicSecurityManager's
\* callbacks on facade_handler_
SecurityFacadeInit ==
    /\ HciInit
    /\ mutexOwner = None
    /\ issued = <<>>
    /\ stream = <<>>

-----------------------------------------------------------------------------
(* The body every RPC shares: lock mutex_, convert the request, call        *)
(* classic_security_manager_, whose command is enqueued on the HCI layer.  *)
RpcCall(t, rpc) ==
    LET c == [id |-> Len(issued) + 1, rpc |-> rpc]
    IN /\ mutexOwner = None
       /\ Len(issued) < MaxCmds
       /\ mutexOwner' = t
       /\ issued' = Append(issued, c)
       /\ EnqueueCommand(c)
       /\ UNCHANGED <<credits, outstanding, evtQ, replyQ, stream>>

\* LinkKeyRequestReply ... RemoteOobDataRequestNegativeReply: a peer address
\* (and key, PIN, IO capability, passkey or OOB data) to a pairing reply
PairingReplyRpc(t) == RpcCall(t, "pairing_reply")

\* ReadStoredLinkKey, WriteStoredLinkKey, DeleteStoredLinkKey
StoredLinkKeyRpc(t) == RpcCall(t, "stored_link_key")

\* ReadSimplePairingMode ... ReadEncryptionKeySize: a connection handle, a
\* mode, a notification or nothing, to a command answered by Command Complete
LocalCommandRpc(t) == RpcCall(t, "local")

\* RefreshEncryptionKey, AuthenticationRequested: a connection handle to a
\* command answered by Command Status
StatusCommandRpc(t) == RpcCall(t, "status_command")

\* the command's reply is a Command Complete
ExpectsComplete(c) == c.rpc # "status_command"

\* return ::grpc::Status::OK: the unique_lock releases mutex_
RpcReturn(t) ==
    /\ mutexOwner = t
    /\ mutexOwner' = None
    /\ UNCHANGED <<hciVars, issued, stream>>

(* OnCommandComplete on facade_handler_: lock mutex_ (the handler waits    *)
(* while an RPC holds it), command_complete_stream_.OnIncomingEvent.       *)
OnCommandComplete ==
    /\ replyQ # <<>>
    /\ ExpectsComplete(Head(replyQ))
    /\ mutexOwner = None
    /\ stream' = Append(stream, Head(replyQ))
    /\ replyQ' = Tail(replyQ)
    /\ UNCHANGED <<hciQueue, credits, outstanding, evtQ, mutexOwner, issued>>

(* A Command Status is posted to ClassicSecurityManager's status callback,  *)
(* which does not call the facade: the reply leaves without the stream or *)
(* mutex_.                                                                  *)
OnCommandStatus ==
    /\ replyQ # <<>>
    /\ ~ExpectsComplete(Head(replyQ))
    /\ replyQ' = Tail(replyQ)
    /\ UNCHANGED <<hciQueue, credits, outstanding, evtQ, mutexOwner, issued, stream>>

\* the client made its calls and every reply has been handled
Finished ==
    /\ Len(issued) = MaxCmds /\ hciQueue = <<>> /\ outstanding = <<>> /\ replyQ = <<>>
    /\ mutexOwner = None
    /\ UNCHANGED secVars

\* a step of the HCI layer or the controller, which leave the facade alone
HciOnly(A) == A /\ UNCHANGED <<mutexOwner, issued, stream>>

SecurityNext ==
    \/ \E t \in RpcThreads :
          \/ PairingReplyRpc(t) \/ StoredLinkKeyRpc(t) \/ LocalCommandRpc(t)
          \/ StatusCommandRpc(t) \/ RpcReturn(t)
    \/ HciOnly(HciStep)
    \/ OnCommandComplete
    \/ OnCommandStatus
    \/ Finished

(* A worker that holds mutex_ returns (its call only posts); the facade's  *)
(* handler runs what is posted to it; the HCI layer and the controller as  *)
(* in HciFairness.  The client calls at will: no fairness.                 *)
SecurityFairness ==
    /\ \A t \in RpcThreads : WF_secVars(RpcReturn(t))
    /\ WF_secVars(OnCommandComplete) /\ WF_secVars(OnCommandStatus)
    /\ WF_secVars(HciOnly(SendCommand)) /\ WF_secVars(HciOnly(ControllerComplete))
    /\ WF_secVars(HciOnly(HandleReply))

SecuritySpec == SecurityFacadeInit /\ [][SecurityNext]_secVars /\ SecurityFairness

-----------------------------------------------------------------------------
(* Every RPC whose command is answered by Command Complete eventually has  *)
(* its completion on command_complete_stream_, behind any number of status *)
(* commands: no credit is lost in the pipeline, a Command Status frees the *)
(* slot as a Command Complete does, and facade_handler_ is never kept from *)
(* mutex_.                                                                  *)
EveryCallCompleted ==
    \A k \in 1..MaxCmds :
        (IF k <= Len(issued) THEN ExpectsComplete(issued[k]) ELSE FALSE)
            ~> (IF k <= Len(issued) THEN \E i \in DOMAIN stream : stream[i] = issued[k]
                                  ELSE FALSE)

(* The HCI pipeline, as the facade drives it, implements the channel of     *)
(* HciCommandChannel: the commands it still owes an answer are the         *)
(* outstanding ones followed by the queued ones, its replies those posted  *)
(* to facade_handler_; each is answered once, in order, and eventually.    *)
Channel == INSTANCE HciCommandChannel
    WITH Commands <- SecurityCommands, pending <- outstanding \o hciQueue, replies <- replyQ

ChannelRefined == Channel!ChanSpec

=============================================================================
