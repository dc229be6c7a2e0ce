---------------------------- MODULE GrpcRootServer ----------------------------
(***************************************************************************)
(* RootFacadeService (gd/facade/grpc_root_server.cc) composed with the      *)
(* ModuleRegistry it drives.  StartStack and StopStack run on the gRPC      *)
(* server's worker threads, RpcThreads; each handler is split where another *)
(* thread may run: at the unlocked read of is_running_, while the stack     *)
(* manager's Start or StopAll runs on the stack thread (the registry's own  *)
(* steps), and at the join of the gRPC loop thread.                         *)
(*                                                                          *)
(* StackManager and GrpcModule are not part of this repository; they are    *)
(* modelled by the registry calls they make and by GrpcModule's serving     *)
(* flag.  A registry call from a second thread while a Start or StopAll is  *)
(* under way is a data race on started_modules_: the model ends there.      *)
(***************************************************************************)
EXTENDS ModuleRegistry

CONSTANTS
    RpcThreads,   \* worker threads of the gRPC server
    Null          \* a pointer member that points nowhere

ASSUME Null \notin RpcThreads

VARIABLES
    isRunning,     \* is_running_
    pc,            \* where each worker is in its handler
    stackThread,   \* stack_thread_: the Thread allocated by a worker's StartStack
    liveThreads,   \* stack Thread objects allocated and not deleted
    loopThread,    \* grpc_loop_thread_: the std::thread a worker's StartStack created
    joinable,      \* loop threads not yet joined
    serving,       \* GrpcModule's server is started
    rootFault      \* "none" or what ended the process

rootVars == <<isRunning, pc, stackThread, liveThreads, loopThread, joinable,
              serving, rootFault>>
allVars == <<regVars, rootVars>>

PcValues == {"idle", "start_wait", "stop_join", "stop_wait"}

RootTypeOK ==
    /\ RegTypeOK
    /\ isRunning \in BOOLEAN
    /\ pc \in [RpcThreads -> PcValues]
    /\ stackThread \in RpcThreads \cup {Null}
    /\ liveThreads \subseteq RpcThreads
    /\ loopThread \in RpcThreads \cup {Null}
    /\ joinable \subseteq RpcThreads
    /\ serving \in BOOLEAN
    /\ rootFault \in {"none", "registry_race", "not_started", "join_unjoinable",
                      "double_delete", "server_started"}

RootInit ==
    /\ RegInit
    /\ isRunning = FALSE
    /\ pc = [t \in RpcThreads |-> "idle"]
    /\ stackThread = Null
    /\ liveThreads = {}
    /\ loopThread = Null
    /\ joinable = {}
    /\ serving = FALSE
    /\ rootFault = "none"

NoFault == rootFault = "none" /\ regFault = "none"

-----------------------------------------------------------------------------
(* StartStack up to StackManager::StartUp: is_running_ is false, the module *)
(* list of the module under test is built, stack_thread_ = new Thread, and  *)
(* the registry's Start(list) is posted to it.  A request with             *)
(* is_running_ set, or naming no known module, is answered with an error    *)
(* and changes nothing.                                                     *)
StartStack(t, list) ==
    /\ NoFault
    /\ pc[t] = "idle"
    /\ ~isRunning
    /\ stackThread' = t
    /\ liveThreads' = liveThreads \cup {t}
    /\ pc' = [pc EXCEPT ![t] = "start_wait"]
    /\ IF phase = "down"
       THEN StartList(list) /\ UNCHANGED rootFault
       ELSE rootFault' = "registry_race" /\ UNCHANGED regVars
    /\ UNCHANGED <<isRunning, loopThread, joinable, serving>>

(* StartUp has returned: GetInstance<GrpcModule> (Get: ASSERT started),     *)
(* StartServer, the loop thread running RunGrpcLoop, is_running_ = true.    *)
StartStackServe(t) ==
    /\ NoFault
    /\ pc[t] = "start_wait"
    /\ phase = "up"
    /\ pc' = [pc EXCEPT ![t] = "idle"]
    /\ CASE ~IsStarted("GrpcModule") ->
                rootFault' = "not_started" /\ UNCHANGED <<isRunning, loopThread, joinable, serving>>
         [] serving ->
                rootFault' = "server_started" /\ UNCHANGED <<isRunning, loopThread, joinable, serving>>
         [] OTHER ->
                /\ serving' = TRUE
                /\ loopThread' = t
                /\ joinable' = joinable \cup {t}
                /\ isRunning' = TRUE
                /\ UNCHANGED rootFault
    /\ UNCHANGED <<regVars, stackThread, liveThreads>>

(* StopStack: is_running_ is true; GetInstance<GrpcModule>()->StopServer()  *)
(* shuts the server down, which ends RunGrpcLoop.                           *)
StopStack(t) ==
    /\ NoFault
    /\ pc[t] = "idle"
    /\ isRunning
    /\ pc' = [pc EXCEPT ![t] = "stop_join"]
    /\ IF IsStarted("GrpcModule")
       THEN serving' = FALSE /\ UNCHANGED rootFault
       ELSE rootFault' = "not_started" /\ UNCHANGED serving
    /\ UNCHANGED <<regVars, isRunning, stackThread, liveThreads, loopThread, joinable>>

\* mutant: the loop thread is never joined
JoinNothing == joinable

\* grpc_loop_thread_->join(): the thread is no longer joinable
JoinLoop == joinable \ {loopThread}

(* grpc_loop_thread_->join(), then stack_manager_.ShutDown() posts StopAll. *)
(* Joining a thread already joined throws and terminates the process.       *)
StopStackShutDown(t) ==
    /\ NoFault
    /\ pc[t] = "stop_join"
    /\ pc' = [pc EXCEPT ![t] = "stop_wait"]
    /\ CASE loopThread \notin joinable ->
                rootFault' = "join_unjoinable" /\ UNCHANGED <<regVars, joinable>>
         [] phase # "up" ->
                rootFault' = "registry_race" /\ UNCHANGED <<regVars, joinable>>
         [] OTHER ->
                /\ joinable' = JoinLoop
                /\ StopAllBegin
                /\ UNCHANGED rootFault
    /\ UNCHANGED <<isRunning, stackThread, liveThreads, loopThread, serving>>

(* ShutDown has returned: delete stack_thread_ (left dangling), and         *)
(* is_running_ = false.                                                     *)
StopStackDone(t) ==
    /\ NoFault
    /\ pc[t] = "stop_wait"
    /\ phase = "down"
    /\ pc' = [pc EXCEPT ![t] = "idle"]
    /\ isRunning' = FALSE
    /\ IF stackThread \in liveThreads
       THEN liveThreads' = liveThreads \ {stackThread} /\ UNCHANGED rootFault
       ELSE rootFault' = "double_delete" /\ UNCHANGED liveThreads
    /\ UNCHANGED <<regVars, stackThread, loopThread, joinable, serving>>

\* the registry's steps on the stack thread, between the calls above
RegistryStep ==
    /\ rootFault = "none"
    /\ \/ StartExisting \/ StartConstruct \/ StartInstance \/ StartListDone
       \/ StopOne \/ StopAllDone
    /\ UNCHANGED rootVars

RootNext ==
    \/ \E t \in RpcThreads, list \in ModuleLists : StartStack(t, list)
    \/ \E t \in RpcThreads : StartStackServe(t) \/ StopStack(t)
                             \/ StopStackShutDown(t) \/ StopStackDone(t)
    \/ RegistryStep

(* A worker that has begun a handler runs it on; the stack thread runs the  *)
(* posted registry work.  Clients issue requests at will: no fairness.      *)
RootFairness ==
    /\ \A t \in RpcThreads : WF_allVars(StartStackServe(t)) /\ WF_allVars(StopStackShutDown(t))
                             /\ WF_allVars(StopStackDone(t))
    /\ WF_allVars(RegistryStep)

RootSpec == RootInit /\ [][RootNext]_allVars /\ RootFairness

-----------------------------------------------------------------------------
(* No ASSERT fires and no thread is joined or deleted twice: neither the    *)
(* registry's, nor Get in GetInstance, nor a second concurrent Start or     *)
(* StopAll on the registry, which is not thread-safe.                       *)
RootNoAbort == NoFault

Quiet == \A t \in RpcThreads : pc[t] = "idle"

(* Between requests, is_running_ tells the truth about the whole stack: when *)
(* set, the registry is up, GrpcModule serves, stack_thread_ is a live       *)
(* Thread and the loop thread is still to be joined; when clear, the         *)
(* registry is empty and no Thread or loop thread is left behind.           *)
StackStateConsistent ==
    Quiet /\ NoFault =>
        IF isRunning
        THEN /\ phase = "up" /\ serving
             /\ liveThreads = {stackThread} /\ joinable = {loopThread}
        ELSE /\ phase = "down" /\ started = {} /\ ~serving
             /\ liveThreads = {} /\ joinable = {}

(* Every StartStack or StopStack that passed the is_running_ check returns: *)
(* the registry's recursion and StopAll loop end and the stack manager's     *)
(* wait is answered.                                                         *)
RequestsComplete ==
    \A t \in RpcThreads : pc[t] # "idle" ~> pc[t] = "idle"

=============================================================================
