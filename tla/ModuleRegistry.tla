---------------------------- MODULE ModuleRegistry ----------------------------
(***************************************************************************)
(* ModuleRegistry (gd/module.cc).  Start(list) starts every listed module,  *)
(* and Start(module) first constructs the instance, lists its dependencies  *)
(* and starts them recursively, then calls instance->Start() and records    *)
(* the module in start_order_ and started_modules_.  StopAll walks          *)
(* start_order_ backwards, stopping and deleting each instance.             *)
(*                                                                          *)
(* The recursion is an explicit call stack: a frame is a module whose       *)
(* dependency list is being walked, with the index of the next dependency.  *)
(* The bottom frame is the list passed to Start(list).  One loop iteration  *)
(* of a frame is one step; the registry runs on one thread, so the steps of *)
(* one Start are never interleaved with another registry call.             *)
(***************************************************************************)
EXTENDS Integers, Sequences, SequencesExt, Functions

CONSTANTS
    Modules,      \* module factories
    Deps,         \* [Modules -> Seq(Modules)]: what ListDependencies adds
    ModuleLists,  \* lists a caller may pass to Start(list)
    StackDepth,   \* frames the starting thread's stack holds
    Root          \* the frame of the list passed to Start(list)

ASSUME /\ Deps \in [Modules -> Seq(Modules)]
       /\ ModuleLists \subseteq Seq(Modules)
       /\ StackDepth \in Nat \ {0}
       /\ Root \notin Modules

VARIABLES
    started,     \* DOMAIN started_modules_
    live,        \* constructed and not yet deleted instances of each module
    startOrder,  \* start_order_
    stack,       \* frames of the recursive Start calls
    topList,     \* the list passed to the running Start(list)
    phase,       \* "down", "starting", "up" or "stopping"
    stopCursor,  \* StopAll's reverse iterator into start_order_
    regFault     \* "none" or the ASSERT / crash that ended the process

regVars == <<started, live, startOrder, stack, topList, phase, stopCursor, regFault>>

Frame == [module : Modules \cup {Root}, next : Nat]

RegTypeOK ==
    /\ started \subseteq Modules
    /\ live \in [Modules -> Nat]
    /\ startOrder \in Seq(Modules)
    /\ stack \in Seq(Frame)
    /\ topList \in ModuleLists \cup {<<>>}
    /\ phase \in {"down", "starting", "up", "stopping"}
    /\ stopCursor \in 0..Len(startOrder)
    /\ regFault \in {"none", "not_started", "stack_overflow", "stop_unknown"}

\* mutant: every list is walked from its last element to its first
ListOfReversed(f) == Reverse(IF f.module = Root THEN topList ELSE Deps[f.module])

\* the list a frame walks: Start(list) for the bottom frame, dependencies_ above
ListOf(f) == IF f.module = Root THEN topList ELSE Deps[f.module]

Top == stack[Len(stack)]

\* mutant: the lookup in started_modules_ never finds the module
NeverFound(m) == FALSE

\* started_modules_.find(module) != started_modules_.end()
IsStarted(m) == m \in started

(* instance->Start() fetches each dependency with GetDependency, which finds *)
(* it in dependencies_ and calls Get: ASSERT it is in started_modules_.      *)
DependenciesFound(m) == Range(Deps[m]) \subseteq started

\* mutant: the loop over the list stops one element early
FrameDoneEarly(f) == f.next >= Len(ListOf(f))

\* the for loop over a list has reached list_.end()
FrameDone(f) == f.next > Len(ListOf(f))

\* return from the top frame into the caller's loop: it++
ReturnToCaller ==
    LET s == Front(stack)
    IN [s EXCEPT ![Len(s)].next = @ + 1]

RegInit ==
    /\ started = {}
    /\ live = [m \in Modules |-> 0]
    /\ startOrder = <<>>
    /\ stack = <<>>
    /\ topList = <<>>
    /\ phase = "down"
    /\ stopCursor = 0
    /\ regFault = "none"

-----------------------------------------------------------------------------
(* Start(list, thread): the caller hands over a module list.                *)
StartList(list) ==
    /\ regFault = "none"
    /\ phase = "down"
    /\ phase' = "starting"
    /\ topList' = list
    /\ stack' = <<[module |-> Root, next |-> 1]>>
    /\ UNCHANGED <<started, live, startOrder, stopCursor, regFault>>

(* Start(module) for an already started module returns its instance.      *)
StartExisting ==
    /\ regFault = "none"
    /\ phase = "starting"
    /\ ~FrameDone(Top)
    /\ IsStarted(ListOf(Top)[Top.next])
    /\ stack' = [stack EXCEPT ![Len(stack)].next = @ + 1]
    /\ UNCHANGED <<started, live, startOrder, topList, phase, stopCursor, regFault>>

(* Start(module) for a module not started: ctor_, a new Handler,            *)
(* ListDependencies, and the recursive Start(&dependencies_).               *)
StartConstruct ==
    /\ regFault = "none"
    /\ phase = "starting"
    /\ ~FrameDone(Top)
    /\ LET m == ListOf(Top)[Top.next]
       IN /\ ~IsStarted(m)
          /\ live' = [live EXCEPT ![m] = @ + 1]
          /\ IF Len(stack) < StackDepth
             THEN /\ stack' = Append(stack, [module |-> m, next |-> 1])
                  /\ UNCHANGED regFault
             ELSE /\ regFault' = "stack_overflow"
                  /\ UNCHANGED stack
    /\ UNCHANGED <<started, startOrder, topList, phase, stopCursor>>

(* The dependencies are started: instance->Start() fetches each of them     *)
(* through GetDependency / Get (ASSERT started), then the module is pushed  *)
(* on start_order_ and entered in started_modules_.                         *)
StartInstance ==
    /\ regFault = "none"
    /\ phase = "starting"
    /\ Top.module # Root
    /\ FrameDone(Top)
    /\ LET m == Top.module
       IN IF DependenciesFound(m)
          THEN /\ started' = started \cup {m}
               /\ startOrder' = Append(startOrder, m)
               /\ stack' = ReturnToCaller
               /\ UNCHANGED regFault
          ELSE /\ regFault' = "not_started"
               /\ UNCHANGED <<started, startOrder, stack>>
    /\ UNCHANGED <<live, topList, phase, stopCursor>>

(* Start(list) returns once every listed module is started.                *)
StartListDone ==
    /\ regFault = "none"
    /\ phase = "starting"
    /\ Top.module = Root
    /\ FrameDone(Top)
    /\ stack' = <<>>
    /\ phase' = "up"
    /\ UNCHANGED <<started, live, startOrder, topList, stopCursor, regFault>>

\* mutant: rbegin() one past the last element
RBeginPastEnd == Len(startOrder) + 1

\* start_order_.rbegin(): the cursor counts the elements still to visit
RBegin == Len(startOrder)

(* StopAll begins at start_order_.rbegin().                               *)
StopAllBegin ==
    /\ regFault = "none"
    /\ phase = "up"
    /\ phase' = "stopping"
    /\ stopCursor' = RBegin
    /\ UNCHANGED <<started, live, startOrder, stack, topList, regFault>>

\* mutant: the loop walks start_order_ forwards
StopTargetForward == startOrder[Len(startOrder) - stopCursor + 1]

\* mutant: the loop does not advance its iterator
RNextStuck(c) == c

\* it++ on the reverse iterator
RNext(c) == c - 1

\* *it of the reverse iterator
StopTarget == startOrder[stopCursor]

(* One iteration: ASSERT the module is started, Stop(), delete handler and  *)
(* instance, erase.                                                          *)
StopOne ==
    /\ regFault = "none"
    /\ phase = "stopping"
    /\ stopCursor > 0
    /\ LET m == StopTarget
       IN IF IsStarted(m)
          THEN /\ started' = started \ {m}
               /\ live' = [live EXCEPT ![m] = @ - 1]
               /\ stopCursor' = RNext(stopCursor)
               /\ UNCHANGED regFault
          ELSE /\ regFault' = "stop_unknown"
               /\ UNCHANGED <<started, live, stopCursor>>
    /\ UNCHANGED <<startOrder, stack, topList, phase>>

(* The loop ends: ASSERT(started_modules_.empty()), start_order_.clear().  *)
StopAllDone ==
    /\ regFault = "none"
    /\ phase = "stopping"
    /\ stopCursor = 0
    /\ started = {}
    /\ startOrder' = <<>>
    /\ phase' = "down"
    /\ topList' = <<>>
    /\ UNCHANGED <<started, live, stack, stopCursor, regFault>>

RegNext ==
    \/ \E list \in ModuleLists : StartList(list)
    \/ StartExisting
    \/ StartConstruct
    \/ StartInstance
    \/ StartListDone
    \/ StopAllBegin
    \/ StopOne
    \/ StopAllDone

(* The registry's own steps run to completion on the calling thread.       *)
RegFairness ==
    /\ WF_regVars(StartExisting) /\ WF_regVars(StartConstruct)
    /\ WF_regVars(StartInstance) /\ WF_regVars(StartListDone)
    /\ WF_regVars(StopOne) /\ WF_regVars(StopAllDone)

RegSpec == RegInit /\ [][RegNext]_regVars /\ RegFairness

-----------------------------------------------------------------------------
(* Reference: the start order of the recursive Start(list), as a recursive  *)
(* definition: a module not yet in the order is appended after the order    *)
(* its dependencies produce.                                                *)
RECURSIVE RefStartList(_, _), RefStartModule(_, _)
RefStartList(list, order) ==
    IF list = <<>> THEN order
    ELSE RefStartList(Tail(list), RefStartModule(Head(list), order))
RefStartModule(m, order) ==
    IF m \in Range(order) THEN order
    ELSE Append(RefStartList(Deps[m], order), m)

\* modules with a frame on the call stack: constructed, not yet started
Constructing == {stack[i].module : i \in 1..Len(stack)} \ {Root}

(* No ASSERT of the registry fires: Get finds every dependency that          *)
(* instance->Start() fetches, StopAll finds every module of start_order_,     *)
(* and the recursion stays within the thread's stack.                        *)
RegNoAbort == regFault = "none"

(* While a module is in started_modules_, so is every module it lists: Start *)
(* records a module only after its dependencies, and StopAll, walking        *)
(* start_order_ backwards, removes a module only after every module that     *)
(* depends on it.                                                            *)
DependenciesOutliveDependents ==
    \A m \in started : Range(Deps[m]) \subseteq started

(* A module reached twice (a diamond: two facades on one HciLayer) is        *)
(* constructed once: every live instance is the one started_modules_ holds,  *)
(* or the one whose Start is on the call stack.                              *)
OneLiveInstance ==
    \A m \in Modules :
        live[m] = IF m \in started \cup Constructing THEN 1 ELSE 0

(* When Start(list) returns, start_order_ is the depth-first post-order of   *)
(* the list's dependency graph that the recursive definition gives.          *)
StartOrderMatchesReference ==
    phase = "up" => startOrder = RefStartList(topList, <<>>)

=============================================================================
