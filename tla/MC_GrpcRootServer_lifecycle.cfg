\* One client issuing StartStack and StopStack one at a time, as the test
\* harness does, over the HAL, HCI and L2CAP facade stacks.
SPECIFICATION RootSpec
CONSTANTS
    Modules <- MC_Modules
    Deps <- MC_Deps
    ModuleLists <- MC_ModuleLists
    StackDepth = 8
    Root = Root
    Null = Null
    RpcThreads = {w1}
INVARIANTS
    RootTypeOK
    RootNoAbort
    DependenciesOutliveDependents
    OneLiveInstance
    StartOrderMatchesReference
    StackStateConsistent
PROPERTIES
    RequestsComplete
