--------------------------- MODULE MC_GrpcRootServer ---------------------------
(* The module graph of the facade stacks GrpcRootServer::StartStack brings   *)
(* up.  The facades' lists are those of their ListDependencies (facade.cc     *)
(* 274-279 and 571-576, GrpcFacadeModule adding GrpcModule); the modules      *)
(* below them follow the layering HAL -> HCI layer -> Controller -> ACL       *)
(* manager -> L2CAP.  HciLayer and Controller are reached along several      *)
(* paths.                                                                     *)
EXTENDS GrpcRootServer

MC_Modules == {"GrpcModule", "HciHal", "HciLayer", "Controller", "AclManager",
               "ClassicSecurityManager", "AclManagerFacade",
               "ClassicSecurityManagerFacade", "HciHalFacade",
               "L2capClassicModule", "L2capModuleFacade"}

\* AclManagerFacadeModule::ListDependencies
AclManagerFacadeDeps == <<"GrpcModule", "AclManager", "Controller", "HciLayer">>

\* ClassicSecurityManagerFacadeModule::ListDependencies
ClassicSecurityManagerFacadeDeps ==
    <<"GrpcModule", "ClassicSecurityManager", "Controller", "HciLayer">>

MC_Deps ==
    [m \in MC_Modules |->
        CASE m = "GrpcModule"                   -> <<>>
          [] m = "HciHal"                       -> <<>>
          [] m = "HciLayer"                     -> <<"HciHal">>
          [] m = "Controller"                   -> <<"HciLayer">>
          [] m = "AclManager"                   -> <<"HciLayer", "Controller">>
          [] m = "ClassicSecurityManager"       -> <<"HciLayer", "Controller">>
          [] m = "AclManagerFacade"             -> AclManagerFacadeDeps
          [] m = "ClassicSecurityManagerFacade" -> ClassicSecurityManagerFacadeDeps
          [] m = "HciHalFacade"                 -> <<"GrpcModule", "HciHal">>
          [] m = "L2capClassicModule"           ->
                <<"HciLayer", "Controller", "AclManager">>
          [] m = "L2capModuleFacade"            ->
                <<"GrpcModule", "L2capClassicModule">>]

\* StartStack's lists for BluetoothModule::HAL, HCI and L2CAP
MC_ModuleLists == {<<"GrpcModule", "HciHalFacade">>,
                   <<"GrpcModule", "AclManagerFacade", "ClassicSecurityManagerFacade">>,
                   <<"GrpcModule", "L2capModuleFacade">>}

=============================================================================
