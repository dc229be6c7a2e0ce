---------------------------- MODULE MC_AclDataPath ----------------------------
(* Instances of the ACL data path for TLC.  Controller parameters are small *)
(* enough to exhaust and large enough that a payload is cut in two (length *)
(* 3 over MTU 2) and that credits run out (two buffers, three payloads).    *)
EXTENDS AclDataPath

\* a classic-only controller: no LE buffers, two classic buffers, MTU 2
MC_ClassicCredits == [t \in ConnectionType |-> IF t = "CLASSIC" THEN 2 ELSE 0]
\* a dual-mode controller: one buffer of each kind
MC_DualCredits == [t \in ConnectionType |-> 1]
MC_Mtu == [t \in ConnectionType |-> 2]

=============================================================================
