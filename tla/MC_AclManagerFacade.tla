------------------------- MODULE MC_AclManagerFacade -------------------------
(* Peers and gRPC workers of the facade as model values.                     *)
EXTENDS AclManagerFacade

CONSTANTS p1, p2, w1, w2

MC_Addrs == {p1, p2}
MC_Threads == {w1, w2}

=============================================================================
