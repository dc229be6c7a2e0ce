----------------------- MODULE MC_ClassicSecurityFacade -----------------------
(* Two gRPC workers of the security facade as model values.                  *)
EXTENDS ClassicSecurityFacade

CONSTANTS w1, w2

MC_Threads == {w1, w2}

=============================================================================
