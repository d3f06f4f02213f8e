--------------------------- MODULE MCMaintenance ----------------------------
(* Two receiving threads (tunnel socket and discovery socket), two addresses. *)
EXTENDS Maintenance, TLC

CONSTANTS c1, c2, a1, a2

=============================================================================
