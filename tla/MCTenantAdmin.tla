--------------------------- MODULE MCTenantAdmin ---------------------------
(***************************************************************************)
(* TenantAdmin with one tenant at the start and room for another, and the  *)
(* bodies that make calls collide: the active flag off and on, another     *)
(* column, and one that names an ignored key and a null.                   *)
(***************************************************************************)
EXTENDS TenantAdmin, TLC

CONSTANTS c1, c2, c3, a1, x, y, n1, n2

MCStanding == (x :> n1)
MCBodies ==
    {[is_active |-> "false"],
     [is_active |-> "true", name |-> "text"],
     [description |-> "text"],
     [description |-> "null", is_active |-> "false"]}

Alike == Permutations(Calls)

=============================================================================
