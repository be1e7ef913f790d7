---------------------------- MODULE MCMigration ----------------------------
(***************************************************************************)
(* Migration with two replicas that have different secrets, one that has   *)
(* none and one whose secret has a quote.                                  *)
(***************************************************************************)
EXTENDS Migration, TLC

CONSTANTS r1, r2, r3, r4, s1, s2

MCBootstrap == r1 :> s1 @@ r2 :> s2 @@ r3 :> Unset @@ r4 :> Quoted

=============================================================================
