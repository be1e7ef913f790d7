----------------------------- MODULE MCShutdown -----------------------------
(***************************************************************************)
(* Shutdown with two requests.                                             *)
(***************************************************************************)
EXTENDS Shutdown, TLC

CONSTANTS q1, q2

=============================================================================
