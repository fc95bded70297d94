---------------------------- MODULE MCEdgeService ----------------------------
(***************************************************************************)
(* EdgeService has no constants and finitely many states: TLC checks all   *)
(* of it.                                                                  *)
(***************************************************************************)
EXTENDS EdgeService
=============================================================================
