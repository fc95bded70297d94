------------------------------ MODULE MCRoute ------------------------------
(***************************************************************************)
(* Small instances of Route for TLC.                                       *)
(***************************************************************************)
EXTENDS Route

CONSTANTS stays, leaves, joins
=============================================================================
