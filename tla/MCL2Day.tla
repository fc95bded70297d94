------------------------------- MODULE MCL2Day -------------------------------
(***************************************************************************)
(* Small instances of L2Day for TLC.                                       *)
(***************************************************************************)
EXTENDS L2Day

\* Two price levels that the updates change in turn.
TwoLevels == {"a", "b"}
InTurn == [i \in 1..MaxUpdates |-> IF i % 2 = 1 THEN {"a"} ELSE {"b"}]
=============================================================================
