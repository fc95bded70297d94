----------------------------- MODULE MCCollector -----------------------------
(***************************************************************************)
(* Small instances of Collector for TLC.                                   *)
(***************************************************************************)
EXTENDS Collector, TLC

CONSTANTS depth, trades, metadata

Sym == Permutations({depth, trades})
=============================================================================
