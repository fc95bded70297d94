---------------------------- MODULE MCGapJournal ----------------------------
(***************************************************************************)
(* Small instances of GapJournal for TLC.                                  *)
(***************************************************************************)
EXTENDS GapJournal

CONSTANTS loss, stop, midnight
=============================================================================
