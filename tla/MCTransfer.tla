----------------------------- MODULE MCTransfer -----------------------------
(***************************************************************************)
(* Small instances of Transfer for TLC.                                    *)
(***************************************************************************)
EXTENDS Transfer, TLC

CONSTANTS c1, c2, d1, d2

\* Both chunks belong to the same day.
OneDay == [c \in Chunk |-> d1]

\* Each chunk has a day of its own.
TwoDays == (c1 :> d1) @@ (c2 :> d2)

Sym == Permutations({c1, c2})
=============================================================================
