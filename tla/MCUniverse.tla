----------------------------- MODULE MCUniverse -----------------------------
(***************************************************************************)
(* Small instances of Universe for TLC: eight symbols, two core members    *)
(* and two in each candidate role.                                         *)
(***************************************************************************)
EXTENDS Universe

Symbols == 1..8
Turned(k) == [i \in 1..8 |-> 1 + ((i + k) % 8)]
Found(order, newest, confirmed, full) ==
  [first |-> Symbols, confirmed |-> confirmed, order |-> order, newest |-> newest,
   seasoned |-> Symbols, full |-> full, fresh |-> Symbols, volume |-> Symbols,
   depth |-> Symbols]

\* A market in which all symbols qualify, one in another order in which two have
\* stopped trading, and one in which few have a whole history and a symbol that
\* may be in the core stops trading.
Findings ==
  {Found(Turned(3), Turned(7), Symbols, Symbols),
   Found(Turned(0), Turned(4), Symbols \ {3, 6}, Symbols),
   Found(Turned(0), Turned(4), Symbols \ {2}, {2, 4})}

Asked == {[boundary |-> {7, 3}, probe |-> {1, 4}]}
=============================================================================
