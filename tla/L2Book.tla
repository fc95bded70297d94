------------------------------- MODULE L2Book -------------------------------
(***************************************************************************)
(* The order book of one symbol as central rebuilds it from the rows of one *)
(* connection (central/l2.py, ConnectionBook): depth diffs and REST         *)
(* snapshots in the order in which they were received.                     *)
(*                                                                         *)
(* The exchange numbers its updates 1, 2, ...; update i changes the levels *)
(* Touch[i]. The quantity at a level is named by the set of updates that   *)
(* have changed it, so two books are equal exactly when they are at the    *)
(* same point of the history of every level. Id 0 stands for None. Bids    *)
(* and asks are not told apart, and a side is never empty once a snapshot  *)
(* has been taken.                                                         *)
(***************************************************************************)
EXTENDS Integers, Sequences, FiniteSets

CONSTANTS
  Level,   \* price levels
  Touch    \* a function from the updates to the sets of levels they change

ASSUME LevelAssumption == Level # {}

\* The book of the exchange after update n.
Quantity(l, n) == {i \in 1..n : l \in Touch[i]}
Exchange(n)    == [l \in Level |-> Quantity(l, n)]

\* A depth event covers the updates first..final and follows the event that
\* ended with pu; it carries the quantities its levels have at its end.
Changed(d) == {l \in Level : \E i \in d.first..d.final : l \in Touch[i]}

NoBook == [l \in {} |-> {}]

Fresh ==
  [state |-> "UNANCHORED", content |-> NoBook, prev |-> 0, pending |-> <<>>,
   seen |-> {}, anchor |-> 0]

\* Every diff is judged by the state it finds, so what follows returns the
\* book it leaves and the state change it reports ("none" for None).
Result(b, change) == [book |-> b, change |-> change]

WrongInvalidate(b) ==
  [b EXCEPT !.state = "GAPPED", !.content = NoBook, !.prev = 0, !.pending = <<>>]
Invalidate(b) ==
  [b EXCEPT !.state = "GAPPED", !.content = NoBook, !.prev = 0,
            !.pending = <<>>, !.anchor = 0]

\* _apply of the diffs ds, one after the other.
Apply(content, ds) ==
  [l \in Level |->
     LET hits == {i \in DOMAIN ds : l \in Changed(ds[i])}
     IN  IF hits = {} THEN content[l]
         ELSE Quantity(l, ds[CHOOSE i \in hits : \A j \in hits : j <= i].final)]

\* The diffs a snapshot does not contain already, in their order.
After(anchor, pending) ==
  LET kept    == {i \in DOMAIN pending : pending[i].final >= anchor}
      rank(i) == Cardinality({j \in kept : j <= i})
  IN  [n \in 1..Cardinality(kept) |-> pending[CHOOSE i \in kept : rank(i) = n]]

\* The candidates that span the snapshot, and the later ones that do not
\* follow their predecessor.
WrongSpans(anchor, cs) == {i \in DOMAIN cs : anchor <= cs[i].final}
Spans(anchor, cs) ==
  {i \in DOMAIN cs : cs[i].first <= anchor /\ anchor <= cs[i].final}
Breaks(from, cs) ==
  {i \in DOMAIN cs : i > from /\ cs[i].pu # cs[i - 1].final}

First(S) == CHOOSE i \in S : \A j \in S : i <= j

\* What is applied to the snapshot: the bridge and everything behind it.
WrongBridge(cs, start) == <<cs[start]>>
Bridge(cs, start) == SubSeq(cs, start, Len(cs))

\* _try_bridge: the first candidate that spans the snapshot and everything
\* behind it, if it follows without a break.
TryBridge(b) ==
  LET cs     == After(b.anchor, b.pending)
      spans  == Spans(b.anchor, cs)
      start  == First(spans)
      breaks == Breaks(start, cs)
      bridge == Bridge(cs, start)
  IN  CASE b.anchor = 0 -> Result(b, "none")
        [] b.anchor # 0 /\ spans = {} ->
             Result([b EXCEPT !.pending = cs], "none")
        [] b.anchor # 0 /\ spans # {} /\ breaks # {} ->
             Result([Invalidate(b) EXCEPT !.pending = <<cs[First(breaks)]>>],
                    "GAPPED")
        [] b.anchor # 0 /\ spans # {} /\ breaks = {} ->
             Result([b EXCEPT !.state = "VALID",
                              !.content = Apply(b.content, bridge),
                              !.prev = bridge[Len(bridge)].final,
                              !.pending = <<>>, !.anchor = 0], "VALID")

Noted(b, d) == [b EXCEPT !.seen = @ \cup {d}]

OnDiff(b, d) ==
  LET n == Noted(b, d)
  IN  CASE d \in b.seen -> Result(b, "none")
        [] d \notin b.seen /\ b.state # "VALID" ->
             TryBridge([n EXCEPT !.pending = Append(@, d)])
        [] d \notin b.seen /\ b.state = "VALID" /\ d.pu # b.prev ->
             Result([Invalidate(n) EXCEPT !.pending = <<d>>], "GAPPED")
        [] d \notin b.seen /\ b.state = "VALID" /\ d.pu = b.prev ->
             Result([n EXCEPT !.content = Apply(@, <<d>>), !.prev = d.final],
                    "none")

\* on_snapshot, with the book the exchange had after update id.
OnSnapshot(b, id) ==
  TryBridge([b EXCEPT !.content = Exchange(id), !.prev = id, !.anchor = id])

\* A book that goes into the checkpoint as anchored, what is saved of it, and
\* what the next day restores; a valid book is saved and restored separately.
Anchored(b)   == b.anchor # 0 /\ b.content # NoBook
SavedAnchor(b) == [b EXCEPT !.pending = After(b.anchor, b.pending)]
FromAnchor(a) == [a EXCEPT !.seen = {}]
FromCheckpoint(b) ==
  [Fresh EXCEPT !.state = "VALID", !.content = b.content, !.prev = b.prev]
=============================================================================
