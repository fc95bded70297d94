----------------------------- MODULE L2DayProofs -----------------------------
(***************************************************************************)
(* Proofs about L2Day, for any number of connections, updates, lost and    *)
(* repeated events, silences and days, and for any levels the updates      *)
(* change.                                                                 *)
(*                                                                         *)
(* Central calls a book valid only with a snapshot received after the      *)
(* latest gap began. A book is worth something, that is valid or waiting   *)
(* for the bridge to its snapshot, only if a snapshot has been received on *)
(* its connection since the latest OPEN: a diff alone never makes a        *)
(* worthless book worth anything, an OPEN makes every book worthless, and  *)
(* midnight keeps what is worth something and adds nothing. The authority  *)
(* is a valid book outside every gap. This is Inv.                         *)
(*                                                                         *)
(* A book with content is the exchange's, and a valid one has all its      *)
(* connection has delivered. The events a book keeps or applies are events *)
(* of the exchange, and what it has heard is not newer than the newest     *)
(* event delivered on its connection. A snapshot and a chain of events     *)
(* that spans it give the book after the last event (ApplyExact): every    *)
(* update in between is in one of the events, and the last event that      *)
(* changes a level carries its newest quantity. This is Exact, which adds  *)
(* to Inv that the exchange's events follow one another and that each      *)
(* connection delivers them in order.                                      *)
(***************************************************************************)
EXTENDS L2Day, NumberLemmas, SequenceTheorems

IsBook(b) == DOMAIN b = {"state", "content", "prev", "pending", "seen", "anchor"}
Worth(b)  == b.state = "VALID" \/ b.anchor # 0

\* What a row may do to book b: r is the answer.
Answer(r, b) ==
  /\ IsBook(r.book)
  /\ r.change \in {"none", "VALID", "GAPPED"}
  /\ r.change = "VALID" => r.book.state = "VALID" /\ Worth(b)
  /\ r.change = "none" => r.book.state = b.state
  /\ Worth(r.book) => Worth(b)

Shape(s) ==
  /\ DOMAIN s = {"books", "authority", "lastValid", "gaps"}
  /\ DOMAIN s.books = Conn
  /\ \A c \in Conn : IsBook(s.books[c])
  /\ s.authority \in Conn \cup {NoConn} /\ s.lastValid \in Conn \cup {NoConn}

\* The state of central s, with the connections of H anchored.
Good(s, H) ==
  /\ Shape(s)
  /\ \A c \in Conn : Worth(s.books[c]) => c \in H
  /\ s.authority # NoConn => s.gaps = {} /\ s.books[s.authority].state = "VALID"

Inv == Good(central, anchoredBy)

-----------------------------------------------------------------------------
\* The book of one connection

LEMMA ConnNotNone == NoConn \notin Conn
  BY BoundAssumption DEF NoConn, Conn

LEMMA InvalidateBook ==
  ASSUME NEW b, IsBook(b)
  PROVE  IsBook(Invalidate(b)) /\ ~Worth(Invalidate(b))
  BY DEF IsBook, Invalidate, Worth

\* _try_bridge makes no book worth more than its snapshot (l2.py:266-310).
LEMMA BridgeAnswer ==
  ASSUME NEW b, IsBook(b)
  PROVE  Answer(TryBridge(b), b)
<1> DEFINE cs == After(b.anchor, b.pending)
           spans == Spans(b.anchor, cs)
           start == First(spans)
           breaks == Breaks(start, cs)
           bridge == Bridge(cs, start)
<1> HIDE DEF cs, spans, start, breaks, bridge
<1>1. CASE b.anchor = 0
  BY <1>1 DEF TryBridge, Answer, Result
<1>2. CASE b.anchor # 0 /\ spans = {}
  <2>1. TryBridge(b) = Result([b EXCEPT !.pending = cs], "none")
    BY <1>2 DEF TryBridge, cs, spans
  <2> QED BY <2>1, <1>2 DEF Answer, Result, IsBook, Worth
<1>3. CASE b.anchor # 0 /\ spans # {} /\ breaks # {}
  <2>1. TryBridge(b) =
          Result([Invalidate(b) EXCEPT !.pending = <<cs[First(breaks)]>>], "GAPPED")
    BY <1>3 DEF TryBridge, cs, spans, start, breaks
  <2> QED BY <2>1, <1>3, InvalidateBook DEF Answer, Result, IsBook, Worth
<1>4. CASE b.anchor # 0 /\ spans # {} /\ breaks = {}
  <2>1. TryBridge(b) =
          Result([b EXCEPT !.state = "VALID", !.content = Apply(b.content, bridge),
                           !.prev = bridge[Len(bridge)].final,
                           !.pending = <<>>, !.anchor = 0], "VALID")
    BY <1>4 DEF TryBridge, cs, spans, start, breaks, bridge
  <2> DEFINE x == Apply(b.content, bridge)
             y == bridge[Len(bridge)].final
             m == [b EXCEPT !.state = "VALID", !.content = x, !.prev = y,
                            !.pending = <<>>, !.anchor = 0]
  <2>m. TryBridge(b).book = m
    BY <2>1 DEF Result
  <2> HIDE DEF x, y
  <2>2. IsBook(TryBridge(b).book) /\ TryBridge(b).book.state = "VALID"
    BY <2>m DEF IsBook
  <2>3. TryBridge(b).change = "VALID" /\ Worth(b)
    BY <2>1, <1>4 DEF Result, Worth
  <2> QED BY <2>2, <2>3 DEF Answer
<1> QED BY <1>1, <1>2, <1>3, <1>4

\* A diff makes no worthless book worth anything (l2.py:211-245).
LEMMA DiffAnswer ==
  ASSUME NEW b, IsBook(b), NEW d
  PROVE  Answer(OnDiff(b, d), b)
<1> DEFINE n == Noted(b, d)
<1>1. IsBook(n) /\ n.state = b.state /\ n.anchor = b.anchor
  BY DEF Noted, IsBook
<1>2. CASE d \in b.seen
  BY <1>2 DEF OnDiff, Answer, Result
<1>3. CASE d \notin b.seen /\ b.state # "VALID"
  <2> DEFINE m == [n EXCEPT !.pending = Append(@, d)]
  <2>1. IsBook(m) /\ m.state = b.state /\ m.anchor = b.anchor
    BY <1>1 DEF IsBook
  <2>2. OnDiff(b, d) = TryBridge(m)
    BY <1>3 DEF OnDiff
  <2>3. Answer(TryBridge(m), m)
    BY <2>1, BridgeAnswer
  <2> QED BY <2>1, <2>2, <2>3 DEF Answer, Worth
<1>4. CASE d \notin b.seen /\ b.state = "VALID" /\ d.pu # b.prev
  <2>1. OnDiff(b, d) = Result([Invalidate(n) EXCEPT !.pending = <<d>>], "GAPPED")
    BY <1>4 DEF OnDiff
  <2> QED BY <2>1, <1>1, <1>4, InvalidateBook DEF Answer, Result, IsBook, Worth
<1>5. CASE d \notin b.seen /\ b.state = "VALID" /\ d.pu = b.prev
  <2>1. OnDiff(b, d) =
          Result([n EXCEPT !.content = Apply(@, <<d>>), !.prev = d.final], "none")
    BY <1>5 DEF OnDiff
  <2> HIDE DEF n
  <2> DEFINE x == Apply(n.content, <<d>>)
             m == [n EXCEPT !.content = x, !.prev = d.final]
  <2>m. OnDiff(b, d).book = m
    BY <2>1, <1>1 DEF Result, IsBook
  <2> HIDE DEF x
  <2>2. IsBook(OnDiff(b, d).book) /\ OnDiff(b, d).book.state = "VALID"
    BY <2>m, <1>1, <1>5 DEF IsBook
  <2>3. OnDiff(b, d).change = "none" /\ Worth(b)
    BY <2>1, <1>5 DEF Result, Worth
  <2> QED BY <2>2, <2>3, <1>5 DEF Answer
<1> QED BY <1>2, <1>3, <1>4, <1>5

\* A snapshot, which is what makes a book worth something (l2.py:247-264).
LEMMA SnapshotAnswer ==
  ASSUME NEW b, IsBook(b), NEW id
  PROVE  \E m : Answer(OnSnapshot(b, id), m) /\ m.state = b.state
<1> DEFINE m == [b EXCEPT !.content = Exchange(id), !.prev = id, !.anchor = id]
<1>1. IsBook(m) /\ m.state = b.state
  BY DEF IsBook
<1>2. OnSnapshot(b, id) = TryBridge(m)
  BY DEF OnSnapshot
<1> QED BY <1>1, <1>2, BridgeAnswer

-----------------------------------------------------------------------------
\* The day

\* A row whose connection is anchored, or whose book stays worthless.
LEMMA RowGood ==
  ASSUME NEW s, NEW H, Good(s, H), NEW c \in Conn, NEW r, NEW b,
         Answer(r, b), b.state = s.books[c].state,
         NEW K, H \subseteq K, Worth(r.book) => c \in K
  PROVE  Good(Row(s, c, r), K)
<1> DEFINE t == Row(s, c, r)
<1>1. /\ DOMAIN t = DOMAIN s /\ t.gaps = s.gaps
      /\ t.books = [s.books EXCEPT ![c] = r.book]
      /\ t.authority = CASE r.change = "VALID" /\ s.gaps = {} -> c
                         [] r.change = "GAPPED" /\ s.authority = c -> NoConn
                         [] OTHER -> s.authority
      /\ t.lastValid \in {c, NoConn, s.lastValid}
  BY DEF Row, Good, Shape
<1>2. DOMAIN t.books = Conn /\ t.books[c] = r.book
      /\ \A e \in Conn \ {c} : t.books[e] = s.books[e]
  BY <1>1 DEF Good, Shape
<1>3. Shape(t)
  BY <1>1, <1>2 DEF Good, Shape, Answer
<1>4. \A e \in Conn : Worth(t.books[e]) => e \in K
  BY <1>2 DEF Good
<1>5. ASSUME t.authority # NoConn
      PROVE  t.gaps = {} /\ t.books[t.authority].state = "VALID"
  <2>1. CASE r.change = "VALID" /\ s.gaps = {}
    BY <2>1, <1>1, <1>2 DEF Answer
  <2>2. CASE ~(r.change = "VALID" /\ s.gaps = {})
    <3>1. t.authority = s.authority /\ ~(r.change = "GAPPED" /\ s.authority = c)
      BY <2>2, <1>1, <1>5
    <3>2. s.authority \in Conn /\ s.gaps = {} /\ s.books[s.authority].state = "VALID"
      BY <3>1, <1>5 DEF Good, Shape
    <3>3. CASE s.authority = c
      BY <3>1, <3>2, <3>3, <2>2, <1>1, <1>2 DEF Answer
    <3>4. CASE s.authority # c
      BY <3>1, <3>2, <3>4, <1>1, <1>2
    <3> QED BY <3>3, <3>4
  <2> QED BY <2>1, <2>2
<1> QED BY <1>3, <1>4, <1>5 DEF Good

\* OPEN makes every book worthless (l2.py:510-532).
LEMMA OpenedGood ==
  ASSUME NEW s, Shape(s), NEW g, NEW H
  PROVE  /\ Good(Opened(s, g), H)
         /\ \A c \in Conn : ~Worth(Opened(s, g).books[c])
<1>1. \A c \in Conn : /\ Opened(s, g).books[c] = Invalidate(s.books[c])
                      /\ IsBook(Invalidate(s.books[c]))
                      /\ ~Worth(Invalidate(s.books[c]))
  BY InvalidateBook DEF Opened, Shape
<1>2. Shape(Opened(s, g))
  BY <1>1 DEF Opened, Shape
<1> QED BY <1>1, <1>2 DEF Good, Opened

\* CLOSED gives the authority back to a valid book, when no gap is left.
LEMMA ClosedGood ==
  ASSUME NEW s, NEW H, Good(s, H), NEW g
  PROVE  Good(Closed(s, g), H)
<1>1. /\ DOMAIN Closed(s, g) = DOMAIN s
      /\ Closed(s, g).books = s.books /\ Closed(s, g).lastValid = s.lastValid
      /\ Closed(s, g).gaps = s.gaps \ {g}
      /\ Closed(s, g).authority = IF s.gaps \subseteq {g} /\ Restorable(s)
                                  THEN s.lastValid ELSE s.authority
  BY DEF Closed, Good, Shape
<1>2. Shape(Closed(s, g))
  BY <1>1 DEF Good, Shape
<1> QED BY <1>1, <1>2 DEF Good, Restorable

\* Midnight outside every gap.
LEMMA RestoredGood ==
  ASSUME NEW s, NEW H, Good(s, H)
  PROVE  Good(Restored(s), H)
<1> DEFINE t == Restored(s)
<1>1. /\ DOMAIN t = DOMAIN s /\ t.gaps = s.gaps /\ t.authority = s.authority
      /\ t.lastValid = s.authority
      /\ t.books = [c \in Conn |->
                     IF c = s.authority THEN FromCheckpoint(s.books[c])
                     ELSE IF Anchored(s.books[c]) THEN FromAnchor(SavedAnchor(s.books[c]))
                     ELSE Fresh]
  BY DEF Restored, Good, Shape
<1>2. ASSUME NEW c \in Conn
      PROVE  IsBook(t.books[c]) /\ (Worth(t.books[c]) => Worth(s.books[c]))
  <2>1. CASE c = s.authority
    BY <1>1, <2>1, ConnNotNone
       DEF FromCheckpoint, Fresh, IsBook, Worth, Good
  <2>2. CASE c # s.authority /\ Anchored(s.books[c])
    BY <1>1, <2>2 DEF FromAnchor, SavedAnchor, Anchored, IsBook, Worth, Good, Shape
  <2>3. CASE c # s.authority /\ ~Anchored(s.books[c])
    BY <1>1, <2>3 DEF Fresh, IsBook, Worth
  <2> QED BY <2>1, <2>2, <2>3
<1>3. Shape(t)
  BY <1>1, <1>2 DEF Shape, Good
<1>4. ASSUME t.authority # NoConn
      PROVE  t.gaps = {} /\ t.books[t.authority].state = "VALID"
  <2>1. s.authority \in Conn /\ s.gaps = {}
    BY <1>1, <1>4 DEF Good, Shape
  <2>2. t.books[s.authority] = FromCheckpoint(s.books[s.authority])
    BY <1>1, <2>1
  <2> QED BY <1>1, <2>1, <2>2 DEF FromCheckpoint, Fresh
<1> QED BY <1>2, <1>3, <1>4 DEF Good

-----------------------------------------------------------------------------
LEMMA InvInit == Init => Inv
  BY ConnNotNone DEF Init, Inv, Good, Shape, IsBook, Worth, Fresh

\* A diff, behind the OPEN of the gap it proves.
LEMMA TakeKeeps ==
  ASSUME Inv, NEW c \in Conn, NEW d, Take(c, d)
  PROVE  Inv'
<1> DEFINE breaks == Discontinuity(c, d)
           s == IF breaks THEN Opened(central, c) ELSE central
           r == OnDiff(s.books[c], d)
<1>1. central' = Row(s, c, r) /\ anchoredBy' = IF breaks THEN {} ELSE anchoredBy
  BY DEF Take
<1>2. Good(s, anchoredBy') /\ (Worth(s.books[c]) => c \in anchoredBy')
  BY <1>1, OpenedGood DEF Inv, Good
<1>3. IsBook(s.books[c])
  BY <1>2 DEF Good, Shape
<1>4. Answer(r, s.books[c])
  BY <1>3, DiffAnswer
<1> HIDE DEF s, r
<1>5. Worth(r.book) => c \in anchoredBy'
  BY <1>2, <1>4 DEF Answer
<1> QED BY <1>1, <1>2, <1>4, <1>5, RowGood DEF Inv

\* Every step of exchange, collector and central keeps the invariant.
LEMMA InvStep == Inv /\ [Next]_vars => Inv'
<1> SUFFICES ASSUME Inv, [Next]_vars PROVE Inv'
  OBVIOUS
<1>0. Shape(central) /\ Good(central, anchoredBy)
  BY DEF Inv, Good
<1>1. CASE DayEnds
  <2> DEFINE a == AllClosed(central)
  <2>1. Good(a, anchoredBy)
    <3>1. /\ DOMAIN a = DOMAIN central /\ a.books = central.books
          /\ a.lastValid = central.lastValid /\ a.gaps = {}
          /\ a.authority = IF central.gaps # {} /\ Restorable(central)
                           THEN central.lastValid ELSE central.authority
      BY <1>0 DEF AllClosed, Shape
    <3> QED BY <3>1, <1>0 DEF Good, Shape, Restorable
  <2>2. Good(Restored(a), anchoredBy) /\ Shape(Restored(a))
    BY <2>1, RestoredGood DEF Good
  <2>3. CASE central.gaps = {}
    BY <1>1, <2>2, <2>3 DEF DayEnds, Continued, Inv
  <2>4. CASE central.gaps # {}
    <3>1. /\ central' = [Opened(Restored(a), Transport) EXCEPT !.gaps = central.gaps]
          /\ anchoredBy' = {}
      BY <1>1, <2>4 DEF DayEnds, Continued
    <3>2. Good(Opened(Restored(a), Transport), {})
      BY <2>2, OpenedGood
    <3>3. Opened(Restored(a), Transport).authority = NoConn
      BY DEF Opened
    <3> QED BY <3>1, <3>2, <3>3 DEF Inv, Good, Shape
  <2> QED BY <2>3, <2>4
<1>2. CASE \E c \in Conn : ConnStep(c)
  <2> SUFFICES ASSUME NEW c \in Conn, ConnStep(c) PROVE Inv'
    BY <1>2
  <2>1. CASE Serve(c) \/ Skip(c)
    BY <2>1 DEF Serve, Skip, history, Inv
  <2>2. CASE Deliver(c) \/ Repeat(c)
    BY <2>2, TakeKeeps DEF Deliver, Repeat
  <2>3. CASE SnapshotArrives(c)
    <3>1. PICK id : central' = Row(central, c, OnSnapshot(central.books[c], id))
      BY <2>3 DEF SnapshotArrives
    <3>2. anchoredBy' = anchoredBy \cup {c}
      BY <2>3 DEF SnapshotArrives
    <3>3. IsBook(central.books[c])
      BY <1>0 DEF Shape
    <3>4. PICK m : /\ Answer(OnSnapshot(central.books[c], id), m)
                   /\ m.state = central.books[c].state
      BY <3>3, SnapshotAnswer
    <3> QED BY <3>1, <3>2, <3>4, <1>0, RowGood DEF Inv
  <2>4. CASE CloseDepthGap(c)
    BY <2>4, <1>0, ClosedGood DEF CloseDepthGap, history, Inv
  <2> QED BY <2>1, <2>2, <2>3, <2>4 DEF ConnStep
<1>3. CASE RouteStep
  <2>1. CASE LastProof \/ Silent
    BY <2>1, <1>0, OpenedGood DEF LastProof, Silent, Inv
  <2>2. CASE CloseTransportGap \/ CloseLivenessGap
    BY <2>2, <1>0, ClosedGood DEF CloseTransportGap, CloseLivenessGap, history, Inv
  <2>3. CASE Lost \/ Connect \/ Rotate \/ SuccessorFails \/ Handover \/ Refresh
    BY <2>3 DEF Lost, Connect, Rotate, SuccessorFails, Handover, Refresh, history, Inv
  <2> QED BY <1>3, <2>1, <2>2, <2>3 DEF RouteStep
<1>4. CASE (\E n \in 1..2 : Emit(n)) \/ UNCHANGED vars
  BY <1>4 DEF Emit, vars, history, Inv
<1> QED BY <1>1, <1>2, <1>3, <1>4 DEF Next

-----------------------------------------------------------------------------
\* What central calls valid comes from a snapshot received after the latest gap
\* began, and never from the inside of a gap, also across midnight
\* (central/l2.py:510-560, 640-683).
THEOREM ValidMeansReanchored == Spec => []AuthorityReanchored
<1>1. Inv => AuthorityReanchored
  BY DEF Inv, Good, Shape, Worth, AuthorityReanchored
<1> QED BY <1>1, InvInit, InvStep, PTL DEF Spec

-----------------------------------------------------------------------------
\* Numbers and chains of events

\* The depth events of an exchange whose first update is 1.
Diff ==
  {d \in [first : Nat, final : Nat, pu : Nat] :
     d.pu >= 1 /\ d.first = d.pu + 1 /\ d.first <= d.final}

\* Sequences of events that follow one another.
Chain(ds) == \A i \in 2..Len(ds) : ds[i].pu = ds[i - 1].final

-----------------------------------------------------------------------------
\* The operators of the book

\* What After keeps: events of the buffer that are not older than the snapshot,
\* and with any event the newest one.
Kept(anchor, p) == {i \in DOMAIN p : p[i].final >= anchor}
Rank(K, i) == Cardinality({j \in K : j <= i})

LEMMA AfterRank ==
  ASSUME NEW p, NEW a
  PROVE  After(a, p) = [n \in 1..Cardinality(Kept(a, p)) |->
                          p[CHOOSE i \in Kept(a, p) : Rank(Kept(a, p), i) = n]]
  BY DEF After, Kept, Rank

\* A finite set of numbers is counted by the ranks of its members.
LEMMA RankFacts ==
  ASSUME NEW m \in Nat, NEW K \in SUBSET (1..m)
  PROVE  /\ IsFiniteSet(K) /\ Cardinality(K) \in Nat
         /\ \A i, j \in K : Rank(K, i) = Rank(K, j) => i = j
         /\ \A i \in K : Rank(K, i) \in 1..Cardinality(K)
         /\ \A n \in 1..Cardinality(K) : \E i \in K : Rank(K, i) = n
<1>1. IsFiniteSet(K) /\ Cardinality(K) \in Nat
  <2>1. IsFiniteSet(1..m)
    BY FS_Interval
  <2> QED BY <2>1, FS_Subset, FS_CardinalityType
<1>2. \A i \in K : {j \in K : j <= i} \in SUBSET K /\ i \in {j \in K : j <= i}
  OBVIOUS
<1>3. \A i \in K : Rank(K, i) \in 1..Cardinality(K)
  <2> SUFFICES ASSUME NEW i \in K PROVE Rank(K, i) \in 1..Cardinality(K)
    OBVIOUS
  <2> DEFINE S == {j \in K : j <= i}
  <2>1. IsFiniteSet(S) /\ Cardinality(S) <= Cardinality(K) /\ Cardinality(S) \in Nat
    BY <1>1, <1>2, FS_Subset, FS_CardinalityType
  <2>2. Cardinality(S) # 0
    BY <2>1, <1>2, FS_EmptySet
  <2> QED BY <2>1, <2>2, <1>1 DEF Rank
<1>4. ASSUME NEW i \in K, NEW j \in K, i < j PROVE Rank(K, i) # Rank(K, j)
  <2> DEFINE S == {k \in K : k <= i}
             T == {k \in K : k <= j}
  <2>0. \A k \in K : k \in Nat
    OBVIOUS
  <2>1. S \in SUBSET T /\ j \in T \ S
    <3>1. \A k \in K : k <= i => k <= j
      BY <2>0, <1>4
    <3>2. ~(j <= i) /\ j <= j
      BY <2>0, <1>4
    <3> QED BY <3>1, <3>2
  <2>2. IsFiniteSet(T)
    BY <1>1, <1>2, FS_Subset
  <2>3. Cardinality(T) = Cardinality(S) => T = S
    BY <2>1, <2>2, FS_Subset
  <2> QED BY <2>1, <2>3 DEF Rank
<1>5. \A i, j \in K : Rank(K, i) = Rank(K, j) => i = j
  <2> SUFFICES ASSUME NEW i \in K, NEW j \in K, i # j PROVE Rank(K, i) # Rank(K, j)
    OBVIOUS
  <2>1. i < j \/ j < i
    OBVIOUS
  <2> QED BY <2>1, <1>4
<1>6. \A n \in 1..Cardinality(K) : \E i \in K : Rank(K, i) = n
  <2> DEFINE f == [i \in K |-> Rank(K, i)]
             N == 1..Cardinality(K)
  <2>1. f \in Injection(K, N)
    BY <1>3, <1>5 DEF Injection, IsInjective
  <2>2. IsFiniteSet(N) /\ Cardinality(N) = Cardinality(K)
    BY <1>1, FS_Interval
  <2>3. f \in Surjection(K, N)
    <3> HIDE DEF f, N
    <3> QED BY <2>1, <2>2, FS_Injection
  <2> QED BY <2>3 DEF Surjection
<1> QED BY <1>1, <1>3, <1>5, <1>6

LEMMA AfterFacts ==
  ASSUME NEW p \in Seq(Diff), NEW a \in Nat
  PROVE  /\ After(a, p) \in Seq(Diff)
         /\ \A n \in DOMAIN After(a, p) :
              /\ After(a, p)[n].final >= a
              /\ \E i \in DOMAIN p : After(a, p)[n] = p[i]
         /\ p = <<>> => After(a, p) = <<>>
         /\ (\A i \in DOMAIN p : p[i].final <= p[Len(p)].final) /\ After(a, p) # <<>> =>
              /\ p # <<>>
              /\ After(a, p)[Len(After(a, p))] = p[Len(p)]
<1> DEFINE K == Kept(a, p)
           n == Cardinality(K)
           r == After(a, p)
           pick(k) == CHOOSE i \in K : Rank(K, i) = k
<1>0. DOMAIN p = 1..Len(p) /\ Len(p) \in Nat /\ \A i \in 1..Len(p) : p[i] \in Diff
  OBVIOUS
<1>1. /\ IsFiniteSet(K) /\ n \in Nat
      /\ \A i, j \in K : Rank(K, i) = Rank(K, j) => i = j
      /\ \A i \in K : Rank(K, i) \in 1..n
      /\ \A k \in 1..n : \E i \in K : Rank(K, i) = k
  <2>1. K \in SUBSET (1..Len(p))
    BY <1>0 DEF Kept
  <2> HIDE DEF K
  <2> QED BY <2>1, <1>0, RankFacts
<1>2. r = [k \in 1..n |-> p[pick(k)]]
  BY AfterRank
<1> HIDE DEF r
<1>3. \A k \in 1..n : pick(k) \in K /\ Rank(K, pick(k)) = k
  <2> HIDE DEF K
  <2> QED BY <1>1
<1>4. K \subseteq 1..Len(p) /\ \A i \in K : p[i].final >= a
  BY <1>0 DEF Kept
<1> HIDE DEF K, n, pick
<1>5. \A k \in 1..n : r[k] = p[pick(k)] /\ r[k] \in Diff
  BY <1>2, <1>3, <1>4, <1>0
<1>6. r \in Seq(Diff) /\ Len(r) = n /\ DOMAIN r = 1..n
  BY <1>1, <1>2, <1>5
<1>7. \A k \in DOMAIN r : r[k].final >= a /\ \E i \in DOMAIN p : r[k] = p[i]
  BY <1>3, <1>4, <1>5, <1>6, <1>0
<1>8. ASSUME p = <<>> PROVE r = <<>>
  <2>1. K = {}
    BY <1>8, <1>0, <1>4
  <2>2. n = 0
    BY <2>1, FS_EmptySet DEF n
  <2> QED BY <2>2, <1>6
<1>9. ASSUME \A i \in DOMAIN p : p[i].final <= p[Len(p)].final, r # <<>>
      PROVE  p # <<>> /\ r[Len(r)] = p[Len(p)]
  <2>1. n >= 1
    BY <1>9, <1>6, <1>1
  <2>2. PICK i \in K : TRUE
    BY <2>1, <1>3
  <2>3. p # <<>>
    BY <2>2, <1>4, <1>0
  <2>4. Len(p) \in K
    <3>1. Len(p) \in DOMAIN p
      BY <2>3, <1>0
    <3>2. p[i].final >= a /\ p[i].final <= p[Len(p)].final
      BY <2>2, <1>4, <1>9, <1>0
    <3>3. p[Len(p)].final \in Nat /\ p[i].final \in Nat
      BY <3>1, <2>2, <1>4, <1>0 DEF Diff
    <3> QED BY <3>1, <3>2, <3>3 DEF K, Kept
  <2>5. {j \in K : j <= Len(p)} = K
    <3>1. \A j \in K : j <= Len(p)
      BY <1>4, <1>0
    <3> QED BY <3>1
  <2>6. Rank(K, Len(p)) = n
    BY <2>5 DEF Rank, n
  <2>7. pick(n) = Len(p)
    BY <2>1, <2>4, <2>6, <1>1, <1>3
  <2> QED BY <2>1, <2>3, <2>7, <1>5, <1>6, <1>1
<1> QED BY <1>6, <1>7, <1>8, <1>9 DEF r

\* The first of a nonempty set of numbers.
LEMMA FirstFacts ==
  ASSUME NEW S, S \subseteq Nat, S # {}
  PROVE  First(S) \in S /\ \A i \in S : First(S) <= i
  BY LeastNumber DEF First

\* The finals of a chain do not decrease.
LEMMA ChainGrows ==
  ASSUME NEW ds \in Seq(Diff), Chain(ds),
         NEW j \in 1..Len(ds), NEW i \in 1..j
  PROVE  ds[i].final <= ds[j].final
<1>0. \A k \in 1..Len(ds) : ds[k] \in Diff /\ ds[k].pu \in Nat /\ ds[k].final \in Nat
                             /\ ds[k].pu <= ds[k].final
  BY DEF Diff
<1> DEFINE S == {k \in 1..j : ds[k].final > ds[j].final}
<1>1. S = {}
  <2> SUFFICES ASSUME S # {} PROVE FALSE
    OBVIOUS
  <2>1. PICK m \in S : \A k \in S : k <= m
    <3>1. S \subseteq Nat /\ j \in Nat /\ \A k \in S : k <= j
      OBVIOUS
    <3> HIDE DEF S
    <3> QED BY <3>1, GreatestNumber
  <2>2. m < j /\ m + 1 \in 1..j
    BY <1>0
  <2>3. ds[m + 1].pu = ds[m].final
    BY <2>2 DEF Chain
  <2>4. ds[m + 1].final > ds[j].final
    BY <2>2, <2>3, <1>0
  <2>5. m + 1 \in S
    BY <2>2, <2>4
  <2> QED BY <2>1, <2>5
<1> QED BY <1>1, <1>0

\* Every update between a snapshot and the end of a chain that spans it is in
\* one of the events.
LEMMA ChainCovers ==
  ASSUME NEW ds \in Seq(Diff), Chain(ds), ds # <<>>, NEW a \in Nat,
         ds[1].first <= a + 1,
         NEW k \in Nat, a < k, k <= ds[Len(ds)].final
  PROVE  \E i \in 1..Len(ds) : ds[i].first <= k /\ k <= ds[i].final
<1>0. /\ Len(ds) \in Nat \ {0}
      /\ \A i \in 1..Len(ds) : ds[i] \in Diff /\ ds[i].first = ds[i].pu + 1
                               /\ ds[i].pu \in Nat /\ ds[i].final \in Nat
  BY DEF Diff
<1> DEFINE S == {i \in 1..Len(ds) : k <= ds[i].final}
<1>1. PICK m \in S : \A i \in S : m <= i
  <2>1. S \subseteq Nat /\ Len(ds) \in S
    BY <1>0
  <2> HIDE DEF S
  <2> QED BY <2>1, LeastNumber
<1>2. CASE m = 1
  BY <1>2, <1>0
<1>3. CASE m # 1
  <2>1. m \in 2..Len(ds) /\ m - 1 \in 1..Len(ds) /\ m - 1 \notin S
    BY <1>3, <1>1, <1>0
  <2>2. ds[m].pu = ds[m - 1].final /\ ds[m - 1].final < k
    BY <2>1, <1>0 DEF Chain
  <2>3. m \in 1..Len(ds) /\ k <= ds[m].final
    BY <1>1
  <2>4. ds[m].first = ds[m - 1].final + 1 /\ ds[m - 1].final \in Nat
    BY <2>1, <2>2, <2>3, <1>0
  <2>5. ds[m].first <= k
    BY <2>2, <2>4
  <2> QED BY <2>3, <2>5
<1> QED BY <1>2, <1>3

LEMMA QuantityGrows ==
  ASSUME NEW l, NEW m \in Nat, NEW n \in Nat, m <= n,
         \A k \in Nat : m < k /\ k <= n => l \notin Touch[k]
  PROVE  Quantity(l, m) = Quantity(l, n)
<1>1. \A i \in 1..n : i \in 1..m \/ (i \in Nat /\ m < i /\ i <= n)
  OBVIOUS
<1>2. \A i \in 1..m : i \in 1..n
  OBVIOUS
<1> QED BY <1>1, <1>2 DEF Quantity

\* The events of a chain take the book of the exchange from a snapshot that the
\* first one spans, or that it follows, to the book after the last one.
LEMMA ApplyExact ==
  ASSUME NEW ds \in Seq(Diff), Chain(ds), ds # <<>>, NEW a \in Nat,
         ds[1].first <= a + 1, a <= ds[1].final
  PROVE  Apply(Exchange(a), ds) = Exchange(ds[Len(ds)].final)
<1> DEFINE n == Len(ds)
           f == ds[n].final
           hits(l) == {i \in DOMAIN ds : l \in Changed(ds[i])}
<1>0. /\ n \in Nat \ {0} /\ DOMAIN ds = 1..n
      /\ \A i \in 1..n : /\ ds[i] \in Diff /\ ds[i].first \in Nat
                        /\ ds[i].pu \in Nat /\ ds[i].final \in Nat
  BY DEF Diff
<1>1. f \in Nat /\ ds[1].final <= f /\ a <= f
  BY <1>0, ChainGrows
<1>2. ASSUME NEW l \in Level, NEW k \in Nat, a < k, k <= f, l \in Touch[k]
      PROVE  \E i \in hits(l) : k <= ds[i].final
  <2>1. PICK i \in 1..n : ds[i].first <= k /\ k <= ds[i].final
    BY <1>2, ChainCovers
  <2>2. k \in ds[i].first..ds[i].final
    BY <2>1, <1>0
  <2> QED BY <2>1, <2>2, <1>2, <1>0 DEF Changed
<1>3. ASSUME NEW l \in Level
      PROVE  Apply(Exchange(a), ds)[l] = Quantity(l, f)
  <2>1. CASE hits(l) = {}
    <3>1. Apply(Exchange(a), ds)[l] = Quantity(l, a)
      BY <2>1 DEF Apply, Exchange
    <3>2. \A k \in Nat : a < k /\ k <= f => l \notin Touch[k]
      BY <2>1, <1>2
    <3> QED BY <3>1, <3>2, <1>1, QuantityGrows
  <2>2. CASE hits(l) # {}
    <3> DEFINE H == hits(l)
               m == CHOOSE i \in H : \A j \in H : j <= i
    <3>1. m \in H /\ \A j \in H : j <= m
      <4>1. H \subseteq Nat /\ \A j \in H : j <= n
        BY <1>0
      <4> HIDE DEF H
      <4> QED BY <4>1, <2>2, <1>0, GreatestNumber DEF H
    <3>2. Apply(Exchange(a), ds)[l] = Quantity(l, ds[m].final)
      BY <2>2 DEF Apply
    <3> HIDE DEF m
    <3>3. m \in 1..n
      BY <3>1, <1>0
    <3>4. ds[m].final \in Nat /\ ds[m].final <= f /\ ds[1].final <= ds[m].final
      BY <3>3, <1>0, ChainGrows
    <3>5. ASSUME NEW k \in Nat, ds[m].final < k, k <= f, l \in Touch[k]
          PROVE FALSE
      <4>1. a < k
        BY <3>4, <3>5, <1>0
      <4>2. PICK i \in H : k <= ds[i].final
        BY <4>1, <3>5, <1>2
      <4>3. i \in 1..m /\ i \in 1..n
        BY <4>2, <3>1, <1>0
      <4>4. ds[i].final <= ds[m].final
        BY <4>3, <3>3, ChainGrows
      <4> QED BY <4>2, <4>3, <4>4, <3>4, <3>5, <1>0
    <3> QED BY <3>2, <3>4, <3>5, <1>1, QuantityGrows
  <2> QED BY <2>1, <2>2
<1>4. Apply(Exchange(a), ds) = [l \in Level |-> Apply(Exchange(a), ds)[l]]
  BY DEF Apply
<1>5. Apply(Exchange(a), ds) = [l \in Level |-> Quantity(l, f)]
  BY <1>3, <1>4
<1> QED BY <1>5 DEF Exchange

-----------------------------------------------------------------------------
\* The book is the exchange's

\* A book of the exchange, or none, and what it waits for.
Sound(b) ==
  /\ IsBook(b) /\ b.state \in {"UNANCHORED", "VALID", "GAPPED"}
  /\ b.prev \in Nat /\ b.anchor \in Nat
  /\ b.pending \in Seq(Diff) /\ b.seen \subseteq Diff
  /\ b.content # NoBook => b.content = Exchange(b.prev)
  /\ b.anchor # 0 => b.content # NoBook
  /\ b.anchor # 0 /\ b.state # "VALID" => b.prev = b.anchor
  /\ b.state = "VALID" => b.content # NoBook /\ b.pending = <<>>

Within(b, n) == b.prev <= n /\ b.anchor <= n

\* All a book has received is not newer than u.
Heard(b, u) ==
  /\ \A i \in DOMAIN b.pending : b.pending[i].final <= u
  /\ \A d \in b.seen : d.final <= u

\* What a book keeps reaches to u.
LastIs(p, u)   == p # <<>> => p[Len(p)].final = u
UpToDate(b, u) ==
  LastIs(b.pending, u) /\ (b.state = "VALID" /\ b.anchor = 0 => b.prev = u)

LEMMA ExchangeIsABook == \A n : Exchange(n) # NoBook
<1> SUFFICES ASSUME NEW n, Exchange(n) = NoBook PROVE FALSE
  OBVIOUS
<1>1. DOMAIN Exchange(n) = Level /\ DOMAIN NoBook = {}
  BY DEF Exchange, NoBook
<1> QED BY <1>1, LevelAssumption

LEMMA BridgeFacts ==
  ASSUME NEW cs \in Seq(Diff), NEW a \in Nat, Spans(a, cs) # {},
         NEW start, start = First(Spans(a, cs)), Breaks(start, cs) = {},
         NEW br, br = Bridge(cs, start)
  PROVE  /\ br \in Seq(Diff) /\ br # <<>> /\ Chain(br)
         /\ br[1].first <= a + 1 /\ a <= br[1].final
         /\ cs # <<>> /\ br[Len(br)] = cs[Len(cs)]
<1>0. DOMAIN cs = 1..Len(cs) /\ Len(cs) \in Nat
  OBVIOUS
<1>1. start \in Spans(a, cs)
  <2>1. Spans(a, cs) \subseteq Nat
    BY <1>0 DEF Spans
  <2> QED BY <2>1, FirstFacts
<1>2. start \in 1..Len(cs) /\ cs[start].first <= a /\ a <= cs[start].final
  BY <1>0, <1>1 DEF Spans
<1>3. /\ br \in Seq(Diff) /\ Len(br) = Len(cs) - start + 1
      /\ \A i \in 1..Len(cs) - start + 1 : br[i] = cs[start + i - 1]
  <2>1. \A i \in start..Len(cs) : cs[i] \in Diff
    BY <1>2, <1>0
  <2>2. start <= Len(cs)
    BY <1>2, <1>0
  <2> QED BY <1>0, <1>2, <2>1, <2>2, SubSeqProperties DEF Bridge
<1>4. Len(br) \in Nat \ {0}
  BY <1>0, <1>2, <1>3
<1>5. Chain(br)
  <2> SUFFICES ASSUME NEW i \in 2..Len(br) PROVE br[i].pu = br[i - 1].final
    BY DEF Chain
  <2>1. br[i] = cs[start + i - 1] /\ br[i - 1] = cs[start + i - 1 - 1]
    <3>1. i \in 1..Len(cs) - start + 1 /\ i - 1 \in 1..Len(cs) - start + 1
      BY <1>0, <1>2, <1>3
    <3>2. start + (i - 1) - 1 = start + i - 1 - 1
      BY <1>0, <1>2, <3>1
    <3> QED BY <3>1, <3>2, <1>3
  <2> DEFINE k == start + i - 1
  <2>2. k \in DOMAIN cs /\ k > start
    BY <1>0, <1>2, <1>3
  <2> HIDE DEF k
  <2>3. cs[k].pu # cs[k - 1].final => k \in Breaks(start, cs)
    BY <2>2 DEF Breaks
  <2>4. cs[k].pu = cs[k - 1].final
    BY <2>3
  <2>5. br[i] = cs[k] /\ br[i - 1] = cs[k - 1]
    <3>1. k = start + i - 1 /\ k - 1 = start + i - 1 - 1
      BY <1>0, <1>2, <1>3 DEF k
    <3> QED BY <2>1, <3>1
  <2> QED BY <2>4, <2>5
<1>6. br[1] = cs[start] /\ br[Len(br)] = cs[Len(cs)]
  <2>1. 1 \in 1..Len(cs) - start + 1 /\ Len(br) \in 1..Len(cs) - start + 1
    BY <1>0, <1>2, <1>3
  <2>2. start + 1 - 1 = start /\ start + Len(br) - 1 = Len(cs)
    BY <1>0, <1>2, <1>3
  <2> QED BY <2>1, <2>2, <1>3
<1>7. cs[start].first \in Nat
  BY <1>2 DEF Diff
<1>8. br[1].first <= a + 1 /\ a <= br[1].final
  BY <1>2, <1>6, <1>7
<1>9. br # <<>> /\ cs # <<>>
  <2>1. Len(<<>>) = 0 /\ Len(cs) # 0
    BY <1>0, <1>2
  <2> QED BY <2>1, <1>4
<1> QED BY <1>3, <1>5, <1>6, <1>8, <1>9

LEMMA InvalidateSound ==
  ASSUME NEW b, IsBook(b), b.seen \subseteq Diff
  PROVE  /\ Sound(Invalidate(b)) /\ Invalidate(b).seen = b.seen
         /\ Invalidate(b).pending = <<>> /\ Invalidate(b).state = "GAPPED"
         /\ Invalidate(b).anchor = 0 /\ Invalidate(b).prev = 0
         /\ Invalidate(b).content = NoBook
  BY DEF Invalidate, Sound, IsBook

\* A book that is thrown away but for one diff.
LEMMA KeepOneSound ==
  ASSUME NEW b, IsBook(b), b.seen \subseteq Diff,
         NEW d \in Diff, NEW u \in Nat, d.final <= u,
         \A e \in b.seen : e.final <= u, NEW n \in Nat
  PROVE  LET k == [Invalidate(b) EXCEPT !.pending = <<d>>]
         IN  /\ Sound(k) /\ Within(k, n) /\ Heard(k, u) /\ k.pending = <<d>>
             /\ k.seen = b.seen /\ (d.final = u => UpToDate(k, u))
<1> DEFINE v == Invalidate(b)
           k == [v EXCEPT !.pending = <<d>>]
<1>1. /\ IsBook(v) /\ v.state = "GAPPED" /\ v.anchor = 0 /\ v.prev = 0
      /\ v.content = NoBook /\ v.seen = b.seen
  BY InvalidateSound, InvalidateBook
<1> HIDE DEF v
<1>2. /\ IsBook(k) /\ k.state = "GAPPED" /\ k.anchor = 0 /\ k.prev = 0
      /\ k.content = NoBook /\ k.seen = b.seen /\ k.pending = <<d>>
  BY <1>1 DEF IsBook
<1> HIDE DEF k
<1>3. <<d>> \in Seq(Diff) /\ Len(<<d>>) = 1 /\ DOMAIN <<d>> = {1} /\ <<d>>[1] = d
  OBVIOUS
<1>4. Sound(k)
  BY <1>2, <1>3 DEF Sound
<1>5. Heard(k, u) /\ Within(k, n)
  BY <1>2, <1>3 DEF Heard, Within
<1>6. d.final = u => UpToDate(k, u)
  BY <1>2, <1>3 DEF UpToDate, LastIs
<1> QED BY <1>2, <1>4, <1>5, <1>6 DEF k, v

\* What After keeps is not newer, and reaches to u when the buffer does.
LEMMA AfterHeard ==
  ASSUME NEW p \in Seq(Diff), NEW a \in Nat, NEW u \in Nat,
         \A i \in DOMAIN p : p[i].final <= u
  PROVE  /\ After(a, p) \in Seq(Diff)
         /\ \A i \in DOMAIN After(a, p) : After(a, p)[i].final <= u
         /\ p = <<>> => After(a, p) = <<>>
         /\ LastIs(p, u) => LastIs(After(a, p), u)
<1> DEFINE cs == After(a, p)
<1>1. /\ cs \in Seq(Diff)
      /\ \A i \in DOMAIN cs : \E j \in DOMAIN p : cs[i] = p[j]
      /\ p = <<>> => cs = <<>>
  BY AfterFacts
<1> HIDE DEF cs
<1>2. \A i \in DOMAIN cs : cs[i].final <= u
  BY <1>1
<1>3. ASSUME LastIs(p, u), cs # <<>> PROVE cs[Len(cs)].final = u
  <2>1. p # <<>> /\ p[Len(p)].final = u
    BY <1>1, <1>3 DEF LastIs
  <2>2. cs[Len(cs)] = p[Len(p)]
    BY <2>1, <1>3, AfterFacts DEF cs
  <2> QED BY <2>1, <2>2
<1> QED BY <1>1, <1>2, <1>3 DEF cs, LastIs

\* _try_bridge leaves the exchange's book (l2.py:199-243): what it applies is a
\* chain from an event that spans the snapshot. It reaches to the newest event
\* heard unless it throws away what follows a break.
Bridgeable(b, u, n) ==
  /\ Sound(b) /\ (b.anchor # 0 => b.prev = b.anchor)
  /\ Heard(b, u) /\ Within(b, n)
Bridged(b, u, n, r) ==
  /\ Sound(r.book) /\ Heard(r.book, u) /\ Within(r.book, n)
  /\ r.book.seen = b.seen
  /\ /\ LastIs(b.pending, u) /\ (b.state # "VALID" \/ b.anchor # 0)
     /\ r.change = "GAPPED" => r.book.pending[1].final = u
     => UpToDate(r.book, u)

LEMMA BridgeSound ==
  ASSUME NEW u \in Nat, NEW n \in Nat, u <= n, NEW b, Bridgeable(b, u, n)
  PROVE  Bridged(b, u, n, TryBridge(b))
<1> DEFINE p == b.pending
           cs == After(b.anchor, p)
           spans == Spans(b.anchor, cs)
           start == First(spans)
           breaks == Breaks(start, cs)
           br == Bridge(cs, start)
           r == TryBridge(b)
<1>0. /\ IsBook(b) /\ Sound(b) /\ b.anchor \in Nat /\ b.prev \in Nat /\ p \in Seq(Diff)
      /\ \A i \in DOMAIN p : p[i].final <= u
      /\ b.seen \subseteq Diff /\ \A d \in b.seen : d.final <= u
      /\ b.prev <= n /\ b.anchor <= n
  BY DEF Bridgeable, Sound, Heard, Within
<1>1. /\ cs \in Seq(Diff) /\ \A i \in DOMAIN cs : cs[i].final <= u
      /\ p = <<>> => cs = <<>>
      /\ LastIs(p, u) => LastIs(cs, u)
  BY <1>0, AfterHeard
<1>2. \A i \in DOMAIN cs : cs[i].final <= u /\ cs[i] \in Diff /\ cs[i].final \in Nat
  <2>1. \A i \in DOMAIN cs : cs[i] \in Diff
    BY <1>1
  <2> QED BY <2>1, <1>1 DEF Diff
<1> HIDE DEF p, cs, spans, start, breaks, br
<1>4. CASE b.anchor = 0
  <2>1. r = Result(b, "none")
    BY <1>4 DEF TryBridge
  <2>2. r.book = b
    BY <2>1 DEF Result
  <2> QED BY <2>2, <1>4 DEF Bridged, Bridgeable, UpToDate
<1>5. CASE b.anchor # 0 /\ spans = {}
  <2> DEFINE m == [b EXCEPT !.pending = cs]
  <2>1. r = Result(m, "none")
    BY <1>5 DEF TryBridge, cs, spans, p
  <2>2. r.book = m
    BY <2>1 DEF Result
  <2>3. /\ IsBook(m) /\ m.pending = cs /\ m.state = b.state /\ m.content = b.content
        /\ m.prev = b.prev /\ m.anchor = b.anchor /\ m.seen = b.seen
    BY <1>0 DEF IsBook
  <2> HIDE DEF m
  <2>4. Sound(m)
    BY <2>3, <1>0, <1>1 DEF Sound, p
  <2>5. Heard(m, u) /\ Within(m, n)
    BY <2>3, <1>0, <1>2 DEF Heard, Within
  <2>6. LastIs(b.pending, u) => UpToDate(m, u)
    BY <2>3, <1>1, <1>5 DEF UpToDate, p
  <2> QED BY <2>2, <2>3, <2>4, <2>5, <2>6 DEF Bridged
<1>6. CASE b.anchor # 0 /\ spans # {} /\ breaks # {}
  <2> DEFINE d == cs[First(breaks)]
             k == [Invalidate(b) EXCEPT !.pending = <<d>>]
  <2>1. r = Result(k, "GAPPED")
    BY <1>6 DEF TryBridge, cs, spans, start, breaks, p
  <2>2. r.book = k /\ r.change = "GAPPED"
    BY <2>1 DEF Result
  <2>3. First(breaks) \in DOMAIN cs
    <3>1. breaks \subseteq DOMAIN cs
      BY DEF breaks, Breaks
    <3>2. DOMAIN cs \subseteq Nat
      BY <1>1
    <3> QED BY <3>1, <3>2, <1>6, FirstFacts
  <2>4. d \in Diff /\ d.final <= u
    BY <2>3, <1>2
  <2> HIDE DEF d
  <2>5. /\ Sound(k) /\ Within(k, n) /\ Heard(k, u) /\ k.pending = <<d>>
        /\ k.seen = b.seen /\ (d.final = u => UpToDate(k, u))
    BY <2>4, <1>0, KeepOneSound
  <2> HIDE DEF k
  <2>6. k.pending[1] = d
    BY <2>5
  <2> QED BY <2>2, <2>5, <2>6 DEF Bridged
<1>7. CASE b.anchor # 0 /\ spans # {} /\ breaks = {}
  <2> DEFINE x == Apply(b.content, br)
             f == br[Len(br)].final
             m == [b EXCEPT !.state = "VALID", !.content = x, !.prev = f,
                            !.pending = <<>>, !.anchor = 0]
  <2>1. r = Result(m, "VALID")
    BY <1>7 DEF TryBridge, cs, spans, start, breaks, br, p
  <2>2. r.book = m /\ r.change = "VALID"
    BY <2>1 DEF Result
  <2>3. /\ br \in Seq(Diff) /\ br # <<>> /\ Chain(br)
        /\ br[1].first <= b.anchor + 1 /\ b.anchor <= br[1].final
        /\ cs # <<>> /\ br[Len(br)] = cs[Len(cs)]
    <3>1. br = Bridge(cs, start) /\ start = First(Spans(b.anchor, cs))
      BY DEF br, start, spans
    <3>2. Spans(b.anchor, cs) # {} /\ Breaks(start, cs) = {}
      BY <1>7 DEF spans, breaks
    <3>3. cs \in Seq(Diff) /\ b.anchor \in Nat
      BY <1>0, <1>1
    <3> QED BY <3>1, <3>2, <3>3, BridgeFacts
  <2>4. x = Exchange(f)
    <3>1. b.content = Exchange(b.anchor)
      BY <1>7 DEF Bridgeable, Sound
    <3> QED BY <3>1, <2>3, <1>0, ApplyExact
  <2>5. f = cs[Len(cs)].final /\ f \in Nat /\ f <= u /\ f <= n
    <3>1. Len(cs) \in DOMAIN cs
      BY <2>3, <1>1
    <3> QED BY <3>1, <2>3, <1>2
  <2>6. LastIs(b.pending, u) => f = u
    BY <2>3, <2>5, <1>1 DEF LastIs, p
  <2>7. Exchange(f) # NoBook
    BY ExchangeIsABook
  <2> HIDE DEF x, f
  <2>8. /\ IsBook(m) /\ m.pending = <<>> /\ m.state = "VALID" /\ m.content = x
        /\ m.prev = f /\ m.anchor = 0 /\ m.seen = b.seen
    BY <1>0 DEF IsBook
  <2> HIDE DEF m
  <2>9. Sound(m)
    BY <2>8, <2>4, <2>5, <2>7, <1>0 DEF Sound
  <2>10. Heard(m, u) /\ Within(m, n)
    BY <2>8, <2>5, <1>0 DEF Heard, Within
  <2>11. LastIs(b.pending, u) => UpToDate(m, u)
    BY <2>8, <2>6 DEF UpToDate, LastIs
  <2> QED BY <2>2, <2>8, <2>9, <2>10, <2>11 DEF Bridged
<1> QED BY <1>4, <1>5, <1>6, <1>7

\* A diff: the book has heard everything up to u, the end of the diff.
LEMMA DiffSound ==
  ASSUME NEW u \in Nat, NEW n \in Nat, u <= n, NEW b,
         Sound(b), Heard(b, u), Within(b, n),
         NEW d \in Diff, d.final = u
  PROVE  LET r == OnDiff(b, d)
         IN  /\ Sound(r.book) /\ Heard(r.book, u) /\ Within(r.book, n)
             /\ /\ d \in b.seen => UpToDate(b, u)
                /\ r.change = "GAPPED" => r.book.pending[1].final = u
                => UpToDate(r.book, u)
<1> DEFINE r == OnDiff(b, d)
           v == Noted(b, d)
<1>0. /\ IsBook(b) /\ b.prev \in Nat /\ b.anchor \in Nat
      /\ b.pending \in Seq(Diff) /\ b.seen \subseteq Diff
      /\ \A i \in DOMAIN b.pending : b.pending[i].final <= u
      /\ b.prev <= n /\ b.anchor <= n
  BY DEF Sound, Heard, Within
<1>1. /\ IsBook(v) /\ v.state = b.state /\ v.anchor = b.anchor /\ v.prev = b.prev
      /\ v.content = b.content /\ v.pending = b.pending /\ v.seen = b.seen \cup {d}
  BY <1>0 DEF Noted, IsBook
<1>2. v.seen \subseteq Diff /\ \A e \in v.seen : e.final <= u
  BY <1>0, <1>1 DEF Heard
<1> HIDE DEF v
<1>3. CASE d \in b.seen
  <2>1. r.book = b
    BY <1>3 DEF OnDiff, Result
  <2> QED BY <2>1, <1>3
<1>4. CASE d \notin b.seen /\ b.state # "VALID"
  <2> DEFINE q == Append(b.pending, d)
             m == [v EXCEPT !.pending = Append(@, d)]
  <2>1. r = TryBridge(m)
    BY <1>4 DEF OnDiff, v
  <2>2. /\ IsBook(m) /\ m.state = b.state /\ m.anchor = b.anchor /\ m.prev = b.prev
        /\ m.content = b.content /\ m.pending = q /\ m.seen = v.seen
    BY <1>1 DEF IsBook
  <2>3. /\ q \in Seq(Diff) /\ q # <<>> /\ q[Len(q)] = d
        /\ \A i \in DOMAIN q : q[i].final <= u
    <3>1. /\ q \in Seq(Diff) /\ Len(q) = Len(b.pending) + 1 /\ q[Len(q)] = d
          /\ \A i \in 1..Len(b.pending) : q[i] = b.pending[i]
      BY <1>0
    <3>2. Len(b.pending) \in Nat /\ DOMAIN q = 1..(Len(b.pending) + 1)
          /\ DOMAIN b.pending = 1..Len(b.pending)
      BY <3>1, <1>0
    <3> HIDE DEF q
    <3>3. ASSUME NEW i \in 1..(Len(b.pending) + 1) PROVE q[i].final <= u
      <4>1. i \in 1..Len(b.pending) \/ i = Len(q)
        BY <3>1, <3>2
      <4>2. CASE i \in 1..Len(b.pending)
        BY <4>2, <3>1, <3>2, <1>0
      <4>3. CASE i = Len(q)
        <5>1. q[i] = d
          BY <4>3, <3>1
        <5> QED BY <5>1
      <4> QED BY <4>1, <4>2, <4>3
    <3>4. q # <<>>
      BY <3>1, <3>2
    <3> QED BY <3>1, <3>2, <3>3, <3>4
  <2> HIDE DEF q, m
  <2>4. Sound(m)
    BY <2>2, <2>3, <1>2, <1>4 DEF Sound
  <2>5. Bridgeable(m, u, n)
    BY <2>2, <2>3, <2>4, <1>0, <1>2, <1>4 DEF Bridgeable, Heard, Within, Sound
  <2>6. LastIs(m.pending, u)
    BY <2>2, <2>3 DEF LastIs
  <2> QED BY <2>1, <2>2, <2>5, <2>6, <1>4, BridgeSound DEF Bridged
<1>5. CASE d \notin b.seen /\ b.state = "VALID" /\ d.pu # b.prev
  <2> DEFINE k == [Invalidate(v) EXCEPT !.pending = <<d>>]
  <2>1. r.book = k
    BY <1>5 DEF OnDiff, Result, v
  <2>2. /\ Sound(k) /\ Within(k, n) /\ Heard(k, u) /\ UpToDate(k, u)
    <3>1. d.final <= u
      OBVIOUS
    <3> QED BY <3>1, <1>1, <1>2, KeepOneSound
  <2> QED BY <2>1, <2>2
<1>6. CASE d \notin b.seen /\ b.state = "VALID" /\ d.pu = b.prev
  <2> DEFINE x == Apply(b.content, <<d>>)
             m == [v EXCEPT !.content = x, !.prev = u]
  <2>1. r.book = m
    BY <1>6, <1>1 DEF OnDiff, Result, v
  <2>2. b.content = Exchange(b.prev) /\ b.pending = <<>>
    BY <1>6 DEF Sound
  <2>3. x = Exchange(u)
    <3>1. <<d>> \in Seq(Diff) /\ <<d>> # <<>> /\ Len(<<d>>) = 1 /\ <<d>>[1] = d
      OBVIOUS
    <3>2. Chain(<<d>>)
      BY <3>1 DEF Chain
    <3>3. d.first <= b.prev + 1 /\ b.prev <= d.final
      BY <1>6, <1>0 DEF Diff
    <3> QED BY <3>1, <3>2, <3>3, <2>2, <1>0, ApplyExact
  <2>4. Exchange(u) # NoBook
    BY ExchangeIsABook
  <2> HIDE DEF x
  <2>5. /\ IsBook(m) /\ m.state = "VALID" /\ m.anchor = b.anchor /\ m.prev = u
        /\ m.content = x /\ m.pending = <<>> /\ m.seen = v.seen
    BY <1>1, <1>6, <2>2 DEF IsBook
  <2> HIDE DEF m
  <2>6. Sound(m)
    BY <2>5, <2>3, <2>4, <1>0, <1>2 DEF Sound
  <2>7. Heard(m, u) /\ Within(m, n) /\ UpToDate(m, u)
    BY <2>5, <1>0, <1>2 DEF Heard, Within, UpToDate, LastIs
  <2> QED BY <2>1, <2>6, <2>7
<1> QED BY <1>3, <1>4, <1>5, <1>6

\* A snapshot of the exchange at update id.
LEMMA SnapshotSound ==
  ASSUME NEW u \in Nat, NEW n \in Nat, u <= n, NEW b,
         Sound(b), Heard(b, u), Within(b, n),
         NEW id \in Nat \ {0}, id <= n
  PROVE  LET r == OnSnapshot(b, id)
         IN  /\ Sound(r.book) /\ Heard(r.book, u) /\ Within(r.book, n)
             /\ /\ UpToDate(b, u)
                /\ r.change = "GAPPED" => r.book.pending[1].final = u
                => UpToDate(r.book, u)
<1> DEFINE m == [b EXCEPT !.content = Exchange(id), !.prev = id, !.anchor = id]
<1>1. OnSnapshot(b, id) = TryBridge(m)
  BY DEF OnSnapshot
<1>2. /\ IsBook(m) /\ m.state = b.state /\ m.anchor = id /\ m.prev = id
      /\ m.content = Exchange(id) /\ m.pending = b.pending /\ m.seen = b.seen
  BY DEF Sound, IsBook
<1> HIDE DEF m
<1>3. Sound(m)
  BY <1>2, ExchangeIsABook DEF Sound
<1>4. Bridgeable(m, u, n)
  BY <1>2, <1>3 DEF Bridgeable, Heard, Within
<1>5. UpToDate(b, u) => LastIs(m.pending, u)
  BY <1>2 DEF UpToDate
<1> QED BY <1>1, <1>2, <1>4, <1>5, BridgeSound DEF Bridged

-----------------------------------------------------------------------------
\* The invariant

Exchanged ==
  /\ last \in 1..MaxUpdates /\ events \in Seq(Diff)
  /\ \A j \in DOMAIN events : events[j].final <= last
  /\ \A j \in DOMAIN events : \A i \in 1..(j - 1) : events[i].final <= events[j].pu

\* What a connection has delivered lies before what it still has to read.
Stream(k, es, n) ==
  /\ DOMAIN k = {"status", "read", "u", "fetch", "pending", "closing"}
  /\ k.status \in {"new", "up", "gone"}
  /\ k.read \in 0..Len(es) /\ k.u \in 0..n
  /\ k.pending \in BOOLEAN /\ k.closing \in BOOLEAN
  /\ DOMAIN k.fetch \subseteq Fetches
  /\ \A f \in DOMAIN k.fetch : k.fetch[f] \in 0..n
  /\ k.status = "new" => k.u = 0
  /\ \A i \in DOMAIN es : i > k.read => k.u <= es[i].pu
Streams == DOMAIN conn = Conn /\ \A c \in Conn : Stream(conn[c], events, last)

Book(b, u, n) == Sound(b) /\ Heard(b, u) /\ Within(b, n)
Books ==
  \A c \in Conn :
    /\ Book(central.books[c], conn[c].u, last)
    /\ c \in cut \/ UpToDate(central.books[c], conn[c].u)

Scalars ==
  /\ liveness \in {"none", "silent", "asked", "fresh"}
  /\ current \in Conn \cup {NoConn} /\ successor \in Conn \cup {NoConn}
  /\ successor # NoConn => current # NoConn
  /\ affected \in BOOLEAN
  /\ anchoredBy \subseteq Conn
  /\ drops \in 0..MaxDrops /\ repeats \in 0..MaxRepeats
  /\ days \in 0..MaxDays /\ silences \in 0..MaxSilences
Rest == Scalars /\ central.gaps \subseteq Gap /\ cut \subseteq Conn

Exact == Inv /\ Exchanged /\ Streams /\ Books /\ Rest

-----------------------------------------------------------------------------
LEMMA ExactTypes == Exact => TypeOK
<1> SUFFICES ASSUME Exact PROVE TypeOK
  OBVIOUS
<1>1. events \in Seq([first : Nat, final : Nat, pu : Nat])
  <2>1. Diff \subseteq [first : Nat, final : Nat, pu : Nat]
    BY DEF Diff
  <2> QED BY <2>1, SeqMonotonic DEF Exact, Exchanged
<1>2. last \in Nat
  BY BoundAssumption DEF Exact, Exchanged
<1>3. ASSUME NEW c \in Conn
      PROVE  LET b == central.books[c]
             IN  /\ b.state \in {"UNANCHORED", "VALID", "GAPPED"}
                 /\ b.prev \in 0..last /\ b.anchor \in 0..last
                 /\ b.anchor # 0 => b.content # NoBook
  BY <1>2 DEF Exact, Books, Book, Sound, Within
<1>4. /\ central.authority \in Conn \cup {NoConn}
      /\ central.lastValid \in Conn \cup {NoConn}
      /\ DOMAIN central.books = Conn
  BY DEF Exact, Inv, Good, Shape
<1>5. \A c \in Conn :
       /\ conn[c].status \in {"new", "up", "gone"}
       /\ conn[c].read \in 0..Len(events) /\ conn[c].u \in 0..last
       /\ conn[c].pending \in BOOLEAN /\ conn[c].closing \in BOOLEAN
       /\ DOMAIN conn[c].fetch \subseteq Fetches
       /\ \A f \in DOMAIN conn[c].fetch : conn[c].fetch[f] \in 0..last
  BY DEF Exact, Streams, Stream
<1> QED BY <1>1, <1>3, <1>4, <1>5 DEF Exact, Exchanged, Rest, Scalars, TypeOK

LEMMA FreshFacts ==
  /\ IsBook(Fresh) /\ Fresh.state = "UNANCHORED" /\ Fresh.content = NoBook
  /\ Fresh.prev = 0 /\ Fresh.pending = <<>> /\ Fresh.seen = {} /\ Fresh.anchor = 0
  BY DEF Fresh, IsBook

LEMMA FreshBook ==
  ASSUME NEW u \in Nat, NEW n \in Nat
  PROVE  Book(Fresh, u, n) /\ UpToDate(Fresh, u)
  BY FreshFacts DEF Book, Sound, Heard, Within, UpToDate, LastIs

LEMMA ExactInit == Init => Exact
<1> SUFFICES ASSUME Init PROVE Exact
  OBVIOUS
<1>1. Inv
  BY InvInit
<1>2. Exchanged
  BY BoundAssumption DEF Init, Exchanged
<1>3. /\ DOMAIN conn = Conn
      /\ \A c \in Conn : conn[c] = Unused \/ conn[c] = Connected
  BY DEF Init
<1>4. Stream(Unused, events, last) /\ Unused.u = 0
  BY <1>2, BoundAssumption DEF Unused, Stream, NoFetch, Init
<1>5. Stream(Connected, events, last) /\ Connected.u = 0
  <2>1. Asked(NoFetch, "initial") = [g \in {"initial"} |-> 0]
    BY DEF Asked, NoFetch
  <2> QED BY <2>1, <1>2, BoundAssumption DEF Connected, Stream, Init, Fetches, Exchanged
<1>6. Streams
  BY <1>3, <1>4, <1>5 DEF Streams
<1>7. Books
  <2>1. \A c \in Conn : central.books[c] = Fresh /\ conn[c].u = 0
    BY <1>3, <1>4, <1>5 DEF Init
  <2>2. last \in Nat /\ 0 \in Nat
    BY DEF Init
  <2> QED BY <2>1, <2>2, FreshBook DEF Books
<1>8. Rest
  <2>1. 1 \in Conn
    BY BoundAssumption DEF Conn
  <2>2. central.gaps = {} /\ current = 1 /\ successor = NoConn
    BY DEF Init
  <2>3. 0 \in 0..MaxDrops /\ 0 \in 0..MaxRepeats /\ 0 \in 0..MaxDays /\ 0 \in 0..MaxSilences
    BY BoundAssumption
  <2> QED BY <2>1, <2>2, <2>3 DEF Init, Rest, Scalars
<1> QED BY <1>1, <1>2, <1>6, <1>7, <1>8 DEF Exact

\* A book is not disturbed by what its connection and the exchange add.
LEMMA BookGrows ==
  ASSUME NEW b, NEW u \in Nat, NEW n \in Nat, Book(b, u, n),
         NEW w \in Nat, u <= w, NEW m \in Nat, n <= m
  PROVE  Book(b, w, m)
<1>1. \A i \in DOMAIN b.pending : b.pending[i].final \in Nat
  BY DEF Book, Sound, Diff
<1>2. \A d \in b.seen : d.final \in Nat
  BY DEF Book, Sound, Diff
<1>3. Heard(b, w)
  BY <1>1, <1>2 DEF Book, Heard
<1>4. Within(b, m)
  BY DEF Book, Sound, Within
<1> QED BY <1>3, <1>4 DEF Book

\* OPEN leaves books that need nothing.
LEMMA InvalidateKeeps ==
  ASSUME NEW b, NEW u \in Nat, NEW n \in Nat, Book(b, u, n)
  PROVE  Book(Invalidate(b), u, n) /\ UpToDate(Invalidate(b), u)
<1>1. IsBook(b) /\ b.seen \subseteq Diff /\ \A d \in b.seen : d.final <= u
  BY DEF Book, Sound, Heard
<1>2. /\ Sound(Invalidate(b)) /\ Invalidate(b).seen = b.seen
      /\ Invalidate(b).pending = <<>> /\ Invalidate(b).state = "GAPPED"
      /\ Invalidate(b).anchor = 0 /\ Invalidate(b).prev = 0
  BY <1>1, InvalidateSound
<1> QED BY <1>1, <1>2 DEF Book, Heard, Within, UpToDate, LastIs

\* A worthless book reports nothing for a diff.
LEMMA WorthlessSilent ==
  ASSUME NEW b, IsBook(b), ~Worth(b), NEW d
  PROVE  OnDiff(b, d).change = "none"
<1>1. CASE d \in b.seen
  BY <1>1 DEF OnDiff, Result
<1>2. CASE d \notin b.seen
  <2> DEFINE m == [Noted(b, d) EXCEPT !.pending = Append(@, d)]
  <2>1. m.anchor = 0
    BY DEF Noted, IsBook, Worth
  <2>2. OnDiff(b, d) = TryBridge(m)
    BY <1>2 DEF OnDiff, Worth
  <2> HIDE DEF m
  <2> QED BY <2>1, <2>2 DEF TryBridge, Result
<1> QED BY <1>1, <1>2

-----------------------------------------------------------------------------
\* The connections

\* A step that changes one connection.
LEMMA StreamUpdate ==
  ASSUME Streams, NEW c \in Conn, NEW k, Stream(k, events, last),
         conn' = [conn EXCEPT ![c] = k], UNCHANGED <<last, events>>
  PROVE  Streams'
  BY DEF Streams

\* A connection that asks for a snapshot, or has its answer.
LEMMA FetchFacts ==
  ASSUME NEW t, NEW n \in Nat, DOMAIN t \subseteq Fetches,
         \A g \in DOMAIN t : t[g] \in 0..n, NEW f
  PROVE  /\ f \in Fetches => /\ DOMAIN Asked(t, f) \subseteq Fetches
                             /\ \A g \in DOMAIN Asked(t, f) : Asked(t, f)[g] \in 0..n
         /\ DOMAIN Answered(t, f) \subseteq Fetches
         /\ \A g \in DOMAIN Answered(t, f) : Answered(t, f)[g] \in 0..n
<1>1. /\ DOMAIN Asked(t, f) = DOMAIN t \cup {f}
      /\ \A g \in DOMAIN t \cup {f} : Asked(t, f)[g] = IF g = f THEN 0 ELSE t[g]
  BY DEF Asked
<1>2. /\ DOMAIN Answered(t, f) = DOMAIN t \ {f}
      /\ \A g \in DOMAIN t \ {f} : Answered(t, f)[g] = t[g]
  BY DEF Answered
<1> QED BY <1>1, <1>2

LEMMA ConnectedStream ==
  ASSUME Exchanged
  PROVE  Stream(Connected, events, last) /\ Connected.u = 0
<1>1. Asked(NoFetch, "initial") = [g \in {"initial"} |-> 0]
  BY DEF Asked, NoFetch
<1>2. last \in Nat /\ Len(events) \in Nat /\ DOMAIN events = 1..Len(events)
  BY DEF Exchanged
<1> QED BY <1>1, <1>2 DEF Connected, Stream, Fetches

\* A connection that delivers d and moves on, unless it has delivered it before.
Read(c, d) ==
  /\ Up(c) /\ d \in Diff /\ d.final <= last
  /\ conn[c].u <= d.final /\ (d.final # conn[c].u => conn[c].u < d.final)
  /\ d.final # conn[c].u => conn[c].read < Len(events) /\ d = events[conn[c].read + 1]

LEMMA DeliverReads ==
  ASSUME Exchanged, Streams, NEW c \in Conn, Up(c), conn[c].read < Len(events)
  PROVE  /\ Read(c, events[conn[c].read + 1])
         /\ conn[c].u < events[conn[c].read + 1].final
<1> DEFINE k == conn[c]
           d == events[k.read + 1]
<1>1. /\ events \in Seq(Diff) /\ k.read \in Nat /\ k.u \in Nat
      /\ k.read + 1 \in DOMAIN events /\ k.read + 1 > k.read
  BY BoundAssumption DEF Exchanged, Streams, Stream
<1>2. d \in Diff /\ d.final <= last
  BY <1>1 DEF Exchanged
<1>3. k.u <= d.pu
  BY <1>1 DEF Streams, Stream
<1>4. d.pu \in Nat /\ d.final \in Nat /\ d.pu < d.final
  BY <1>2 DEF Diff
<1> QED BY <1>1, <1>2, <1>3, <1>4 DEF Read

LEMMA RepeatReads ==
  ASSUME Exchanged, Streams, NEW c \in Conn, Up(c),
         NEW i \in DOMAIN events, events[i].final = conn[c].u
  PROVE  Read(c, events[i])
<1>1. events[i] \in Diff /\ events[i].final <= last /\ conn[c].u \in Nat
  BY DEF Exchanged, Streams, Stream
<1> QED BY <1>1 DEF Read

LEMMA TakeStream ==
  ASSUME Exchanged, Streams, NEW c \in Conn, NEW d, Read(c, d), Take(c, d),
         UNCHANGED <<last, events>>
  PROVE  Streams' /\ conn'[c].u = d.final /\ \A e \in Conn \ {c} : conn'[e] = conn[e]
<1> DEFINE old == conn[c]
           t == IF Discontinuity(c, d) THEN Asked(old.fetch, "reanchor") ELSE old.fetch
           m == IF d.final = old.u THEN old.read ELSE old.read + 1
           k == [old EXCEPT !.u = d.final, !.fetch = t, !.read = m]
<1>0. /\ Stream(old, events, last) /\ last \in Nat /\ Len(events) \in Nat
      /\ DOMAIN events = 1..Len(events) /\ old.u \in Nat /\ old.read \in Nat
      /\ d \in Diff /\ d.final \in Nat
  <2>1. Stream(old, events, last) /\ d \in Diff
    BY DEF Streams, Read
  <2>2. last \in Nat /\ Len(events) \in Nat /\ DOMAIN events = 1..Len(events)
    BY DEF Exchanged
  <2>3. d.final \in Nat
    BY <2>1 DEF Diff
  <2> QED BY <2>1, <2>2, <2>3 DEF Stream
<1>1. conn' = [conn EXCEPT ![c] = k]
  BY DEF Take
<1>2. DOMAIN t \subseteq Fetches /\ \A g \in DOMAIN t : t[g] \in 0..last
  <2>1. "reanchor" \in Fetches
    BY DEF Fetches
  <2> QED BY <2>1, <1>0, FetchFacts DEF Stream
<1>3. m \in 0..Len(events) /\ old.read <= m
  BY <1>0 DEF Stream, Read
<1>4. \A i \in DOMAIN events : i > m => d.final <= events[i].pu
  <2> SUFFICES ASSUME NEW i \in DOMAIN events, i > m PROVE d.final <= events[i].pu
    OBVIOUS
  <2>1. CASE d.final = old.u
    BY <2>1, <1>0 DEF Stream
  <2>2. CASE d.final # old.u
    <3>1. d = events[old.read + 1] /\ old.read + 1 \in 1..(i - 1)
      BY <2>2, <1>0 DEF Read
    <3> QED BY <3>1 DEF Exchanged
  <2> QED BY <2>1, <2>2
<1> HIDE DEF t, m
<1>5. /\ DOMAIN k = DOMAIN old /\ k.u = d.final /\ k.fetch = t /\ k.read = m
      /\ k.status = old.status /\ k.pending = old.pending /\ k.closing = old.closing
  BY <1>0 DEF Stream
<1>6. old.status = "up" /\ d.final \in 0..last
  BY <1>0 DEF Read, Up
<1> HIDE DEF k
<1>7. Stream(k, events, last)
  BY <1>0, <1>2, <1>3, <1>4, <1>5, <1>6 DEF Stream
<1>8. Streams'
  BY <1>1, <1>7, StreamUpdate
<1> QED BY <1>1, <1>5, <1>8 DEF Streams

\* The exchange's next event.
LEMMA EmitExchanged ==
  ASSUME Exchanged, Streams, NEW n \in 1..2, Emit(n)
  PROVE  Exchanged' /\ Streams'
<1> DEFINE d == [first |-> last + 1, final |-> last + n, pu |-> last]
<1>0. /\ last \in Nat /\ last >= 1 /\ MaxUpdates \in Nat /\ events \in Seq(Diff)
      /\ last' = last + n /\ last' <= MaxUpdates /\ events' = Append(events, d)
      /\ conn' = conn
  BY BoundAssumption DEF Exchanged, Emit, collector
<1>1. d \in Diff
  BY <1>0 DEF Diff
<1>2. d.pu = last /\ d.final = last'
  BY <1>0
<1> HIDE DEF d
<1>3. /\ events' \in Seq(Diff) /\ Len(events') = Len(events) + 1
      /\ DOMAIN events = 1..Len(events) /\ Len(events) \in Nat
      /\ DOMAIN events' = 1..(Len(events) + 1)
      /\ events'[Len(events) + 1] = d
      /\ \A i \in DOMAIN events : events'[i] = events[i]
  BY <1>0, <1>1
<1>4. \A i \in DOMAIN events :
        events[i].final \in Nat /\ events[i].final <= last /\ events'[i].final <= last'
  <2>1. \A i \in DOMAIN events : events[i].final \in Nat /\ events[i].final <= last
    BY <1>0 DEF Exchanged, Diff
  <2> QED BY <2>1, <1>0, <1>3
<1>5. Exchanged'
  <2>1. \A j \in DOMAIN events' : events'[j].final <= last'
    BY <1>0, <1>2, <1>3, <1>4
  <2>2. ASSUME NEW j \in DOMAIN events', NEW i \in 1..(j - 1)
        PROVE  events'[i].final <= events'[j].pu
    <3>1. i \in DOMAIN events
      BY <1>3
    <3>2. CASE j \in DOMAIN events
      BY <3>1, <3>2, <1>3 DEF Exchanged
    <3>3. CASE j = Len(events) + 1
      BY <3>1, <3>3, <1>2, <1>3, <1>4
    <3> QED BY <3>2, <3>3, <1>3
  <2>3. last' \in 1..MaxUpdates
    BY <1>0
  <2> QED BY <2>1, <2>2, <2>3, <1>3 DEF Exchanged
<1>6. ASSUME NEW c \in Conn PROVE Stream(conn[c], events', last')
  <2> DEFINE k == conn[c]
  <2>1. Stream(k, events, last)
    BY DEF Streams
  <2> HIDE DEF k
  <2>2. k.read \in 0..Len(events') /\ k.u \in 0..last'
    BY <2>1, <1>0, <1>3 DEF Stream
  <2>3. \A f \in DOMAIN k.fetch : k.fetch[f] \in 0..last'
    BY <2>1, <1>0 DEF Stream
  <2>4. \A i \in DOMAIN events' : i > k.read => k.u <= events'[i].pu
    <3> SUFFICES ASSUME NEW i \in DOMAIN events', i > k.read PROVE k.u <= events'[i].pu
      OBVIOUS
    <3>1. CASE i \in DOMAIN events
      BY <3>1, <2>1, <1>3 DEF Stream
    <3>2. CASE i = Len(events) + 1
      BY <3>2, <2>1, <1>2, <1>3, <1>0 DEF Stream
    <3> QED BY <3>1, <3>2, <1>3
  <2> QED BY <2>1, <2>2, <2>3, <2>4 DEF Stream, k
<1>7. Streams'
  BY <1>0, <1>6 DEF Streams
<1> QED BY <1>5, <1>7

\* A connection that is not used any more.
LEMMA GoneStreams ==
  ASSUME Streams, NEW c \in Conn, conn' = Gone(c), UNCHANGED <<last, events>>
  PROVE  Streams' /\ \A e \in Conn : conn'[e].u = conn[e].u
<1> DEFINE old == conn[c]
           k == [old EXCEPT !.status = "gone", !.fetch = NoFetch,
                            !.pending = FALSE, !.closing = FALSE]
<1>1. conn' = [conn EXCEPT ![c] = k] /\ Stream(old, events, last) /\ DOMAIN conn = Conn
  BY DEF Gone, Streams
<1>2. DOMAIN NoFetch = {}
  BY DEF NoFetch
<1>3. Stream(k, events, last) /\ k.u = old.u
  BY <1>1, <1>2 DEF Stream
<1> QED BY <1>1, <1>3, StreamUpdate

\* The steps of one connection that deliver nothing.
LEMMA QuietStreams ==
  ASSUME Exchanged, Streams, NEW c \in Conn,
         Serve(c) \/ Skip(c) \/ SnapshotArrives(c) \/ CloseDepthGap(c)
  PROVE  Streams' /\ \A e \in Conn : conn'[e].u = conn[e].u
<1> DEFINE old == conn[c]
<1>0. /\ Stream(old, events, last) /\ DOMAIN conn = Conn /\ last \in Nat
      /\ UNCHANGED <<last, events>>
      /\ events \in Seq(Diff) /\ Len(events) \in Nat /\ DOMAIN events = 1..Len(events)
  <2>1. UNCHANGED <<last, events>>
    BY DEF Serve, Skip, SnapshotArrives, CloseDepthGap
  <2>2. Stream(old, events, last) /\ DOMAIN conn = Conn
    BY DEF Streams
  <2>3. /\ last \in Nat /\ events \in Seq(Diff) /\ Len(events) \in Nat
        /\ DOMAIN events = 1..Len(events)
    BY DEF Exchanged
  <2> QED BY <2>1, <2>2, <2>3
<1> SUFFICES \E k : /\ conn' = [conn EXCEPT ![c] = k] /\ Stream(k, events, last)
                    /\ k.u = old.u
  BY <1>0, StreamUpdate
<1>1. CASE Serve(c)
  <2>1. PICK f \in DOMAIN old.fetch : conn' = [conn EXCEPT ![c].fetch[f] = last]
    BY <1>1 DEF Serve
  <2> DEFINE t == [old.fetch EXCEPT ![f] = last]
             k == [old EXCEPT !.fetch = t]
  <2>2. conn' = [conn EXCEPT ![c] = k]
    BY <2>1
  <2>3. DOMAIN t \subseteq Fetches /\ \A g \in DOMAIN t : t[g] \in 0..last
    BY <1>0 DEF Stream
  <2> HIDE DEF t
  <2>4. Stream(k, events, last) /\ k.u = old.u
    BY <1>0, <2>3 DEF Stream
  <2> QED BY <2>2, <2>4
<1>2. CASE Skip(c)
  <2> DEFINE k == [old EXCEPT !.read = @ + 1]
  <2>1. conn' = [conn EXCEPT ![c] = k] /\ old.status = "up" /\ old.read < Len(events)
    BY <1>2 DEF Skip, Up
  <2>2. Stream(k, events, last) /\ k.u = old.u
    BY <1>0, <2>1 DEF Stream
  <2> QED BY <2>1, <2>2
<1>3. CASE SnapshotArrives(c)
  <2>1. PICK f \in DOMAIN old.fetch :
          conn' = [conn EXCEPT ![c].fetch = Answered(@, f), ![c].pending = FALSE,
                               ![c].closing = @ \/ f = "reanchor"]
    BY <1>3 DEF SnapshotArrives
  <2> DEFINE t == Answered(old.fetch, f)
             x == old.closing \/ f = "reanchor"
             k == [old EXCEPT !.fetch = t, !.pending = FALSE, !.closing = x]
  <2>2. conn' = [conn EXCEPT ![c] = k]
    BY <2>1, <1>0
  <2>3. /\ DOMAIN t \subseteq Fetches /\ \A g \in DOMAIN t : t[g] \in 0..last
        /\ x \in BOOLEAN
    BY <1>0, FetchFacts DEF Stream
  <2> HIDE DEF t, x
  <2>4. Stream(k, events, last) /\ k.u = old.u
    BY <1>0, <2>3 DEF Stream
  <2> QED BY <2>2, <2>4
<1>4. CASE CloseDepthGap(c)
  <2> DEFINE k == [old EXCEPT !.closing = FALSE]
  <2>1. conn' = [conn EXCEPT ![c] = k]
    BY <1>4 DEF CloseDepthGap
  <2>2. Stream(k, events, last) /\ k.u = old.u
    BY <1>0 DEF Stream
  <2> QED BY <2>1, <2>2
<1> QED BY <1>1, <1>2, <1>3, <1>4

\* The steps of the route.
LEMMA RouteStreams ==
  ASSUME Exact, RouteStep
  PROVE  /\ Streams' /\ \A e \in Conn : conn'[e].u = conn[e].u
         /\ UNCHANGED <<last, events>>
<1>0. Exchanged /\ Streams /\ current \in Conn \cup {NoConn}
      /\ successor \in Conn \cup {NoConn} /\ (successor # NoConn => current # NoConn)
  BY DEF Exact, Rest, Scalars
<1>u. UNCHANGED <<last, events>>
  BY DEF RouteStep, LastProof, Lost, Connect, CloseTransportGap, Rotate, SuccessorFails,
         Handover, Silent, Refresh, CloseLivenessGap
<1>1. CASE LastProof \/ CloseTransportGap \/ Silent \/ CloseLivenessGap
  <2>1. UNCHANGED conn
    BY <1>1 DEF LastProof, CloseTransportGap, Silent, CloseLivenessGap, collector
  <2> QED BY <2>1, <1>0, <1>u DEF Streams
<1>2. CASE Lost \/ SuccessorFails \/ Handover
  <2>1. current \in Conn \/ successor \in Conn
    BY <1>0, <1>2 DEF Lost, SuccessorFails, Handover
  <2>2. PICK c \in Conn : conn' = Gone(c)
    <3>1. CASE Lost
      BY <3>1, <1>0 DEF Lost
    <3>2. CASE SuccessorFails
      BY <3>2, <1>0 DEF SuccessorFails
    <3>3. CASE Handover
      BY <3>3, <1>0 DEF Handover
    <3> QED BY <3>1, <3>2, <3>3, <1>2
  <2> QED BY <2>2, <1>0, <1>u, GoneStreams
<1>3. CASE Connect \/ Rotate
  <2>1. PICK c \in Conn : conn[c].status = "new" /\ conn' = [conn EXCEPT ![c] = Connected]
    BY <1>3 DEF Connect, Rotate
  <2>2. conn[c].u = 0 /\ DOMAIN conn = Conn
    BY <2>1, <1>0 DEF Streams, Stream
  <2>3. Stream(Connected, events, last) /\ Connected.u = 0
    BY <1>0, ConnectedStream
  <2> QED BY <2>1, <2>2, <2>3, <1>0, <1>u, StreamUpdate
<1>4. CASE Refresh
  <2> DEFINE old == conn[current]
             t == Asked(old.fetch, "refresh")
             k == [old EXCEPT !.fetch = t, !.pending = TRUE]
  <2>1. current \in Conn /\ Stream(old, events, last) /\ DOMAIN conn = Conn
        /\ last \in Nat
    BY <1>0, <1>4 DEF Refresh, Streams, Exchanged
  <2>2. conn' = [conn EXCEPT ![current] = k]
    BY <1>4, <2>1 DEF Refresh
  <2>3. DOMAIN t \subseteq Fetches /\ \A g \in DOMAIN t : t[g] \in 0..last
    <3>1. "refresh" \in Fetches
      BY DEF Fetches
    <3> QED BY <3>1, <2>1, FetchFacts DEF Stream
  <2> HIDE DEF t
  <2>4. Stream(k, events, last) /\ k.u = old.u
    BY <2>1, <2>3 DEF Stream
  <2> QED BY <2>1, <2>2, <2>4, <1>0, <1>u, StreamUpdate
<1> QED BY <1>1, <1>2, <1>3, <1>4, <1>u DEF RouteStep

-----------------------------------------------------------------------------
\* The books

\* Names for what the steps change: books bs of connections that have
\* delivered up to us, of an exchange at n.
BooksOK(bs, us, H, n) ==
  \A c \in Conn : Book(bs[c], us[c], n) /\ (c \in H \/ UpToDate(bs[c], us[c]))
Us == [c \in Conn |-> conn[c].u]

LEMMA BooksNamed ==
  ASSUME NEW us, us = Us
  PROVE  Books <=> BooksOK(central.books, us, cut, last)
  BY DEF Books, BooksOK, Us

LEMMA ExactFacts ==
  ASSUME Exact
  PROVE  /\ Shape(central) /\ Good(central, anchoredBy) /\ BooksOK(central.books, Us, cut, last)
         /\ last \in Nat /\ cut \subseteq Conn
         /\ \A c \in Conn : /\ Us[c] = conn[c].u /\ Us[c] \in Nat /\ Us[c] <= last
                            /\ Book(central.books[c], Us[c], last)
                            /\ IsBook(central.books[c])
<1>1. Shape(central) /\ Good(central, anchoredBy)
  BY DEF Exact, Inv, Good
<1>2. last \in Nat
  BY DEF Exact, Exchanged
<1>3. \A c \in Conn : Us[c] = conn[c].u /\ Us[c] \in Nat /\ Us[c] <= last
  BY <1>2 DEF Exact, Streams, Stream, Us
<1>4. BooksOK(central.books, Us, cut, last)
  BY BooksNamed DEF Exact
<1> QED BY <1>1, <1>2, <1>3, <1>4 DEF BooksOK, Exact, Rest, Shape

LEMMA BooksPrimed ==
  ASSUME NEW us, BooksOK(central'.books, us, cut', last'),
         \A c \in Conn : us[c] = conn'[c].u
  PROVE  Books'
  BY DEF BooksOK, Books

\* Steps that leave central and what has been delivered alone.
LEMMA BooksKept ==
  ASSUME Exact, central'.books = central.books, cut' = cut,
         \A c \in Conn : conn'[c].u = conn[c].u, last' \in Nat, last <= last'
  PROVE  Books'
<1>1. \A c \in Conn : Book(central.books[c], Us[c], last')
  BY ExactFacts, BookGrows
<1>2. BooksOK(central'.books, Us, cut', last')
  BY <1>1, ExactFacts DEF BooksOK
<1> QED BY <1>2, ExactFacts, BooksPrimed

\* OPEN.
LEMMA OpenedBooks ==
  ASSUME NEW s, NEW us, NEW H, NEW n \in Nat, BooksOK(s.books, us, H, n),
         \A c \in Conn : us[c] \in Nat, NEW g, NEW K
  PROVE  /\ BooksOK(Opened(s, g).books, us, K, n)
         /\ \A c \in Conn : Opened(s, g).books[c] = Invalidate(s.books[c])
         /\ Opened(s, g).gaps = s.gaps \cup {g}
<1>1. \A c \in Conn : Opened(s, g).books[c] = Invalidate(s.books[c])
  BY DEF Opened
<1>2. \A c \in Conn : Book(Invalidate(s.books[c]), us[c], n)
                      /\ UpToDate(Invalidate(s.books[c]), us[c])
  BY InvalidateKeeps DEF BooksOK
<1>3. Opened(s, g).gaps = s.gaps \cup {g}
  BY DEF Opened
<1> QED BY <1>1, <1>2, <1>3 DEF BooksOK

LEMMA RowFacts ==
  ASSUME NEW s, Shape(s), NEW c \in Conn, NEW r
  PROVE  Row(s, c, r).books = [s.books EXCEPT ![c] = r.book] /\ Row(s, c, r).gaps = s.gaps
  BY DEF Row, Shape

LEMMA TakeBooks ==
  ASSUME Exact, NEW c \in Conn, NEW d, Read(c, d), Take(c, d), UNCHANGED <<last, events>>,
         d \in central.books[c].seen => d.final = conn[c].u
  PROVE  Books' /\ cut' \subseteq Conn /\ central'.gaps \subseteq central.gaps \cup {c}
<1> DEFINE breaks == Discontinuity(c, d)
           s == IF breaks THEN Opened(central, c) ELSE central
           H == IF breaks THEN {} ELSE cut
           r == OnDiff(s.books[c], d)
           u == d.final
           us == [Us EXCEPT ![c] = u]
<1>1. /\ central' = Row(s, c, r)
      /\ cut' = IF breaks THEN {} ELSE Cut(c, r, u)
  BY DEF Take
<1>2. /\ d \in Diff /\ u \in Nat /\ Us[c] <= u /\ u <= last /\ last \in Nat
      /\ last' = last /\ Us[c] = conn[c].u /\ Us[c] \in Nat
  BY ExactFacts DEF Read, Diff
<1>3. BooksOK(s.books, Us, H, last) /\ Shape(s) /\ s.gaps \subseteq central.gaps \cup {c}
  <2>1. CASE breaks
    BY <2>1, ExactFacts, OpenedBooks, OpenedGood DEF Good
  <2>2. CASE ~breaks
    BY <2>2, ExactFacts
  <2> QED BY <2>1, <2>2
<1>4. /\ breaks => IsBook(s.books[c]) /\ ~Worth(s.books[c])
      /\ s.books[c].seen = central.books[c].seen
  <2>1. CASE breaks
    <3>1. s.books[c] = Invalidate(central.books[c]) /\ IsBook(central.books[c])
      BY <2>1, ExactFacts DEF Opened
    <3>2. Invalidate(central.books[c]).seen = central.books[c].seen
      BY <3>1 DEF Invalidate, IsBook
    <3> QED BY <3>1, <3>2, InvalidateBook
  <2>2. CASE ~breaks
    BY <2>2
  <2> QED BY <2>1, <2>2
<1>5. breaks => r.change = "none"
  BY <1>4, WorthlessSilent
<1> HIDE DEF s
<1>6. Book(s.books[c], u, last)
  BY <1>2, <1>3, BookGrows DEF BooksOK
<1>7. /\ Book(r.book, u, last)
      /\ /\ d \in s.books[c].seen => UpToDate(s.books[c], u)
         /\ r.change = "GAPPED" => r.book.pending[1].final = u
         => UpToDate(r.book, u)
  BY <1>2, <1>6, DiffSound DEF Book
<1>8. c \in H \/ (d \in s.books[c].seen => UpToDate(s.books[c], u))
  BY <1>2, <1>3, <1>4 DEF BooksOK
<1>9. H \subseteq cut' /\ cut' \subseteq Conn
  BY <1>1, ExactFacts DEF Cut
<1>10. c \in cut' \/ (r.change = "GAPPED" => r.book.pending[1].final = u)
  BY <1>1, <1>5 DEF Cut
<1>11. c \in cut' \/ UpToDate(r.book, u)
  BY <1>7, <1>8, <1>9, <1>10
<1> HIDE DEF r, H, breaks
<1>12. /\ central'.books[c] = r.book /\ central'.gaps = s.gaps
       /\ \A e \in Conn \ {c} : central'.books[e] = s.books[e]
  <2>1. Shape(s) /\ central' = Row(s, c, r)
    BY <1>1, <1>3
  <2>2. central'.books = [s.books EXCEPT ![c] = r.book] /\ central'.gaps = s.gaps
    BY <2>1, RowFacts
  <2> QED BY <2>1, <2>2 DEF Shape
<1>13. us[c] = u /\ \A e \in Conn \ {c} : us[e] = Us[e]
  BY DEF Us
<1> HIDE DEF us
<1>14. BooksOK(central'.books, us, cut', last')
  <2> SUFFICES ASSUME NEW e \in Conn
               PROVE  /\ Book(central'.books[e], us[e], last')
                      /\ e \in cut' \/ UpToDate(central'.books[e], us[e])
    BY DEF BooksOK
  <2>1. CASE e = c
    BY <2>1, <1>2, <1>7, <1>11, <1>12, <1>13
  <2>2. CASE e # c
    BY <2>2, <1>2, <1>3, <1>9, <1>12, <1>13 DEF BooksOK
  <2> QED BY <2>1, <2>2
<1>15. \A e \in Conn : us[e] = conn'[e].u
  <2>1. conn'[c].u = d.final /\ \A e \in Conn \ {c} : conn'[e] = conn[e]
    BY TakeStream DEF Exact
  <2> QED BY <2>1, <1>13, ExactFacts
<1>16. Books'
  BY <1>14, <1>15, BooksPrimed
<1> QED BY <1>3, <1>9, <1>12, <1>16

LEMMA SnapshotBooks ==
  ASSUME Exact, NEW c \in Conn, SnapshotArrives(c)
  PROVE  Books' /\ cut' \subseteq Conn /\ central'.gaps = central.gaps
<1>1. PICK f \in DOMAIN conn[c].fetch :
        /\ conn[c].fetch[f] # 0
        /\ LET r == OnSnapshot(central.books[c], conn[c].fetch[f])
           IN  central' = Row(central, c, r) /\ cut' = Cut(c, r, conn[c].u)
  BY DEF SnapshotArrives
<1> DEFINE id == conn[c].fetch[f]
           r == OnSnapshot(central.books[c], id)
           u == conn[c].u
<1>2. /\ central' = Row(central, c, r) /\ cut' = Cut(c, r, u) /\ last' = last
  BY <1>1 DEF SnapshotArrives
<1>3. id \in Nat \ {0} /\ id <= last
  <2>1. id \in 0..last
    BY <1>1 DEF Exact, Streams, Stream
  <2> QED BY <2>1, <1>1, ExactFacts
<1>4. u \in Nat /\ u <= last /\ u = Us[c] /\ last \in Nat /\ Book(central.books[c], u, last)
  BY ExactFacts
<1> HIDE DEF id
<1>5. /\ Book(r.book, u, last)
      /\ /\ UpToDate(central.books[c], u)
         /\ r.change = "GAPPED" => r.book.pending[1].final = u
         => UpToDate(r.book, u)
  BY <1>3, <1>4, SnapshotSound DEF Book
<1> HIDE DEF r
<1>6. cut \subseteq cut' /\ cut' \subseteq Conn
  BY <1>2, ExactFacts DEF Cut
<1>7. c \in cut' \/ (r.change = "GAPPED" => r.book.pending[1].final = u)
  BY <1>2 DEF Cut
<1>8. c \in cut \/ UpToDate(central.books[c], u)
  BY <1>4, ExactFacts DEF BooksOK
<1>9. /\ central'.books[c] = r.book /\ central'.gaps = central.gaps
      /\ \A e \in Conn \ {c} : central'.books[e] = central.books[e]
  <2>1. Shape(central) /\ central' = Row(central, c, r)
    BY <1>2, ExactFacts
  <2>2. /\ central'.books = [central.books EXCEPT ![c] = r.book]
        /\ central'.gaps = central.gaps
    BY <2>1, RowFacts
  <2> QED BY <2>1, <2>2 DEF Shape
<1>10. BooksOK(central'.books, Us, cut', last')
  <2> SUFFICES ASSUME NEW e \in Conn
               PROVE  /\ Book(central'.books[e], Us[e], last')
                      /\ e \in cut' \/ UpToDate(central'.books[e], Us[e])
    BY DEF BooksOK
  <2>1. CASE e = c
    BY <2>1, <1>2, <1>4, <1>5, <1>6, <1>7, <1>8, <1>9
  <2>2. CASE e # c
    BY <2>2, <1>2, <1>6, <1>9, ExactFacts DEF BooksOK
  <2> QED BY <2>1, <2>2
<1>11. \A e \in Conn : conn'[e].u = conn[e].u
  BY QuietStreams DEF Exact
<1>12. Books'
  BY <1>10, <1>11, ExactFacts, BooksPrimed
<1> QED BY <1>6, <1>9, <1>12

LEMMA AllClosedGood ==
  ASSUME NEW s, NEW H, Good(s, H)
  PROVE  /\ Good(AllClosed(s), H) /\ AllClosed(s).books = s.books
         /\ AllClosed(s).gaps = {}
         /\ s.gaps = {} => AllClosed(s).authority = s.authority
<1>1. /\ DOMAIN AllClosed(s) = DOMAIN s /\ AllClosed(s).books = s.books
      /\ AllClosed(s).lastValid = s.lastValid /\ AllClosed(s).gaps = {}
      /\ AllClosed(s).authority = IF s.gaps # {} /\ Restorable(s)
                                  THEN s.lastValid ELSE s.authority
  BY DEF AllClosed, Good, Shape
<1> QED BY <1>1 DEF Good, Shape, Restorable

\* The book of the authority comes back from the checkpoint as it was.
LEMMA CheckpointBook ==
  ASSUME NEW b, NEW u \in Nat, NEW n \in Nat, Book(b, u, n), b.state = "VALID",
         Anchored(b) => b.state # "VALID"
  PROVE  /\ Book(FromCheckpoint(b), u, n)
         /\ UpToDate(b, u) => UpToDate(FromCheckpoint(b), u)
<1> DEFINE t == FromCheckpoint(b)
<1>1. b.anchor = 0 /\ b.content # NoBook /\ b.content = Exchange(b.prev)
      /\ b.prev \in Nat /\ b.prev <= n
  BY DEF Book, Sound, Within, Anchored
<1>2. /\ IsBook(t) /\ t.state = "VALID" /\ t.content = b.content /\ t.prev = b.prev
      /\ t.pending = <<>> /\ t.seen = {} /\ t.anchor = 0
  BY FreshFacts DEF FromCheckpoint, IsBook
<1> HIDE DEF t
<1>3. Sound(t)
  BY <1>1, <1>2 DEF Sound
<1>4. Heard(t, u) /\ Within(t, n)
  BY <1>1, <1>2 DEF Heard, Within
<1>5. UpToDate(b, u) => UpToDate(t, u)
  BY <1>1, <1>2 DEF UpToDate, LastIs
<1> QED BY <1>3, <1>4, <1>5 DEF Book, t

\* So does a book that waits for its bridge, but for what the snapshot contains.
LEMMA AnchorBook ==
  ASSUME NEW b, NEW u \in Nat, NEW n \in Nat, Book(b, u, n), Anchored(b),
         b.state # "VALID"
  PROVE  LET t == FromAnchor(SavedAnchor(b))
         IN  /\ Book(t, u, n) /\ (UpToDate(b, u) => UpToDate(t, u))
             /\ t.content = b.content /\ t.prev = b.prev
<1> DEFINE t == FromAnchor(SavedAnchor(b))
           q == After(b.anchor, b.pending)
<1>1. /\ IsBook(b) /\ b.pending \in Seq(Diff) /\ b.anchor \in Nat
      /\ \A i \in DOMAIN b.pending : b.pending[i].final <= u
  BY DEF Book, Sound, Heard
<1>2. /\ q \in Seq(Diff) /\ \A i \in DOMAIN q : q[i].final <= u
      /\ LastIs(b.pending, u) => LastIs(q, u)
  BY <1>1, AfterHeard
<1> HIDE DEF q
<1>3. /\ IsBook(t) /\ t.state = b.state /\ t.content = b.content /\ t.prev = b.prev
      /\ t.pending = q /\ t.seen = {} /\ t.anchor = b.anchor
  BY <1>1 DEF FromAnchor, SavedAnchor, IsBook, q
<1> HIDE DEF t
<1>4. Sound(t)
  BY <1>2, <1>3 DEF Book, Sound
<1>5. Heard(t, u) /\ Within(t, n)
  BY <1>2, <1>3 DEF Book, Heard, Within
<1>6. UpToDate(b, u) => UpToDate(t, u)
  BY <1>2, <1>3 DEF UpToDate
<1> QED BY <1>3, <1>4, <1>5, <1>6 DEF Book, t

LEMMA RestoredFacts ==
  ASSUME NEW s, Shape(s)
  PROVE  /\ Restored(s).gaps = s.gaps /\ Restored(s).authority = s.authority
         /\ \A c \in Conn :
              Restored(s).books[c] =
                IF c = s.authority THEN FromCheckpoint(s.books[c])
                ELSE IF Anchored(s.books[c]) THEN FromAnchor(SavedAnchor(s.books[c]))
                ELSE Fresh
  BY DEF Restored, Shape

LEMMA RestoredBooks ==
  ASSUME NEW s, NEW A, Good(s, A), Writable(s),
         NEW us, NEW H, NEW n \in Nat, BooksOK(s.books, us, H, n),
         \A c \in Conn : us[c] \in Nat
  PROVE  BooksOK(Restored(s).books, us, H, n)
<1> SUFFICES ASSUME NEW c \in Conn
             PROVE  /\ Book(Restored(s).books[c], us[c], n)
                    /\ c \in H \/ UpToDate(Restored(s).books[c], us[c])
  BY DEF BooksOK
<1> DEFINE b == s.books[c]
<1>1. /\ Book(b, us[c], n) /\ (c \in H \/ UpToDate(b, us[c])) /\ us[c] \in Nat
      /\ Anchored(b) => b.state # "VALID"
  BY DEF BooksOK, Writable
<1>2. Shape(s)
  BY DEF Good
<1>3. CASE c = s.authority
  <2>1. b.state = "VALID"
    BY <1>3, ConnNotNone DEF Good
  <2>2. Restored(s).books[c] = FromCheckpoint(b)
    BY <1>2, <1>3, RestoredFacts
  <2> HIDE DEF b
  <2> QED BY <2>1, <2>2, <1>1, CheckpointBook
<1>4. CASE c # s.authority /\ Anchored(b)
  <2>1. Restored(s).books[c] = FromAnchor(SavedAnchor(b))
    BY <1>2, <1>4, RestoredFacts
  <2> HIDE DEF b
  <2> QED BY <2>1, <1>1, <1>4, AnchorBook
<1>5. CASE c # s.authority /\ ~Anchored(b)
  <2>1. Restored(s).books[c] = Fresh
    BY <1>2, <1>5, RestoredFacts
  <2> QED BY <2>1, <1>1, FreshBook
<1> QED BY <1>3, <1>4, <1>5

LEMMA DayBooks ==
  ASSUME Exact, DayEnds
  PROVE  Books' /\ cut' \subseteq Conn /\ central'.gaps = central.gaps
<1> DEFINE a == AllClosed(central)
           t == Restored(a)
<1>1. /\ Writable(a) /\ central' = Continued(t, central.gaps)
      /\ cut' = IF central.gaps = {} THEN cut ELSE {}
      /\ last' = last /\ conn' = conn
  BY DEF DayEnds, collector
<1>2. Good(a, anchoredBy) /\ a.books = central.books /\ a.gaps = {}
  BY ExactFacts, AllClosedGood
<1>3. BooksOK(t.books, Us, cut, last) /\ t.gaps = {}
  <2>1. BooksOK(a.books, Us, cut, last) /\ last \in Nat /\ \A c \in Conn : Us[c] \in Nat
    BY <1>2, ExactFacts
  <2>2. Shape(a)
    BY <1>2 DEF Good
  <2> HIDE DEF a
  <2> QED BY <2>1, <2>2, <1>1, <1>2, RestoredBooks, RestoredFacts
<1>4. BooksOK(central'.books, Us, cut', last') /\ central'.gaps = central.gaps
  <2>1. CASE central.gaps = {}
    BY <2>1, <1>1, <1>3 DEF Continued
  <2>2. CASE central.gaps # {}
    <3>1. central' = [Opened(t, Transport) EXCEPT !.gaps = central.gaps] /\ cut' = {}
      BY <2>2, <1>1 DEF Continued
    <3>2. BooksOK(Opened(t, Transport).books, Us, {}, last)
      BY <1>3, ExactFacts, OpenedBooks
    <3>3. central'.books = Opened(t, Transport).books /\ central'.gaps = central.gaps
      BY <3>1 DEF Opened
    <3> QED BY <3>1, <3>2, <3>3, <1>1
  <2> QED BY <2>1, <2>2
<1>5. Books'
  BY <1>1, <1>4, ExactFacts, BooksPrimed
<1> QED BY <1>1, <1>4, <1>5, ExactFacts

-----------------------------------------------------------------------------
\* The steps

LEMMA ScalarsStep ==
  ASSUME Exact, Next
  PROVE  Scalars'
<1>0. Scalars /\ BoundAssumption
  BY BoundAssumption DEF Exact, Rest
<1>1. CASE DayEnds
  <2>1. days' \in 0..MaxDays
    BY <1>0, <1>1 DEF DayEnds, Scalars
  <2>2. anchoredBy' \subseteq Conn
    BY <1>0, <1>1 DEF DayEnds, Scalars
  <2> QED BY <2>1, <2>2, <1>0, <1>1 DEF DayEnds, Scalars, collector
<1>2. CASE RouteStep
  <2>1. CASE LastProof \/ CloseTransportGap \/ CloseLivenessGap
    BY <2>1, <1>0 DEF LastProof, CloseTransportGap, CloseLivenessGap, Scalars,
                      collector, history, counters
  <2>2. CASE Silent
    <3>1. silences' \in 0..MaxSilences
      BY <1>0, <2>2 DEF Silent, Scalars
    <3> QED BY <3>1, <1>0, <2>2 DEF Silent, Scalars
  <2>3. CASE Lost \/ SuccessorFails \/ Handover
    BY <2>3, <1>0 DEF Lost, SuccessorFails, Handover, Scalars, history, counters
  <2>4. CASE Connect \/ Rotate \/ Refresh
    BY <2>4, <1>0, ConnNotNone
       DEF Connect, Rotate, Refresh, Scalars, history, counters
  <2> QED BY <1>2, <2>1, <2>2, <2>3, <2>4 DEF RouteStep
<1>3. CASE \E n \in 1..2 : Emit(n)
  BY <1>3, <1>0 DEF Emit, Scalars, collector, history, counters
<1>4. CASE \E c \in Conn : ConnStep(c)
  <2> SUFFICES ASSUME NEW c \in Conn, ConnStep(c) PROVE Scalars'
    BY <1>4
  <2>1. CASE Serve(c) \/ CloseDepthGap(c)
    BY <2>1, <1>0 DEF Serve, CloseDepthGap, Scalars, history, counters
  <2>2. CASE Skip(c)
    <3>1. drops' \in 0..MaxDrops
      BY <1>0, <2>2 DEF Skip, Scalars
    <3> QED BY <3>1, <1>0, <2>2 DEF Skip, Scalars, history
  <2>3. CASE SnapshotArrives(c)
    BY <2>3, <1>0 DEF SnapshotArrives, Scalars, counters
  <2>4. CASE Deliver(c) \/ Repeat(c)
    <3>1. PICK d : Take(c, d)
      BY <2>4 DEF Deliver, Repeat
    <3>2. /\ liveness' = IF liveness = "asked" THEN "fresh" ELSE liveness
          /\ anchoredBy' = IF Discontinuity(c, d) THEN {} ELSE anchoredBy
      BY <3>1 DEF Take
    <3>3. /\ UNCHANGED <<current, successor, affected, drops, days, silences>>
          /\ repeats' \in 0..MaxRepeats
      BY <2>4, <1>0 DEF Deliver, Repeat, Scalars, counters
    <3> QED BY <3>2, <3>3, <1>0 DEF Scalars
  <2> QED BY <2>1, <2>2, <2>3, <2>4 DEF ConnStep
<1> QED BY <1>1, <1>2, <1>3, <1>4 DEF Next

\* The steps of the route change books only by an OPEN.
LEMMA RouteBooks ==
  ASSUME Exact, RouteStep
  PROVE  Books' /\ cut' \subseteq Conn /\ central'.gaps \subseteq Gap
<1>0. /\ Shape(central) /\ central.gaps \subseteq Gap /\ cut \subseteq Conn
      /\ last \in Nat /\ last' = last
      /\ \A c \in Conn : conn'[c].u = conn[c].u
  BY ExactFacts, RouteStreams DEF Exact, Rest
<1>1. CASE LastProof \/ Silent
  <2>1. PICK g \in {Transport, Liveness} : central' = Opened(central, g)
    BY <1>1 DEF LastProof, Silent
  <2>2. cut' = {} /\ central'.gaps \subseteq Gap
    BY <1>0, <1>1, <2>1 DEF LastProof, Silent, Opened, Gap
  <2>3. BooksOK(central'.books, Us, cut', last')
    BY <1>0, <2>1, ExactFacts, OpenedBooks
  <2>4. Books'
    BY <1>0, <2>3, ExactFacts, BooksPrimed
  <2> QED BY <2>2, <2>4
<1>2. CASE CloseTransportGap \/ CloseLivenessGap
  <2>1. PICK g : central' = Closed(central, g)
    BY <1>2 DEF CloseTransportGap, CloseLivenessGap
  <2>2. central'.books = central.books /\ central'.gaps \subseteq central.gaps
    BY <2>1, <1>0 DEF Closed, Shape
  <2>3. cut' = cut
    BY <1>2 DEF CloseTransportGap, CloseLivenessGap, history
  <2> QED BY <2>2, <2>3, <1>0, BooksKept
<1>3. CASE Lost \/ Connect \/ Rotate \/ SuccessorFails \/ Handover \/ Refresh
  <2>1. central' = central /\ cut' = cut
    BY <1>3 DEF Lost, Connect, Rotate, SuccessorFails, Handover, Refresh, history
  <2> QED BY <2>1, <1>0, BooksKept
<1> QED BY <1>1, <1>2, <1>3 DEF RouteStep

LEMMA ConnBooks ==
  ASSUME Exact, NEW c \in Conn, ConnStep(c)
  PROVE  Streams' /\ Exchanged' /\ Books' /\ cut' \subseteq Conn /\ central'.gaps \subseteq Gap
<1>0. /\ Shape(central) /\ central.gaps \subseteq Gap /\ cut \subseteq Conn
      /\ last \in Nat /\ Exchanged /\ Streams /\ c \in Gap
      /\ Book(central.books[c], conn[c].u, last)
  BY ExactFacts DEF Exact, Rest, Gap
<1>u. UNCHANGED <<last, events>>
  BY DEF ConnStep, Serve, Skip, SnapshotArrives, CloseDepthGap, Deliver, Repeat
<1>e. Exchanged'
  BY <1>0, <1>u DEF Exchanged
<1>1. CASE Serve(c) \/ Skip(c) \/ CloseDepthGap(c)
  <2>1. Streams' /\ \A e \in Conn : conn'[e].u = conn[e].u
    BY <1>0, <1>1, QuietStreams
  <2>2. central'.books = central.books /\ central'.gaps \subseteq central.gaps /\ cut' = cut
    BY <1>0, <1>1 DEF Serve, Skip, CloseDepthGap, Closed, Shape, history
  <2> QED BY <2>1, <2>2, <1>0, <1>u, <1>e, BooksKept
<1>2. CASE SnapshotArrives(c)
  BY <1>0, <1>2, <1>e, QuietStreams, SnapshotBooks
<1>3. CASE Deliver(c)
  <2> DEFINE d == events[conn[c].read + 1]
  <2>1. Up(c) /\ conn[c].read < Len(events) /\ Take(c, d)
    BY <1>3 DEF Deliver
  <2>2. Read(c, d) /\ conn[c].u < d.final
    BY <2>1, <1>0, DeliverReads
  <2>3. d \notin central.books[c].seen
    <3>1. conn[c].u \in Nat /\ d.final \in Nat
      BY <2>2, ExactFacts DEF Read, Diff
    <3>2. d \in central.books[c].seen => d.final <= conn[c].u
      BY <1>0 DEF Book, Heard
    <3> QED BY <2>2, <3>1, <3>2
  <2> HIDE DEF d
  <2> QED BY <2>1, <2>2, <2>3, <1>0, <1>u, <1>e, TakeStream, TakeBooks
<1>4. CASE Repeat(c)
  <2>1. PICK i \in DOMAIN events : events[i].final = conn[c].u /\ Take(c, events[i])
    BY <1>4 DEF Repeat
  <2>2. Read(c, events[i])
    BY <2>1, <1>0, <1>4, RepeatReads DEF Repeat
  <2> QED BY <2>1, <2>2, <1>0, <1>u, <1>e, TakeStream, TakeBooks
<1> QED BY <1>1, <1>2, <1>3, <1>4 DEF ConnStep

LEMMA ExactStep == Exact /\ [Next]_vars => Exact'
<1> SUFFICES ASSUME Exact, [Next]_vars PROVE Exact'
  OBVIOUS
<1>1. Inv'
  BY InvStep DEF Exact
<1>2. CASE UNCHANGED vars
  BY <1>1, <1>2 DEF Exact, vars, collector, history, counters, Exchanged, Streams, Books,
                    Rest, Scalars
<1>3. CASE Next
  <2>0. Scalars' /\ Exchanged /\ Streams /\ last \in Nat
    BY <1>3, ScalarsStep, ExactFacts DEF Exact
  <2>1. CASE DayEnds
    <3>1. Exchanged' /\ Streams'
      BY <2>0, <2>1 DEF DayEnds, Exchanged, Streams, collector
    <3> QED BY <3>1, <2>0, <2>1, <1>1, DayBooks DEF Exact, Rest
  <2>2. CASE RouteStep
    <3>1. Exchanged' /\ Streams'
      BY <2>0, <2>2, RouteStreams DEF Exchanged
    <3> QED BY <3>1, <2>0, <2>2, <1>1, RouteBooks DEF Exact, Rest
  <2>3. CASE \E n \in 1..2 : Emit(n)
    <3>1. PICK n \in 1..2 : Emit(n)
      BY <2>3
    <3>2. Exchanged' /\ Streams'
      BY <3>1, <2>0, EmitExchanged
    <3>3. central' = central /\ cut' = cut /\ conn' = conn /\ last' = last + n
      BY <3>1 DEF Emit, collector, history
    <3>4. last' \in Nat /\ last <= last'
      BY <3>3, <2>0
    <3>5. Books'
      BY <3>3, <3>4, BooksKept
    <3> QED BY <3>2, <3>3, <3>5, <2>0, <1>1 DEF Exact, Rest
  <2>4. CASE \E c \in Conn : ConnStep(c)
    BY <2>4, <2>0, <1>1, ConnBooks DEF Exact, Rest
  <2> QED BY <1>3, <2>1, <2>2, <2>3, <2>4 DEF Next
<1> QED BY <1>2, <1>3

LEMMA ExactAlways == Spec => []Exact
  BY ExactInit, ExactStep, PTL DEF Spec

-----------------------------------------------------------------------------
\* The state has its types: what the collector keeps of a connection
\* (edge/binance.py:517-560) and what central keeps of its book (l2.py:119-130).
THEOREM TypeCorrect == Spec => []TypeOK
  BY ExactAlways, ExactTypes, PTL

\* A book that has content is the exchange's book at the update it names,
\* whichever way it came: diffs, bridge or checkpoint (l2.py:156-254, 622-654).
THEOREM BooksAreTheExchanges == Spec => []BookExact
<1>1. Exact => BookExact
  BY ExactFacts DEF BookExact, Book, Sound
<1> QED BY <1>1, ExactAlways, PTL

\* A valid book has every diff delivered on its connection, if its buffer has
\* lost none behind a break (l2.py:156-180, 199-243).
THEOREM ValidHasAllReceived == Spec => []ValidIsCurrent
<1>1. Exact => ValidIsCurrent
  BY DEF Exact, Books, ValidIsCurrent, Current, UpToDate
<1> QED BY <1>1, ExactAlways, PTL

\* Midnight takes nothing from a symbol that is valid outside every gap: the
\* checkpoint restores its authority and the books that wait (l2.py:455-475, 622-654).
THEOREM MidnightKeeps == Spec => MidnightKeepsAuthority
<1>1. ASSUME Inv, [Next]_vars, days' # days, central.gaps = {}
      PROVE  /\ central'.authority = central.authority
             /\ \A c \in Conn :
                  c = central.authority \/ Anchored(central.books[c]) =>
                    /\ central'.books[c].content = central.books[c].content
                    /\ central'.books[c].prev = central.books[c].prev
  <2> DEFINE a == AllClosed(central)
  <2>1. DayEnds
    BY <1>1 DEF Next, vars, counters, RouteStep, ConnStep, LastProof, Lost, Connect,
       CloseTransportGap, Rotate, SuccessorFails, Handover, Silent, Refresh,
       CloseLivenessGap, Emit, Serve, Skip, Deliver, Repeat, SnapshotArrives,
       CloseDepthGap
  <2>2. central' = Restored(a)
    BY <1>1, <2>1 DEF DayEnds, Continued
  <2>3. Good(central, anchoredBy)
    BY <1>1 DEF Inv
  <2>4. /\ Shape(a) /\ a.books = central.books /\ a.authority = central.authority
    BY <1>1, <2>3, AllClosedGood DEF Good
  <2> HIDE DEF a
  <2>5. central'.authority = central.authority
    BY <2>2, <2>4, RestoredFacts
  <2>6. ASSUME NEW c \in Conn, c = central.authority \/ Anchored(central.books[c])
        PROVE  /\ central'.books[c].content = central.books[c].content
               /\ central'.books[c].prev = central.books[c].prev
    <3> DEFINE b == central.books[c]
    <3>0. IsBook(b)
      BY <2>3 DEF Good, Shape
    <3>1. CASE c = central.authority
      <4>1. central'.books[c] = FromCheckpoint(b)
        BY <3>1, <2>2, <2>4, RestoredFacts
      <4> QED BY <4>1, FreshFacts DEF FromCheckpoint, IsBook
    <3>2. CASE c # central.authority
      <4>1. central'.books[c] = FromAnchor(SavedAnchor(b))
        BY <3>2, <2>2, <2>4, <2>6, RestoredFacts
      <4> QED BY <4>1, <3>0 DEF FromAnchor, SavedAnchor, IsBook
    <3> QED BY <3>1, <3>2
  <2> QED BY <2>5, <2>6
<1>2. Inv /\ [Next]_vars => [days' # days /\ central.gaps = {} =>
       /\ central'.authority = central.authority
       /\ \A c \in Conn :
            c = central.authority \/ Anchored(central.books[c]) =>
              /\ central'.books[c].content = central.books[c].content
              /\ central'.books[c].prev = central.books[c].prev]_vars
  BY <1>1
<1> QED BY <1>2, InvInit, InvStep, PTL DEF Spec, MidnightKeepsAuthority
=============================================================================
