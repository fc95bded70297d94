-------------------------------- MODULE L2Day --------------------------------
(***************************************************************************)
(* The depth stream of one symbol from the exchange to central: the checks *)
(* of the collector on pu and u, its snapshots and its re-anchoring        *)
(* (edge/binance.py), the gaps it opens, and the validity central derives  *)
(* from the rows and the gap events (central/l2.py, L2DayReconstructor).   *)
(*                                                                         *)
(* Central reads a day after it is over, in the order of receive times; a  *)
(* gap event counts at the time from which the gap affects the stream.     *)
(* The model takes its steps in that order, so a connection that is about  *)
(* to be lost is already inside its gap while it still delivers, and each  *)
(* row is processed as it is received. There is one route; a connection is *)
(* never used again.                                                       *)
(***************************************************************************)
EXTENDS L2Book

CONSTANTS
  MaxConns,    \* bounds of one behaviour: connections,
  MaxUpdates,  \* updates of the exchange,
  MaxDrops,    \* events a connection loses,
  MaxRepeats,  \* events a connection delivers twice,
  MaxDays,     \* days
  MaxSilences  \* and times the stream is found silent

ASSUME BoundAssumption ==
  /\ {MaxConns, MaxUpdates} \subseteq Nat \ {0}
  /\ {MaxDrops, MaxRepeats, MaxDays, MaxSilences} \subseteq Nat
ASSUME TouchAssumption == \A i \in 1..MaxUpdates : Touch[i] \in SUBSET Level

Conn   == 1..MaxConns
NoConn == 0

VARIABLES
  last,       \* the exchange: its newest update
  events,     \* and the depth events that carry them
  conn,       \* the collector's connections
  current,    \* RouteRunner.run: the connection in use
  successor,  \* and the one a rotation has started
  affected,   \* the gap of a loss begins before the loss
  liveness,   \* RouteRunner.liveness_loop for the stream
  central,    \* L2DayReconstructor.run
  anchoredBy, \* history: connections with a snapshot since the last OPEN
  cut,        \* history: connections whose buffer has lost a diff since then
  drops, repeats, days, silences

collector == <<conn, current, successor, affected, liveness>>
history   == <<anchoredBy, cut>>
counters  == <<drops, repeats, days, silences>>
vars == <<last, events, collector, central, history, counters>>

Transport == 0               \* the gap of a lost connection
Liveness  == MaxConns + 1    \* the gap of a silent stream; others are Conn
Gap == {Transport, Liveness} \cup Conn
Fetches == {"initial", "reanchor", "refresh"}

TypeOK ==
  /\ last \in 1..MaxUpdates
  /\ events \in Seq([first : Nat, final : Nat, pu : Nat])
  /\ \A c \in Conn :
       /\ conn[c].status \in {"new", "up", "gone"}
       /\ conn[c].read \in 0..Len(events) /\ conn[c].u \in 0..last
       /\ conn[c].pending \in BOOLEAN /\ conn[c].closing \in BOOLEAN
       /\ DOMAIN conn[c].fetch \subseteq Fetches
       /\ \A f \in DOMAIN conn[c].fetch : conn[c].fetch[f] \in 0..last
  /\ liveness \in {"none", "silent", "asked", "fresh"}
  /\ current \in Conn \cup {NoConn}
  /\ successor \in Conn \cup {NoConn}
  /\ affected \in BOOLEAN
  /\ central.gaps \subseteq Gap
  /\ central.authority \in Conn \cup {NoConn}
  /\ central.lastValid \in Conn \cup {NoConn}
  /\ DOMAIN central.books = Conn
  /\ \A c \in Conn : LET b == central.books[c]
                     IN  /\ b.state \in {"UNANCHORED", "VALID", "GAPPED"}
                         /\ b.prev \in 0..last /\ b.anchor \in 0..last
                         /\ b.anchor # 0 => b.content # NoBook
  /\ anchoredBy \subseteq Conn /\ cut \subseteq Conn
  /\ drops \in 0..MaxDrops /\ repeats \in 0..MaxRepeats
  /\ days \in 0..MaxDays /\ silences \in 0..MaxSilences

\* fetch has the snapshots that are asked for, with their update once the
\* exchange has taken it; pending is _snapshot_pending.
NoFetch  == [f \in {} |-> 0]
Asked(fetch, f) == [g \in DOMAIN fetch \cup {f} |-> IF g = f THEN 0 ELSE fetch[g]]
Answered(fetch, f) == [g \in DOMAIN fetch \ {f} |-> fetch[g]]

Unused   == [status |-> "new", read |-> 0, u |-> 0, fetch |-> NoFetch,
             pending |-> FALSE, closing |-> FALSE]
Up(c)    == conn[c].status = "up"
\* ready and transport_ready of the connection's handle.
Ready(c) == Up(c) /\ "initial" \notin DOMAIN conn[c].fetch /\ conn[c].u # 0

\* A connection that has subscribed: its stream begins with the next event and
\* its snapshot is asked for.
Connected ==
  [status |-> "up", read |-> Len(events), u |-> 0,
   fetch |-> Asked(NoFetch, "initial"), pending |-> TRUE, closing |-> FALSE]

Init ==
  /\ last = 1
  /\ events = <<>>
  /\ conn = [c \in Conn |-> IF c = 1 THEN Connected ELSE Unused]
  /\ current = 1
  /\ successor = NoConn
  /\ affected = FALSE
  /\ liveness = "none"
  /\ central = [books |-> [c \in Conn |-> Fresh], authority |-> NoConn,
                lastValid |-> NoConn, gaps |-> {}]
  /\ anchoredBy = {} /\ cut = {}
  /\ drops = 0 /\ repeats = 0 /\ days = 0 /\ silences = 0

-----------------------------------------------------------------------------
\* Central

\* handle_gap for an OPEN event.
Opened(s, g) ==
  [books |-> [c \in Conn |-> Invalidate(s.books[c])],
   authority |-> NoConn, lastValid |-> NoConn, gaps |-> s.gaps \cup {g}]

Restorable(s) == s.lastValid # NoConn /\ s.books[s.lastValid].state = "VALID"

\* handle_gap for a CLOSED event.
Closed(s, g) ==
  [s EXCEPT !.gaps = @ \ {g},
            !.authority = IF s.gaps \subseteq {g} /\ Restorable(s)
                          THEN s.lastValid ELSE @]

\* The loop of run for a row of connection c, whose book answered r.
WrongRow(s, c, r) ==
  [s EXCEPT !.books[c] = r.book,
            !.authority = IF r.change = "VALID" THEN c ELSE @,
            !.lastValid = IF r.change = "VALID" THEN c ELSE @]
Row(s, c, r) ==
  LET ends == r.change = "GAPPED" /\ s.authority = c
  IN  [s EXCEPT !.books[c] = r.book,
                !.authority = CASE r.change = "VALID" /\ s.gaps = {} -> c
                                [] ends -> NoConn
                                [] OTHER -> @,
                !.lastValid = CASE r.change = "VALID" -> c
                                [] ends /\ @ = c -> NoConn
                                [] OTHER -> @]

\* _build_checkpoint and the start of the next day's run: the authority's book
\* and the books that wait for their bridge, nothing else.
WrongRestored(s) ==
  [s EXCEPT !.books = [c \in Conn |->
                         IF c = s.authority THEN FromCheckpoint(s.books[c])
                         ELSE Fresh],
            !.lastValid = s.authority]
Restored(s) ==
  [s EXCEPT !.books = [c \in Conn |->
                         IF c = s.authority THEN FromCheckpoint(s.books[c])
                         ELSE IF Anchored(s.books[c]) THEN FromAnchor(SavedAnchor(s.books[c]))
                         ELSE Fresh],
            !.lastValid = s.authority]

\* What _anchor_checkpoint accepts.
Writable(s) ==
  \A c \in Conn : Anchored(s.books[c]) => s.books[c].state # "VALID"

\* rollover ends every open gap with the day and opens it again with the next.
AllClosed(s) ==
  [s EXCEPT !.gaps = {},
            !.authority = IF s.gaps # {} /\ Restorable(s) THEN s.lastValid ELSE @]
Continued(s, gs) ==
  IF gs = {} THEN s ELSE [Opened(s, Transport) EXCEPT !.gaps = gs]

\* A checkpoint that its contract refuses raises ValidationError: the run of that day
\* writes nothing, and no later day can begin. Here the day then never ends.
DayEnds ==
  /\ days < MaxDays
  /\ Writable(AllClosed(central))
  /\ central' = Continued(Restored(AllClosed(central)), central.gaps)
  /\ anchoredBy' = IF central.gaps = {} THEN anchoredBy ELSE {}
  /\ cut' = IF central.gaps = {} THEN cut ELSE {}
  /\ days' = days + 1
  /\ UNCHANGED <<last, events, collector, drops, repeats, silences>>

-----------------------------------------------------------------------------
\* The exchange

\* n updates, delivered as one depth event.
Emit(n) ==
  /\ last + n <= MaxUpdates
  /\ last' = last + n
  /\ events' = Append(events, [first |-> last + 1, final |-> last + n, pu |-> last])
  /\ UNCHANGED <<collector, central, history, counters>>

\* A snapshot is taken; it will be received later.
Serve(c) ==
  /\ \E f \in DOMAIN conn[c].fetch :
       /\ conn[c].fetch[f] = 0
       /\ conn' = [conn EXCEPT ![c].fetch[f] = last]
  /\ UNCHANGED <<last, events, current, successor, affected, liveness, central,
                 history, counters>>

\* An event does not reach connection c.
Skip(c) ==
  /\ Up(c) /\ conn[c].read < Len(events) /\ drops < MaxDrops
  /\ conn' = [conn EXCEPT ![c].read = @ + 1]
  /\ drops' = drops + 1
  /\ UNCHANGED <<last, events, current, successor, affected, liveness, central,
                 history, repeats, days, silences>>

-----------------------------------------------------------------------------
\* The collector

\* _check_depth_sequence: a discontinuity nobody is repairing yet.
Discontinuity(c, d) ==
  /\ conn[c].u # 0 /\ d.pu # conn[c].u
  /\ "reanchor" \notin DOMAIN conn[c].fetch /\ ~conn[c].closing
  /\ ~conn[c].pending

\* The book answers a row of connection c with r, but throws away what it has
\* received since the diff it keeps: u is the newest.
Cut(c, r, u) ==
  IF r.change = "GAPPED" /\ r.book.pending[1].final # u THEN cut \cup {c} ELSE cut

\* The row of a diff, behind the OPEN event of the gap it proves.
Take(c, d) ==
  LET breaks == Discontinuity(c, d)
      s      == IF breaks THEN Opened(central, c) ELSE central
      r      == OnDiff(s.books[c], d)
  IN  /\ central' = Row(s, c, r)
      /\ conn' = [conn EXCEPT ![c].u = d.final,
                              ![c].fetch = IF breaks THEN Asked(@, "reanchor") ELSE @,
                              ![c].read = IF d.final = conn[c].u THEN @ ELSE @ + 1]
      /\ anchoredBy' = IF breaks THEN {} ELSE anchoredBy
      /\ cut' = IF breaks THEN {} ELSE Cut(c, r, d.final)
      /\ liveness' = IF liveness = "asked" THEN "fresh" ELSE liveness

Deliver(c) ==
  /\ Up(c) /\ conn[c].read < Len(events)
  /\ Take(c, events[conn[c].read + 1])
  /\ UNCHANGED <<last, events, current, successor, affected, counters>>

Repeat(c) ==
  /\ Up(c) /\ repeats < MaxRepeats
  /\ \E i \in DOMAIN events : events[i].final = conn[c].u /\ Take(c, events[i])
  /\ repeats' = repeats + 1
  /\ UNCHANGED <<last, events, current, successor, affected, drops, days, silences>>

\* _fetch_snapshot has its answer and queues the row.
SnapshotArrives(c) ==
  /\ \E f \in DOMAIN conn[c].fetch :
       /\ conn[c].fetch[f] # 0
       /\ LET r == OnSnapshot(central.books[c], conn[c].fetch[f])
          IN  central' = Row(central, c, r) /\ cut' = Cut(c, r, conn[c].u)
       /\ conn' = [conn EXCEPT ![c].fetch = Answered(@, f),
                               ![c].pending = FALSE,
                               ![c].closing = @ \/ f = "reanchor"]
  /\ anchoredBy' = anchoredBy \cup {c}
  /\ UNCHANGED <<last, events, current, successor, affected, liveness, counters>>

\* reanchor ends with _close_depth_gap.
CloseDepthGap(c) ==
  /\ Up(c) /\ conn[c].closing
  /\ conn' = [conn EXCEPT ![c].closing = FALSE]
  /\ central' = Closed(central, c)
  /\ UNCHANGED <<last, events, current, successor, affected, liveness, history,
                 counters>>

Gone(c) == [conn EXCEPT ![c] = [@ EXCEPT !.status = "gone", !.fetch = NoFetch,
                                         !.pending = FALSE, !.closing = FALSE]]

\* The last proof that the route is complete: what comes later lies in the gap
\* of a loss, whether or not this connection still delivers it.
LastProof ==
  /\ current # NoConn /\ successor = NoConn /\ Transport \notin central.gaps
  /\ affected' = TRUE
  /\ central' = Opened(central, Transport)
  /\ anchoredBy' = {} /\ cut' = {}
  /\ UNCHANGED <<last, events, conn, current, successor, liveness, counters>>

\* The connection fails, or the attempt to start it; _open_gap unless the gap
\* is open. Its tasks are cancelled, a depth gap of its own with them.
Lost ==
  /\ current # NoConn /\ successor = NoConn
  /\ Transport \in central.gaps
  /\ conn' = Gone(current)
  /\ current' = NoConn
  /\ affected' = FALSE
  /\ liveness' = IF liveness = "silent" THEN "asked" ELSE liveness
  /\ UNCHANGED <<last, events, successor, central, history, counters>>

Connect ==
  /\ current = NoConn
  /\ \E c \in Conn :
       /\ conn[c].status = "new" /\ \A d \in Conn : d < c => conn[d].status # "new"
       /\ conn' = [conn EXCEPT ![c] = Connected]
       /\ current' = c
  /\ UNCHANGED <<last, events, successor, affected, liveness, central, history,
                 counters>>

\* _close_transport_gap: every stream has delivered on the new connection.
CloseTransportGap ==
  /\ Transport \in central.gaps /\ ~affected
  /\ current # NoConn /\ conn[current].u # 0
  /\ central' = Closed(central, Transport)
  /\ UNCHANGED <<last, events, collector, history, counters>>

Rotate ==
  /\ current # NoConn /\ Ready(current) /\ successor = NoConn
  /\ Transport \notin central.gaps
  /\ \E c \in Conn :
       /\ conn[c].status = "new" /\ \A d \in Conn : d < c => conn[d].status # "new"
       /\ conn' = [conn EXCEPT ![c] = Connected]
       /\ successor' = c
  /\ UNCHANGED <<last, events, current, affected, liveness, central, history,
                 counters>>

SuccessorFails ==
  /\ successor # NoConn
  /\ conn' = Gone(successor)
  /\ successor' = NoConn
  /\ UNCHANGED <<last, events, current, affected, liveness, central, history,
                 counters>>

Handover ==
  /\ successor # NoConn /\ Ready(successor)
  /\ conn' = Gone(current)
  /\ current' = successor
  /\ successor' = NoConn
  /\ UNCHANGED <<last, events, affected, liveness, central, history, counters>>

\* liveness_loop: the stream is silent from here on, until it is refreshed.
Silent ==
  /\ current # NoConn /\ liveness = "none" /\ silences < MaxSilences
  /\ liveness' = "silent"
  /\ central' = Opened(central, Liveness)
  /\ anchoredBy' = {} /\ cut' = {}
  /\ silences' = silences + 1
  /\ UNCHANGED <<last, events, conn, current, successor, affected, drops, repeats,
                 days>>

\* _refresh_keys: the connection subscribes again (what it misses meanwhile is
\* a Skip) and takes a snapshot. Without an event it is given up, and its
\* successor is refreshed as well while it has delivered none.
Refresh ==
  /\ current # NoConn
  /\ liveness = "silent" \/ (liveness = "asked" /\ conn[current].u = 0)
  /\ "refresh" \notin DOMAIN conn[current].fetch
  /\ conn' = [conn EXCEPT ![current].fetch = Asked(@, "refresh"),
                          ![current].pending = TRUE]
  /\ liveness' = "asked"
  /\ UNCHANGED <<last, events, current, successor, affected, central, history,
                 counters>>

CloseLivenessGap ==
  /\ liveness = "fresh"
  /\ \A c \in Conn : "refresh" \notin DOMAIN conn[c].fetch
  /\ liveness' = "none"
  /\ central' = Closed(central, Liveness)
  /\ UNCHANGED <<last, events, conn, current, successor, affected, history,
                 counters>>

-----------------------------------------------------------------------------
ConnStep(c) ==
  \/ Serve(c) \/ Skip(c) \/ Deliver(c) \/ Repeat(c)
  \/ SnapshotArrives(c) \/ CloseDepthGap(c)
RouteStep ==
  \/ LastProof \/ Lost \/ Connect \/ CloseTransportGap
  \/ Rotate \/ SuccessorFails \/ Handover
  \/ Silent \/ Refresh \/ CloseLivenessGap
Next ==
  \/ DayEnds \/ RouteStep
  \/ \E n \in 1..2 : Emit(n)
  \/ \E c \in Conn : ConnStep(c)

Spec == Init /\ [][Next]_vars

-----------------------------------------------------------------------------
\* A book that has content is the exchange's book at the update it names,
\* whichever way it came: snapshot before or after the diffs that bridge it,
\* a repeated or a lost event, a second snapshot, a night in the checkpoint.
BookExact ==
  \A c \in Conn : LET b == central.books[c]
                  IN  b.content # NoBook => b.content = Exchange(b.prev)

\* What central calls valid comes from a snapshot received after the latest
\* gap began, and never from the inside of a gap, also across midnight
\* (docs/implementation-plan.md:155: validity needs the bridge and the CLOSED).
AuthorityReanchored ==
  central.authority # NoConn =>
    /\ central.gaps = {}
    /\ central.books[central.authority].state = "VALID"
    /\ central.authority \in anchoredBy

\* A valid book of a connection that is up has every diff received on it:
\* central's view of the sequence and the collector's agree, unless a second
\* snapshot has come after the bridge, or a break in the buffer has taken
\* received diffs with it (l2.py:211-245, 298-310).
Current(c) ==
  LET b == central.books[c]
  IN  Up(c) /\ b.state = "VALID" /\ b.anchor = 0 => b.prev = conn[c].u

ValidIsCurrent == \A c \in Conn \ cut : Current(c)

\* What central publishes as valid has every diff received on the connection:
\* "thereafter require each event's pu to equal the previous event's u"
\* (docs/binance-reconnect-recovery-research-2026-08-12.md:68).
AuthorityCurrent ==
  central.authority # NoConn => Current(central.authority)

\* The checkpoint can be written whenever the day ends: "anchored checkpoint
\* must be an unbridged book" (central/l2.py:53).
CheckpointWritable == Writable(central)

\* Midnight takes nothing from a symbol that is valid outside every gap.
MidnightKeepsAuthority ==
  [][days' # days /\ central.gaps = {} =>
       /\ central'.authority = central.authority
       /\ \A c \in Conn :
            c = central.authority \/ Anchored(central.books[c]) =>
              /\ central'.books[c].content = central.books[c].content
              /\ central'.books[c].prev = central.books[c].prev]_vars

\* The end of a gap never makes a connection that is gone the authority:
\* "transport recovered; L2 remains invalid until snapshot bridge"
\* (edge/sources.py:642).
RecoveryNeedsBridge ==
  [][central.gaps # {} /\ central'.gaps = {} /\ central'.authority # NoConn =>
       conn'[central'.authority].status = "up"]_vars
=============================================================================
