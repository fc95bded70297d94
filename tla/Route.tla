-------------------------------- MODULE Route --------------------------------
(***************************************************************************)
(* One websocket route: RouteRunner.run with its reconnects and overlap    *)
(* rotations, its liveness loop, the midnight update of its instruments    *)
(* (edge/sources.py), and the connections themselves (edge/binance.py).    *)
(*                                                                         *)
(* A key is a stream of a symbol. At every tick the exchange publishes one *)
(* event of each key that is alive. Times are ages in ticks, up to         *)
(* Timeout, so that behaviours are infinite and states are not.            *)
(***************************************************************************)
EXTENDS Integers, FiniteSets

CONSTANTS
  Key,
  First, Second,   \* instruments of the route before and after the update
  Timeout,         \* liveness_timeout_seconds
  Mortal,          \* keys whose symbol may stop trading
  MaxFaults        \* bound: failed connections, dropped streams, timeouts

ASSUME KeyAssumption == First \subseteq Key /\ Second \subseteq Key /\ First # Second
ASSUME TimeoutAssumption == Timeout \in Nat \ {0}
ASSUME FaultAssumption == MaxFaults \in Nat

VARIABLES
  run,         \* RouteRunner.run: "down", "starting", "up", "lock", "replacing", "overlap"
  current,     \* the connection of run
  replacement, \* and the one a rotation starts
  instruments, \* _instruments
  age,         \* _last_event: ticks since the last event of a key
  runGap,      \* gap_id of run: its keys, {} for None
  bootGap,     \* the service's gap, open until the route is ready
  reconnect,   \* _reconnect_requested
  lock,        \* holder of _update_lock: "none", "run", "live" or "update"
  live,        \* liveness_loop: "sleep", "lock", "wait", "fresh" or "dead"
  liveKeys,    \* keys being refreshed
  pending,     \* of which no event has come since the refresh
  active,      \* keys with a liveness gap
  seen,        \* of which an event has come since the gap was opened
  update,      \* update_instruments: "idle", "lock", "wait", "done" or "failed"
  msg,         \* the SubscriptionUpdate: "none", "queued", "acked", "done",
               \* "failed" or "cancelled"
  \* environment and history
  alive,       \* keys the exchange publishes
  unexplained, \* age of the oldest missed event no gap covers, None if there is none
  faults

None == -1

runVars  == <<run, current, replacement, runGap, bootGap>>
liveVars == <<live, liveKeys, pending, active, seen>>
shared   == <<instruments, reconnect, lock, update, msg>>
history  == <<age, alive, unexplained, faults>>
vars == <<runVars, liveVars, shared, history>>

NoConnection == [st |-> "none", subs |-> {}, served |-> {}, acked |-> FALSE,
                 waiting |-> {}, ready |-> FALSE, proven |-> 0, from |-> None]

Connection ==
  [st : {"none", "open", "failed"}, subs : SUBSET Key, served : SUBSET Key,
   acked : BOOLEAN, waiting : SUBSET Key, ready : BOOLEAN,
   proven : 0..Timeout, from : {None} \cup 0..Timeout]

TypeOK ==
  /\ run \in {"down", "starting", "up", "lock", "replacing", "overlap"}
  /\ current \in Connection /\ replacement \in Connection
  /\ instruments \in {First, Second}
  /\ age \in [Key -> 0..Timeout]
  /\ runGap \subseteq Key /\ bootGap \in BOOLEAN
  /\ reconnect \in BOOLEAN
  /\ lock \in {"none", "run", "live", "update"}
  /\ live \in {"sleep", "lock", "wait", "fresh", "dead"}
  /\ liveKeys \subseteq Key /\ pending \subseteq liveKeys
  /\ active \subseteq Key /\ seen \subseteq active
  /\ update \in {"idle", "lock", "wait", "done", "failed"}
  /\ msg \in {"none", "queued", "acked", "done", "failed", "cancelled"}
  /\ alive \subseteq Key
  /\ unexplained \in [Key -> {None} \cup 0..Timeout]
  /\ faults \in 0..MaxFaults

Init ==
  /\ run = "down" /\ current = NoConnection /\ replacement = NoConnection
  /\ instruments = First
  /\ age = [k \in Key |-> 0]
  /\ runGap = {} /\ bootGap = TRUE
  /\ reconnect = FALSE /\ lock = "none"
  /\ live = "sleep" /\ liveKeys = {} /\ pending = {} /\ active = {} /\ seen = {}
  /\ update = "idle" /\ msg = "none"
  /\ alive = Key
  /\ unexplained = [k \in Key |-> None]
  /\ faults = 0

-----------------------------------------------------------------------------
\* Time and the exchange

Older(t) == IF t < Timeout THEN t + 1 ELSE t
Aged(t)  == IF t = None THEN None ELSE Older(t)
AgedConnection(c, got) ==
  [c EXCEPT !.proven = Older(@), !.from = Aged(@), !.waiting = @ \ got]

Delivered == alive \cap instruments \cap (current.served \cup replacement.served)
Missed    == (alive \cap instruments) \ Delivered
InOpenGap == active \cup runGap \cup (IF bootGap THEN Key ELSE {})

\* An event of a stream makes the route forget since when it had none. It comes
\* too early if no gap has been opened for what the stream missed: that happens
\* to the streams a replacement delivers although the current connection has lost
\* them, and to those an update has added to the route whose gap is already open
\* without them.
TakenOver == replacement.served \ current.served
Unnamed   == IF runGap = {} THEN {} ELSE Key \ runGap
Forgotten == {k \in Delivered \cap (TakenOver \cup Unnamed) : unexplained[k] # None}

Tick ==
  /\ age' = [k \in Key |-> IF k \in Delivered THEN 0 ELSE Older(age[k])]
  /\ unexplained' = [k \in Key |->
       IF k \in Forgotten THEN None
       ELSE IF unexplained[k] = None /\ k \in Missed \ InOpenGap THEN 0
       ELSE Aged(unexplained[k])]
  /\ current' = AgedConnection(current, alive \cap current.served)
  /\ replacement' = AgedConnection(replacement, alive \cap replacement.served)
  /\ pending' = pending \ Delivered
  /\ seen' = seen \cup (active \cap Delivered)
  /\ UNCHANGED <<run, runGap, bootGap, live, liveKeys, active, shared, alive,
                 faults>>

Fault == faults < MaxFaults /\ faults' = faults + 1

\* A symbol stops trading.
Delist(k) ==
  /\ alive = Key /\ k \in Mortal
  /\ alive' = alive \ {k}
  /\ UNCHANGED <<runVars, liveVars, shared, age, unexplained, faults>>

\* The exchange stops one stream of a connection that stays up.
Drop(k) ==
  /\ Fault
  /\ \/ /\ k \in current.served
        /\ current' = [current EXCEPT !.served = @ \ {k}]
        /\ UNCHANGED replacement
     \/ /\ k \in replacement.served
        /\ replacement' = [replacement EXCEPT !.served = @ \ {k}]
        /\ UNCHANGED current
  /\ UNCHANGED <<run, runGap, bootGap, liveVars, shared, age, alive, unexplained>>

-----------------------------------------------------------------------------
\* BinanceWebSocketConnection

WrongOpened == [NoConnection EXCEPT !.st = "open", !.subs = instruments,
                                    !.waiting = Key]
Opened == [NoConnection EXCEPT !.st = "open", !.subs = instruments,
                               !.waiting = instruments]
TransportReady(c) == c.acked /\ c.waiting = {}
FullyReady(c) == c.st = "open" /\ c.ready /\ TransportReady(c)
Failed(c, from) == [c EXCEPT !.st = "failed", !.served = {}, !.from = from]

WithAck(c) == [c EXCEPT !.acked = TRUE, !.served = c.subs, !.proven = 0]

\* The exchange has acknowledged the subscription.
Acknowledged ==
  \/ /\ current.st = "open" /\ ~current.acked
     /\ current' = WithAck(current)
     /\ UNCHANGED <<replacement, run, runGap, bootGap, liveVars, shared, history>>
  \/ /\ replacement.st = "open" /\ ~replacement.acked
     /\ replacement' = WithAck(replacement)
     /\ UNCHANGED <<current, run, runGap, bootGap, liveVars, shared, history>>

\* All snapshots of the connection are in the queue.
SnapshotsDone ==
  \/ /\ current.st = "open" /\ current.acked /\ ~current.ready
     /\ current' = [current EXCEPT !.ready = TRUE]
     /\ UNCHANGED <<replacement, run, runGap, bootGap, liveVars, shared, history>>
  \/ /\ replacement.st = "open" /\ replacement.acked /\ ~replacement.ready
     /\ replacement' = [replacement EXCEPT !.ready = TRUE]
     /\ UNCHANGED <<current, run, runGap, bootGap, liveVars, shared, history>>

\* A connection that closes fails the update it has taken. The task that was
\* fetching the snapshots of the update hands on its own cancellation.
ClosesUpdate ==
  msg' \in CASE msg = "queued" -> {"queued", "failed"}
             [] msg = "acked"  -> {"failed", "cancelled"}
             [] OTHER          -> {msg}

\* Lost, silent, rejected, its event or snapshot met a full queue, or an audit got
\* no answer: then the error names the last proof.
CurrentFails ==
  /\ Fault
  /\ current.st = "open"
  /\ \/ current' = Failed(current, None)
     \/ current.acked /\ current' = Failed(current, current.proven)
  /\ ClosesUpdate
  /\ UNCHANGED <<run, replacement, runGap, bootGap, liveVars, instruments,
                 reconnect, lock, update, age, alive, unexplained>>

ReplacementFails ==
  /\ Fault
  /\ replacement.st = "open"
  /\ replacement' = Failed(replacement, None)
  /\ UNCHANGED <<run, current, runGap, bootGap, liveVars, shared, age, alive,
                 unexplained>>

\* The audit compares what the server lists with what was subscribed.
Audit ==
  /\ current.st = "open" /\ current.acked
  /\ IF current.served = current.subs
     THEN current' = [current EXCEPT !.proven = 0] /\ UNCHANGED msg
     ELSE current' = Failed(current, current.proven) /\ ClosesUpdate
  /\ UNCHANGED <<run, replacement, runGap, bootGap, liveVars, instruments,
                 reconnect, lock, update, history>>

\* UNSUBSCRIBE and SUBSCRIBE of an update are acknowledged.
Added   == IF lock = "live" THEN liveKeys ELSE Second \ instruments
Removed == IF lock = "live" THEN liveKeys ELSE instruments \ Second

WithUpdate(c) == [c EXCEPT !.subs = (@ \ Removed) \cup Added,
                           !.served = (@ \ Removed) \cup Added]

UpdateAcked ==
  /\ msg = "queued"
  /\ current.st = "open" /\ current.acked
  /\ msg' = "acked"
  /\ current' = WithUpdate(current)
  /\ UNCHANGED <<run, replacement, runGap, bootGap, liveVars, instruments,
                 reconnect, lock, update, history>>

\* Its snapshots are in the queue.
UpdateCompleted ==
  /\ msg = "acked"
  /\ msg' = "done"
  /\ UNCHANGED <<runVars, liveVars, instruments, reconnect, lock, update, history>>

\* The ten seconds to the acknowledgement or the 180 to the completion are over: no
\* fault while no connection reads its updates.
\* A message that was sent has its effect all the same.
UpdateTimesOut ==
  /\ msg \in {"queued", "acked"}
  /\ IF current.st = "open" /\ current.acked THEN Fault ELSE UNCHANGED faults
  /\ msg' = "failed"
  /\ \/ UNCHANGED current
     \/ /\ msg = "queued" /\ current.st = "open" /\ current.acked
        /\ current' = WithUpdate(current)
  /\ UNCHANGED <<run, replacement, runGap, bootGap, liveVars, instruments,
                 reconnect, lock, update, age, alive, unexplained>>

-----------------------------------------------------------------------------
\* RouteRunner.run

\* A gap of the keys K opened with the events of age f and younger inside it.
Covers(K, f) ==
  unexplained' = [k \in Key |-> IF k \in K /\ unexplained[k] <= f
                                THEN None ELSE unexplained[k]]

\* Where a gap of the route begins: at the last proof of its subscriptions if
\* an audit failed, else at the oldest of the last events.
Oldest == CHOOSE t \in {age[k] : k \in instruments} :
            \A k \in instruments : age[k] <= t
WrongAffectedFrom(c) == IF c.from # None THEN c.from ELSE 0
AffectedFrom(c) == IF c.from # None THEN c.from ELSE Oldest

OpenGap(c) ==
  /\ runGap' = instruments
  /\ Covers(instruments, AffectedFrom(c))

\* Whoever waits for an answer is scheduled before run hears of the connection.
AnswerTaken == msg \in {"none", "queued", "acked"}

StartConnection ==
  /\ run = "down"
  /\ AnswerTaken
  /\ run' = "starting"
  /\ current' = Opened
  /\ UNCHANGED <<replacement, runGap, bootGap, liveVars, shared, history>>

\* All monitored streams deliver: the gap is closed before the snapshots are in.
ReportTransport ==
  /\ run = "starting"
  /\ TransportReady(current)
  /\ runGap # {}
  /\ runGap' = {}
  /\ UNCHANGED <<run, current, replacement, bootGap, liveVars, shared, history>>

Started ==
  /\ run = "starting"
  /\ FullyReady(current) /\ runGap = {}
  /\ run' = "up"
  /\ bootGap' = FALSE
  /\ UNCHANGED <<current, replacement, runGap, liveVars, shared, history>>

\* A connection did not become ready: it failed, or one of its streams is silent
\* for 600 s.
NotReady(c) == c.st = "failed" \/ (c.acked /\ c.waiting \ (alive \cap c.served) # {})

StartFails ==
  /\ run = "starting"
  /\ NotReady(current)
  /\ AnswerTaken
  /\ IF runGap = {} THEN OpenGap(current) ELSE UNCHANGED <<runGap, unexplained>>
  /\ current' = NoConnection
  /\ run' = "down"
  /\ ClosesUpdate
  /\ UNCHANGED <<replacement, bootGap, liveVars, instruments, reconnect, lock,
                 update, age, alive, faults>>

CurrentLost ==
  /\ run = "up"
  /\ current.st = "failed"
  /\ AnswerTaken
  /\ OpenGap(current)
  /\ current' = NoConnection
  /\ run' = "down"
  /\ reconnect' = FALSE
  /\ UNCHANGED <<replacement, bootGap, liveVars, instruments, lock, update, msg,
                 age, alive, faults>>

Reconnect ==
  /\ run = "up"
  /\ current.st = "open"
  /\ reconnect
  /\ AnswerTaken
  /\ OpenGap(current)
  /\ current' = NoConnection
  /\ run' = "down"
  /\ reconnect' = FALSE
  /\ ClosesUpdate
  /\ UNCHANGED <<replacement, bootGap, liveVars, instruments, lock, update, age,
                 alive, faults>>

\* The timer is all that counts: nothing is asked of the current connection.
AskRotate ==
  /\ run = "up"
  /\ current.st = "open"
  /\ ~reconnect
  /\ run' = "lock"
  /\ UNCHANGED <<current, replacement, runGap, bootGap, liveVars, shared, history>>

WrongLockFree == TRUE
LockFree == lock = "none"

WrongReleased == lock
Released == "none"

\* The update lock excludes updates while two connections read their queue.
RotateLocked ==
  /\ run = "lock"
  /\ LockFree
  /\ lock' = "run"
  /\ run' = "replacing"
  /\ replacement' = Opened
  /\ UNCHANGED <<current, runGap, bootGap, liveVars, instruments, reconnect,
                 update, msg, history>>

ReplacementGivenUp ==
  /\ run = "replacing"
  /\ NotReady(replacement)
  /\ replacement' = NoConnection
  /\ lock' = Released
  /\ run' = "up"
  /\ UNCHANGED <<current, runGap, bootGap, liveVars, instruments, reconnect,
                 update, msg, history>>

ReplacementReady ==
  /\ run = "replacing"
  /\ FullyReady(replacement)
  /\ run' = "overlap"
  /\ UNCHANGED <<current, replacement, runGap, bootGap, liveVars, shared, history>>

\* The overlap is over. Nobody looks at how the old connection ended.
Handover ==
  /\ run = "overlap"
  /\ current' = replacement
  /\ replacement' = NoConnection
  /\ lock' = Released
  /\ run' = "up"
  /\ UNCHANGED <<runGap, bootGap, liveVars, instruments, reconnect, update, msg,
                 history>>

-----------------------------------------------------------------------------
\* RouteRunner.liveness_loop

WrongUnseen(K) == seen
Unseen(K) == seen \ K

Gone   == {k \in active : k \in seen \/ k \notin instruments}
Stale  == {k \in instruments : age[k] >= Timeout}

\* Gaps of streams that deliver again or left the route are closed; each stale
\* stream without a gap gets one from its last event on.
Check ==
  /\ live = "sleep"
  /\ Gone # {} \/ Stale # {}
  /\ active' = (active \ Gone) \cup Stale
  /\ seen' = Unseen(Gone)
  /\ unexplained' = [k \in Key |->
       IF k \in Stale \ (active \ Gone) /\ unexplained[k] <= age[k]
       THEN None ELSE unexplained[k]]
  /\ live' = IF Stale = {} THEN "sleep" ELSE "lock"
  /\ liveKeys' = Stale
  /\ pending' = {}
  /\ UNCHANGED <<runVars, shared, age, alive, faults>>

RefreshLocked ==
  /\ live = "lock"
  /\ LockFree
  /\ lock' = "live"
  /\ msg' = "queued"
  /\ live' = "wait"
  /\ UNCHANGED <<runVars, liveKeys, pending, active, seen, instruments, reconnect,
                 update, history>>

RefreshDone ==
  /\ live = "wait"
  /\ msg = "done"
  /\ lock' = Released
  /\ msg' = "none"
  /\ live' = "fresh"
  /\ pending' = liveKeys
  /\ UNCHANGED <<runVars, liveKeys, active, seen, instruments, reconnect, update,
                 history>>

\* A failed refresh asks for a reconnect, unless its snapshot met a full queue,
\* which fails the connection too.
RefreshFails ==
  /\ live = "wait"
  /\ msg = "failed"
  /\ lock' = Released
  /\ msg' = "none"
  /\ live' = "sleep"
  /\ reconnect' \in {TRUE} \cup (IF current.st = "open" THEN {} ELSE {reconnect})
  /\ UNCHANGED <<runVars, liveKeys, pending, active, seen, instruments, update,
                 history>>

\* CancelledError is no OSError: it ends the loop, and with it the group.
RefreshCancelled ==
  /\ live = "wait"
  /\ msg = "cancelled"
  /\ lock' = Released
  /\ msg' = "none"
  /\ live' = "dead"
  /\ UNCHANGED <<runVars, liveKeys, pending, active, seen, instruments, reconnect,
                 update, history>>

Fresh ==
  /\ live = "fresh"
  /\ pending = {} /\ liveKeys \subseteq instruments
  /\ active' = active \ liveKeys
  /\ seen' = Unseen(liveKeys)
  /\ live' = "sleep"
  /\ UNCHANGED <<runVars, liveKeys, pending, shared, history>>

FreshTimesOut ==
  /\ live = "fresh"
  /\ pending # {} /\ liveKeys \subseteq instruments
  /\ IF pending \subseteq alive \cap current.served THEN Fault ELSE UNCHANGED faults
  /\ live' = "sleep"
  /\ pending' = {}
  /\ reconnect' = TRUE
  /\ UNCHANGED <<runVars, liveKeys, active, seen, instruments, lock, update, msg,
                 age, alive, unexplained>>

\* A key that left the route is no longer in _last_event.
FreshKeyError ==
  /\ live = "fresh"
  /\ ~(liveKeys \subseteq instruments)
  /\ live' = "dead"
  /\ UNCHANGED <<runVars, liveKeys, pending, active, seen, shared, history>>

-----------------------------------------------------------------------------
\* RouteRunner.update_instruments, called at a universe boundary

UpdateAsks ==
  /\ update = "idle"
  /\ ~bootGap   \* the service is running
  /\ update' = "lock"
  /\ UNCHANGED <<runVars, liveVars, instruments, reconnect, lock, msg, history>>

UpdateLocked ==
  /\ update = "lock"
  /\ LockFree
  /\ lock' = "update"
  /\ msg' = "queued"
  /\ update' = "wait"
  /\ UNCHANGED <<runVars, liveVars, instruments, reconnect, history>>

\* Keys that stay keep their last event.
UpdateDone ==
  /\ update = "wait"
  /\ msg = "done"
  /\ instruments' = Second
  /\ age' = [k \in Key |-> IF k \in Second \ instruments THEN 0 ELSE age[k]]
  /\ unexplained' = [k \in Key |-> IF k \in Second THEN unexplained[k] ELSE None]
  /\ lock' = Released
  /\ msg' = "none"
  /\ update' = "done"
  /\ UNCHANGED <<runVars, liveVars, reconnect, alive, faults>>

\* The error reaches the midnight loop and stops the collector.
UpdateFails ==
  /\ update = "wait"
  /\ msg \in {"failed", "cancelled"}
  /\ lock' = Released
  /\ msg' = "none"
  /\ update' = "failed"
  /\ UNCHANGED <<runVars, liveVars, instruments, reconnect, history>>

-----------------------------------------------------------------------------
\* Until the source group fails or the collector stops.
Running == live # "dead" /\ update # "failed"

Environment == Tick \/ (\E k \in Key : Delist(k) \/ Drop(k))
ConnectionStep ==
  \/ Acknowledged \/ SnapshotsDone \/ CurrentFails \/ ReplacementFails \/ Audit
  \/ UpdateAcked \/ UpdateCompleted \/ UpdateTimesOut
RunStep ==
  \/ StartConnection \/ ReportTransport \/ Started \/ StartFails \/ CurrentLost
  \/ Reconnect \/ AskRotate \/ RotateLocked \/ ReplacementGivenUp
  \/ ReplacementReady \/ Handover
LiveStep ==
  \/ Check \/ RefreshLocked \/ RefreshDone \/ RefreshFails \/ RefreshCancelled
  \/ Fresh \/ FreshTimesOut \/ FreshKeyError
UpdateStep == UpdateAsks \/ UpdateLocked \/ UpdateDone \/ UpdateFails

Next == Running /\ (Environment \/ ConnectionStep \/ RunStep \/ LiveStep \/ UpdateStep)

Spec == Init /\ [][Next]_vars

-----------------------------------------------------------------------------
\* Properties

\* When a stream delivers again, every event it missed lies in a gap, unless the
\* event is Forgotten: a missed event outside all gaps is never older than the last
\* event received (RouteRunner.run and liveness_loop open each gap at the last proof
\* that the stream was complete, before the stream can come back). And what a
\* rotation is about to hide happened after the last proof of the connection it
\* retires (_start_ready_connection subscribes everything again).
NoSilentLoss ==
  Running =>
    /\ \A k \in instruments : unexplained[k] <= age[k]
    /\ current.st = "open" =>
         \A k \in TakenOver : unexplained[k] <= current.proven

\* Without exception, the first event of a stream after a loss comes when a gap
\* covers what the stream has missed.
NothingForgotten == Running => Forgotten = {}

\* Between updates a connection that is to stay is subscribed to the instruments of the
\* route, whichever rotation, refresh or reconnect came in between: only then
\* does the audit compare the right sets (RouteRunner._update_lock).
SubscriptionsMatch ==
  Running /\ run = "up" /\ current.st = "open" /\ ~reconnect /\ lock = "none"
          /\ live \in {"sleep", "lock"}
    => current.subs = instruments

\* A refresh that fails costs its route a reconnect; it never ends the route's
\* monitor, which would end the source group (the except clause of liveness_loop).
MonitorSurvives == live # "dead"

\* A gap of the route ends unless a symbol stops trading or the collector stops
\* (ReportTransport closes it at the first event of every monitored stream).
OutageEnds == (runGap # {}) ~> (runGap = {} \/ alive # Key \/ ~Running)

\* A stream with a gap of its own delivers again or leaves the route, after which
\* the next check closes the gap (the refresh, and the reconnect if it fails).
StreamRecovers ==
  \A k \in First \cap Second : (k \in active) ~> (k \in seen \/ k \notin active
                                        \/ alive # Key \/ ~Running)

LiveSpec ==
  /\ Spec
  /\ WF_vars(Running /\ Tick)
  /\ WF_vars(Running /\ (Acknowledged \/ SnapshotsDone))
  /\ WF_vars(Running /\ (UpdateAcked \/ UpdateCompleted \/ UpdateTimesOut))
  /\ SF_vars(Running /\ (StartConnection \/ ReportTransport \/ Started \/ StartFails
                        \/ CurrentLost \/ Reconnect \/ ReplacementGivenUp
                        \/ ReplacementReady \/ Handover))
  /\ WF_vars(Running /\ (Check \/ RefreshDone \/ RefreshFails \/ RefreshCancelled
                        \/ Fresh \/ FreshTimesOut \/ FreshKeyError))
  /\ SF_vars(Running /\ RefreshLocked)
  /\ SF_vars(Running /\ RotateLocked)
  /\ WF_vars(Running /\ (UpdateDone \/ UpdateFails))

=============================================================================
