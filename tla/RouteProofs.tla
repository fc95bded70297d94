------------------------------ MODULE RouteProofs ----------------------------
(***************************************************************************)
(* Proofs about Route, for any instruments, any timeout and any number of  *)
(* faults.                                                                 *)
(*                                                                         *)
(* The argument. A missed event that no gap covers belongs to a key of the *)
(* route that no open gap has and its connection does not deliver, or has  *)
(* not delivered yet. It is never older than the last event received, nor  *)
(* than the last proof of the subscriptions, because the connection is     *)
(* subscribed to what the route is to have: so a gap that begins at either *)
(* covers it. A replacement that delivers what the current connection has  *)
(* lost, and keys that an update adds to a route whose gap is open without *)
(* them, are Forgotten: Tick says what the code loses sight of.            *)
(***************************************************************************)
EXTENDS Route, FiniteSetTheorems, TLAPS

-----------------------------------------------------------------------------
\* Ages

AgeSet == {None} \cup 0..Timeout

LEMMA OlderFacts ==
  ASSUME NEW t \in 0..Timeout
  PROVE  Older(t) \in 0..Timeout /\ t <= Older(t)
  BY TimeoutAssumption DEF Older

LEMMA AgedFacts ==
  ASSUME NEW t \in AgeSet
  PROVE  Aged(t) \in AgeSet /\ (Aged(t) = None <=> t = None)
  BY TimeoutAssumption DEF Aged, AgeSet, Older, None

\* Ageing keeps the order, and what is missed now is younger than everything.
LEMMA AgedOrder ==
  ASSUME NEW u \in AgeSet, NEW t \in AgeSet, u <= t
  PROVE  Aged(u) <= Aged(t)
  BY TimeoutAssumption DEF Aged, AgeSet, Older, None

LEMMA AgedConnectionType ==
  ASSUME NEW c \in Connection, NEW K \in SUBSET Key
  PROVE  /\ AgedConnection(c, K) \in Connection
         /\ AgedConnection(c, K).st = c.st
         /\ AgedConnection(c, K).subs = c.subs
         /\ AgedConnection(c, K).served = c.served
         /\ AgedConnection(c, K).acked = c.acked
         /\ AgedConnection(c, K).waiting = c.waiting \ K
         /\ AgedConnection(c, K).proven = Older(c.proven)
         /\ AgedConnection(c, K).from = Aged(c.from)
<1>1. c.from \in AgeSet /\ c.proven \in 0..Timeout
  BY DEF Connection, AgeSet
<1>2. Aged(c.from) \in {None} \cup 0..Timeout /\ Older(c.proven) \in 0..Timeout
  BY <1>1, AgedFacts, OlderFacts DEF AgeSet
<1> QED BY <1>2 DEF AgedConnection, Connection

LEMMA OpenedType ==
  /\ NoConnection \in Connection
  /\ TypeOK => Opened \in Connection
<1>1. 0 \in 0..Timeout
  BY TimeoutAssumption
<1>2. NoConnection \in Connection
  BY <1>1 DEF NoConnection, Connection
<1>3. TypeOK => instruments \subseteq Key
  BY KeyAssumption DEF TypeOK
<1>4. TypeOK => Opened \in Connection
  BY <1>2, <1>3 DEF Opened, Connection
<1> QED BY <1>2, <1>4

LEMMA UpdatedType ==
  ASSUME TypeOK, NEW c \in Connection
  PROVE  WithUpdate(c) \in Connection /\ WithAck(c) \in Connection
<1>1. 0 \in 0..Timeout
  BY TimeoutAssumption
<1>2. Added \subseteq Key /\ Removed \subseteq Key
  BY KeyAssumption DEF Added, Removed, TypeOK
<1>3. /\ c.subs \subseteq Key /\ c.served \subseteq Key
      /\ (c.subs \ Removed) \cup Added \subseteq Key
      /\ (c.served \ Removed) \cup Added \subseteq Key
  BY <1>2 DEF Connection
<1>4. WithUpdate(c) \in Connection
  BY <1>3 DEF WithUpdate, Connection
<1>5. WithAck(c) \in Connection
  BY <1>1, <1>3 DEF WithAck, Connection
<1> QED BY <1>4, <1>5

LEMMA AckFacts ==
  ASSUME NEW c \in Connection
  PROVE  /\ WithAck(c).st = c.st /\ WithAck(c).subs = c.subs
         /\ WithAck(c).served = c.subs /\ WithAck(c).acked
         /\ WithAck(c).proven = 0 /\ WithAck(c).from = c.from
         /\ WithAck(c).waiting = c.waiting
  BY DEF WithAck, Connection

LEMMA UpdateFacts ==
  ASSUME NEW c \in Connection
  PROVE  /\ WithUpdate(c).st = c.st /\ WithUpdate(c).acked = c.acked
         /\ WithUpdate(c).subs = (c.subs \ Removed) \cup Added
         /\ WithUpdate(c).served = (c.served \ Removed) \cup Added
         /\ WithUpdate(c).proven = c.proven /\ WithUpdate(c).from = c.from
         /\ WithUpdate(c).waiting = c.waiting
  BY DEF WithUpdate, Connection

LEMMA FailedFacts ==
  ASSUME NEW c \in Connection, NEW f
  PROVE  /\ Failed(c, f).st = "failed" /\ Failed(c, f).served = {}
         /\ Failed(c, f).from = f /\ Failed(c, f).subs = c.subs
         /\ Failed(c, f).acked = c.acked /\ Failed(c, f).waiting = c.waiting
  BY DEF Failed, Connection

LEMMA FailedType ==
  ASSUME NEW c \in Connection
  PROVE  Failed(c, None) \in Connection /\ Failed(c, c.proven) \in Connection
  BY TimeoutAssumption DEF Failed, Connection

LEMMA CoversType ==
  ASSUME TypeOK, NEW K, NEW f, Covers(K, f)
  PROVE  unexplained' \in [Key -> {None} \cup 0..Timeout]
  BY DEF Covers, TypeOK

LEMMA ClosesType ==
  ASSUME TypeOK, ClosesUpdate
  PROVE  msg' \in {"none", "queued", "acked", "done", "failed", "cancelled"}
  BY DEF ClosesUpdate, TypeOK

-----------------------------------------------------------------------------
\* Types

LEMMA FaultType == TypeOK /\ Fault => faults' \in 0..MaxFaults
  BY FaultAssumption DEF TypeOK, Fault

LEMMA TypeInit == Init => TypeOK
<1> SUFFICES ASSUME Init PROVE TypeOK
  OBVIOUS
<1>1. /\ 0 \in 0..Timeout /\ 0 \in 0..MaxFaults
      /\ age \in [Key -> 0..Timeout]
      /\ unexplained \in [Key -> {None} \cup 0..Timeout]
  BY TimeoutAssumption, FaultAssumption DEF Init
<1> QED BY <1>1, OpenedType DEF Init, TypeOK

LEMMA TypeEnvironment == TypeOK /\ Environment => TypeOK'
<1> SUFFICES ASSUME TypeOK, Environment PROVE TypeOK'
  OBVIOUS
<1>1. CASE Tick
  <2>1. current' \in Connection /\ replacement' \in Connection
    BY <1>1, AgedConnectionType DEF Tick, TypeOK
  <2>2. age' \in [Key -> 0..Timeout]
    BY <1>1, OlderFacts, TimeoutAssumption DEF Tick, TypeOK
  <2>3. unexplained' \in [Key -> {None} \cup 0..Timeout]
    BY <1>1, AgedFacts, TimeoutAssumption DEF Tick, TypeOK, AgeSet
  <2> QED
    BY <1>1, <2>1, <2>2, <2>3 DEF Tick, TypeOK, shared
<1>2. ASSUME NEW k \in Key, Delist(k) PROVE TypeOK'
  BY <1>2 DEF Delist, TypeOK, runVars, liveVars, shared
<1>3. ASSUME NEW k \in Key, Drop(k) PROVE TypeOK'
  <2>1. current' \in Connection /\ replacement' \in Connection
    BY <1>3 DEF Drop, TypeOK, Connection
  <2> QED BY <1>3, <2>1, FaultType DEF Drop, TypeOK, liveVars, shared
<1> QED BY <1>1, <1>2, <1>3 DEF Environment

LEMMA TypeConnection == TypeOK /\ ConnectionStep => TypeOK'
<1> SUFFICES ASSUME TypeOK, ConnectionStep PROVE TypeOK'
  OBVIOUS
<1> USE DEF liveVars, shared, history
<1>1. CASE Acknowledged
  BY <1>1, UpdatedType DEF Acknowledged, TypeOK
<1>2. CASE SnapshotsDone
  <2>1. current' \in Connection /\ replacement' \in Connection
    BY <1>2 DEF SnapshotsDone, TypeOK, Connection
  <2> QED BY <1>2, <2>1 DEF SnapshotsDone, TypeOK
<1>3. CASE CurrentFails
  BY <1>3, FailedType, FaultType, ClosesType DEF CurrentFails, TypeOK
<1>4. CASE ReplacementFails
  BY <1>4, FailedType, FaultType DEF ReplacementFails, TypeOK
<1>5. CASE Audit
  <2>1. 0 \in 0..Timeout
    BY TimeoutAssumption
  <2>3. [current EXCEPT !.proven = 0] \in Connection
    BY <2>1 DEF TypeOK, Connection
  <2>4. current' \in Connection
    BY <1>5, <2>3, FailedType DEF Audit, TypeOK
  <2>2. msg' \in {"none", "queued", "acked", "done", "failed", "cancelled"}
    BY <1>5, ClosesType DEF Audit, TypeOK
  <2> QED BY <1>5, <2>4, <2>2 DEF Audit, TypeOK
<1>6. CASE UpdateAcked
  BY <1>6, UpdatedType DEF UpdateAcked, TypeOK
<1>7. CASE UpdateCompleted
  BY <1>7 DEF UpdateCompleted, TypeOK, runVars
<1>8. CASE UpdateTimesOut
  <2>1. current' \in Connection
    BY <1>8, UpdatedType DEF UpdateTimesOut, TypeOK
  <2>2. faults' \in 0..MaxFaults
    BY <1>8, FaultType DEF UpdateTimesOut, TypeOK
  <2> QED BY <1>8, <2>1, <2>2 DEF UpdateTimesOut, TypeOK
<1> QED BY <1>1, <1>2, <1>3, <1>4, <1>5, <1>6, <1>7, <1>8 DEF ConnectionStep

LEMMA TypeRun == TypeOK /\ RunStep => TypeOK'
<1> SUFFICES ASSUME TypeOK, RunStep PROVE TypeOK'
  OBVIOUS
<1> USE DEF liveVars, shared, history
<1>0. instruments \subseteq Key
  BY KeyAssumption DEF TypeOK
<1>1. CASE StartConnection
  BY <1>1, OpenedType DEF StartConnection, TypeOK
<1>2. CASE ReportTransport
  BY <1>2 DEF ReportTransport, TypeOK
<1>3. CASE Started
  BY <1>3 DEF Started, TypeOK
<1>4. CASE StartFails
  <2>1. /\ runGap' \subseteq Key
        /\ unexplained' \in [Key -> {None} \cup 0..Timeout]
    BY <1>0, <1>4, CoversType DEF StartFails, OpenGap, TypeOK
  <2> QED BY <1>4, <2>1, OpenedType, ClosesType DEF StartFails, TypeOK
<1>5. CASE CurrentLost
  <2>1. unexplained' \in [Key -> {None} \cup 0..Timeout]
    BY <1>5, CoversType DEF CurrentLost, OpenGap
  <2> QED BY <1>0, <1>5, <2>1, OpenedType DEF CurrentLost, OpenGap, TypeOK
<1>6. CASE Reconnect
  BY <1>0, <1>6, CoversType, OpenedType, ClosesType DEF Reconnect, OpenGap, TypeOK
<1>7. CASE AskRotate
  BY <1>7 DEF AskRotate, TypeOK
<1>8. CASE RotateLocked
  BY <1>8, OpenedType DEF RotateLocked, TypeOK
<1>9. CASE ReplacementGivenUp
  BY <1>9, OpenedType DEF ReplacementGivenUp, TypeOK, Released
<1>10. CASE ReplacementReady
  BY <1>10 DEF ReplacementReady, TypeOK
<1>11. CASE Handover
  BY <1>11, OpenedType DEF Handover, TypeOK, Released
<1> QED
  BY <1>1, <1>2, <1>3, <1>4, <1>5, <1>6, <1>7, <1>8, <1>9, <1>10, <1>11 DEF RunStep

LEMMA TypeLive == TypeOK /\ LiveStep => TypeOK'
<1> SUFFICES ASSUME TypeOK, LiveStep PROVE TypeOK'
  OBVIOUS
<1> USE DEF runVars, shared, history, TypeOK, Released
<1>1. CASE Check
  <2>1. Stale \subseteq Key
    BY KeyAssumption DEF Stale
  <2>2. active' \subseteq Key /\ seen' \subseteq active'
    BY <1>1, <2>1 DEF Check, Unseen
  <2>3. unexplained' \in [Key -> {None} \cup 0..Timeout]
    BY <1>1 DEF Check
  <2> QED BY <1>1, <2>1, <2>2, <2>3 DEF Check
<1>2. CASE RefreshLocked
  BY <1>2 DEF RefreshLocked
<1>3. CASE RefreshDone
  BY <1>3 DEF RefreshDone
<1>4. CASE RefreshFails
  BY <1>4 DEF RefreshFails
<1>5. CASE RefreshCancelled
  BY <1>5 DEF RefreshCancelled
<1>6. CASE Fresh
  BY <1>6 DEF Fresh, Unseen
<1>7. CASE FreshTimesOut
  BY <1>7, FaultType DEF FreshTimesOut
<1>8. CASE FreshKeyError
  BY <1>8 DEF FreshKeyError
<1> QED BY <1>1, <1>2, <1>3, <1>4, <1>5, <1>6, <1>7, <1>8 DEF LiveStep

LEMMA TypeUpdate == TypeOK /\ UpdateStep => TypeOK'
<1> SUFFICES ASSUME TypeOK, UpdateStep PROVE TypeOK'
  OBVIOUS
<1> USE DEF runVars, liveVars, shared, history, TypeOK, Released
<1>1. CASE UpdateAsks
  BY <1>1 DEF UpdateAsks
<1>2. CASE UpdateLocked
  BY <1>2 DEF UpdateLocked
<1>3. CASE UpdateDone
  BY <1>3, TimeoutAssumption DEF UpdateDone
<1>4. CASE UpdateFails
  BY <1>4 DEF UpdateFails
<1> QED BY <1>1, <1>2, <1>3, <1>4 DEF UpdateStep

\* The route's variables keep their types: in particular the ages of the last
\* events and of the proofs stay within the liveness timeout (RouteRunner).
THEOREM TypeCorrect == Spec => []TypeOK
<1>1. Init => TypeOK
  BY TypeInit
<1>2. TypeOK /\ [Next]_vars => TypeOK'
  <2>1. CASE Next
    BY <2>1, TypeEnvironment, TypeConnection, TypeRun, TypeLive, TypeUpdate DEF Next
  <2>2. CASE UNCHANGED vars
    BY <2>2 DEF vars, runVars, liveVars, shared, history, TypeOK
  <2> QED BY <2>1, <2>2
<1> QED BY <1>1, <1>2, PTL DEF Spec

-----------------------------------------------------------------------------
\* The inductive invariant

\* An update of the instruments has failed, and the collector will stop.
Hopeless == lock = "update" /\ msg \in {"failed", "cancelled"}

\* One has been acknowledged, but the route still goes by the old instruments.
Updating == lock = "update" /\ msg \in {"acked", "done"}

\* What the connection should be subscribed to, and what it may be besides: keys
\* that are being refreshed, or anything if it is to be replaced.
Target == IF Updating THEN Second ELSE instruments
Extra  == IF reconnect THEN Key
          ELSE IF live = "fresh" \/ (live = "wait" /\ msg # "queued")
               THEN liveKeys ELSE {}

Quiet(c) == c.st = "none" /\ c.served = {} /\ ~c.acked /\ c.from = None
Waits(c) == c.st = "open" /\ ~c.acked => c.waiting = instruments /\ c.served = {}

\* Who holds the lock, and what an update in progress requires.
Locks ==
  /\ lock = "live" <=> live = "wait"
  /\ lock = "update" <=> update = "wait"
  /\ lock = "run" <=> run \in {"replacing", "overlap"}
  /\ msg # "none" <=> lock \in {"live", "update"}
  /\ instruments = IF update = "done" THEN Second ELSE First
  /\ Updating => run \in {"starting", "up", "lock"}
  /\ Updating /\ msg = "acked" => current.st = "open"
  /\ Updating /\ current.st = "open" => current.acked
  /\ live \in {"lock", "wait"} => liveKeys \subseteq active

\* What the phase of the route says about its connections and its gap: while a
\* connection waits for its acknowledgement, everything the route is to have lies in
\* an open gap, or a gap was opened before keys joined the route.
Connections ==
  /\ IF run = "down" THEN Quiet(current) ELSE current.st # "none"
  /\ IF run \in {"replacing", "overlap"}
     THEN replacement.st # "none" /\ replacement.subs = instruments
     ELSE Quiet(replacement)
  /\ current.st # "failed" => current.from = None
  /\ replacement.from = None
  /\ current.st = "open" /\ run # "starting" => current.acked
  /\ run = "overlap" /\ replacement.st = "open" => replacement.acked
  /\ run = "overlap" => replacement.waiting = {}
  /\ run \notin {"down", "starting"} =>
       runGap = {} /\ ~bootGap /\ current.waiting = {}
  /\ run = "down" \/ (current.st = "open" /\ ~current.acked) =>
       bootGap \/ runGap # {} \/ instruments = {}
  /\ Waits(current) /\ Waits(replacement)

\* An open connection is subscribed to what it should be.
Subscribed ==
  Running /\ ~Hopeless /\ current.st = "open" =>
    /\ Target \subseteq current.subs
    /\ current.subs \subseteq Target \cup (Extra \ instruments)

\* A key that left the route, is in a gap, or is delivered and not about to be
\* forgotten has no missed event outside the gaps; the others have none older than
\* their last event, and none older than the last proof of the subscriptions. Until
\* the first event of a connection the last claim needs that no gap was opened
\* without the key.
Told(k) == runGap = {} \/ k \notin current.waiting

Excused(k) ==
  \/ k \notin instruments
  \/ k \in InOpenGap
  \/ k \in current.served /\ Told(k)
  \/ k \in replacement.served \ replacement.waiting

ProvenBy(c, k) ==
  /\ c.st = "open" /\ c.acked => unexplained[k] <= c.proven
  /\ c.st = "failed" /\ c.from # None => unexplained[k] <= c.from

Proven(k) ==
  /\ Told(k) => ProvenBy(current, k)
  /\ k \notin replacement.waiting => ProvenBy(replacement, k)

Explained ==
  Running =>
    /\ \A k \in instruments : unexplained[k] <= age[k]
    /\ \A k \in Key : Excused(k) => unexplained[k] = None
    /\ ~Hopeless => \A k \in instruments \cap Target : Proven(k)

Structure == TypeOK /\ Locks /\ Connections
Inv       == Structure /\ Subscribed /\ Explained

-----------------------------------------------------------------------------
\* The lock and the phases

\* The messages a closing connection may leave.
LEMMA Closing ==
  ASSUME ClosesUpdate
  PROVE  /\ msg' = "none" <=> msg = "none"
         /\ msg' \notin {"queued", "acked"} \/ (msg = "queued" /\ msg' = "queued")
         /\ msg' = "done" => msg = "done"
         /\ msg \notin {"queued", "acked"} => msg' = msg
         /\ msg' \in {msg, "failed", "cancelled"}
  BY DEF ClosesUpdate

LEMMA LocksEnvironment ==
  Structure /\ Environment => Locks'
<1> SUFFICES ASSUME Structure, Environment PROVE Locks'
  OBVIOUS
<1> USE DEF Structure, runVars, liveVars, shared, Locks, Updating
<1>1. CASE Tick
  BY <1>1, AgedConnectionType DEF Tick, TypeOK
<1>2. ASSUME NEW k \in Key, Delist(k) PROVE Locks'
  BY <1>2 DEF Delist
<1>3. ASSUME NEW k \in Key, Drop(k) PROVE Locks'
  BY <1>3 DEF Drop, TypeOK, Connection
<1> QED BY <1>1, <1>2, <1>3 DEF Environment

LEMMA LocksConnection == Structure /\ ConnectionStep => Locks'
<1> SUFFICES ASSUME Structure, ConnectionStep PROVE Locks'
  OBVIOUS
<1>0. current \in Connection /\ TypeOK /\ Locks
  BY DEF TypeOK, Structure
<1> USE DEF liveVars, shared, history, Locks, Updating
<1>1. CASE Acknowledged
  BY <1>0, <1>1 DEF Acknowledged, WithAck, Connection
<1>2. CASE SnapshotsDone
  BY <1>0, <1>2 DEF SnapshotsDone, Connection
<1>3. CASE CurrentFails
  BY <1>0, <1>3, Closing, FailedFacts DEF CurrentFails
<1>4. CASE ReplacementFails
  BY <1>0, <1>4 DEF ReplacementFails
<1>5. CASE Audit
  <2>1. CASE current.served = current.subs
    BY <1>0, <1>5, <2>1 DEF Audit, Connection
  <2>2. CASE current.served # current.subs
    BY <1>0, <1>5, <2>2, Closing, FailedFacts DEF Audit
  <2> QED BY <2>1, <2>2
<1>6. CASE UpdateAcked
  <2>1. current'.st = "open" /\ current'.acked
    BY <1>0, <1>6 DEF UpdateAcked, WithUpdate, Connection
  <2>2. run # "down"
    BY <1>0, <1>6 DEF UpdateAcked, Structure, Connections, Quiet
  <2>3. lock = "update" => run \in {"starting", "up", "lock"}
    BY <1>0, <2>2 DEF TypeOK
  <2> QED BY <1>0, <1>6, <2>1, <2>3 DEF UpdateAcked
<1>7. CASE UpdateCompleted
  BY <1>0, <1>7 DEF UpdateCompleted, runVars
<1>8. CASE UpdateTimesOut
  BY <1>0, <1>8 DEF UpdateTimesOut
<1> QED BY <1>1, <1>2, <1>3, <1>4, <1>5, <1>6, <1>7, <1>8 DEF ConnectionStep

LEMMA LocksRun == Structure /\ RunStep => Locks'
<1> SUFFICES ASSUME Structure, RunStep PROVE Locks'
  OBVIOUS
<1>0. Locks /\ TypeOK
  BY DEF Structure
<1> USE DEF liveVars, shared, history, Locks, Updating, AnswerTaken, Released
<1>1. CASE StartConnection
  BY <1>0, <1>1 DEF StartConnection
<1>2. CASE ReportTransport
  BY <1>0, <1>2 DEF ReportTransport
<1>3. CASE Started
  BY <1>0, <1>3 DEF Started
<1>4. CASE StartFails
  BY <1>0, <1>4, Closing DEF StartFails
<1>5. CASE CurrentLost
  BY <1>0, <1>5 DEF CurrentLost
<1>6. CASE Reconnect
  BY <1>0, <1>6, Closing DEF Reconnect
<1>7. CASE AskRotate
  BY <1>0, <1>7 DEF AskRotate
<1>8. CASE RotateLocked
  BY <1>0, <1>8 DEF RotateLocked, LockFree
<1>9. CASE ReplacementGivenUp
  BY <1>0, <1>9 DEF ReplacementGivenUp
<1>10. CASE ReplacementReady
  BY <1>0, <1>10 DEF ReplacementReady
<1>11. CASE Handover
  BY <1>0, <1>11 DEF Handover
<1> QED
  BY <1>1, <1>2, <1>3, <1>4, <1>5, <1>6, <1>7, <1>8, <1>9, <1>10, <1>11 DEF RunStep

LEMMA LocksTasks == Structure /\ (LiveStep \/ UpdateStep) => Locks'
<1> SUFFICES ASSUME Structure, LiveStep \/ UpdateStep PROVE Locks'
  OBVIOUS
<1>0. Locks /\ TypeOK
  BY DEF Structure
<1> USE DEF runVars, liveVars, shared, history, Locks, Updating, LockFree, Released
<1>1. CASE Check
  BY <1>0, <1>1 DEF Check
<1>2. CASE RefreshLocked
  BY <1>0, <1>2 DEF RefreshLocked
<1>3. CASE RefreshDone
  BY <1>0, <1>3 DEF RefreshDone
<1>4. CASE RefreshFails
  BY <1>0, <1>4 DEF RefreshFails
<1>5. CASE RefreshCancelled
  BY <1>0, <1>5 DEF RefreshCancelled
<1>6. CASE Fresh
  BY <1>0, <1>6 DEF Fresh
<1>7. CASE FreshTimesOut
  BY <1>0, <1>7 DEF FreshTimesOut
<1>8. CASE FreshKeyError
  BY <1>0, <1>8 DEF FreshKeyError
<1>9. CASE UpdateAsks
  BY <1>0, <1>9 DEF UpdateAsks
<1>10. CASE UpdateLocked
  BY <1>0, <1>10 DEF UpdateLocked
<1>11. CASE UpdateDone
  BY <1>0, <1>11 DEF UpdateDone
<1>12. CASE UpdateFails
  BY <1>0, <1>12 DEF UpdateFails
<1> QED
  BY <1>1, <1>2, <1>3, <1>4, <1>5, <1>6, <1>7, <1>8, <1>9, <1>10, <1>11, <1>12
     DEF LiveStep, UpdateStep

LEMMA ConnectionsEnvironment == Structure /\ Environment => Connections'
<1> SUFFICES ASSUME Structure, Environment PROVE Connections'
  OBVIOUS
<1>0. Connections /\ TypeOK
  BY DEF Structure
<1> USE DEF runVars, liveVars, shared, Connections, Quiet, Waits
<1>1. CASE Tick
  <2>1. ASSUME NEW c \in Connection
        PROVE  LET a == AgedConnection(c, alive \cap c.served) IN
               /\ a.st = c.st /\ a.subs = c.subs /\ a.served = c.served
               /\ a.acked = c.acked /\ (a.from = None <=> c.from = None)
               /\ c.waiting = {} => a.waiting = {}
               /\ c.served = {} => a.waiting = c.waiting
    <3>1. alive \cap c.served \in SUBSET Key /\ c.from \in AgeSet
      BY <1>0 DEF TypeOK, Connection, AgeSet
    <3>2. AgedConnection(c, alive \cap c.served).waiting
            = c.waiting \ (alive \cap c.served)
      BY <3>1, AgedConnectionType
    <3>3. Aged(c.from) = None <=> c.from = None
      BY <3>1, AgedFacts
    <3>4. LET a == AgedConnection(c, alive \cap c.served) IN
          /\ a.st = c.st /\ a.subs = c.subs /\ a.served = c.served
          /\ a.acked = c.acked /\ a.from = Aged(c.from)
      BY <3>1, AgedConnectionType
    <3> QED BY <3>2, <3>3, <3>4
  <2>2. current \in Connection /\ replacement \in Connection
    BY <1>0 DEF TypeOK
  <2>3. Waits(current)' /\ Waits(replacement)'
    BY <1>0, <1>1, <2>1, <2>2 DEF Tick
  <2> QED BY <1>0, <1>1, <2>1, <2>2, <2>3 DEF Tick
<1>2. ASSUME NEW k \in Key, Delist(k) PROVE Connections'
  BY <1>0, <1>2 DEF Delist
<1>3. ASSUME NEW k \in Key, Drop(k) PROVE Connections'
  BY <1>0, <1>3 DEF Drop, TypeOK, Connection
<1> QED BY <1>1, <1>2, <1>3 DEF Environment

LEMMA ConnectionsConnection == Structure /\ ConnectionStep => Connections'
<1> SUFFICES ASSUME Structure, ConnectionStep PROVE Connections'
  OBVIOUS
<1>0. Connections /\ TypeOK /\ current \in Connection /\ replacement \in Connection
  BY DEF Structure, TypeOK
<1> USE DEF runVars, liveVars, shared, history, Connections, Quiet, Waits
<1>1. CASE Acknowledged
  BY <1>0, <1>1, AckFacts DEF Acknowledged
<1>2. CASE SnapshotsDone
  BY <1>0, <1>2 DEF SnapshotsDone, Connection
<1>3. CASE CurrentFails
  BY <1>0, <1>3 DEF CurrentFails, Failed, Connection
<1>4. CASE ReplacementFails
  BY <1>0, <1>4 DEF ReplacementFails, Failed, Connection
<1>5. CASE Audit
  <2>1. CASE current.served = current.subs
    BY <1>0, <1>5, <2>1 DEF Audit, Connection
  <2>2. CASE current.served # current.subs
    BY <1>0, <1>5, <2>2, FailedFacts DEF Audit
  <2> QED BY <2>1, <2>2
<1>6. CASE UpdateAcked
  BY <1>0, <1>6, UpdateFacts DEF UpdateAcked
<1>7. CASE UpdateCompleted
  BY <1>0, <1>7 DEF UpdateCompleted
<1>8. CASE UpdateTimesOut
  <2>1. CASE UNCHANGED current
    BY <1>0, <1>8, <2>1 DEF UpdateTimesOut
  <2>2. CASE current' = WithUpdate(current)
    BY <1>0, <1>8, <2>2, UpdateFacts DEF UpdateTimesOut
  <2> QED BY <1>8, <2>1, <2>2 DEF UpdateTimesOut
<1> QED BY <1>1, <1>2, <1>3, <1>4, <1>5, <1>6, <1>7, <1>8 DEF ConnectionStep

LEMMA ConnectionsRun == Structure /\ RunStep => Connections'
<1> SUFFICES ASSUME Structure, RunStep PROVE Connections'
  OBVIOUS
<1>0. Locks /\ Connections /\ TypeOK
  BY DEF Structure
<1>00. /\ Quiet(NoConnection)
       /\ Opened.st = "open" /\ Opened.subs = instruments /\ ~Opened.acked
       /\ Opened.from = None /\ Opened.served = {}
       /\ Opened.waiting = instruments
  BY DEF Quiet, NoConnection, Opened
<1> USE DEF liveVars, shared, history, Connections, Released, Waits
<1>1. CASE StartConnection
  BY <1>0, <1>00, <1>1 DEF StartConnection
<1>2. CASE ReportTransport
  BY <1>0, <1>2 DEF ReportTransport, TransportReady
<1>3. CASE Started
  BY <1>0, <1>3 DEF Started, FullyReady, TransportReady
<1>4. CASE StartFails
  BY <1>0, <1>00, <1>4 DEF StartFails, OpenGap, Quiet
<1>5. CASE CurrentLost
  BY <1>0, <1>00, <1>5 DEF CurrentLost, OpenGap, Quiet
<1>6. CASE Reconnect
  BY <1>0, <1>00, <1>6 DEF Reconnect, OpenGap, Quiet
<1>7. CASE AskRotate
  BY <1>0, <1>7 DEF AskRotate
<1>8. CASE RotateLocked
  BY <1>0, <1>00, <1>8 DEF RotateLocked
<1>9. CASE ReplacementGivenUp
  BY <1>0, <1>00, <1>9 DEF ReplacementGivenUp, Quiet
<1>10. CASE ReplacementReady
  BY <1>0, <1>10 DEF ReplacementReady, FullyReady, TransportReady
<1>11. CASE Handover
  BY <1>0, <1>00, <1>11 DEF Handover, Quiet
<1> QED
  BY <1>1, <1>2, <1>3, <1>4, <1>5, <1>6, <1>7, <1>8, <1>9, <1>10, <1>11 DEF RunStep

LEMMA ConnectionsTasks == Structure /\ (LiveStep \/ UpdateStep) => Connections'
<1> SUFFICES ASSUME Structure, LiveStep \/ UpdateStep PROVE Connections'
  OBVIOUS
<1>0. Locks /\ Connections /\ TypeOK
  BY DEF Structure
<1> USE DEF runVars, Connections, Quiet, Waits
<1>1. CASE UpdateDone
  <2>1. /\ run \in {"starting", "up", "lock"}
        /\ current.st = "open" => current.acked
    BY <1>0, <1>1 DEF UpdateDone, Locks, Updating
  <2> QED BY <1>0, <1>1, <2>1 DEF UpdateDone
<1>2. CASE ~UpdateDone
  <2>1. UNCHANGED <<runVars, instruments>>
    BY <1>2 DEF LiveStep, UpdateStep, Check, RefreshLocked, RefreshDone,
         RefreshFails, RefreshCancelled, Fresh, FreshTimesOut, FreshKeyError,
         UpdateAsks, UpdateLocked, UpdateFails, shared
  <2> QED BY <1>0, <2>1
<1> QED BY <1>1, <1>2

-----------------------------------------------------------------------------
\* What the connection is subscribed to

Good == Structure /\ Subscribed

\* A step that leaves the subscriptions and what they should be alone.
LEMMA SubscribedFrame ==
  ASSUME Subscribed, Running,
         current'.st = "open" => current.st = "open" /\ current'.subs = current.subs,
         UNCHANGED <<instruments, lock>>,
         Hopeless => Hopeless' \/ ~Running',
         ~Hopeless' => (Updating' <=> Updating),
         Extra \subseteq Extra'
  PROVE  Subscribed'
  BY DEF Subscribed, Target

LEMMA SubscribedEnvironment == Good /\ Running /\ Environment => Subscribed'
<1> SUFFICES ASSUME Good, Running, Environment PROVE Subscribed'
  OBVIOUS
<1>0. Subscribed /\ TypeOK
  BY DEF Good, Structure
<1>1. UNCHANGED <<instruments, lock, msg, reconnect, live, liveKeys>>
  BY DEF Environment, Tick, Delist, Drop, shared, liveVars
<1>2. current'.st = current.st /\ current'.subs = current.subs
  <2>1. alive \cap current.served \in SUBSET Key
    BY <1>0 DEF TypeOK
  <2>2. CASE Tick
    BY <1>0, <2>1, <2>2, AgedConnectionType DEF Tick, TypeOK
  <2>3. ASSUME NEW k \in Key, Delist(k) \/ Drop(k)
        PROVE  current'.st = current.st /\ current'.subs = current.subs
    BY <1>0, <2>3 DEF Delist, Drop, TypeOK, Connection, runVars
  <2> QED BY <2>2, <2>3 DEF Environment
<1>3. (Hopeless' <=> Hopeless) /\ (Updating' <=> Updating) /\ Extra' = Extra
  BY <1>1 DEF Hopeless, Updating, Extra
<1> QED BY <1>0, <1>1, <1>2, <1>3, SubscribedFrame

LEMMA ClosingUpdate ==
  ASSUME ClosesUpdate, UNCHANGED <<lock, live, liveKeys, reconnect>>
  PROVE  /\ Hopeless => Hopeless'
         /\ ~Hopeless' => (Updating' <=> Updating)
         /\ Extra \subseteq Extra'
  BY Closing DEF Hopeless, Updating, Extra

\* An acknowledged refresh adds the keys it refreshes, an acknowledged update
\* makes the subscriptions those of the second instruments.
LEMMA SubscribedUpdate ==
  ASSUME Good, Running, msg = "queued", current.st = "open",
         UNCHANGED <<instruments, lock, live, liveKeys, reconnect>>,
         current' = WithUpdate(current),
         msg' = "acked" \/ msg' = "failed"
  PROVE  Subscribed'
<1>0. Subscribed /\ TypeOK /\ Locks /\ current \in Connection
  BY DEF Good, Structure, TypeOK
<1>1. current'.subs = (current.subs \ Removed) \cup Added
  BY <1>0, UpdateFacts
<1>2. ~Hopeless /\ ~Updating /\ Target = instruments
  BY DEF Hopeless, Updating, Target
<1>3. instruments \subseteq current.subs
      /\ current.subs \subseteq instruments \cup Extra
  BY <1>0, <1>2 DEF Subscribed
<1>4. CASE lock = "live"
  <2>1. Added = liveKeys /\ Removed = liveKeys /\ live = "wait"
    BY <1>0, <1>4 DEF Added, Removed, Locks
  <2>2. liveKeys \subseteq Key
    BY <1>0 DEF TypeOK
  <2>3. liveKeys \subseteq Extra' /\ Extra \subseteq Extra'
    BY <2>1, <2>2 DEF Extra
  <2>4. Target' = instruments
    BY <1>4 DEF Target, Updating
  <2>5. current'.subs = current.subs \cup liveKeys
    BY <1>1, <2>1
  <2> QED BY <1>3, <2>3, <2>4, <2>5 DEF Subscribed
<1>5. CASE lock = "update"
  <2>1. Added = Second \ instruments /\ Removed = instruments \ Second
    BY <1>5 DEF Added, Removed
  <2>2. Extra' = Extra
    BY <1>0, <1>5 DEF Extra, Locks
  <2>3. CASE msg' = "failed"
    BY <1>5, <2>3 DEF Subscribed, Hopeless
  <2>4. CASE msg' = "acked"
    <3>1. Target' = Second
      BY <1>5, <2>4 DEF Target, Updating
    <3>2. Second \subseteq current'.subs
          /\ current'.subs \subseteq Second \cup (Extra \ instruments)
      BY <1>1, <1>3, <2>1
    <3> QED BY <2>2, <3>1, <3>2 DEF Subscribed
  <2> QED BY <2>3, <2>4
<1> QED BY <1>0, <1>4, <1>5 DEF Locks

LEMMA SubscribedConnection == Good /\ Running /\ ConnectionStep => Subscribed'
<1> SUFFICES ASSUME Good, Running, ConnectionStep PROVE Subscribed'
  OBVIOUS
<1>0. Subscribed /\ TypeOK /\ Locks /\ current \in Connection
  BY DEF Good, Structure, TypeOK
<1>1. UNCHANGED <<instruments, lock, live, liveKeys, reconnect, update>>
  BY DEF ConnectionStep, Acknowledged, SnapshotsDone, CurrentFails,
         ReplacementFails, Audit, UpdateAcked, UpdateCompleted, UpdateTimesOut,
         shared, liveVars
<1>2. CASE Acknowledged \/ SnapshotsDone \/ ReplacementFails
  <2>1. current'.subs = current.subs /\ current'.st = current.st /\ msg' = msg
    BY <1>0, <1>2, AckFacts
       DEF Acknowledged, SnapshotsDone, ReplacementFails, Connection, shared
  <2>2. (Hopeless' <=> Hopeless) /\ (Updating' <=> Updating) /\ Extra' = Extra
    BY <1>1, <2>1 DEF Hopeless, Updating, Extra
  <2> QED BY <1>0, <1>1, <2>1, <2>2, SubscribedFrame
<1>3. CASE CurrentFails
  <2>1. current'.st # "open"
    BY <1>0, <1>3, FailedFacts DEF CurrentFails
  <2> QED BY <2>1 DEF Subscribed
<1>4. CASE Audit
  <2>1. CASE current.served = current.subs
    <3>1. current'.subs = current.subs /\ current'.st = current.st /\ msg' = msg
      BY <1>0, <1>4, <2>1 DEF Audit, Connection
    <3>2. (Hopeless' <=> Hopeless) /\ (Updating' <=> Updating) /\ Extra' = Extra
      BY <1>1, <3>1 DEF Hopeless, Updating, Extra
    <3> QED BY <1>0, <1>1, <3>1, <3>2, SubscribedFrame
  <2>2. CASE current.served # current.subs
    <3>1. current'.st # "open"
      BY <1>0, <1>4, <2>2, FailedFacts DEF Audit
    <3> QED BY <3>1 DEF Subscribed
  <2> QED BY <2>1, <2>2
<1>5. CASE UpdateAcked
  BY <1>1, <1>5, SubscribedUpdate DEF UpdateAcked
<1>6. CASE UpdateCompleted
  <2>1. UNCHANGED current /\ msg = "acked" /\ msg' = "done"
    BY <1>6 DEF UpdateCompleted, runVars
  <2>2. ~Hopeless /\ (Updating' <=> Updating) /\ Extra' = Extra
    BY <1>1, <2>1 DEF Hopeless, Updating, Extra
  <2> QED BY <1>0, <1>1, <2>1, <2>2, SubscribedFrame
<1>7. CASE UpdateTimesOut
  <2>1. msg \in {"queued", "acked"} /\ msg' = "failed"
    BY <1>7 DEF UpdateTimesOut
  <2>2. CASE UNCHANGED current
    <3>1. ~Hopeless /\ Extra \subseteq Extra'
      BY <1>1, <2>1 DEF Hopeless, Extra
    <3>2. ~Hopeless' => (Updating' <=> Updating)
      BY <1>1, <2>1 DEF Hopeless, Updating
    <3> QED BY <1>0, <1>1, <2>2, <3>1, <3>2, SubscribedFrame
  <2>3. CASE ~UNCHANGED current
    BY <1>1, <1>7, <2>1, <2>3, SubscribedUpdate DEF UpdateTimesOut
  <2> QED BY <2>2, <2>3
<1> QED BY <1>2, <1>3, <1>4, <1>5, <1>6, <1>7 DEF ConnectionStep

\* A connection starts with the instruments of the route; while an update has
\* the lock, none does.
LEMMA SubscribedRun == Good /\ Running /\ RunStep => Subscribed'
<1> SUFFICES ASSUME Good, Running, RunStep PROVE Subscribed'
  OBVIOUS
<1>0. Subscribed /\ TypeOK /\ Locks /\ Connections /\ current \in Connection
  BY DEF Good, Structure, TypeOK
<1>1. CASE StartConnection
  <2>1. current'.subs = instruments /\ UNCHANGED <<instruments, lock, msg>>
    BY <1>1 DEF StartConnection, Opened, NoConnection, shared
  <2>2. Target' = instruments
    BY <1>0, <1>1, <2>1 DEF Target, Updating, Locks, StartConnection
  <2> QED BY <2>1, <2>2 DEF Subscribed
<1>2. CASE StartFails \/ CurrentLost \/ Reconnect
  <2>1. current'.st # "open"
    BY <1>2 DEF StartFails, CurrentLost, Reconnect, NoConnection
  <2> QED BY <2>1 DEF Subscribed
<1>3. CASE RotateLocked \/ ReplacementGivenUp
  <2>1. UNCHANGED <<current, instruments, reconnect, live, liveKeys, msg, update>>
    BY <1>3 DEF RotateLocked, ReplacementGivenUp, liveVars
  <2>2. {lock, lock'} \subseteq {"none", "run"}
    BY <1>0, <1>3 DEF RotateLocked, ReplacementGivenUp, LockFree, Released, Locks
  <2>3. ~Hopeless /\ Target' = Target /\ Extra' = Extra
    BY <2>1, <2>2 DEF Hopeless, Target, Updating, Extra
  <2> QED BY <1>0, <2>1, <2>3 DEF Subscribed, Running
<1>4. CASE Handover
  <2>1. current'.subs = instruments /\ UNCHANGED instruments /\ lock' = "none"
    BY <1>0, <1>4 DEF Handover, Connections, Released
  <2>2. Target' = instruments
    BY <2>1 DEF Target, Updating
  <2> QED BY <2>1, <2>2 DEF Subscribed
<1>5. CASE ReportTransport \/ Started \/ AskRotate \/ ReplacementReady
  <2>1. UNCHANGED <<current, liveVars, shared>>
    BY <1>5 DEF ReportTransport, Started, AskRotate, ReplacementReady
  <2>2. (Hopeless' <=> Hopeless) /\ (Updating' <=> Updating) /\ Extra' = Extra
    BY <2>1 DEF Hopeless, Updating, Extra, shared, liveVars
  <2> QED BY <1>0, <2>1, <2>2, SubscribedFrame DEF shared
<1> QED BY <1>1, <1>2, <1>3, <1>4, <1>5 DEF RunStep

LEMMA SubscribedTasks ==
  Good /\ Running /\ (LiveStep \/ UpdateStep) => Subscribed'
<1> SUFFICES ASSUME Good, Running, LiveStep \/ UpdateStep PROVE Subscribed'
  OBVIOUS
<1>0. Subscribed /\ TypeOK /\ Locks /\ Connections
  BY DEF Good, Structure
<1>1. UNCHANGED current
  BY DEF LiveStep, UpdateStep, Check, RefreshLocked, RefreshDone, RefreshFails,
         RefreshCancelled, Fresh, FreshTimesOut, FreshKeyError, UpdateAsks,
         UpdateLocked, UpdateDone, UpdateFails, runVars
<1>2. CASE Check \/ FreshTimesOut \/ UpdateAsks
  <2>1. UNCHANGED <<instruments, lock, msg>>
    BY <1>2 DEF Check, FreshTimesOut, UpdateAsks, shared
  <2>2. Extra \subseteq Extra'
    BY <1>0, <1>2
       DEF Check, FreshTimesOut, UpdateAsks, shared, liveVars, Extra, TypeOK
  <2>3. (Hopeless' <=> Hopeless) /\ (Updating' <=> Updating)
    BY <2>1 DEF Hopeless, Updating
  <2> QED BY <1>0, <1>1, <2>1, <2>2, <2>3, SubscribedFrame
<1>3. CASE RefreshLocked \/ RefreshDone \/ RefreshFails \/ UpdateLocked
  <2>1. {lock, lock'} \subseteq {"none", "live"} \/ (lock = "none" /\ msg' = "queued")
    BY <1>0, <1>3 DEF RefreshLocked, RefreshDone, RefreshFails, UpdateLocked,
                      LockFree, Released, Locks
  <2>2. ~Hopeless /\ ~Updating /\ ~Updating'
    BY <2>1 DEF Hopeless, Updating
  <2>3. UNCHANGED instruments /\ Target = instruments /\ Target' = instruments
    BY <1>3, <2>2 DEF Target, RefreshLocked, RefreshDone, RefreshFails, UpdateLocked
  <2>4. current.st = "open" => Extra \subseteq Extra'
    BY <1>0, <1>3 DEF RefreshLocked, RefreshDone, RefreshFails, UpdateLocked,
                      liveVars, LockFree, Extra, TypeOK, Locks
  <2> QED BY <1>0, <1>1, <2>2, <2>3, <2>4 DEF Subscribed
<1>4. CASE Fresh
  <2>1. UNCHANGED <<instruments, lock, msg, reconnect, update>>
        /\ liveKeys \subseteq instruments /\ live = "fresh"
    BY <1>4 DEF Fresh, shared
  <2>2. (Hopeless' <=> Hopeless) /\ Target' = Target
    BY <2>1 DEF Hopeless, Target, Updating
  <2>3. Extra \ instruments \subseteq Extra' \ instruments
    BY <2>1 DEF Extra
  <2> QED BY <1>0, <1>1, <2>1, <2>2, <2>3 DEF Subscribed
<1>5. CASE RefreshCancelled \/ FreshKeyError \/ UpdateFails
  <2>1. ~Running'
    BY <1>5 DEF RefreshCancelled, FreshKeyError, UpdateFails, Running
  <2> QED BY <2>1 DEF Subscribed
<1>6. CASE UpdateDone
  <2>1. /\ lock = "update" /\ msg = "done" /\ instruments' = Second
        /\ lock' = "none" /\ UNCHANGED <<live, liveKeys, reconnect>>
        /\ live # "wait"
    BY <1>0, <1>6 DEF UpdateDone, Released, Locks, liveVars
  <2>2. Target = Second /\ Target' = Second /\ Extra' = Extra /\ ~Hopeless
    BY <2>1 DEF Target, Updating, Extra, Hopeless
  <2> QED BY <1>0, <1>1, <2>1, <2>2 DEF Subscribed
<1> QED BY <1>2, <1>3, <1>4, <1>5, <1>6 DEF LiveStep, UpdateStep

-----------------------------------------------------------------------------
\* What has been missed

LEMMA InvTypes ==
  ASSUME Inv
  PROVE  /\ instruments \subseteq Key
         /\ \A k \in Key : unexplained[k] \in AgeSet /\ age[k] \in 0..Timeout
         /\ current \in Connection /\ replacement \in Connection
         /\ current.proven \in 0..Timeout /\ current.from \in AgeSet
         /\ replacement.proven \in 0..Timeout /\ replacement.from \in AgeSet
         /\ unexplained \in [Key -> AgeSet] /\ age \in [Key -> 0..Timeout]
  BY KeyAssumption DEF Inv, Structure, TypeOK, AgeSet, Connection

\* Among finitely many ages one is the greatest: t..Timeout shrinks as t grows,
\* and strict inclusion of finite sets is well-founded.
LEMMA OldestAge ==
  ASSUME Inv, instruments # {}
  PROVE  Oldest \in 0..Timeout /\ \A k \in instruments : age[k] <= Oldest
<1> DEFINE A == {age[k] : k \in instruments}
<1>1. A \subseteq 0..Timeout /\ A # {}
  BY InvTypes
<1> DEFINE I == {t..Timeout : t \in A}
<1>2. I \subseteq FiniteSubsetsOf(Nat) /\ I # {}
  <2>1. ASSUME NEW t \in A PROVE t..Timeout \in FiniteSubsetsOf(Nat)
    <3>1. t \in 0..Timeout
      BY <1>1
    <3>2. t \in Int /\ Timeout \in Int /\ t..Timeout \subseteq Nat
      BY <3>1, TimeoutAssumption
    <3> HIDE DEF A
    <3>3. IsFiniteSet(t..Timeout)
      BY <3>2, FS_Interval
    <3> QED BY <3>2, <3>3 DEF FiniteSubsetsOf
  <2> HIDE DEF A
  <2> QED BY <1>1, <2>1
<1>3. PICK x \in I : \A y \in I : <<y, x>> \notin StrictSubsetOrdering(Nat)
  <2> HIDE DEF I
  <2> QED BY <1>2, WFMin, FS_StrictSubsetOrderingWellFounded
<1>4. PICK m \in A : x = m..Timeout
  <2> HIDE DEF A
  <2> QED OBVIOUS
<1>5. ASSUME NEW t \in A, ~(t <= m) PROVE FALSE
  <2> HIDE DEF A
  <2>1. m \in 0..Timeout /\ t \in 0..Timeout
    BY <1>1
  <2>2. t..Timeout \subseteq m..Timeout /\ m..Timeout \subseteq Nat
    BY <2>1, <1>5, TimeoutAssumption
  <2>3. m \in m..Timeout /\ m \notin t..Timeout
    BY <2>1, <1>5, TimeoutAssumption
  <2>4. t..Timeout \in I
    OBVIOUS
  <2>5. <<t..Timeout, m..Timeout>> \notin StrictSubsetOrdering(Nat)
    BY <1>3, <1>4, <2>4
  <2>6. t..Timeout # m..Timeout
    BY <2>3
  <2> HIDE DEF I
  <2> QED BY <2>2, <2>5, <2>6 DEF StrictSubsetOrdering
<1>6. \A k \in instruments : age[k] <= m
  <2>1. \A k \in instruments : age[k] \in A
    OBVIOUS
  <2> HIDE DEF A
  <2> QED BY <1>5, <2>1
<1>7. Oldest \in A /\ \A k \in instruments : age[k] <= Oldest
  BY <1>6 DEF Oldest
<1> QED BY <1>1, <1>7

\* A step that opens no hole: nothing is missed, no gap is closed over a missed
\* event, and no proof is forgotten.
LEMMA ExplainedFrame ==
  ASSUME Explained, Running,
         UNCHANGED <<unexplained, age, instruments>>,
         InOpenGap' \subseteq InOpenGap,
         \A k \in Key : k \in current'.served /\ Told(k)' => Excused(k),
         replacement'.served \ replacement'.waiting
           \subseteq replacement.served \ replacement.waiting,
         Running' /\ ~Hopeless' =>
           /\ ~Hopeless
           /\ instruments \cap Target' \subseteq Target
           /\ \A k \in instruments \cap Target : Proven(k) => Proven(k)'
  PROVE  Explained'
<1>1. \A k \in Key : Excused(k)' => Excused(k)
  BY DEF Excused
<1> QED BY <1>1 DEF Explained

SameProof(c, d) ==
  /\ d.st = c.st /\ d.acked = c.acked /\ d.waiting = c.waiting
  /\ d.proven = c.proven /\ d.from = c.from

LEMMA ProvenFrame ==
  ASSUME NEW k \in Key, Proven(k), unexplained' = unexplained,
         Told(k)' => Told(k),
         SameProof(current, current'), SameProof(replacement, replacement')
  PROVE  Proven(k)'
  BY DEF Proven, ProvenBy, SameProof

LEMMA ExplainedTick == Inv /\ Running /\ Tick => Explained'
<1> SUFFICES ASSUME Inv, Running, Tick PROVE Explained'
  OBVIOUS
<1>0. Explained /\ TypeOK
  BY DEF Inv, Structure
<1> DEFINE Now(k) == unexplained[k] = None /\ k \in Missed \ InOpenGap
<1>1. \A k \in Key : unexplained'[k] =
        IF k \in Forgotten THEN None
        ELSE IF Now(k) THEN 0 ELSE Aged(unexplained[k])
  BY DEF Tick
<1>2. \A k \in Key : age'[k] = IF k \in Delivered THEN 0 ELSE Older(age[k])
  BY DEF Tick
<1>3. /\ current'.st = current.st /\ current'.served = current.served
      /\ current'.acked = current.acked
      /\ current'.waiting = current.waiting \ (alive \cap current.served)
      /\ current'.proven = Older(current.proven)
      /\ current'.from = Aged(current.from)
      /\ replacement'.st = replacement.st /\ replacement'.served = replacement.served
      /\ replacement'.acked = replacement.acked
      /\ replacement'.waiting = replacement.waiting \ (alive \cap replacement.served)
      /\ replacement'.proven = Older(replacement.proven)
      /\ replacement'.from = Aged(replacement.from)
  <2>1. /\ alive \cap current.served \in SUBSET Key
        /\ alive \cap replacement.served \in SUBSET Key
    BY <1>0 DEF TypeOK
  <2> QED BY <2>1, InvTypes, AgedConnectionType DEF Tick
<1>4. /\ UNCHANGED <<instruments, lock, msg, reconnect, live, liveKeys, runGap>>
      /\ InOpenGap' = InOpenGap
  BY DEF Tick, shared, InOpenGap
<1>5. (Hopeless' <=> Hopeless) /\ Target' = Target
  BY <1>4 DEF Hopeless, Target, Updating
<1>60. ASSUME NEW k \in Delivered PROVE unexplained'[k] = None /\ k \in Key
  <2>1. k \in Key /\ k \notin Missed
    BY InvTypes DEF Delivered, Missed
  <2>2. CASE k \in Forgotten
    BY <1>1, <2>1, <2>2
  <2>3. CASE unexplained[k] = None
    BY <1>1, <2>1, <2>3, InvTypes, AgedFacts
  <2>4. CASE k \notin TakenOver \cup Unnamed
    <3>1. k \in current.served /\ (runGap = {} \/ k \in runGap)
      BY <2>1, <2>4 DEF Delivered, TakenOver, Unnamed
    <3>2. Excused(k)
      BY <3>1 DEF Excused, Told, InOpenGap
    <3> QED BY <1>0, <2>1, <2>3, <3>2 DEF Explained
  <2> QED BY <2>2, <2>3, <2>4 DEF Forgotten
<1>6. ASSUME NEW k \in Key, Excused(k)' PROVE unexplained'[k] = None
  <2>1. CASE k \in Delivered
    BY <1>60, <2>1
  <2>2. CASE k \notin Delivered
    <3>1. k \notin instruments \/ k \in InOpenGap \/ k \notin alive
      BY <1>3, <1>4, <1>6, <2>2 DEF Excused, Delivered
    <3>2. k \notin Missed \ InOpenGap /\ k \notin Forgotten
      BY <2>2, <3>1 DEF Missed, Forgotten
    <3>3. Excused(k)
      BY <1>3, <1>4, <1>6, <3>1 DEF Excused, Told
    <3>4. unexplained[k] = None
      BY <1>0, <3>3 DEF Explained
    <3> QED BY <1>1, <3>2, <3>4, InvTypes, AgedFacts
  <2> QED BY <2>1, <2>2
<1>7. ASSUME NEW k \in instruments PROVE unexplained'[k] <= age'[k]
  <2>0. k \in Key /\ unexplained[k] \in AgeSet /\ age[k] \in AgeSet
    BY InvTypes DEF AgeSet
  <2>1. CASE k \in Delivered
    BY <1>2, <1>60, <2>0, <2>1 DEF None
  <2>2. CASE k \notin Delivered
    <3>1. age'[k] = Older(age[k]) /\ age[k] # None /\ Older(age[k]) \in 0..Timeout
      BY <1>2, <2>0, <2>2, InvTypes, OlderFacts DEF None
    <3>2. unexplained[k] <= age[k]
      BY <1>0 DEF Explained
    <3>3. Aged(unexplained[k]) <= Older(age[k])
      BY <2>0, <3>1, <3>2, AgedOrder DEF Aged
    <3>4. k \notin Forgotten
      BY <2>2 DEF Forgotten
    <3> QED BY <1>1, <2>0, <3>1, <3>3, <3>4
  <2> QED BY <2>1, <2>2
<1>8. ASSUME NEW k \in instruments \cap Target, ~Hopeless PROVE Proven(k)'
  <2>0. k \in Key /\ unexplained[k] \in AgeSet /\ Proven(k)
    BY <1>0, <1>8, InvTypes DEF Explained
  <2>1. ASSUME NEW t \in AgeSet, t # None,
               unexplained[k] <= t \/ k \in Delivered
        PROVE  unexplained'[k] <= Aged(t)
    <3>1. Aged(t) \in AgeSet /\ Aged(t) # None /\ 0 <= Aged(t)
      BY <2>1, AgedFacts DEF AgeSet, None
    <3>2. CASE k \in Delivered
      BY <1>60, <3>1, <3>2 DEF AgeSet, None
    <3>3. CASE k \notin Delivered
      <4>1. Aged(unexplained[k]) <= Aged(t)
        BY <2>0, <2>1, <3>3, AgedOrder
      <4>2. k \notin Forgotten
        BY <3>3 DEF Forgotten
      <4> QED BY <1>1, <2>0, <3>1, <4>1, <4>2
    <3> QED BY <3>2, <3>3
  <2>2. ASSUME NEW t \in 0..Timeout
        PROVE  t \in AgeSet /\ t # None /\ Aged(t) = Older(t)
    BY DEF AgeSet, Aged, None
  <2>3. /\ current.from \in AgeSet /\ (current'.from # None <=> current.from # None)
        /\ replacement.from \in AgeSet
        /\ (replacement'.from # None <=> replacement.from # None)
    BY <1>3, InvTypes, AgedFacts
  <2>4. /\ Told(k)' => Told(k) \/ k \in Delivered
        /\ k \notin replacement'.waiting =>
             k \notin replacement.waiting \/ k \in Delivered
    BY <1>3, <1>4 DEF Told, Delivered
  <2>5. ASSUME Told(k)' PROVE ProvenBy(current, k)'
    BY <1>3, <2>0, <2>1, <2>2, <2>3, <2>4, <2>5, InvTypes DEF Proven, ProvenBy
  <2>6. ASSUME k \notin replacement'.waiting PROVE ProvenBy(replacement, k)'
    BY <1>3, <2>0, <2>1, <2>2, <2>3, <2>4, <2>6, InvTypes DEF Proven, ProvenBy
  <2> QED BY <2>5, <2>6 DEF Proven
<1> QED
  BY <1>4, <1>5, <1>6, <1>7, <1>8 DEF Explained

LEMMA ExplainedEnvironment == Inv /\ Running /\ Environment => Explained'
<1> SUFFICES ASSUME Inv, Running, Environment PROVE Explained'
  OBVIOUS
<1>1. CASE Tick
  BY <1>1, ExplainedTick
<1>2. ASSUME NEW k \in Key, Delist(k) \/ Drop(k) PROVE Explained'
  <2>1. /\ SameProof(current, current') /\ SameProof(replacement, replacement')
        /\ current'.served \subseteq current.served
        /\ replacement'.served \subseteq replacement.served
    BY <1>2, InvTypes DEF Delist, Drop, Connection, runVars, SameProof
  <2>2. /\ UNCHANGED <<unexplained, age, instruments, lock, msg, reconnect, runGap>>
        /\ InOpenGap' = InOpenGap
    BY <1>2 DEF Delist, Drop, shared, runVars, liveVars, InOpenGap
  <2>3. (Hopeless' <=> Hopeless) /\ Target' = Target
    BY <2>2 DEF Hopeless, Target, Updating
  <2>4. \A j \in Key : Told(j)' <=> Told(j)
    BY <2>1, <2>2 DEF Told, SameProof
  <2>5. \A j \in instruments \cap Target : Proven(j) => Proven(j)'
    BY <2>1, <2>2, <2>4, InvTypes, ProvenFrame
  <2>6. \A j \in Key : j \in current'.served /\ Told(j)' => Excused(j)
    BY <2>1, <2>4 DEF Excused
  <2>7. replacement'.served \ replacement'.waiting
          \subseteq replacement.served \ replacement.waiting
    BY <2>1 DEF SameProof
  <2> QED BY <2>2, <2>3, <2>5, <2>6, <2>7, ExplainedFrame DEF Inv
<1> QED BY <1>1, <1>2 DEF Environment

\* A connection that is acknowledged has delivered nothing yet. The keys the
\* current one is to deliver are in a gap, or one was opened without them.
LEMMA ExplainedAcknowledged ==
  Inv /\ Running /\ Acknowledged => Explained'
<1> SUFFICES ASSUME Inv, Running, Acknowledged PROVE Explained'
  OBVIOUS
<1>0. Explained /\ Connections
  BY DEF Inv, Structure
<1>1. /\ UNCHANGED <<unexplained, age, instruments, lock, msg, live, update, runGap>>
      /\ InOpenGap' = InOpenGap
  BY DEF Acknowledged, shared, liveVars, history, InOpenGap
<1>2. (Hopeless' <=> Hopeless) /\ Target' = Target
  BY <1>1 DEF Hopeless, Target, Updating
<1>3. CASE current.st = "open" /\ ~current.acked /\ current' = WithAck(current)
           /\ UNCHANGED replacement
  <2>1. current'.waiting = instruments /\ current'.proven = 0 /\ current'.st = "open"
    BY <1>0, <1>3, InvTypes, AckFacts DEF Connections, Waits
  <2>2. \A k \in instruments : Told(k)' => k \in InOpenGap /\ k \in Key
    BY <1>0, <1>1, <1>3, <2>1, InvTypes DEF Told, Connections, InOpenGap
  <2>3. \A k \in Key : k \in current'.served /\ Told(k)' => Excused(k)
    BY <2>2 DEF Excused
  <2>4. \A k \in instruments : Told(k)' => unexplained[k] = None
    BY <1>0, <2>2 DEF Explained, Excused
  <2>5. ASSUME NEW k \in instruments, Proven(k) PROVE Proven(k)'
    <3>1. Told(k)' => unexplained'[k] <= current'.proven
      BY <1>1, <2>1, <2>4 DEF None
    <3>2. k \notin replacement'.waiting => ProvenBy(replacement, k)'
      BY <1>1, <1>3, <2>5 DEF Proven, ProvenBy
    <3> QED BY <2>1, <3>1, <3>2 DEF Proven, ProvenBy
  <2> QED BY <1>0, <1>1, <1>2, <1>3, <2>3, <2>5, ExplainedFrame
<1>4. CASE replacement.st = "open" /\ ~replacement.acked /\ UNCHANGED current
           /\ replacement' = WithAck(replacement)
  <2>1. /\ replacement'.waiting = instruments
        /\ replacement'.served = instruments
    <3>1. replacement.waiting = instruments
      BY <1>0, <1>4 DEF Connections, Waits
    <3>2. replacement.subs = instruments
      BY <1>0, <1>4 DEF Connections, Quiet
    <3> QED BY <1>4, <3>1, <3>2, InvTypes, AckFacts
  <2>2. \A k \in Key : k \in current'.served /\ Told(k)' => Excused(k)
    BY <1>1, <1>4 DEF Excused, Told
  <2>3. \A k \in instruments : Proven(k) => Proven(k)'
    BY <1>1, <1>4, <2>1 DEF Proven, ProvenBy, Told
  <2> QED BY <1>0, <1>1, <1>2, <2>1, <2>2, <2>3, ExplainedFrame
<1> QED BY <1>3, <1>4 DEF Acknowledged

\* An update unsubscribes what leaves, or what will be subscribed again, and
\* subscribes keys that are new or in a gap of their own.
LEMMA ExplainedUpdate ==
  ASSUME Inv, Running, msg = "queued",
         UNCHANGED <<instruments, lock, unexplained, age, replacement, runGap,
                     bootGap, active>>,
         current' = WithUpdate(current),
         msg' = "acked" \/ msg' = "failed"
  PROVE  Explained'
<1>0. Explained /\ Locks
  BY DEF Inv, Structure
<1>1. /\ current'.st = current.st /\ current'.acked = current.acked
      /\ current'.proven = current.proven /\ current'.from = current.from
      /\ current'.waiting = current.waiting
      /\ current'.served \subseteq current.served \cup Added
  BY InvTypes, UpdateFacts
<1>2. InOpenGap' = InOpenGap /\ \A k : Told(k)' <=> Told(k)
  BY <1>1 DEF InOpenGap, Told
<1>3. \A k \in Added : k \notin instruments \/ k \in InOpenGap
  BY <1>0 DEF Added, Locks, InOpenGap
<1>4. ASSUME NEW k \in Key, Excused(k)' PROVE unexplained'[k] = None
  <2>1. Excused(k)
    BY <1>1, <1>2, <1>3, <1>4 DEF Excused
  <2> QED BY <1>0, <2>1 DEF Explained
<1>5. ASSUME NEW k \in instruments \cap Target', ~Hopeless' PROVE Proven(k)'
  <2>1. ~Hopeless /\ Target = instruments
    BY DEF Hopeless, Target, Updating
  <2>2. Proven(k) /\ k \in Key
    BY <1>0, <1>5, <2>1, InvTypes DEF Explained
  <2> QED BY <1>1, <1>2, <2>2, ProvenFrame DEF SameProof
<1> QED BY <1>0, <1>4, <1>5 DEF Explained

LEMMA ExplainedConnection ==
  Inv /\ Running /\ ConnectionStep => Explained'
<1> SUFFICES ASSUME Inv, Running, ConnectionStep PROVE Explained'
  OBVIOUS
<1>0. Explained /\ Subscribed /\ Locks /\ current \in Connection
  BY InvTypes DEF Inv, Structure
<1>1. UNCHANGED <<unexplained, age, instruments, lock, live, liveKeys, reconnect,
                  update, runGap, bootGap, active>>
  BY DEF ConnectionStep, Acknowledged, SnapshotsDone, CurrentFails,
         ReplacementFails, Audit, UpdateAcked, UpdateCompleted, UpdateTimesOut,
         shared, liveVars, history, runVars
<1>2. InOpenGap' = InOpenGap
  BY <1>1 DEF InOpenGap
<1>3. CASE Acknowledged
  BY <1>3, ExplainedAcknowledged
<1>4. CASE SnapshotsDone \/ ReplacementFails
  <2>1. /\ SameProof(current, current') /\ current'.served = current.served
        /\ replacement'.served \subseteq replacement.served
        /\ replacement'.waiting = replacement.waiting
        /\ \/ SameProof(replacement, replacement')
           \/ replacement'.st = "failed" /\ replacement'.from = None
        /\ msg' = msg
    BY <1>0, <1>4, InvTypes, FailedFacts
       DEF SnapshotsDone, ReplacementFails, Connection, shared, SameProof
  <2>2. (Hopeless' <=> Hopeless) /\ Target' = Target
    BY <1>1, <2>1 DEF Hopeless, Target, Updating
  <2>3. \A k \in Key : Told(k)' <=> Told(k)
    BY <1>1, <2>1 DEF Told, SameProof
  <2>4. ASSUME NEW k \in instruments \cap Target, Proven(k) PROVE Proven(k)'
    BY <1>1, <2>1, <2>3, <2>4, InvTypes DEF Proven, ProvenBy, SameProof
  <2>5. \A k \in Key : k \in current'.served /\ Told(k)' => Excused(k)
    BY <2>1, <2>3 DEF Excused
  <2> QED BY <1>0, <1>1, <1>2, <2>1, <2>2, <2>4, <2>5, ExplainedFrame
<1>5. ASSUME current.st = "open", UNCHANGED replacement, ClosesUpdate,
             \/ current' = Failed(current, None)
             \/ current.acked /\ current' = Failed(current, current.proven)
      PROVE  Explained'
  <2>1. /\ ~Hopeless' => ~Hopeless
        /\ ~Hopeless' => Target' = Target
    BY <1>1, <1>5, ClosingUpdate DEF Target
  <2>2. /\ current'.served = {} /\ current'.st = "failed"
        /\ current'.waiting = current.waiting
    BY <1>0, <1>5, FailedFacts
  <2>3. current'.from = None \/ (current.acked /\ current'.from = current.proven)
    BY <1>0, <1>5, FailedFacts
  <2>4. \A k \in instruments \cap Target : Proven(k) => Proven(k)'
    BY <1>1, <1>5, <2>2, <2>3 DEF Proven, ProvenBy, Told
  <2> QED BY <1>0, <1>1, <1>2, <1>5, <2>1, <2>2, <2>4, ExplainedFrame
<1>6. CASE CurrentFails
  BY <1>5, <1>6 DEF CurrentFails
<1>7. CASE Audit
  <2>1. CASE current.served = current.subs
    <3>1. /\ current'.served = current.served /\ UNCHANGED replacement
          /\ current'.st = "open" /\ current'.proven = 0 /\ msg' = msg
          /\ current.st = "open" /\ current'.waiting = current.waiting
      BY <1>0, <1>7, <2>1 DEF Audit, Connection
    <3>2. (Hopeless' <=> Hopeless) /\ Target' = Target
      BY <1>1, <3>1 DEF Hopeless, Target, Updating
    <3>3. \A k \in Key : Told(k)' <=> Told(k)
      BY <1>1, <3>1 DEF Told
    <3>4. ASSUME NEW k \in instruments \cap Target, ~Hopeless, Proven(k)
          PROVE  Proven(k)'
      <4>1. k \in current.served /\ k \in Key
        BY <1>0, <2>1, <3>1, <3>4, InvTypes DEF Subscribed
      <4>2. Told(k) => unexplained[k] = None
        BY <1>0, <4>1 DEF Explained, Excused
      <4>3. Told(k)' => unexplained'[k] <= 0
        BY <1>1, <3>3, <4>1, <4>2 DEF None
      <4>4. Told(k)' => ProvenBy(current, k)'
        BY <3>1, <4>3 DEF ProvenBy
      <4> QED BY <1>1, <3>1, <3>4, <4>4 DEF Proven, ProvenBy
    <3>5. \A k \in Key : k \in current'.served /\ Told(k)' => Excused(k)
      BY <3>1, <3>3 DEF Excused
    <3> QED BY <1>0, <1>1, <1>2, <3>1, <3>2, <3>4, <3>5, ExplainedFrame
  <2>2. CASE current.served # current.subs
    BY <1>5, <1>7, <2>2 DEF Audit
  <2> QED BY <2>1, <2>2
<1>8. CASE UpdateAcked
  BY <1>1, <1>8, ExplainedUpdate DEF UpdateAcked
<1>9. CASE UNCHANGED current /\ (UpdateCompleted \/ UpdateTimesOut)
  <2>1. /\ UNCHANGED replacement /\ msg \in {"queued", "acked"}
        /\ msg' \in {"done", "failed"} /\ (msg' = "done" => msg = "acked")
    BY <1>9 DEF UpdateCompleted, UpdateTimesOut, runVars
  <2>2. ~Hopeless /\ (~Hopeless' => Target' = Target)
    BY <1>1, <2>1 DEF Hopeless, Target, Updating
  <2>3. \A k \in Key : Told(k)' <=> Told(k)
    BY <1>1, <1>9 DEF Told
  <2>4. \A k \in instruments \cap Target : Proven(k) => Proven(k)'
    BY <1>1, <1>9, <2>1, <2>3, InvTypes, ProvenFrame DEF SameProof
  <2>5. \A k \in Key : k \in current'.served /\ Told(k)' => Excused(k)
    BY <1>9, <2>3 DEF Excused
  <2> QED BY <1>0, <1>1, <1>2, <1>9, <2>1, <2>2, <2>4, <2>5, ExplainedFrame
<1>10. CASE ~UNCHANGED current /\ UpdateTimesOut
  BY <1>1, <1>10, ExplainedUpdate DEF UpdateTimesOut
<1> QED
  BY <1>3, <1>4, <1>6, <1>7, <1>8, <1>9, <1>10
     DEF ConnectionStep, UpdateCompleted, runVars

\* A gap of the route covers what its instruments have missed.
LEMMA OpenGapCovers ==
  ASSUME Inv, Running, ~Hopeless, current.st \in {"open", "failed"},
         current.st = "failed" => ~Updating, runGap = {}, OpenGap(current)
  PROVE  /\ \A k \in instruments : unexplained'[k] = None
         /\ \A k \in Key : unexplained[k] = None => unexplained'[k] = None
<1>0. Explained /\ Connections
  BY DEF Inv, Structure
<1>1. \A k \in Key : unexplained'[k] =
        IF k \in instruments /\ unexplained[k] <= AffectedFrom(current)
        THEN None ELSE unexplained[k]
  BY DEF OpenGap, Covers
<1>2. ASSUME NEW k \in instruments PROVE unexplained[k] <= AffectedFrom(current)
  <2>1. CASE current.from # None
    <3>1. current.st = "failed" /\ k \in instruments \cap Target
      BY <1>0, <2>1 DEF Connections, Target
    <3>2. Proven(k)
      BY <1>0, <3>1 DEF Explained
    <3> QED BY <2>1, <3>1, <3>2 DEF Proven, ProvenBy, Told, AffectedFrom
  <2>2. CASE current.from = None
    <3>1. Oldest \in 0..Timeout /\ age[k] <= Oldest
      BY OldestAge
    <3>2. unexplained[k] <= age[k]
      BY <1>0 DEF Explained
    <3>3. unexplained[k] \in AgeSet /\ age[k] \in 0..Timeout
      BY InvTypes
    <3>4. unexplained[k] <= Oldest
      BY <3>1, <3>2, <3>3 DEF AgeSet, None
    <3> QED BY <2>2, <3>4 DEF AffectedFrom
  <2> QED BY <2>1, <2>2
<1> QED BY <1>1, <1>2, InvTypes

\* The route loses its connection and opens its gap.
LEMMA ExplainedOutage ==
  ASSUME Inv, Running, ~Hopeless, current.st \in {"open", "failed"},
         current.st = "failed" => ~Updating, runGap = {}, OpenGap(current),
         current' = NoConnection,
         UNCHANGED <<instruments, age, replacement, active, bootGap>>,
         Quiet(replacement)
  PROVE  Explained'
<1>0. Explained
  BY DEF Inv
<1>1. /\ \A k \in instruments : unexplained'[k] = None
      /\ \A k \in Key : unexplained[k] = None => unexplained'[k] = None
  BY OpenGapCovers
<1>2. /\ current'.st = "none" /\ current'.served = {}
      /\ replacement'.st = "none" /\ replacement'.served = {}
  BY DEF NoConnection, Quiet
<1>3. ASSUME NEW k \in Key, Excused(k)' PROVE unexplained'[k] = None
  <2>1. CASE k \in instruments
    BY <1>1, <2>1
  <2>2. CASE k \notin instruments
    BY <1>0, <1>1, <2>2 DEF Explained, Excused
  <2> QED BY <2>1, <2>2
<1>4. ASSUME NEW k \in instruments PROVE unexplained'[k] <= age'[k]
  BY <1>1, InvTypes DEF None
<1>5. \A k : Proven(k)'
  BY <1>2 DEF Proven, ProvenBy
<1> QED BY <1>3, <1>4, <1>5 DEF Explained

LEMMA ExplainedRun == Inv /\ Running /\ RunStep => Explained'
<1> SUFFICES ASSUME Inv, Running, RunStep PROVE Explained'
  OBVIOUS
<1>0. Explained /\ Subscribed /\ Locks /\ Connections
  BY DEF Inv, Structure
<1>1. CASE StartConnection
  <2>1. /\ current'.st = "open" /\ ~current'.acked /\ current'.served = {}
        /\ UNCHANGED <<replacement, unexplained, age, shared, active, runGap, bootGap>>
    BY <1>1 DEF StartConnection, Opened, NoConnection, history, liveVars
  <2>2. (Hopeless' <=> Hopeless) /\ Target' = Target /\ InOpenGap' = InOpenGap
    BY <2>1 DEF Hopeless, Target, Updating, InOpenGap, shared
  <2>3. \A k \in instruments \cap Target : Proven(k) => Proven(k)'
    BY <2>1 DEF Proven, ProvenBy
  <2> QED BY <1>0, <2>1, <2>2, <2>3, ExplainedFrame DEF shared
<1>2. CASE ReportTransport \/ Started \/ AskRotate \/ ReplacementReady
  <2>1. /\ UNCHANGED <<current, replacement, unexplained, age, shared, active>>
        /\ runGap' \subseteq runGap /\ (bootGap' => bootGap)
        /\ runGap' = runGap \/ current.waiting = {}
    BY <1>2 DEF ReportTransport, Started, AskRotate, ReplacementReady, history,
                liveVars, TransportReady
  <2>2. /\ (Hopeless' <=> Hopeless) /\ Target' = Target
        /\ InOpenGap' \subseteq InOpenGap
    BY <2>1 DEF Hopeless, Target, Updating, InOpenGap, shared
  <2>3. \A k \in Key : Told(k)' => Told(k)
    BY <2>1 DEF Told
  <2>4. \A k \in instruments \cap Target : Proven(k) => Proven(k)'
    BY <2>1, <2>3, InvTypes, ProvenFrame DEF SameProof
  <2>5. \A k \in Key : k \in current'.served /\ Told(k)' => Excused(k)
    BY <2>1, <2>3 DEF Excused
  <2> QED BY <1>0, <2>1, <2>2, <2>4, <2>5, ExplainedFrame DEF shared
<1>3. CASE StartFails \/ CurrentLost \/ Reconnect
  <2>1. /\ ~Hopeless /\ current.st \in {"open", "failed"}
        /\ current.st = "failed" => ~Updating
        /\ runGap = {} \/ StartFails
    BY <1>0, <1>3, InvTypes
       DEF StartFails, CurrentLost, Reconnect, AnswerTaken, Hopeless, Updating,
           Locks, Connections, Connection
  <2>2. /\ UNCHANGED <<instruments, age, replacement, active, bootGap, lock>>
        /\ current' = NoConnection /\ Quiet(replacement)
    BY <1>0, <1>3 DEF StartFails, CurrentLost, Reconnect, Connections, liveVars
  <2>3. CASE runGap = {} /\ OpenGap(current)
    BY <2>1, <2>2, <2>3, ExplainedOutage
  <2>4. CASE StartFails /\ runGap # {}
    <3>1. UNCHANGED <<runGap, unexplained>>
      BY <2>4 DEF StartFails
    <3>2. current'.st = "none" /\ current'.served = {} /\ replacement'.st = "none"
      BY <2>2 DEF NoConnection, Quiet
    <3>3. InOpenGap' = InOpenGap
      BY <2>2, <3>1 DEF InOpenGap
    <3>4. \A k : Proven(k)'
      BY <3>2 DEF Proven, ProvenBy
    <3>5. ~Hopeless' => ~Updating' /\ ~Updating
      BY <2>4 DEF StartFails, AnswerTaken, ClosesUpdate, Hopeless, Updating
    <3>6. ~Hopeless' => instruments \cap Target' \subseteq Target
      BY <2>2, <3>5 DEF Target
    <3> QED BY <1>0, <2>1, <2>2, <3>1, <3>2, <3>3, <3>4, <3>6, ExplainedFrame
  <2> QED
    BY <1>3, <2>1, <2>3, <2>4 DEF StartFails, CurrentLost, Reconnect
<1>4. CASE RotateLocked \/ ReplacementGivenUp
  <2>0. /\ Opened.served = {} /\ Opened.st = "open" /\ ~Opened.acked
        /\ NoConnection.served = {} /\ NoConnection.st = "none"
    BY DEF Opened, NoConnection
  <2>1. /\ UNCHANGED <<current, unexplained, age, active, runGap, bootGap,
                       instruments, msg>>
        /\ replacement'.served = {}
        /\ replacement'.st = "none" \/ (replacement'.st = "open" /\ ~replacement'.acked)
    BY <1>4, <2>0 DEF RotateLocked, ReplacementGivenUp, history, liveVars
  <2>2. {lock, lock'} \subseteq {"none", "run"}
    BY <1>0, <1>4 DEF RotateLocked, ReplacementGivenUp, LockFree, Released, Locks
  <2>3. ~Hopeless /\ Target' = Target /\ InOpenGap' = InOpenGap
    BY <2>1, <2>2 DEF Hopeless, Target, Updating, InOpenGap
  <2>4. \A k \in instruments \cap Target : Proven(k) => Proven(k)'
    BY <2>1 DEF Proven, ProvenBy, Told
  <2>5. \A k \in Key : k \in current'.served /\ Told(k)' => Excused(k)
    BY <2>1 DEF Excused, Told
  <2> QED BY <1>0, <2>1, <2>3, <2>4, <2>5, ExplainedFrame
<1>5. CASE Handover
  <2>1. /\ UNCHANGED <<unexplained, age, active, runGap, bootGap, instruments>>
        /\ current' = replacement
        /\ replacement'.served = {} /\ replacement'.st = "none"
    BY <1>5 DEF Handover, NoConnection, history, liveVars
  <2>2. lock = "run" /\ lock' = "none" /\ replacement.waiting = {}
    BY <1>0, <1>5 DEF Handover, Locks, Connections, Released
  <2>3. /\ ~Hopeless /\ Target = instruments /\ Target' = instruments
        /\ InOpenGap' = InOpenGap
    BY <2>1, <2>2 DEF Hopeless, Target, Updating, InOpenGap
  <2>4. \A k \in instruments : Proven(k) => Proven(k)'
    BY <2>1, <2>2 DEF Proven, ProvenBy
  <2>5. \A k \in Key : k \in current'.served /\ Told(k)' => Excused(k)
    BY <2>1, <2>2 DEF Excused
  <2> QED BY <1>0, <2>1, <2>3, <2>4, <2>5, ExplainedFrame
<1> QED BY <1>1, <1>2, <1>3, <1>4, <1>5 DEF RunStep

\* A stale stream gets its gap from its last event on.
LEMMA ExplainedCheck == Inv /\ Running /\ Check => Explained'
<1> SUFFICES ASSUME Inv, Running, Check PROVE Explained'
  OBVIOUS
<1>0. Explained
  BY DEF Inv
<1>1. UNCHANGED <<current, replacement, age, instruments, lock, msg, runGap, bootGap>>
  BY DEF Check, runVars, shared
<1>2. (Hopeless' <=> Hopeless) /\ Target' = Target
  BY <1>1 DEF Hopeless, Target, Updating
<1>3. \A k \in Key : unexplained'[k] =
        IF k \in Stale \ (active \ Gone) /\ unexplained[k] <= age[k]
        THEN None ELSE unexplained[k]
  BY DEF Check
<1>4. ASSUME NEW k \in Key, Excused(k)' PROVE unexplained'[k] = None
  <2>1. CASE k \in Stale \ (active \ Gone)
    <3>1. unexplained[k] <= age[k]
      BY <1>0, <2>1 DEF Explained, Stale
    <3> QED BY <1>3, <2>1, <3>1
  <2>2. CASE k \notin Stale \ (active \ Gone)
    <3>1. Excused(k)
      BY <1>1, <1>4, <2>2 DEF Excused, InOpenGap, Check, Told
    <3> QED BY <1>0, <1>3, <3>1 DEF Explained
  <2> QED BY <2>1, <2>2
<1>5. ASSUME NEW k \in Key, NEW t \in 0..Timeout, unexplained[k] <= t
      PROVE  unexplained'[k] <= t
  <2>1. None <= t
    BY DEF None
  <2> QED BY <1>3, <1>5, <2>1
<1>6. \A k \in instruments : unexplained'[k] <= age'[k]
  BY <1>0, <1>1, <1>5, InvTypes DEF Explained
<1>7. ASSUME NEW k \in instruments \cap Target, ~Hopeless PROVE Proven(k)'
  <2>1. Proven(k) /\ k \in Key
    BY <1>0, <1>7, InvTypes DEF Explained
  <2>2. \A c \in {current, replacement} :
           /\ c.proven \in 0..Timeout
           /\ c.from # None => c.from \in 0..Timeout
    BY InvTypes DEF AgeSet
  <2>3. \A c \in {current, replacement} :
           ProvenBy(c, k) =>
             /\ c.st = "open" /\ c.acked => unexplained'[k] <= c.proven
             /\ c.st = "failed" /\ c.from # None => unexplained'[k] <= c.from
    BY <1>5, <2>1, <2>2 DEF ProvenBy
  <2> QED BY <1>1, <2>1, <2>3 DEF Proven, ProvenBy, Told
<1> QED BY <1>1, <1>2, <1>4, <1>6, <1>7 DEF Explained

LEMMA ExplainedTasks ==
  Inv /\ Running /\ (LiveStep \/ UpdateStep) => Explained'
<1> SUFFICES ASSUME Inv, Running, LiveStep \/ UpdateStep PROVE Explained'
  OBVIOUS
<1>0. Explained /\ Locks /\ Connections
  BY DEF Inv, Structure
<1>1. CASE Check
  BY <1>1, ExplainedCheck
<1>2. CASE UpdateDone
  <2>1. /\ lock = "update" /\ msg = "done" /\ instruments' = Second
        /\ lock' = "none" /\ UNCHANGED <<current, replacement, runGap>>
    BY <1>0, <1>2 DEF UpdateDone, Released, Locks, runVars
  <2>2. Target = Second /\ ~Hopeless /\ InOpenGap' = InOpenGap
    BY <1>2, <2>1 DEF Target, Updating, Hopeless, InOpenGap, UpdateDone, runVars,
                      liveVars
  <2>3. \A k \in Key :
          /\ age'[k] = IF k \in Second \ instruments THEN 0 ELSE age[k]
          /\ unexplained'[k] = IF k \in Second THEN unexplained[k] ELSE None
    BY <1>2 DEF UpdateDone
  <2>4. \A k \in Key : k \notin instruments => unexplained[k] = None
    BY <1>0 DEF Explained, Excused
  <2>5. ASSUME NEW k \in Key, Excused(k)' PROVE unexplained'[k] = None
    <3>1. k \notin Second \/ Excused(k)
      BY <2>1, <2>2, <2>5 DEF Excused, Told
    <3> QED BY <1>0, <2>3, <3>1 DEF Explained
  <2>6. ASSUME NEW k \in Second PROVE unexplained'[k] <= age'[k]
    <3>1. k \in Key
      BY KeyAssumption
    <3>2. CASE k \in instruments
      BY <1>0, <2>3, <3>1, <3>2 DEF Explained
    <3>3. CASE k \notin instruments
      BY <2>3, <2>4, <3>1, <3>3 DEF None
    <3> QED BY <3>2, <3>3
  <2>7. ASSUME NEW k \in Second PROVE Proven(k)'
    <3>1. k \in Key
      BY KeyAssumption
    <3>2. CASE k \in instruments
      BY <1>0, <2>1, <2>2, <2>3, <3>1, <3>2 DEF Explained, Proven, ProvenBy, Told
    <3>3. CASE k \notin instruments
      <4>1. unexplained'[k] = None
        BY <2>3, <2>4, <3>1, <3>3
      <4>2. \A c \in {current, replacement} :
               /\ c.proven \in 0..Timeout
               /\ c.from # None => c.from \in 0..Timeout
        BY InvTypes DEF AgeSet
      <4>3. \A t \in 0..Timeout : unexplained'[k] <= t
        BY <4>1 DEF None
      <4> QED BY <2>1, <4>2, <4>3 DEF Proven, ProvenBy
    <3> QED BY <3>2, <3>3
  <2> QED BY <2>1, <2>5, <2>6, <2>7 DEF Explained
<1>3. CASE ~Check /\ ~UpdateDone
  <2>1. UNCHANGED <<unexplained, age, instruments, current, replacement, runGap,
                    bootGap>>
    BY <1>3 DEF LiveStep, UpdateStep, RefreshLocked, RefreshDone, RefreshFails,
         RefreshCancelled, Fresh, FreshTimesOut, FreshKeyError, UpdateAsks,
         UpdateLocked, UpdateFails, runVars, shared, history
  <2>2. active' \subseteq active
    BY <1>3 DEF LiveStep, UpdateStep, RefreshLocked, RefreshDone, RefreshFails,
         RefreshCancelled, Fresh, FreshTimesOut, FreshKeyError, UpdateAsks,
         UpdateLocked, UpdateFails, liveVars
  <2>3. InOpenGap' \subseteq InOpenGap
    BY <2>1, <2>2 DEF InOpenGap
  <2>4. Running' /\ ~Hopeless' => ~Hopeless /\ Target' = Target
    BY <1>0, <1>3, <2>1 DEF LiveStep, UpdateStep, RefreshLocked, RefreshDone,
         RefreshFails, RefreshCancelled, Fresh, FreshTimesOut, FreshKeyError,
         UpdateAsks, UpdateLocked, UpdateFails, shared, LockFree, Released,
         Hopeless, Target, Updating, Running, Locks
  <2>5. \A k \in instruments \cap Target : Proven(k) => Proven(k)'
    BY <2>1 DEF Proven, ProvenBy, Told
  <2>6. \A k \in Key : k \in current'.served /\ Told(k)' => Excused(k)
    BY <2>1 DEF Excused, Told
  <2> QED BY <1>0, <2>1, <2>3, <2>4, <2>5, <2>6, ExplainedFrame
<1> QED BY <1>1, <1>2, <1>3

-----------------------------------------------------------------------------
\* The theorems

LEMMA InvInit == Init => Inv
<1> SUFFICES ASSUME Init PROVE Inv
  OBVIOUS
<1> USE DEF Init
<1>1. TypeOK
  BY TypeInit
<1>2. Quiet(NoConnection)
  BY DEF Quiet, NoConnection
<1>3. Locks
  BY DEF Locks, Updating
<1>4. Connections
  BY <1>2 DEF Connections, Quiet, Waits
<1>5. Subscribed
  BY <1>2 DEF Subscribed, Quiet
<1>6. \A k \in Key : unexplained[k] = None /\ unexplained[k] <= age[k]
  BY DEF None
<1>7. \A k : Proven(k)
  BY <1>2 DEF Proven, ProvenBy, Quiet
<1>8. Explained
  BY <1>6, <1>7, KeyAssumption DEF Explained
<1> QED BY <1>1, <1>3, <1>4, <1>5, <1>8 DEF Inv, Structure

LEMMA InvStep == Inv /\ [Next]_vars => Inv'
<1> SUFFICES ASSUME Inv, [Next]_vars PROVE Inv'
  OBVIOUS
<1>0. Structure /\ Good /\ TypeOK
  BY DEF Inv, Structure, Good
<1>1. CASE Next
  <2>1. Running /\ (Environment \/ ConnectionStep \/ RunStep \/ LiveStep \/ UpdateStep)
    BY <1>1 DEF Next
  <2>2. TypeOK'
    BY <1>0, <2>1, TypeEnvironment, TypeConnection, TypeRun, TypeLive, TypeUpdate
  <2>3. Locks'
    BY <1>0, <2>1, LocksEnvironment, LocksConnection, LocksRun, LocksTasks
  <2>4. Connections'
    BY <1>0, <2>1, ConnectionsEnvironment, ConnectionsConnection, ConnectionsRun,
       ConnectionsTasks
  <2>5. Subscribed'
    BY <1>0, <2>1, SubscribedEnvironment, SubscribedConnection, SubscribedRun,
       SubscribedTasks
  <2>6. Explained'
    BY <2>1, ExplainedEnvironment, ExplainedConnection, ExplainedRun, ExplainedTasks
  <2> QED BY <2>2, <2>3, <2>4, <2>5, <2>6 DEF Inv, Structure
<1>2. CASE UNCHANGED vars
  <2> USE <1>2 DEF vars, runVars, liveVars, shared, history
  <2>1. TypeOK'
    BY <1>0 DEF TypeOK
  <2>2. Locks'
    BY DEF Inv, Structure, Locks, Updating
  <2>3. Connections'
    BY DEF Inv, Structure, Connections, Quiet, Waits
  <2>4. Subscribed'
    BY DEF Inv, Subscribed, Target, Extra, Hopeless, Updating, Running
  <2>5. Explained'
    BY DEF Inv, Explained, Excused, InOpenGap, Proven, ProvenBy, Told, Target,
           Hopeless, Updating, Running
  <2> QED BY <2>1, <2>2, <2>3, <2>4, <2>5 DEF Inv, Structure
<1> QED BY <1>1, <1>2

\* Whatever connections fail, rotate, are refreshed or updated, and whenever they
\* do, an event that a running route has missed and no gap covers is never older
\* than the last event received: the gaps of RouteRunner.run and liveness_loop begin
\* early enough. The events that are Forgotten are excepted: those the code loses.
\* A rotation forgets none older than the last proof of the connection it retires.
THEOREM NothingSilentlyLost == Spec => []NoSilentLoss
<1>1. Inv => NoSilentLoss
  <2> SUFFICES ASSUME Inv, Running PROVE NoSilentLoss
    BY DEF NoSilentLoss
  <2>0. Explained /\ Connections /\ Locks
    BY DEF Inv, Structure
  <2>1. \A k \in instruments : unexplained[k] <= age[k]
    BY DEF Inv, Explained
  <2>2. ASSUME current.st = "open", NEW k \in TakenOver
        PROVE  unexplained[k] <= current.proven
    <3>1. run \in {"replacing", "overlap"} /\ lock = "run"
      BY <2>0, <2>2 DEF TakenOver, Connections, Locks, Quiet
    <3>2. current.acked /\ Told(k) /\ ~Hopeless /\ Target = instruments
      BY <2>0, <2>2, <3>1 DEF Connections, Told, Hopeless, Target, Updating
    <3>3. CASE k \in instruments
      BY <2>0, <2>2, <3>2, <3>3 DEF Explained, Proven, ProvenBy
    <3>4. CASE k \notin instruments
      <4>1. k \in Key
        BY <2>2, InvTypes DEF TakenOver, Connection
      <4>2. unexplained[k] = None
        BY <2>0, <3>4, <4>1 DEF Explained, Excused
      <4> QED BY <4>2, InvTypes DEF None
    <3> QED BY <3>3, <3>4
  <2> QED BY <2>1, <2>2 DEF NoSilentLoss
<1> QED BY <1>1, InvInit, InvStep, PTL DEF Spec

\* Between updates a connection that is to stay is subscribed to exactly the
\* instruments of its route, whichever refreshes, rotations and reconnects of
\* RouteRunner came in between (_update_lock).
THEOREM SubscriptionsKept == Spec => []SubscriptionsMatch
<1>1. Inv => SubscriptionsMatch
  <2> SUFFICES ASSUME Inv, Running, current.st = "open", ~reconnect, lock = "none",
                      live \in {"sleep", "lock"}
               PROVE  current.subs = instruments
    BY DEF SubscriptionsMatch
  <2>1. ~Hopeless /\ Target = instruments /\ Extra = {}
    BY DEF Hopeless, Target, Updating, Extra
  <2> QED BY <2>1 DEF Inv, Subscribed
<1> QED BY <1>1, InvInit, InvStep, PTL DEF Spec

=============================================================================
