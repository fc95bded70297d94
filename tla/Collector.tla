------------------------------ MODULE Collector ------------------------------
(***************************************************************************)
(* Events on their way to disk: the boundary lock (edge/ingest.py), the    *)
(* byte-bounded queues (edge/queue.py), the writer pool (edge/writer.py)   *)
(* and the lease whose watermark says after a crash what may be lost       *)
(* (edge/lease.py, edge/service.py).                                       *)
(*                                                                         *)
(* An event is its receive time, a natural number no two events share. All *)
(* events have size one. Days are two: up to Midnight and after it. There  *)
(* is one producer per writer group.                                       *)
(***************************************************************************)
EXTENDS Integers, Sequences, FiniteSets

CONSTANTS
  Group,          \* writer groups
  Critical,       \* those the lease watermark looks at
  Midnight,       \* the last receive time of the first day
  MaxBytes,       \* queue.py max_bytes
  ResumeBytes,    \* queue.py resume_bytes
  BatchEvents,    \* ChunkLimits.batch_events
  ChunkEvents,    \* ChunkLimits.max_events
  LateSeal,       \* a start-up may span midnight and then seals without barrier
  StopInBarrier,  \* SIGTERM may come while a rotation is under way
  MaxStamp,       \* bounds of one behaviour: events,
  MaxCrashes,     \* process crashes,
  MaxFailures     \* and writers that fail on I/O

ASSUME GroupAssumption == Critical \subseteq Group /\ Critical # {}
ASSUME LimitAssumption ==
  /\ {Midnight, MaxBytes, ResumeBytes, BatchEvents, ChunkEvents} \subseteq Nat \ {0}
  /\ ResumeBytes < MaxBytes
ASSUME BoundAssumption ==
  /\ {MaxStamp, MaxCrashes, MaxFailures} \subseteq Nat
  /\ {LateSeal, StopInBarrier} \subseteq BOOLEAN

VARIABLES
  \* durable
  recorded,   \* events in a chunk that is in its day's inventory
  sealed,     \* SEALED.json of the first day exists
  lease,      \* collector-lease.json
  gaps,       \* COLLECTOR_STOPPED gaps, to = 0 while open
  \* the process
  main,       \* "down", "boot", "formal", "run", "stop" or "abort"
  started,    \* _service_started_ns
  midnight,   \* _apply_midnight_boundary: "off", "first", "second" or "grace"
  lockQ,      \* _boundary_lock: holder and waiters, events and Barrier
  rotor,      \* rotate_all: "none", "ask", "wait", "failed" or "cancelled"
  pending,    \* groups whose completion rotate_all awaits
  sources,    \* the stop event of the source group is not set
  producer,   \* "off", "idle", "asking" or "paused"
  used,       \* _used_bytes
  queue,      \* items of a group: receive times and Rotate
  batch,      \* ChunkSession._batch
  written,    \* events of the session in the partial file
  writer,     \* "idle", "flush", "finish", "publish", "dead" or "done"
  through,    \* _durable_through_ns, 0 for None
  draining,   \* StopWriter has been put behind everything else
  \* history and bounds
  admitted,   \* every event put has accepted
  clock, crashes, failures

durable  == <<recorded, sealed, lease, gaps>>
tasks    == <<main, started, midnight, sources, draining>>
lockVars == <<lockQ, rotor, pending>>
writers  == <<queue, batch, written, writer, through, used>>
history  == <<admitted, clock, crashes, failures>>
vars == <<durable, tasks, lockVars, producer, writers, history>>

Rotate  == 0
Barrier == [t |-> Rotate, g |-> "all"]
Event   == [t : Nat \ {0}, g : Group]
Day(t)  == IF t <= Midnight THEN 1 ELSE 2

Session(g) == batch[g] \cup written[g]
Queued(g)  == {i \in DOMAIN queue[g] : queue[g][i] # Rotate}
Later(a, b) == IF a >= b THEN a ELSE b

\* CollectorLease._sealed_floor_ns.
Floor == IF sealed THEN Midnight + 1 ELSE 0

\* WriterPool.metrics.durable_through_ns or _service_started_ns.
WrongWatermark ==
  LET known == {through[g] : g \in Critical} \ {0}
  IN  IF known = {} THEN started ELSE CHOOSE w \in known : \A v \in known : w <= v
Watermark ==
  IF \E g \in Critical : through[g] = 0
  THEN started
  ELSE CHOOSE w \in {through[g] : g \in Critical} :
         \A g \in Critical : w <= through[g]

TypeOK ==
  /\ recorded \subseteq {e.t : e \in admitted}
  /\ sealed \in BOOLEAN
  /\ lease \in [state : {"none", "running", "clean"}, from : Nat]
  /\ gaps \subseteq [from : Nat, to : Nat]
  /\ main \in {"down", "boot", "formal", "run", "stop", "abort"}
  /\ started \in Nat
  /\ midnight \in {"off", "first", "second", "grace"}
  /\ lockQ \in Seq(Event \cup {Barrier})
  /\ rotor \in {"none", "ask", "wait", "failed", "cancelled"}
  /\ pending \subseteq Group
  /\ sources \in BOOLEAN
  /\ producer \in [Group -> {"off", "idle", "asking", "paused"}]
  /\ used \in 0..MaxBytes
  /\ queue \in [Group -> Seq(Nat)]
  /\ batch \in [Group -> SUBSET Nat]
  /\ written \in [Group -> SUBSET Nat]
  /\ writer \in [Group -> {"idle", "flush", "finish", "publish", "dead", "done"}]
  /\ through \in [Group -> Nat]
  /\ draining \in BOOLEAN
  /\ admitted \subseteq Event
  /\ clock \in Nat /\ crashes \in Nat /\ failures \in Nat

Init ==
  /\ recorded = {} /\ sealed = FALSE /\ gaps = {}
  /\ lease = [state |-> "none", from |-> 0]
  /\ main = "down" /\ started = 0 /\ midnight = "off"
  /\ sources = FALSE /\ draining = FALSE
  /\ lockQ = <<>> /\ rotor = "none" /\ pending = {}
  /\ producer = [g \in Group |-> "off"]
  /\ used = 0
  /\ queue = [g \in Group |-> <<>>]
  /\ batch = [g \in Group |-> {}] /\ written = [g \in Group |-> {}]
  /\ writer = [g \in Group |-> "idle"]
  /\ through = [g \in Group |-> 0]
  /\ admitted = {} /\ clock = 0 /\ crashes = 0 /\ failures = 0

-----------------------------------------------------------------------------
\* Producers and the boundary lock

\* An event is stamped and asks for the boundary lock without an await between.
Stamp(g) ==
  /\ sources
  /\ producer[g] = "idle"
  /\ clock < MaxStamp
  /\ clock = Midnight => LateSeal \/ main = "run"
  /\ clock' = clock + 1
  /\ lockQ' = Append(lockQ, [t |-> clock', g |-> g])
  /\ producer' = [producer EXCEPT ![g] = "asking"]
  /\ UNCHANGED <<durable, tasks, rotor, pending, writers, admitted, crashes,
                 failures>>

\* ByteBoundedQueues.put with the boundary lock: an event in the queue, or
\* QueueOverloaded and a producer in wait_until_resumable.
WrongHasRoom == used <= MaxBytes
HasRoom == used + 1 <= MaxBytes

Put ==
  /\ lockQ # <<>>
  /\ Head(lockQ) # Barrier
  /\ lockQ' = Tail(lockQ)
  /\ LET e == Head(lockQ)
     IN  IF HasRoom
         THEN /\ queue' = [queue EXCEPT ![e.g] = Append(@, e.t)]
              /\ used' = used + 1
              /\ admitted' = admitted \cup {e}
              /\ producer' = [producer EXCEPT ![e.g] = "idle"]
         ELSE /\ producer' = [producer EXCEPT ![e.g] = "paused"]
              /\ UNCHANGED <<queue, used, admitted>>
  /\ UNCHANGED <<durable, tasks, rotor, pending, batch, written, writer,
                 through, clock, crashes, failures>>

\* wait_until_resumable does not look at the stop event, its callers do next.
WrongAfterPause == "idle"
AfterPause == IF sources THEN "idle" ELSE "off"

Resume(g) ==
  /\ producer[g] = "paused"
  /\ used <= ResumeBytes
  /\ producer' = [producer EXCEPT ![g] = AfterPause]
  /\ UNCHANGED <<durable, tasks, lockVars, writers, history>>

\* IngestCoordinator.rotate has the lock: rotate_all puts one item per group.
RotateStarts ==
  /\ rotor = "ask"
  /\ Head(lockQ) = Barrier
  /\ rotor' = "wait"
  /\ pending' = Group
  /\ queue' = [g \in Group |-> Append(queue[g], Rotate)]
  /\ UNCHANGED <<durable, tasks, lockQ, producer, batch, written, writer,
                 through, used, history>>

-----------------------------------------------------------------------------
\* WriterPool._run

NextItem(g) == Head(queue[g])
HasEvent(g) == queue[g] # <<>> /\ NextItem(g) # Rotate
Fits(g) == Session(g) = {} \/ \A t \in Session(g) : Day(t) = Day(NextItem(g))

Take(g) ==
  /\ writer[g] = "idle"
  /\ HasEvent(g)
  /\ Fits(g)
  /\ queue' = [queue EXCEPT ![g] = Tail(@)]
  /\ batch' = [batch EXCEPT ![g] = @ \cup {NextItem(g)}]
  /\ writer' = [writer EXCEPT ![g] =
                  CASE Cardinality(batch'[g]) >= BatchEvents -> "flush"
                    [] Cardinality(Session(g)) + 1 >= ChunkEvents -> "finish"
                    [] OTHER -> "idle"]
  /\ UNCHANGED <<durable, tasks, lockVars, producer, written, through, used,
                 history>>

\* Before an event of another day (should_rotate_before, the event in hand
\* counted as still queued), and when the session is max_seconds old. The age
\* is not looked at between a rotate item and its answer.
CutSession(g) ==
  /\ writer[g] = "idle"
  /\ Session(g) # {}
  /\ queue[g] = <<>> \/ HasEvent(g)
  /\ writer' = [writer EXCEPT ![g] = "finish"]
  /\ UNCHANGED <<durable, tasks, lockVars, producer, queue, batch, written,
                 through, used, history>>

\* The batch goes to the partial file, then its bytes are released.
FlushBatch(g, released) ==
  /\ used' = used - released
  /\ written' = [written EXCEPT ![g] = Session(g)]
  /\ batch' = [batch EXCEPT ![g] = {}]

Flush(g) ==
  /\ writer[g] = "flush"
  /\ FlushBatch(g, Cardinality(batch[g]))
  /\ writer' = [writer EXCEPT ![g] =
                  IF Cardinality(Session(g)) >= ChunkEvents THEN "finish" ELSE "idle"]
  /\ UNCHANGED <<durable, tasks, lockVars, producer, queue, through, history>>

\* finish() starts with a flush of what is left.
WrongLeftOver(g) == 0
LeftOver(g) == Cardinality(batch[g])

FinishFlush(g) ==
  /\ writer[g] = "finish"
  /\ FlushBatch(g, LeftOver(g))
  /\ writer' = [writer EXCEPT ![g] = "publish"]
  /\ UNCHANGED <<durable, tasks, lockVars, producer, queue, through, history>>

\* The writer task of g ends with an exception; a rotate item it was serving
\* gets the exception too.
Dies(g) ==
  /\ writer' = [writer EXCEPT ![g] = "dead"]
  /\ rotor' = IF rotor = "wait" /\ queue[g] # <<>> /\ NextItem(g) = Rotate
              THEN "failed" ELSE rotor

\* session.finish, day_index.record, then the watermark of the group. The
\* inventory of a sealed day takes no more chunks.
NewThrough(g) == CHOOSE t \in Session(g) : \A s \in Session(g) : s <= t

Record(g) ==
  /\ writer[g] = "publish"
  /\ IF sealed /\ \E t \in Session(g) : Day(t) = 1
     THEN Dies(g) /\ UNCHANGED <<recorded, through, written>>
     ELSE /\ recorded' = recorded \cup Session(g)
          /\ through' = [through EXCEPT ![g] = Later(@, NewThrough(g))]
          /\ written' = [written EXCEPT ![g] = {}]
          /\ writer' = [writer EXCEPT ![g] = "idle"]
          /\ UNCHANGED rotor
  /\ UNCHANGED <<sealed, lease, gaps, tasks, lockQ, pending, producer, queue,
                 batch, used, history>>

WriterFails(g) ==
  /\ writer[g] \in {"flush", "finish", "publish"}
  /\ failures < MaxFailures
  /\ failures' = failures + 1
  /\ Dies(g)
  /\ UNCHANGED <<durable, tasks, lockQ, pending, producer, queue, batch,
                 written, through, used, admitted, clock, crashes>>

\* A rotate or a stop item: finish the session, then answer. The answer to a
\* rotation that was cancelled raises InvalidStateError.
FinishFirst(g) == Session(g) # {}

WrongAnswered(g) == IF through[g] = 0 THEN pending ELSE pending \ {g}
Answered(g) == pending \ {g}

ServeRotate(g) ==
  /\ writer[g] = "idle"
  /\ queue[g] # <<>>
  /\ NextItem(g) = Rotate
  /\ IF FinishFirst(g)
     THEN /\ writer' = [writer EXCEPT ![g] = "finish"]
          /\ UNCHANGED <<queue, pending>>
     ELSE /\ queue' = [queue EXCEPT ![g] = Tail(@)]
          /\ pending' = Answered(g)
          /\ writer' = [writer EXCEPT ![g] =
                          IF rotor = "cancelled" THEN "dead" ELSE "idle"]
  /\ UNCHANGED <<durable, tasks, lockQ, rotor, producer, batch, written,
                 through, used, history>>

ServeStop(g) ==
  /\ draining
  /\ writer[g] = "idle"
  /\ queue[g] = <<>>
  /\ writer' = [writer EXCEPT ![g] = IF Session(g) # {} THEN "finish" ELSE "done"]
  /\ UNCHANGED <<durable, tasks, lockVars, producer, queue, batch, written,
                 through, used, history>>

-----------------------------------------------------------------------------
\* EdgeService

\* run() up to the start of the sources: a RUNNING lease becomes a gap.
RecoveryFrom == Later(lease.from, Floor)

Start ==
  /\ main = "down"
  /\ main' = "boot"
  /\ started' = clock
  /\ gaps' = IF lease.state = "running"
             THEN gaps \cup {[from |-> RecoveryFrom, to |-> 0]} ELSE gaps
  /\ lease' = [state |-> "running", from |-> Later(clock, Floor)]
  /\ sources' = TRUE
  /\ producer' = [g \in Group |-> "idle"]
  /\ UNCHANGED <<recorded, sealed, midnight, draining, lockVars, writers, history>>

AskRotate ==
  /\ rotor' = "ask"
  /\ lockQ' = Append(lockQ, Barrier)
  /\ UNCHANGED pending

\* Every source is ready: close the gaps, seal what has ended, mark the start.
Ready ==
  /\ main = "boot"
  /\ main' = "formal"
  /\ gaps' = {[gap EXCEPT !.to = IF @ = 0 THEN clock ELSE @] : gap \in gaps}
  /\ sealed' = (sealed \/ clock > Midnight)
  /\ AskRotate
  /\ UNCHANGED <<recorded, lease, started, midnight, sources, draining,
                 producer, writers, history>>

\* _lease_loop, and the write after a seal.
RenewLease == lease' = [state |-> "running", from |-> Later(Watermark, Floor')]

Heartbeat ==
  /\ main = "run"
  /\ UNCHANGED <<recorded, sealed, gaps, tasks, lockVars, producer, writers,
                 history>>
  /\ RenewLease

MidnightComes ==
  /\ main = "run"
  /\ midnight = "off"
  /\ clock > Midnight
  /\ ~sealed
  /\ midnight' = "first"
  /\ AskRotate
  /\ UNCHANGED <<durable, main, started, sources, draining, producer, writers,
                 history>>

\* Every writer has answered: the caller of rotate goes on.
WrongAllAnswered == pending # Group
AllAnswered == pending = {}

RotateEnds ==
  /\ rotor = "wait"
  /\ AllAnswered
  /\ \/ /\ main = "formal"
        /\ main' = "run"
        /\ rotor' = "none" /\ lockQ' = Tail(lockQ)
        /\ UNCHANGED <<midnight, pending>>
     \/ /\ midnight = "first"
        /\ midnight' = "second"
        /\ rotor' = "ask" /\ lockQ' = Append(Tail(lockQ), Barrier)
        /\ UNCHANGED <<main, pending>>
     \/ /\ midnight = "second"
        /\ midnight' = "grace"
        /\ rotor' = "none" /\ lockQ' = Tail(lockQ)
        /\ UNCHANGED <<main, pending>>
  /\ UNCHANGED <<durable, started, sources, draining, producer, writers, history>>

Seal ==
  /\ midnight = "grace"
  /\ midnight' = "off"
  /\ sealed' = TRUE
  /\ RenewLease
  /\ UNCHANGED <<recorded, gaps, main, started, sources, draining, lockVars,
                 producer, writers, history>>

\* The end of run(): the loops are cancelled, a rotation of theirs with them: its
\* coroutine leaves the boundary lock or the queue for it.
WithoutBarrier ==
  IF \E i \in DOMAIN lockQ : lockQ[i] = Barrier
  THEN LET b == CHOOSE i \in DOMAIN lockQ : lockQ[i] = Barrier
       IN  [i \in 1..Len(lockQ) - 1 |-> IF i < b THEN lockQ[i] ELSE lockQ[i + 1]]
  ELSE lockQ

Shutdown ==
  /\ main' = "stop"
  /\ midnight' = "off"
  /\ gaps' = gaps \cup {[from |-> clock + 1, to |-> 0]}
  /\ lockQ' = WithoutBarrier
  /\ rotor' = IF rotor = "wait" THEN "cancelled" ELSE "none"
  /\ pending' = {}
  /\ UNCHANGED <<recorded, sealed, lease, started, sources, draining, producer,
                 writers, history>>

StopRequested ==
  /\ main = "run"
  /\ StopInBarrier \/ rotor = "none"
  /\ Shutdown

\* wait_for_failure, which nobody awaits before run() has its background tasks.
WriterFailureSeen ==
  /\ main = "run"
  /\ \E g \in Group : writer[g] = "dead"
  /\ Shutdown

RotateRaises ==
  /\ rotor = "failed"
  /\ IF main = "run"
     THEN Shutdown
     ELSE /\ main' = "abort"
          /\ rotor' = "none" /\ lockQ' = Tail(lockQ) /\ pending' = {}
          /\ UNCHANGED <<durable, started, midnight, sources, draining,
                         producer, writers, history>>

\* SourceManager.stop: connections are cancelled, also while they wait for the
\* lock; a paused producer is waited for.
StopSources ==
  /\ main \in {"stop", "abort"}
  /\ sources
  /\ sources' = FALSE
  /\ lockQ' = <<>>
  /\ producer' = [g \in Group |-> IF producer[g] = "paused" THEN "paused" ELSE "off"]
  /\ UNCHANGED <<durable, main, started, midnight, draining, rotor, pending,
                 writers, history>>

Drain ==
  /\ main \in {"stop", "abort"}
  /\ ~sources
  /\ \A g \in Group : producer[g] = "off"
  /\ ~draining
  /\ draining' = TRUE
  /\ UNCHANGED <<durable, main, started, midnight, sources, lockVars, producer,
                 writers, history>>

Gone ==
  /\ main' = "down" /\ midnight' = "off" /\ sources' = FALSE /\ draining' = FALSE
  /\ lockQ' = <<>> /\ rotor' = "none" /\ pending' = {}
  /\ producer' = [g \in Group |-> "off"]
  /\ used' = 0
  /\ queue' = [g \in Group |-> <<>>]
  /\ batch' = [g \in Group |-> {}] /\ written' = [g \in Group |-> {}]
  /\ writer' = [g \in Group |-> "idle"]
  /\ through' = [g \in Group |-> 0]
  /\ UNCHANGED <<started, admitted, clock>>

\* WriterPool.stop raises the exception of a dead writer: no clean lease then.
WrongMayClean == main = "stop"
MayClean == main = "stop" /\ \A g \in Group : writer[g] = "done"

Stopped ==
  /\ draining
  /\ \A g \in Group : writer[g] \in {"done", "dead"}
  /\ lease' = IF MayClean
              THEN [state |-> "clean", from |-> Later(Watermark, Floor)] ELSE lease
  /\ Gone
  /\ UNCHANGED <<recorded, sealed, gaps, crashes, failures>>

Crash ==
  /\ main # "down"
  /\ crashes < MaxCrashes
  /\ crashes' = crashes + 1
  /\ Gone
  /\ UNCHANGED <<durable, failures>>

-----------------------------------------------------------------------------
WriterStep(g) == \/ Take(g) \/ CutSession(g) \/ Flush(g) \/ FinishFlush(g)
                 \/ Record(g) \/ ServeRotate(g) \/ ServeStop(g)

RotateStep == RotateStarts \/ RotateEnds \/ RotateRaises

ServiceStep == \/ Start \/ Ready \/ MidnightComes \/ Seal \/ WriterFailureSeen
               \/ StopSources \/ Drain \/ Stopped

Next ==
  \/ \E g \in Group : Stamp(g) \/ Resume(g) \/ WriterStep(g) \/ WriterFails(g)
  \/ Put
  \/ RotateStep
  \/ ServiceStep
  \/ Heartbeat \/ StopRequested \/ Crash

Spec == Init /\ [][Next]_vars

\* Every task of the event loop that can go on does; events, heartbeats, stop
\* requests, failures and crashes need not come.
Fairness ==
  /\ \A g \in Group : WF_vars(WriterStep(g)) /\ WF_vars(Resume(g))
  /\ WF_vars(Put)
  /\ WF_vars(RotateStep)
  /\ WF_vars(ServiceStep)

LiveSpec == Spec /\ Fairness

-----------------------------------------------------------------------------
\* Properties

InMemory(e) == e.t \in Session(e.g) \/ \E i \in DOMAIN queue[e.g] : queue[e.g][i] = e.t

InGap(t) ==
  \/ \E gap \in gaps : gap.from <= t /\ (gap.to = 0 \/ t <= gap.to)
  \/ main = "down" /\ lease.state = "running" /\ RecoveryFrom <= t

\* An event of a critical group that was accepted is in an inventory, still on
\* its way, or inside a gap that is open, closed later than the event, or opened
\* by the next boot (lease.py:20-28, service.py:118-127): whatever crashes,
\* failing writers and midnight seals do, nothing is lost outside a gap.
NoSilentLoss ==
  \A e \in admitted :
    e.g \in Critical => e.t \in recorded \/ InMemory(e) \/ InGap(e.t)

\* The byte budget counts exactly the accepted events that a queue or an unflushed
\* batch holds (queue.py:69-89, writer.py:282-287), so that paused producers resume.
Held == {e \in admitted : \/ e.t \in batch[e.g]
                          \/ \E i \in DOMAIN queue[e.g] : queue[e.g][i] = e.t}

BudgetExact == used = Cardinality(Held)

\* When a day is sealed, no event of it is left in a queue or a session: the
\* boundary lock and the rotations of the midnight boundary have flushed them
\* (ingest.py:18-24, service.py:293-310).
SealedDayDrained ==
  sealed => \A e \in admitted : e.t <= Midnight => ~InMemory(e)

\* A lease is CLEAN only when nothing is missing: every event of a critical group,
\* and every event that this process accepted, is in an inventory or inside a
\* gap, so the next boot opens no recovery gap (service.py:175-176).
CleanMeansDurable ==
  lease.state = "clean" =>
    \A e \in admitted :
      e.g \in Critical \/ started < e.t =>
        e.t \in recorded \/ \E gap \in gaps :
                             gap.from <= e.t /\ (gap.to = 0 \/ e.t <= gap.to)

\* Every rotation asked for is answered (writer.py:242-248).
RotationEnds == rotor \in {"ask", "wait"} ~> rotor \notin {"ask", "wait"}

\* A producer that was refused resumes or is stopped (queue.py:91-93).
PausedEnds == \A g \in Group : producer[g] = "paused" ~> producer[g] # "paused"

\* Stopping ends the process (service.py:163-178).
StopEnds == main = "stop" ~> main = "down"
=============================================================================
