----------------------------- MODULE EdgeService -----------------------------
(***************************************************************************)
(* The tasks of one collector process (edge/service.py) and the source     *)
(* group they start and stop (SourceManager, edge/sources.py).             *)
(*                                                                         *)
(* The storage loop, the midnight loop and the discovery poller share one  *)
(* asyncio lock. The lock is fair, so it is the queue of the tasks that    *)
(* asked for it, its head the holder. Discovery is itself a member of the  *)
(* source group, and the group is ready only after its first discovery.    *)
(*                                                                         *)
(* A gap stands for all gaps of its kind: "stopped" (COLLECTOR_STOPPED),   *)
(* "storage" (STORAGE_EXHAUSTED) and "boundary" (PLANNED_BOUNDARY).        *)
(***************************************************************************)
EXTENDS Integers, Sequences

VARIABLES
  \* durable
  gaps,        \* kinds of gap with a file in control/open-gaps
  lease,       \* control/collector-lease.json: "none", "running" or "clean"
  formal,      \* control/formal-start.json exists
  \* the environment
  limited,     \* the spool is hard-limited
  \* the process
  main,        \* EdgeService.run: "down", "boot", "wait", "abort", "run", "stop"
  stale,       \* _stale_gaps
  storageId,   \* _storage_gap_id is set
  storage,     \* _storage_loop
  midnight,    \* _midnight_loop
  changing,    \* the boundary being applied changes live subscriptions
  lock,        \* _operation_lock
  \* the source group
  group,       \* SourceManager._task: "none", "alive", "failed" or "exited"
  stopping,    \* the stop event of the group
  othersReady, \* every source except discovery has reported ready
  discReady,   \* discovery has reported ready
  disc         \* _discovery_loop: "none", "fetch", "lock" or "sleep"

durable   == <<gaps, lease, formal>>
loops     == <<storage, midnight, changing>>
groupVars == <<group, stopping, othersReady, discReady, disc>>
vars == <<durable, limited, main, stale, storageId, loops, lock, groupVars>>

Kind  == {"stopped", "storage", "boundary"}
Task  == {"storage", "midnight", "discovery", "orphan"}
StoragePc  == {"off", "sleep", "lock", "status", "stop", "stopping", "waiting",
               "close", "release"}
MidnightPc == {"off", "sleep", "lock", "update", "seal"}

TypeOK ==
  /\ gaps \subseteq Kind
  /\ lease \in {"none", "running", "clean"}
  /\ formal \in BOOLEAN
  /\ limited \in BOOLEAN
  /\ main \in {"down", "boot", "wait", "abort", "run", "stop"}
  /\ stale \subseteq gaps
  /\ storageId \in BOOLEAN
  /\ storage \in StoragePc
  /\ midnight \in MidnightPc
  /\ changing \in BOOLEAN
  /\ lock \in Seq(Task)
  /\ group \in {"none", "alive", "failed", "exited"}
  /\ stopping \in BOOLEAN
  /\ othersReady \in BOOLEAN
  /\ discReady \in BOOLEAN
  /\ disc \in {"none", "fetch", "lock", "sleep"}

Init ==
  /\ gaps = {} /\ lease = "none" /\ formal = FALSE
  /\ limited = FALSE
  /\ main = "down" /\ stale = {} /\ storageId = FALSE
  /\ storage = "off" /\ midnight = "off" /\ changing = FALSE
  /\ lock = <<>>
  /\ group = "none" /\ stopping = FALSE
  /\ othersReady = FALSE /\ discReady = FALSE /\ disc = "none"

Holds(t) == lock # <<>> /\ Head(lock) = t
Running == group # "none"
Ready == group = "alive" /\ othersReady /\ discReady

-----------------------------------------------------------------------------
\* The source group

\* SourceManager.start.
StartGroup ==
  /\ group' = "alive"
  /\ stopping' = FALSE
  /\ othersReady' = FALSE
  /\ discReady' = FALSE
  /\ disc' = "fetch"

\* SourceManager.stop has joined the group and forgets it.
ForgetGroup ==
  /\ group \in {"failed", "exited"}
  /\ group' = "none"
  /\ UNCHANGED <<stopping, othersReady, discReady, disc>>

OthersReady ==
  /\ group = "alive"
  /\ ~othersReady
  /\ othersReady' = TRUE
  /\ UNCHANGED <<durable, limited, main, stale, storageId, loops, lock, group,
                 stopping, discReady, disc>>

\* All requests of one discovery have answers: on_discovery asks for the lock.
\* The stop event is not looked at on the way.
Fetched ==
  /\ group = "alive"
  /\ disc = "fetch"
  /\ disc' = "lock"
  /\ lock' = Append(lock, "discovery")
  /\ UNCHANGED <<durable, limited, main, stale, storageId, loops, group,
                 stopping, othersReady, discReady>>

FetchFails ==
  /\ group = "alive"
  /\ disc = "fetch"
  /\ disc' = "sleep"
  /\ UNCHANGED <<durable, limited, main, stale, storageId, loops, lock, group,
                 stopping, othersReady, discReady>>

\* _on_discovery observes and plans under the lock; then discovery is ready.
Observe ==
  /\ disc = "lock"
  /\ Holds("discovery")
  /\ lock' = Tail(lock)
  /\ discReady' = TRUE
  /\ disc' = "sleep"
  /\ UNCHANGED <<durable, limited, main, stale, storageId, loops, group,
                 stopping, othersReady>>

\* The poller of a group that failed is not cancelled: it still takes its turn.
OrphanObserves ==
  /\ Holds("orphan")
  /\ lock' = Tail(lock)
  /\ UNCHANGED <<durable, limited, main, stale, storageId, loops, groupVars>>

NextDiscovery ==
  /\ disc = "sleep"
  /\ disc' = IF stopping THEN "none" ELSE "fetch"
  /\ UNCHANGED <<durable, limited, main, stale, storageId, loops, lock, group,
                 stopping, othersReady, discReady>>

\* gather() over the members returns when the last has seen the stop event.
GroupExits ==
  /\ group = "alive"
  /\ stopping
  /\ disc = "none"
  /\ group' = "exited"
  /\ UNCHANGED <<durable, limited, main, stale, storageId, loops, lock,
                 stopping, othersReady, discReady, disc>>

\* A member raises; gather() returns and leaves the others where they are.
GroupFails ==
  /\ group = "alive"
  /\ group' = "failed"
  /\ disc' = "none"
  /\ lock' = [i \in DOMAIN lock |->
                IF lock[i] = "discovery" THEN "orphan" ELSE lock[i]]
  /\ UNCHANGED <<durable, limited, main, stale, storageId, loops, stopping,
                 othersReady, discReady>>

-----------------------------------------------------------------------------
\* EdgeService.run

\* Lines 114-131: a RUNNING lease gets its recovery gap before it is renewed;
\* every open gap is stale; an old storage gap is adopted.
Boot ==
  /\ main = "down"
  /\ main' = "boot"
  /\ gaps' = IF lease = "running" THEN gaps \cup {"stopped"} ELSE gaps
  /\ stale' = gaps'
  /\ storageId' = ("storage" \in gaps')
  /\ lease' = "running"
  /\ UNCHANGED <<formal, limited, loops, lock, groupVars>>

StartLoops ==
  /\ storage' = "sleep"
  /\ midnight' = "sleep"
  /\ UNCHANGED changing

BootLimited ==
  /\ main = "boot"
  /\ limited
  /\ main' = "run"
  /\ StartLoops
  /\ UNCHANGED <<durable, limited, stale, storageId, lock, groupVars>>

BootSources ==
  /\ main = "boot"
  /\ ~limited
  /\ main' = "wait"
  /\ StartGroup
  /\ UNCHANGED <<durable, limited, stale, storageId, loops, lock>>

\* _close_stale_gaps, which leaves the storage gap to the storage loop, and
\* _mark_formal_start.
StaleToClose == IF storageId THEN stale \ {"storage"} ELSE stale
WrongStaleLeft == stale
StaleLeft == {}

CloseStale ==
  /\ gaps' = gaps \ StaleToClose
  /\ stale' = StaleLeft
  /\ formal' = TRUE

BootReady ==
  /\ main = "wait"
  /\ Ready
  /\ CloseStale
  /\ main' = "run"
  /\ StartLoops
  /\ UNCHANGED <<lease, limited, storageId, lock, groupVars>>

\* wait_ready raises: the group failed or 600 seconds have passed.
BootFails ==
  /\ main = "wait"
  /\ ~Ready
  /\ main' = "abort"
  /\ stopping' = TRUE
  /\ UNCHANGED <<durable, limited, stale, storageId, loops, lock, group,
                 othersReady, discReady, disc>>

\* Volatile state of a process that is gone.
Gone ==
  /\ main' = "down"
  /\ stale' = {} /\ storageId' = FALSE
  /\ storage' = "off" /\ midnight' = "off" /\ changing' = FALSE
  /\ lock' = <<>>
  /\ group' = "none" /\ stopping' = FALSE
  /\ othersReady' = FALSE /\ discReady' = FALSE /\ disc' = "none"

BootAborts ==
  /\ main = "abort"
  /\ group \in {"failed", "exited"}
  /\ Gone
  /\ UNCHANGED <<durable, limited>>

\* The queue without the task t, which waits in it at most once.
Leave(q, t) ==
  IF \E i \in DOMAIN q : q[i] = t
  THEN LET at == CHOOSE i \in DOMAIN q : q[i] = t
       IN  [j \in 1 .. Len(q) - 1 |-> IF j < at THEN q[j] ELSE q[j + 1]]
  ELSE q

\* What cancelling the background tasks does to the lock: they leave the queue.
WrongAfterCancel == lock
AfterCancel == Leave(Leave(lock, "storage"), "midnight")

\* Lines 163-173: cancel the loops, open COLLECTOR_STOPPED when the sources are
\* running, stop them. Cancelling a loop that is joining the group cancels the
\* group with it.
WrongShutdownGaps == gaps
ShutdownGaps == IF Running THEN gaps \cup {"stopped"} ELSE gaps

Shutdown ==
  /\ main' = "stop"
  /\ storage' = "off" /\ midnight' = "off" /\ changing' = FALSE
  /\ gaps' = ShutdownGaps
  /\ IF storage = "stopping" /\ group = "alive"
     THEN /\ group' = "exited"
          /\ disc' = "none"
          /\ lock' = Leave(AfterCancel, "discovery")
     ELSE lock' = AfterCancel /\ UNCHANGED <<group, disc>>
  /\ stopping' = TRUE
  /\ UNCHANGED <<lease, formal, limited, stale, storageId, othersReady,
                 discReady>>

StopRequested ==
  /\ main = "run"
  /\ Shutdown

\* Lines 173-176: the sources are gone, the writers flushed, the lease CLEAN.
Stopped ==
  /\ main = "stop"
  /\ group # "alive"
  /\ lease' = "clean"
  /\ Gone
  /\ UNCHANGED <<gaps, formal, limited>>

Crash ==
  /\ main # "down"
  /\ Gone
  /\ UNCHANGED <<durable, limited>>

-----------------------------------------------------------------------------
\* _storage_loop

StorageAsks ==
  /\ storage = "sleep"
  /\ storage' = "lock"
  /\ lock' = Append(lock, "storage")
  /\ UNCHANGED <<durable, limited, main, stale, storageId, midnight, changing,
                 groupVars>>

\* raise_if_failed, then apply_acks.
StorageApplies ==
  /\ storage = "lock"
  /\ Holds("storage")
  /\ IF group \in {"failed", "exited"}
     THEN Shutdown
     ELSE /\ storage' = "status"
          /\ UNCHANGED <<durable, limited, main, stale, storageId, midnight,
                         changing, lock, groupVars>>

StorageExhausted ==
  /\ storage = "status"
  /\ limited
  /\ gaps' = gaps \cup {"storage"}
  /\ storageId' = TRUE
  /\ storage' = IF Running THEN "stop" ELSE "release"
  /\ UNCHANGED <<lease, formal, limited, main, stale, midnight, changing, lock,
                 groupVars>>

StorageFine ==
  /\ storage = "status"
  /\ ~limited
  /\ ~storageId
  /\ storage' = "release"
  /\ UNCHANGED <<durable, limited, main, stale, storageId, midnight, changing,
                 lock, groupVars>>

\* recovery_ready is true already when the boot has restarted the sources.
WrongRecoveryReady == FALSE
RecoveryReady == TRUE

StorageStillRuns ==
  /\ storage = "status"
  /\ ~limited
  /\ storageId
  /\ Running
  /\ storage' = IF RecoveryReady THEN "close" ELSE "release"
  /\ UNCHANGED <<durable, limited, main, stale, storageId, midnight, changing,
                 lock, groupVars>>

StorageRestarts ==
  /\ storage = "status"
  /\ ~limited
  /\ storageId
  /\ ~Running
  /\ StartGroup
  /\ storage' = "waiting"
  /\ UNCHANGED <<durable, limited, main, stale, storageId, midnight, changing,
                 lock>>

\* wait_ready returns, raises RuntimeError, or raises TimeoutError.
WaitDone == Ready

StorageWaited ==
  /\ storage = "waiting"
  /\ CASE WaitDone ->
            /\ storage' = "close"
            /\ CloseStale
            /\ UNCHANGED <<lease, limited, main, storageId, midnight, changing,
                           lock, groupVars>>
       [] ~WaitDone /\ group # "alive" -> Shutdown
       [] OTHER ->
            /\ storage' = "stop"
            /\ UNCHANGED <<durable, limited, main, stale, storageId, midnight,
                           changing, lock, groupVars>>

\* SourceManager.stop, called with the lock held.
WrongStopLock == Tail(lock)
StopLock == lock

StorageStops ==
  /\ storage = "stop"
  /\ stopping' = TRUE
  /\ storage' = "stopping"
  /\ lock' = StopLock
  /\ UNCHANGED <<durable, limited, main, stale, storageId, midnight, changing,
                 group, othersReady, discReady, disc>>

StorageStopped ==
  /\ storage = "stopping"
  /\ ForgetGroup
  /\ storage' = "release"
  /\ UNCHANGED <<durable, limited, main, stale, storageId, midnight, changing,
                 lock>>

StorageCloses ==
  /\ storage = "close"
  /\ gaps' = gaps \ {"storage"}
  /\ storageId' = FALSE
  /\ storage' = "release"
  /\ UNCHANGED <<lease, formal, limited, main, stale, midnight, changing, lock,
                 groupVars>>

StorageReleases ==
  /\ storage = "release"
  /\ storage' = "sleep"
  /\ lock' = IF Holds("storage") THEN Tail(lock) ELSE lock
  /\ UNCHANGED <<durable, limited, main, stale, storageId, midnight, changing,
                 groupVars>>

-----------------------------------------------------------------------------
\* _midnight_loop and _apply_midnight_boundary

MidnightAsks ==
  /\ midnight = "sleep"
  /\ midnight' = "lock"
  /\ lock' = Append(lock, "midnight")
  /\ UNCHANGED <<durable, limited, main, stale, storageId, storage, changing,
                 groupVars>>

\* was_running is read here; a decision may change live subscriptions.
MidnightBegins ==
  /\ midnight = "lock"
  /\ Holds("midnight")
  /\ \E change \in BOOLEAN :
       /\ changing' = (change /\ Running)
       /\ gaps' = IF change /\ Running THEN gaps \cup {"boundary"} ELSE gaps
  /\ midnight' = IF changing' THEN "update" ELSE "seal"
  /\ UNCHANGED <<lease, formal, limited, main, stale, storageId, storage, lock,
                 groupVars>>

\* update_instruments succeeds, or raises: no pollers, or a route in the middle
\* of a reconnect that nobody answers in time.
MidnightUpdates ==
  /\ midnight = "update"
  /\ group = "alive"
  /\ gaps' = gaps \ {"boundary"}
  /\ midnight' = "seal"
  /\ UNCHANGED <<lease, formal, limited, main, stale, storageId, storage,
                 changing, lock, groupVars>>

MidnightUpdateFails ==
  /\ midnight = "update"
  /\ Shutdown

\* Grace period, seal, lease; the lock is released.
MidnightSeals ==
  /\ midnight = "seal"
  /\ midnight' = "sleep"
  /\ changing' = FALSE
  /\ lock' = Tail(lock)
  /\ UNCHANGED <<durable, limited, main, stale, storageId, storage, groupVars>>

-----------------------------------------------------------------------------
\* Disk space comes and goes.
SpaceChanges ==
  /\ limited' = ~limited
  /\ UNCHANGED <<durable, main, stale, storageId, loops, lock, groupVars>>

GroupStep == \/ OthersReady \/ Fetched \/ Observe \/ OrphanObserves
             \/ NextDiscovery \/ GroupExits

MainStep == \/ Boot \/ BootLimited \/ BootSources \/ BootReady \/ BootFails
            \/ BootAborts \/ Stopped

StorageStep == \/ StorageAsks \/ StorageApplies \/ StorageExhausted
               \/ StorageFine \/ StorageStillRuns \/ StorageRestarts
               \/ StorageWaited \/ StorageStops \/ StorageStopped
               \/ StorageCloses \/ StorageReleases

MidnightStep == \/ MidnightAsks \/ MidnightBegins \/ MidnightUpdates
                \/ MidnightUpdateFails \/ MidnightSeals

Next ==
  \/ GroupStep \/ FetchFails \/ GroupFails
  \/ MainStep \/ StopRequested \/ Crash
  \/ StorageStep
  \/ MidnightStep
  \/ SpaceChanges

Spec == Init /\ [][Next]_vars

\* Every task of the event loop that can run does, every request is answered,
\* and every timer fires; nobody has to stop, crash or fill the disk.
Fairness ==
  /\ WF_vars(OthersReady) /\ WF_vars(Fetched)
  /\ WF_vars(Observe \/ OrphanObserves)
  /\ WF_vars(NextDiscovery) /\ WF_vars(GroupExits)
  /\ WF_vars(MainStep)
  /\ WF_vars(StorageStep)
  /\ WF_vars(MidnightStep)

LiveSpec == Spec /\ Fairness

\* A network that answers: no discovery fails, no member of the group raises,
\* and a wait for readiness times out only with the discovery fetched.
AnsweredNext ==
  /\ Next
  /\ ~FetchFails
  /\ ~GroupFails
  /\ storage = "waiting" /\ storage' # "waiting" => Ready \/ disc = "lock"

AnsweredSpec == Init /\ [][AnsweredNext]_vars /\ Fairness

-----------------------------------------------------------------------------
\* Properties

\* Once formal collection has begun, a time without full collection is always
\* inside an open gap, or a RUNNING lease makes the next boot open one. (A group
\* that failed unseen is the exception: the storage loop notices it later.)
OutageCovered ==
  formal /\ ~Ready /\ group # "failed"
    => gaps # {} \/ (main = "down" /\ lease = "running")

\* What the midnight boundary read before its waits still holds when it updates
\* the sources: nobody stops them under it (service.py:275 against 297).
SourcesStayForMidnight == midnight = "update" => Running

\* SIGTERM always ends the process, wherever its tasks are.
StopFinishes == main = "stop" ~> main = "down"

\* A restart with free space closes the storage gap, or is itself interrupted.
RestartClosesStorageGap ==
  (main = "boot" /\ "storage" \in gaps)
    ~> ("storage" \notin gaps \/ limited \/ main \in {"down", "stop"})

\* "空间恢复后只启动一次 sources，并在完整 readiness 后关闭 gap" (README.md:52): with
\* space back, the storage gap of a running collector is closed.
SpaceBackClosesGap ==
  (main = "run" /\ "storage" \in gaps)
    ~> ("storage" \notin gaps \/ limited \/ main # "run")
=============================================================================
