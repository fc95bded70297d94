-------------------------- MODULE EdgeServiceProofs --------------------------
(***************************************************************************)
(* Proofs about EdgeService: whatever fails, is asked to stop or crashes,  *)
(* a time without full collection is covered by a gap.                     *)
(*                                                                         *)
(* The argument. A process whose sources have never been complete (boot,   *)
(* wait, abort, stop) has inherited or opened a gap that nobody closes. In *)
(* the running process the sources are incomplete only between a start and *)
(* the readiness that the storage loop waits for, or after a stop that it  *)
(* has asked for; at both times it has the storage gap open, and that gap  *)
(* is closed by the storage loop alone.                                    *)
(***************************************************************************)
EXTENDS EdgeService, TLAPS

\* The types the argument needs; the order of the lock does not matter here.
Typed ==
  /\ gaps \subseteq Kind
  /\ lease \in {"none", "running", "clean"}
  /\ formal \in BOOLEAN
  /\ main \in {"down", "boot", "wait", "abort", "run", "stop"}
  /\ stale \subseteq Kind
  /\ storageId \in BOOLEAN
  /\ storage \in StoragePc
  /\ midnight \in MidnightPc
  /\ group \in {"none", "alive", "failed", "exited"}
  /\ stopping \in BOOLEAN
  /\ othersReady \in BOOLEAN
  /\ discReady \in BOOLEAN

\* The loops run in a running process only, and until the stop one may say
\* which process has which sources.
Phases ==
  /\ storage # "off" => main = "run"
  /\ midnight # "off" => main = "run"
  /\ main # "down" => lease = "running"
  /\ main \in {"down", "boot"} => group = "none"
  /\ main = "wait" => group \in {"alive", "failed"} /\ ~stopping
  /\ lease = "none" => ~formal

\* A process that has not reached readiness, or has begun to stop, lies in a
\* gap as soon as formal collection has begun.
Inherited ==
  formal /\ (main \in {"boot", "wait", "abort", "stop"} \/ (main = "down" /\ lease # "running"))
    => gaps # {}

\* The storage gap's file and the id in memory agree.
GapKnown == main \in {"boot", "wait", "run"} => (storageId <=> "storage" \in gaps)

\* Incomplete sources of a running process are the storage loop's business.
Incomplete ==
  main = "run" =>
    /\ storage \in {"waiting", "stop", "stopping", "close"} => storageId
    /\ group = "alive" /\ ~Ready => storage \in {"waiting", "stop", "stopping"}
    /\ group = "exited" => storage = "stopping"
    /\ stopping /\ group = "alive" => storage = "stopping"
    /\ storage \in {"waiting", "close"} => group # "none"
    /\ group = "none" /\ formal => gaps # {}

Inv == Typed /\ Phases /\ Inherited /\ GapKnown /\ Incomplete

-----------------------------------------------------------------------------
\* The invariant covers an outage in every phase.
LEMMA InvCovers == Inv => OutageCovered
  BY DEF Inv, Typed, Phases, Inherited, GapKnown, Incomplete, OutageCovered, Ready

LEMMA InvInit == Init => Inv
  BY DEF Init, Inv, Typed, Phases, Inherited, GapKnown, Incomplete, Ready,
         StoragePc, MidnightPc, Kind

\* A stop asked for by SIGTERM or by a failed loop (service.py:163-173) keeps it.
LEMMA InvShutdown == Inv /\ main = "run" /\ Shutdown => Inv'
  BY DEF Inv, Typed, Phases, Inherited, GapKnown, Incomplete, Ready, Shutdown,
         ShutdownGaps, Running, StoragePc, MidnightPc, Kind

\* So does every step of every task.
LEMMA InvStep == Inv /\ [Next]_vars => Inv'
<1> SUFFICES ASSUME Inv, [Next]_vars PROVE Inv'
  OBVIOUS
<1> USE DEF Inv, Typed, Phases, Inherited, GapKnown, Incomplete, Ready, Running,
            durable, loops, groupVars, StoragePc, MidnightPc, Kind
<1>1. CASE GroupStep \/ FetchFails \/ GroupFails
  <2>1. CASE OthersReady
    BY <2>1 DEF OthersReady
  <2>2. CASE Fetched
    BY <2>2 DEF Fetched
  <2>3. CASE FetchFails
    BY <2>3 DEF FetchFails
  <2>4. CASE NextDiscovery
    BY <2>4 DEF NextDiscovery
  <2>5. CASE OrphanObserves
    BY <2>5 DEF OrphanObserves
  <2>6. CASE Observe
    BY <2>6 DEF Observe
  <2>7. CASE GroupExits
    BY <2>7 DEF GroupExits
  <2>8. CASE GroupFails
    BY <2>8 DEF GroupFails
  <2> QED BY <1>1, <2>1, <2>2, <2>3, <2>4, <2>5, <2>6, <2>7, <2>8 DEF GroupStep
<1>2. CASE MainStep
  <2>1. CASE Boot
    <3>1. gaps' \subseteq Kind /\ (formal => gaps' # {})
      BY <2>1 DEF Boot
    <3>2. main' = "boot" /\ lease' = "running" /\ (storageId' <=> "storage" \in gaps')
      BY <2>1 DEF Boot
    <3>3. stale' \subseteq Kind /\ storageId' \in BOOLEAN
      BY <2>1 DEF Boot
    <3>4. UNCHANGED <<formal, loops, groupVars>>
      BY <2>1 DEF Boot
    <3> QED BY <2>1, <3>1, <3>2, <3>3, <3>4 DEF Boot
  <2>2. CASE BootSources
    BY <2>2 DEF BootSources, StartGroup
  <2>3. CASE BootLimited
    BY <2>3 DEF BootLimited, StartLoops
  <2>4. CASE BootReady
    BY <2>4 DEF BootReady, CloseStale, StaleToClose, StaleLeft, StartLoops
  <2>5. CASE BootFails
    BY <2>5 DEF BootFails
  <2>6. CASE BootAborts
    BY <2>6 DEF BootAborts, Gone
  <2>7. CASE Stopped
    BY <2>7 DEF Stopped, Gone
  <2> QED BY <1>2, <2>1, <2>2, <2>3, <2>4, <2>5, <2>6, <2>7 DEF MainStep
<1>3. CASE StopRequested
  BY <1>3, InvShutdown DEF StopRequested
<1>4. CASE Crash
  BY <1>4 DEF Crash, Gone
<1>5. CASE StorageStep
  <2>1. CASE StorageAsks
    BY <2>1 DEF StorageAsks
  <2>2. CASE StorageFine
    BY <2>2 DEF StorageFine
  <2>3. CASE StorageReleases
    BY <2>3 DEF StorageReleases
  <2>4. CASE StorageApplies
    BY <2>4, InvShutdown DEF StorageApplies
  <2>5. CASE StorageExhausted
    BY <2>5 DEF StorageExhausted
  <2>6. CASE StorageStillRuns
    BY <2>6 DEF StorageStillRuns, RecoveryReady
  <2>7. CASE StorageRestarts
    BY <2>7 DEF StorageRestarts, StartGroup
  <2>8. CASE StorageWaited
    <3>1. CASE WaitDone
      BY <2>8, <3>1 DEF StorageWaited, WaitDone, CloseStale, StaleToClose,
                        StaleLeft
    <3>2. CASE ~WaitDone /\ group # "alive"
      BY <2>8, <3>2, InvShutdown DEF StorageWaited
    <3>3. CASE ~WaitDone /\ group = "alive"
      BY <2>8, <3>3 DEF StorageWaited
    <3> QED BY <3>1, <3>2, <3>3
  <2>9. CASE StorageStops \/ StorageStopped
    BY <2>9 DEF StorageStops, StorageStopped, StopLock, ForgetGroup
  <2>10. CASE StorageCloses
    BY <2>10 DEF StorageCloses
  <2> QED BY <1>5, <2>1, <2>2, <2>4, <2>5, <2>7, <2>8, <2>9, <2>10, <2>6, <2>3 DEF StorageStep
<1>6. CASE MidnightStep
  <2>1. CASE MidnightAsks
    BY <2>1 DEF MidnightAsks
  <2>2. CASE MidnightBegins
    <3>1. /\ gaps' \in {gaps, gaps \cup {"boundary"}}
          /\ midnight = "lock" /\ midnight' \in {"update", "seal"}
          /\ UNCHANGED <<lease, formal, main, stale, storageId, storage, groupVars>>
      BY <2>2 DEF MidnightBegins
    <3> QED BY <3>1
  <2>3. CASE MidnightUpdates
    BY <2>3 DEF MidnightUpdates
  <2>4. CASE MidnightSeals
    BY <2>4 DEF MidnightSeals
  <2>5. CASE MidnightUpdateFails
    BY <2>5, InvShutdown DEF MidnightUpdateFails
  <2> QED BY <1>6, <2>1, <2>2, <2>3, <2>4, <2>5 DEF MidnightStep
<1>7. CASE SpaceChanges
  BY <1>7 DEF SpaceChanges
<1>8. CASE UNCHANGED vars
  BY <1>8 DEF vars
<1> QED BY <1>1, <1>2, <1>3, <1>4, <1>5, <1>6, <1>7, <1>8 DEF Next

-----------------------------------------------------------------------------
\* Once formal collection has begun, every time without full collection lies in
\* an open gap or behind a RUNNING lease (service.py:114-176, 188-248).
THEOREM OutageIsCovered == Spec => []OutageCovered
BY InvInit, InvStep, InvCovers, PTL DEF Spec

-----------------------------------------------------------------------------
\* The lock is what keeps the storage loop from stopping sources that the
\* midnight loop is updating

Waits(pc) == pc \in {"off", "sleep", "lock"}

LockHeld ==
  /\ main = "down" => lock = <<>>
  /\ main \in {"boot", "wait", "run"} => lock \in Seq(Task)
  /\ ~Waits(storage) => Holds("storage")
  /\ ~Waits(midnight) => Holds("midnight")

\* A stop takes both loops out of the queue.
LEMMA LockShutdown == main = "run" /\ Shutdown => LockHeld' /\ SourcesStayForMidnight'
  BY DEF Shutdown, LockHeld, SourcesStayForMidnight, Waits

\* Every step leaves the lock with the loop that has taken it.
LEMMA LockStep == Inv /\ LockHeld /\ [Next]_vars => LockHeld'
<1> SUFFICES ASSUME Inv, LockHeld, [Next]_vars PROVE LockHeld'
  OBVIOUS
<1> USE DEF LockHeld, Waits, Holds, Task, durable, loops, groupVars
<1>t. /\ storage # "off" => main = "run"
      /\ midnight # "off" => main = "run"
      /\ main \in {"down", "boot"} => group = "none"
      /\ main \in {"down", "boot", "wait", "abort", "run", "stop"}
  BY DEF Inv, Phases, Typed
<1>1. CASE GroupStep \/ FetchFails \/ GroupFails
  <2>1. CASE OthersReady \/ FetchFails \/ NextDiscovery \/ GroupExits
    BY <2>1 DEF OthersReady, FetchFails, NextDiscovery, GroupExits
  <2>2. CASE Fetched
    BY <2>2, <1>t DEF Fetched
  <2>3. CASE Observe \/ OrphanObserves
    BY <2>3 DEF Observe, OrphanObserves
  <2>4. CASE GroupFails
    BY <2>4, <1>t DEF GroupFails
  <2> QED BY <1>1, <2>1, <2>2, <2>3, <2>4 DEF GroupStep
<1>2. CASE MainStep
  <2>1. CASE Boot
    <3>1. main = "down" /\ main' = "boot" /\ UNCHANGED <<storage, midnight, lock>>
      BY <2>1 DEF Boot
    <3>2. lock' = <<>> /\ <<>> \in Seq(Task)
      BY <3>1
    <3> QED BY <3>1, <3>2, <1>t
  <2>2. CASE BootSources \/ BootFails
    BY <2>2, <1>t DEF BootSources, BootFails
  <2>3. CASE BootLimited \/ BootReady
    BY <2>3 DEF BootLimited, BootReady, StartLoops
  <2>4. CASE BootAborts \/ Stopped
    BY <2>4 DEF BootAborts, Stopped, Gone
  <2> QED BY <1>2, <2>1, <2>2, <2>3, <2>4 DEF MainStep
<1>3. CASE StopRequested
  BY <1>3, LockShutdown DEF StopRequested
<1>4. CASE Crash
  BY <1>4 DEF Crash, Gone
<1>5. CASE StorageStep
  <2>1. CASE StorageAsks
    BY <2>1, <1>t DEF StorageAsks
  <2>2. CASE StorageApplies
    BY <2>2, <1>t, LockShutdown DEF StorageApplies
  <2>3. CASE StorageExhausted \/ StorageFine \/ StorageStillRuns
    BY <2>3 DEF StorageExhausted, StorageFine, StorageStillRuns
  <2>4. CASE StorageRestarts
    BY <2>4 DEF StorageRestarts
  <2>5. CASE StorageWaited
    BY <2>5, <1>t, LockShutdown DEF StorageWaited
  <2>6. CASE StorageStops \/ StorageStopped \/ StorageCloses
    BY <2>6 DEF StorageStops, StopLock, StorageStopped, StorageCloses
  <2>7. CASE StorageReleases
    BY <2>7, <1>t DEF StorageReleases
  <2> QED BY <1>5, <2>1, <2>2, <2>3, <2>4, <2>5, <2>6, <2>7 DEF StorageStep
<1>6. CASE MidnightStep
  <2>1. CASE MidnightAsks
    BY <2>1, <1>t DEF MidnightAsks
  <2>2. CASE MidnightBegins
    BY <2>2 DEF MidnightBegins
  <2>3. CASE MidnightUpdates
    BY <2>3 DEF MidnightUpdates
  <2>4. CASE MidnightSeals
    BY <2>4, <1>t DEF MidnightSeals
  <2>5. CASE MidnightUpdateFails
    BY <2>5, <1>t, LockShutdown DEF MidnightUpdateFails
  <2> QED BY <1>6, <2>1, <2>2, <2>3, <2>4, <2>5 DEF MidnightStep
<1>7. CASE SpaceChanges \/ UNCHANGED vars
  BY <1>7 DEF SpaceChanges, vars
<1> QED BY <1>1, <1>2, <1>3, <1>4, <1>5, <1>6, <1>7 DEF Next

\* Sources vanish under the lock only, or with both loops.
LEMMA SourcesStep ==
  Inv /\ LockHeld /\ SourcesStayForMidnight /\ [Next]_vars => SourcesStayForMidnight'
<1> SUFFICES ASSUME Inv, LockHeld, SourcesStayForMidnight, [Next]_vars
             PROVE SourcesStayForMidnight'
  OBVIOUS
<1> USE DEF SourcesStayForMidnight, Running, durable, loops, groupVars
<1>t. /\ midnight # "off" => main = "run"
      /\ midnight = "update" => Waits(storage)
  BY DEF Inv, Phases, LockHeld, Holds, Waits
<1>1. CASE GroupStep \/ FetchFails \/ GroupFails
  BY <1>1 DEF GroupStep, OthersReady, Fetched, Observe, OrphanObserves,
              NextDiscovery, GroupExits, FetchFails, GroupFails
<1>2. CASE MainStep
  BY <1>2, <1>t DEF MainStep, Boot, BootLimited, BootSources, StartGroup, BootReady,
              StartLoops, BootFails, BootAborts, Stopped, Gone
<1>3. CASE StopRequested \/ Crash
  BY <1>3, LockShutdown DEF StopRequested, Crash, Gone
<1>4. CASE StorageStep
  <2>1. CASE StorageAsks \/ StorageFine \/ StorageReleases
    BY <2>1 DEF StorageAsks, StorageFine, StorageReleases
  <2>2. CASE StorageExhausted \/ StorageStillRuns \/ StorageCloses
    BY <2>2 DEF StorageExhausted, StorageStillRuns, StorageCloses
  <2>3. CASE StorageApplies
    BY <2>3, <1>t, LockShutdown DEF StorageApplies, Inv, Phases
  <2>4. CASE StorageWaited
    <3>1. midnight # "update" /\ main = "run"
      BY <2>4, <1>t DEF StorageWaited, Waits, Inv, Phases
    <3>2. midnight' \in {midnight, "off"}
      BY <2>4 DEF StorageWaited, Shutdown
    <3> QED BY <3>1, <3>2
  <2>5. CASE StorageRestarts \/ StorageStops \/ StorageStopped
    BY <2>5, <1>t DEF StorageRestarts, StartGroup, StorageStops, StorageStopped,
                      ForgetGroup, Waits
  <2> QED BY <1>4, <2>1, <2>2, <2>3, <2>4, <2>5 DEF StorageStep
<1>5. CASE MidnightStep
  BY <1>5, LockShutdown, <1>t DEF MidnightStep, MidnightAsks, MidnightBegins,
     MidnightUpdates, MidnightUpdateFails, MidnightSeals
<1>6. CASE SpaceChanges \/ UNCHANGED vars
  BY <1>6 DEF SpaceChanges, vars
<1> QED BY <1>1, <1>2, <1>3, <1>4, <1>5, <1>6 DEF Next

\* The sources that the midnight boundary found running are there when it
\* updates them, grace periods and requests later (service.py:275-297).
THEOREM MidnightKeepsSources == Spec => []SourcesStayForMidnight
<1>1. Init => LockHeld /\ SourcesStayForMidnight
  BY DEF Init, LockHeld, SourcesStayForMidnight, Waits
<1> QED BY <1>1, InvInit, InvStep, LockStep, SourcesStep, PTL DEF Spec
-----------------------------------------------------------------------------
\* Type correctness. That a gap inherited from an earlier process is still open
\* while its id is in _stale_gaps takes an argument: only the storage loop and
\* the midnight loop close gaps, the first has closed the stale ones before,
\* and the second touches sources only while the first does not restart them.

Queued ==
  /\ lock \in Seq(Task)
  /\ limited \in BOOLEAN
  /\ changing \in BOOLEAN
  /\ disc \in {"none", "fetch", "lock", "sleep"}

StaleOpen ==
  /\ stale \subseteq gaps
  /\ main = "run" /\ group # "none" /\ stale # {}
       => storage \in {"waiting", "stop", "stopping"}
  /\ storage = "close" => stale = {}

\* A queue that one task leaves is a queue of tasks.
LEMMA LeaveTyped == ASSUME NEW q \in Seq(Task), NEW t PROVE Leave(q, t) \in Seq(Task)
<1>1. CASE \E i \in DOMAIN q : q[i] = t
  <2> DEFINE at == CHOOSE i \in DOMAIN q : q[i] = t
             n == Len(q) - 1
             r == [j \in 1 .. n |-> IF j < at THEN q[j] ELSE q[j + 1]]
  <2>1. at \in 1 .. Len(q)
    BY <1>1
  <2>2. n \in Nat
    BY <2>1
  <2> HIDE DEF at
  <2>3. \A j \in 1 .. n : j \in 1 .. Len(q) /\ j + 1 \in 1 .. Len(q)
    OBVIOUS
  <2>4. \A i \in 1 .. Len(q) : q[i] \in Task
    OBVIOUS
  <2>5. r \in [1 .. n -> Task]
    BY <2>3, <2>4
  <2>6. r \in Seq(Task)
    BY <2>2, <2>5
  <2>7. Leave(q, t) = r
    BY <1>1 DEF Leave, at
  <2> QED BY <2>6, <2>7
<1>2. CASE ~ \E i \in DOMAIN q : q[i] = t
  BY <1>2 DEF Leave
<1> QED BY <1>1, <1>2

\* A stop that any task causes.
LEMMA TypedShutdown ==
  Inv /\ Queued /\ StaleOpen /\ main = "run" /\ Shutdown => Queued' /\ StaleOpen'
<1> SUFFICES ASSUME Inv, Queued, StaleOpen, main = "run", Shutdown
             PROVE Queued' /\ StaleOpen'
  OBVIOUS
<1>1. AfterCancel \in Seq(Task)
  BY LeaveTyped DEF AfterCancel, Queued
<1>2. Leave(AfterCancel, "discovery") \in Seq(Task)
  BY <1>1, LeaveTyped
<1>3. Queued'
  BY <1>1, <1>2 DEF Queued, Shutdown
<1>4. StaleOpen'
  BY DEF StaleOpen, Shutdown, ShutdownGaps
<1> QED BY <1>3, <1>4

\* The queue of the lock is a queue of tasks after every step.
LEMMA QueuedStep ==
  Inv /\ LockHeld /\ Queued /\ StaleOpen /\ [Next]_vars => Queued'
<1> SUFFICES ASSUME Inv, LockHeld, Queued, StaleOpen, [Next]_vars PROVE Queued'
  OBVIOUS
<1>s. main = "run" /\ Shutdown => Queued'
  BY TypedShutdown
<1>l. /\ storage # "off" => main = "run"
      /\ midnight # "off" => main = "run"
      /\ ~Waits(midnight) => lock # <<>>
  BY DEF Inv, Phases, LockHeld, Holds
<1>e. <<>> \in Seq(Task)
  OBVIOUS
<1> USE DEF Queued, Holds, Task, durable, loops, groupVars
<1>1. CASE GroupStep \/ FetchFails \/ GroupFails
  <2>1. CASE OthersReady \/ FetchFails \/ NextDiscovery \/ GroupExits
    BY <2>1 DEF OthersReady, FetchFails, NextDiscovery, GroupExits
  <2>2. CASE Fetched \/ Observe \/ OrphanObserves
    BY <2>2 DEF Fetched, Observe, OrphanObserves
  <2>3. CASE GroupFails
    BY <2>3 DEF GroupFails
  <2> QED BY <1>1, <2>1, <2>2, <2>3 DEF GroupStep
<1>2. CASE MainStep \/ StopRequested \/ Crash
  <2>1. CASE Boot
    BY <2>1 DEF Boot
  <2>2. CASE BootLimited \/ BootSources \/ BootReady \/ BootFails
    BY <2>2 DEF BootLimited, BootSources, BootReady, BootFails, StartLoops, StartGroup
  <2>3. CASE BootAborts \/ Stopped \/ Crash
    BY <2>3, <1>e DEF BootAborts, Stopped, Crash, Gone
  <2>4. CASE StopRequested
    BY <2>4, <1>s DEF StopRequested
  <2> QED BY <1>2, <2>1, <2>2, <2>3, <2>4 DEF MainStep
<1>3. CASE StorageStep
  <2>1. CASE StorageAsks \/ StorageFine \/ StorageReleases \/ StorageStillRuns
    BY <2>1 DEF StorageAsks, StorageFine, StorageReleases, StorageStillRuns
  <2>2. CASE StorageApplies
    BY <2>2, <1>s, <1>l DEF StorageApplies
  <2>3. CASE StorageExhausted \/ StorageCloses
    BY <2>3 DEF StorageExhausted, StorageCloses
  <2>4. CASE StorageWaited
    BY <2>4, <1>s, <1>l DEF StorageWaited
  <2>5. CASE StorageRestarts \/ StorageStops \/ StorageStopped
    BY <2>5 DEF StorageRestarts, StartGroup, StorageStops, StopLock, StorageStopped,
                ForgetGroup
  <2> QED BY <1>3, <2>1, <2>2, <2>3, <2>4, <2>5 DEF StorageStep
<1>4. CASE MidnightStep
  <2>1. CASE MidnightAsks \/ MidnightUpdates
    BY <2>1 DEF MidnightAsks, MidnightUpdates
  <2>4. CASE MidnightBegins
    <3>1. PICK change \in BOOLEAN : changing' = (change /\ Running)
      BY <2>4 DEF MidnightBegins
    <3>2. changing' \in BOOLEAN
      BY <3>1
    <3> QED BY <2>4, <3>2 DEF MidnightBegins
  <2>2. CASE MidnightUpdateFails
    BY <2>2, <1>s, <1>l DEF MidnightUpdateFails
  <2>3. CASE MidnightSeals
    <3>1. lock # <<>>
      BY <2>3, <1>l DEF MidnightSeals, Waits
    <3>2. Tail(lock) \in Seq(Task)
      BY <3>1
    <3> QED BY <2>3, <3>2 DEF MidnightSeals
  <2> QED BY <1>4, <2>1, <2>2, <2>3, <2>4 DEF MidnightStep
<1>5. CASE SpaceChanges \/ UNCHANGED vars
  BY <1>5 DEF SpaceChanges, vars
<1> QED BY <1>1, <1>2, <1>3, <1>4, <1>5 DEF Next

\* No step closes a gap and keeps it among the stale ones.
LEMMA StaleStep ==
  Inv /\ LockHeld /\ Queued /\ StaleOpen /\ [Next]_vars => StaleOpen'
<1> SUFFICES ASSUME Inv, LockHeld, Queued, StaleOpen, [Next]_vars PROVE StaleOpen'
  OBVIOUS
<1>s. main = "run" /\ Shutdown => StaleOpen'
  BY TypedShutdown
<1>l. /\ storage # "off" => main = "run"
      /\ midnight # "off" => main = "run"
      /\ main \in {"down", "boot"} => group = "none"
      /\ midnight = "update" => Waits(storage)
  BY DEF Inv, Phases, LockHeld, Holds, Waits
<1> USE DEF StaleOpen, Running, durable, loops, groupVars
<1>1. CASE GroupStep \/ FetchFails \/ GroupFails
  BY <1>1 DEF GroupStep, OthersReady, Fetched, Observe, OrphanObserves,
              NextDiscovery, GroupExits, FetchFails, GroupFails
<1>2. CASE MainStep \/ StopRequested \/ Crash
  <2>1. CASE Boot
    BY <2>1, <1>l DEF Boot
  <2>2. CASE BootLimited \/ BootSources
    BY <2>2, <1>l DEF BootLimited, BootSources, StartLoops, StartGroup
  <2>3. CASE BootReady \/ BootFails
    BY <2>3, <1>l DEF BootReady, BootFails, StartLoops, CloseStale, StaleLeft
  <2>4. CASE BootAborts \/ Stopped \/ Crash
    BY <2>4 DEF BootAborts, Stopped, Crash, Gone
  <2>5. CASE StopRequested
    BY <2>5, <1>s DEF StopRequested
  <2> QED BY <1>2, <2>1, <2>2, <2>3, <2>4, <2>5 DEF MainStep
<1>3. CASE StorageStep
  <2>1. CASE StorageAsks \/ StorageFine \/ StorageReleases \/ StorageStillRuns
    BY <2>1, <1>l DEF StorageAsks, StorageFine, StorageReleases, StorageStillRuns
  <2>2. CASE StorageApplies
    BY <2>2, <1>s, <1>l DEF StorageApplies
  <2>3. CASE StorageExhausted \/ StorageCloses
    BY <2>3 DEF StorageExhausted, StorageCloses
  <2>4. CASE StorageWaited
    BY <2>4, <1>s, <1>l DEF StorageWaited, CloseStale, StaleLeft
  <2>5. CASE StorageRestarts \/ StorageStops \/ StorageStopped
    BY <2>5 DEF StorageRestarts, StartGroup, StorageStops, StorageStopped, ForgetGroup
  <2> QED BY <1>3, <2>1, <2>2, <2>3, <2>4, <2>5 DEF StorageStep
<1>4. CASE MidnightStep
  <2>1. CASE MidnightAsks \/ MidnightBegins \/ MidnightSeals
    BY <2>1 DEF MidnightAsks, MidnightBegins, MidnightSeals
  <2>2. CASE MidnightUpdateFails
    BY <2>2, <1>s, <1>l DEF MidnightUpdateFails
  <2>3. CASE MidnightUpdates
    BY <2>3, <1>l DEF MidnightUpdates, Waits
  <2> QED BY <1>4, <2>1, <2>2, <2>3 DEF MidnightStep
<1>5. CASE SpaceChanges \/ UNCHANGED vars
  BY <1>5 DEF SpaceChanges, vars
<1> QED BY <1>1, <1>2, <1>3, <1>4, <1>5 DEF Next

\* Every variable keeps its type, and an id in _stale_gaps is that of an open gap
\* (service.py:434-448).
THEOREM TypeCorrect == Spec => []TypeOK
<1>1. Init => LockHeld /\ Queued /\ StaleOpen
  <2>1. <<>> \in Seq(Task)
    OBVIOUS
  <2> QED BY <2>1 DEF Init, LockHeld, Waits, Queued, StaleOpen
<1>2. Inv /\ Queued /\ StaleOpen => TypeOK
  BY DEF Inv, Typed, Queued, StaleOpen, TypeOK
<1> QED BY <1>1, <1>2, InvInit, InvStep, LockStep, QueuedStep, StaleStep, PTL DEF Spec
=============================================================================
