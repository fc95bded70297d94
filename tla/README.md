# A formal model of the Freqtrade shadow data plane

This directory holds TLA+ modules translated from the Python sources under
`src/src/ft_shadow_data_plane`, TLC configurations that check them on small
instances, and proofs checked by TLAPS. Paths below are relative to the package
unless they start with `docs/`.

## The system

A collector on a small edge host records Binance market data into parquet
chunks, seals them into daily inventories, and a central host pulls them over
rsync and acknowledges what it has made durable. The edge deletes only what was
acknowledged. Every interval that was not collected must lie inside a gap record.

| component | state it keeps | operations | interacts with |
|---|---|---|---|
| chunk store (`edge/writer.py`, `contracts/serde.py`) | `writing/`, `ready/data`, `ready/manifests` | open session, rename data, write manifest | queue, day index, spool, central |
| day index (`edge/day_index.py`) | `control/day-index` journals, `ready/day-manifests/*/SEALED.json` | record, record_generated, seal, completed_dates | writers, gap journal, service, central |
| gap journal (`edge/gaps.py`) | `control/open-gaps`, gap artifacts in `ready/` | open, close, rollover, initialize (recovery) | service, routes, day index |
| spool (`edge/spool.py`) | `acks/`, `control/ack-transactions`, `rejected-acks`, ledger | apply_acks, status | storage loop, central |
| central pull (`central/pull.py`, `pull_cli.py`) | mirror, raw chunks and manifests, staged ACKs, published days, ledger | pull_ready, ingest_ready, push_acks | the edge's `ready/` and `acks/` |
| queue, boundary lock, writer pool (`edge/queue.py`, `ingest.py`, `writer.py`) | byte budget, three queues, sessions, watermarks | put, wait_until_resumable, rotate, flush, finish, stop | routes, service, day index |
| lease (`edge/lease.py`) | `control/collector-lease.json` | recovery_start_ns, write_running, write_clean, record_sealed | service, writer pool |
| edge service (`edge/service.py`) | the tasks of the process, `_operation_lock`, `_stale_gaps`, `_storage_gap_id` | run, storage loop, midnight loop, lease loop, discovery callback, shutdown | everything on the edge |
| source group (`edge/sources.py`, `edge/binance.py`) | routes, connections, REST pollers, readiness | start, wait_ready, update_instruments, stop | service, ingest, gap journal |
| universe store (`edge/universe.py`) | active and pending decision, membership state, override files | initialize, observe_and_plan, apply_due | service, discovery, operator |
| selector (`central/selector.py`) | none: evidence in, roles out | pools, bootstrap roles, rolling selection | universe store |
| depth checks (`edge/binance.py`) and L2 reconstruction (`central/l2.py`) | the last update of a connection; a book per connection, the authority, the day's checkpoint | check, re-anchor, refresh; diff, snapshot, gap event, checkpoint | routes, gap journal, finished days |
| day processing and gap ledger (`central/process_cli.py`, `gap_ledger.py`) | none between runs | read a day's gap artifacts as invalid intervals | finished days |
| normalisation, retention, command lines | files of finished days | single-pass conversions and commands | operator |

What is hard in it:

* a durable operation is a sequence of file steps, and a crash may fall between
  any two (publication, roll-over, ACK transaction, day publication at central);
* rsync reads a directory that the edge is changing, and two programs share no lock;
* asyncio tasks share one operation lock and one boundary lock, read state before
  an await and use it after it;
* a day is sealed while its writers may still hold events of it;
* a decision, a day's gaps and a day's books outlive the process in files that a
  crash leaves half written, and are read by a program that sees nothing else;
* after a crash only the lease says from which time on data may be missing;
* a full disk, a full queue or a failed writer must stop ingest without losing
  the knowledge of what was not recorded.

## Modules

| module | models | state and actions |
|---|---|---|
| `EdgeStore` | chunk publication, gap roll-over artifacts, day index | `pub[c]` is the progress of a publication; each durable file step is an action |
| `EdgeSpool` | `SpoolManager.apply_acks` | a pass: reject, transaction, unlink, collect manifest, collect data, ledger, end |
| `CentralPull` | a run of `pull_cli.main` | list data, list manifests, ingest per file, publish days, ledger, validate, push, unlink |
| `Transfer` | the three together, crashes of both sides, damaged ACK files | the operation lock excludes passes, seals and roll-overs from each other |
| `ChunkCustody` | the promise of the transfer: who is responsible for a chunk | offered, held, durable, frozen, released |
| `TransferProofs` | theorems about `Transfer` | |
| `EdgeService` | the tasks of the process, the operation lock, the source group | one action from one await to the next |
| `Collector` | queue, boundary lock, writers, lease, midnight rotation, shutdown | one action from one await to the next |
| `Route` | one websocket route: `RouteRunner.run`, `liveness_loop`, `update_instruments`, its connections | one action from one await to the next; the exchange is a tick |
| `GapJournal` | gaps from `open()` to what central reads in a sealed day | one action per file operation; time is instants |
| `Universe` | the decision store with the boot, the discovery, the overrides and the midnight that drive it | one action per file operation; time is days |
| `Selector` | the pools and the rolling selection | operators, no state; used by `Universe` |
| `L2Book` | `ConnectionBook`: the book of one connection | operators that return a book and its state change |
| `L2Day` | the depth stream of one symbol from the exchange to central: sequence checks, snapshots, re-anchoring, refreshes, rotations, losses, gap events, the authority, the checkpoint | one action per event of the exchange, the collector or the day's end |
| `EdgeServiceProofs`, `CollectorProofs`, `RouteProofs`, `GapJournalProofs`, `L2DayProofs` | theorems about these modules | |
| `UniverseProofs` | theorems about `Universe` and `Selector` | |
| `NumberLemmas` | the least, the greatest and the k-th of a set of numbers; used by the proofs | |
| `MCTransfer`, `MCEdgeService`, `MCCollector`, `MCRoute`, `MCGapJournal`, `MCUniverse`, `MCL2Day` | constants for TLC | |

Definitions named `Wrong…` are deliberately wrong variants of the definition that
follows them (a dropped guard, a missing release, a skipped wait). No action uses
them; each one shows that some property can tell the right code from the wrong.

### How the models stand for the code

*Transfer.* A chunk is a name; its data never changes, its manifest has a version
that a repeated roll-over raises (`created_at` differs). Central's mirror is empty
between runs because a run lists it anew. The artifacts of recovered gaps
appear in one step at boot (`RecoverGaps`), before which the initial pass has
left no transaction. A clean stop is a crash with less to repair and has no
action of its own. `transfer-status.json` and byte counts are left out. The
conflict branch of `apply_acks` is left out because `NoTransactionConflict`,
which is proved, says that its condition never holds.

*EdgeService.* An asyncio lock is fair, so it is the queue of those who asked for
it. Gaps are three kinds. Every source but discovery is one flag, since discovery
is the one that takes the lock. A member of a group that failed lives on as an
"orphan" turn in the lock queue. The process starts with a formal start or
without; a group that has failed unseen counts as covered only once the storage
loop has noticed.

*Collector.* An event is its receive time; all have size one, each group has one
producer, days are two. Publishing a session and recording it in the day index
are one step here and five in `EdgeStore`. An event that makes `_run` finish a
session first is counted as still queued. The age limit of a session may
strike at any time but is not looked at between a rotate item and its answer. A
failed writer, SIGTERM during a rotation and a crash may come at any await. The
gap an overloaded producer opens belongs to its route (`Route`).

*Route.* A key is a monitored stream of a symbol. At each tick the exchange
publishes one event per key, delivered if a connection of the route is served it.
Times are ages in ticks, cut off at `Timeout`, so a behaviour needs no end.
`unexplained[k]` is history: the age of the oldest event of `k` that was missed
outside all gaps; opening a gap that begins early enough clears it. So does an
event that is `Forgotten`, which comes too early for the code to notice the loss
(see "What the checks found"): `NoSilentLoss` is about everything else, and
`NothingForgotten` says that there is no such event, which is false. A rotation
begins on its timer alone, and connections fail and streams stop in every phase of it. A connection
keeps what it subscribed, what the server serves, the last proof of its
subscriptions and what readiness still waits for. An update of the subscriptions
and a targeted refresh are the same message (`msg`) with different keys; its
sender holds `_update_lock`. Overload, loss of the connection, a rejected
subscription and a silent socket are one failure. A group that has failed and an
update that has failed end the model: what follows is in `EdgeService`. The
L2_SEQUENCE gaps of `_check_depth_sequence` are in `L2Day`. An audit that passed
proves delivery up to its answer: the server is taken to deliver what it lists.

*GapJournal.* Time is instants. What the process does happens at even ones; the
first and the last instant of a day stand for the nanoseconds a roll-over writes.
`lost[g]` is history: what the gap stands for, whatever the files say. `Tells` is
what central derives from the artifacts of one day alone, read in the order of
their times. A state file follows its artifact within two moments, and a boot
meets at most one midnight, as the ten minutes of `wait_ready` (sources.py:1175)
allow. The end of a process is treated like a crash. Symbols and streams of a gap,
boots with a full disk and the gaps of cancelled tasks are left out.

*Universe and Selector.* Evidence is what the pools depend on: who trades in each
of the two status requests, a ranking by liquidity and one by age, and the sets
that pass each gate. Symbols are numbers in the order of their names, which the
code uses to break ties. The fields of a decision that nothing reads back are
left out; so are the decision log, the evidence files with their hashes, and
`automation_enabled`, which is taken to be on. A file is the set of its contents. A
discovery may wait for the operation lock past a midnight but not past two: the lock
is granted in order, and no holder keeps it for a day. A ranking has no symbol twice, and
an override asks for two whole and disjoint roles, which the contract of its file
demands (`contracts/models.py`, `CandidateOverride`).

*L2Book and L2Day.* A quantity is named by the set of updates that changed its
level, so books are equal exactly when they are at the same point of the history
of each level. Central works on a finished day, in the order of receive times, and
a gap event counts from the time from which the gap affects the stream; the model
takes its steps in that order, so a connection that is about to be lost is inside
its gap while it still delivers (`LastProof`). There is one symbol on one
route. Times of validity intervals, the rows that are written and the start of a
day without a checkpoint are left out.

## Runs

| run | checks | shows |
|---|---|---|
| `transfer_chunk` | `TypeOK`, `NoLoss`, `AckMeansDurable`, `CollectionAccountedFor`, `ManifestHasData`, `SpoolDrains`, `SealedDaysArrive` | one chunk through the whole loop, a crash of each side and a damaged ACK, late seals included |
| `transfer_day` | `SealedInventoryComplete`, `PublishedDayWhole`, `CustodySpec` | a parquet chunk and a rolled-over artifact of one day, an edge crash: inventories are complete, days are released whole, the files implement `ChunkCustody` |
| `service_run` | `TypeOK`, `OutageCovered`, `SourcesStayForMidnight`, `StopFinishes`, `RestartClosesStorageGap` | all interleavings of the tasks of a process with crashes, stops, failures and a full disk |
| `service_v_recovery` | `SpaceBackClosesGap` fails | storage recovery waits for itself |
| `collector_safe` | `TypeOK`, `NoSilentLoss`, `BudgetExact`, `CleanMeansDurable`, `SealedDayDrained` | two critical groups, three events around a midnight, a crash and a failing writer |
| `collector_live` | `RotationEnds`, `PausedEnds`, `StopEnds` | rotations, refused producers and stops end when nothing fails |
| `route_run` | `TypeOK`, `NoSilentLoss`, `SubscriptionsMatch`, `OutageEnds`, `StreamRecovers` | two symbols, an update that removes one and adds one, rotations, refreshes, audits, reconnects, a delisted symbol and one fault in any phase: a missed event lies in a gap or is one of the two kinds of `Forgotten`; a rotation forgets nothing older than the last proof of the connection it retires |
| `gaps_run` | `TypeOK`, `SealedDayTellsLoss`, `SealedDayTellsNoMore` | a loss or a full storage, a stop, roll-overs by two tasks, seals and a crash between any two files over three days: what central reads in a sealed day is the loss, no less and, without interruption, no more |
| `gaps_v_storage` | `StaleGapsClose` fails | a storage gap older than a day sealed at the boot can never be closed |
| `universe_run` | `TypeOK`, `SequenceExact`, `DwellRespected`, `ChangeLimits` | four midnights, three markets, an override, late, overtaken and repeated decisions, a crash: decisions are numbered exactly and respect minimum stays and limits |
| `universe_v_shortage` | `ShortageKeepsCollecting` fails | one shortage of candidates raises and ends the collector |
| `l2_run` | `TypeOK`, `BookExact`, `AuthorityReanchored`, `ValidIsCurrent`, `MidnightKeepsAuthority` | three connections of a symbol with lost and repeated events, late snapshots, re-anchoring, refreshes, rotations, losses and one midnight: the rebuilt book is the exchange's, and only a book anchored since the latest gap is called valid |

Further configurations, each of a property that the code does not keep; the
sections below say what they show: `Transfer_v_lateseal.cfg`
(`SealedInventoryComplete`), `Transfer_v_reroll.cfg` (`SpoolDrains`),
`Collector_v_stop.cfg` (`StopEnds`), `Route_v_rotation.cfg` (`NothingForgotten`),
`Route_v_monitor.cfg` (`MonitorSurvives`), `Universe_v_limit.cfg` (`ChangeLimits`,
with a daily limit of one), `Universe_v_dwell.cfg` (`DwellRespected`, with a minimum stay of
the core below that of a member), `L2Day_v_checkpoint.cfg`
(`CheckpointWritable`), `L2Day_v_recovery.cfg` (`RecoveryNeedsBridge`),
`L2Day_v_buffer.cfg` (`AuthorityCurrent`, with one connection, five updates, one
lost event and one silence).

Deadlock checking is off where the system or a bounded behaviour really stops:
`collector_safe` because a start-up whose writer is dead waits for ever in
`rotate_all`, the runs of `Route` because a failed source group or update ends
the route, the runs of `GapJournal`, `Universe` and `L2Day` because days, updates
and crashes run out.

### Bounds

`MaxEdgeCrashes`, `MaxCentralCrashes`, `MaxDamage` (Transfer), `MaxCrashes`,
`MaxFailures`, `MaxStamp` (Collector) bound how often the environment acts in one
behaviour; each is at least one where the run is about it. One chunk is enough for
the chunk properties because chunks meet only in a day's inventory and in the
batch of an ACK pass; `transfer_day` has two for those. A batch of two, a chunk of
two or three events and a budget of two make every limit of the queue and the
writer reachable with three events. `MaxFaults` bounds failed connections, dropped streams
and timeouts that nothing else explains, together: one fault in `route_run` falls
at every point of an update, a rotation, a refresh or a reconnect; two faults in one
behaviour are outside the run. A symbol of `Mortal` may stop trading besides: in
`route_run` the one that the update leaves in the route. `Timeout` is one
tick there: fresh and stale are all that the code tells apart. `EdgeService` has no bound: its state space is
finite and checked whole.

`gaps_run` has days of six instants, a grace time of four, gaps that may begin four
instants before they are noticed, and 16 instants, so that a gap meets two
midnights, one of them while nobody runs. `universe_run` has eight symbols, two core
members and two slots in each candidate role, ranks 1, 4 and 3, one weekly and two
daily replacements, minimum stays of two days, a week of three days, one override
and one crash: with eight symbols each role can be refilled, run short, or be
contested by a better challenger. `l2_run` has three connections, three updates on
two levels, one lost event, one repeated event, one silence and one midnight: two
connections overlap in a rotation while a third follows a loss, and three updates
are enough for a diff before, across and after a snapshot. They are too few for a
diff that is lost behind a book already valid: that case of `BookExact` and
`ValidIsCurrent` is covered by the theorems `BooksAreTheExchanges` and
`ValidHasAllReceived` alone.

`GapJournal` assumes `Reach + 2 <= DayLen`: a loss is noticed within minutes, so in
the day it began or in the next one (four of six instants in `gaps_run`). If a loss
were noticed later, its first OPEN could lie in a day that the midnight loop has
listed without it.

Two constants are assumptions about the environment, not bounds. `LateSeal` lets
a start-up or a storage recovery span midnight: then `_seal_completed_days` seals
a day whose session is open. It is on in `transfer_chunk` (the chunk properties
hold all the same) and in `Transfer_v_lateseal.cfg`, off where completeness of the
inventory is at stake: `SealedInventoryComplete`, `PublishedDayWhole`, the
`SealedDayDrained` of `collector_safe`, and the theorems about them hold for a
collector that seals behind the barrier only. `StopInBarrier` lets SIGTERM come
while a rotation is under way; it is on in `collector_safe` and
`Collector_v_stop.cfg`, off in `collector_live`.

Two runs leave out what another configuration shows to break their property:
`SpoolDrains` in `transfer_chunk` is about a parquet chunk, not about a rolled-over
artifact (`Transfer_v_reroll.cfg`); `StopEnds` in `collector_live` is about a stop
outside a rotation (`Collector_v_stop.cfg`).

In `Transfer` every roll-over holds the operation lock. In the code `close()` of a
route's gap rolls it over without the lock when it was opened the day before
(`edge/gaps.py:109-112`). The artifacts of such a gap are published for the first
time then, so no ACK names them; how it meets the midnight's roll-over and a seal
is in `GapJournal`, which has both tasks. In `L2Day` a day whose checkpoint its
contract refuses never ends: the code raises `ValidationError`
(`central/l2.py:52-53`), that day's run writes nothing and no later day can begin.
`MidnightKeepsAuthority` is therefore about days whose checkpoint is written;
`CheckpointWritable` says that all are, and `L2Day_v_checkpoint.cfg` shows that it
is false.

### Fairness

`Transfer`: weak fairness of the edge's steps (a writer finishes what it began,
the storage loop comes back, the supervisor restarts the collector) and of
central's (a timer starts runs); weak fairness that days end; strong fairness of a
seal, because a seal competes with ACK passes for the lock, which asyncio grants
in order. `EdgeService` and `Collector`: weak fairness of each task between two
awaits, which the event loop gives, and of answers from the network in
`EdgeService`. Nothing obliges anyone to crash, stop, fail, fill the disk or send
an event. `AnsweredSpec` adds that the network answers each request; it is the
most favourable assumption, under which `SpaceBackClosesGap` still fails.
`Route`: weak fairness of time, of answers of the server (or of the timeout), of the
liveness loop and of an update that has its answer; strong fairness of `run`,
which waits for a waiter to be scheduled first, and of the turn of refresh and rotation at the
update lock, which asyncio grants in order. No audit, rotation or update is owed.
`GapJournal`, `Universe` and `L2Day` state no liveness: what they promise is about
files and books that somebody reads later.

## Theorems

`TransferProofs`. For any sets of chunks and days and any number of crashes and damaged files:

* `TypeCorrect`.
* `PassCorrect`: the bookkeeping of an ACK pass. Outside a pass a running
  collector has no transaction, and a pass forgets none.
* `VersionCorrect` (uses `PassCorrect`): every copy of a manifest at the edge is of
  the last version written, because roll-overs and passes exclude each other and
  a boot replays transactions before it repeats a roll-over. `NoConflict` follows.
* `CustodyCorrect` (uses the two): the inductive invariant behind
  `ChunksAreNeverLost`, `AcksAreDurable`, `CollectionIsAccounted` and
  `ManifestsHaveData`. None of these four is inductive alone: that a collected
  chunk is durable needs that transactions vouch for it, which needs the same of
  ACKs in the inbox, on the way and staged, and of what a running pass remembers.
* `SealsAreFrozen`, an action property, from the lemma that only a seal writes an
  inventory.
* `DaysCorrect`: only ended days are sealed, and central publishes only sealed
  days that it holds completely.
* `SealsAreComplete` and `PublishedDaysAreWhole`, assuming `~LateSeal`: with the
  writer barrier before each seal, an inventory lists exactly what was published.
  The assumption is necessary, as `Transfer_v_lateseal.cfg` shows.
* `ImplementsCustody`: `Transfer` implements `ChunkCustody`.

`EdgeServiceProofs`, for every interleaving of the tasks:

* `OutageIsCovered`. `OutageCovered` is not inductive: it says nothing of a process
  that is complete now and may be incomplete next. `Inv` adds that a process
  which has not been ready yet, or is stopping, has inherited or opened a gap
  (`Inherited`), that the id of the storage gap in memory and its file agree
  (`GapKnown`), and that in the running process incomplete sources are the storage
  loop's business, which then has its gap open (`Incomplete`).
* `MidnightKeepsSources`, from `LockHeld`: a loop beyond its `lock` step is the
  head of the lock's queue, so storage and midnight loop exclude each other.
* `TypeCorrect` says two things the others do not: the lock's queue has each task
  once (`Queued`; a task that is cancelled leaves it), and the gaps that the
  storage loop is still to close are open (`StaleOpen`).

`CollectorProofs`, for any writer groups, any limits of queue, batch and chunk, and
any number of events, crashes and failing writers. All of them rest on
`Inv`. Its first half is the structure of a process (`Structure`):
which phases of process, writers and rotation go together, that the boundary lock has
at most one rotation waiting and that the rotation holding it is its head
(`Barriers`), and that a queue which has not answered a rotation ends with its item
while one that has answered is empty, session included (`Rotates`). Its second half
is order (`Ordered`): events stand at the lock, in a queue and in a session in the
order of their receive times, behind the watermark and behind the start. The lemmas
about `Flow` say, once for all actions, where events may come from and go to in a step.

* `TypeCorrect`, with the limit of the queue, and `BudgetKept`: the bytes in use are
  the number of accepted events in a queue or an unflushed batch. Both from `Budget`:
  that the counter is exact needs that queue and batch of a group share no event,
  which is what `Ordered` says.
* `SealedDayIsDrained`. The invariant `Boundary` follows a midnight: behind the
  first rotation of the boundary the lock holds only events of the second day, and
  once that rotation is over no queue and no session has anything of the first.
* `NothingSilentlyLost`. `LeaseInv`: while a process runs, the time in the lease is
  older than whatever a critical group holds or lets wait, so the recovery gap of the
  next boot begins early enough. `SafeInv`: an accepted event is recorded, held,
  inside a gap, or behind that time.
* `CleanLeaseIsDurable`, from `SafeInv` too. It speaks of all groups for the events of
  the process that left the lease, and of critical groups for those of all
  processes: the watermark looks at depth and trades only (`edge/writer.py:226-227`), so
  a crash may lose events of another group that no gap names.

The last three assume `~LateSeal`. A start-up that spans midnight seals a day whose
session is open, so `SealedDayDrained` is false without the assumption, and
the seal also moves the floor of the lease behind those events.

`RouteProofs`, for any keys, any instruments, any timeout and any number of faults:

* `TypeCorrect`.
* `NothingSilentlyLost` and `SubscriptionsKept`. A missed event that no gap covers
  belongs to a key of the route that its connection does not deliver and that no open
  gap names. `Inv` says that it is never older than the last event received nor than
  the last proof of the subscriptions, so a gap that begins at either covers it
  (`Explained`), and that what a connection is subscribed to is what the route has or is
  about to have (`Subscribed`), at each await of an update, a refresh, a rotation and a
  reconnect. While a connection waits for its acknowledgement a gap is open
  (`Connections`, `Waits`); a key that this gap does not name counts as explained by
  that connection only from its first event on (`Told`, `ProvenBy`). Neither theorem has a hypothesis. What the code does forget is an exception inside the
  model, `Forgotten`, not a behaviour that is left out: streams stop and connections
  fail in every phase.

`GapJournalProofs`, for any gaps, any even length of a day, any grace time and bound:

* `TypeCorrect`.
* `SealedDaysTellLoss`. A gap has its OPEN in each day it has been rolled into. State
  file, close and roll in progress know how far this chain reaches (`Chained`,
  `Rolling`). The midnight loop lists the gaps that have a state file; an open gap
  without one is younger than the day to be sealed (`Listed`; here `Reach + 2 <=
  DayLen` is used). So the chain of an open gap reaches each sealed day (`Told`). The
  one exception is a storage gap that a crash has left open: its chain may end too early,
  and then the COLLECTOR_STOPPED of the next boot begins where it ends and stays open
  until the storage gap has ended (`Heir`, and `Booting` for the order at a boot).
* `SealedDaysTellNoMore`. `Artifacts` says which CLOSED may be in a day at all;
  `Clear` that an uninterrupted gap which has ended has its CLOSED at its end and
  no OPEN in a later day.

`UniverseProofs`, for any exchange, evidence, policy and number of overrides, days and
crashes:

* `SelectionRespects`, about `Selector` alone. The loops of `select_rolling_universe`
  and `_reconcile_bucket` are folds over rankings of any length. A ranking has no symbol
  twice, and neither has any pool taken from it. What one turn of a loop keeps all
  turns keep (`FoldsTurns`): the weekly loop keeps the size of the core and removes no
  more members than it counts, and only such as may go (`WeeklyLoop`); the daily loop
  does the same for a role (`DailyLoop`). There are enough preferred symbols to fill
  both roles, so the two checks at the end of `_reconcile_bucket` never raise.
* `DecisionsAreNumbered`, from `Inv`: the store in memory is the active file,
  and a pending decision either follows the active one exactly or carries no
  higher number.
* `TypeCorrect`, `LimitsAreKept` and `StaysAreRespected`, from `Full`, which adds two
  things. `Times`: until a crash tears them apart, the times of joining in memory and in
  `membership-state.json` are those of the published memberships, no member of the core
  joined the core before it joined the collection, and a waiting discovery is not older
  than the day before. `Planning`: a pending decision that may still be applied keeps
  limits and stays measured at the active decision, for which it was planned. An
  override published in between takes its number, so `apply_due` passes over it: this is
  why one cannot add its changes to those of the other.
  `LimitsAreKept` assumes `DailyLimit >= 2`, the default. The configuration also
  allows 1 (`edge/config.py:50`), where the property is false
  (`Universe_v_limit.cfg`). `StaysAreRespected` assumes `Dwell <= CoreDwell`. The defaults
  are 48 hours and 14 days (`edge/config.py:48-49`); the configuration does not relate the
  two, and a member of the core is asked for `CoreDwell` only (`Universe_v_dwell.cfg`).

`L2DayProofs`, for any number of connections, updates, losses, repetitions,
silences and days, and any levels that updates change:

* `ValidMeansReanchored` and `MidnightKeeps`, an action property. The invariant
  `Good`: a book is worth something (valid, or waiting for the bridge to its
  snapshot) only if a snapshot has been received on its connection since the latest
  OPEN, and the authority is a valid book outside every gap. Lemmas about `L2Book`
  (`BridgeAnswer`, `DiffAnswer`, `SnapshotAnswer`) say what a row may do to a book,
  whatever its data.
* `TypeCorrect`, `BooksAreTheExchanges` and `ValidHasAllReceived`, from `Exact`, which
  adds to `Inv` that the events of the exchange follow one another, that a connection
  delivers them in order, and that a book has heard of nothing newer. The lemma that
  carries it is `ApplyExact`: a snapshot and a chain of events that spans it give the
  book after the last event, since every update in between is in one of them and the
  last event that changes a level carries its newest quantity.

The proofs use the assumptions on constants that the modules state and the
hypotheses named above, and no others. Where a proof needs the least or the greatest
of a set of numbers it gets it from the well-foundedness of strict inclusion of finite
sets (`LeastNumber`, `GreatestNumber`), because the library's induction theorems take
an operator as a parameter, which the installed provers cannot instantiate. What a fold
keeps is proved in the same way, from the least turn that would break it, with the turn
given as a function.

Only model-checked is liveness, because fairness and ENABLED are beyond the prover:
`SpoolDrains`, `SealedDaysArrive`, `StopFinishes`, `RestartClosesStorageGap`, `RotationEnds`,
`PausedEnds`, `StopEnds`, `OutageEnds`, `StreamRecovers`. Every other property of a passing run
is a theorem.

## What the checks found

* **Storage recovery waits for itself** (`service_v_recovery`, `edge/service.py:204`).
  `_storage_loop` awaits readiness with the operation lock held; readiness needs
  a discovery, whose callback takes the lock. The wait times out, then
  `sources.stop()` joins the discovery that waits for the lock. Only SIGTERM ends it.
* **A repeated roll-over blocks its artifact** (`Transfer_v_reroll.cfg`,
  `edge/gaps.py:208`): same artifact id, new `created_at`, so central refuses the
  manifest in every run.
* **A seal without the writer barrier** (`Transfer_v_lateseal.cfg`,
  `edge/service.py:455`): a start-up that spans midnight seals a day with an open
  session; the chunk is in no inventory, and its writer then fails.
* **Stop during a rotation** (`Collector_v_stop.cfg`, `edge/writer.py:349`):
  cancelling the midnight loop cancels the completions, the writer that answers
  dies with `InvalidStateError`, and a producer that waits for queue bytes keeps
  `sources.stop()` waiting.
* **A rotation forgets** (`Route_v_rotation.cfg`, `edge/sources.py:582-602`,
  `edge/sources.py:439`): a rotation begins on its timer, whatever the streams of the
  connection in use do, and its replacement subscribes everything again. If a
  stream has stopped since the last audit, or the connection fails while the
  replacement starts, the replacement's first event refreshes `_last_event`
  (`edge/sources.py:298-302`), `_stop_handle` swallows how the old connection
  ended, and what was missed in between is in no gap. `NoSilentLoss` bounds it: it
  is younger than the last proof of the retired connection.
* **A refresh that is cancelled** (`Route_v_monitor.cfg`, `edge/binance.py:484`): a
  connection that fails hands `CancelledError` to the liveness loop, which does
  not catch it; the source group ends and the collector stops.
* **A shortage that raises** (`universe_v_shortage`, `central/selector.py:296`):
  when there are too few stable symbols to replace core members that stopped
  trading, the selection raises instead of keeping the collection
  (`docs/implementation-plan.md:53-54`); the discovery loop does not catch it, the
  collector ends, and each boot repeats it.
* **One replacement a day means two** (`Universe_v_limit.cfg`, `central/selector.py:390`):
  with `candidate_daily_replacements` = 1 the selection still exchanges one probe and
  `max(1, 1 - 1)` boundary members in one decision. The default, 2, is kept exactly.
* **A storage gap that cannot be closed** (`gaps_v_storage`, `edge/gaps.py:170`):
  the boot seals the days the process was down while the stale storage gap,
  which only the storage loop closes, is still in an older one; its roll-over
  must then write OPEN into a sealed day, which raises, in every process.
* **Two snapshots on one connection** (`L2Day_v_checkpoint.cfg`,
  `edge/binance.py:490`): a targeted refresh overlaps the initial or the
  re-anchoring snapshot, central bridges the first and is given the second, the
  book is valid and unbridged at once; the next diff gaps it although the
  collector sees no discontinuity, and a checkpoint of it is refused
  (`central/l2.py:53`).
* **A break in the buffer** (`L2Day_v_buffer.cfg`, `central/l2.py:223`): when the
  buffered diffs break behind the bridge, `_try_bridge` keeps the diff at the break
  and throws away those received after it. With a second snapshot under way the
  book is valid again, and the authority, without diffs that its connection has
  delivered (`docs/binance-reconnect-recovery-research-2026-08-12.md:63-69`).
  `ValidIsCurrent` leaves such connections (`cut`) out.
* **The end of a gap as recovery** (`L2Day_v_recovery.cfg`, `central/l2.py:349`): a
  CLOSED makes the book bridged last the authority even when its connection is
  gone; `edge/sources.py:642` says that L2 stays invalid until the next bridge.

Seen while modelling and stated by no run: LOCAL_DURABLE is never logged for a
chunk whose run died between ingest and ledger; the event of a quarantined ACK is
lost when the pass dies before its end; an ACK pushed twice is quarantined as
unknown; `rotate_all` awaits a dead writer for ever, and before `run()` has its
background tasks nobody looks at the writers. In a route: an update acknowledged before
the route is up again adds symbols its open gap does not name, and what they miss
before their first event is in no gap (the other kind of `Forgotten`); a refresh that times out
during a reconnect makes the new connection be given up at once; a symbol that
stops trading keeps the gap of its whole route open; the keys of a refresh may
leave the route before it gets the lock, and the `KeyError` ends the source group.
In the gap journal: a loss noticed after its day was sealed makes `open()` raise
and ends the collector (`OpenRefused`); `close()` and `rollover()` of one gap may
leave a state file nobody owns or end the midnight loop with `FileNotFoundError`;
a gap closed at the very instant of its OPEN is told to the end of the day.
In the universe store: a crash between `_write_active` and `_write_state` leaves a
removed member its old membership time (the `torn` exception of `DwellRespected`);
a crash between the two files of the first bootstrap makes every boot fail; an
override that lost, or whose unlink was lost, is applied at a later midnight; a
discovery that waits past midnight plans a decision whose effective day has begun.
In the books: a snapshot whose id is the last update of a quiet symbol never
bridges; a second discontinuity while a snapshot is on its way is ignored; a
sequence gap of one connection makes the books of all invalid; a connection lost
during its re-anchoring leaves its L2_SEQUENCE gap open until the next boot.

## Not modelled, and the plan

What could follow, in this order:

1. The REST pollers of the source group and the gaps they open.
2. A clock in `EdgeService`, to compose the midnight loop with `GapJournal` and
   `Universe` in one module.
3. Theorems about that composition: that the order of boundary lock, roll-over and
   seal that `Collector` and `GapJournal` each take as given is the order in which
   `EdgeService` calls them.
4. Validity intervals with their times, and the start of a day without checkpoint.
5. Retention against the checkpoint chain of the books.

Left out on purpose: row conversion (`central/normalize.py`) and parquet schemas (no state to interleave),
command lines and configuration, logging and statistics, metrics, rsync and ssh
themselves (a transfer is atomic per file, as the temporary names of rsync make
it), real time (a timeout may fire at any moment).
