------------------------------ MODULE Transfer ------------------------------
(***************************************************************************)
(* The edge and central exchanging chunks for ACKs over rsync, with both   *)
(* processes crashing at any step and ACK files damaged in place.          *)
(*                                                                         *)
(* EdgeService runs apply_acks, seals and roll-overs under one operation   *)
(* lock (service.py:182, 265), so those exclude each other; the writers    *)
(* and the central run interleave with everything.                         *)
(***************************************************************************)
EXTENDS CentralPull

CONSTANTS
  MaxEdgeCrashes,     \* bounds of the failures one behaviour contains
  MaxCentralCrashes,
  MaxDamage

ASSUME BoundAssumption ==
  MaxEdgeCrashes \in Nat /\ MaxCentralCrashes \in Nat /\ MaxDamage \in Nat

VARIABLES edgeCrashes, centralCrashes, damage

countVars == <<edgeCrashes, centralCrashes, damage>>
vars == <<storeVars, spoolVars, centralVars, countVars>>

TypeOK ==
  /\ StoreTypeOK
  /\ SpoolTypeOK
  /\ CentralTypeOK
  /\ edgeCrashes \in Nat
  /\ centralCrashes \in Nat
  /\ damage \in Nat

Init ==
  /\ StoreInit
  /\ SpoolInit
  /\ CentralInit
  /\ edgeCrashes = 0
  /\ centralCrashes = 0
  /\ damage = 0

-----------------------------------------------------------------------------
\* The edge

\* Steps of the writers and of the day index once they have their lock.
StoreStep ==
  /\ \/ \E c \in Chunk : \/ OpenSession(c) \/ RenameIntoReady(c)
                         \/ WriteManifest(c) \/ Record(c) \/ SaveGapState(c)
     \/ \E d \in Day : EndDay(d)
     \/ CleanSealedDay
     \/ StartEdge
  /\ UNCHANGED <<spoolVars, centralVars, countVars>>

\* Steps that take the operation lock: none while an ACK pass holds it. The close()
\* of a route's gap that must first be rolled over (gaps.py:109-112) has no lock; here
\* every roll-over has it. A gap that a route closes is of this process, so that its
\* artifacts are published for the first time and no ACK names them yet; how such a
\* roll-over meets another one or a seal is in GapJournal.
LockedStoreStep ==
  /\ applyPhase = "idle"
  /\ \/ \E c \in Chunk : WriteRollArtifact(c)
     \/ \E d \in Day : Seal(d) \/ ResumeSeal(d)
  /\ UNCHANGED <<spoolVars, centralVars, countVars>>

\* run() recovers gaps after the initial apply_acks, which leaves no transaction.
Recovery ==
  /\ applyPhase = "idle"
  /\ Open = {}
  /\ RecoverGaps
  /\ UNCHANGED <<spoolVars, centralVars, countVars>>

\* apply_acks, begun while neither a seal nor a roll-over holds the lock.
ApplyStart ==
  /\ sealing = NoDay
  /\ ~RollInProgress
  /\ BeginApply
  /\ UNCHANGED <<centralVars, countVars>>

ApplyStep ==
  /\ \/ \E c \in Chunk : \/ RejectInvalid(c) \/ RejectUnknown(c)
                         \/ WriteTransaction(c) \/ UnlinkAck(c)
                         \/ CollectManifest(c) \/ CollectData(c)
     \/ AppendLedger
     \/ RemoveTransactions
  /\ UNCHANGED <<centralVars, countVars>>

\* DayIndex.record raises for a chunk of a sealed day: the writer task fails and
\* takes the collector down without a clean lease.
RecordRefused(c) ==
  /\ edge = "run"
  /\ pub[c] = "manifest"
  /\ DayOf[c] \in sealed
  /\ sealing = NoDay
  /\ StopStore
  /\ StopApply
  /\ UNCHANGED <<spoolDisk, centralVars, countVars>>

EdgeCrash ==
  /\ edge # "down"
  /\ edgeCrashes < MaxEdgeCrashes
  /\ edgeCrashes' = edgeCrashes + 1
  /\ StopStore
  /\ StopApply
  /\ UNCHANGED <<spoolDisk, centralVars, centralCrashes, damage>>

-----------------------------------------------------------------------------
\* Central

CentralStep ==
  /\ \/ ListData
     \/ ListManifests
     \/ \E c \in Chunk : \/ IngestData(c) \/ IngestManifest(c) \/ StageAck(c)
                         \/ IngestFails(c) \/ PushAck(c)
     \/ \E d \in Day : PublishDay(d) \/ SkipDay(d)
     \/ LogLocalDurable
     \/ ValidateStaged
     \/ LogPushed
     \/ UnlinkStaged
  /\ UNCHANGED countVars

CentralCrash ==
  /\ runPhase # "idle"
  /\ centralCrashes < MaxCentralCrashes
  /\ centralCrashes' = centralCrashes + 1
  /\ StopRun
  /\ UNCHANGED <<centralDisk, storeVars, spoolVars, edgeCrashes, damage>>

-----------------------------------------------------------------------------
\* An ACK file at rest becomes unreadable or wrong, on either side.

DamageAck(c) ==
  /\ applyPhase = "idle"
  /\ acks[c] = "ok"
  /\ damage < MaxDamage
  /\ damage' = damage + 1
  /\ acks' = [acks EXCEPT ![c] = "bad"]
  /\ UNCHANGED <<txn, rejected, gcLogged, rejectLogged, applyVars, storeVars,
                 centralVars, edgeCrashes, centralCrashes>>

DamageStaged(c) ==
  /\ runPhase = "idle"
  /\ staged[c] = "ok"
  /\ damage < MaxDamage
  /\ damage' = damage + 1
  /\ staged' = [staged EXCEPT ![c] = "bad"]
  /\ UNCHANGED <<raw, rawManifest, stageRejected, dayPublished, localDurable,
                 ackPushed, runVars, storeVars, spoolVars, edgeCrashes,
                 centralCrashes>>

-----------------------------------------------------------------------------
Next ==
  \/ StoreStep
  \/ LockedStoreStep
  \/ Recovery
  \/ ApplyStart
  \/ ApplyStep
  \/ \E c \in Chunk : RecordRefused(c)
  \/ EdgeCrash
  \/ CentralStep
  \/ CentralCrash
  \/ \E c \in Chunk : DamageAck(c) \/ DamageStaged(c)

Spec == Init /\ [][Next]_vars

\* The writers finish what they began, the collector is restarted by systemd,
\* the storage loop comes back to apply_acks, the timer starts central runs.
Fairness ==
  /\ WF_vars(StoreStep)
  /\ WF_vars(Recovery)
  /\ WF_vars(ApplyStart)
  /\ WF_vars(ApplyStep)
  /\ WF_vars(CentralStep)
  /\ \A d \in Day : WF_vars(StoreStep /\ EndDay(d))
  /\ \A d \in Day : SF_vars(LockedStoreStep /\ Seal(d))

LiveSpec == Spec /\ Fairness

-----------------------------------------------------------------------------
\* Properties

\* A published chunk is never gone: whatever crashes, its data is in ready/ or
\* durable at central (spool.py deletes only what an ACK transaction names).
NoLoss == Published \subseteq readyData \cup raw

\* An ACK anywhere on its way, and a transaction made from it, vouches for data
\* and manifest that central has already made durable (pull.py:307-323).
AckMeansDurable ==
  \A c \in Chunk :
    (staged[c] = "ok" \/ acks[c] = "ok" \/ txn[c] # 0)
      => c \in raw /\ rawManifest[c] # 0

\* What was deleted stays accounted for: a transaction that will be replayed, or
\* a durable REMOTE_GC event (spool.py:307-336).
CollectionAccountedFor ==
  \A c \in Published \ readyData : txn[c] # 0 \/ c \in gcLogged

\* A manifest in ready/ always has its data beside it, or the central ingest of
\* it could only fail (publication writes the manifest last, collection removes
\* it first, roll-overs and ACK passes exclude each other).
ManifestHasData == {c \in Chunk : readyManifest[c] # 0} \subseteq readyData

\* A transaction left by a crash agrees with the manifest the next pass finds, so
\* the conflict branch of apply_acks (spool.py:170-187) is never taken: start-up
\* replays transactions before any roll-over can write the manifest again.
NoTransactionConflict == \A c \in ackTodo : known[c] # 0 => txn[c] \in {0, known[c]}

\* The frozen inventory of a day is exactly what was published for it: nothing a
\* crash left without a journal line, nothing already ACKed is missing, and
\* nothing was added later (day_index.py:80-133, service.py:291).
SealedInventoryComplete ==
  \A d \in sealed : inventory[d] = Published \cap ChunksOf(d)

\* When readers see a day at central, all that the edge published for it is there
\* (pull.py:326-347).
PublishedDayWhole ==
  \A d \in dayPublished : Published \cap ChunksOf(d) \subseteq raw

\* A sealed day stays sealed with the same content; central would refuse another
\* (day_index.py:82-84, pull.py:336-338).
InventoryFrozen ==
  [][\A d \in sealed : d \in sealed' /\ inventory'[d] = inventory[d]]_vars

\* Every published chunk finally leaves the spool of the edge.
SpoolDrains == \A c \in Chunk : c \in Published ~> c \notin readyData

\* Every sealed day is finally published by central.
SealedDaysArrive == \A d \in Day : d \in sealed ~> d \in dayPublished

\* The files implement the promise of ChunkCustody.
Custody == INSTANCE ChunkCustody WITH
  offered  <- Published,
  held     <- readyData \cap Published,
  durable  <- raw,
  frozen   <- sealed,
  lists    <- inventory,
  released <- dayPublished

CustodySpec == Custody!Spec
=============================================================================
