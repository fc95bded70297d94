--------------------------- MODULE TransferProofs ---------------------------
(***************************************************************************)
(* Proofs about Transfer, for any set of chunks and days and any number of *)
(* crashes and damaged files.                                              *)
(***************************************************************************)
EXTENDS Transfer, TLAPS

-----------------------------------------------------------------------------
\* Every variable keeps its type: the files, the progress of each publication,
\* the phases of the ACK pass and of the central run.
THEOREM TypeCorrect == Spec => []TypeOK
<1>1. Init => TypeOK
  BY StoreAssumption
  DEF Init, TypeOK, StoreInit, SpoolInit, ApplyInit, CentralInit, RunInit,
      StoreTypeOK, SpoolTypeOK, CentralTypeOK, PubState, AckState, RunPhase
<1>2. TypeOK /\ [Next]_vars => TypeOK'
  <2> SUFFICES ASSUME TypeOK, [Next]_vars PROVE TypeOK'
    OBVIOUS
  <2> USE StoreAssumption, BoundAssumption
      DEF TypeOK, StoreTypeOK, SpoolTypeOK, CentralTypeOK, storeVars, spoolVars,
          spoolDisk, applyVars, centralVars, centralDisk, runVars, edgeVars,
          countVars
  <2>1. CASE StoreStep
    <3>1. CASE \E c \in Chunk : OpenSession(c)
      BY <2>1, <3>1 DEF StoreStep, OpenSession, PubState
    <3>2. CASE \E c \in Chunk : RenameIntoReady(c)
      BY <2>1, <3>2 DEF StoreStep, RenameIntoReady, PubState
    <3>3. CASE \E c \in Chunk : WriteManifest(c) \/ Record(c) \/ SaveGapState(c)
      BY <2>1, <3>3 DEF StoreStep, WriteManifest, Record, SaveGapState, PubState
    <3>4. CASE (\E d \in Day : EndDay(d)) \/ CleanSealedDay \/ StartEdge
      BY <2>1, <3>4 DEF StoreStep, EndDay, CleanSealedDay, StartEdge, PubState
    <3> QED BY <2>1, <3>1, <3>2, <3>3, <3>4 DEF StoreStep
  <2>2. CASE LockedStoreStep
    BY <2>2 DEF LockedStoreStep, WriteRollArtifact, Seal, ResumeSeal, ReadRefs,
                ChunksOf, PubState, NotSealed
  <2>3. CASE Recovery \/ ApplyStart
    BY <2>3 DEF Recovery, RecoverGaps, ApplyStart, BeginApply, Acked, Open,
                Published
  <2>4. CASE ApplyStep
    <3>1. CASE \E c \in Chunk : RejectInvalid(c) \/ RejectUnknown(c)
      BY <2>4, <3>1 DEF ApplyStep, RejectInvalid, RejectUnknown, Quarantine,
                        AckState, Rejection, RejectedName
    <3>2. CASE \E c \in Chunk : WriteTransaction(c) \/ UnlinkAck(c)
      BY <2>4, <3>2 DEF ApplyStep, WriteTransaction, UnlinkAck, AckState
    <3>3. CASE \E c \in Chunk : CollectManifest(c) \/ CollectData(c)
      BY <2>4, <3>3 DEF ApplyStep, CollectManifest, CollectData, OrphanData
    <3>4. CASE AppendLedger \/ RemoveTransactions
      BY <2>4, <3>4 DEF ApplyStep, AppendLedger, RemoveTransactions, GcEvents,
                        AppliedTransactions
    <3> QED BY <2>4, <3>1, <3>2, <3>3, <3>4 DEF ApplyStep
  <2>5. CASE EdgeCrash \/ \E c \in Chunk : RecordRefused(c)
    <3>1. StopStore => pub' \in [Chunk -> PubState]
      BY DEF StopStore, AfterCrash, PubState
    <3> QED BY <2>5, <3>1 DEF EdgeCrash, RecordRefused, StopStore, StopApply
  <2>6. CASE CentralStep
    <3>1. CASE ListData \/ ListManifests
      BY <2>6, <3>1 DEF CentralStep, ListData, ListManifests, RunPhase
    <3>2. CASE \E c \in Chunk : IngestData(c) \/ IngestManifest(c)
      BY <2>6, <3>2 DEF CentralStep, IngestData, IngestManifest
    <3>3. CASE \E c \in Chunk : StageAck(c) \/ IngestFails(c) \/ PushAck(c)
      BY <2>6, <3>3 DEF CentralStep, StageAck, IngestFails, PushAck, AckState,
                        Ingested
    <3>4. CASE \E d \in Day : PublishDay(d) \/ SkipDay(d)
      BY <2>6, <3>4 DEF CentralStep, PublishDay, SkipDay, Complete
    <3>5. CASE LogLocalDurable \/ ValidateStaged
      BY <2>6, <3>5 DEF CentralStep, LogLocalDurable, ValidateStaged, Staged,
                        AckState, RunPhase
    <3>6. CASE LogPushed \/ UnlinkStaged
      BY <2>6, <3>6 DEF CentralStep, LogPushed, UnlinkStaged, Staged, AckState,
                        RunPhase
    <3> QED BY <2>6, <3>1, <3>2, <3>3, <3>4, <3>5, <3>6 DEF CentralStep
  <2>7. CASE CentralCrash
    BY <2>7 DEF CentralCrash, StopRun, RunPhase
  <2>8. CASE \E c \in Chunk : DamageAck(c) \/ DamageStaged(c)
    BY <2>8 DEF DamageAck, DamageStaged, AckState
  <2>9. CASE UNCHANGED vars
    BY <2>9 DEF vars
  <2> QED
    BY <2>1, <2>2, <2>3, <2>4, <2>5, <2>6, <2>7, <2>8, <2>9 DEF Next
<1> QED BY <1>1, <1>2, PTL DEF Spec

-----------------------------------------------------------------------------
\* The bookkeeping of one ACK pass

\* What apply_acks knows between two of its file operations: a transaction it
\* will not finish is one it has not met yet, and outside a pass of a running
\* collector there is no transaction at all.
PassInv ==
  /\ applyPhase # "apply" => ackTodo = {} /\ txnTodo = {}
  /\ applyPhase = "idle" => completed = {} /\ \A c \in Chunk : known[c] = 0
  /\ txnTodo \cup completed \subseteq Open
  /\ applyPhase = "unlink" => Open \subseteq completed /\ completed \subseteq gcLogged
  /\ applyPhase = "apply" =>
       \A c \in Open : \/ c \in txnTodo \cup completed
                       \/ c \in ackTodo /\ acks[c] = "ok" /\ known[c] # 0
  /\ edge = "run" /\ applyPhase = "idle" => Open = {}
  /\ edge = "down" => applyPhase = "idle"
  /\ pushTodo \subseteq Staged
  /\ runPhase # "push" => pushTodo = {}

\* PassInv is an invariant: the pass as the code orders it (spool.py:90-345).
THEOREM PassCorrect == Spec => []PassInv
<1>1. Init => PassInv
  BY DEF Init, StoreInit, SpoolInit, ApplyInit, CentralInit, RunInit, PassInv,
         Open, Staged
<1>2. TypeOK /\ PassInv /\ [Next]_vars => PassInv'
  <2> SUFFICES ASSUME TypeOK, PassInv, [Next]_vars PROVE PassInv'
    OBVIOUS
  <2> USE DEF TypeOK, StoreTypeOK, SpoolTypeOK, CentralTypeOK, PassInv, Open,
              Staged, storeVars, spoolVars, spoolDisk, applyVars, centralVars,
              centralDisk, runVars, edgeVars
  <2>1. CASE StoreStep
    BY <2>1 DEF StoreStep, OpenSession, RenameIntoReady, WriteManifest, Record,
                SaveGapState, EndDay, CleanSealedDay, StartEdge
  <2>2. CASE LockedStoreStep \/ Recovery
    BY <2>2 DEF LockedStoreStep, WriteRollArtifact, Seal, ResumeSeal, Recovery,
                RecoverGaps, NotSealed
  <2>3. CASE ApplyStart
    BY <2>3 DEF ApplyStart, BeginApply
  <2>4. CASE ApplyStep
    <3>1. CASE \E c \in Chunk : RejectInvalid(c) \/ RejectUnknown(c)
      BY <2>4, <3>1 DEF ApplyStep, RejectInvalid, RejectUnknown, Quarantine,
                        RejectedName
    <3>2. CASE \E c \in Chunk : WriteTransaction(c) \/ UnlinkAck(c)
      BY <2>4, <3>2 DEF ApplyStep, WriteTransaction, UnlinkAck
    <3>3. CASE \E c \in Chunk : CollectManifest(c) \/ CollectData(c)
      BY <2>4, <3>3 DEF ApplyStep, CollectManifest, CollectData, OrphanData
    <3>4. CASE AppendLedger \/ RemoveTransactions
      BY <2>4, <3>4 DEF ApplyStep, AppendLedger, RemoveTransactions, GcEvents,
                        AppliedTransactions
    <3> QED BY <2>4, <3>1, <3>2, <3>3, <3>4 DEF ApplyStep
  <2>5. CASE EdgeCrash \/ \E c \in Chunk : RecordRefused(c)
    BY <2>5 DEF EdgeCrash, RecordRefused, StopStore, StopApply
  <2>6. CASE CentralStep
    <3>1. CASE ListData \/ ListManifests \/ LogLocalDurable \/ LogPushed
      BY <2>6, <3>1 DEF ListData, ListManifests, LogLocalDurable, LogPushed
    <3>2. CASE \E c \in Chunk : \/ IngestData(c) \/ IngestManifest(c)
                                \/ IngestFails(c)
      BY <2>6, <3>2 DEF IngestData, IngestManifest, IngestFails
    <3>3. CASE \E c \in Chunk : StageAck(c) \/ PushAck(c)
      BY <2>6, <3>3 DEF StageAck, PushAck, Ingested
    <3>4. CASE \E d \in Day : PublishDay(d) \/ SkipDay(d)
      BY <2>6, <3>4 DEF PublishDay, SkipDay, Complete
    <3>5. CASE ValidateStaged \/ UnlinkStaged
      BY <2>6, <3>5 DEF ValidateStaged, UnlinkStaged
    <3> QED BY <2>6, <3>1, <3>2, <3>3, <3>4, <3>5 DEF CentralStep
  <2>7. CASE CentralCrash
    BY <2>7 DEF CentralCrash, StopRun
  <2>8. CASE \E c \in Chunk : DamageAck(c) \/ DamageStaged(c)
    BY <2>8 DEF DamageAck, DamageStaged
  <2>9. CASE UNCHANGED vars
    BY <2>9 DEF vars
  <2> QED
    BY <2>1, <2>2, <2>3, <2>4, <2>5, <2>6, <2>7, <2>8, <2>9 DEF Next
<1> QED BY <1>1, <1>2, TypeCorrect, PTL DEF Spec

-----------------------------------------------------------------------------
\* Versions of a manifest

\* Every copy of a manifest that can still be compared with the one in ready/ is
\* of the last version written: nothing is written again under an open
\* transaction or during a pass. Copies at central may be older.
VersionInv ==
  /\ \A c \in Chunk :
       /\ readyManifest[c] \in {0, lastVersion[c]}
       /\ txn[c] \in {0, lastVersion[c]}
       /\ known[c] \in {0, lastVersion[c]}
       /\ rawManifest[c] <= lastVersion[c]
       /\ mirrorManifest[c] <= lastVersion[c]
       /\ c \notin RollChunk /\ pub[c] \in {"none", "open", "data"}
            => lastVersion[c] = 0
       /\ pub[c] = "manifest" => lastVersion[c] > 0
       /\ c \in RollChunk => pub[c] \notin {"open", "lost"}
  /\ \A c \in todo : mirrorManifest[c] # 0
  /\ runPhase # "ingest" => todo = {}
  /\ applyPhase # "idle" => ~RollInProgress

\* VersionInv is an invariant.
THEOREM VersionCorrect == Spec => []VersionInv
<1>1. Init => VersionInv
  BY DEF Init, StoreInit, SpoolInit, ApplyInit, CentralInit, RunInit,
         VersionInv, RollInProgress
<1>2. TypeOK /\ PassInv /\ VersionInv /\ [Next]_vars => VersionInv'
  <2> SUFFICES ASSUME TypeOK, PassInv, VersionInv, [Next]_vars
               PROVE VersionInv'
    OBVIOUS
  <2> USE StoreAssumption
      DEF TypeOK, StoreTypeOK, SpoolTypeOK, CentralTypeOK, PassInv, VersionInv,
          Open, RollInProgress, storeVars, spoolVars, spoolDisk, applyVars,
          centralVars, centralDisk, runVars, edgeVars
  <2>1. CASE StoreStep
    <3>1. CASE \E c \in Chunk : OpenSession(c) \/ RenameIntoReady(c)
      BY <2>1, <3>1 DEF StoreStep, OpenSession, RenameIntoReady
    <3>2. ASSUME NEW c \in Chunk, WriteManifest(c) PROVE VersionInv'
      <4>1. txn[c] = 0 /\ known[c] = 0
        BY <3>2 DEF WriteManifest
      <4>2. /\ lastVersion' = [lastVersion EXCEPT ![c] = lastVersion[c] + 1]
            /\ readyManifest' = [readyManifest EXCEPT ![c] = lastVersion[c] + 1]
            /\ pub' = [pub EXCEPT ![c] = "manifest"]
            /\ UNCHANGED <<txn, known, rawManifest, mirrorManifest, todo,
                           runPhase, applyPhase>>
        BY <2>1, <3>2 DEF StoreStep, WriteManifest
      <4>3. applyPhase # "idle" => c \notin RollChunk
        BY <3>2 DEF WriteManifest
      <4> QED BY <4>1, <4>2, <4>3
    <3>3. CASE \E c \in Chunk : Record(c) \/ SaveGapState(c)
      BY <2>1, <3>3 DEF StoreStep, Record, SaveGapState
    <3>4. CASE (\E d \in Day : EndDay(d)) \/ CleanSealedDay \/ StartEdge
      BY <2>1, <3>4 DEF StoreStep, EndDay, CleanSealedDay, StartEdge
    <3> QED BY <2>1, <3>1, <3>2, <3>3, <3>4 DEF StoreStep
  <2>2. CASE LockedStoreStep \/ Recovery
    BY <2>2 DEF LockedStoreStep, WriteRollArtifact, Seal, ResumeSeal, Recovery,
                RecoverGaps, NotSealed
  <2>3. CASE ApplyStart
    BY <2>3 DEF ApplyStart, BeginApply
  <2>4. CASE ApplyStep
    <3>1. CASE \E c \in Chunk : RejectInvalid(c) \/ RejectUnknown(c)
      BY <2>4, <3>1 DEF ApplyStep, RejectInvalid, RejectUnknown, Quarantine,
                        RejectedName
    <3>2. CASE \E c \in Chunk : WriteTransaction(c) \/ UnlinkAck(c)
      BY <2>4, <3>2 DEF ApplyStep, WriteTransaction, UnlinkAck
    <3>3. CASE \E c \in Chunk : CollectManifest(c)
      BY <2>4, <3>3 DEF ApplyStep, CollectManifest
    <3>4. CASE \E c \in Chunk : CollectData(c)
      BY <2>4, <3>4 DEF ApplyStep, CollectData, OrphanData
    <3>5. CASE AppendLedger \/ RemoveTransactions
      BY <2>4, <3>5 DEF ApplyStep, AppendLedger, RemoveTransactions, GcEvents,
                        AppliedTransactions
    <3> QED BY <2>4, <3>1, <3>2, <3>3, <3>4, <3>5 DEF ApplyStep
  <2>5. CASE EdgeCrash \/ \E c \in Chunk : RecordRefused(c)
    BY <2>5 DEF EdgeCrash, RecordRefused, StopStore, StopApply, AfterCrash
  <2>6. CASE CentralStep
    <3>1. CASE ListData \/ ListManifests \/ LogLocalDurable \/ LogPushed
      BY <2>6, <3>1 DEF CentralStep, ListData, ListManifests, LogLocalDurable,
                        LogPushed
    <3>2. CASE \E c \in Chunk : \/ IngestData(c) \/ IngestManifest(c)
                                \/ IngestFails(c)
      BY <2>6, <3>2 DEF CentralStep, IngestData, IngestManifest, IngestFails
    <3>3. CASE \E c \in Chunk : StageAck(c) \/ PushAck(c)
      BY <2>6, <3>3 DEF CentralStep, StageAck, PushAck, Ingested
    <3>4. CASE \E d \in Day : PublishDay(d) \/ SkipDay(d)
      BY <2>6, <3>4 DEF CentralStep, PublishDay, SkipDay, Complete
    <3>5. CASE ValidateStaged \/ UnlinkStaged
      BY <2>6, <3>5 DEF CentralStep, ValidateStaged, UnlinkStaged
    <3> QED BY <2>6, <3>1, <3>2, <3>3, <3>4, <3>5 DEF CentralStep
  <2>7. CASE CentralCrash
    BY <2>7 DEF CentralCrash, StopRun
  <2>8. CASE \E c \in Chunk : DamageAck(c) \/ DamageStaged(c)
    BY <2>8 DEF DamageAck, DamageStaged
  <2>9. CASE UNCHANGED vars
    BY <2>9 DEF vars
  <2> QED
    BY <2>1, <2>2, <2>3, <2>4, <2>5, <2>6, <2>7, <2>8, <2>9 DEF Next
<1> QED BY <1>1, <1>2, TypeCorrect, PassCorrect, PTL DEF Spec

\* A crash leaves no transaction that disagrees with the manifest the next pass
\* finds, for any number of crashes and roll-overs.
THEOREM NoConflict == Spec => []NoTransactionConflict
<1>1. TypeOK /\ PassInv /\ VersionInv => NoTransactionConflict
  BY DEF TypeOK, SpoolTypeOK, StoreTypeOK, PassInv, VersionInv,
         NoTransactionConflict
<1> QED BY <1>1, TypeCorrect, PassCorrect, VersionCorrect, PTL

-----------------------------------------------------------------------------
\* Custody of the data

\* The custody properties of Transfer; a chunk between its data file and its
\* manifest is still in ready/, so no manifest is written without data.
CustodyInv ==
  /\ AckMeansDurable
  /\ CollectionAccountedFor
  /\ ManifestHasData
  /\ \A c \in Chunk : pub[c] = "data" => c \in readyData
  /\ gcLogged \cup completed \subseteq raw

\* CustodyInv is an invariant.
THEOREM CustodyCorrect == Spec => []CustodyInv
<1> USE DEF CustodyInv, AckMeansDurable, CollectionAccountedFor,
            ManifestHasData, Published
<1>1. Init => CustodyInv
  BY DEF Init, StoreInit, SpoolInit, ApplyInit, CentralInit, RunInit
<1>2. TypeOK /\ PassInv /\ VersionInv /\ CustodyInv /\ [Next]_vars => CustodyInv'
  <2> SUFFICES ASSUME TypeOK, PassInv, VersionInv, CustodyInv, [Next]_vars
               PROVE CustodyInv'
    OBVIOUS
  <2> USE StoreAssumption
      DEF TypeOK, StoreTypeOK, SpoolTypeOK, CentralTypeOK, PassInv, VersionInv,
          Open, RollInProgress, storeVars, spoolVars, spoolDisk, applyVars,
          centralVars, centralDisk, runVars, edgeVars
  <2>1. CASE StoreStep
    <3>1. CASE \E c \in Chunk : OpenSession(c) \/ RenameIntoReady(c)
      BY <2>1, <3>1 DEF StoreStep, OpenSession, RenameIntoReady
    <3>2. CASE \E c \in Chunk : WriteManifest(c)
      BY <2>1, <3>2 DEF StoreStep, WriteManifest
    <3>3. CASE \E c \in Chunk : Record(c) \/ SaveGapState(c)
      BY <2>1, <3>3 DEF StoreStep, Record, SaveGapState
    <3>4. CASE (\E d \in Day : EndDay(d)) \/ CleanSealedDay \/ StartEdge
      BY <2>1, <3>4 DEF StoreStep, EndDay, CleanSealedDay, StartEdge
    <3> QED BY <2>1, <3>1, <3>2, <3>3, <3>4 DEF StoreStep
  <2>2. CASE LockedStoreStep \/ Recovery
    BY <2>2 DEF LockedStoreStep, WriteRollArtifact, Seal, ResumeSeal, Recovery,
                RecoverGaps, NotSealed
  <2>3. CASE ApplyStart
    BY <2>3 DEF ApplyStart, BeginApply
  <2>4. CASE ApplyStep
    <3>1. CASE \E c \in Chunk : RejectInvalid(c) \/ RejectUnknown(c)
      BY <2>4, <3>1 DEF ApplyStep, RejectInvalid, RejectUnknown, Quarantine,
                        RejectedName
    <3>2. CASE \E c \in Chunk : WriteTransaction(c) \/ UnlinkAck(c)
      BY <2>4, <3>2 DEF ApplyStep, WriteTransaction, UnlinkAck
    <3>3. CASE \E c \in Chunk : CollectManifest(c)
      BY <2>4, <3>3 DEF ApplyStep, CollectManifest
    <3>4. CASE \E c \in Chunk : CollectData(c)
      BY <2>4, <3>4 DEF ApplyStep, CollectData, OrphanData
    <3>5. CASE AppendLedger \/ RemoveTransactions
      BY <2>4, <3>5 DEF ApplyStep, AppendLedger, RemoveTransactions, GcEvents,
                        AppliedTransactions
    <3> QED BY <2>4, <3>1, <3>2, <3>3, <3>4, <3>5 DEF ApplyStep
  <2>5. CASE EdgeCrash \/ \E c \in Chunk : RecordRefused(c)
    BY <2>5 DEF EdgeCrash, RecordRefused, StopStore, StopApply, AfterCrash
  <2>6. CASE CentralStep
    <3>1. CASE ListData \/ ListManifests \/ LogLocalDurable \/ LogPushed
      BY <2>6, <3>1 DEF CentralStep, ListData, ListManifests, LogLocalDurable,
                        LogPushed
    <3>2. CASE \E c \in Chunk : \/ IngestData(c) \/ IngestManifest(c)
                                \/ IngestFails(c)
      BY <2>6, <3>2 DEF CentralStep, IngestData, IngestManifest, IngestFails
    <3>3. CASE \E c \in Chunk : StageAck(c) \/ PushAck(c)
      BY <2>6, <3>3 DEF CentralStep, StageAck, PushAck, Ingested
    <3>4. CASE \E d \in Day : PublishDay(d) \/ SkipDay(d)
      BY <2>6, <3>4 DEF CentralStep, PublishDay, SkipDay, Complete
    <3>5. CASE ValidateStaged \/ UnlinkStaged
      BY <2>6, <3>5 DEF CentralStep, ValidateStaged, UnlinkStaged
    <3> QED BY <2>6, <3>1, <3>2, <3>3, <3>4, <3>5 DEF CentralStep
  <2>7. CASE CentralCrash
    BY <2>7 DEF CentralCrash, StopRun
  <2>8. CASE \E c \in Chunk : DamageAck(c) \/ DamageStaged(c)
    BY <2>8 DEF DamageAck, DamageStaged
  <2>9. CASE UNCHANGED vars
    BY <2>9 DEF vars
  <2> QED
    BY <2>1, <2>2, <2>3, <2>4, <2>5, <2>6, <2>7, <2>8, <2>9 DEF Next
<1> QED
  BY <1>1, <1>2, TypeCorrect, PassCorrect, VersionCorrect, PTL DEF Spec

\* No crash, damaged file or interleaving of the two sides loses a published
\* chunk.
THEOREM ChunksAreNeverLost == Spec => []NoLoss
<1>1. TypeOK /\ CustodyInv => NoLoss
  BY DEF TypeOK, SpoolTypeOK, CustodyInv, AckMeansDurable,
         CollectionAccountedFor, NoLoss, Published
<1> QED BY <1>1, TypeCorrect, CustodyCorrect, PTL

\* Whoever finds an ACK or a transaction may delete the chunk: central has it.
THEOREM AcksAreDurable == Spec => []AckMeansDurable
BY CustodyCorrect, PTL DEF CustodyInv

\* A chunk that left ready/ is in the ledger, or will be when its transaction is
\* replayed.
THEOREM CollectionIsAccounted == Spec => []CollectionAccountedFor
BY CustodyCorrect, PTL DEF CustodyInv

\* Central never finds a manifest that the edge has no data for.
THEOREM ManifestsHaveData == Spec => []ManifestHasData
BY CustodyCorrect, PTL DEF CustodyInv

-----------------------------------------------------------------------------
\* Sealed days

\* The only step that touches a SEALED.json is the one that writes it.
LEMMA OnlySealWritesInventory ==
  [Next]_vars => \/ UNCHANGED <<sealed, inventory>>
                 \/ \E d \in Day : LockedStoreStep /\ Seal(d)
<1> SUFFICES ASSUME [Next]_vars
             PROVE \/ UNCHANGED <<sealed, inventory>>
                   \/ \E d \in Day : LockedStoreStep /\ Seal(d)
  OBVIOUS
<1> USE DEF storeVars, edgeVars
<1>1. CASE StoreStep
  BY <1>1 DEF StoreStep, OpenSession, RenameIntoReady, WriteManifest, Record,
              SaveGapState, EndDay, CleanSealedDay, StartEdge
<1>2. CASE LockedStoreStep
  BY <1>2 DEF LockedStoreStep, WriteRollArtifact, ResumeSeal
<1>3. CASE Recovery \/ ApplyStart
  BY <1>3 DEF Recovery, RecoverGaps, ApplyStart, BeginApply
<1>4. CASE ApplyStep
  BY <1>4 DEF ApplyStep, RejectInvalid, RejectUnknown, Quarantine,
              WriteTransaction, UnlinkAck, CollectManifest, CollectData,
              AppendLedger, RemoveTransactions, RejectedName, OrphanData,
              GcEvents, AppliedTransactions
<1>5. CASE EdgeCrash \/ \E c \in Chunk : RecordRefused(c)
  BY <1>5 DEF EdgeCrash, RecordRefused, StopStore
<1>6. CASE CentralStep
  BY <1>6 DEF CentralStep, ListData, ListManifests, IngestData, IngestManifest,
              StageAck, IngestFails, PublishDay, SkipDay, LogLocalDurable,
              ValidateStaged, PushAck, LogPushed, UnlinkStaged, Ingested,
              Complete
<1>7. CASE CentralCrash \/ \E c \in Chunk : DamageAck(c) \/ DamageStaged(c)
  BY <1>7 DEF CentralCrash, DamageAck, DamageStaged
<1>8. CASE UNCHANGED vars
  BY <1>8 DEF vars
<1> QED BY <1>1, <1>2, <1>3, <1>4, <1>5, <1>6, <1>7, <1>8 DEF Next

\* No step takes a seal back or changes what a SEALED.json lists.
THEOREM SealsAreFrozen == Spec => InventoryFrozen
<1>1. TypeOK /\ [Next]_vars
        => [\A d \in sealed : d \in sealed' /\ inventory'[d] = inventory[d]]_vars
  BY OnlySealWritesInventory DEF Seal, TypeOK, StoreTypeOK, NotSealed
<1> QED BY <1>1, TypeCorrect, PTL DEF Spec, InventoryFrozen

\* What a day index may rely on: a journal line or a kept manifest is of a
\* published chunk, only ended days are sealed, and central publishes sealed days
\* only, once it holds all they list.
DayInv ==
  /\ sealed \subseteq over
  /\ sealing \in sealed \cup {NoDay}
  /\ journaled \cup ackedManifest \subseteq Published
  /\ dayTodo \cup dayPublished \subseteq sealed
  /\ \A d \in dayPublished : inventory[d] \subseteq raw

\* DayInv is an invariant.
THEOREM DaysCorrect == Spec => []DayInv
<1> USE DEF DayInv, Published
<1>1. Init => DayInv
  BY DEF Init, StoreInit, CentralInit, RunInit
<1>2. TypeOK /\ VersionInv /\ DayInv /\ [Next]_vars => DayInv'
  <2> SUFFICES ASSUME TypeOK, VersionInv, DayInv, [Next]_vars PROVE DayInv'
    OBVIOUS
  <2> USE DEF TypeOK, StoreTypeOK, SpoolTypeOK, CentralTypeOK, VersionInv,
              storeVars, spoolVars, spoolDisk, applyVars, centralVars,
              centralDisk, runVars, edgeVars
  <2>1. CASE StoreStep
    <3>1. CASE \E c \in Chunk : OpenSession(c) \/ RenameIntoReady(c)
      BY <2>1, <3>1 DEF StoreStep, OpenSession, RenameIntoReady
    <3>2. CASE \E c \in Chunk : WriteManifest(c)
      BY <2>1, <3>2 DEF StoreStep, WriteManifest
    <3>3. CASE \E c \in Chunk : Record(c) \/ SaveGapState(c)
      BY <2>1, <3>3 DEF StoreStep, Record, SaveGapState
    <3>4. CASE (\E d \in Day : EndDay(d)) \/ CleanSealedDay \/ StartEdge
      BY <2>1, <3>4 DEF StoreStep, EndDay, CleanSealedDay, StartEdge
    <3> QED BY <2>1, <3>1, <3>2, <3>3, <3>4 DEF StoreStep
  <2>2. CASE LockedStoreStep \/ Recovery
    BY <2>2 DEF LockedStoreStep, WriteRollArtifact, Seal, ResumeSeal, Recovery,
                RecoverGaps, NotSealed
  <2>3. CASE ApplyStart
    BY <2>3 DEF ApplyStart, BeginApply
  <2>4. CASE ApplyStep
    <3>1. CASE \E c \in Chunk : RejectInvalid(c) \/ RejectUnknown(c)
      BY <2>4, <3>1 DEF ApplyStep, RejectInvalid, RejectUnknown, Quarantine,
                        RejectedName
    <3>2. CASE \E c \in Chunk : WriteTransaction(c) \/ UnlinkAck(c)
      BY <2>4, <3>2 DEF ApplyStep, WriteTransaction, UnlinkAck
    <3>3. CASE \E c \in Chunk : CollectManifest(c)
      BY <2>4, <3>3 DEF ApplyStep, CollectManifest
    <3>4. CASE \E c \in Chunk : CollectData(c)
      BY <2>4, <3>4 DEF ApplyStep, CollectData, OrphanData
    <3>5. CASE AppendLedger \/ RemoveTransactions
      BY <2>4, <3>5 DEF ApplyStep, AppendLedger, RemoveTransactions, GcEvents,
                        AppliedTransactions
    <3> QED BY <2>4, <3>1, <3>2, <3>3, <3>4, <3>5 DEF ApplyStep
  <2>5. CASE EdgeCrash \/ \E c \in Chunk : RecordRefused(c)
    BY <2>5 DEF EdgeCrash, RecordRefused, StopStore, StopApply, AfterCrash
  <2>6. CASE CentralStep
    <3>1. CASE ListData \/ ListManifests \/ LogLocalDurable \/ LogPushed
      BY <2>6, <3>1 DEF CentralStep, ListData, ListManifests, LogLocalDurable,
                        LogPushed
    <3>2. CASE \E c \in Chunk : \/ IngestData(c) \/ IngestManifest(c)
                                \/ IngestFails(c)
      BY <2>6, <3>2 DEF CentralStep, IngestData, IngestManifest, IngestFails
    <3>3. CASE \E c \in Chunk : StageAck(c) \/ PushAck(c)
      BY <2>6, <3>3 DEF CentralStep, StageAck, PushAck, Ingested
    <3>4. CASE \E d \in Day : PublishDay(d) \/ SkipDay(d)
      BY <2>6, <3>4 DEF CentralStep, PublishDay, SkipDay, Complete
    <3>5. CASE ValidateStaged \/ UnlinkStaged
      BY <2>6, <3>5 DEF CentralStep, ValidateStaged, UnlinkStaged
    <3> QED BY <2>6, <3>1, <3>2, <3>3, <3>4, <3>5 DEF CentralStep
  <2>7. CASE CentralCrash
    BY <2>7 DEF CentralCrash, StopRun
  <2>8. CASE \E c \in Chunk : DamageAck(c) \/ DamageStaged(c)
    BY <2>8 DEF DamageAck, DamageStaged
  <2>9. CASE UNCHANGED vars
    BY <2>9 DEF vars
  <2> QED
    BY <2>1, <2>2, <2>3, <2>4, <2>5, <2>6, <2>7, <2>8, <2>9 DEF Next
<1> QED BY <1>1, <1>2, TypeCorrect, VersionCorrect, PTL DEF Spec

\* Why a seal is complete: an unsealed published chunk is in ready/ or kept as
\* an acked manifest; while the collector runs, its day has a journal unless its
\* writer is about to add one; a sealed day has no writer.
SealInv ==
  /\ \A c \in Published : DayOf[c] \notin sealed =>
       /\ readyManifest[c] # 0 \/ c \in ackedManifest
       /\ edge = "run" => DayOf[c] \in journalFile \/ pub[c] = "manifest"
  /\ \A c \in Chunk :
       DayOf[c] \in sealed => pub[c] \notin {"open", "data", "manifest"}
  /\ SealedInventoryComplete

\* SealInv is an invariant when every seal comes after the writer barrier.
THEOREM SealsCorrect == ~LateSeal => (Spec => []SealInv)
<1> SUFFICES ASSUME ~LateSeal PROVE Spec => []SealInv
  OBVIOUS
<1> USE DEF SealInv, SealedInventoryComplete, Published, ChunksOf
<1>1. Init => SealInv
  BY DEF Init, StoreInit
<1>2. TypeOK /\ VersionInv /\ DayInv /\ SealInv /\ [Next]_vars => SealInv'
  <2> SUFFICES ASSUME TypeOK, VersionInv, DayInv, SealInv, [Next]_vars
               PROVE SealInv'
    OBVIOUS
  <2> USE StoreAssumption
      DEF TypeOK, StoreTypeOK, SpoolTypeOK, CentralTypeOK, DayInv, VersionInv,
          storeVars, spoolVars, spoolDisk, applyVars, centralVars, centralDisk,
          runVars, edgeVars
  <2>1. CASE StoreStep
    <3>1. CASE \E c \in Chunk : OpenSession(c) \/ RenameIntoReady(c)
      BY <2>1, <3>1 DEF StoreStep, OpenSession, RenameIntoReady
    <3>2. CASE \E c \in Chunk : WriteManifest(c)
      BY <2>1, <3>2 DEF StoreStep, WriteManifest
    <3>3. CASE \E c \in Chunk : Record(c) \/ SaveGapState(c)
      BY <2>1, <3>3 DEF StoreStep, Record, SaveGapState
    <3>4. CASE (\E d \in Day : EndDay(d)) \/ CleanSealedDay \/ StartEdge
      BY <2>1, <3>4 DEF StoreStep, EndDay, CleanSealedDay, StartEdge
    <3> QED BY <2>1, <3>1, <3>2, <3>3, <3>4 DEF StoreStep
  <2>2. CASE LockedStoreStep \/ Recovery
    <3>1. ASSUME NEW d \in Day, LockedStoreStep, Seal(d) PROVE SealInv'
      <4>1. \A c \in ChunksOf(d) : pub[c] \notin {"open", "data", "manifest"}
        BY <3>1 DEF Seal, SessionInProgress, RollInProgress, NotSealed
      <4>2. ReadRefs(d) = Published \cap ChunksOf(d)
        BY <3>1, <4>1 DEF Seal, ReadRefs, NotSealed
      <4>3. /\ sealed' = sealed \cup {d}
            /\ inventory' = [inventory EXCEPT ![d] = Published \cap ChunksOf(d)]
            /\ UNCHANGED <<edge, pub, readyManifest, lastVersion, journalFile,
                           ackedManifest>>
        BY <3>1, <4>2 DEF Seal, NotSealed
      <4> QED BY <4>1, <4>3
    <3>2. CASE \E c \in Chunk : LockedStoreStep /\ WriteRollArtifact(c)
      BY <3>2 DEF WriteRollArtifact
    <3>3. CASE (\E d \in Day : ResumeSeal(d)) \/ Recovery
      BY <3>3 DEF ResumeSeal, Recovery, RecoverGaps
    <3> QED BY <2>2, <3>1, <3>2, <3>3 DEF LockedStoreStep
  <2>3. CASE ApplyStart
    BY <2>3 DEF ApplyStart, BeginApply
  <2>4. CASE ApplyStep
    <3>1. CASE \E c \in Chunk : RejectInvalid(c) \/ RejectUnknown(c)
      BY <2>4, <3>1 DEF ApplyStep, RejectInvalid, RejectUnknown, Quarantine,
                        RejectedName
    <3>2. CASE \E c \in Chunk : WriteTransaction(c) \/ UnlinkAck(c)
      BY <2>4, <3>2 DEF ApplyStep, WriteTransaction, UnlinkAck
    <3>3. CASE \E c \in Chunk : CollectManifest(c)
      BY <2>4, <3>3 DEF ApplyStep, CollectManifest
    <3>4. CASE \E c \in Chunk : CollectData(c)
      BY <2>4, <3>4 DEF ApplyStep, CollectData, OrphanData
    <3>5. CASE AppendLedger \/ RemoveTransactions
      BY <2>4, <3>5 DEF ApplyStep, AppendLedger, RemoveTransactions, GcEvents,
                        AppliedTransactions
    <3> QED BY <2>4, <3>1, <3>2, <3>3, <3>4, <3>5 DEF ApplyStep
  <2>5. CASE EdgeCrash \/ \E c \in Chunk : RecordRefused(c)
    BY <2>5 DEF EdgeCrash, RecordRefused, StopStore, StopApply, AfterCrash
  <2>6. CASE CentralStep
    <3>1. CASE ListData \/ ListManifests \/ LogLocalDurable \/ LogPushed
      BY <2>6, <3>1 DEF CentralStep, ListData, ListManifests, LogLocalDurable,
                        LogPushed
    <3>2. CASE \E c \in Chunk : \/ IngestData(c) \/ IngestManifest(c)
                                \/ IngestFails(c)
      BY <2>6, <3>2 DEF CentralStep, IngestData, IngestManifest, IngestFails
    <3>3. CASE \E c \in Chunk : StageAck(c) \/ PushAck(c)
      BY <2>6, <3>3 DEF CentralStep, StageAck, PushAck, Ingested
    <3>4. CASE \E d \in Day : PublishDay(d) \/ SkipDay(d)
      BY <2>6, <3>4 DEF CentralStep, PublishDay, SkipDay, Complete
    <3>5. CASE ValidateStaged \/ UnlinkStaged
      BY <2>6, <3>5 DEF CentralStep, ValidateStaged, UnlinkStaged
    <3> QED BY <2>6, <3>1, <3>2, <3>3, <3>4, <3>5 DEF CentralStep
  <2>7. CASE CentralCrash
    BY <2>7 DEF CentralCrash, StopRun
  <2>8. CASE \E c \in Chunk : DamageAck(c) \/ DamageStaged(c)
    BY <2>8 DEF DamageAck, DamageStaged
  <2>9. CASE UNCHANGED vars
    BY <2>9 DEF vars
  <2> QED
    BY <2>1, <2>2, <2>3, <2>4, <2>5, <2>6, <2>7, <2>8, <2>9 DEF Next
<1> QED
  BY <1>1, <1>2, TypeCorrect, VersionCorrect, DaysCorrect, PTL DEF Spec

\* With the barrier, SEALED.json lists exactly what the day published, after any
\* crash: nothing a dead writer left unjournaled is missing.
THEOREM SealsAreComplete == ~LateSeal => (Spec => []SealedInventoryComplete)
<1>1. SealInv => SealedInventoryComplete
  BY DEF SealInv
<1> QED BY <1>1, SealsCorrect, PTL

\* With the barrier, a day that readers see at central lacks nothing.
THEOREM PublishedDaysAreWhole == ~LateSeal => (Spec => []PublishedDayWhole)
<1>1. DayInv /\ SealedInventoryComplete => PublishedDayWhole
  BY DEF DayInv, SealedInventoryComplete, PublishedDayWhole
<1> QED BY <1>1, DaysCorrect, SealsAreComplete, PTL

-----------------------------------------------------------------------------
\* Implementation of the abstract specification

\* Every behaviour of the two programs, crashes and damage included, is one of
\* ChunkCustody: publishing offers, ingest copies, collection drops, sealing
\* freezes, the day manifest releases, and every other step stutters.
THEOREM ImplementsCustody == Spec => CustodySpec
<1> USE DEF Published, Custody!custodyVars
<1>1. Init => Custody!Init
  BY DEF Init, StoreInit, CentralInit, Custody!Init
<1>2. TypeOK /\ PassInv /\ VersionInv /\ CustodyInv /\ DayInv /\ [Next]_vars
        => [Custody!Next]_(Custody!custodyVars)
  <2> SUFFICES ASSUME TypeOK, PassInv, VersionInv, CustodyInv, DayInv,
                      [Next]_vars
               PROVE  Custody!Next \/ UNCHANGED Custody!custodyVars
    OBVIOUS
  <2> USE DEF TypeOK, StoreTypeOK, SpoolTypeOK, CentralTypeOK, storeVars,
              spoolVars, spoolDisk, centralVars, centralDisk, edgeVars
  <2>1. CASE StoreStep
    <3>1. ASSUME NEW c \in Chunk, WriteManifest(c)
          PROVE  Custody!Offer(c) \/ UNCHANGED Custody!custodyVars
      <4>1. /\ lastVersion' = [lastVersion EXCEPT ![c] = lastVersion[c] + 1]
            /\ UNCHANGED <<readyData, sealed, inventory, raw, dayPublished>>
        BY <2>1, <3>1 DEF StoreStep, WriteManifest
      <4>2. Published' = Published \cup {c}
        BY <4>1
      <4>3. c \in readyData
        BY <3>1 DEF WriteManifest, CustodyInv
      <4> QED BY <4>1, <4>2, <4>3 DEF Custody!Offer
    <3>2. CASE \E c \in Chunk : RenameIntoReady(c)
      BY <2>1, <3>2 DEF StoreStep, RenameIntoReady, VersionInv
    <3>3. CASE \E c \in Chunk : OpenSession(c) \/ Record(c) \/ SaveGapState(c)
      BY <2>1, <3>3 DEF StoreStep, OpenSession, Record, SaveGapState
    <3>4. CASE (\E d \in Day : EndDay(d)) \/ CleanSealedDay \/ StartEdge
      BY <2>1, <3>4 DEF StoreStep, EndDay, CleanSealedDay, StartEdge
    <3> QED BY <2>1, <3>1, <3>2, <3>3, <3>4 DEF StoreStep, Custody!Next
  <2>2. CASE LockedStoreStep
    <3>1. ASSUME NEW c \in Chunk, WriteRollArtifact(c)
          PROVE  Custody!OfferAgain(c) \/ UNCHANGED Custody!custodyVars
      BY <2>2, <3>1 DEF LockedStoreStep, WriteRollArtifact, Custody!OfferAgain
    <3>2. ASSUME NEW d \in Day, Seal(d)
          PROVE  Custody!Freeze(d, ReadRefs(d))
      <4>1. ReadRefs(d) \subseteq Published
        BY DEF ReadRefs, ChunksOf, DayInv, VersionInv
      <4> QED BY <2>2, <3>2, <4>1 DEF LockedStoreStep, Seal, Custody!Freeze,
                                      NotSealed
    <3>3. CASE \E d \in Day : ResumeSeal(d)
      BY <2>2, <3>3 DEF LockedStoreStep, ResumeSeal
    <3>4. \A d \in Day : ReadRefs(d) \in SUBSET Chunk
      BY DEF ReadRefs, ChunksOf
    <3> QED BY <2>2, <3>1, <3>2, <3>3, <3>4 DEF LockedStoreStep, Custody!Next
  <2>3. CASE Recovery \/ ApplyStart
    BY <2>3 DEF Recovery, RecoverGaps, ApplyStart, BeginApply
  <2>4. CASE ApplyStep
    <3>1. ASSUME NEW c \in Chunk, CollectData(c)
          PROVE  Custody!Drop(c) \/ UNCHANGED Custody!custodyVars
      <4>1. c \in raw
        BY <3>1 DEF CollectData, PassInv, Open, CustodyInv, AckMeansDurable,
                    OrphanData
      <4> QED BY <2>4, <3>1, <4>1 DEF ApplyStep, CollectData, Custody!Drop,
                                      OrphanData
    <3>2. CASE \E c \in Chunk : RejectInvalid(c) \/ RejectUnknown(c)
      BY <2>4, <3>2 DEF ApplyStep, RejectInvalid, RejectUnknown, Quarantine,
                        RejectedName
    <3>3. CASE \E c \in Chunk : \/ WriteTransaction(c) \/ UnlinkAck(c)
                                \/ CollectManifest(c)
      BY <2>4, <3>3 DEF ApplyStep, WriteTransaction, UnlinkAck, CollectManifest
    <3>4. CASE AppendLedger \/ RemoveTransactions
      BY <2>4, <3>4 DEF ApplyStep, AppendLedger, RemoveTransactions, GcEvents,
                        AppliedTransactions
    <3> QED BY <2>4, <3>1, <3>2, <3>3, <3>4 DEF ApplyStep, Custody!Next
  <2>5. CASE EdgeCrash \/ \E c \in Chunk : RecordRefused(c)
    BY <2>5 DEF EdgeCrash, RecordRefused, StopStore
  <2>6. CASE CentralStep
    <3>1. ASSUME NEW c \in Chunk, IngestData(c) PROVE Custody!Copy(c)
      <4>1. c \in Published
        BY <3>1 DEF IngestData, VersionInv
      <4> QED BY <2>6, <3>1, <4>1 DEF CentralStep, IngestData, Custody!Copy
    <3>2. ASSUME NEW d \in Day, PublishDay(d) PROVE Custody!Release(d)
      BY <2>6, <3>2 DEF CentralStep, PublishDay, DayInv, Custody!Release,
                        Complete
    <3>3. CASE \/ ListData \/ ListManifests \/ LogLocalDurable \/ ValidateStaged
               \/ LogPushed \/ UnlinkStaged
      BY <2>6, <3>3 DEF CentralStep, ListData, ListManifests, LogLocalDurable,
                        ValidateStaged, LogPushed, UnlinkStaged
    <3>4. CASE \/ \E c \in Chunk : \/ IngestManifest(c) \/ StageAck(c)
                                   \/ IngestFails(c) \/ PushAck(c)
               \/ \E d \in Day : SkipDay(d)
      BY <2>6, <3>4 DEF CentralStep, IngestManifest, StageAck, IngestFails,
                        PushAck, SkipDay, Ingested
    <3> QED BY <2>6, <3>1, <3>2, <3>3, <3>4 DEF CentralStep, Custody!Next
  <2>7. CASE CentralCrash \/ \E c \in Chunk : DamageAck(c) \/ DamageStaged(c)
    BY <2>7 DEF CentralCrash, DamageAck, DamageStaged
  <2>8. CASE UNCHANGED vars
    BY <2>8 DEF vars
  <2> QED BY <2>1, <2>2, <2>3, <2>4, <2>5, <2>6, <2>7, <2>8 DEF Next
<1> QED
  BY <1>1, <1>2, TypeCorrect, PassCorrect, VersionCorrect, CustodyCorrect,
     DaysCorrect, PTL DEF Spec, CustodySpec, Custody!Spec

=============================================================================
