------------------------------ MODULE EdgeStore ------------------------------
(***************************************************************************)
(* The durable files of the edge collector that make up one UTC day, and   *)
(* the code that writes them: ChunkSession.finish and WriterPool._run      *)
(* (edge/writer.py), GapJournal._publish/_roll_state_to (edge/gaps.py) and *)
(* DayIndex (edge/day_index.py).                                           *)
(*                                                                         *)
(* A chunk is published by three separately durable steps: the data file   *)
(* appears in ready/, then its manifest, then its line in the day journal. *)
(* Sealing a day freezes the union of what those files say.                *)
(***************************************************************************)
EXTENDS Naturals, FiniteSets

CONSTANTS
  Chunk,       \* chunk ids: parquet chunks and gap artifacts
  RollChunk,   \* gap artifacts whose id is a function of the gap and the day
               \* boundary (gaps.py:185): a repeated roll-over writes them again
  Day,         \* UTC dates
  DayOf,       \* the UTC date of each chunk
  LateSeal,    \* TRUE: start-up or storage recovery may run across midnight and
               \* seal the ended day while a writer session of it is open
  NoDay        \* "no day is being sealed"

ASSUME StoreAssumption ==
  /\ RollChunk \subseteq Chunk
  /\ DayOf \in [Chunk -> Day]
  /\ LateSeal \in BOOLEAN
  /\ NoDay \notin Day

VARIABLES
  edge,           \* the collector process: "down", "boot" or "run"
  pub,            \* how far the publication of each chunk has come
  readyData,      \* chunks whose data file is in ready/
  readyManifest,  \* version of the manifest in ready/, 0 when there is none
  lastVersion,    \* how many versions of the manifest were ever written
  journaled,      \* chunks with a line in control/day-index/<date>.jsonl
  journalFile,    \* days whose journal file exists
  ackedManifest,  \* chunks whose manifest is in control/acked-manifests/
  over,           \* days that ended and whose last event a writer has taken
  sealed,         \* days with a SEALED.json
  inventory,      \* the chunks SEALED.json lists
  sealing         \* the day DayIndex._seal works on, under its lock

storeVars == <<edge, pub, readyData, readyManifest, lastVersion, journaled,
               journalFile, ackedManifest, over, sealed, inventory, sealing>>

PubState == {"none", "open", "data", "manifest", "recorded", "done", "lost"}

StoreTypeOK ==
  /\ edge \in {"down", "boot", "run"}
  /\ pub \in [Chunk -> PubState]
  /\ readyData \subseteq Chunk
  /\ readyManifest \in [Chunk -> Nat]
  /\ lastVersion \in [Chunk -> Nat]
  /\ journaled \subseteq Chunk
  /\ journalFile \subseteq Day
  /\ ackedManifest \subseteq Chunk
  /\ over \subseteq Day
  /\ sealed \subseteq Day
  /\ inventory \in [Day -> SUBSET Chunk]
  /\ sealing \in Day \cup {NoDay}

\* The first boot of an empty data root: no lease, so no recovery.
StoreInit ==
  /\ edge = "run"
  /\ pub = [c \in Chunk |-> "none"]
  /\ readyData = {}
  /\ readyManifest = [c \in Chunk |-> 0]
  /\ lastVersion = [c \in Chunk |-> 0]
  /\ journaled = {}
  /\ journalFile = {}
  /\ ackedManifest = {}
  /\ over = {}
  /\ sealed = {}
  /\ inventory = [d \in Day |-> {}]
  /\ sealing = NoDay

-----------------------------------------------------------------------------
\* Names for what the files say

ChunksOf(d) == {c \in Chunk : DayOf[c] = d}

\* A manifest was written at least once, so somebody may already have read it.
Published == {c \in Chunk : lastVersion[c] > 0}

\* GapJournal._publish holds DayIndex._lock from the data file to the journal
\* line; a roll-over also keeps the operation lock until the gap state is saved.
RollInProgress ==
  \E c \in RollChunk : pub[c] \in {"data", "manifest", "recorded"}

\* A writer session that has not reached the day journal yet.
SessionInProgress(d) ==
  \E c \in ChunksOf(d) \ RollChunk : pub[c] \in {"open", "data", "manifest"}

\* As below, but without the manifests kept for the seal.
WrongReadRefs(d) ==
  IF d \notin journalFile
  THEN {}
  ELSE {c \in ChunksOf(d) : c \in journaled \/ readyManifest[c] > 0}

\* DayIndex._read_refs: nothing at all without a journal file; otherwise the
\* journal, the ready manifests and the acked manifests together.
ReadRefs(d) ==
  IF d \notin journalFile
  THEN {}
  ELSE {c \in ChunksOf(d) : \/ c \in journaled
                            \/ readyManifest[c] > 0
                            \/ c \in ackedManifest}

-----------------------------------------------------------------------------
\* Publishing

\* WriterPool._run opens a session for the date of the event it has taken.
OpenSession(c) ==
  /\ edge = "run"
  /\ c \notin RollChunk
  /\ pub[c] = "none"
  /\ DayOf[c] \notin over
  /\ pub' = [pub EXCEPT ![c] = "open"]
  /\ UNCHANGED <<edge, readyData, readyManifest, lastVersion, journaled,
                 journalFile, ackedManifest, over, sealed, inventory, sealing>>

\* ChunkSession.finish, first half: fsync the partial and rename it into ready/.
RenameIntoReady(c) ==
  /\ edge = "run"
  /\ pub[c] = "open"
  /\ readyData' = readyData \cup {c}
  /\ pub' = [pub EXCEPT ![c] = "data"]
  /\ UNCHANGED <<edge, readyManifest, lastVersion, journaled, journalFile,
                 ackedManifest, over, sealed, inventory, sealing>>

\* GapJournal._write, first half: the artifact itself, for a day not sealed.
WriteRollArtifact(c) ==
  /\ edge = "run"
  /\ c \in RollChunk
  /\ pub[c] = "none"
  /\ DayOf[c] \notin sealed
  /\ sealing = NoDay
  /\ ~RollInProgress
  /\ readyData' = readyData \cup {c}
  /\ pub' = [pub EXCEPT ![c] = "data"]
  /\ UNCHANGED <<edge, readyManifest, lastVersion, journaled, journalFile,
                 ackedManifest, over, sealed, inventory, sealing>>

\* The manifest, with a fresh created_at: a new version every time.
WriteManifest(c) ==
  /\ edge = "run"
  /\ pub[c] = "data"
  /\ lastVersion' = [lastVersion EXCEPT ![c] = @ + 1]
  /\ readyManifest' = [readyManifest EXCEPT ![c] = lastVersion[c] + 1]
  /\ pub' = [pub EXCEPT ![c] = "manifest"]
  /\ UNCHANGED <<edge, readyData, journaled, journalFile, ackedManifest, over,
                 sealed, inventory, sealing>>

\* DayIndex.record / _record: one fsynced journal line, refused when sealed.
Record(c) ==
  /\ edge = "run"
  /\ pub[c] = "manifest"
  /\ DayOf[c] \notin sealed
  /\ sealing = NoDay
  /\ journaled' = journaled \cup {c}
  /\ journalFile' = journalFile \cup {DayOf[c]}
  /\ pub' = [pub EXCEPT ![c] = IF c \in RollChunk THEN "recorded" ELSE "done"]
  /\ UNCHANGED <<edge, readyData, readyManifest, lastVersion, ackedManifest,
                 over, sealed, inventory, sealing>>

\* _roll_state_to saves the gap state; from here the roll is never repeated.
SaveGapState(c) ==
  /\ edge = "run"
  /\ pub[c] = "recorded"
  /\ pub' = [pub EXCEPT ![c] = "done"]
  /\ UNCHANGED <<edge, readyData, readyManifest, lastVersion, journaled,
                 journalFile, ackedManifest, over, sealed, inventory, sealing>>

-----------------------------------------------------------------------------
\* Days

EndDay(d) ==
  /\ d \notin over
  /\ over' = over \cup {d}
  /\ UNCHANGED <<edge, pub, readyData, readyManifest, lastVersion, journaled,
                 journalFile, ackedManifest, sealed, inventory, sealing>>

\* _seal starts with SEALED.json absent.
NotSealed(d) == d \notin sealed

\* DayIndex._seal up to the atomic write of SEALED.json. The midnight path has
\* rotated every writer before; start-up and storage recovery have not.
Seal(d) ==
  /\ edge = "run"
  /\ d \in over
  /\ NotSealed(d)
  /\ sealing = NoDay
  /\ ~RollInProgress
  /\ LateSeal \/ ~SessionInProgress(d)
  /\ inventory' = [inventory EXCEPT ![d] = ReadRefs(d)]
  /\ sealed' = sealed \cup {d}
  /\ sealing' = d
  /\ UNCHANGED <<edge, pub, readyData, readyManifest, lastVersion, journaled,
                 journalFile, ackedManifest, over>>

\* A later start-up finds SEALED.json with leftovers of a crash (completed_dates).
ResumeSeal(d) ==
  /\ edge = "run"
  /\ d \in sealed
  /\ sealing = NoDay
  /\ ~RollInProgress
  /\ d \in journalFile \/ ackedManifest \cap ChunksOf(d) # {}
  /\ sealing' = d
  /\ UNCHANGED <<edge, pub, readyData, readyManifest, lastVersion, journaled,
                 journalFile, ackedManifest, over, sealed, inventory>>

\* DayIndex._clean_sealed_day_state.
CleanSealedDay ==
  /\ edge = "run"
  /\ sealing # NoDay
  /\ journaled' = journaled \ ChunksOf(sealing)
  /\ journalFile' = journalFile \ {sealing}
  /\ ackedManifest' = ackedManifest \ ChunksOf(sealing)
  /\ sealing' = NoDay
  /\ UNCHANGED <<edge, pub, readyData, readyManifest, lastVersion, over,
                 sealed, inventory>>

-----------------------------------------------------------------------------
\* The process goes away: partials are quarantined at the next boot, half
\* published chunks stay as they are, unfinished roll-overs will be repeated.
AfterCrash(c) ==
  IF c \in RollChunk
  THEN IF pub[c] \in {"data", "manifest", "recorded"} THEN "none" ELSE pub[c]
  ELSE IF pub[c] \in {"open", "data", "manifest"} THEN "lost" ELSE pub[c]

StopStore ==
  /\ edge' = "down"
  /\ pub' = [c \in Chunk |-> AfterCrash(c)]
  /\ sealing' = NoDay
  /\ UNCHANGED <<readyData, readyManifest, lastVersion, journaled, journalFile,
                 ackedManifest, over, sealed, inventory>>

StartEdge ==
  /\ edge = "down"
  /\ edge' = "boot"
  /\ UNCHANGED <<pub, readyData, readyManifest, lastVersion, journaled,
                 journalFile, ackedManifest, over, sealed, inventory, sealing>>

\* The lease is RUNNING, so EdgeService.run publishes a recovery gap from the
\* lease watermark and rolls it through every later day before anything is
\* sealed: each unsealed day that the last boot published in gets a journal.
RecoverGaps ==
  /\ edge = "boot"
  /\ edge' = "run"
  /\ journalFile' = journalFile \cup ({DayOf[c] : c \in Published} \ sealed)
  /\ UNCHANGED <<pub, readyData, readyManifest, lastVersion, journaled,
                 ackedManifest, over, sealed, inventory, sealing>>

=============================================================================
