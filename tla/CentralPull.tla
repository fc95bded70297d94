----------------------------- MODULE CentralPull -----------------------------
(***************************************************************************)
(* One central pull run: central/pull_cli.py main, RsyncTransport and      *)
(* CentralPuller (central/pull.py). A run mirrors ready/ with rsync,       *)
(* ingests every mirrored chunk, publishes the days that became complete,  *)
(* logs LOCAL_DURABLE, pushes the staged ACKs and removes them.            *)
(*                                                                         *)
(* The mirror is overwritten by the rsync of a run before that run reads   *)
(* it, so between runs it is kept empty here.                              *)
(***************************************************************************)
EXTENDS EdgeSpool

VARIABLES
  raw,           \* chunks whose data is durable under the local raw root
  rawManifest,   \* version of the manifest beside it, 0 when there is none
  staged,        \* staged ACK files: "none", "ok", "bad"
  stageRejected, \* staged ACKs moved to the local rejected-acks/
  dayPublished,  \* days whose SEALED.json central has published
  localDurable,  \* chunks with a LOCAL_DURABLE event in the central ledger
  ackPushed,     \* chunks with an ACK_PUSHED event in the central ledger
  runPhase,      \* where the run is
  mirrorData,    \* data files of the mirror
  mirrorManifest,\* manifest versions of the mirror
  todo,          \* mirrored manifests not ingested yet
  dayTodo,       \* mirrored day manifests not handled yet
  wrote,         \* chunks ingested with wrote_data = True, known to this run
  pushTodo       \* valid staged ACKs the rsync has not delivered yet

centralDisk == <<raw, rawManifest, staged, stageRejected, dayPublished,
                 localDurable, ackPushed>>
runVars     == <<runPhase, mirrorData, mirrorManifest, todo, dayTodo, wrote,
                 pushTodo>>
centralVars == <<centralDisk, runVars>>

RunPhase == {"idle", "listing", "ingest", "validate", "push", "unlink"}

CentralTypeOK ==
  /\ raw \subseteq Chunk
  /\ rawManifest \in [Chunk -> Nat]
  /\ staged \in [Chunk -> AckState]
  /\ stageRejected \subseteq Chunk
  /\ dayPublished \subseteq Day
  /\ localDurable \subseteq Chunk
  /\ ackPushed \subseteq Chunk
  /\ runPhase \in RunPhase
  /\ mirrorData \subseteq Chunk
  /\ mirrorManifest \in [Chunk -> Nat]
  /\ todo \subseteq Chunk
  /\ dayTodo \subseteq Day
  /\ wrote \subseteq Chunk
  /\ pushTodo \subseteq Chunk

RunInit ==
  /\ runPhase = "idle"
  /\ mirrorData = {}
  /\ mirrorManifest = [c \in Chunk |-> 0]
  /\ todo = {}
  /\ dayTodo = {}
  /\ wrote = {}
  /\ pushTodo = {}

CentralInit ==
  /\ raw = {}
  /\ rawManifest = [c \in Chunk |-> 0]
  /\ staged = [c \in Chunk |-> "none"]
  /\ stageRejected = {}
  /\ dayPublished = {}
  /\ localDurable = {}
  /\ ackPushed = {}
  /\ RunInit

Staged == {c \in Chunk : staged[c] = "ok"}

edgeVars == <<storeVars, spoolVars>>

-----------------------------------------------------------------------------
\* pull_ready: rsync walks a live tree, so the data files it finds and the
\* manifests it finds are two different moments.
ListData ==
  /\ runPhase = "idle"
  /\ runPhase' = "listing"
  /\ mirrorData' = readyData
  /\ UNCHANGED <<centralDisk, mirrorManifest, todo, dayTodo, wrote, pushTodo,
                 edgeVars>>

ListManifests ==
  /\ runPhase = "listing"
  /\ runPhase' = "ingest"
  /\ mirrorManifest' = readyManifest
  /\ todo' = {c \in Chunk : readyManifest[c] # 0}
  /\ dayTodo' = sealed
  /\ UNCHANGED <<centralDisk, mirrorData, wrote, pushTodo, edgeVars>>

-----------------------------------------------------------------------------
\* CentralPuller.run. Chunks do not touch each other's files, so the order of
\* the loop over them is left open.

\* _ingest_chunk: the download verified, fsynced and renamed into place.
IngestData(c) ==
  /\ runPhase = "ingest"
  /\ c \in todo
  /\ c \notin raw
  /\ c \in mirrorData
  /\ raw' = raw \cup {c}
  /\ wrote' = wrote \cup {c}
  /\ UNCHANGED <<rawManifest, staged, stageRejected, dayPublished,
                 localDurable, ackPushed, runPhase, mirrorData, mirrorManifest,
                 todo, dayTodo, pushTodo, edgeVars>>

IngestManifest(c) ==
  /\ runPhase = "ingest"
  /\ c \in todo
  /\ c \in raw
  /\ rawManifest[c] = 0
  /\ rawManifest' = [rawManifest EXCEPT ![c] = mirrorManifest[c]]
  /\ UNCHANGED <<raw, staged, stageRejected, dayPublished, localDurable,
                 ackPushed, runVars, edgeVars>>

\* What must be durable at central before the ACK is staged.
WrongIngestedNone(c) == TRUE
WrongIngestedData(c) == c \in raw
Ingested(c) == c \in raw /\ rawManifest[c] = mirrorManifest[c]

StageAck(c) ==
  /\ runPhase = "ingest"
  /\ c \in todo
  /\ Ingested(c)
  /\ staged' = [staged EXCEPT ![c] = "ok"]
  /\ todo' = todo \ {c}
  /\ UNCHANGED <<raw, rawManifest, stageRejected, dayPublished, localDurable,
                 ackPushed, runPhase, mirrorData, mirrorManifest, dayTodo,
                 wrote, pushTodo, edgeVars>>

\* A PullFailure: no data in the mirror, or a local manifest with other bytes.
IngestFails(c) ==
  /\ runPhase = "ingest"
  /\ c \in todo
  /\ \/ c \notin raw /\ c \notin mirrorData
     \/ c \in raw /\ rawManifest[c] \notin {0, mirrorManifest[c]}
  /\ todo' = todo \ {c}
  /\ wrote' = wrote \ {c}
  /\ UNCHANGED <<centralDisk, runPhase, mirrorData, mirrorManifest, dayTodo,
                 pushTodo, edgeVars>>

\* Every chunk SEALED.json lists is local.
WrongComplete(d) == TRUE
WrongCompleteInRun(d) == inventory[d] \subseteq wrote
Complete(d) == inventory[d] \subseteq raw

\* _publish_complete_day: the day manifest appears once every chunk it lists
\* is local.
PublishDay(d) ==
  /\ runPhase = "ingest"
  /\ todo = {}
  /\ d \in dayTodo \ dayPublished
  /\ Complete(d)
  /\ dayPublished' = dayPublished \cup {d}
  /\ dayTodo' = dayTodo \ {d}
  /\ UNCHANGED <<raw, rawManifest, staged, stageRejected, localDurable,
                 ackPushed, runPhase, mirrorData, mirrorManifest, todo, wrote,
                 pushTodo, edgeVars>>

SkipDay(d) ==
  /\ runPhase = "ingest"
  /\ todo = {}
  /\ d \in dayTodo
  /\ d \in dayPublished \/ ~Complete(d)
  /\ dayTodo' = dayTodo \ {d}
  /\ UNCHANGED <<centralDisk, runPhase, mirrorData, mirrorManifest, todo,
                 wrote, pushTodo, edgeVars>>

-----------------------------------------------------------------------------
\* main: LOCAL_DURABLE only for the chunks this run wrote itself.
LogLocalDurable ==
  /\ runPhase = "ingest"
  /\ todo = {}
  /\ dayTodo = {}
  /\ localDurable' = localDurable \cup wrote
  /\ runPhase' = "validate"
  /\ wrote' = {}
  /\ mirrorData' = {}
  /\ mirrorManifest' = [c \in Chunk |-> 0]
  /\ UNCHANGED <<raw, rawManifest, staged, stageRejected, dayPublished,
                 ackPushed, todo, dayTodo, pushTodo, edgeVars>>

\* push_acks: quarantine what does not parse; with nothing valid the run ends.
ValidateStaged ==
  /\ runPhase = "validate"
  /\ staged' = [c \in Chunk |-> IF staged[c] = "bad" THEN "none" ELSE staged[c]]
  /\ stageRejected' = stageRejected \cup {c \in Chunk : staged[c] = "bad"}
  /\ pushTodo' = Staged
  /\ runPhase' = IF Staged = {} THEN "idle" ELSE "push"
  /\ UNCHANGED <<raw, rawManifest, dayPublished, localDurable, ackPushed,
                 mirrorData, mirrorManifest, todo, dayTodo, wrote, edgeVars>>

\* One file of the rsync towards control/acks.
PushAck(c) ==
  /\ runPhase = "push"
  /\ c \in pushTodo
  /\ acks' = [acks EXCEPT ![c] = staged[c]]
  /\ pushTodo' = pushTodo \ {c}
  /\ UNCHANGED <<centralDisk, runPhase, mirrorData, mirrorManifest, todo,
                 dayTodo, wrote, txn, rejected, gcLogged, rejectLogged,
                 applyVars, storeVars>>

LogPushed ==
  /\ runPhase = "push"
  /\ pushTodo = {}
  /\ ackPushed' = ackPushed \cup Staged
  /\ runPhase' = "unlink"
  /\ UNCHANGED <<raw, rawManifest, staged, stageRejected, dayPublished,
                 localDurable, mirrorData, mirrorManifest, todo, dayTodo,
                 wrote, pushTodo, edgeVars>>

UnlinkStaged ==
  /\ runPhase = "unlink"
  /\ staged' = [c \in Chunk |-> IF c \in Staged THEN "none" ELSE staged[c]]
  /\ runPhase' = "idle"
  /\ UNCHANGED <<raw, rawManifest, stageRejected, dayPublished, localDurable,
                 ackPushed, mirrorData, mirrorManifest, todo, dayTodo, wrote,
                 pushTodo, edgeVars>>

\* The run dies, or an rsync exits non-zero and main re-raises: what the run
\* knew is gone, what it renamed into place stays.
StopRun ==
  /\ runPhase' = "idle"
  /\ mirrorData' = {}
  /\ mirrorManifest' = [c \in Chunk |-> 0]
  /\ todo' = {}
  /\ dayTodo' = {}
  /\ wrote' = {}
  /\ pushTodo' = {}

=============================================================================
