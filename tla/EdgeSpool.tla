------------------------------ MODULE EdgeSpool ------------------------------
(***************************************************************************)
(* SpoolManager.apply_acks (edge/spool.py): the pass that turns the ACK    *)
(* files central pushed into the deletion of chunks from ready/.           *)
(*                                                                         *)
(* One pass lists the ACKs, the unfinished transactions and the ready      *)
(* manifests, accepts or quarantines each ACK, deletes what the accepted   *)
(* ones name, appends one batch of events to the transfer ledger and only  *)
(* then removes the transactions. Every file operation is a step: the      *)
(* process may die between any two.                                        *)
(***************************************************************************)
EXTENDS EdgeStore

VARIABLES
  acks,          \* control/acks: "none", "ok", or "bad" (unreadable, misnamed
                 \* or naming another SHA-256)
  txn,           \* control/applying-acks: manifest version, 0 when there is none
  rejected,      \* control/rejected-acks: <<chunk, reason>>
  gcLogged,      \* chunks with a REMOTE_GC event in the edge ledger
  rejectLogged,  \* <<chunk, reason>> with a rejection event in the edge ledger
  applyPhase,    \* "idle", "apply" or "unlink"
  ackTodo,       \* listed ACKs not handled yet
  known,         \* the ready manifests listed at the start of the pass
  txnTodo,       \* transactions still to be applied
  completed,     \* transactions applied in this pass
  refused        \* rejection events collected in this pass

spoolDisk  == <<acks, txn, rejected, gcLogged, rejectLogged>>
applyVars  == <<applyPhase, ackTodo, known, txnTodo, completed, refused>>
spoolVars  == <<spoolDisk, applyVars>>

AckState == {"none", "ok", "bad"}
Rejection == Chunk \X {"invalid", "unknown"}

SpoolTypeOK ==
  /\ acks \in [Chunk -> AckState]
  /\ txn \in [Chunk -> Nat]
  /\ rejected \subseteq Rejection
  /\ gcLogged \subseteq Chunk
  /\ rejectLogged \subseteq Rejection
  /\ applyPhase \in {"idle", "apply", "unlink"}
  /\ ackTodo \subseteq Chunk
  /\ known \in [Chunk -> Nat]
  /\ txnTodo \subseteq Chunk
  /\ completed \subseteq Chunk
  /\ refused \subseteq Rejection

ApplyInit ==
  /\ applyPhase = "idle"
  /\ ackTodo = {}
  /\ known = [c \in Chunk |-> 0]
  /\ txnTodo = {}
  /\ completed = {}
  /\ refused = {}

SpoolInit ==
  /\ acks = [c \in Chunk |-> "none"]
  /\ txn = [c \in Chunk |-> 0]
  /\ rejected = {}
  /\ gcLogged = {}
  /\ rejectLogged = {}
  /\ ApplyInit

Acked == {c \in Chunk : acks[c] # "none"}
Open == {c \in Chunk : txn[c] # 0}

\* What starts a pass: apply_acks returns at once without ACKs and transactions.
WrongPending == Acked
Pending == Acked \cup Open

-----------------------------------------------------------------------------
\* The pass

BeginApply ==
  /\ edge \in {"boot", "run"}
  /\ applyPhase = "idle"
  /\ Pending # {}
  /\ applyPhase' = "apply"
  /\ ackTodo' = Acked
  /\ known' = readyManifest
  /\ txnTodo' = Open
  /\ UNCHANGED <<spoolDisk, completed, refused, storeVars>>

\* The name of a quarantined ACK and of its event.
WrongRejectedName(c, reason) == <<reason, c>>
RejectedName(c, reason) == <<c, reason>>

\* _quarantine: the ACK file leaves the inbox; its event is only remembered.
Quarantine(c, reason) ==
  /\ acks' = [acks EXCEPT ![c] = "none"]
  /\ ackTodo' = ackTodo \ {c}
  /\ rejected' = rejected \cup {RejectedName(c, reason)}
  /\ refused' = refused \cup {RejectedName(c, reason)}
  /\ UNCHANGED <<txn, gcLogged, rejectLogged, applyPhase, known, txnTodo,
                 completed, storeVars>>

RejectInvalid(c) ==
  /\ c \in ackTodo
  /\ acks[c] = "bad"
  /\ Quarantine(c, "invalid")

RejectUnknown(c) ==
  /\ c \in ackTodo
  /\ acks[c] = "ok"
  /\ known[c] = 0
  /\ Quarantine(c, "unknown")

\* An older transaction that names another manifest would be quarantined as a
\* conflict (spool.py:163-187). Transfer!NoTransactionConflict: there is none.
WriteTransaction(c) ==
  /\ c \in ackTodo
  /\ acks[c] = "ok"
  /\ known[c] # 0
  /\ txn[c] = 0
  /\ txn' = [txn EXCEPT ![c] = known[c]]
  /\ UNCHANGED <<acks, rejected, gcLogged, rejectLogged, applyVars, storeVars>>

UnlinkAck(c) ==
  /\ c \in ackTodo
  /\ acks[c] = "ok"
  /\ known[c] # 0
  /\ txn[c] = known[c]
  /\ acks' = [acks EXCEPT ![c] = "none"]
  /\ ackTodo' = ackTodo \ {c}
  /\ txnTodo' = txnTodo \cup {c}
  /\ UNCHANGED <<txn, rejected, gcLogged, rejectLogged, applyPhase, known,
                 completed, refused, storeVars>>

\* The manifest goes first: deleted when its day is sealed, kept for the seal
\* otherwise.
CollectManifest(c) ==
  /\ applyPhase = "apply"
  /\ ackTodo = {}
  /\ c \in txnTodo
  /\ readyManifest[c] # 0
  /\ readyManifest' = [readyManifest EXCEPT ![c] = 0]
  /\ ackedManifest' = IF DayOf[c] \in sealed
                      THEN ackedManifest
                      ELSE ackedManifest \cup {c}
  /\ UNCHANGED <<edge, pub, readyData, lastVersion, journaled, journalFile,
                 over, sealed, inventory, sealing, spoolVars>>

\* The data may go once the manifest is gone.
WrongOrphanData(c) == c \in txnTodo
OrphanData(c) == c \in txnTodo /\ readyManifest[c] = 0

CollectData(c) ==
  /\ applyPhase = "apply"
  /\ ackTodo = {}
  /\ OrphanData(c)
  /\ readyData' = readyData \ {c}
  /\ txnTodo' = txnTodo \ {c}
  /\ completed' = completed \cup {c}
  /\ UNCHANGED <<edge, pub, readyManifest, lastVersion, journaled, journalFile,
                 ackedManifest, over, sealed, inventory, sealing, spoolDisk,
                 applyPhase, ackTodo, known, refused>>

\* One REMOTE_GC per applied transaction, replayed ones included.
WrongGcEvents == {c \in completed : known[c] # 0}
GcEvents == completed

\* transfer_journal.append(events): the only place events become durable.
AppendLedger ==
  /\ applyPhase = "apply"
  /\ ackTodo = {}
  /\ txnTodo = {}
  /\ gcLogged' = gcLogged \cup GcEvents
  /\ rejectLogged' = rejectLogged \cup refused
  /\ refused' = {}
  /\ applyPhase' = "unlink"
  /\ UNCHANGED <<acks, txn, rejected, ackTodo, known, txnTodo, completed,
                 storeVars>>

AppliedTransactions == completed

RemoveTransactions ==
  /\ applyPhase = "unlink"
  /\ txn' = [c \in Chunk |-> IF c \in AppliedTransactions THEN 0 ELSE txn[c]]
  /\ completed' = {}
  /\ known' = [c \in Chunk |-> 0]
  /\ applyPhase' = "idle"
  /\ UNCHANGED <<acks, rejected, gcLogged, rejectLogged, ackTodo, txnTodo,
                 refused, storeVars>>

\* The pass dies with the process; its events die with it.
StopApply ==
  /\ applyPhase' = "idle"
  /\ ackTodo' = {}
  /\ known' = [c \in Chunk |-> 0]
  /\ txnTodo' = {}
  /\ completed' = {}
  /\ refused' = {}

=============================================================================
