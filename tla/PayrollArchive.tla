--------------------------- MODULE PayrollArchive ---------------------------
(***************************************************************************)
(* How messages reach the payroll engine (fazle_payroll_engine: ingestion, *)
(* checkpoint, historical_sync, gap_scan, replay).  The bridge keeps the   *)
(* messages of a chat in SQLite; the sync loop and POST /sync/trigger copy *)
(* what is newer than the checkpoint, the gap scan copies what the archive *)
(* lacks, the replay script copies what the poller has stored, and POST    *)
(* /ingest takes one message.  All of them end in ingest_message.          *)
(*                                                                         *)
(* One bridge and one chat: the checkpoint, the diff and the rows of       *)
(* another chat are others.  A row of the archive is named after the       *)
(* message and the id it was archived under; the replay makes up ids of    *)
(* its own, so its rows are members of Rows that no bridge stores.         *)
(***************************************************************************)
EXTENDS Integers, Sequences, FiniteSets

CONSTANTS
  Rows,        \* rows the archive may hold
  Replayed,    \* of these, the ones only the replay script writes
  TsOf,        \* timestamp of a message, in seconds; NoTs when unparseable
  HasText,     \* messages with content or processed_text
  Loops,       \* tasks that run a sync pass: the loop and POST /sync/trigger
  Scans,       \* tasks that run a gap scan: the loop and its trigger
  Posts,       \* POST /ingest requests and the replay script
  SyncBatch,   \* BATCH_SIZE of historical_sync
  GapLimit,    \* GAP_SCAN_LIMIT
  NoTs, NoRow

ASSUME ArchiveAssumption ==
  /\ IsFiniteSet(Rows)
  /\ Replayed \subseteq Rows /\ HasText \subseteq Rows
  /\ NoTs \notin Nat /\ TsOf \in [Rows -> Nat \cup {NoTs}]
  /\ SyncBatch \in Nat \ {0} /\ GapLimit \in Nat \ {0}
  /\ NoRow \notin Rows

VARIABLES
  sqlite,      \* messages the bridge has stored
  archive,     \* fpe_wa_messages
  status,      \* status of the row of fpe_message_processing_state, "none" without one
  checkpoint,  \* last_timestamp of the chat, NoTs when never synced or NULL
  fpc, feed,   \* of a feeding task: where it is, the messages it still has to ingest
  since, last  \* the checkpoint it read; the timestamp of the last row it saw

archiveVars == <<sqlite, archive, status, checkpoint, fpc, feed, since, last>>

Feeders == Loops \cup Scans \cup Posts
Goto(f, l) == fpc' = [fpc EXCEPT ![f] = l]

ArchiveInit ==
  /\ sqlite = {} /\ archive = {}
  /\ status = [m \in Rows |-> "none"]
  /\ checkpoint = NoTs
  /\ fpc = [f \in Feeders |-> "idle"]
  /\ feed = [f \in Feeders |-> <<>>]
  /\ since = [f \in Feeders |-> NoTs]
  /\ last = [f \in Feeders |-> NoTs]

\* The bridge stores a message; a resync stores old ones late.
BridgeStores(m) ==
  /\ m \notin sqlite \cup Replayed
  /\ sqlite' = sqlite \cup {m}
  /\ UNCHANGED <<archive, status, checkpoint, fpc, feed, since, last>>

-----------------------------------------------------------------------------
(* What SQLite answers.  datetime() of an unparseable timestamp is NULL: it *)
(* is never newer than anything and sorts before everything.               *)

Before(m, n) == TsOf[m] = NoTs \/ (TsOf[n] # NoTs /\ TsOf[m] <= TsOf[n])
Sorted(s) == \A i, j \in 1..Len(s) : i < j => Before(s[i], s[j])

\* Every order of S in which no message precedes an older one.
Orders(S) == {s \in [1..Cardinality(S) -> S] : Sorted(s) /\ {s[i] : i \in DOMAIN s} = S}

\* _fetch_messages_sync: the oldest SyncBatch rows after s, of equal
\* timestamps in any order.
RowsAfter(s) ==
  {SubSeq(o, 1, IF Len(o) < SyncBatch THEN Len(o) ELSE SyncBatch) :
     o \in Orders({m \in sqlite : s = NoTs \/ (TsOf[m] # NoTs /\ TsOf[m] > s)})}

\* _fetch_sqlite_rows_for_diff: the newest GapLimit rows, the newest first.
NewestRows ==
  {LET n == IF Len(o) < GapLimit THEN Len(o) ELSE GapLimit
   IN  [i \in 1..n |-> o[Len(o) + 1 - i]] : o \in Orders(sqlite)}

-----------------------------------------------------------------------------
(* run_historical_sync_once, _sync_bridge *)

StartSync(f) ==
  /\ f \in Loops /\ fpc[f] = "idle"
  /\ since' = [since EXCEPT ![f] = checkpoint]
  /\ Goto(f, "fetch")
  /\ UNCHANGED <<sqlite, archive, status, checkpoint, feed, last>>

\* Without rows (also when SQLite fails) last_checked_at is all that changes.
FetchRows(f) ==
  /\ f \in Loops /\ fpc[f] = "fetch"
  /\ \E s \in RowsAfter(since[f]) :
       /\ feed' = [feed EXCEPT ![f] = s]
       /\ Goto(f, IF s = <<>> THEN "idle" ELSE "rows")
  /\ since' = [since EXCEPT ![f] = NoTs]
  /\ UNCHANGED <<sqlite, archive, status, checkpoint, last>>

\* update_checkpoint after the last row: an upsert that compares nothing.
MoveCheckpoint(f) ==
  /\ f \in Loops /\ fpc[f] = "rows" /\ feed[f] = <<>>
  /\ checkpoint' = last[f]
  /\ last' = [last EXCEPT ![f] = NoTs]
  /\ Goto(f, "idle")
  /\ UNCHANGED <<sqlite, archive, status, feed, since>>

-----------------------------------------------------------------------------
(* run_gap_scan_once, _scan_bridge_chat *)

\* Deviation (mutation runs): only rows after the checkpoint are compared.
Mut_MissingRecent(s) ==
  SelectSeq(s, LAMBDA m : m \notin archive /\ (checkpoint = NoTs \/ TsOf[m] = NoTs \/ TsOf[m] > checkpoint))

\* The diff against the archive, which is of all chats of the bridge.
Missing(s) == SelectSeq(s, LAMBDA m : m \notin archive)

StartScan(f) ==
  /\ f \in Scans /\ fpc[f] = "idle"
  /\ \E s \in NewestRows :
       /\ feed' = [feed EXCEPT ![f] = Missing(s)]
       /\ Goto(f, IF Missing(s) = <<>> THEN "idle" ELSE "rows")
  /\ UNCHANGED <<sqlite, archive, status, checkpoint, since, last>>

\* _record_run
RecordRun(f) ==
  /\ f \in Scans /\ fpc[f] = "rows" /\ feed[f] = <<>>
  /\ Goto(f, "idle")
  /\ UNCHANGED <<sqlite, archive, status, checkpoint, feed, since, last>>

-----------------------------------------------------------------------------
(* POST /ingest and the replay script *)

\* A request names a message of the bridge, or the script one the poller stored.
Post(f, m) ==
  /\ f \in Posts /\ fpc[f] = "idle" /\ m \in (sqlite \cup Replayed) \cap HasText
  /\ feed' = [feed EXCEPT ![f] = <<m>>]
  /\ Goto(f, "rows")
  /\ UNCHANGED <<sqlite, archive, status, checkpoint, since, last>>

PostDone(f) ==
  /\ f \in Posts /\ fpc[f] = "rows" /\ feed[f] = <<>>
  /\ Goto(f, "idle")
  /\ UNCHANGED <<sqlite, archive, status, checkpoint, feed, since, last>>

-----------------------------------------------------------------------------
(* ingest_message *)

\* _ingest_row and _ingest_sqlite_row pass over rows without text or time.
Usable(m) == m \in HasText /\ TsOf[m] # NoTs

\* INSERT ... ON CONFLICT (wa_message_id, source) DO NOTHING, after a SELECT
\* that finds the same rows; what is there already is not queued again.
InsertMessage(f) ==
  /\ fpc[f] = "rows" /\ feed[f] # <<>>
  /\ LET m == Head(feed[f])
         fresh == Usable(m) /\ m \notin archive
     IN  /\ archive' = IF fresh THEN archive \cup {m} ELSE archive
         /\ last' = [last EXCEPT ![f] = IF f \in Loops THEN TsOf[m] ELSE @]
         /\ Goto(f, IF fresh THEN "state" ELSE "rows")
         /\ feed' = IF fresh THEN feed ELSE [feed EXCEPT ![f] = Tail(@)]
  /\ UNCHANGED <<sqlite, status, checkpoint, since>>

\* The state row, a statement of its own.
InsertState(f) ==
  /\ fpc[f] = "state"
  /\ LET m == Head(feed[f]) IN
       status' = IF status[m] = "none" THEN [status EXCEPT ![m] = "pending"] ELSE status
  /\ feed' = [feed EXCEPT ![f] = Tail(@)]
  /\ Goto(f, "rows")
  /\ UNCHANGED <<sqlite, archive, checkpoint, since, last>>

\* A statement raises: a sync pass ends before its checkpoint, a scan records
\* its run, a request fails, the script goes on with its next row.
FeedFails(f) ==
  /\ fpc[f] \in {"fetch", "rows", "state"}
  /\ Goto(f, "idle")
  /\ feed' = [feed EXCEPT ![f] = <<>>]
  /\ since' = [since EXCEPT ![f] = NoTs]
  /\ last' = [last EXCEPT ![f] = NoTs]
  /\ UNCHANGED <<sqlite, archive, status, checkpoint>>

FeedStep(f) ==
  \/ StartSync(f) \/ FetchRows(f) \/ MoveCheckpoint(f)
  \/ StartScan(f) \/ RecordRun(f)
  \/ \E m \in Rows : Post(f, m)
  \/ PostDone(f) \/ InsertMessage(f) \/ InsertState(f)

=============================================================================
