------------------------------- MODULE Ingest -------------------------------
(***************************************************************************)
(* From WeChat's encrypted databases to the live feed: DbManager of        *)
(* src/src/db.rs (connections, watermarks, mark_all_read,                  *)
(* get_new_messages), and the boot sequence and the listener task of       *)
(* src/src/main.rs that drive it.                                          *)
(*                                                                         *)
(* WeChat creates databases and appends rows, and the key extractor adds   *)
(* databases to the key map, at any time.  The process reads one database  *)
(* after the other, one table after the other, and may be killed between   *)
(* any two steps; the supervisor starts it again, from the watermarks it   *)
(* saved last.  Opening, querying and saving may fail.                     *)
(*                                                                         *)
(* A row is its table and its local_id; local_ids grow by one.  The key    *)
(* map stands for its own modification time: an update changes both.       *)
(***************************************************************************)
EXTENDS Integers, Sequences, FiniteSets

CONSTANTS
  Db,          \* message_N.db files
  Table,       \* message tables
  DbOf,        \* the database a table is in
  Unreadable,  \* rows <<table, local_id>> whose columns do not parse
  MaxAttempts, \* attempts at mark_all_read during boot (10 in main.rs)
  MaxRow,      \* bound, per table: its rows
  MaxCrash,    \* bound: times the process is killed
  MaxFail      \* bound: failed opens, queries and saves

ASSUME IngestAssumption ==
  /\ DbOf \in [Table -> Db]
  /\ Unreadable \subseteq Table \X (Nat \ {0})
  /\ MaxAttempts \in Nat \ {0}
  /\ MaxRow \in [Table -> Nat] /\ MaxCrash \in Nat /\ MaxFail \in Nat

VARIABLES
  files,       \* databases that exist
  rows,        \* per table: its last local_id, 0 while there is no such table
  keys,        \* databases the key map has a key for (on disk)
  disk,        \* watermarks.json: per table, 0 for an absent entry
  pc,          \* where boot or the listener is
  attempts,    \* failed attempts at mark_all_read
  rekeyed,     \* whether boot has built its second DbManager
  old_keys,    \* the key map when boot began to wait for a new one
  conns,       \* msg_conns
  known_keys,  \* key_map_mtime: the key map as the manager last saw it
  watermarks,  \* per table, 0 for an absent entry
  wm,          \* the copy of the watermarks a scan works on
  dbs,         \* databases the scan has not visited yet
  todo,        \* tables of the database being visited
  batch,       \* what the scan read: chunks (from, upto] of tables
  crashes, failures,
  feed,        \* history: the rows fed in this run, in order
  start,       \* history: the watermarks this run began to serve from
  past,        \* history: the rows fed in earlier runs
  lost,        \* history: the rows of a batch that a kill cut off
  baseline,    \* history, per table: the rows marked as read so far
  existing,    \* history, per table: the rows there were when boot marked them
  save_failed  \* history: whether a save of the watermarks has failed

outside == <<files, rows, keys>>
scan == <<wm, dbs, todo, batch>>
boot == <<attempts, rekeyed, old_keys>>
connections == <<conns, known_keys>>
history == <<feed, start, past, lost, baseline, existing, save_failed>>
vars == <<files, rows, keys, disk, pc, attempts, rekeyed, old_keys, conns, known_keys,
          watermarks, wm, dbs, todo, batch, crashes, failures, feed, start, past, lost,
          baseline, existing, save_failed>>

None == [t \in Table |-> 0]
Serving == pc \in {"idle", "scan", "save", "feed"}

Readable(t, id) == <<t, id>> \notin Unreadable
Between(t, from, upto) == {id \in from + 1 .. upto : Readable(t, id)}
Last(ids) == CHOOSE id \in ids : \A other \in ids : other <= id
First(ids) == CHOOSE id \in ids : \A other \in ids : id <= other

\* The rows of the batch that are still to be fed.
Pending ==
  UNION {{<<batch[i].table, id>> :
            id \in Between(batch[i].table, batch[i].from, batch[i].upto)} : i \in DOMAIN batch}
FedNow == {feed[i] : i \in DOMAIN feed}

\* A step in which something fails uses up one of the failures allowed.
FailsIf(failed) ==
  /\ failures' = failures + (IF failed THEN 1 ELSE 0)
  /\ failures' <= MaxFail

-----------------------------------------------------------------------------
Init ==
  /\ files \in SUBSET Db /\ keys \in SUBSET files
  /\ rows \in {r \in [Table -> UNION {0 .. MaxRow[t] : t \in Table}] :
                \A t \in Table : r[t] <= IF DbOf[t] \in files THEN MaxRow[t] ELSE 0}
  /\ disk = None /\ watermarks = None /\ wm = None
  /\ pc = "down" /\ attempts = 0 /\ rekeyed = FALSE
  /\ old_keys = {} /\ known_keys = {} /\ conns = {}
  /\ dbs = {} /\ todo = {} /\ batch = <<>>
  /\ crashes = 0 /\ failures = 0
  /\ feed = <<>> /\ start = None /\ past = {} /\ lost = {}
  /\ baseline = None /\ existing = None /\ save_failed = FALSE

(***************************************************************************)
(* WeChat and the key extractor                                            *)
(***************************************************************************)

Insert(t) ==
  /\ DbOf[t] \in files /\ rows[t] < MaxRow[t]
  /\ rows' = [rows EXCEPT ![t] = @ + 1]
  /\ UNCHANGED <<files, keys, disk, pc, boot, connections, watermarks, scan,
                 crashes, failures, history>>

CreateDb(d) ==
  /\ d \notin files /\ files' = files \cup {d}
  /\ UNCHANGED <<rows, keys, disk, pc, boot, connections, watermarks, scan,
                 crashes, failures, history>>

\* The extractor replaces the key map, atomically, by a larger one.
UpdateKeyMap(found) ==
  /\ found # {} /\ found \subseteq files \ keys
  /\ keys' = keys \cup found
  /\ UNCHANGED <<files, rows, disk, pc, boot, connections, watermarks, scan,
                 crashes, failures, history>>

(***************************************************************************)
(* Connections                                                             *)
(***************************************************************************)

\* Open what can be opened and is not in `kept`; an open may fail.
OpenAll(kept) ==
  \E failed \in SUBSET ((files \cap keys) \ kept) :
    /\ FailsIf(failed # {})
    /\ conns' = kept \cup ((files \cap keys) \ failed)

EnsureMsgConnsOnce ==                     \* mutant: no rescan while there are connections
  /\ IF conns = {} THEN OpenAll({}) ELSE UNCHANGED <<conns, failures>>
  /\ known_keys' = keys
\* ensure_msg_conns: a changed key map drops every connection; missing ones
\* are opened every time.
EnsureMsgConns ==
  /\ OpenAll(IF known_keys # keys THEN {} ELSE conns)
  /\ known_keys' = keys

(***************************************************************************)
(* Boot                                                                    *)
(***************************************************************************)

\* DbManager::new, once the extractor has found a key, if only that of another
\* database (the model begins there): connect, load the watermarks ...
NewManager ==
  /\ OpenAll({})
  /\ watermarks' = disk
  /\ pc' = "opened"

Boot ==
  /\ pc = "down"
  /\ NewManager
  /\ UNCHANGED <<outside, disk, boot, known_keys, scan, crashes, history>>

\* ... and only then read the modification time of the key map.  The first
\* manager goes on from persisted watermarks if there are any.
NoteKeyMap ==
  /\ pc = "opened"
  /\ known_keys' = keys
  /\ pc' = IF watermarks # None /\ ~ rekeyed THEN "ready" ELSE "marking"
  /\ UNCHANGED <<outside, disk, boot, conns, watermarks, scan, crashes, failures, history>>

\* mark_all_read: collect into an empty map, if any database is connected.
BeginMark ==
  /\ pc = "marking" /\ EnsureMsgConns /\ conns' # {}
  /\ pc' = "mark" /\ wm' = None /\ dbs' = conns'
  /\ existing' = rows
  /\ UNCHANGED <<outside, disk, boot, watermarks, todo, batch, crashes,
                 feed, start, past, lost, baseline, save_failed>>

FailMarkForever ==                        \* mutant: the last attempt is not the last
  /\ pc = "marking" /\ EnsureMsgConns /\ conns' = {}
  /\ attempts' = attempts + 1 /\ UNCHANGED pc
  /\ UNCHANGED <<outside, disk, rekeyed, old_keys, watermarks, scan, crashes, history>>

\* No database is connected: try again; after the last attempt wait for the
\* key map to change.  The second manager tries once and ignores the error.
FailMark ==
  /\ pc = "marking" /\ EnsureMsgConns /\ conns' = {}
  /\ attempts' = IF rekeyed THEN attempts ELSE attempts + 1
  /\ pc' = IF rekeyed THEN "ready" ELSE IF attempts' = MaxAttempts THEN "unmarked" ELSE pc
  /\ UNCHANGED <<outside, disk, rekeyed, old_keys, watermarks, scan, crashes, history>>

\* What boot will wait to see changed is read only after the contacts were
\* refreshed: an update before that goes unnoticed.
NoteOldKeyMap ==
  /\ pc = "unmarked" /\ pc' = "keywait"
  /\ old_keys' = keys
  /\ UNCHANGED <<outside, disk, attempts, rekeyed, connections, watermarks, scan,
                 crashes, failures, history>>

\* MAX(local_id) of a table; a failing query leaves the table without entry.
MarkTable(t) ==
  /\ pc = "mark" /\ t \in todo
  /\ \E failed \in BOOLEAN :
       /\ FailsIf(failed)
       /\ wm' = [wm EXCEPT ![t] = IF failed THEN 0 ELSE rows[t]]
  /\ todo' = todo \ {t}
  /\ UNCHANGED <<outside, disk, pc, boot, connections, watermarks, dbs, batch, crashes, history>>

CommitMark ==
  /\ pc = "mark" /\ dbs = {} /\ todo = {}
  /\ watermarks' = wm
  /\ baseline' = [t \in Table |-> IF wm[t] > baseline[t] THEN wm[t] ELSE baseline[t]]
  /\ pc' = "marksave"
  /\ UNCHANGED <<outside, disk, boot, connections, scan, crashes, failures,
                 feed, start, past, lost, existing, save_failed>>

\* The key map changed while boot waited: a second manager.
Rekey ==
  /\ pc = "keywait" /\ old_keys # keys
  /\ NewManager /\ rekeyed' = TRUE
  /\ UNCHANGED <<outside, disk, attempts, old_keys, known_keys, scan, crashes, history>>

\* It did not change for a minute: go on with the manager there is.
GiveUpOnKey ==
  /\ pc = "keywait" /\ old_keys = keys
  /\ pc' = "ready"
  /\ UNCHANGED <<outside, disk, boot, connections, watermarks, scan, crashes, failures, history>>

\* The listener task is spawned.
Listen ==
  /\ pc = "ready" /\ pc' = "idle"
  /\ start' = watermarks
  /\ UNCHANGED <<outside, disk, boot, connections, watermarks, scan, crashes, failures,
                 feed, past, lost, baseline, existing, save_failed>>

(***************************************************************************)
(* The listener: get_new_messages, then one push per message               *)
(***************************************************************************)

\* A WAL event or 30 s without one: poll.  Without connections the poll is an
\* error and the listener waits again.
BeginPoll ==
  /\ pc = "idle" /\ EnsureMsgConns
  /\ pc' = IF conns' = {} THEN "idle" ELSE "scan"
  /\ wm' = watermarks /\ dbs' = conns'
  /\ UNCHANGED <<outside, disk, boot, watermarks, todo, batch, crashes, history>>

\* The tables a database has now; if they cannot be listed it is passed over.
VisitDb(d) ==
  /\ pc \in {"mark", "scan"} /\ todo = {} /\ d \in dbs
  /\ dbs' = dbs \ {d}
  /\ \E failed \in BOOLEAN :
       /\ FailsIf(failed)
       /\ todo' = IF failed THEN {} ELSE {t \in Table : DbOf[t] = d /\ rows[t] > 0}
  /\ UNCHANGED <<outside, disk, pc, boot, connections, watermarks, wm, batch, crashes, history>>

\* The watermark after a table was read up to `upto`: its last readable row.
NewWatermarkAll(t, upto) == rows[t]       \* mutant: counts rows it did not get
NewWatermark(t, upto) ==
  IF Between(t, wm[t], upto) = {} THEN wm[t] ELSE Last(Between(t, wm[t], upto))

\* Rows after the watermark, in order of local_id.  An error ends the result
\* early: the rows before it count.  Unreadable rows are dropped.
ScanTable(t) ==
  /\ pc = "scan" /\ t \in todo
  /\ \E upto \in wm[t] .. rows[t] :
       LET found == Between(t, wm[t], upto)
       IN  /\ FailsIf(upto # rows[t])
           /\ wm' = [wm EXCEPT ![t] = NewWatermark(t, upto)]
           /\ batch' = IF found = {} THEN batch
                       ELSE Append(batch, [table |-> t, from |-> wm[t], upto |-> Last(found)])
  /\ todo' = todo \ {t}
  /\ UNCHANGED <<outside, disk, pc, boot, connections, watermarks, dbs, crashes, history>>

CommitPollForgets ==                      \* mutant: the new watermarks are saved but not kept
  /\ pc = "scan" /\ dbs = {} /\ todo = {}
  /\ pc' = IF batch = <<>> THEN "idle" ELSE "save"
  /\ UNCHANGED <<outside, disk, boot, connections, watermarks, scan, crashes, failures, history>>

\* The watermarks move in memory if there is anything to feed, and only then.
CommitPoll ==
  /\ pc = "scan" /\ dbs = {} /\ todo = {}
  /\ \/ batch = <<>> /\ pc' = "idle" /\ UNCHANGED watermarks
     \/ batch # <<>> /\ pc' = "save" /\ watermarks' = wm
  /\ UNCHANGED <<outside, disk, boot, connections, scan, crashes, failures, history>>

SaveMarksOnly ==                          \* mutant: polls do not save
  /\ pc \in {"marksave", "save"}
  /\ disk' = IF pc = "save" THEN disk ELSE wm
  /\ pc' = IF pc = "save" THEN "feed" ELSE "ready"
  /\ UNCHANGED <<outside, boot, connections, watermarks, scan, crashes, failures, history>>

\* persist_watermarks: a rename; a failure is logged and the caller goes on.
Save ==
  /\ pc \in {"marksave", "save"}
  /\ \E failed \in BOOLEAN :
       /\ FailsIf(failed)
       /\ disk' = IF failed THEN disk ELSE wm
       /\ save_failed' = (save_failed \/ failed)
  /\ pc' = IF pc = "save" THEN "feed" ELSE "ready"
  /\ UNCHANGED <<outside, boot, connections, watermarks, scan, crashes,
                 feed, start, past, lost, baseline, existing>>

\* The next message of the batch goes to the live buffer and the WebSockets.
Push ==
  /\ pc = "feed"
  /\ LET chunk == Head(batch)
         id == First(Between(chunk.table, chunk.from, chunk.upto))
     IN  /\ feed' = Append(feed, <<chunk.table, id>>)
         /\ batch' = IF id = chunk.upto THEN Tail(batch)
                     ELSE [batch EXCEPT ![1].from = id]
  /\ pc' = IF batch' = <<>> THEN "idle" ELSE "feed"
  /\ UNCHANGED <<outside, disk, boot, connections, watermarks, wm, dbs, todo, crashes,
                 failures, start, past, lost, baseline, existing, save_failed>>

\* get_message_history, on behalf of a client, opens connections too; a scan
\* under way keeps those it began with.
QueryHistory ==
  /\ Serving /\ EnsureMsgConns
  /\ UNCHANGED <<outside, disk, pc, boot, watermarks, scan, crashes, history>>

(***************************************************************************)
(* /restart, a crash, the container stopping                               *)
(***************************************************************************)
Crash ==
  /\ pc # "down" /\ crashes < MaxCrash
  /\ crashes' = crashes + 1
  /\ pc' = "down" /\ attempts' = 0 /\ rekeyed' = FALSE /\ old_keys' = {}
  /\ conns' = {} /\ known_keys' = {}
  /\ watermarks' = None /\ wm' = None /\ dbs' = {} /\ todo' = {} /\ batch' = <<>>
  /\ past' = past \cup FedNow
  /\ lost' = lost \cup {row \in Pending : row[2] <= disk[row[1]]}
  /\ feed' = <<>> /\ start' = None
  /\ UNCHANGED <<outside, disk, failures, baseline, existing, save_failed>>

-----------------------------------------------------------------------------
Environment ==
  \/ \E t \in Table : Insert(t)
  \/ \E d \in Db : CreateDb(d)
  \/ \E found \in SUBSET Db : UpdateKeyMap(found)

Booting ==
  \/ Boot \/ NoteKeyMap \/ BeginMark \/ FailMark \/ CommitMark
  \/ NoteOldKeyMap \/ Rekey \/ GiveUpOnKey \/ Listen
  \/ \E t \in Table : MarkTable(t)

Listening ==
  \/ BeginPoll \/ CommitPoll \/ Save \/ Push
  \/ \E d \in Db : VisitDb(d)
  \/ \E t \in Table : ScanTable(t)

Next == Environment \/ Booting \/ Listening \/ QueryHistory \/ Crash

Spec == Init /\ [][Next]_vars

(***************************************************************************)
(* The process runs on, and the supervisor starts it again when it is      *)
(* down; the listener polls at least every 30 s, WAL events or not.  Rows, *)
(* databases, keys and kills come as they like, and failures are finite in *)
(* number (MaxFail), so which alternative a step takes needs no fairness.  *)
(***************************************************************************)
FairSpec == Spec /\ WF_vars(Booting \/ Listening)

-----------------------------------------------------------------------------
(***************************************************************************)
(* Properties                                                              *)
(***************************************************************************)

TypeOK ==
  /\ files \in SUBSET Db /\ keys \in SUBSET Db
  /\ conns \in SUBSET Db /\ dbs \in SUBSET Db
  /\ old_keys \in SUBSET Db /\ known_keys \in SUBSET Db
  /\ {rows, disk, watermarks, wm, start, baseline, existing} \subseteq [Table -> Nat]
  /\ pc \in {"down", "opened", "marking", "mark", "marksave", "unmarked", "keywait",
             "ready", "idle", "scan", "save", "feed"}
  /\ attempts \in 0 .. MaxAttempts /\ rekeyed \in BOOLEAN /\ save_failed \in BOOLEAN
  /\ todo \in SUBSET Table
  /\ batch \in Seq([table : Table, from : Nat, upto : Nat])
  /\ crashes \in 0 .. MaxCrash /\ failures \in 0 .. MaxFail
  /\ feed \in Seq(Table \X Nat)
  /\ past \in SUBSET (Table \X Nat) /\ lost \in SUBSET (Table \X Nat)

\* Whatever fails or is killed, a row the saved watermarks cover was fed, or
\* marked as read, or is in the batch being fed, or was in the batch a kill cut
\* off: no partial scan, failed save or late database makes the watermarks run
\* over a readable row (get_new_messages, persist_watermarks).
Accounted ==
  \A t \in Table : \A id \in Between(t, 0, disk[t]) :
    \/ id <= baseline[t]
    \/ <<t, id>> \in past \cup FedNow \cup lost
    \/ pc \in {"save", "feed"} /\ <<t, id>> \in Pending

\* As long as no save fails, no row is ever fed twice, restarts included: the
\* watermarks are saved before the batch they cover is fed.
FedOnce ==
  ~ save_failed =>
    /\ FedNow \cap past = {}
    /\ \A i, j \in DOMAIN feed : feed[i] = feed[j] => i = j

\* In every run, each table is fed row by row from where the run began: the
\* abstract specification Delivery.
Position(t) ==
  LET mine == {i \in DOMAIN feed : feed[i][1] = t}
  IN  IF mine = {} THEN start[t] ELSE feed[Last(mine)][2]

D == INSTANCE Delivery WITH serving <- Serving,
                            position <- [t \in Table |-> Position(t)]
DeliverySpec == D!Spec

\* Every readable row of a database whose key is known is fed in the end,
\* unless it was marked as read or its batch was cut off by a kill.
Handled(t, id) ==
  id <= baseline[t] \/ <<t, id>> \in past \cup FedNow \cup lost
EveryRowHandled ==
  \A t \in Table : \A id \in 1 .. MaxRow[t] :
    (Readable(t, id) /\ id <= rows[t] /\ DbOf[t] \in keys) ~> Handled(t, id)

\* "Mark all existing messages as read" (mark_all_read): after boot has marked
\* them, no message that existed then is fed as a new one.
ExistingStaysRead ==
  \A row \in FedNow \cup past : row[2] > existing[row[1]]

=============================================================================
