------------------------------ MODULE History -------------------------------
(***************************************************************************)
(* GET /messages/history: get_message_history of src/src/api.rs and        *)
(* src/src/db.rs, and a client that catches up through it as docs/API.md   *)
(* describes: it keeps `since` fixed, asks for page after page by offset,  *)
(* and after the last page takes checkpoint_time as its next `since`.      *)
(*                                                                         *)
(* The server merges the message tables by (create_time, message_id).  It  *)
(* reads them one at a time, and of each only the first fetch_limit rows,  *)
(* which the table has in the order of (create_time, local_id).  There is  *)
(* no snapshot: WeChat writes rows, also late ones, at any time.           *)
(*                                                                         *)
(* A message stands for its message_id, by its rank in the order of        *)
(* strings; the same message can be in several tables.  The id of an own   *)
(* message changes, from the local to the server's.  A row that cannot be  *)
(* decoded takes a place of the first fetch_limit and is dropped.  The     *)
(* filters by sender and direction are the set Wants; the filter by chat   *)
(* only selects tables and is left out, as is the resolution of names.     *)
(***************************************************************************)
EXTENDS Integers, Sequences, FiniteSets, SequencesExt

CONSTANTS
  Table,          \* message tables, over all databases
  Message,        \* message ids
  TimeOf,         \* create_time of each message, in seconds
  Wants,          \* the messages the client's filters let through
  Unreadable,     \* those whose row cannot be decoded
  Renamed,        \* pairs: the local id of an own message, and the server's
  Limits,         \* the page sizes the client asks for
  MaxOffset,      \* offsets beyond are refused (100000)
  IdsInRowOrder,  \* whether a table's ids of one second ascend like its rows
  MaxRows,        \* bound: rows that are written, over all tables
  MaxRuns,        \* bound: catch-up runs that end
  MaxFail         \* bound: failed queries of a table

ASSUME HistoryAssumption ==
  /\ Message \subseteq Int /\ TimeOf \in [Message -> Nat \ {0}]
  /\ Wants \subseteq Message /\ Limits \subseteq Nat \ {0}
  /\ Unreadable \subseteq Message /\ Renamed \subseteq Message \X Message
  /\ MaxOffset \in Nat /\ IdsInRowOrder \in BOOLEAN
  /\ MaxRows \in Nat /\ MaxRuns \in Nat /\ MaxFail \in Nat

VARIABLES
  rows,      \* per table: its messages in the order of local_id
  since, offset, limit,  \* the client's request
  pc,        \* "idle", "scan" (the server reads tables), "answered"
  left,      \* tables the query has still to read
  found,     \* the messages it has read
  response,  \* [page, next_offset, checkpoint_time, has_more]
  running,   \* whether the client is in a run
  got,       \* messages the client has processed
  runs, failures,
  at_start,  \* history: what there was since `since` when the run began
  failed,    \* history: a table failed or fell short in this run, or an id changed
  quiet,     \* history: nothing was written, failed or fell short in this query
  expected   \* history: the page of the merged tables when the query began

request == <<since, offset, limit>>
query == <<left, found, response>>
history == <<at_start, failed, quiet, expected>>
vars == <<rows, since, offset, limit, pc, left, found, response, running, got, runs,
          failures, at_start, failed, quiet, expected>>

NoResponse == [page |-> {}, next_offset |-> 0, checkpoint_time |-> 0, has_more |-> FALSE]

-----------------------------------------------------------------------------
\* ORDER BY create_time, message_id: the order of the merged list.
Precedes(m, n) == TimeOf[m] < TimeOf[n] \/ (TimeOf[m] = TimeOf[n] /\ m < n)
Rank(m, messages) == Cardinality({n \in messages : Precedes(n, m)})

\* skip(offset).take(limit)
Slice(messages, from, size) ==
  {m \in messages : from <= Rank(m, messages) /\ Rank(m, messages) < from + size}

\* What the tables hold, to be read, since a time.
Since(time) ==
  {m \in UNION {Range(rows[t]) : t \in Table} : TimeOf[m] >= time} \ Unreadable

FetchLimitOfPage == limit                 \* mutant: the rows of earlier pages not counted
FetchLimit == offset + limit + 1

\* WHERE time >= since ORDER BY time, local_id LIMIT fetch_limit
Candidates(t) ==
  LET matching == {i \in DOMAIN rows[t] : TimeOf[rows[t][i]] >= since}
      Earlier(i) == {j \in matching :
                       \/ TimeOf[rows[t][j]] < TimeOf[rows[t][i]]
                       \/ TimeOf[rows[t][j]] = TimeOf[rows[t][i]] /\ j < i}
  IN  {rows[t][i] : i \in {i \in matching : Cardinality(Earlier(i)) < FetchLimit}}

\* rows.filter_map(|row| row.ok()): what is left of them.
Decoded(t) == Candidates(t) \ Unreadable

\* A dropped row has taken the place of one that was cut off.
Short(t) ==
  /\ Candidates(t) \cap Unreadable # {}
  /\ \E m \in Range(rows[t]) \ Unreadable : TimeOf[m] >= since /\ m \notin Candidates(t)

HasMoreRow ==                             \* mutant: the extra row is not asked about
  Cardinality(found) > FetchLimit
HasMore == Cardinality(found) > offset + limit

\* create_time of the last message of a page, before the filters.
CheckpointTimeOrNone(page) ==             \* mutant: an empty page gives no time
  IF page = {} THEN -1
  ELSE TimeOf[CHOOSE m \in page : \A n \in page : n = m \/ Precedes(n, m)]
CheckpointTime(page) ==
  IF page = {} THEN since
  ELSE TimeOf[CHOOSE m \in page : \A n \in page : n = m \/ Precedes(n, m)]

NextOffsetFiltered(page) ==               \* mutant: advance by what is returned
  offset + Cardinality(page \cap Wants)
NextOffset(page) == offset + Cardinality(page)

-----------------------------------------------------------------------------
Init ==
  /\ rows = [t \in Table |-> <<>>]
  /\ since = 0 /\ offset = 0 /\ limit \in Limits
  /\ pc = "idle" /\ left = {} /\ found = {} /\ response = NoResponse
  /\ running = FALSE /\ got = {} /\ runs = 0 /\ failures = 0
  /\ at_start = {} /\ failed = FALSE /\ quiet = TRUE /\ expected = {}

WrittenRows == FoldFunction(LAMBDA r, n : Len(r) + n, 0, rows)

\* WeChat writes a row, of any time: synchronisation can be late.
Write(t, m) ==
  /\ WrittenRows < MaxRows
  /\ m \notin Range(rows[t])
  /\ IdsInRowOrder => \A n \in Range(rows[t]) : TimeOf[n] = TimeOf[m] => n < m
  /\ rows' = [rows EXCEPT ![t] = Append(@, m)]
  /\ quiet' = (quiet /\ pc # "scan")
  /\ UNCHANGED <<request, pc, query, running, got, runs, failures, at_start, failed, expected>>

\* An own message has reached the server, whose id for it replaces the local one.
Renumber(t, i, p) ==
  /\ p \in Renamed /\ i \in DOMAIN rows[t] /\ rows[t][i] = p[1] /\ p[2] \notin Range(rows[t])
  /\ IdsInRowOrder => \A j \in DOMAIN rows[t] \ {i} :
       TimeOf[rows[t][j]] = TimeOf[p[2]] => IF j < i THEN rows[t][j] < p[2] ELSE p[2] < rows[t][j]
  /\ rows' = [rows EXCEPT ![t][i] = p[2]]
  /\ failed' = (failed \/ running) /\ quiet' = (quiet /\ pc # "scan")
  /\ UNCHANGED <<request, pc, query, running, got, runs, failures, at_start, expected>>

(***************************************************************************)
(* The client                                                              *)
(***************************************************************************)

EndRun == offset' = 0 /\ running' = FALSE /\ at_start' = {} /\ failed' = FALSE
EndQuery == pc' = "idle" /\ response' = NoResponse /\ quiet' = TRUE /\ expected' = {}

\* The next request, which the server begins to answer; the first of a run is
\* at offset 0.
Ask ==
  /\ pc = "idle" /\ runs < MaxRuns /\ offset <= MaxOffset
  /\ pc' = "scan" /\ left' = Table
  /\ limit' \in Limits
  /\ quiet' = TRUE /\ expected' = Slice(Since(since), offset, limit')
  /\ running' = TRUE
  /\ IF running THEN UNCHANGED <<at_start, failed>>
                ELSE at_start' = Since(since) /\ failed' = FALSE
  /\ UNCHANGED <<rows, since, offset, found, response, got, runs, failures>>

\* The run has come too far: 400, and the client has to begin again.
Refused ==
  /\ pc = "idle" /\ offset > MaxOffset /\ EndRun
  /\ UNCHANGED <<rows, since, limit, pc, query, got, runs, failures, quiet, expected>>

\* A page with more to come: advance. The last page: checkpoint.
Receive ==
  /\ pc = "answered" /\ EndQuery
  /\ got' = got \cup (response.page \cap Wants)
  /\ IF response.has_more
     THEN offset' = response.next_offset /\ UNCHANGED <<since, running, runs, at_start, failed>>
     ELSE EndRun /\ since' = response.checkpoint_time /\ runs' = runs + 1
  /\ UNCHANGED <<rows, limit, left, found, failures>>

\* The response is lost, or is an error; the client asks again.
Lose ==
  /\ pc = "answered" /\ EndQuery
  /\ UNCHANGED <<rows, request, left, found, running, got, runs, failures, at_start, failed>>

\* The client is killed and begins its run again, from its checkpoint.
Restart ==
  /\ pc = "idle" /\ running /\ EndRun
  /\ UNCHANGED <<rows, since, limit, pc, query, got, runs, failures, quiet, expected>>

(***************************************************************************)
(* The server                                                              *)
(***************************************************************************)

\* One table.  One that cannot be read is passed over with a warning; of one that
\* fails on the way some rows are missing.
ReadTable(t) ==
  /\ pc = "scan" /\ t \in left /\ left' = left \ {t}
  /\ \/ /\ found' = found \cup Decoded(t) /\ UNCHANGED failures
        /\ failed' = (failed \/ Short(t)) /\ quiet' = (quiet /\ ~ Short(t))
     \/ /\ failures < MaxFail /\ failures' = failures + 1
        /\ \E some \in SUBSET Decoded(t) : found' = found \cup some
        /\ failed' = TRUE /\ quiet' = FALSE
  /\ UNCHANGED <<rows, request, pc, response, running, got, runs, at_start, expected>>

\* Merge, deduplicate, sort, skip, take.  Offset and checkpoint are those of the
\* page before the filters, which the model applies where it is received.
Answer ==
  /\ pc = "scan" /\ left = {} /\ pc' = "answered"
  /\ LET page == Slice(found, offset, limit)
     IN  response' = [page |-> page, next_offset |-> NextOffset(page),
                      checkpoint_time |-> CheckpointTime(page), has_more |-> HasMore]
  /\ found' = {}
  /\ UNCHANGED <<rows, request, left, running, got, runs, failures, history>>

-----------------------------------------------------------------------------
Server == Answer \/ \E t \in Table : ReadTable(t)

Next ==
  \/ \E t \in Table, m \in Message : Write(t, m)
  \/ \E t \in Table, p \in Renamed : \E i \in DOMAIN rows[t] : Renumber(t, i, p)
  \/ Ask \/ Refused \/ Receive \/ Lose \/ Restart
  \/ Server

Spec == Init /\ [][Next]_vars

\* The server answers, the client goes on, and does not lose responses or die
\* for ever at the same point.
FairSpec == Spec /\ WF_vars(Server) /\ WF_vars(Ask \/ Refused) /\ SF_vars(Receive)

-----------------------------------------------------------------------------
(***************************************************************************)
(* Properties                                                              *)
(***************************************************************************)

TypeOK ==
  /\ rows \in [Table -> Seq(Message)]
  /\ since \in Nat /\ offset \in Nat /\ limit \in Limits
  /\ pc \in {"idle", "scan", "answered"}
  /\ left \in SUBSET Table /\ found \in SUBSET Message
  /\ response \in [page : SUBSET Message, next_offset : Nat,
                   checkpoint_time : Nat, has_more : BOOLEAN]
  /\ got \in SUBSET Message /\ at_start \in SUBSET Message /\ expected \in SUBSET Message
  /\ runs \in 0 .. MaxRuns /\ failures \in 0 .. MaxFail
  /\ running \in BOOLEAN /\ failed \in BOOLEAN /\ quiet \in BOOLEAN

\* "Fetching offset + page size from every table guarantees the globally merged
\* page is present" (get_message_history of db.rs): unless something is written
\* or fails meanwhile, or a row that cannot be decoded stands among the first of a
\* table that has more, a page is the slice it would be if every table were read
\* as a whole.
MergedPagePresent == pc = "answered" /\ quiet => response.page = expected

\* A run that ends has brought the client every message its filters let through
\* that was there to be read, since its checkpoint, when the run began - whatever
\* was written between or during its queries, and however often the client lost a
\* response or began again.  Except where a table failed, where a row that cannot
\* be decoded stood in the place of another, and where an id changed meanwhile.
RunComplete ==
  [][runs' # runs /\ ~ failed => at_start \cap Wants \subseteq got']_vars

\* Paging ends, with the last page, a refusal or a new beginning, also when the
\* filters empty whole pages and while rows keep being written.
RunEnds == running ~> ~ running

=============================================================================
