------------------------------ MODULE Recovery ------------------------------
(***************************************************************************)
(* A client of the live stream that must not lose a message: the listener  *)
(* loop of main.rs, the broadcast channel, one WebSocket (handle_ws of     *)
(* api.rs) and a client that follows "Consumer checkpoints and recovery"   *)
(* of docs/API.md: connect, keep live events back, read the history since  *)
(* its checkpoint, drain what it kept, go on live, and after a disconnect  *)
(* or a restart begin again.                                               *)
(*                                                                         *)
(* A message is a row of a message table.  What a client tells messages    *)
(* apart by is message_id, which is not the same for ever: a row written   *)
(* without a server id is known by chat and local_id until it gets one.    *)
(* The chat comes from the Name2Id table of a database; a scan over all    *)
(* databases uses that of the first one it comes to.                       *)
(*                                                                         *)
(* How a poll meets failing databases is in Ingest, how history is paged   *)
(* in History: here a poll succeeds, and a history run reads every table   *)
(* once, at some time of its own.  Every WebSocket has its own receiver,   *)
(* so one client stands for all.                                           *)
(***************************************************************************)
EXTENDS Integers, Sequences, FiniteSets, SequencesExt

CONSTANTS
  Table,          \* message tables
  DbOf,           \* the database each table is in
  Names,          \* per database: the tables whose chat its Name2Id knows
  Row,            \* rows to be written
  TableOf,        \* the table each is written to
  TimeOf,         \* its create_time
  Own,            \* rows written before the server gave them an id
  Capacity,       \* events a receiver can fall behind (128)
  WireCapacity,   \* bound: events sent that the client has not read
  Overlap,        \* by how much a history run begins before the checkpoint
  Skew,           \* rows that are under way together differ by no more
  MaxFaults       \* bound: kills, restarts and lost connections

ASSUME RecoveryAssumption ==
  /\ IsFiniteSet(Table) /\ DOMAIN DbOf = Table /\ Names \in [Range(DbOf) -> SUBSET Table]
  /\ TableOf \in [Row -> Table] /\ TimeOf \in [Row -> Nat] /\ Own \subseteq Row
  /\ Capacity \in Nat \ {0} /\ WireCapacity \in Nat \ {0}
  /\ Overlap \in Nat /\ Skew \in Nat /\ MaxFaults \in Nat

VARIABLES
  rows,       \* per table: its rows in the order of local_id
  numbered,   \* rows that have a server id
  watermark,  \* per table: rows read by the listener, saved with every batch
  batch,      \* events of the last poll still to be broadcast
  socket,     \* the server's end: "none", "upgraded", "open"
  channel,    \* what the socket's receiver has still to take
  lagged,     \* whether the receiver lost events
  wire,       \* events sent to the client and not read yet
  mode,       \* the client: "down", "connected", "scan", "live"
  kept,       \* live events it has read and not processed
  since,      \* its checkpoint, and
  done,       \* the message ids it has processed: both durable
  left,       \* its history run: tables still to be read,
  names,      \* the names the server resolves them with,
  found,      \* the events read
  times,      \* history: how often each row was processed
  faults

database == <<rows, numbered>>
listener == <<watermark, batch>>
server == <<socket, channel, lagged, wire>>
durable == <<since, done, times>>
run == <<left, names, found>>
vars == <<rows, numbered, watermark, batch, socket, channel, lagged, wire, mode, kept,
          since, done, left, names, found, times, faults>>

-----------------------------------------------------------------------------
(***************************************************************************)
(* Messages and their ids                                                  *)
(***************************************************************************)

Written == UNION {Range(rows[t]) : t \in Table}

\* The names a scan may come to work with: those of whatever database is first.
NamesOfScan == {Names[d] : d \in Range(DbOf)}

MessageIdByPlace(r, known) ==             \* mutant: the id counts what is ahead of it
  IF r \in numbered THEN <<"wx", r, Len(batch)>> ELSE <<"local", TableOf[r] \in known, r>>
MessageId(r, known) ==
  IF r \in numbered THEN <<"wx", r, 0>> ELSE <<"local", TableOf[r] \in known, r>>

Event(r, known) == [row |-> r, id |-> MessageId(r, known)]
AnyEvent == [row : Row, id : ({"wx"} \X Row \X {0}) \cup ({"local"} \X BOOLEAN \X Row)]
NextTime(now, r) == IF TimeOf[r] > now THEN TimeOf[r] ELSE now

\* The client processes an event, unless it has processed that id.
Process(e) ==
  /\ done' = done \cup {e.id}
  /\ times' = [times EXCEPT ![e.row] = IF e.id \in done THEN @ ELSE @ + 1]

-----------------------------------------------------------------------------
Init ==
  /\ rows = [t \in Table |-> <<>>] /\ numbered = {}
  /\ watermark = [t \in Table |-> 0] /\ batch = <<>>
  /\ socket = "none" /\ channel = <<>> /\ lagged = FALSE /\ wire = <<>>
  /\ mode = "down" /\ kept = <<>> /\ since = 0 /\ done = {}
  /\ left = {} /\ names = {} /\ found = {}
  /\ times = [r \in Row |-> 0] /\ faults = 0

(***************************************************************************)
(* WeChat                                                                  *)
(***************************************************************************)

\* Rows the listener has not broadcast, or that came while history was read.
UnderWay ==
  {e.row : e \in Range(batch)} \cup
  (UNION {{rows[t][i] : i \in watermark[t] + 1 .. Len(rows[t])} : t \in Table}) \cup
  (IF mode = "scan" THEN Written \ {e.row : e \in found} ELSE {})

\* Rows come late, and in no order between the tables, but within limits: the
\* listener keeps up with WeChat, and a run does not take for ever.
WithinSkew(r) ==
  /\ \A other \in Written : TimeOf[other] <= TimeOf[r] + Skew
  /\ \A other \in UnderWay : TimeOf[r] <= TimeOf[other] + Skew

Write(r) ==
  /\ r \notin Written /\ WithinSkew(r)
  /\ rows' = [rows EXCEPT ![TableOf[r]] = Append(@, r)]
  /\ numbered' = IF r \in Own THEN numbered ELSE numbered \cup {r}
  /\ UNCHANGED <<listener, server, mode, kept, durable, run, faults>>

\* The server's id of a message of our own arrives.
Number(r) ==
  /\ r \in Written \ numbered /\ numbered' = numbered \cup {r}
  /\ UNCHANGED <<rows, listener, server, mode, kept, durable, run, faults>>

(***************************************************************************)
(* The listener                                                            *)
(***************************************************************************)

\* get_new_messages: the tables in any order, each in the order of its rows.
Batch(order, known) ==
  LET New(t) == SubSeq(rows[t], watermark[t] + 1, Len(rows[t]))
      EventsOf(t) == [i \in DOMAIN New(t) |-> Event(New(t)[i], known)]
  IN  FlattenSeq([i \in DOMAIN order |-> EventsOf(order[i])])

Poll ==
  /\ batch = <<>> /\ \E t \in Table : watermark[t] < Len(rows[t])
  /\ \E order \in SetToSeqs(Table), known \in NamesOfScan : batch' = Batch(order, known)
  /\ watermark' = [t \in Table |-> Len(rows[t])]
  /\ UNCHANGED <<database, server, mode, kept, durable, run, faults>>

\* tx.send: a receiver that is behind by all the channel holds loses its oldest.
SentToAny(e) == Append(channel, e)        \* mutant: a channel without a bound
Sent(e) == IF Len(channel) < Capacity THEN Append(channel, e) ELSE Append(Tail(channel), e)

Broadcast ==
  /\ batch # <<>> /\ batch' = Tail(batch)
  /\ IF socket = "open"
     THEN channel' = Sent(Head(batch)) /\ lagged' = (lagged \/ Len(channel) = Capacity)
     ELSE UNCHANGED <<channel, lagged>>
  /\ UNCHANGED <<database, watermark, socket, wire, mode, kept, durable, run, faults>>

(***************************************************************************)
(* handle_ws                                                               *)
(***************************************************************************)

EndSocket == socket' = "none" /\ channel' = <<>> /\ lagged' = FALSE

\* The task of an upgraded connection subscribes; nothing earlier is replayed.
Subscribe ==
  /\ socket = "upgraded" /\ socket' = "open"
  /\ UNCHANGED <<database, listener, channel, lagged, wire, mode, kept, durable, run, faults>>

SendPastGap ==                            \* mutant: Lagged taken for a note, not an error
  /\ socket = "open" /\ Len(wire) < WireCapacity
  /\ channel # <<>> /\ wire' = Append(wire, Head(channel))
  /\ channel' = Tail(channel) /\ lagged' = FALSE /\ UNCHANGED socket
  /\ UNCHANGED <<database, listener, mode, kept, durable, run, faults>>
SendUnlessLagged ==                       \* mutant: the error neither ends nor goes on
  /\ socket = "open" /\ Len(wire) < WireCapacity
  /\ ~ lagged /\ channel # <<>>
  /\ wire' = Append(wire, Head(channel)) /\ channel' = Tail(channel)
  /\ UNCHANGED <<socket, lagged>>
  /\ UNCHANGED <<database, listener, mode, kept, durable, run, faults>>
\* recv, and send what it gave.  Anything but an event ends the connection.
\* While a send waits for the client nothing is received.
SendNext ==
  /\ socket = "open" /\ Len(wire) < WireCapacity
  /\ \/ /\ ~ lagged /\ channel # <<>>
        /\ wire' = Append(wire, Head(channel)) /\ channel' = Tail(channel)
        /\ UNCHANGED <<socket, lagged>>
     \/ lagged /\ EndSocket /\ UNCHANGED wire
  /\ UNCHANGED <<database, listener, mode, kept, durable, run, faults>>

(***************************************************************************)
(* The client                                                              *)
(***************************************************************************)

\* Its end of the connection goes, with all it has in memory.
Disconnect == mode' = "down" /\ kept' = <<>> /\ wire' = <<>>
EndRun == left' = {} /\ names' = {} /\ found' = {}

Connect ==
  /\ mode = "down" /\ socket = "none"
  /\ socket' = "upgraded" /\ mode' = "connected"
  /\ UNCHANGED <<database, listener, channel, lagged, wire, kept, durable, run, faults>>

RunFromCheckpoint == since                \* mutant: no overlap
RunFrom == IF since > Overlap THEN since - Overlap ELSE 0

\* The run begins once the connection is there.  That the server's task has
\* subscribed by then is not enforced by the code: it is what this model assumes.
BeginRun ==
  /\ mode = "connected" /\ socket # "upgraded"
  /\ mode' = "scan" /\ left' = Table /\ names' \in NamesOfScan
  /\ UNCHANGED <<database, listener, server, kept, durable, found, faults>>

\* A table whose chat is not found goes by its own name.
ReadTable(t) ==
  /\ mode = "scan" /\ t \in left /\ left' = left \ {t}
  /\ found' = found \cup {Event(r, names) : r \in {r \in Range(rows[t]) : TimeOf[r] >= RunFrom}}
  /\ UNCHANGED <<database, listener, server, mode, kept, durable, names, faults>>

\* After the last page the messages are processed and checkpoint_time is kept:
\* that of the last message, or what was asked for when there was none.
FinishRun ==
  /\ mode = "scan" /\ left = {} /\ mode' = "live" /\ EndRun
  /\ done' = done \cup {e.id : e \in found}
  /\ times' = [r \in Row |->
                 times[r] + Cardinality({e.id : e \in {e \in found : e.row = r}} \ done)]
  /\ since' = IF found = {} THEN RunFrom
              ELSE CHOOSE time \in {TimeOf[e.row] : e \in found} :
                     \A e \in found : TimeOf[e.row] <= time
  /\ UNCHANGED <<database, listener, server, kept, faults>>

\* Events are read at any time, and kept back until the run is over.
Receive ==
  /\ mode # "down" /\ wire # <<>>
  /\ kept' = Append(kept, Head(wire)) /\ wire' = Tail(wire)
  /\ UNCHANGED <<database, listener, socket, channel, lagged, mode, durable, run, faults>>

Consume ==
  /\ mode = "live" /\ kept # <<>> /\ kept' = Tail(kept)
  /\ Process(Head(kept)) /\ since' = NextTime(since, Head(kept).row)
  /\ UNCHANGED <<database, listener, server, mode, run, faults>>

\* The close arrives behind everything that was sent.  What was kept back in a
\* live phase is processed first; a run that is not over is given up.
SeeClose ==
  /\ mode # "down" /\ socket = "none" /\ wire = <<>> /\ (mode = "live" => kept = <<>>)
  /\ Disconnect /\ EndRun
  /\ UNCHANGED <<database, listener, socket, channel, lagged, durable, faults>>

(***************************************************************************)
(* Faults                                                                  *)
(***************************************************************************)

Fault == faults < MaxFaults /\ faults' = faults + 1

\* The connection is lost with what was under way, or the client restarts.
ClientFails ==
  /\ Fault /\ mode # "down" /\ Disconnect /\ EndRun /\ EndSocket
  /\ UNCHANGED <<database, listener, durable>>

\* The server is killed and starts again: the rest of the batch is never
\* broadcast, for its watermarks are saved.  A run fails with it.
ServerFails ==
  /\ Fault /\ batch' = <<>> /\ EndSocket
  /\ IF mode = "scan" THEN Disconnect /\ EndRun ELSE UNCHANGED <<mode, kept, wire, run>>
  /\ UNCHANGED <<database, watermark, durable>>

-----------------------------------------------------------------------------
Client == Connect \/ BeginRun \/ FinishRun \/ Receive \/ Consume \/ SeeClose
          \/ \E t \in Table : ReadTable(t)

Next ==
  \/ \E r \in Row : Write(r) \/ Number(r)
  \/ Poll \/ Broadcast \/ Subscribe \/ SendNext
  \/ Client \/ ClientFails \/ ServerFails

Spec == Init /\ [][Next]_vars

\* Every task runs on; WeChat may stop writing.
FairSpec ==
  /\ Spec /\ WF_vars(Poll) /\ WF_vars(Broadcast) /\ WF_vars(Subscribe) /\ WF_vars(SendNext)
  /\ WF_vars(Client)

-----------------------------------------------------------------------------
(***************************************************************************)
(* Properties                                                              *)
(***************************************************************************)

TypeOK ==
  /\ rows \in [Table -> Seq(Row)] /\ numbered \in SUBSET Row
  /\ watermark \in [Table -> Nat] /\ batch \in Seq(AnyEvent)
  /\ socket \in {"none", "upgraded", "open"}
  /\ channel \in Seq(AnyEvent) /\ Len(channel) <= Capacity /\ lagged \in BOOLEAN
  /\ wire \in Seq(AnyEvent) /\ Len(wire) <= WireCapacity
  /\ mode \in {"down", "connected", "scan", "live"} /\ kept \in Seq(AnyEvent)
  /\ since \in Nat /\ done \subseteq {e.id : e \in AnyEvent}
  /\ left \in SUBSET Table /\ names \in SUBSET Table /\ found \in SUBSET AnyEvent
  /\ times \in [Row -> 0 .. 2] /\ faults \in 0 .. MaxFaults

\* Rows that will still come over this connection.
Coming ==
  {e.row : e \in Range(batch) \cup Range(channel) \cup Range(wire) \cup Range(kept)} \cup
  UNION {{rows[t][i] : i \in watermark[t] + 1 .. Len(rows[t])} : t \in Table}

\* As long as the connection of a client in its live phase is good, the client
\* has every message in the database or will get it over that connection: none
\* fell between history and stream, between two connections, to a full channel,
\* or to the saved watermarks of a listener that was killed.
NoMessageLost ==
  mode = "live" /\ socket = "open" /\ ~ lagged =>
    \A r \in Written : times[r] > 0 \/ r \in Coming

\* Deduplicating by message_id is enough: over history, stream and restarts a
\* message is processed once, and one that got its server id late at most twice.
ProcessedOnce == \A r \in Row : times[r] <= IF r \in Own THEN 2 ELSE 1

\* Every message that is written is processed, whatever fails meanwhile.
EveryMessageArrives == \A r \in Row : r \in Written ~> times[r] > 0

=============================================================================
