---------------------------- MODULE MessageStore ----------------------------
(***************************************************************************)
(* The live message buffer of src/src/api.rs (struct MessageStore) and the *)
(* two ways clients read it:                                               *)
(*                                                                         *)
(*   - GET /messages?after=c : every client keeps its own cursor, a read   *)
(*     removes nothing;                                                    *)
(*   - GET /messages/new without parameters : one cursor, legacy_cursor,   *)
(*     shared by every caller and advanced by the server.                  *)
(*                                                                         *)
(* One task (the database listener of main.rs) pushes.  A push takes its   *)
(* cursor with an atomic fetch_add before it waits for the write lock, so  *)
(* for a while the counter runs ahead of the buffer; take_legacy loads the *)
(* shared cursor, reads under the read lock and stores the new cursor in   *)
(* three separate steps.  Those are the interleavings of this module.      *)
(*                                                                         *)
(* The conversation, sender and direction filters of a query are one       *)
(* predicate on the message here: the set Wants[r] of messages reader r    *)
(* asks for.  The response fields has_more and latest_cursor are left out: *)
(* nothing in the program depends on them.                                 *)
(***************************************************************************)
EXTENDS Integers, Sequences, FiniteSets

CONSTANTS
  Message,       \* database messages
  Reader,        \* clients of GET /messages
  LegacyCaller,  \* concurrent callers of GET /messages/new
  Wants,         \* the messages each reader's filters let through
  Capacity,      \* MessageStore.capacity
  Limits,        \* the page sizes clients ask for
  MaxCursor      \* bound: pushes in a behaviour

ASSUME MessageStoreAssumption ==
  /\ Wants \in [Reader -> SUBSET Message]
  /\ Capacity \in Nat \ {0}
  /\ Limits \subseteq Nat \ {0}
  /\ MaxCursor \in Nat

VARIABLES
  next_cursor,   \* AtomicU64: the cursor given out last
  messages,      \* RwLock<VecDeque<BufferedMessage>>
  legacy_cursor, \* AtomicU64 shared by the callers of /messages/new
  stored,        \* the pushing task's message between fetch_add and append: <<>> or <<entry>>
  request,       \* per reader: <<>> or the page of the request under way
  after,         \* per reader: the cursor the client will send next
  legacy,        \* per caller of take_legacy: where it is, and its locals
  log,           \* history: the messages pushed, at their cursor
  base,          \* history, per reader: the /status cursor it started from
  seen,          \* history, per reader: the entries it received
  returned       \* history: the cursors /messages/new gave to some caller

serverVars == <<next_cursor, messages, legacy_cursor, stored, legacy>>
clientVars == <<request, after>>
historyVars == <<log, base, seen, returned>>
vars == <<next_cursor, messages, legacy_cursor, stored, request, after, legacy,
          log, base, seen, returned>>

BufferedMessage == [cursor : Nat \ {0}, message : Message]

\* What an idle caller of take_legacy holds; a busy one holds the cursor it
\* loaded and, once it has queried, the page and the page's last cursor.
NoCall == [pc |-> "idle", after |-> 0, page |-> {}, last |-> 0]

-----------------------------------------------------------------------------
\* The cursor of the newest entry that has reached the buffer.
Appended == next_cursor - Len(stored)

MatchedFromInclusive(from, wanted) ==     \* mutant: >= for >
  {i \in DOMAIN messages : messages[i].cursor >= from /\ messages[i].message \in wanted}
\* The messages of the buffer a query keeps: newer than `from`, let through
\* by the filters.
Matched(from, wanted) ==
  {i \in DOMAIN messages : messages[i].cursor > from /\ messages[i].message \in wanted}

PageUpTo(last, from, wanted) == {i \in Matched(from, wanted) : i <= last}

\* A page of at most `limit` entries, taken from the old end, stops at index
\* `last`; 0 when nothing matches.
IsPage(last, from, wanted, limit) ==
  \/ last = 0 /\ Matched(from, wanted) = {}
  \/ /\ last \in Matched(from, wanted)
     /\ Cardinality(PageUpTo(last, from, wanted)) <= limit
     /\ \/ Cardinality(PageUpTo(last, from, wanted)) = limit
        \/ PageUpTo(last, from, wanted) = Matched(from, wanted)

Entries(page) == {messages[i] : i \in page}

\* The cursor of the last entry of a page, or the caller's own.
LastCursorNewest(last, from) ==           \* mutant: latest_cursor instead of the page's last
  IF last = 0 THEN from ELSE next_cursor
LastCursorUnmoved(last, from) == from     \* mutant: the caller's cursor comes back
LastCursorNone(last, from) ==             \* mutant: no last entry gives no cursor
  IF last = 0 THEN -1 ELSE messages[last].cursor
LastCursor(last, from) == IF last = 0 THEN from ELSE messages[last].cursor

-----------------------------------------------------------------------------
Init ==
  /\ next_cursor = 0 /\ legacy_cursor = 0
  /\ messages = <<>> /\ stored = <<>>
  /\ request = [r \in Reader |-> <<>>]
  /\ after = [r \in Reader |-> 0]
  /\ legacy = [k \in LegacyCaller |-> NoCall]
  /\ log = <<>> /\ returned = {}
  /\ base = [r \in Reader |-> 0]
  /\ seen = [r \in Reader |-> {}]

(***************************************************************************)
(* push                                                                    *)
(***************************************************************************)

\* push, first half: fetch_add on the counter, outside the lock.
TakeCursor(m) ==
  /\ stored = <<>> /\ next_cursor < MaxCursor
  /\ next_cursor' = next_cursor + 1
  /\ stored' = <<[cursor |-> next_cursor + 1, message |-> m]>>
  /\ log' = Append(log, m)
  /\ UNCHANGED <<messages, legacy_cursor, legacy, clientVars, base, seen, returned>>

\* push, the write lock held: pop_front while the buffer is over capacity.
TrimNewest(buffer) ==                     \* mutant: pop_back for pop_front
  IF Len(buffer) > Capacity THEN SubSeq(buffer, 1, Capacity) ELSE buffer
TrimToCapacity(buffer) ==
  IF Len(buffer) > Capacity
  THEN SubSeq(buffer, Len(buffer) - Capacity + 1, Len(buffer)) ELSE buffer

\* push, second half: append under the write lock.
AppendStored ==
  /\ stored # <<>>
  /\ messages' = TrimToCapacity(Append(messages, stored[1]))
  /\ stored' = <<>>
  /\ UNCHANGED <<next_cursor, legacy_cursor, legacy, clientVars, historyVars>>

(***************************************************************************)
(* GET /messages (and GET /messages/new with parameters)                   *)
(***************************************************************************)

\* The query under the read lock, and next_cursor of the response.
GetMessages(r) ==
  /\ request[r] = <<>>
  /\ \E limit \in Limits, last \in 0 .. Len(messages) :
       /\ IsPage(last, after[r], Wants[r], limit)
       /\ request' = [request EXCEPT ![r] =
            <<[page |-> Entries(PageUpTo(last, after[r], Wants[r])),
               next |-> LastCursor(last, after[r])]>>]
  /\ UNCHANGED <<serverVars, after, historyVars>>

\* The client gets the response and keeps next_cursor for its next request.
ReceivePage(r) ==
  /\ request[r] # <<>>
  /\ after' = [after EXCEPT ![r] = request[r][1].next]
  /\ seen' = [seen EXCEPT ![r] = @ \cup request[r][1].page]
  /\ request' = [request EXCEPT ![r] = <<>>]
  /\ UNCHANGED <<serverVars, log, base, returned>>

\* The connection breaks: the client will ask again with the same cursor.
LosePage(r) ==
  /\ request[r] # <<>>
  /\ request' = [request EXCEPT ![r] = <<>>]
  /\ UNCHANGED <<serverVars, after, historyVars>>

\* A client that wants only what is new starts at message_cursor of GET /status.
StartFromStatus(r) ==
  /\ request[r] = <<>> /\ after[r] = 0 /\ seen[r] = {}
  /\ after' = [after EXCEPT ![r] = next_cursor]
  /\ base' = [base EXCEPT ![r] = next_cursor]
  /\ UNCHANGED <<serverVars, request, log, seen, returned>>

(***************************************************************************)
(* GET /messages/new without parameters                                    *)
(***************************************************************************)

LegacyLoad(k) ==
  /\ legacy[k].pc = "idle"
  /\ legacy' = [legacy EXCEPT ![k] = 
       [pc |-> "loaded", after |-> legacy_cursor, page |-> {}, last |-> 0]]
  /\ UNCHANGED <<next_cursor, messages, legacy_cursor, stored, clientVars, historyVars>>

LegacyQuery(k) ==
  /\ legacy[k].pc = "loaded"
  /\ \E limit \in Limits, last \in 0 .. Len(messages) :
       /\ IsPage(last, legacy[k].after, Message, limit)
       /\ legacy' = [legacy EXCEPT ![k] =
            [pc |-> "queried", after |-> legacy[k].after,
             page |-> {messages[i].cursor : i \in PageUpTo(last, legacy[k].after, Message)},
             last |-> LastCursor(last, legacy[k].after)]]
  /\ UNCHANGED <<next_cursor, messages, legacy_cursor, stored, clientVars, historyVars>>

LegacyStoreLatest(k) ==                   \* mutant: acknowledge everything pushed so far
  /\ legacy[k].pc = "queried"
  /\ legacy_cursor' = IF legacy[k].page = {} THEN legacy_cursor ELSE Appended
  /\ returned' = returned \cup legacy[k].page
  /\ legacy' = [legacy EXCEPT ![k] = NoCall]
  /\ UNCHANGED <<next_cursor, messages, stored, clientVars, log, base, seen>>

\* The shared cursor moves to the last entry of the page, whatever another
\* caller stored meanwhile, and the page is the response.
LegacyStore(k) ==
  /\ legacy[k].pc = "queried"
  /\ legacy_cursor' = IF legacy[k].page = {} THEN legacy_cursor ELSE legacy[k].last
  /\ returned' = returned \cup legacy[k].page
  /\ legacy' = [legacy EXCEPT ![k] = NoCall]
  /\ UNCHANGED <<next_cursor, messages, stored, clientVars, log, base, seen>>

-----------------------------------------------------------------------------
Push == AppendStored \/ \E m \in Message : TakeCursor(m)
Read(r) == GetMessages(r) \/ ReceivePage(r)
Legacy(k) == LegacyLoad(k) \/ LegacyQuery(k) \/ LegacyStore(k)

Next ==
  \/ Push
  \/ \E r \in Reader : Read(r) \/ LosePage(r) \/ StartFromStatus(r)
  \/ \E k \in LegacyCaller : Legacy(k)

Spec == Init /\ [][Next]_vars

(***************************************************************************)
(* A push that took a cursor finishes (nobody holds the lock for ever), a  *)
(* client that polls sends its next request, and a response is not lost    *)
(* for ever.  Pushes are not fair: messages may stop coming.               *)
(***************************************************************************)
Fairness ==
  /\ WF_vars(AppendStored)
  /\ \A r \in Reader : WF_vars(GetMessages(r)) /\ SF_vars(ReceivePage(r))

FairSpec == Spec /\ Fairness

-----------------------------------------------------------------------------
(***************************************************************************)
(* Properties                                                              *)
(***************************************************************************)

TypeOK ==
  /\ next_cursor \in Nat /\ legacy_cursor \in Nat
  /\ messages \in Seq(BufferedMessage)
  /\ stored \in Seq(BufferedMessage) /\ Len(stored) \in 0 .. 1
  /\ request \in [Reader -> Seq([page : SUBSET BufferedMessage, next : Nat])]
  /\ \A r \in Reader : Len(request[r]) \in 0 .. 1
  /\ after \in [Reader -> Nat]
  /\ legacy \in [LegacyCaller ->
                   [pc : {"idle", "loaded", "queried"}, after : Nat,
                    page : SUBSET Nat, last : Nat]]
  /\ log \in Seq(Message)
  /\ base \in [Reader -> Nat]
  /\ seen \in [Reader -> SUBSET BufferedMessage]
  /\ returned \in SUBSET Nat

\* The buffer is exactly the newest Capacity messages that were pushed, each
\* under the cursor it was given, in that order and without a gap.
BufferIsNewest ==
  /\ Len(messages) = IF Appended <= Capacity THEN Appended ELSE Capacity
  /\ \A i \in DOMAIN messages :
       LET c == Appended - Len(messages) + i
       IN  messages[i] = [cursor |-> c, message |-> log[c]]

\* A client's cursor never passes a message it asked for and has not received
\* while that message can still be had: what a reader misses, it misses to
\* eviction alone (query, next_cursor of get_messages).
ReaderSkipsNothing ==
  \A r \in Reader, i \in DOMAIN messages :
    /\ messages[i].cursor > base[r] /\ messages[i].cursor <= after[r]
    /\ messages[i].message \in Wants[r]
    => messages[i] \in seen[r]

\* However pages, retries and pushes interleave, a page never repeats what
\* its reader has received, and never goes back behind it.
ReaderRepeatsNothing ==
  \A r \in Reader : request[r] # <<>> =>
    \A e \in request[r][1].page, s \in seen[r] : s.cursor < e.cursor

\* Callers of /messages/new race for one cursor, yet the cursor never covers
\* a buffered message that no caller received: a race can repeat messages but
\* not drop them (take_legacy).
LegacyDropsNothing ==
  \A i \in DOMAIN messages :
    messages[i].cursor <= legacy_cursor => messages[i].cursor \in returned

\* A client that keeps polling ends up with every message it asked for, the
\* evicted ones excepted.
Evicted(c) == c <= Appended - Len(messages)
PollingReaderCatchesUp ==
  \A r \in Reader, c \in 1 .. MaxCursor :
    (c <= next_cursor /\ c > base[r] /\ log[c] \in Wants[r])
      ~> (Evicted(c) \/ c <= base[r] \/ \E e \in seen[r] : e.cursor = c)

=============================================================================
