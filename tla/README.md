# MimicWX-Linux in TLA+

MimicWX-Linux drives the Linux WeChat client inside a container. It reads
WeChat's encrypted SQLite databases to learn of messages, and types into
WeChat's windows (X11 events, AT-SPI2 accessibility tree) to send them; an HTTP
and WebSocket API offers both. This directory holds TLA+ specifications of the
program, TLC configurations that check them on small instances, and TLAPS
proofs. `PROJECT.json` maps every definition to the lines it models.

Paths below are relative to the repository (`src/db.rs` is `src/src/db.rs` in
`PROJECT.json`).

## 1. The system

    WeChat ──writes──> message_N.db ──poll──> DbManager ──> listener task
       ^                   ^                     |   |         |      |
       | keys, clicks      | keys                |   |     MessageStore  broadcast(128)
       |               key extractor             |   |      4096    |      |
    InputEngine actor <──mpsc(32)── handlers <───+   |   GET /messages   /ws clients
       ^                              ^    sent echoes|
    wechat.rs, chatwnd.rs        HTTP clients <──── GET /messages/history

| Component | State it keeps | Operations | Module |
|---|---|---|---|
| Live buffer (`api.rs` MessageStore) | `next_cursor`, ring `messages`, shared `legacy_cursor` | `push`, `query`, `take_legacy`, `latest_cursor` | `MessageStore` |
| Database listener (`db.rs`, listener task of `main.rs`) | connections, key map mtime, watermarks in memory and in `watermarks.json` | `DbManager::new`, `ensure_msg_conns`, `mark_all_read`, `get_new_messages`, save, push | `Ingest`, `Delivery` |
| Message history (`api.rs`, `db.rs`) | none; the client keeps `since`, `offset` | `get_message_history` | `History` |
| Chat routing (`wechat.rs`, `chatwnd.rs`) | `current_chat`, `listen_targets`, `listen_windows`; the screen | `chat_with`, `add_listen`, `remove_listen`, `send_message`, `send_image`, `send_file`, recovery | `ChatRouter` |
| Send requests (`api.rs`, actor, `verify_sent`) | command queue, oneshot replies, echo receivers, temporary files | `dispatch_text`, `send_image`, `send_file`, `verify_sent`, the actor's loop | `Dispatch` |
| WebSocket fan-out (`api.rs`, `main.rs`) | broadcast of 128, a task per socket; the client keeps its checkpoint | `handle_ws`, the listener's `send` | `Recovery` |
| Boot, login and key wait (`main.rs`) | `attempts`, `db_slot` | the login loop, the key wait, mounting the database | `Boot`, then `Ingest` |
| Finding WeChat (`atspi.rs`, `wechat.rs`, `main.rs`) | AT-SPI connection, `cached_app`, `fail_count` | `connect`, `reconnect`, `find_app`, `check_status`, `try_reconnect`, heartbeat | `Accessibility` |
| Listen list and configuration (`config.rs`, `api.rs`, `console.rs`) | `config.toml`, `listen_targets` | `listen`, `unlisten`, `reload`, POST and DELETE `/listen`, the targets of a start | `ListenConfig` |
| Contacts (`db.rs`) | `contacts` (ArcSwap) | `refresh_contacts` | see section 8 |
| Identity and parsing (`db.rs`) | `name2id` cache of a scan | `resolve_chat_from_table`, `stable_message_id`, `parse_*` | identity in `Recovery`; XML parsing left out |
| Attachments, byte ranges | none | `parse_range_header`, resolution on disk | see section 8 |
| WAL watcher (`db.rs`) | fanotify descriptor | wakes the listener | a poll may start at any time in `Ingest` |
| X11 input (`input.rs`) | clipboard, focus, key state | key events, paste, windows by title | what `ChatRouter` needs of it |
| Console | a line editor | its `/listen`, `/unlisten`, `/reload`, `/restart`, `/stop` | `ListenConfig` |
| Routing and auth, adapter, supervisor scripts | – | – | see section 8 |

How they interact: the listener task is the only one that polls and pushes; a
poll also broadcasts the account's own messages to the handlers that verify a
send. All commands to WeChat go through one queue to one actor, which owns the
keyboard. Handlers take a oneshot reply. `/messages/history` reads the same
connections as the listener, one lock per database. The supervisor restarts the
process; only `watermarks.json`, the key files and `config.toml` survive.

What is hard here, and correct when it works:

* **Live buffer** - cursors are handed out before the lock is taken, readers
  page while the ring evicts, legacy callers race for one cursor. Right when a
  reader's cursor never covers a buffered message it has not got.
* **Listener** - partial scans, failed saves, databases and keys that come late,
  kills between scan, save and feed. Right when watermarks never cover a row
  that nobody fed, and no row is fed twice.
* **History** - paging by offset over tables that grow and are read one after
  the other. Right when a finished run has brought all there was at its start.
* **Routing** - a cached belief about the screen, windows that vanish, a WeChat that
  does late or never what a click asked, one focus. Right when a text goes to the
  chat it is for.
* **Sending** - a handler that can be dropped at any wait, a queue, a timeout
  whose command is executed later, echoes that are matched by content. Right
  when `verified` means what it says, files outlive their command, and every
  request is answered.
* **Live stream and recovery** - a bounded channel, two sources that overlap, a
  batch out of time order, ids that change, restarts on both sides. Right when a
  client that recovers as documented (with an overlap, section 5) has every message,
  and each once.
* **Listen list** - list and file are read and written in unlocked steps, while
  others change the list, pop-outs and saves fail and the process ends. Right when what was
  reported as added is in the file, and is listened to again after a restart.
* **Boot and accessibility** - one connection and one cached node shared by tasks
  that lock nothing from call to call, buses that are replaced, calls that time
  out. Right when WeChat is found wherever it is, and a login gets its database.

`PROJECT.json` lists 40 hazards at their lines, with the properties that cover
each, or the reason why none does yet.

## 2. Modules

**`MessageStore`**: `push` is two steps (`TakeCursor`, `AppendStored`: the
`fetch_add` is outside the lock), a GET is `GetMessages` and `ReceivePage` or
`LosePage`, `take_legacy` is `LegacyLoad`, `LegacyQuery`, `LegacyStore`, one per
atomic access. A reader's filters are the set of messages it wants. `log`,
`base`, `seen`, `returned` are history variables that no guard reads, except
that a reader starts from `/status` once.

**`Ingest`**: a row is `<<table, local_id>>`. `pc` walks through boot
(`opened` ... `ready`) and the listener's loop (`idle`, `scan`, `save`, `feed`).
A scan visits a database (`VisitDb`), then its tables (`ScanTable`), with `wm`
the local copy of the watermarks; `CommitPoll` moves them in memory, `Save` on
disk, `Push` feeds. `Crash` can happen anywhere and keeps only `disk`.
`QueryHistory` is there because a history request opens connections too.
Opening, listing, querying and saving may fail, `MaxFail` times.

**`Delivery`**: the abstract specification: while it serves, each table is fed
row by row from some start. `Ingest` implements it under the mapping
`serving <- pc in the listener's loop`, `position <- last row fed per table`.

**`History`**: one client and the server's query, table by table. A message is
its rank among the message ids; `Candidates(t)` is the `LIMIT fetch_limit` query of
a table, `Slice` the sort, skip and take. A row in `Unreadable` takes a place among
those candidates and is dropped afterwards (`rows.filter_map(|row| row.ok())`); where
one that is cut off would have come in its place the table falls short (`Short`).
`Renumber` is the change of an own message's id from the local to the server's. `failed`
and `quiet` are history variables that say in which runs and queries this happened.

**`ChatRouter`**: the actor executes one command at a time in steps. The screen
(`open_chat`, `windows`, `focus`) and what the program believes of it
(`current_chat`, `listen_windows`) are separate variables; `CloseWindow` changes the
first at any time. `listen_windows[n] = Gone` is a registered window that no
longer exists. Which session entries are visible, whether a double click pops a
window out, and whether an X11 call fails are nondeterministic. So is whether WeChat
follows in time: the code's waits look for a message list, any message list, and go on
when they run out, so that after a click or a search the chat is recorded as open
whether it is or not (`Missed`), a search of which nothing came counts as found if any
chat is on the screen, and what was asked may still come at any later step, a chat or a
window popped out (`late`, `Late`). `focus_main_window` may leave the focus where it
was. `disturbed`, `misled` are history variables: whether this command, and whether the
last switch of the main window, met any of this. `MaxError` bounds it.

**`Dispatch`**: handlers, queue, actor and echoes. `MountDb` is the end of boot: what
boot marks as read counts as out of the database and comes to nobody. `Poll` is the
broadcast of
`hydrate_raw_messages`; a receiver holds `SentSize` messages and loses the oldest.
`Disconnect` drops a handler at a wait. `BeginFails`, `Refused` (the queue is closed) and
`Abandoned` (the actor is gone) are the ways a request fails, with what each does with
the temporary file; `Stop` is the panic that closes the queue. `Cleanup` removes a file
900 s after its request timed out or was answered, and does not look at the queue. What
a model without a clock needs of these times is one number: `Outlasts`, the commands an
actor that has them to execute gets through in 120 + 900 s. `sleep[r]` counts them down
from when `r` was queued. That the file is there for the actor then depends on `Outlasts`
and the capacity of the queue (section 6).

**`Recovery`**: one client of `/ws` and `/messages/history`. The listener's `Poll`
takes all tables' new rows in any order of tables, `Broadcast` sends one event,
`SendNext` is a turn of `handle_ws` (an event, or the end when the receiver has
lagged). The client is that of "Consumer checkpoints and recovery" in
`docs/API.md`: `Connect`, `BeginRun`, `ReadTable`, `FinishRun`, then `Consume`; `Receive`
only keeps events back, and they are processed after the run. `since` and `done` are
durable. A row's id is `MessageId`: without a server id it depends on the chat,
which is looked up in the names of whatever database a scan comes to first.
`times` is a history variable.

**`ListenConfig`**: every task has its own program counter: a command (`Give`) or a
call (`Call`) asks the actor (`Execute`, `Reply`), and listen and unlisten then go
through `GetList`, `ReadFile`, `Truncate`, `Write`, each a step of its own because
nothing is locked between them. `reload` is `Parse`, `Diff` and then its requests,
removals first. The task `Boot` asks for the targets of the file after a start.
`Kill` can happen between any two steps. The file is its auto line and the rest, which
may be `bare`, without a place for that line. Names are written as they are, so one in
`Awkward`, with a quote or a backslash, makes the file unparsable. Reads and writes may
fail, `MaxFail` times, and a process may have started without its file (`configured`).
A save answers `[ok]` in all these cases (`Promise`, `SaveFails`); `unsaved` and `lost` are
history variables that say when one went wrong. The console and `POST /command` do the same
steps, so an administrator is either.

**`Accessibility`**: buses, WeChat and the program's connection. A task looks for
WeChat in steps, one per D-Bus call or lock: `Look` (the cache), `Scan`, `Keep`,
`Ask`, `TrySockets`, `Swap`, the second `Scan`, `Drop`, `Tree`. `Beat` is a heartbeat.
A call that times out counts as an empty answer, as in `AtSpi::call`. `conn` names a
bus, not a socket. `earlier` and `undisturbed` are history variables.

**`Boot`** extends it with the loop that waits for the login, the wait for the key and
`Mount`, which may also not find or open a database; what boot went on without is in
`missed`. The API answers meanwhile, so callers look for WeChat too. `attempts` is
bounded without changing what it decides: whether it has come to `Limit`, and where
it is in its period. `Restart` includes the retries until a bus can be connected to.

**`MessageStoreProofs`**, **`IngestProofs`**, **`HistoryProofs`**,
**`ChatRouterProofs`**, **`DispatchProofs`**, **`RecoveryProofs`**,
**`ListenConfigProofs`**, **`BootProofs`**: the theorems about the module of that name,
with their inductive invariants and lemmas (section 6). `BootProofs` is about
`Boot` together with the `Accessibility` it extends.

**`MC*`** modules give the constants values for TLC.

`ChatRouter` and `Dispatch` meet at the actor's step: what `Dispatch!Type` leaves
open (typed or not) is what `ChatRouter` details. `Ingest` and `MessageStore` meet
at `Push`, `Ingest` and `Dispatch` at `Poll`. `Recovery` composes listener, channel,
WebSocket, history and client, each reduced to what the others see of it. `Boot`
composes the boot task with the other users of `Accessibility`, and ends where
`Ingest` begins.

## 3. Runs

| Run | Shows | Instance |
|---|---|---|
| `store` | the live buffer with a push in flight, a paging client that loses responses, two legacy callers | 2 messages, capacity 2, page sizes 1 and 2, 3 pushes |
| `ingest` | watermarks account for every row; nothing fed twice; `Delivery` implemented; every row handled in the end | 2 databases, one table each (3 rows, the second unreadable, and 1 row), 2 kills, 1 failure |
| `ingest_backlog` | violation, finding 1 | the same, no failure |
| `history` | pages are slices of the merged list; a finished run is complete; paging ends | 2 tables, 4 messages in 4 rows, one of them undecodable and one a new id of another, page size 1, offsets up to 1, 1 failed table |
| `history_order` | violation, finding 2 | 1 table, 3 messages of one second |
| `router` | the cache agrees with the screen; images and texts to the main window reach their chat; windows belong to targets | 2 chats and an unknown name, 1 engine failure, click, search or pop-out that is not followed in time, 2 attempts at a pop-out |
| `router_focus` | violation, finding 3 | 2 chats |
| `dispatch` | echoes confirm, confirmations are backed by the database, files live long enough and are removed, every request is answered | 2 requests out of a text, a file and an image, a message from the phone; queue and echo buffer of 1, `Outlasts` 2 |
| `recovery` | a client that follows the documentation, but begins each history run a little before its checkpoint, loses nothing and gets every message, each once (one whose server id comes late, at most twice) | 2 tables in 2 databases, 3 rows, one of the account's own; channel and wire of 1; 2 faults |
| `listen` | what was reported as added is saved and is listened to again; reload applies the file | 3 chats, one with a name that is not TOML, 1 administrator, 1 caller, 3 commands, 2 ends of the process, 1 failing read or write |
| `boot` | whoever looks in calm finds WeChat; the connection recovers; a login gets its database, or boot knows what it went on without | 2 buses, 1 caller, 1 time-out, 1 end (of a bus, WeChat, a login or the program) |
| `boot_gives_up` | violation, finding 4 | 1 bus, no caller, nothing ends, 2 time-outs |

Why these bounds are enough to be of interest:

* Two capacities of 1 or 2 make every queue, ring and receiver overflow. More
  pushes than the capacity make eviction meet a slow reader.
* Two databases, of which either may be missing, late or without a key, give
  every order of "connected, marked, scanned"; three rows with a hole give a
  watermark that has to jump over an unreadable row, and a batch of two chunks.
  Two kills give a restart whose own state is lost again.
* Three messages in two tables are the least for which a table can have
  more rows than a page asks for while another has the next one; the fourth is of a
  later second. One of the first three cannot be decoded, one is what another's id
  changes to. Page size 1 and offset 1 cut two rows of three; four rows in all let both
  tables be cut. `history_order` asks with page sizes 1 and 2.
* Two chats are the least for which one can be mistaken for the other; a name
  nobody has exercises the failing search. One failure, or one click, search or
  pop-out that is not followed in time, is enough as every command starts from
  whatever the last one left, and what is late may come during any of them.
* In `dispatch` the text's words are part of the file's name and are those of the message
  from the phone, so each can be taken for another. `Outlasts` 2 is the least that is
  more than the queue holds; two requests at once fill queue and actor.
* In `recovery` a channel of 1 lags with the second event. Three rows with times 1,
  2, 3 in two tables can be written in two orders across the tables, polled in one
  batch in either, and be under way while a checkpoint passes them; two faults are a
  restart during the recovery from another one. `Skew` 1 makes rows come late;
  `Overlap` 1 is the least that copes with it.
* In `listen` three commands give two listens and a reload, or calls in between; two kills hit a save and the restart after it.
* In `boot` the first bus has two applications besides WeChat and the second none, so
  that the old bus stays attractive for the scan of the sockets; `Limit` and `Period`
  are 2 instead of 30 and 5, so that both are reached. One end and one time-out in any
  place meet every step of the three tasks. `KeyTries` is 1: the key may be there
  before, come during the wait, after it, or never.
* The bounds (`MaxCursor`, `MaxRow`, `MaxCrash`, `MaxFail`, `MaxRuns`,
  `MaxRows`, `MaxError`, `MaxBegun`, `MaxFaults`, `WireCapacity`, `MaxCommands`, `MaxKills`,
  `MaxBus`, `MaxTimeouts`, `MaxEnds`) are constants that stand in guards only.

`CHECK_DEADLOCK FALSE` is in every configuration whose bounds make the
behaviour end (all pushes done, all requests answered). The real program has
no such end. `boot` and `boot_gives_up` go on for ever, with the heartbeat.

Every property of a passing run has a mutant: a plausible wrong version of a
mapped definition, kept beside it and marked `mutant`, under which TLC finds the
property violated.

## 4. Fairness

* `MessageStore`: a started `push` finishes (nobody holds the lock for
  ever); a polling client asks again (WF) and does not lose responses for ever
  (SF). Pushes are not fair: messages may stop.
* `Ingest`: WF of the process as a whole: the supervisor (`docker/start.sh`)
  restarts it, its loops run on, and the 30 s timeout makes it poll without WAL
  events. Kills, failures, rows and keys are not fair; failures are bounded.
* `History`: WF of server and client, SF of receiving.
* `ChatRouter`: WF of the actor's steps; every wait in them is bounded by a
  deadline. Windows need not close, commands need not come.
* `Dispatch`: WF of the actor, and of each handler and each spawned clean-up.
  tokio's channel lets waiting senders in in turn. WeChat need not record what
  was typed, the listener may be late, clients need not go away, the actor need not
  panic.
* `Recovery`: WF of the listener, of the socket's tasks and of the client: all are
  loops that wait for input only. Writing and faults are not fair; faults are bounded.
* `ListenConfig`: WF of the actor's reply and of each task's own steps, SF of a task's
  turn at the actor, whose queue is first come, first served. Commands, kills and
  failures are not fair.
* `Boot`: WF of the boot task, the heartbeat and a caller that is under way, and of the
  expiry of the cached node. Nobody has to start WeChat, log in or call, and the
  extractor need not come by the key, in the two minutes boot waits for it or ever.
  `LoginIsSeen` therefore says that boot ends, with the database or with what it went
  on without (`missed`), not that the database is mounted.

## 5. Findings

1. `ingest_backlog`: `mark_all_read` marks only the databases connected then; one
   whose key comes later has its whole history fed as new messages.
2. `history_order`: of a table, history takes rows in the order of `local_id`,
   but pages are cut in the order of `message_id`: with more rows of one
   second than `offset + limit + 1`, a page is wrong and a message can be left
   out for good (with page size 1, three messages of one second are enough). The comment claims the merged page is guaranteed.
3. `router_focus`: the fast path of `chat_with` does not take the focus back, so a
   text goes into another chat's window.
4. `boot_gives_up`: the looks that wait for a login use up the attempts meant for a
   WeChat that does not start. After 90 s of waiting for somebody to scan the code, one
   look whose two scans time out makes boot go on without WeChat; two minutes later it
   has no database for good, although somebody logs in afterwards, the key is found and
   the README says that the initialisation continues with the login.

Known limits. These follow from the code too. Where constants or definitions to change
are given, TLC shows them in the model so changed; no run is kept for them.

* A switch of the main window is recorded as done when any message list is there, or
  even after its wait ran out (`src/wechat.rs:486-516`, `590-656`). When WeChat did not
  follow in time, a text for the chat that was asked for goes to the one that is open,
  by this command and by every later one that trusts the cached chat, until the next
  switch that is followed. A search without the focus on the main window types the name
  into the window that has it. `MCChatRouter` violates `CacheMatchesScreen` without its
  `~ misled`, `MainTextReachesTarget` without its `d.sure`, and `ImageReachesTarget`
  without the `d.clean` of `Typed`.
* A window that pops out after its wait takes the focus from whatever command is under
  way by then.
* After a search for a chatroom id the cached chat is the one open before, and the
  next command for it goes to the room (`src/wechat.rs:653`). `MCChatRouter` with
  `Name <- MCWithRoom`, `Contact <- MCWithRoom`, `RoomId = {room}` violates
  `CacheMatchesScreen`.
* A text that was not sent is answered `verified=true` when a message with the same
  words comes back (`src/api.rs:888`); files are guarded against it. `MCDispatch`
  violates `VerifiedWasSent`.
* Without an X11 engine requests hang where the documentation has 503
  (`src/main.rs:91`). `MCDispatch` with `HasEngine = FALSE` violates
  `UnavailableWithoutEngine`.
* A file is removed 900 s after its request timed out, though its command may still be
  queued: with 32 commands ahead of it that take 31 s each and more, the actor finds no
  file (`src/api.rs:1122-1128`). `MCDispatch` with `Outlasts = 1` violates
  `FileThereForActor`.
* The temporary file of an image is left in `/tmp` when it cannot be written to its end
  (`src/api.rs:1005`), when the queue is closed (`1019`), and when the client goes away;
  `TempFilesRemoved` leaves these out.
* A row of the history that cannot be decoded is dropped after it took one of the
  `offset + limit + 1` places (`src/db.rs:1191`): a page can be short, `has_more` false,
  and a run can end without messages that are there, with nothing in the response to
  say so. `MCHistory` without `Short` in `ReadTable` violates `RunComplete` and, with
  `MCUnreadable == {1, 2}`, `MergedPagePresent`. A message whose id changes from the local
  to the server's moves within its second: pages of a run may repeat it, or leave
  another one out.
* A client that asks the history from exactly its last `create_time`, as the steps in
  `docs/API.md` say, can lose a row that was written late or pushed behind a newer
  one of the same batch: `MCRecovery` with `Overlap = 0` violates `NoMessageLost`. It
  has to go back by at least the skew of the rows. The same document says that the
  protocol is no at-least-once guarantee.
* Where a database's Name2Id knows its own chats only, a scan that meets another
  database first gives its messages the chat of their table's name: one of the account's
  own messages can then have three ids, and be processed three times (`MCRecovery` with
  `Names <- MCOwnNames` violates `ProcessedOnce`, and `TypeOK`, which bounds the count).
  None is lost by that: `NoMessageLost` and `EveryMessageArrives` hold there too.
* A connection subscribes after the upgrade has been answered: a client that begins
  its history run before then can miss what is pushed in between. `Recovery` assumes it
  does not (`BeginRun`).
* Two administrators at once can write the file over each other, and the second may
  read it truncated and empty it: `MCListenConfig` with `Admin = {console, command}`
  violates `PromisedIsSaved`. So does a listen given while the targets of the file
  are still being added (`Patient = FALSE`): it saves the part of the list there is.
* `listen` answers `[ok]` whether or not it saved: not when the file cannot be read or
  written, when the process started without one (`config_path` is `None`), or when the
  file has neither an auto line nor a `[listen]` (`src/api.rs:1505-1512`,
  `src/config.rs:90-97`, `133-142`). The target is on the list until the process ends.
* A chat whose name has a quote or a backslash makes the file unparsable
  (`src/config.rs:103`): `reload` then fails, and the next start falls through to the default
  configuration, without any targets, and without a file to save to
  (`src/config.rs:67-86`).
* A kill while the file is written loses the list and the rest of the file.
  In all these cases `ListenConfig` says `unsaved` and, once the process has ended,
  `lost`, and its properties claim nothing of what was promised.
* A key that comes later than 120 s after the login was seen is not used until the next
  start (`src/main.rs:176-184`). Nor is there a second attempt when the directory is
  missing, the key has the wrong length or the database cannot be opened
  (`src/main.rs:291-305`).
* The heartbeat's reconnect leaves a cached node of the old bus, and `try_reconnect`
  clears it before it reconnects rather than after: for up to 30 s WeChat then seems
  to wait for its login (`Expire` ends this).

## 6. Proofs

Every invariant, action property and refinement that a passing run checks is also a
theorem, proved by TLAPS for every value of the constants that the module's
assumption admits. TLC evaluates these assumptions in the runs. Some theorems have a
hypothesis of their own. Without it TLC finds a property violated (section 5), if not
always the one of the theorem: `NoMessageLost` rests on `OneNaming` in the proof only.
Each holds of the constants of the run that checks the property:

| Hypothesis | Of | Says | Without it |
|---|---|---|---|
| `NamesTellApart` | `ChatRouter` | no title contains another chat's name, nobody asks for a chatroom id | known limit, chatroom id |
| `IdsInRowOrder` | `History` (a constant) | ids of one second ascend like the rows of a table | finding 2 |
| `CommandsAreQuick` | `Dispatch` | the actor is through more commands than the queue holds in 1020 s | known limit, files |
| `OneAdministrator` | `ListenConfig` | one administrator, who waits for the targets of a start | known limit, two administrators |
| `OneNaming` | `Recovery` | the databases that hold messages tell a chat alike | known limit, Name2Id |
| `OverlapSuffices` | `Recovery` | the client goes back by the skew of the rows at least | known limit, `Overlap = 0` |

A module's `InductiveInvariant` is the strengthening its theorems follow from: the
properties themselves say nothing of what is under way between two steps.

### MessageStore

For all messages, readers, filters, page sizes, capacities and numbers of legacy
callers (`MessageStoreAssumption`):

* `TypeCorrect`: `Spec => []TypeOK`
* `BufferCorrect`: `Spec => []BufferIsNewest`
* `ReadersSkipNothing`: `Spec => []ReaderSkipsNothing`
* `ReadersRepeatNothing`: `Spec => []ReaderRepeatsNothing`
* `LegacyCallersDropNothing`: `Spec => []LegacyDropsNothing`

All five follow from `InductiveInvariant`. The properties are not inductive:
they say nothing of what is in flight. The strengthening adds that a stored
entry carries the newest cursor; that everything a response in flight holds is a
pushed message newer than the reader's `after`, and that every message between
`after` and the response's `next_cursor` which the reader wants is in it, or was
evicted before it was computed; that what a reader has seen is not newer than
`after`; and the same for the locals of `take_legacy`, whose page covers
everything up to its last cursor from the shared cursor it loaded, which may
have moved meanwhile in either direction. The key lemma in each step
is `BufferIsNewest`: cursors in the buffer are contiguous, so "newer than the
page's last" and "behind it in the buffer" are the same.

### Ingest

For any databases, tables, unreadable rows, kills and failures
(`IngestAssumption`):

* `TypeCorrect`: `Spec => []TypeOK`
* `WatermarksAccountForRows`: `Spec => []Accounted`
* `RowsFedOnce`: `Spec => []FedOnce`
* `ImplementsDelivery`: `Spec => DeliverySpec`

There are four versions of a watermark: saved, in memory, the copy of a scan, and
that of the last row fed. `WatermarksInOrder` says which is ahead of which at each
step. The core is `PendingIsTheGap`: while the listener serves, what is read
and not fed is exactly the readable rows between the last row fed and how far the
scan has read. So a crash between save and feed loses the pending rows and no
others, and the saved watermarks cover what was fed, was pending, or was marked as
read (`MemoryAccounted` says the same of memory, from which they are saved).
`FedOnce` rests on `FedIsSaved`: what was fed, in this run or before, is behind the
saved watermarks as long as saves succeed. The refinement maps a step to a
step of `Delivery` or a stutter; that `Push` feeds the *next* row of its table is
`PendingIsTheGap` and `ChunksInOrder` once more.

### History

For any tables, rows, undecodable rows, changes of ids, filters, page sizes, offsets,
lost responses and failed tables (`HistoryAssumption`):

* `TypeCorrect`: `Spec => []TypeOK`
* `MergedPages`: `IdsInRowOrder` implies `Spec => []MergedPagePresent`
* `RunsComplete`: `IdsInRowOrder` implies `Spec => RunComplete`

The last two follow from `PagesInvariant`. A query cuts each table after
`offset + limit + 1` rows, while rows come at any time; what makes that enough is
`Placed`, the messages the query can still put where they belong: those it has read
or is yet to read, and those that have as many rows ahead of them among what was
read as the page and all before it hold. A message once placed stays so. `RunComplete`
needs more: what the client lacks is not passed over by its offset. A new row can only
raise a message's rank, and a query's answer moves the offset no further than the
page reaches (`NotPassedOver`). A dropped row does no harm to this as long as the table
has no further row that it stands in place of; that is all that `Short` excludes.

### ChatRouter

For all names, titles, numbers of attempts, of engine failures and of clicks, searches
and pop-outs that WeChat does late or never
(`ChatRouterAssumption`):

* `TypeCorrect`: `Spec => []TypeOK`
* `KeptWindowsAreTargets`: `Spec => []WindowsAreTargets`
* `NewWindowsAreForTargets`: `Spec => WindowsOnlyForTargets`

They follow from `WindowInv`, which adds that the actor only takes the steps of its
command's kind (`StepFitsKind`), and that a chat that is being popped out is a
listen target already (`PoppingTarget`): `add_listen` enters it before anything else,
and no command can remove it while this one runs. A window that comes late was
asked for by that command, so the properties speak of what is on its way too.

Where messages go is proved under one more condition, `NamesTellApart`: no title
contains another chat's name, and nobody asks for a chatroom id. It is
needed: windows and sessions are found by substring, so a chat whose name is part
of another's may be mistaken for it, and the first of the known limits is what a
chatroom id does.

* `CacheCorrect`: `Spec => []CacheMatchesScreen`
* `ImagesReachTheirChat`: `Spec => []ImageReachesTarget`
* `MainTextsReachTheirChat`: `Spec => []MainTextReachesTarget`

They follow from `RouteInv`. It adds `CacheRight`, which says of every step but one
what `CacheMatchesScreen` says of the steps between commands (the double click
changes the screen before `add_listen` resets the cache); `OwnWindows`, that a window
is registered under its own name; and `ReadyToType`, what each of the two ways to
the edit box leaves: the chat's window alive before it is raised, the forced
switch of an image finding no cached chat, and the chat open in the main window if
the focus is there. All of it is said of the time since the last switch that was
followed (`~ misled`), and an image, which switches itself, needs no more than that its
own command was (`clean`).

### Dispatch

For any requests, any relation between the contents of requests and messages, and any
capacities of queue and receivers (`DispatchAssumption`):

* `TypeCorrect`: `Spec => []TypeOK`
* `FilesOutliveRequests`: `CommandsAreQuick` implies `Spec => []FileThereForActor`
* `VerifiedFromDatabase`: `Spec => []ConfirmedByDatabase`
* `EchoesConfirm`: `Spec => []EchoConfirms`

`FilesOutliveRequests` is about time: a command that is `i`-th in the queue has its file's
clean-up at least `i` commands away, and one more while another is executed (`Timely`).
`Outlasts > QueueSize` is what makes it so when a command is queued last, and each reply
takes one from both sides. With `OneCommand` (a request is in the queue once or being
executed, not both) a file is there from its request to the end of its execution
(`FilesKept`). `HeardIsNew` says
that a receiver holds only what came out of the database after its request began,
which is why a confirmation cannot come from an older message. `EchoHeard` says
that the echo of a message that came back is in its handler's receiver until the
handler takes it, unless the receiver has lost something.

### Recovery

For any tables, databases, rows and times, capacities, skew and faults
(`RecoveryAssumption`):

* `TypeCorrect`: `OneNaming` implies `Spec => []TypeOK`
* `ProcessedAtMostOnce`: `OneNaming` implies `Spec => []ProcessedOnce`
* `NoMessageIsLost`: `OneNaming` and `OverlapSuffices` imply
  `Spec => []NoMessageLost`

The first two follow from `InductiveInvariant`: every event on its way, wherever it is,
tells a row by one of its ids, and a row was processed as often as ids of
it are done (`IdsCounted`). A row of others has one id, one of the account's own two.
`NoMessageIsLost` follows from `StreamInvariant`, an argument about time. What the
client lacks is no older than its checkpoint less the skew (`WithinOverlap`), so the
next run asks for it. What a run does not find was written after its table was read,
is no older than the skew behind anything written, and is on its way over the
connection if that is good (`RunFinds`). And in the pipe from the server to the
client, whatever would move the checkpoint past a message comes behind that message
(`InOrder`). This holds although a batch is broadcast out of time order: what is not
broadcast yet is never older than the skew (`LateRows`).

`Poll` flattens a sequence of batches with the library's `FlattenSeq`, a recursive
function. `FlattenRange` has its range by the least counterexample
(`LeastNatural`), which needs no induction theorem.

### ListenConfig

For any names, administrators, callers, commands, kills and failing reads and writes
(`ListenConfigAssumption`):

* `TypeCorrect`: `Spec => []TypeOK`
* `ReloadsApply`: `Spec => ReloadApplies`
* `PromisesKept`: `OneAdministrator` implies `Spec => []PromisedIsSaved`

For the first two, `ReloadKnows`: as long as nothing else changes list or file, the
requests a reload has left are all in which the list differs from the file. When it
has none left they are equal. For the third, `PromisedIsListed`: what was promised is
on the list or will be when the targets of a start are added, so any list that a
command reads and saves later contains it. So does the list of one that is on its way
to the file already (`SaveKeeps`). A failed save, or one that wrote what does not parse, is
made good by the next that succeeds, since every save writes the whole list.

### Boot

For any buses, applications on them, callers, time-outs and ends
(`AccessibilityAssumption`, `BootAssumption`):

* `TypeCorrect`: `Spec => []TypeOK`
* `CalmLooksFind`: `Spec => []CalmLookFinds`

In calm (`Calm`: WeChat is on the bus in use) asking `org.a11y.Bus` gives WeChat's bus. So whoever began to reconnect since the last
disturbance swaps to it (`RecentKnow`), and while nobody is under way from before,
no other task can lead a look astray between two of its calls (`LooksFind`).

### What stays with TLC

Liveness under fairness is out of the prover's reach: `PollingReaderCatchesUp`,
`EveryRowHandled`, `RunEnds`, `EveryCommandEnds`, `RequestsAnswered`,
`TempFilesRemoved`, `EveryMessageArrives`, `PromisedIsRestored`,
`ConnectionRecovers`, `LoginIsSeen`. So are the four findings, which are
counterexamples.

## 7. Plan

Done: `MessageStore`, `ChatRouter`, `Ingest` with `Delivery`, `Dispatch`, `History`,
`Recovery`, `ListenConfig`, `Accessibility` with `Boot`.
All their safety properties, and `Ingest => Delivery`, are proved.

Left, most important first:

1. A `ChatRouter` instance with names that contain each other, and the drafts left in
   an edit box when Enter fails.
2. `Contacts`: two refreshes at once. `parse_range_header` against a reference.

## 8. Not modelled, and why

* XML parsing of messages, decompression, decryption: data conversion without
  control.
* `refresh_contacts`: it stores a map of names twice, and two refreshes can undo each
  other's room names until the next one; no decision of the modelled parts reads it.
* Byte ranges and the lookup of attachments: a pure function, and I/O.
* The accessibility tree below WeChat: `ChatRouter` takes the outcome of a search as
  nondeterministic. `Accessibility` has the search for WeChat itself, and of the tree
  only whether its navigation is there.
* Key codes, clipboard protocol, fanotify: I/O.
* The console's line editor and the commands that only print.
* Routing and authentication keep no state. The framework adapter is a client in
  another language.
* Memory scanning of the key extractor; its atomic growth of the key map is in
  `Ingest`.
* Checks of a request's fields, which return before anything happens.
