------------------------------ MODULE Dispatch ------------------------------
(***************************************************************************)
(* The way of a send request through src/src/api.rs: the HTTP handler      *)
(* (dispatch_text, send_image, send_file) writes the temporary file, takes *)
(* a receiver of the broadcast of the account's own messages, queues a     *)
(* command for the one InputEngine actor, waits for the actor's reply,     *)
(* then waits for the message to come back from WeChat's database          *)
(* (verify_sent of src/src/db.rs) and answers.                             *)
(*                                                                         *)
(* A handler can be dropped at any of these waits, when its client goes    *)
(* away; the command it queued is executed all the same.  The actor may be *)
(* slower than the 120 s a file request waits, and may panic, which closes *)
(* the queue.  What the actor does with the windows is in ChatRouter; here *)
(* a command types its message or does not, and reports so.  Messages the  *)
(* user sends from another device come back from the database too.         *)
(* Requests that only open a chat or change the listen list go the same    *)
(* way as an image, without its file.                                      *)
(***************************************************************************)
EXTENDS Integers, Sequences, FiniteSets

CONSTANTS
  Request,    \* requests, each made once
  Kind,       \* per request: "text", "image" or "file"
  Phone,      \* messages sent from another device
  Content,    \* per request or phone message: its text, or the name of its file
  Contains,   \* <<c, d>>: text c contains text d
  QueueSize,  \* capacity of the command queue (32 in main.rs)
  SentSize,   \* capacity of the broadcast of own messages (32 in db.rs)
  HasEngine,  \* whether the X11 engine could be created, so that the actor runs
  Outlasts,   \* commands the actor gets through, if it has them, in the 120 s a
              \* file request waits and the 900 s its clean-up sleeps
  MaxBegun,   \* bound: requests made in a behaviour
  NoRequest,  \* the actor is idle
  NoAnswer    \* a request that has none yet

Message == Request \cup Phone

ASSUME DispatchAssumption ==
  /\ Request \cap Phone = {} /\ NoRequest \notin Message
  /\ Kind \in [Request -> {"text", "image", "file"}]
  /\ DOMAIN Content = Message
  /\ \A m \in Message : <<Content[m], Content[m]>> \in Contains
  /\ QueueSize \in Nat \ {0} /\ SentSize \in Nat \ {0} /\ HasEngine \in BOOLEAN
  /\ Outlasts \in Nat /\ MaxBegun \in Nat

VARIABLES
  db,          \* whether the database is mounted
  stage,       \* per request: where its handler is
  answer,      \* per request: its answer
  subscribed,  \* requests whose handler took a receiver (the database was mounted)
  heard,       \* per request: what its receiver holds
  reported,    \* per request: `sent` of the actor's reply
  queue,       \* mpsc channel of commands
  current,     \* the command the actor executes
  stopped,     \* whether the actor's task is gone
  typed,       \* requests whose message was typed
  unpolled,    \* own messages WeChat recorded and the listener has not polled
  files,       \* requests whose temporary file exists
  cleaners,    \* file requests whose delayed clean-up was spawned
  sleep,       \* per request: commands the actor will be through before its
               \* clean-up is due; 0 when the time says nothing of the actor
  polled,      \* history: own messages polled, or marked as read by boot
  before,      \* history, per request: polled when its handler began
  returned,    \* history: requests whose message was polled while they waited
  lagged       \* history: requests whose receiver lost something

handler == <<stage, answer>>
receiver == <<subscribed, heard>>
actor == <<reported, queue, current, stopped>>
wechat == <<typed, unpolled>>
disk == <<files, cleaners, sleep>>
history == <<polled, before, returned, lagged>>
vars == <<db, stage, answer, subscribed, heard, reported, queue, current, stopped, typed,
          unpolled, files, cleaners, sleep, polled, before, returned, lagged>>

Stage == {"new", "entering", "waiting", "verifying", "answered", "dropped"}
Answer == [status : {"ok", "error", "unavailable"}, sent : BOOLEAN, verified : BOOLEAN]

HasFile(r) == Kind[r] \in {"image", "file"}
Verifies(r) == Kind[r] \in {"text", "file"}

\* verify_sent compares contents, in both directions, and nothing else.
Matches(m, r) ==
  <<Content[m], Content[r]>> \in Contains \/ <<Content[r], Content[m]>> \in Contains

Recorded(m) == m \in unpolled \cup polled

\* Whether the handler is under way.
Alive(r) == stage[r] \in {"entering", "waiting", "verifying"}

\* The requests whose receiver is there to hear a message.
HearingLate ==                            \* mutant: subscribe after the reply
  {r \in subscribed : stage[r] = "verifying"}
Hearing == {r \in subscribed : Alive(r)}

-----------------------------------------------------------------------------
Init ==
  /\ db = FALSE
  /\ stage = [r \in Request |-> "new"]
  /\ answer = [r \in Request |-> NoAnswer]
  /\ subscribed = {} /\ heard = [r \in Request |-> <<>>]
  /\ reported = [r \in Request |-> FALSE]
  /\ queue = <<>> /\ current = NoRequest /\ stopped = FALSE
  /\ typed = {} /\ unpolled = {} /\ files = {} /\ cleaners = {}
  /\ sleep = [r \in Request |-> 0]
  /\ polled = {} /\ before = [r \in Request |-> {}] /\ returned = {} /\ lagged = {}

(***************************************************************************)
(* WeChat's database and its listener                                      *)
(***************************************************************************)

\* Boot ends; what it marked as read will not be polled.
MountDb ==
  /\ ~ db /\ db' = TRUE
  /\ \E read \in SUBSET unpolled :
       unpolled' = unpolled \ read /\ polled' = polled \cup read
  /\ UNCHANGED <<handler, receiver, actor, typed, disk, before, returned, lagged>>

\* WeChat records a message that was typed here or sent from elsewhere.
Record(m) ==
  /\ m \in typed \cup Phone /\ ~ Recorded(m)
  /\ unpolled' = unpolled \cup {m}
  /\ UNCHANGED <<db, handler, receiver, actor, typed, disk, history>>

PollUnbounded(m) ==                       \* mutant: receivers keep everything
  /\ db /\ m \in unpolled
  /\ unpolled' = unpolled \ {m} /\ polled' = polled \cup {m}
  /\ heard' = [r \in Request |-> IF r \in Hearing THEN Append(heard[r], m) ELSE heard[r]]
  /\ returned' = returned \cup {r \in {m} \cap Request : Alive(r)}
  /\ UNCHANGED <<db, handler, subscribed, actor, typed, disk, before, lagged>>
\* get_new_messages broadcasts it; a full receiver loses its oldest message.
Poll(m) ==
  /\ db /\ m \in unpolled
  /\ unpolled' = unpolled \ {m} /\ polled' = polled \cup {m}
  /\ heard' = [r \in Request |->
       IF r \notin Hearing THEN heard[r]
       ELSE IF Len(heard[r]) < SentSize THEN Append(heard[r], m)
       ELSE Append(Tail(heard[r]), m)]
  /\ lagged' = lagged \cup {r \in Hearing : Len(heard[r]) = SentSize}
  /\ returned' = returned \cup {r \in {m} \cap Request : Alive(r)}
  /\ UNCHANGED <<db, handler, subscribed, actor, typed, disk, before>>

(***************************************************************************)
(* The handler                                                             *)
(***************************************************************************)
Goto(r, next) == stage' = [stage EXCEPT ![r] = next]

Respond(r, status, sent, verified) ==
  /\ Goto(r, "answered")
  /\ answer' = [answer EXCEPT ![r] = [status |-> status, sent |-> sent, verified |-> verified]]

\* A client makes a request.
MayBegin(r) ==
  stage[r] = "new" /\ Cardinality({q \in Request : stage[q] # "new"}) < MaxBegun

\* Write the temporary file, subscribe, and ask for a place in the queue.
Begin(r) ==
  /\ MayBegin(r) /\ Goto(r, "entering")
  /\ files' = IF HasFile(r) THEN files \cup {r} ELSE files
  /\ subscribed' = IF db /\ Verifies(r) THEN subscribed \cup {r} ELSE subscribed
  /\ before' = [before EXCEPT ![r] = IF r \in subscribed' THEN polled ELSE {}]
  /\ UNCHANGED <<db, answer, heard, actor, wechat, cleaners, sleep, polled, returned, lagged>>

\* The temporary file cannot be created, or not written to its end.  What was
\* written of a file is removed with its directory, what was of an image stays.
BeginFails(r) ==
  /\ MayBegin(r) /\ HasFile(r)
  /\ Respond(r, "error", FALSE, FALSE)
  /\ files' \in IF Kind[r] = "image" THEN {files, files \cup {r}} ELSE {files}
  /\ UNCHANGED <<db, receiver, actor, wechat, cleaners, sleep, history>>

\* There is a place in the queue.
Enter(r) ==
  /\ stage[r] = "entering" /\ ~ stopped /\ Len(queue) < QueueSize
  /\ queue' = Append(queue, r) /\ Goto(r, "waiting")
  /\ sleep' = [sleep EXCEPT ![r] = IF HasEngine THEN Outlasts ELSE 0]
  /\ UNCHANGED <<db, answer, receiver, reported, current, stopped, wechat, files, cleaners,
                 history>>

\* The queue is closed: a file is removed at once, an image is not.
Refused(r) ==
  /\ stage[r] = "entering" /\ stopped
  /\ Respond(r, "unavailable", FALSE, FALSE)
  /\ files' = IF Kind[r] = "file" THEN files \ {r} ELSE files
  /\ UNCHANGED <<db, receiver, actor, wechat, cleaners, sleep, history>>

\* The actor is gone, and with it the sender of the reply.
Abandoned(r) ==
  /\ stage[r] = "waiting" /\ stopped
  /\ Respond(r, "error", FALSE, FALSE)
  /\ files' = IF Kind[r] = "image" THEN files \ {r} ELSE files
  /\ cleaners' = IF Kind[r] = "file" THEN cleaners \cup {r} ELSE cleaners
  /\ UNCHANGED <<db, receiver, actor, wechat, sleep, history>>

FileTimeoutRemoves(r) ==                  \* mutant: clean up at once
  /\ stage[r] = "waiting" /\ Kind[r] = "file"
  /\ Respond(r, "unavailable", FALSE, FALSE)
  /\ files' = files \ {r}
  /\ UNCHANGED <<db, receiver, actor, wechat, cleaners, sleep, history>>
\* 120 s without a reply; the command stays where it is.
FileTimeout(r) ==
  /\ stage[r] = "waiting" /\ Kind[r] = "file"
  /\ Respond(r, "unavailable", FALSE, FALSE)
  /\ cleaners' = cleaners \cup {r}
  /\ UNCHANGED <<db, receiver, actor, wechat, files, sleep, history>>

\* The delayed removal of a file, whatever has become of its command.  After a
\* timeout that is not before the actor is through Outlasts commands or has had
\* none to execute since the request was queued.
Cleanup(r) ==
  /\ r \in cleaners /\ sleep[r] = 0
  /\ files' = files \ {r} /\ cleaners' = cleaners \ {r}
  /\ UNCHANGED <<db, handler, receiver, actor, wechat, sleep, history>>

\* verify_sent: the next message the receiver holds.
Hear(r) ==
  /\ stage[r] = "verifying" /\ heard[r] # <<>>
  /\ heard' = [heard EXCEPT ![r] = Tail(@)]
  /\ IF Matches(Head(heard[r]), r)
     THEN Respond(r, "ok", reported[r], TRUE)
     ELSE UNCHANGED <<stage, answer>>
  /\ UNCHANGED <<db, subscribed, actor, wechat, disk, history>>

VerifyTimeoutAccepts(r) ==                \* mutant: no contradiction counts as confirmed
  /\ stage[r] = "verifying" /\ heard[r] = <<>>
  /\ Respond(r, "ok", reported[r], TRUE)
  /\ UNCHANGED <<db, receiver, actor, wechat, disk, history>>
VerifyTimeoutIfLagged(r) ==               \* mutant: only a lagging receiver ends the wait
  /\ stage[r] = "verifying" /\ heard[r] = <<>> /\ r \in lagged
  /\ Respond(r, "ok", reported[r], FALSE)
  /\ UNCHANGED <<db, receiver, actor, wechat, disk, history>>
\* 5 s without a match.  What is in the receiver is looked at long before.
VerifyTimeout(r) ==
  /\ stage[r] = "verifying" /\ heard[r] = <<>>
  /\ Respond(r, "ok", reported[r], FALSE)
  /\ UNCHANGED <<db, receiver, actor, wechat, disk, history>>

\* The client goes away and the handler is dropped where it waits; what it
\* would have removed is left.
Disconnect(r) ==
  /\ Alive(r) /\ Goto(r, "dropped")
  /\ heard' = [heard EXCEPT ![r] = <<>>]
  /\ UNCHANGED <<db, answer, subscribed, actor, wechat, disk, history>>

(***************************************************************************)
(* The actor                                                               *)
(***************************************************************************)
Take ==
  /\ HasEngine /\ current = NoRequest /\ queue # <<>>
  /\ current' = Head(queue) /\ queue' = Tail(queue)
  /\ UNCHANGED <<db, handler, receiver, reported, stopped, wechat, disk, history>>

Type ==
  /\ current \in Request \ typed /\ typed' = typed \cup {current}
  /\ UNCHANGED <<db, handler, receiver, actor, unpolled, disk, history>>

\* What a handler does with the reply.  Without a database `verified` is what
\* the accessibility tree showed, for a text; a chat that was not found gives
\* no error.  A handler that has given up does nothing.
Text(r, status, sent) ==
  IF status = "ok" /\ r \in subscribed
  THEN Goto(r, "verifying") /\ UNCHANGED answer
  ELSE \E shown \in BOOLEAN : Respond(r, status, sent, shown /\ sent)
Image(r, status, sent) == Respond(r, status, sent, FALSE)
File(r, status, sent) ==
  IF status = "ok" /\ sent /\ r \in subscribed
  THEN Goto(r, "verifying") /\ UNCHANGED answer
  ELSE Respond(r, status, sent, FALSE)

\* The image is removed whatever the reply says.
RemovesImageIfSent(status) == status = "ok"  \* mutant: an error returns first
RemovesImage(status) == TRUE

OnReply(r, status, sent) ==
  \/ stage[r] # "waiting" /\ UNCHANGED <<handler, files, cleaners>>
  \/ /\ stage[r] = "waiting" /\ Kind[r] = "text" /\ Text(r, status, sent)
     /\ UNCHANGED <<files, cleaners>>
  \/ /\ stage[r] = "waiting" /\ Kind[r] = "image" /\ Image(r, status, sent)
     /\ files' = IF RemovesImage(status) THEN files \ {r} ELSE files
     /\ UNCHANGED cleaners
  \/ /\ stage[r] = "waiting" /\ Kind[r] = "file" /\ File(r, status, sent)
     /\ cleaners' = cleaners \cup {r} /\ UNCHANGED files

\* The command ends: typed, chat not found, or an error at some point.
Reply ==
  /\ current # NoRequest
  /\ \E status \in {"ok", "error"} :
       LET sent == status = "ok" /\ current \in typed
       IN  /\ OnReply(current, status, sent)
           /\ reported' = [reported EXCEPT ![current] = sent]
  /\ current' = NoRequest
  /\ sleep' = [r \in Request |->
       IF r = current \/ queue = <<>> \/ sleep[r] = 0 THEN 0 ELSE sleep[r] - 1]
  /\ UNCHANGED <<db, receiver, queue, stopped, wechat, history>>

\* The actor panics at a command; those still queued go with it.
Stop ==
  /\ current # NoRequest /\ stopped' = TRUE
  /\ queue' = <<>> /\ current' = NoRequest /\ sleep' = [r \in Request |-> 0]
  /\ UNCHANGED <<db, handler, receiver, reported, wechat, files, cleaners, history>>

-----------------------------------------------------------------------------
Handler(r) == Enter(r) \/ Refused(r) \/ Abandoned(r) \/ Hear(r) \/ VerifyTimeout(r)
Actor == Take \/ Type \/ Reply

Next ==
  \/ MountDb \/ Actor \/ Stop
  \/ \E m \in Message : Record(m) \/ Poll(m)
  \/ \E r \in Request :
       \/ Begin(r) \/ BeginFails(r) \/ Handler(r) \/ Disconnect(r)
       \/ FileTimeout(r) \/ Cleanup(r)

Spec == Init /\ [][Next]_vars

(***************************************************************************)
(* The actor and the handlers are tasks of the runtime, every wait of the  *)
(* actor is bounded, and a spawned clean-up runs after its sleep.  Clients *)
(* need not go away, WeChat need not record what was typed, the listener   *)
(* may be late.  Waiting senders are let in in turn (tokio's semaphore);   *)
(* each request enters once, so weak fairness is enough here.  Nothing     *)
(* makes the actor panic.                                                  *)
(***************************************************************************)
FairSpec ==
  /\ Spec
  /\ WF_vars(Actor)
  /\ \A r \in Request : WF_vars(Handler(r)) /\ WF_vars(Cleanup(r))

-----------------------------------------------------------------------------
(***************************************************************************)
(* Properties                                                              *)
(***************************************************************************)

TypeOK ==
  /\ db \in BOOLEAN /\ stopped \in BOOLEAN
  /\ stage \in [Request -> Stage]
  /\ answer \in [Request -> Answer \cup {NoAnswer}]
  /\ heard \in [Request -> Seq(Message)]
  /\ \A r \in Request : Len(heard[r]) <= SentSize
  /\ reported \in [Request -> BOOLEAN]
  /\ queue \in Seq(Request) /\ Len(queue) <= QueueSize
  /\ current \in Request \cup {NoRequest}
  /\ {subscribed, typed, files, cleaners, returned, lagged} \subseteq SUBSET Request
  /\ unpolled \in SUBSET Message /\ polled \in SUBSET Message
  /\ before \in [Request -> SUBSET Message]
  /\ sleep \in [Request -> 0 .. Outlasts]

Confirmed(r) == answer[r] # NoAnswer /\ answer[r].verified
Denied(r) == answer[r] # NoAnswer /\ answer[r].status = "ok" /\ ~ answer[r].verified

\* "Subscribe before sending, so that what is broadcast during the send is not
\* lost" (dispatch_text): a message that was typed and came back while its
\* handler was there is confirmed, unless the receiver overflowed.
EchoConfirms ==
  \A r \in subscribed :
    Denied(r) /\ answer[r].sent => (r \in lagged \/ r \notin returned)

\* "Verify in the database that the message was sent" (verify_sent): with a
\* database, an answer says `verified` only if a message with that content came
\* out of the database after the request began.
ConfirmedByDatabase ==
  \A r \in subscribed :
    Confirmed(r) => \E m \in polled \ before[r] : Matches(m, r)

\* The actor finds the file it is to send, however late it gets to it, and
\* though the request may have timed out or its client gone away: its clean-up
\* sleeps long enough for a full queue, if the actor gets through one in time.
FileThereForActor ==
  current # NoRequest /\ HasFile(current) /\ current \notin typed => current \in files

\* Every request is answered, unless its client goes away first.
RequestsAnswered ==
  \A r \in Request : stage[r] = "entering" ~> stage[r] \in {"answered", "dropped"}

\* A temporary file is removed, whatever the outcome, unless the client goes away:
\* that of a file request in any case, that of an image once its command is
\* queued.  An image that was not written to its end, or that finds the queue
\* closed, leaves its file behind.
TempFilesRemoved ==
  \A r \in Request :
    (r \in files /\ (Kind[r] = "file" \/ stage[r] = "waiting"))
      ~> (r \notin files \/ stage[r] = "dropped")

(***************************************************************************)
(* What the repository states and the code does not do: no configuration   *)
(* checks these two.  They are here for whoever changes the code.          *)
(***************************************************************************)

\* "Verify in the database that the message was sent" (verify_sent): what the
\* answer calls verified was sent.  Not so for a text whose chat was not found
\* when another message with the same words comes back.
VerifiedWasSent ==
  \A r \in Request : Confirmed(r) => answer[r].sent

\* "503: database or input engine is not currently available" (docs/API.md):
\* without an engine a request is answered so.  Not so with HasEngine = FALSE:
\* requests wait in a queue that nobody reads.
UnavailableWithoutEngine ==
  \A r \in Request :
    (~ HasEngine /\ stage[r] = "entering")
      ~> (\/ stage[r] = "dropped"
          \/ answer[r] # NoAnswer /\ answer[r].status = "unavailable")

=============================================================================
