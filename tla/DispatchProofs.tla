---------------------------- MODULE DispatchProofs ----------------------------
(***************************************************************************)
(* The safety properties of Dispatch, for every set of requests and of     *)
(* messages from other devices, every relation between their contents, and *)
(* every capacity of the command queue and of the broadcast.  That files   *)
(* are there for the actor rests on its pace.                              *)
(***************************************************************************)
EXTENDS Dispatch, TLAPS

\* The actor gets through more commands than the queue holds before the clean-up
\* of a request that timed out is due: 33 of them in 1020 s.
CommandsAreQuick == Outlasts > QueueSize

-----------------------------------------------------------------------------
(***************************************************************************)
(* The inductive invariant.  The properties speak of answers and of the    *)
(* command being executed; what makes them true is the state of a request  *)
(* on its way: queued, waiting, or with a receiver that holds messages.    *)
(***************************************************************************)

\* A request has an answer only at its end.
AnswersAtEnd == \A r \in Request : stage[r] # "answered" => answer[r] = NoAnswer

\* A request has one command: on its way to the queue, in it, executed or done;
\* none is in it or executed once the actor is gone.
OneCommand ==
  /\ \A i \in DOMAIN queue : /\ stage[queue[i]] \notin {"new", "entering"}
                             /\ queue[i] # current
  /\ \A i, j \in DOMAIN queue : queue[i] = queue[j] => i = j
  /\ current # NoRequest => stage[current] \notin {"new", "entering"}
  /\ stopped => queue = <<>> /\ current = NoRequest

\* A clean-up is not due before the commands ahead of its request's are done, and
\* this one too.
Timely ==
  /\ HasEngine =>
       \A i \in DOMAIN queue : sleep[queue[i]] >= i + (IF current = NoRequest THEN 0 ELSE 1)
  /\ current # NoRequest => sleep[current] >= 1

\* A file is there from the request to the end of its command's execution, unless
\* there is no engine to execute it.
FilesKept ==
  \A r \in Request :
    /\ HasFile(r) /\ stage[r] = "entering" => r \in files
    /\ HasEngine /\ HasFile(r) /\ (\E i \in DOMAIN queue : queue[i] = r) => r \in files
    /\ r \in cleaners => stage[r] \notin {"new", "entering"}

\* A receiver holds what came out of the database since its request began.
HeardIsNew ==
  /\ unpolled \cap polled = {}
  /\ \A r \in Request :
       /\ before[r] \subseteq polled
       /\ r \notin subscribed => heard[r] = <<>>
       /\ \A i \in DOMAIN heard[r] : heard[r][i] \in polled \ before[r]

\* The echo of a message that came back while its handler waited is in the
\* handler's receiver, if nothing was lost there.
EchoHeard ==
  /\ \A r \in subscribed : Verifies(r) /\ stage[r] # "new"
  /\ \A r \in returned : stage[r] # "new"
  /\ \A r \in subscribed :
       r \in returned /\ r \notin lagged /\ Alive(r) => \E i \in DOMAIN heard[r] : heard[r][i] = r

IInv ==
  /\ TypeOK /\ AnswersAtEnd /\ OneCommand /\ HeardIsNew /\ EchoHeard
  /\ ConfirmedByDatabase /\ EchoConfirms

FileInv == IInv /\ Timely /\ FilesKept /\ FileThereForActor

-----------------------------------------------------------------------------
(***************************************************************************)
(* Facts about the operators of the model.                                 *)
(***************************************************************************)

\* TypeOK, for the variables that the reasoning is about.
LEMMA TypesOf ==
  ASSUME TypeOK
  PROVE  /\ stage \in [Request -> Stage] /\ answer \in [Request -> Answer \cup {NoAnswer}]
         /\ heard \in [Request -> Seq(Message)] /\ before \in [Request -> SUBSET Message]
         /\ reported \in [Request -> BOOLEAN]
         /\ subscribed \in SUBSET Request /\ typed \in SUBSET Request
         /\ files \in SUBSET Request /\ cleaners \in SUBSET Request
         /\ returned \in SUBSET Request /\ lagged \in SUBSET Request
         /\ sleep \in [Request -> 0 .. Outlasts]
         /\ queue \in Seq(Request) /\ Len(queue) \in Nat /\ DOMAIN queue = 1 .. Len(queue)
         /\ \A i \in DOMAIN queue : queue[i] \in Request
         /\ \A r \in Request :
              /\ heard[r] \in Seq(Message) /\ Len(heard[r]) \in Nat
              /\ DOMAIN heard[r] = 1 .. Len(heard[r]) /\ Len(heard[r]) <= SentSize
  BY DEF TypeOK

\* The first element of a sequence and the rest.
LEMMA HeadAndTail ==
  ASSUME NEW S, NEW s \in Seq(S), s # <<>>
  PROVE  /\ Head(s) \in S /\ Head(s) = s[1] /\ 1 \in DOMAIN s
         /\ Tail(s) \in Seq(S) /\ Len(Tail(s)) = Len(s) - 1 /\ Len(s) \in Nat \ {0}
         /\ \A i \in DOMAIN Tail(s) : i + 1 \in DOMAIN s /\ Tail(s)[i] = s[i + 1]
         /\ \A i \in DOMAIN s : i # 1 => i - 1 \in DOMAIN Tail(s) /\ Tail(s)[i - 1] = s[i]
  OBVIOUS

\* A sequence with an element more.
LEMMA OneMore ==
  ASSUME NEW S, NEW s \in Seq(S), NEW e \in S
  PROVE  /\ Append(s, e) \in Seq(S) /\ Len(Append(s, e)) = Len(s) + 1 /\ Len(s) \in Nat
         /\ Append(s, e)[Len(s) + 1] = e /\ Len(s) + 1 \in DOMAIN Append(s, e)
         /\ \A i \in DOMAIN s : i \in DOMAIN Append(s, e) /\ Append(s, e)[i] = s[i]
         /\ \A i \in DOMAIN Append(s, e) : i \in DOMAIN s \/ i = Len(s) + 1
  OBVIOUS

\* What a receiver holds after the broadcast of a message: the message, and of
\* what it held all, or all but the oldest when it was full.
Received(s, m) == IF Len(s) < SentSize THEN Append(s, m) ELSE Append(Tail(s), m)

LEMMA Broadcast ==
  ASSUME NEW s \in Seq(Message), Len(s) <= SentSize, NEW m \in Message
  PROVE  /\ Received(s, m) \in Seq(Message) /\ Len(Received(s, m)) <= SentSize
         /\ \A i \in DOMAIN Received(s, m) :
              Received(s, m)[i] = m \/ \E j \in DOMAIN s : Received(s, m)[i] = s[j]
         /\ \E i \in DOMAIN Received(s, m) : Received(s, m)[i] = m
         /\ Len(s) # SentSize =>
              \A j \in DOMAIN s : \E i \in DOMAIN Received(s, m) : Received(s, m)[i] = s[j]
<1>1. SentSize \in Nat /\ SentSize > 0 /\ Len(s) \in Nat
  BY DispatchAssumption
<1>2. CASE Len(s) < SentSize
  <2>1. Received(s, m) = Append(s, m)
    BY <1>2 DEF Received
  <2> QED  BY <1>1, <1>2, <2>1, OneMore
<1>3. CASE ~ (Len(s) < SentSize)
  <2>1. Received(s, m) = Append(Tail(s), m) /\ Len(s) = SentSize /\ s # <<>>
    BY <1>1, <1>3 DEF Received
  <2>2. /\ Tail(s) \in Seq(Message) /\ Len(Tail(s)) = Len(s) - 1
        /\ \A i \in DOMAIN Tail(s) : i + 1 \in DOMAIN s /\ Tail(s)[i] = s[i + 1]
    BY <2>1, HeadAndTail
  <2> QED  BY <1>1, <2>1, <2>2, OneMore
<1> QED  BY <1>2, <1>3

\* Answering ends a handler and touches no other.
LEMMA RespondEffect ==
  ASSUME TypeOK, NEW r \in Request, NEW status \in {"ok", "error", "unavailable"},
         NEW sent \in BOOLEAN, NEW verified \in BOOLEAN, Respond(r, status, sent, verified)
  PROVE  /\ stage' \in [Request -> Stage] /\ answer' \in [Request -> Answer \cup {NoAnswer}]
         /\ stage'[r] = "answered" /\ answer'[r] \in Answer
         /\ answer'[r] = [status |-> status, sent |-> sent, verified |-> verified]
         /\ \A q \in Request \ {r} : stage'[q] = stage[q] /\ answer'[q] = answer[q]
<1> DEFINE given == [status |-> status, sent |-> sent, verified |-> verified]
<1>1. given \in Answer
  BY DEF Answer
<1>2. /\ stage \in [Request -> Stage] /\ answer \in [Request -> Answer \cup {NoAnswer}]
      /\ "answered" \in Stage
  BY TypesOf DEF Stage
<1>3. stage' = [stage EXCEPT ![r] = "answered"] /\ answer' = [answer EXCEPT ![r] = given]
  BY DEF Respond, Goto
<1>4. answer'[r] = given
  BY <1>2, <1>3
<1> HIDE DEF given
<1>5. /\ stage' \in [Request -> Stage] /\ answer' \in [Request -> Answer \cup {NoAnswer}]
      /\ stage'[r] = "answered" /\ answer'[r] \in Answer
      /\ \A q \in Request \ {r} : stage'[q] = stage[q] /\ answer'[q] = answer[q]
  BY <1>1, <1>2, <1>3
<1> QED  BY <1>4, <1>5 DEF given

\* Moving a handler on touches no other.
LEMMA GotoEffect ==
  ASSUME TypeOK, NEW r \in Request, NEW next \in Stage, Goto(r, next)
  PROVE  /\ stage' \in [Request -> Stage] /\ stage'[r] = next
         /\ \A q \in Request \ {r} : stage'[q] = stage[q]
  BY TypesOf DEF Goto

\* What the answer of a handler can be when its command is done: one that goes on
\* to verify says nothing yet, and one that should have but cannot says so.
Outcome(r) ==
  \/ /\ stage'[r] = stage[r] /\ answer'[r] = answer[r]
  \/ /\ stage[r] = "waiting" /\ stage'[r] = "verifying" /\ answer'[r] = answer[r]
  \/ /\ stage[r] = "waiting" /\ stage'[r] = "answered" /\ answer'[r] \in Answer
     /\ r \in subscribed /\ Verifies(r) =>
          ~ answer'[r].verified /\ ~ (answer'[r].status = "ok" /\ answer'[r].sent)

\* The end of a command: its request moves on, and no other.
LEMMA ReplyEffect ==
  ASSUME TypeOK, Reply
  PROVE  /\ current \in Request /\ current' = NoRequest
         /\ \E sent \in BOOLEAN : reported' = [reported EXCEPT ![current] = sent]
         /\ stage' \in [Request -> Stage] /\ answer' \in [Request -> Answer \cup {NoAnswer}]
         /\ \A q \in Request \ {current} : stage'[q] = stage[q] /\ answer'[q] = answer[q]
         /\ Outcome(current)
         /\ files' \in {files, files \ {current}} /\ cleaners' \in {cleaners, cleaners \cup {current}}
         /\ sleep' = [q \in Request |->
              IF q = current \/ queue = <<>> \/ sleep[q] = 0 THEN 0 ELSE sleep[q] - 1]
         /\ UNCHANGED <<db, subscribed, heard, queue, stopped, typed, unpolled, polled, before,
                        returned, lagged>>
<1> DEFINE r == current
<1>1. r \in Request /\ current' = NoRequest
  BY DEF Reply, TypeOK
<1>2. PICK status \in {"ok", "error"}, sent \in BOOLEAN :
        /\ sent = (status = "ok" /\ current \in typed)
        /\ OnReply(r, status, sent)
        /\ reported' = [reported EXCEPT ![r] = sent]
  BY DEF Reply
<1>3. /\ UNCHANGED <<db, subscribed, heard, queue, stopped, typed, unpolled, polled, before,
                     returned, lagged>>
      /\ sleep' = [q \in Request |->
           IF q = current \/ queue = <<>> \/ sleep[q] = 0 THEN 0 ELSE sleep[q] - 1]
  BY DEF Reply, receiver, wechat, history
<1>4. sent => status = "ok"
  BY <1>2
<1>5. stage \in [Request -> Stage] /\ answer \in [Request -> Answer \cup {NoAnswer}]
  BY TypesOf
<1> HIDE DEF r
<1> DEFINE Result == /\ stage' \in [Request -> Stage]
                     /\ answer' \in [Request -> Answer \cup {NoAnswer}]
                     /\ \A q \in Request \ {r} : stage'[q] = stage[q] /\ answer'[q] = answer[q]
                     /\ Outcome(r)
<1>6. ASSUME NEW verified \in BOOLEAN, stage[r] = "waiting", Respond(r, status, sent, verified),
             r \in subscribed /\ Verifies(r) => ~ verified /\ ~ (status = "ok" /\ sent)
      PROVE  Result
  <2>1. /\ stage' \in [Request -> Stage] /\ answer' \in [Request -> Answer \cup {NoAnswer}]
        /\ stage'[r] = "answered"
        /\ answer'[r] = [status |-> status, sent |-> sent, verified |-> verified]
        /\ \A q \in Request \ {r} : stage'[q] = stage[q] /\ answer'[q] = answer[q]
    BY <1>1, <1>6, RespondEffect
  <2> QED  BY <1>6, <2>1 DEF Outcome, Answer
<1>7. ASSUME stage[r] = "waiting", Goto(r, "verifying"), UNCHANGED answer
      PROVE  Result
  <2>1. /\ stage' \in [Request -> Stage] /\ stage'[r] = "verifying"
        /\ \A q \in Request \ {r} : stage'[q] = stage[q]
    BY <1>1, <1>7, GotoEffect DEF Stage
  <2> QED  BY <1>5, <1>7, <2>1 DEF Outcome
<1>8. CASE stage[r] # "waiting" /\ UNCHANGED <<handler, files, cleaners>>
  BY <1>1, <1>2, <1>3, <1>5, <1>8 DEF handler, Outcome, r
<1>9. CASE /\ stage[r] = "waiting" /\ Kind[r] = "text" /\ Text(r, status, sent)
           /\ UNCHANGED <<files, cleaners>>
  <2>1. Result
    <3>1. CASE status = "ok" /\ r \in subscribed
      BY <1>7, <1>9, <3>1 DEF Text
    <3>2. CASE ~ (status = "ok" /\ r \in subscribed)
      <4>1. PICK shown \in BOOLEAN : Respond(r, status, sent, shown /\ sent)
        BY <1>9, <3>2 DEF Text
      <4>2. (shown /\ sent) \in BOOLEAN /\ (r \in subscribed => ~ sent)
        BY <1>4, <3>2
      <4> QED  BY <1>6, <1>9, <4>1, <4>2
    <3> QED  BY <3>1, <3>2
  <2> QED  BY <1>1, <1>2, <1>3, <1>9, <2>1 DEF r
<1>10. CASE /\ stage[r] = "waiting" /\ Kind[r] = "image" /\ Image(r, status, sent)
            /\ files' = IF RemovesImage(status) THEN files \ {r} ELSE files
            /\ UNCHANGED cleaners
  <2>1. Result
    BY <1>6, <1>10 DEF Image, Verifies
  <2> QED  BY <1>1, <1>2, <1>3, <1>10, <2>1 DEF r
<1>11. CASE /\ stage[r] = "waiting" /\ Kind[r] = "file" /\ File(r, status, sent)
            /\ cleaners' = cleaners \cup {r} /\ UNCHANGED files
  <2>1. Result
    <3>1. CASE status = "ok" /\ sent /\ r \in subscribed
      BY <1>7, <1>11, <3>1 DEF File
    <3>2. CASE ~ (status = "ok" /\ sent /\ r \in subscribed)
      BY <1>6, <1>11, <3>2 DEF File
    <3> QED  BY <3>1, <3>2
  <2> QED  BY <1>1, <1>2, <1>3, <1>11, <2>1 DEF r
<1> QED  BY <1>2, <1>8, <1>9, <1>10, <1>11 DEF OnReply

-----------------------------------------------------------------------------
(***************************************************************************)
(* Types                                                                   *)
(***************************************************************************)

LEMMA InitIInv == Init => IInv
<1> SUFFICES ASSUME Init PROVE IInv
  OBVIOUS
<1> USE DEF Init
<1>1. TypeOK
  <2>1. /\ stage \in [Request -> Stage] /\ answer \in [Request -> Answer \cup {NoAnswer}]
        /\ reported \in [Request -> BOOLEAN] /\ before \in [Request -> SUBSET Message]
    BY DEF Stage
  <2>2. heard \in [Request -> Seq(Message)] /\ \A r \in Request : Len(heard[r]) <= SentSize
    BY DispatchAssumption
  <2>3. queue \in Seq(Request) /\ Len(queue) <= QueueSize
    BY DispatchAssumption
  <2>4. sleep \in [Request -> 0 .. Outlasts]
    BY DispatchAssumption
  <2> QED  BY <2>1, <2>2, <2>3, <2>4 DEF TypeOK
<1>2. AnswersAtEnd /\ OneCommand
  BY DEF AnswersAtEnd, OneCommand
<1>3. HeardIsNew /\ EchoHeard
  BY DEF HeardIsNew, EchoHeard
<1>4. ConfirmedByDatabase /\ EchoConfirms
  BY DEF ConfirmedByDatabase, EchoConfirms
<1> QED  BY <1>1, <1>2, <1>3, <1>4 DEF IInv

\* Types are kept by every step: receivers and the queue stay within their size.
LEMMA TypeNext == TypeOK /\ [Next]_vars => TypeOK'
<1> SUFFICES ASSUME TypeOK, [Next]_vars PROVE TypeOK'
  OBVIOUS
<1> USE DEF handler, receiver, actor, wechat, disk, history
<1>1. CASE MountDb
  BY <1>1 DEF MountDb, TypeOK
<1>2. ASSUME NEW m \in Message, Record(m) PROVE TypeOK'
  BY <1>2 DEF Record, TypeOK
<1>3. ASSUME NEW m \in Message, Poll(m) PROVE TypeOK'
  <2>1. heard' = [r \in Request |-> IF r \notin Hearing THEN heard[r] ELSE Received(heard[r], m)]
    BY <1>3 DEF Poll, Received
  <2>2. \A r \in Request : heard'[r] \in Seq(Message) /\ Len(heard'[r]) <= SentSize
    BY <2>1, TypesOf, Broadcast
  <2>3. heard' \in [Request -> Seq(Message)]
    BY <2>1, <2>2
  <2>4. /\ UNCHANGED <<db, handler, subscribed, actor, typed, disk, before>>
        /\ unpolled' \in SUBSET Message /\ polled' \in SUBSET Message
        /\ lagged' \in SUBSET Request /\ returned' \in SUBSET Request
    BY <1>3 DEF Poll, TypeOK, Hearing
  <2> QED  BY <2>2, <2>3, <2>4 DEF TypeOK
<1>4. ASSUME NEW r \in Request, Begin(r) PROVE TypeOK'
  <2>1. stage' \in [Request -> Stage]
    BY <1>4, GotoEffect DEF Begin, Stage
  <2>2. before' \in [Request -> SUBSET Message]
    BY <1>4 DEF Begin, TypeOK
  <2>3. /\ UNCHANGED <<db, answer, heard, actor, wechat, cleaners, sleep, polled, returned, lagged>>
        /\ files' \in SUBSET Request /\ subscribed' \in SUBSET Request
    BY <1>4 DEF Begin, TypeOK
  <2> QED  BY <2>1, <2>2, <2>3 DEF TypeOK
<1>5. ASSUME NEW r \in Request,
             \/ BeginFails(r) \/ Refused(r) \/ Abandoned(r) \/ FileTimeout(r)
             \/ VerifyTimeout(r) \/ Hear(r)
      PROVE  TypeOK'
  <2>1. stage' \in [Request -> Stage] /\ answer' \in [Request -> Answer \cup {NoAnswer}]
    <3>1. \/ UNCHANGED <<stage, answer>>
          \/ \E status \in {"ok", "error", "unavailable"}, sent, verified \in BOOLEAN :
               Respond(r, status, sent, verified)
      BY <1>5, TypesOf DEF BeginFails, Refused, Abandoned, FileTimeout, VerifyTimeout, Hear
    <3> QED  BY <3>1, TypesOf, RespondEffect
  <2>2. heard' \in [Request -> Seq(Message)] /\ \A q \in Request : Len(heard'[q]) <= SentSize
    <3>1. heard' = heard \/ (heard[r] # <<>> /\ heard' = [heard EXCEPT ![r] = Tail(heard[r])])
      BY <1>5 DEF BeginFails, Refused, Abandoned, FileTimeout, VerifyTimeout, Hear
    <3>2. heard[r] # <<>> => Tail(heard[r]) \in Seq(Message) /\ Len(Tail(heard[r])) = Len(heard[r]) - 1
      BY TypesOf, HeadAndTail
    <3>3. SentSize \in Nat
      BY DispatchAssumption
    <3>4. CASE heard' = heard
      BY <3>4, TypesOf DEF TypeOK
    <3>5. CASE heard[r] # <<>> /\ heard' = [heard EXCEPT ![r] = Tail(heard[r])]
      <4>1. heard'[r] = Tail(heard[r]) /\ \A q \in Request \ {r} : heard'[q] = heard[q]
        BY <3>5, TypesOf
      <4>2. heard' \in [Request -> Seq(Message)]
        BY <3>2, <3>5, TypesOf
      <4>3. Len(heard'[r]) <= SentSize
        BY <3>2, <3>3, <3>5, <4>1, TypesOf
      <4> QED  BY <4>1, <4>2, <4>3, TypesOf
    <3> QED  BY <3>1, <3>4, <3>5
  <2>3. /\ UNCHANGED <<db, subscribed, actor, wechat, sleep, history>>
        /\ files' \in SUBSET Request /\ cleaners' \in SUBSET Request
    BY <1>5 DEF BeginFails, Refused, Abandoned, FileTimeout, VerifyTimeout, Hear, TypeOK
  <2> QED  BY <2>1, <2>2, <2>3 DEF TypeOK
<1>6. ASSUME NEW r \in Request, Enter(r) PROVE TypeOK'
  <2>1. stage' \in [Request -> Stage]
    BY <1>6, GotoEffect DEF Enter, Stage
  <2>2. queue' \in Seq(Request) /\ Len(queue') <= QueueSize
    BY <1>6, TypesOf, OneMore, DispatchAssumption DEF Enter
  <2>3. UNCHANGED <<db, answer, receiver, reported, current, stopped, wechat, files, cleaners,
                    history>>
    BY <1>6 DEF Enter
  <2>4. sleep' \in [Request -> 0 .. Outlasts]
    BY <1>6, TypesOf, DispatchAssumption DEF Enter
  <2> QED  BY <2>1, <2>2, <2>3, <2>4 DEF TypeOK
<1>7. ASSUME NEW r \in Request, Cleanup(r) PROVE TypeOK'
  BY <1>7 DEF Cleanup, TypeOK
<1>8. ASSUME NEW r \in Request, Disconnect(r) PROVE TypeOK'
  <2>1. stage' \in [Request -> Stage]
    BY <1>8, GotoEffect DEF Disconnect, Stage
  <2>2. heard' \in [Request -> Seq(Message)] /\ \A q \in Request : Len(heard'[q]) <= SentSize
    BY <1>8, TypesOf, DispatchAssumption DEF Disconnect
  <2>3. UNCHANGED <<db, answer, subscribed, actor, wechat, disk, history>>
    BY <1>8 DEF Disconnect
  <2> QED  BY <2>1, <2>2, <2>3 DEF TypeOK
<1>9. CASE Take
  <2>1. /\ queue # <<>> /\ current' = Head(queue) /\ queue' = Tail(queue)
        /\ UNCHANGED <<db, handler, receiver, reported, stopped, wechat, disk, history>>
    BY <1>9 DEF Take
  <2>2. current' \in Request /\ queue' \in Seq(Request) /\ Len(queue') <= QueueSize
    BY <2>1, HeadAndTail, DispatchAssumption DEF TypeOK
  <2> QED  BY <2>1, <2>2 DEF TypeOK
<1>10. CASE Type
  BY <1>10 DEF Type, TypeOK
<1>11. CASE Reply
  <2>1. /\ current' = NoRequest /\ reported' \in [Request -> BOOLEAN]
        /\ stage' \in [Request -> Stage] /\ answer' \in [Request -> Answer \cup {NoAnswer}]
        /\ files' \in SUBSET Request /\ cleaners' \in SUBSET Request
        /\ UNCHANGED <<db, subscribed, heard, queue, stopped, typed, unpolled, polled, before,
                       returned, lagged>>
    BY <1>11, ReplyEffect, TypesOf
  <2>2. sleep' \in [Request -> 0 .. Outlasts]
    <3>1. \A q \in Request : sleep[q] \in 0 .. Outlasts
      BY TypesOf
    <3>2. sleep' = [q \in Request |->
            IF q = current \/ queue = <<>> \/ sleep[q] = 0 THEN 0 ELSE sleep[q] - 1]
      BY <1>11, ReplyEffect
    <3> QED  BY <3>1, <3>2, DispatchAssumption
  <2> QED  BY <2>1, <2>2 DEF TypeOK
<1>12. CASE UNCHANGED vars
  BY <1>12 DEF vars, TypeOK
<1>13. CASE Stop
  <2>1. /\ UNCHANGED <<db, handler, receiver, reported, wechat, files, cleaners, history>>
        /\ stopped' = TRUE /\ current' = NoRequest
        /\ queue' = <<>> /\ sleep' = [q \in Request |-> 0]
    BY <1>13 DEF Stop
  <2>2. queue' \in Seq(Request) /\ Len(queue') <= QueueSize /\ sleep' \in [Request -> 0 .. Outlasts]
    BY <2>1, DispatchAssumption
  <2> QED  BY <2>1, <2>2 DEF TypeOK
<1> QED  BY <1>1, <1>2, <1>3, <1>4, <1>5, <1>6, <1>7, <1>8, <1>9, <1>10, <1>11, <1>12,
            <1>13
         DEF Next, Actor, Handler

-----------------------------------------------------------------------------
(***************************************************************************)
(* What a step does to one request                                         *)
(***************************************************************************)

\* The handler of a request: it stays, goes on without an answer, or gives one.
Stays(q) == stage'[q] = stage[q] /\ answer'[q] = answer[q]
GoesOn(q) ==
  /\ answer'[q] = answer[q]
  /\ \/ stage[q] = "new" /\ stage'[q] = "entering"
     \/ stage[q] = "entering" /\ stage'[q] = "waiting"
     \/ stage[q] = "waiting" /\ stage'[q] = "verifying"
     \/ Alive(q) /\ stage'[q] = "dropped"
Answers(q) ==
  /\ stage'[q] = "answered" /\ answer'[q] \in Answer
  /\ \/ stage[q] \in {"new", "entering"} /\ answer'[q].status # "ok" /\ ~ answer'[q].verified
     \/ /\ stage[q] = "waiting"
        /\ q \in subscribed /\ Verifies(q) =>
             ~ answer'[q].verified /\ ~ (answer'[q].status = "ok" /\ answer'[q].sent)
     \/ stage[q] = "verifying" /\ heard[q] # <<>> /\ Matches(Head(heard[q]), q)
          /\ answer'[q].verified
     \/ stage[q] = "verifying" /\ heard[q] = <<>> /\ ~ answer'[q].verified

LEMMA HandlerStep ==
  ASSUME TypeOK, [Next]_vars, NEW q \in Request
  PROVE  Stays(q) \/ GoesOn(q) \/ Answers(q)
<1> USE DEF handler
<1>1. CASE stage' = stage /\ answer' = answer
  BY <1>1 DEF Stays
<1>2. ASSUME NEW r \in Request,
             Begin(r) \/ Enter(r) \/ Disconnect(r)
      PROVE  Stays(q) \/ GoesOn(q)
  <2>1. /\ answer' = answer
        /\ \/ stage[r] = "new" /\ Goto(r, "entering")
           \/ stage[r] = "entering" /\ Goto(r, "waiting")
           \/ Alive(r) /\ Goto(r, "dropped")
    BY <1>2 DEF Begin, Enter, Disconnect, MayBegin
  <2>2. \A next \in Stage : Goto(r, next) => stage'[r] = next /\ (q # r => stage'[q] = stage[q])
    BY GotoEffect
  <2>3. "entering" \in Stage /\ "waiting" \in Stage /\ "dropped" \in Stage
    BY DEF Stage
  <2> QED  BY <2>1, <2>2, <2>3 DEF Stays, GoesOn
<1>3. ASSUME NEW r \in Request,
             \/ BeginFails(r) \/ Refused(r) \/ Abandoned(r) \/ FileTimeout(r)
             \/ VerifyTimeout(r) \/ (Hear(r) /\ stage' # stage)
      PROVE  Stays(q) \/ Answers(q)
  <2>1. \E status \in {"ok", "error", "unavailable"}, sent, verified \in BOOLEAN :
          /\ Respond(r, status, sent, verified)
          /\ \/ stage[r] \in {"new", "entering"} /\ status # "ok" /\ ~ verified
             \/ stage[r] = "waiting" /\ ~ verified /\ ~ sent
             \/ stage[r] = "verifying" /\ heard[r] # <<>> /\ Matches(Head(heard[r]), r) /\ verified
             \/ stage[r] = "verifying" /\ heard[r] = <<>> /\ ~ verified
    BY <1>3, TypesOf DEF BeginFails, MayBegin, Refused, Abandoned, FileTimeout, VerifyTimeout, Hear
  <2>2. PICK status \in {"ok", "error", "unavailable"}, sent \in BOOLEAN, verified \in BOOLEAN :
          /\ Respond(r, status, sent, verified)
          /\ \/ stage[r] \in {"new", "entering"} /\ status # "ok" /\ ~ verified
             \/ stage[r] = "waiting" /\ ~ verified /\ ~ sent
             \/ stage[r] = "verifying" /\ heard[r] # <<>> /\ Matches(Head(heard[r]), r) /\ verified
             \/ stage[r] = "verifying" /\ heard[r] = <<>> /\ ~ verified
    BY <2>1
  <2>3. /\ stage'[r] = "answered" /\ answer'[r] \in Answer
        /\ answer'[r] = [status |-> status, sent |-> sent, verified |-> verified]
        /\ q # r => stage'[q] = stage[q] /\ answer'[q] = answer[q]
    BY <2>2, RespondEffect
  <2> QED  BY <2>2, <2>3 DEF Stays, Answers
<1>4. ASSUME NEW r \in Request, Hear(r), stage' = stage PROVE Stays(q)
  <2>1. stage[r] = "verifying"
    BY <1>4 DEF Hear
  <2>2. UNCHANGED <<stage, answer>>
    <3>1. \/ UNCHANGED <<stage, answer>>
          \/ Respond(r, "ok", reported[r], TRUE)
      BY <1>4 DEF Hear
    <3>2. reported[r] \in BOOLEAN
      BY TypesOf
    <3> QED  BY <1>4, <2>1, <3>1, <3>2, RespondEffect
  <2> QED  BY <2>2 DEF Stays
<1>5. CASE Reply
  <2>1. /\ current \in Request /\ Outcome(current)
        /\ q # current => stage'[q] = stage[q] /\ answer'[q] = answer[q]
    BY <1>5, ReplyEffect
  <2> QED  BY <2>1 DEF Outcome, Stays, GoesOn, Answers
<1>6. CASE UNCHANGED vars
  BY <1>1, <1>6 DEF vars
<1>7. CASE MountDb \/ Take \/ Type \/ Stop \/ (\E m \in Message : Record(m) \/ Poll(m))
           \/ (\E r \in Request : Cleanup(r))
  <2>1. stage' = stage /\ answer' = answer
    BY <1>7 DEF MountDb, Take, Type, Stop, Record, Poll, Cleanup
  <2> QED  BY <1>1, <2>1
<1> QED  BY <1>2, <1>3, <1>4, <1>5, <1>6, <1>7 DEF Next, Actor, Handler

\* An answer is given at the end, and a request whose command was queued does
\* not come back.
LEMMA AnswersAtEndNext == TypeOK /\ AnswersAtEnd /\ [Next]_vars => AnswersAtEnd'
<1> SUFFICES ASSUME TypeOK, AnswersAtEnd, [Next]_vars, NEW q \in Request, stage'[q] # "answered"
             PROVE  answer'[q] = NoAnswer
  BY DEF AnswersAtEnd
<1>1. Stays(q) \/ GoesOn(q)
  BY HandlerStep DEF Answers
<1>2. stage[q] # "answered" => answer[q] = NoAnswer
  BY DEF AnswersAtEnd
<1> QED  BY <1>1, <1>2 DEF Stays, GoesOn, Alive

LEMMA NoWayBack ==
  ASSUME TypeOK, [Next]_vars, NEW q \in Request
  PROVE  /\ stage[q] \notin {"new", "entering"} => stage'[q] \notin {"new", "entering"}
         /\ stage[q] # "new" => stage'[q] # "new"
  BY HandlerStep DEF Stays, GoesOn, Answers

-----------------------------------------------------------------------------
(***************************************************************************)
(* Commands and files                                                      *)
(***************************************************************************)

\* The queue changes when a handler enters it, when the actor takes its head and
\* when the actor stops.
LEMMA QueueStep ==
  ASSUME TypeOK, [Next]_vars
  PROVE  \/ UNCHANGED <<queue, current, stopped>>
         \/ \E r \in Request : Enter(r)
         \/ Take
         \/ queue' = queue /\ current' = NoRequest /\ stopped' = stopped
         \/ queue' = <<>> /\ current' = NoRequest
  BY ReplyEffect DEF Next, Actor, Handler, MountDb, Record, Poll, Begin, BeginFails, Refused,
     Abandoned, Hear, VerifyTimeout, Disconnect, FileTimeout, Cleanup, Type, Stop, vars, actor

LEMMA OneCommandNext == TypeOK /\ OneCommand /\ [Next]_vars => OneCommand'
<1> SUFFICES ASSUME TypeOK, OneCommand, [Next]_vars PROVE OneCommand'
  OBVIOUS
<1>1. /\ \A i \in DOMAIN queue : /\ stage[queue[i]] \notin {"new", "entering"}
                                 /\ queue[i] # current /\ queue[i] \in Request
      /\ \A i, j \in DOMAIN queue : queue[i] = queue[j] => i = j
      /\ current # NoRequest => stage[current] \notin {"new", "entering"}
      /\ current # NoRequest => current \in Request
      /\ NoRequest \notin Request
      /\ stopped => queue = <<>> /\ current = NoRequest
  BY TypesOf, DispatchAssumption DEF OneCommand, TypeOK, Message
<1>2. \A r \in Request : stage[r] \notin {"new", "entering"} => stage'[r] \notin {"new", "entering"}
  BY NoWayBack
<1>3. CASE UNCHANGED <<queue, current, stopped>>
  BY <1>1, <1>2, <1>3 DEF OneCommand
<1>4. ASSUME NEW r \in Request, Enter(r) PROVE OneCommand'
  <2>1. /\ stage[r] = "entering" /\ queue' = Append(queue, r) /\ current' = current
        /\ Goto(r, "waiting") /\ ~ stopped'
    BY <1>4 DEF Enter
  <2>2. stage'[r] = "waiting"
    BY <2>1, GotoEffect DEF Stage
  <2>3. /\ DOMAIN queue' = 1 .. (Len(queue) + 1) /\ queue'[Len(queue) + 1] = r
        /\ DOMAIN queue = 1 .. Len(queue) /\ Len(queue) \in Nat
        /\ \A i \in DOMAIN queue : queue'[i] = queue[i]
    BY <2>1, TypesOf
  <2>4. \A i \in DOMAIN queue : queue[i] # r
    BY <1>1, <2>1
  <2>5. \A i \in DOMAIN queue' : i \in DOMAIN queue \/ i = Len(queue) + 1
    BY <2>3
  <2>6. \A i \in DOMAIN queue' : stage'[queue'[i]] \notin {"new", "entering"} /\ queue'[i] # current'
    BY <1>1, <1>2, <2>1, <2>2, <2>3, <2>5
  <2>7. \A i, j \in DOMAIN queue' : queue'[i] = queue'[j] => i = j
    BY <1>1, <2>3, <2>4, <2>5
  <2> QED  BY <1>1, <1>2, <2>1, <2>6, <2>7 DEF OneCommand
<1>5. CASE Take
  <2>1. queue # <<>> /\ current' = Head(queue) /\ queue' = Tail(queue) /\ stopped' = stopped
    BY <1>5 DEF Take
  <2>2. /\ current' = queue[1] /\ 1 \in DOMAIN queue
        /\ \A i \in DOMAIN queue' : i + 1 \in DOMAIN queue /\ queue'[i] = queue[i + 1]
        /\ DOMAIN queue' \subseteq Nat \ {0}
    BY <2>1, TypesOf, HeadAndTail
  <2>3. \A i \in DOMAIN queue' : stage'[queue'[i]] \notin {"new", "entering"} /\ queue'[i] # current'
    BY <1>1, <1>2, <2>2
  <2>4. \A i, j \in DOMAIN queue' : queue'[i] = queue'[j] => i = j
    BY <1>1, <2>2
  <2> QED  BY <1>1, <1>2, <2>1, <2>2, <2>3, <2>4 DEF OneCommand
<1>6. CASE \/ queue' = queue /\ current' = NoRequest /\ stopped' = stopped
           \/ queue' = <<>> /\ current' = NoRequest
  BY <1>1, <1>2, <1>6 DEF OneCommand
<1> QED  BY <1>3, <1>4, <1>5, <1>6, QueueStep

\* The sleep of a queued command shrinks by one with every command that is done,
\* which is when the commands behind it move up.
LEMMA TimelyNext ==
  ASSUME CommandsAreQuick, TypeOK, OneCommand, Timely, [Next]_vars
  PROVE  Timely'
<1>1. /\ \A r \in Request : sleep[r] \in Nat
      /\ Outlasts \in Nat /\ QueueSize \in Nat /\ Outlasts > QueueSize
      /\ \A i \in DOMAIN queue : queue[i] \in Request /\ i \in Nat \ {0}
      /\ NoRequest \notin Request
  BY TypesOf, DispatchAssumption DEF CommandsAreQuick, Message
<1> DEFINE Busy == IF current = NoRequest THEN 0 ELSE 1
<1>2. CASE UNCHANGED <<queue, current, sleep>>
  BY <1>2 DEF Timely
<1>3. ASSUME NEW r \in Request, Enter(r) PROVE Timely'
  <2>1. /\ stage[r] = "entering" /\ queue' = Append(queue, r) /\ current' = current
        /\ Len(queue) < QueueSize
        /\ sleep' = [sleep EXCEPT ![r] = IF HasEngine THEN Outlasts ELSE 0]
    BY <1>3 DEF Enter
  <2>2. /\ \A i \in DOMAIN queue : queue'[i] = queue[i] /\ queue[i] # r
        /\ current # NoRequest => current # r /\ current \in Request
        /\ queue'[Len(queue) + 1] = r /\ Len(queue) \in Nat
        /\ \A i \in DOMAIN queue' : i \in DOMAIN queue \/ i = Len(queue) + 1
    BY <2>1, TypesOf, OneMore DEF OneCommand, TypeOK
  <2>3. \A q \in Request : q # r => sleep'[q] = sleep[q]
    BY <2>1, TypesOf
  <2>4. HasEngine => sleep'[r] = Outlasts
    BY <2>1, TypesOf
  <2>5. ASSUME HasEngine, NEW i \in DOMAIN queue' PROVE sleep'[queue'[i]] >= i + Busy
    <3>1. CASE i \in DOMAIN queue
      BY <1>1, <2>2, <2>3, <2>5, <3>1 DEF Timely
    <3>2. CASE i = Len(queue) + 1
      BY <1>1, <2>1, <2>2, <2>4, <2>5, <3>2
    <3> QED  BY <2>2, <3>1, <3>2
  <2> QED  BY <2>1, <2>2, <2>3, <2>5 DEF Timely
<1>4. CASE Take
  <2>1. /\ HasEngine /\ current = NoRequest /\ queue # <<>> /\ sleep' = sleep
        /\ current' = queue[1] /\ 1 \in DOMAIN queue
        /\ \A i \in DOMAIN queue' : i + 1 \in DOMAIN queue /\ queue'[i] = queue[i + 1]
                                    /\ i \in Nat
    BY <1>4, TypesOf, HeadAndTail DEF Take, disk
  <2>2. sleep'[current'] >= 1
    BY <1>1, <2>1 DEF Timely
  <2>3. \A i \in DOMAIN queue' : sleep'[queue'[i]] >= i + 1
    BY <1>1, <2>1 DEF Timely
  <2> QED  BY <1>1, <2>1, <2>2, <2>3 DEF Timely
<1>5. CASE Reply
  <2>1. /\ current \in Request /\ current' = NoRequest /\ queue' = queue
        /\ \A r \in Request : r # current /\ queue # <<>> =>
             sleep'[r] = IF sleep[r] = 0 THEN 0 ELSE sleep[r] - 1
    BY <1>5, ReplyEffect
  <2>2. ASSUME HasEngine, NEW i \in DOMAIN queue PROVE sleep'[queue[i]] >= i
    <3>1. queue[i] # current /\ queue # <<>>
      BY TypesOf DEF OneCommand
    <3>2. sleep[queue[i]] >= i + 1
      BY <1>1, <2>1, <2>2 DEF Timely
    <3> QED  BY <1>1, <2>1, <3>1, <3>2
  <2> QED  BY <1>1, <2>1, <2>2 DEF Timely
<1>6. CASE queue' = <<>> /\ current' = NoRequest
  BY <1>6 DEF Timely
<1>7. ~ (Take \/ Reply \/ (\E r \in Request : Enter(r))) =>
        \/ UNCHANGED <<queue, current, sleep>>
        \/ queue' = <<>> /\ current' = NoRequest
  BY DEF Next, Actor, Handler, MountDb, Record, Poll, Begin, BeginFails, Refused, Abandoned, Hear,
     VerifyTimeout, Disconnect, FileTimeout, Cleanup, Type, Stop, vars, actor, disk
<1> QED  BY <1>2, <1>3, <1>4, <1>5, <1>6, <1>7

\* A file appears when its request is made, and goes when its clean-up, a closed
\* queue or, for an image, the end of its command removes it.
LEMMA FileStep ==
  ASSUME TypeOK, [Next]_vars
  PROVE  \/ files \subseteq files' /\ cleaners' = cleaners
         \/ \E r \in Request : /\ stage[r] = "waiting" /\ files' = files
                              /\ cleaners' = cleaners \cup {r}
         \/ \E r \in Request : Cleanup(r)
         \/ \E r \in Request : Refused(r) \/ Abandoned(r)
         \/ /\ current \in Request /\ files' \in {files, files \ {current}}
            /\ cleaners' \in {cleaners, cleaners \cup {current}}
            /\ current' = NoRequest /\ queue' = queue
<1>1. CASE Reply
  BY <1>1, ReplyEffect
<1>2. ASSUME NEW r \in Request, FileTimeout(r)
      PROVE  stage[r] = "waiting" /\ files' = files /\ cleaners' = cleaners \cup {r}
  BY <1>2 DEF FileTimeout
<1>3. ASSUME NEW r \in Request, Begin(r) \/ BeginFails(r)
      PROVE  files \subseteq files' /\ cleaners' = cleaners
  BY <1>3 DEF Begin, BeginFails
<1>4. ASSUME NEW r \in Request, Enter(r) \/ Hear(r) \/ VerifyTimeout(r) \/ Disconnect(r)
      PROVE  files' = files /\ cleaners' = cleaners
  BY <1>4 DEF Enter, Hear, VerifyTimeout, Disconnect, disk
<1>5. CASE \/ MountDb \/ Take \/ Type \/ Stop \/ (\E m \in Message : Record(m) \/ Poll(m))
           \/ UNCHANGED vars
  BY <1>5 DEF MountDb, Take, Type, Stop, Record, Poll, disk, vars
<1> QED  BY <1>1, <1>2, <1>3, <1>4, <1>5 DEF Next, Actor, Handler

\* A request that is new to the queue was entering it, and one that is now
\* entering was so or has just written its file.
LEMMA FilesKeptNext ==
  TypeOK /\ OneCommand /\ Timely /\ FilesKept /\ [Next]_vars => FilesKept'
<1> SUFFICES ASSUME TypeOK, OneCommand, Timely, FilesKept, [Next]_vars, NEW q \in Request
             PROVE  /\ HasFile(q) /\ stage'[q] = "entering" => q \in files'
                    /\ HasEngine /\ HasFile(q) /\ (\E i \in DOMAIN queue' : queue'[i] = q)
                         => q \in files'
                    /\ q \in cleaners' => stage'[q] \notin {"new", "entering"}
  BY DEF FilesKept, HasFile
<1> DEFINE Queued == \E i \in DOMAIN queue : queue[i] = q
<1>1. /\ HasFile(q) /\ (stage[q] = "entering" \/ (HasEngine /\ Queued)) => q \in files
      /\ q \in cleaners => stage[q] \notin {"new", "entering"}
  BY DEF FilesKept
<1>2. /\ Queued => stage[q] \notin {"new", "entering"} /\ q # current
      /\ current # NoRequest => stage[current] \notin {"new", "entering"}
      /\ stopped => ~ Queued
      /\ HasEngine /\ Queued => sleep[q] # 0
      /\ NoRequest \notin Request
  <2>1. HasEngine /\ Queued => sleep[q] # 0
    BY TypesOf DEF Timely
  <2> QED  BY <2>1, DispatchAssumption DEF OneCommand, Message
<1>3. (\E i \in DOMAIN queue' : queue'[i] = q) => Queued \/ stage[q] = "entering"
  <2>1. ASSUME NEW r \in Request, Enter(r), NEW i \in DOMAIN queue', queue'[i] = q
        PROVE  Queued \/ stage[q] = "entering"
    <3>1. stage[r] = "entering" /\ queue' = Append(queue, r)
      BY <2>1 DEF Enter
    <3>2. queue'[Len(queue) + 1] = r /\ (i \in DOMAIN queue \/ i = Len(queue) + 1)
          /\ (i \in DOMAIN queue => queue'[i] = queue[i])
      BY <3>1, TypesOf, OneMore
    <3> QED  BY <2>1, <3>1, <3>2
  <2>2. ASSUME Take, NEW i \in DOMAIN queue', queue'[i] = q PROVE Queued
    <3>1. queue # <<>> /\ queue' = Tail(queue)
      BY <2>2 DEF Take
    <3>2. i + 1 \in DOMAIN queue /\ queue'[i] = queue[i + 1]
      BY <3>1, <2>2, TypesOf, HeadAndTail
    <3> QED  BY <2>2, <3>2
  <2> QED  BY <2>1, <2>2, QueueStep
<1>4. stage'[q] = "entering" =>
        stage[q] = "entering" \/ (stage[q] = "new" /\ (HasFile(q) => q \in files'))
  <2> SUFFICES ASSUME stage'[q] = "entering", stage[q] # "entering"
               PROVE  stage[q] = "new" /\ (HasFile(q) => q \in files')
    OBVIOUS
  <2>1. stage[q] = "new"
    BY HandlerStep DEF Stays, GoesOn, Answers
  <2>2. Begin(q)
    <3>1. ASSUME NEW r \in Request, Begin(r) PROVE r = q
      <4>1. Goto(r, "entering") /\ "entering" \in Stage
        BY <3>1 DEF Begin, Stage
      <4> QED  BY <4>1, GotoEffect
    <3>2. ASSUME NEW r \in Request, Enter(r) \/ Disconnect(r) PROVE FALSE
      <4>1. Goto(r, "waiting") \/ Goto(r, "dropped")
        BY <3>2 DEF Enter, Disconnect
      <4>2. "waiting" \in Stage /\ "dropped" \in Stage
        BY DEF Stage
      <4> QED  BY <4>1, <4>2, GotoEffect
    <3>3. ASSUME NEW r \in Request,
                 \/ BeginFails(r) \/ Refused(r) \/ Abandoned(r) \/ FileTimeout(r)
                 \/ VerifyTimeout(r) \/ Hear(r)
          PROVE FALSE
      <4>1. stage' = stage \/ Goto(r, "answered")
        BY <3>3 DEF BeginFails, Refused, Abandoned, FileTimeout, VerifyTimeout, Hear, Respond
      <4> QED  BY <4>1, GotoEffect DEF Stage
    <3>4. ASSUME Reply PROVE FALSE
      BY <3>4, <2>1, ReplyEffect DEF Outcome
    <3>5. ~ (\/ MountDb \/ Take \/ Type \/ Stop \/ (\E m \in Message : Record(m) \/ Poll(m))
             \/ (\E r \in Request : Cleanup(r)) \/ UNCHANGED vars)
      BY DEF MountDb, Take, Type, Stop, Record, Poll, Cleanup, vars, handler
    <3> QED  BY <3>1, <3>2, <3>3, <3>4, <3>5 DEF Next, Actor, Handler
  <2> QED  BY <2>1, <2>2 DEF Begin
<1>5. stage[q] \notin {"new", "entering"} => stage'[q] \notin {"new", "entering"}
  BY NoWayBack
<1>6. ASSUME HasFile(q), q \notin files',
             stage[q] = "entering" \/ (HasEngine /\ Queued)
      PROVE  stage'[q] # "entering" /\ ~ \E i \in DOMAIN queue' : queue'[i] = q
  <2>1. q \in files
    BY <1>1, <1>6
  <2>2. ASSUME NEW r \in Request, Cleanup(r) PROVE FALSE
    <3>1. r \in cleaners /\ sleep[r] = 0 /\ files' = files \ {r}
      BY <2>2 DEF Cleanup
    <3>2. r = q
      BY <2>1, <3>1, <1>6
    <3> QED  BY <1>1, <1>2, <1>6, <3>1, <3>2
  <2>3. ~ (current \in Request /\ files' \in {files, files \ {current}})
    BY <1>2, <1>6, <2>1
  <2>4. PICK r \in Request : Refused(r) \/ Abandoned(r)
    BY <1>6, <2>1, <2>2, <2>3, FileStep
  <2>5. stopped /\ queue' = queue /\ files' \in {files, files \ {r}}
        /\ stage[r] \in {"entering", "waiting"} /\ Goto(r, "answered")
    BY <2>4 DEF Refused, Abandoned, Respond, actor
  <2>6. r = q /\ "answered" \in Stage
    BY <1>6, <2>1, <2>5 DEF Stage
  <2>7. stage'[q] = "answered"
    BY <2>5, <2>6, GotoEffect
  <2> QED  BY <1>2, <2>5, <2>7
<1>7. q \in cleaners' => stage'[q] \notin {"new", "entering"}
  <2>1. q \in cleaners' => stage[q] \notin {"new", "entering"}
    <3>1. ASSUME NEW r \in Request, Cleanup(r) PROVE cleaners' \subseteq cleaners
      BY <3>1 DEF Cleanup
    <3>2. ASSUME NEW r \in Request, Refused(r) \/ Abandoned(r)
          PROVE  cleaners' = cleaners \/ (stage[r] = "waiting" /\ cleaners' \subseteq cleaners \cup {r})
      BY <3>2 DEF Refused, Abandoned
    <3> QED  BY <1>1, <1>2, <3>1, <3>2, FileStep
  <2> QED  BY <1>5, <2>1
<1> QED  BY <1>3, <1>4, <1>6, <1>7

\* The file of the command being executed: it was kept while the command was in
\* the queue, and its clean-up is not due before the command is done.
LEMMA FileThereNext ==
  TypeOK /\ OneCommand /\ Timely /\ FilesKept /\ FileThereForActor /\ [Next]_vars
    => FileThereForActor'
<1> SUFFICES ASSUME TypeOK, OneCommand, Timely, FilesKept, FileThereForActor, [Next]_vars,
                    current' # NoRequest, HasFile(current'), current' \notin typed'
             PROVE  current' \in files'
  BY DEF FileThereForActor, HasFile
<1>1. CASE Take
  <2>1. HasEngine /\ queue # <<>> /\ current' = Head(queue) /\ files' = files
    BY <1>1 DEF Take, disk
  <2>2. current' = queue[1] /\ 1 \in DOMAIN queue /\ current' \in Request
    BY <2>1, TypesOf, HeadAndTail
  <2> QED  BY <2>1, <2>2 DEF FilesKept
<1>2. CASE current' = current
  <2>1. typed \subseteq typed'
    <3>1. typed' = typed \/ Type
      BY ReplyEffect DEF Next, Actor, Handler, MountDb, Record, Poll, Begin, BeginFails, Enter,
         Refused, Abandoned, Hear, VerifyTimeout, Disconnect, FileTimeout, Cleanup, Take, Stop,
         vars, wechat
    <3> QED  BY <3>1 DEF Type
  <2>2. current \in files
    BY <1>2, <2>1 DEF FileThereForActor
  <2>3. ASSUME NEW r \in Request, Cleanup(r) PROVE current \in files'
    <3>1. r # current
      BY <1>2, <2>3 DEF Cleanup, Timely
    <3> QED  BY <2>2, <2>3, <3>1 DEF Cleanup
  <2>4. ASSUME NEW r \in Request, Refused(r) \/ Abandoned(r) PROVE FALSE
    BY <1>2, <2>4 DEF Refused, Abandoned, OneCommand
  <2> QED  BY <1>2, <2>2, <2>3, <2>4, FileStep
<1>3. ASSUME NEW r \in Request, Enter(r) PROVE current' = current
  BY <1>3 DEF Enter
<1> QED  BY <1>1, <1>2, <1>3, QueueStep

-----------------------------------------------------------------------------
(***************************************************************************)
(* Receivers and the database                                              *)
(***************************************************************************)

\* What a step takes from, or gives to, the receiver of a request.
Keeps(q) == heard'[q] = heard[q]
Gets(q, m) == Hearing' = Hearing /\ heard'[q] = Received(heard[q], m)
LooksAt(q) ==
  /\ stage[q] = "verifying" /\ heard[q] # <<>> /\ heard'[q] = Tail(heard[q])
  /\ Matches(Head(heard[q]), q) => stage'[q] = "answered"
IsDropped(q) == stage'[q] = "dropped" /\ heard'[q] = <<>>

LEMMA SubsetsNext ==
  TypeOK /\ [Next]_vars => subscribed' \in SUBSET Request /\ returned' \in SUBSET Request
<1> SUFFICES ASSUME TypeOK, [Next]_vars
             PROVE  subscribed' \in SUBSET Request /\ returned' \in SUBSET Request
  OBVIOUS
<1>1. {subscribed', typed', files', cleaners', returned', lagged'} \subseteq SUBSET Request
  <2>1. TypeOK'
    BY TypeNext
  <2> QED  BY <2>1 DEF TypeOK
<1> QED  BY <1>1

LEMMA PollEffect ==
  ASSUME TypeOK, NEW m \in Message, Poll(m), NEW q \in Request
  PROVE  /\ m \in unpolled /\ unpolled' = unpolled \ {m} /\ polled' = polled \cup {m}
         /\ stage' = stage /\ answer' = answer /\ subscribed' = subscribed /\ before' = before
         /\ heard'[q] = IF q \in Hearing THEN Received(heard[q], m) ELSE heard[q]
         /\ lagged' = lagged \cup {r \in Hearing : Len(heard[r]) = SentSize}
         /\ returned' = returned \cup {r \in {m} \cap Request : Alive(r)}
  BY TypesOf DEF Poll, Received, handler

LEMMA HeardStep ==
  ASSUME TypeOK, [Next]_vars, NEW q \in Request
  PROVE  \/ (\E m \in Message : Poll(m)) \/ Keeps(q) \/ LooksAt(q) \/ IsDropped(q)
<1>1. ASSUME NEW r \in Request, Hear(r) PROVE Keeps(q) \/ LooksAt(q)
  <2>1. /\ stage[r] = "verifying" /\ heard[r] # <<>> /\ heard' = [heard EXCEPT ![r] = Tail(heard[r])]
        /\ Matches(Head(heard[r]), r) => Respond(r, "ok", reported[r], TRUE)
        /\ reported[r] \in BOOLEAN
    BY <1>1, TypesOf DEF Hear
  <2>2. Matches(Head(heard[r]), r) => stage'[r] = "answered"
    BY <2>1, RespondEffect
  <2> QED  BY <2>1, <2>2, TypesOf DEF Keeps, LooksAt
<1>2. ASSUME NEW r \in Request, Disconnect(r) PROVE Keeps(q) \/ IsDropped(q)
  <2>1. Goto(r, "dropped") /\ heard' = [heard EXCEPT ![r] = <<>>] /\ "dropped" \in Stage
    BY <1>2 DEF Disconnect, Stage
  <2> QED  BY <2>1, TypesOf, GotoEffect DEF Keeps, IsDropped
<1>3. ASSUME NEW r \in Request,
             \/ Begin(r) \/ BeginFails(r) \/ Enter(r) \/ Refused(r) \/ Abandoned(r)
             \/ VerifyTimeout(r) \/ FileTimeout(r) \/ Cleanup(r)
      PROVE  Keeps(q)
  BY <1>3 DEF Begin, BeginFails, Enter, Refused, Abandoned, VerifyTimeout, FileTimeout, Cleanup,
     receiver, Keeps
<1>4. ASSUME MountDb \/ Actor \/ Stop \/ (\E m \in Message : Record(m)) \/ UNCHANGED vars PROVE Keeps(q)
  BY <1>4, ReplyEffect DEF MountDb, Actor, Take, Type, Stop, Record, receiver, vars, Keeps
<1> QED  BY <1>1, <1>2, <1>3, <1>4 DEF Next, Handler

\* What came out of the database stays so, once, and what a request calls earlier
\* is fixed when it begins.
LEMMA DatabaseStep ==
  ASSUME TypeOK, [Next]_vars
  PROVE  /\ polled \subseteq polled'
         /\ unpolled \cap polled = {} => unpolled' \cap polled' = {}
         /\ \A q \in Request :
              \/ before'[q] = before[q] /\ (q \in subscribed' => q \in subscribed)
              \/ /\ Begin(q) /\ stage[q] = "new" /\ stage'[q] = "entering" /\ heard' = heard
                 /\ before'[q] \subseteq polled /\ (q \in subscribed' /\ q \notin subscribed => Verifies(q))
         /\ subscribed \subseteq subscribed'
<1> DEFINE Kept == polled \subseteq polled' /\ (unpolled \cap polled = {} => unpolled' \cap polled' = {})
<1> DEFINE Same == before' = before /\ subscribed' = subscribed
<1>1. ASSUME NEW r \in Request, Begin(r)
      PROVE  /\ Kept /\ subscribed \subseteq subscribed'
             /\ stage[r] = "new" /\ stage'[r] = "entering" /\ heard' = heard
             /\ before'[r] \subseteq polled /\ (r \in subscribed' /\ r \notin subscribed => Verifies(r))
             /\ \A q \in Request \ {r} : before'[q] = before[q] /\ (q \in subscribed' => q \in subscribed)
  <2>1. /\ Goto(r, "entering") /\ stage[r] = "new" /\ heard' = heard
        /\ unpolled' = unpolled /\ polled' = polled
        /\ subscribed' = IF db /\ Verifies(r) THEN subscribed \cup {r} ELSE subscribed
    BY <1>1 DEF Begin, MayBegin, wechat
  <2>2. stage'[r] = "entering"
    BY <2>1, GotoEffect DEF Stage
  <2>3. before'[r] \subseteq polled /\ \A q \in Request \ {r} : before'[q] = before[q]
    <3>1. PICK was \in {polled, {}} : before' = [before EXCEPT ![r] = was]
      BY <1>1 DEF Begin
    <3> QED  BY <3>1, TypesOf
  <2> QED  BY <2>1, <2>2, <2>3
<1>2. ASSUME NEW r \in Request, \/ BeginFails(r) \/ Enter(r) \/ Refused(r) \/ Abandoned(r)
                                \/ Hear(r) \/ VerifyTimeout(r) \/ FileTimeout(r)
                                \/ Cleanup(r) \/ Disconnect(r)
      PROVE  Kept /\ Same
  BY <1>2 DEF BeginFails, Enter, Refused, Abandoned, Hear, VerifyTimeout, FileTimeout, Cleanup, Disconnect, receiver,
     wechat, history
<1>3. ASSUME NEW m \in Message, Record(m) \/ Poll(m) PROVE Kept /\ Same
  <2>1. CASE Record(m)
    BY <2>1 DEF Record, Recorded, receiver, history
  <2>2. CASE Poll(m)
    BY <2>2 DEF Poll
  <2> QED  BY <1>3, <2>1, <2>2
<1>4. ASSUME MountDb PROVE Kept /\ Same
  BY <1>4 DEF MountDb, receiver
<1>5. ASSUME Actor \/ Stop \/ UNCHANGED vars PROVE Kept /\ Same
  <2>1. /\ UNCHANGED <<subscribed, unpolled, polled, before>>
    BY <1>5, ReplyEffect DEF Actor, Take, Type, Stop, receiver, wechat, history, vars
  <2> QED  BY <2>1
<1>6. CASE \E r \in Request : Begin(r)
  <2>1. PICK r \in Request : Begin(r)
    BY <1>6
  <2> HIDE DEF Kept
  <2>2. /\ Kept /\ subscribed \subseteq subscribed'
        /\ stage[r] = "new" /\ stage'[r] = "entering" /\ heard' = heard
        /\ before'[r] \subseteq polled /\ (r \in subscribed' /\ r \notin subscribed => Verifies(r))
        /\ \A q \in Request \ {r} : before'[q] = before[q] /\ (q \in subscribed' => q \in subscribed)
    BY <1>1, <2>1
  <2> QED  BY <2>1, <2>2 DEF Kept
<1>7. CASE Kept /\ Same
  BY <1>7
<1> HIDE DEF Kept, Same
<1> QED  BY <1>2, <1>3, <1>4, <1>5, <1>6, <1>7 DEF Next, Handler

\* A message that a receiver gets is new to everybody: it was not out of the
\* database yet, and a request that begins has an empty receiver.
LEMMA HeardIsNewNext == TypeOK /\ HeardIsNew /\ EchoHeard /\ [Next]_vars => HeardIsNew'
<1> SUFFICES ASSUME TypeOK, HeardIsNew, EchoHeard, [Next]_vars, NEW q \in Request
             PROVE  /\ before'[q] \subseteq polled'
                    /\ q \notin subscribed' => heard'[q] = <<>>
                    /\ \A i \in DOMAIN heard'[q] : heard'[q][i] \in polled' \ before'[q]
  BY DatabaseStep DEF HeardIsNew
<1>1. /\ unpolled \cap polled = {} /\ before[q] \subseteq polled
      /\ q \notin subscribed => heard[q] = <<>>
      /\ \A i \in DOMAIN heard[q] : heard[q][i] \in polled \ before[q]
      /\ q \in subscribed => stage[q] # "new"
  BY DEF HeardIsNew, EchoHeard
<1>2. /\ polled \subseteq polled' /\ unpolled' \cap polled' = {} /\ subscribed \subseteq subscribed'
      /\ \/ before'[q] = before[q] /\ (q \in subscribed' => q \in subscribed)
         \/ stage[q] = "new" /\ heard' = heard /\ before'[q] \subseteq polled
  BY <1>1, DatabaseStep
<1>3. CASE stage[q] = "new" /\ heard' = heard /\ before'[q] \subseteq polled
  <2>1. heard'[q] = <<>>
    BY <1>1, <1>3
  <2> QED  BY <1>2, <1>3, <2>1
<1>4. ASSUME before'[q] = before[q] /\ (q \in subscribed' => q \in subscribed), NEW m \in Message, Poll(m)
      PROVE  /\ q \notin subscribed' => heard'[q] = <<>>
             /\ \A i \in DOMAIN heard'[q] : heard'[q][i] \in polled' \ before'[q]
  <2>1. /\ m \in unpolled /\ polled' = polled \cup {m} /\ subscribed' = subscribed
        /\ heard'[q] = IF q \in Hearing THEN Received(heard[q], m) ELSE heard[q]
    BY <1>4, PollEffect
  <2>2. \A i \in DOMAIN Received(heard[q], m) :
          Received(heard[q], m)[i] = m \/ \E j \in DOMAIN heard[q] : Received(heard[q], m)[i] = heard[q][j]
    BY TypesOf, Broadcast
  <2>3. m \in polled' \ before'[q]
    BY <1>1, <1>4, <2>1
  <2>4. CASE q \in Hearing
    <3>1. q \in subscribed /\ heard'[q] = Received(heard[q], m)
      BY <2>1, <2>4 DEF Hearing
    <3> QED  BY <1>1, <1>2, <1>4, <2>1, <2>2, <2>3, <3>1
  <2>5. CASE q \notin Hearing
    BY <1>1, <1>2, <1>4, <2>1, <2>5
  <2> QED  BY <2>4, <2>5
<1>5. CASE before'[q] = before[q] /\ (q \in subscribed' => q \in subscribed)
  <2>1. CASE Keeps(q) \/ IsDropped(q)
    BY <1>1, <1>2, <1>5, <2>1 DEF Keeps, IsDropped
  <2>2. CASE LooksAt(q)
    <3>1. heard[q] # <<>> /\ heard'[q] = Tail(heard[q])
      BY <2>2 DEF LooksAt
    <3>2. \A i \in DOMAIN heard'[q] : i + 1 \in DOMAIN heard[q] /\ heard'[q][i] = heard[q][i + 1]
      BY <3>1, TypesOf, HeadAndTail
    <3> QED  BY <1>1, <1>2, <1>5, <3>1, <3>2
  <2> QED  BY <1>1, <1>2, <1>4, <1>5, <2>1, <2>2, HeardStep
<1> QED  BY <1>2, <1>3, <1>5

\* What came back while its handler waited, and what receivers lost, are only
\* added to by a poll.
LEMMA HistoryStep ==
  ASSUME TypeOK, [Next]_vars
  PROVE  \/ \E m \in Message : Poll(m)
         \/ UNCHANGED <<returned, lagged>>
  BY ReplyEffect DEF Next, Actor, Handler, MountDb, Record, Begin, BeginFails, Enter, Refused,
     Abandoned, Hear, VerifyTimeout, Disconnect, FileTimeout, Cleanup, Take, Type, Stop, vars, history

\* The echo of a request enters its receiver, and leaves it only when it is
\* looked at, which answers the request: contents are equal to themselves.
LEMMA EchoHeardNext == TypeOK /\ EchoHeard /\ [Next]_vars => EchoHeard'
<1> SUFFICES ASSUME TypeOK, EchoHeard, [Next]_vars, NEW q \in Request
             PROVE  /\ q \in subscribed' => Verifies(q) /\ stage'[q] # "new"
                    /\ q \in returned' => stage'[q] # "new"
                    /\ q \in subscribed' /\ q \in returned' /\ q \notin lagged' /\ Alive(q)'
                         => \E i \in DOMAIN heard'[q] : heard'[q][i] = q
  BY SubsetsNext DEF EchoHeard, Verifies, Alive
<1>1. /\ q \in subscribed => Verifies(q) /\ stage[q] # "new"
      /\ q \in returned => stage[q] # "new"
      /\ q \in subscribed /\ q \in returned /\ q \notin lagged /\ Alive(q)
           => \E i \in DOMAIN heard[q] : heard[q][i] = q
  BY DEF EchoHeard
<1>2. /\ \/ q \in subscribed' => q \in subscribed
         \/ stage[q] = "new" /\ stage'[q] = "entering" /\ Begin(q)
      /\ q \in subscribed' /\ q \notin subscribed => Verifies(q)
  BY DatabaseStep
<1>3. stage[q] # "new" => stage'[q] # "new"
  BY NoWayBack
<1>4. q \in subscribed' => Verifies(q) /\ stage'[q] # "new"
  BY <1>1, <1>2, <1>3
<1> DEFINE Holds ==
      /\ q \in returned' => stage'[q] # "new"
      /\ q \in subscribed' /\ q \in returned' /\ q \notin lagged' /\ Alive(q)'
           => \E i \in DOMAIN heard'[q] : heard'[q][i] = q
<1>5. ASSUME NEW m \in Message, Poll(m) PROVE Holds
  <2>1. /\ stage' = stage /\ subscribed' = subscribed
        /\ heard'[q] = IF q \in Hearing THEN Received(heard[q], m) ELSE heard[q]
        /\ lagged' = lagged \cup {r \in Hearing : Len(heard[r]) = SentSize}
        /\ returned' = returned \cup {r \in {m} \cap Request : Alive(r)}
    BY <1>5, PollEffect
  <2>2. q \in returned' => q \in returned \/ (q = m /\ Alive(q))
    BY <2>1
  <2>3. q \in returned' => stage'[q] # "new"
    BY <1>1, <2>1, <2>2 DEF Alive
  <2>4. ASSUME q \in subscribed', q \in returned', q \notin lagged', Alive(q)'
        PROVE  \E i \in DOMAIN heard'[q] : heard'[q][i] = q
    <3>1. q \in subscribed /\ Alive(q) /\ q \in Hearing
      BY <2>1, <2>4 DEF Alive, Hearing
    <3>2. heard'[q] = Received(heard[q], m) /\ Len(heard[q]) # SentSize /\ q \notin lagged
      BY <2>1, <2>4, <3>1
    <3>3. /\ \E i \in DOMAIN Received(heard[q], m) : Received(heard[q], m)[i] = m
          /\ \A j \in DOMAIN heard[q] : \E i \in DOMAIN Received(heard[q], m) :
               Received(heard[q], m)[i] = heard[q][j]
      BY <3>2, TypesOf, Broadcast
    <3> QED  BY <1>1, <2>2, <2>4, <3>1, <3>2, <3>3
  <2> QED  BY <2>3, <2>4
<1>6. ASSUME UNCHANGED <<returned, lagged>>, ~ \E m \in Message : Poll(m) PROVE Holds
  <2>1. q \in returned' => stage'[q] # "new"
    BY <1>1, <1>3, <1>6
  <2>2. ASSUME q \in subscribed', q \in returned', q \notin lagged', Alive(q)'
        PROVE  \E i \in DOMAIN heard'[q] : heard'[q][i] = q
    <3>1. Alive(q)
      <4>1. stage[q] # "new" /\ stage'[q] \in {"entering", "waiting", "verifying"}
        BY <1>1, <1>6, <2>2 DEF Alive
      <4> QED  BY <4>1, HandlerStep DEF Stays, GoesOn, Answers, Alive
    <3>2. q \in subscribed
      BY <1>2, <2>2, <3>1 DEF Alive
    <3>3. PICK i \in DOMAIN heard[q] : heard[q][i] = q
      BY <1>1, <1>6, <2>2, <3>1, <3>2
    <3>4. CASE Keeps(q)
      BY <3>3, <3>4 DEF Keeps
    <3>5. CASE LooksAt(q)
      <4>1. heard[q] # <<>> /\ heard'[q] = Tail(heard[q]) /\ ~ Matches(Head(heard[q]), q)
        BY <2>2, <3>5 DEF LooksAt, Alive
      <4>2. Matches(q, q)
        BY DispatchAssumption DEF Matches, Message
      <4>3. heard[q] \in Seq(Message)
        BY TypesOf
      <4>4. i # 1
        BY <3>3, <4>1, <4>2, <4>3, HeadAndTail
      <4>5. i - 1 \in DOMAIN heard'[q] /\ heard'[q][i - 1] = q
        BY <3>3, <4>1, <4>3, <4>4, HeadAndTail
      <4> QED  BY <4>5
    <3>6. ~ IsDropped(q)
      BY <2>2 DEF IsDropped, Alive
    <3> QED  BY <1>6, <3>4, <3>5, <3>6, HeardStep
  <2> QED  BY <2>1, <2>2
<1>7. Holds
  <2> HIDE DEF Holds
  <2> QED  BY <1>5, <1>6, HistoryStep
<1> QED  BY <1>4, <1>7

\* An answer that says verified names a message the receiver held.
LEMMA ConfirmedNext ==
  TypeOK /\ AnswersAtEnd /\ HeardIsNew /\ EchoHeard /\ ConfirmedByDatabase /\ [Next]_vars
    => ConfirmedByDatabase'
<1> SUFFICES ASSUME TypeOK, AnswersAtEnd, HeardIsNew, EchoHeard, ConfirmedByDatabase, [Next]_vars,
                    NEW q \in Request, q \in subscribed', answer'[q] # NoAnswer, answer'[q].verified
             PROVE  \E m \in polled' \ before'[q] : Matches(m, q)
  BY SubsetsNext DEF ConfirmedByDatabase, Confirmed, Matches
<1>1. stage'[q] = "answered"
  BY TypeNext, AnswersAtEndNext DEF AnswersAtEnd
<1>2. /\ before'[q] = before[q] /\ q \in subscribed /\ polled \subseteq polled'
  BY <1>1, DatabaseStep
<1>3. Verifies(q)
  BY <1>2 DEF EchoHeard
<1>4. CASE Stays(q)
  BY <1>2, <1>4 DEF Stays, ConfirmedByDatabase, Confirmed
<1>5. CASE Answers(q)
  <2>1. heard[q] # <<>> /\ Matches(Head(heard[q]), q)
    BY <1>2, <1>3, <1>5 DEF Answers
  <2>2. Head(heard[q]) = heard[q][1] /\ 1 \in DOMAIN heard[q]
    BY <2>1, TypesOf, HeadAndTail
  <2>3. Head(heard[q]) \in polled \ before[q]
    BY <2>2 DEF HeardIsNew
  <2> QED  BY <1>2, <2>1, <2>3
<1>6. ~ GoesOn(q)
  BY <1>1 DEF GoesOn
<1> QED  BY <1>4, <1>5, <1>6, HandlerStep

\* A denial is the end of a wait with an empty receiver: the echo did not come,
\* or was lost from it.
LEMMA EchoConfirmsNext ==
  TypeOK /\ AnswersAtEnd /\ EchoHeard /\ EchoConfirms /\ [Next]_vars => EchoConfirms'
<1> SUFFICES ASSUME TypeOK, AnswersAtEnd, EchoHeard, EchoConfirms, [Next]_vars,
                    NEW q \in Request, q \in subscribed', answer'[q] # NoAnswer,
                    answer'[q].status = "ok", ~ answer'[q].verified, answer'[q].sent,
                    q \notin lagged', q \in returned'
             PROVE  FALSE
  BY SubsetsNext DEF EchoConfirms, Denied
<1>1. stage'[q] = "answered"
  BY TypeNext, AnswersAtEndNext DEF AnswersAtEnd
<1>2. q \in subscribed
  BY <1>1, DatabaseStep
<1>3. Verifies(q)
  BY <1>2 DEF EchoHeard
<1>4. ASSUME NEW m \in Message, Poll(m) PROVE FALSE
  <2>1. /\ stage' = stage /\ answer' = answer
        /\ q \in returned \/ Alive(q)
        /\ q \notin lagged
    BY <1>4, PollEffect
  <2> QED  BY <1>1, <1>2, <2>1 DEF EchoConfirms, Denied, Alive
<1>5. q \in returned /\ q \notin lagged
  BY <1>4, HistoryStep
<1>6. ~ Stays(q)
  BY <1>2, <1>5 DEF Stays, EchoConfirms, Denied
<1>7. ~ GoesOn(q)
  BY <1>1 DEF GoesOn
<1>8. ~ Answers(q)
  <2> SUFFICES ASSUME Answers(q) PROVE FALSE
    OBVIOUS
  <2>1. stage[q] = "verifying" /\ heard[q] = <<>>
    BY <1>2, <1>3 DEF Answers
  <2> QED  BY <1>2, <1>5, <2>1 DEF EchoHeard, Alive
<1> QED  BY <1>6, <1>7, <1>8, HandlerStep

-----------------------------------------------------------------------------
(***************************************************************************)
(* The theorems                                                            *)
(***************************************************************************)

\* The invariant is inductive.
THEOREM InductiveInvariant == Spec => []IInv
<1>1. IInv /\ [Next]_vars => IInv'
  BY TypeNext, AnswersAtEndNext, OneCommandNext, HeardIsNewNext, EchoHeardNext, ConfirmedNext,
     EchoConfirmsNext DEF IInv
<1> QED  BY InitIInv, <1>1, PTL DEF Spec

\* Every variable has its type; the command queue and the receivers stay within
\* their capacity.
THEOREM TypeCorrect == Spec => []TypeOK
<1>1. IInv => TypeOK
  BY DEF IInv
<1> QED  BY <1>1, InductiveInvariant, PTL

\* The actor finds the file of every command it executes, though the request may
\* have timed out, its clean-up sleep, or its client be gone, if it gets through
\* more than a queue of commands in 120 + 900 s: clean-ups look at the clock only,
\* and commands are executed in the order in which they were queued.
THEOREM FilesOutliveRequests ==
  ASSUME CommandsAreQuick PROVE Spec => []FileThereForActor
<1>1. Init => FileInv
  <2>1. ASSUME Init PROVE Timely /\ FilesKept /\ FileThereForActor
    BY <2>1 DEF Init, Timely, FilesKept, FileThereForActor
  <2> QED  BY <2>1, InitIInv DEF FileInv
<1>2. FileInv /\ [Next]_vars => FileInv'
  <2>1. IInv /\ [Next]_vars => IInv'
    BY TypeNext, AnswersAtEndNext, OneCommandNext, HeardIsNewNext, EchoHeardNext, ConfirmedNext,
       EchoConfirmsNext DEF IInv
  <2>2. IInv => TypeOK /\ OneCommand
    BY DEF IInv
  <2> QED  BY <2>1, <2>2, TimelyNext, FilesKeptNext, FileThereNext DEF FileInv
<1>3. FileInv => FileThereForActor
  BY DEF FileInv
<1> QED  BY <1>1, <1>2, <1>3, PTL DEF Spec

\* With a database, verify_sent confirms a request only by a message with its
\* content that came out of the database after the request began.
THEOREM VerifiedFromDatabase == Spec => []ConfirmedByDatabase
<1>1. IInv => ConfirmedByDatabase
  BY DEF IInv
<1> QED  BY <1>1, InductiveInvariant, PTL

\* No echo is missed: a message that came back while its handler was there is
\* confirmed, unless the handler's receiver overflowed.
THEOREM EchoesConfirm == Spec => []EchoConfirms
<1>1. IInv => EchoConfirms
  BY DEF IInv
<1> QED  BY <1>1, InductiveInvariant, PTL

=============================================================================
