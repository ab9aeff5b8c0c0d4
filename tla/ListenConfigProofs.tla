------------------------- MODULE ListenConfigProofs -------------------------
(***************************************************************************)
(* The safety properties of ListenConfig: what a reload leaves, for any    *)
(* number of administrators and callers, and that the file keeps what was  *)
(* promised, for a single administrator who waits for the task that adds   *)
(* the targets of the file.                                                *)
(***************************************************************************)
EXTENDS ListenConfig, FiniteSetTheorems, TLAPS

-----------------------------------------------------------------------------
(***************************************************************************)
(* The inductive invariants                                                *)
(***************************************************************************)

TaskRecord ==
  [pc : {"idle", "parse", "diff", "ask", "answer", "list", "read", "truncate", "write"},
   kind : {"none", "boot", "listen", "unlisten", "reload", "post", "delete"},
   who : Name \cup {NoName}, todo : SUBSET Request, list : SUBSET Name, rest : Rest]

\* Who does what, and what a command still asks the actor for.
Role(t, k) ==
  /\ k.pc = "idle" \/ k.kind = "none" => k = Idle
  /\ t \in Admin => k.kind \in {"none", "listen", "unlisten", "reload"}
  /\ t \notin Admin => k.kind \in {"none", "boot", "post", "delete"}
  /\ k.pc \in {"list", "read", "truncate", "write"} => k.kind \in {"listen", "unlisten"}
  /\ k.pc \in {"parse", "diff"} => k.kind = "reload"
  /\ k.kind \in {"listen", "unlisten"} => k.who \in Name
  /\ k.kind = "listen" => k.todo \subseteq Add({k.who})
  /\ k.kind = "unlisten" => k.todo \subseteq Remove({k.who})

Roles == \A t \in Task : Role(t, task[t])

\* The actor is at one request at most, and at the one its task asked for.
OneRequest ==
  /\ \A a, b \in actor : a = b
  /\ \A a \in actor :
       /\ task[a.task].kind = "listen" => a.request \in Add({task[a.task].who})
       /\ task[a.task].kind = "unlisten" => a.request \in Remove({task[a.task].who})

\* An undisturbed reload knows the file as it is, and what it still asks for is
\* all in which the list differs from it.
ReloadKnows ==
  \A t \in undisturbed :
    task[t].kind = "reload" =>
      /\ task[t].pc # "parse"
      /\ task[t].pc \in {"diff", "ask", "answer"} => task[t].list = file.auto
      /\ task[t].pc \in {"ask", "answer"} => task[t].todo = Difference(t)

IInv == TypeOK /\ Roles /\ OneRequest /\ ReloadKnows

\* One administrator, who gives no command before the targets of the file are
\* added: another could save a list he read before.
OneAdministrator == Patient /\ \A a, b \in Admin : a = b

\* No command is under way while the task that adds the targets of the file is.
BootFirst == \A t \in Admin : task[t].pc # "idle" => task[Boot] = Idle

\* What is promised is on the list, or will be once the targets are added.
PromisedIsListed ==
  ~ lost => \A n \in promised : n \in targets \/ [op |-> "add", who |-> n] \in task[Boot].todo

\* What is to be saved has all that is promised, and, but for an earlier save
\* that failed, the rest of the file.
SaveKeeps ==
  ~ lost =>
    /\ \A a \in actor :
         task[a.task].kind = "unlisten" /\ a.had => task[a.task].who \notin promised
    /\ \A t \in Admin :
         /\ task[t].kind = "unlisten" /\ task[t].pc = "list" => task[t].who \notin promised
         /\ task[t].pc \in {"read", "truncate", "write"} =>
              promised \subseteq task[t].list /\ (task[t].kind = "listen" => task[t].who \in task[t].list)
         /\ ~ unsaved /\ task[t].pc \in {"truncate", "write"} => task[t].rest # "empty"

SaveInv == IInv /\ BootFirst /\ PromisedIsListed /\ SaveKeeps /\ PromisedIsSaved

-----------------------------------------------------------------------------
(***************************************************************************)
(* Facts about the operators of the model: what each step does to tasks    *)
(***************************************************************************)

LEMMA TypesOf ==
  ASSUME TypeOK
  PROVE  /\ task \in [Task -> TaskRecord] /\ file \in File /\ file.auto \in SUBSET Name
         /\ file.rest \in Rest /\ configured \in BOOLEAN /\ targets \in SUBSET Name /\ promised \in SUBSET Name
         /\ undisturbed \in SUBSET Task /\ unsaved \in BOOLEAN /\ lost \in BOOLEAN
         /\ commands \in 0 .. MaxCommands /\ kills \in 0 .. MaxKills /\ failures \in 0 .. MaxFail
         /\ actor \in SUBSET [task : Task, request : Request, had : BOOLEAN]
         /\ \A a \in actor : /\ a.task \in Task /\ a.request \in Request /\ a.had \in BOOLEAN
                             /\ task[a.task].pc = "answer"
         /\ \A t \in Task : task[t] \in TaskRecord
  BY DEF TypeOK, TaskRecord, File

\* Requests to add and to remove differ, and name whom they are about.
LEMMA Requests ==
  ASSUME NEW names \in SUBSET Name
  PROVE  /\ Add(names) \in SUBSET Request /\ Remove(names) \in SUBSET Request
         /\ \A r \in Add(names) : r.op = "add" /\ r.who \in names
         /\ \A r \in Remove(names) : r.op = "remove" /\ r.who \in names
         /\ \A n \in names : [op |-> "add", who |-> n] \in Add(names)
                             /\ [op |-> "remove", who |-> n] \in Remove(names)
  BY DEF Add, Remove, Request

LEMMA OneHasCardinalityOne ==
  ASSUME NEW S, \A a, b \in S : a = b
  PROVE  Cardinality(S) \in Nat /\ Cardinality(S) <= 1
<1>1. CASE S = {}
  BY <1>1, FS_EmptySet
<1>2. CASE S # {}
  <2>1. PICK a \in S : S = {a}
    BY <1>2
  <2> QED  BY <2>1, FS_Singleton
<1> QED  BY <1>1, <1>2

\* A task whose record is replaced, and the others.
Becomes(t, new) ==
  /\ task' \in [Task -> TaskRecord] /\ new \in TaskRecord
  /\ task'[t] = new /\ \A u \in Task \ {t} : task'[u] = task[u]

LEMMA IdleRecord == Idle \in TaskRecord
  BY DEF Idle, TaskRecord, Rest

LEMMA EndsEffect ==
  ASSUME TypeOK, NEW t \in Task, Ends(t)
  PROVE  Becomes(t, Idle)
  BY TypesOf, IdleRecord DEF Ends, Becomes

LEMMA FailuresType ==
  ASSUME TypeOK, UNCHANGED failures \/ FileFails
  PROVE  failures' \in 0 .. MaxFail
  BY TypesOf, ListenConfigAssumption DEF FileFails

LEMMA GoesEffect ==
  ASSUME TypeOK, NEW t \in Task, NEW step \in {"ask", "list", "write"}, Goes(t, step)
  PROVE  Becomes(t, [task[t] EXCEPT !.pc = step])
<1>1. [task[t] EXCEPT !.pc = step] \in TaskRecord
  BY TypesOf DEF TaskRecord
<1> QED  BY <1>1, TypesOf DEF Goes, Becomes

\* A command or a call that begins.
Began(t, kind, n, step, requests) ==
  Becomes(t, [Idle EXCEPT !.pc = step, !.kind = kind, !.who = n, !.todo = requests])

LEMMA BeginEffect ==
  ASSUME TypeOK, NEW t \in Task, Give(t) \/ Call(t)
  PROVE  /\ task[t] = Idle /\ commands' \in 0 .. MaxCommands
         /\ undisturbed' = undisturbed \ {t}
             /\ UNCHANGED <<file, configured, targets, actor, promised, unsaved, lost, kills, failures>>
         /\ \/ /\ t \in Admin /\ (Patient => task[Boot] = Idle)
               /\ \/ Began(t, "reload", NoName, "parse", {})
                  \/ \E n \in Name : \/ Began(t, "listen", n, "ask", Add({n}))
                                     \/ Began(t, "unlisten", n, "ask", Remove({n}))
            \/ /\ t \in Caller
               /\ \E n \in Name : \/ Began(t, "post", n, "ask", Add({n}))
                                  \/ Began(t, "delete", n, "ask", Remove({n}))
<1>1. ASSUME NEW kind \in {"listen", "unlisten", "reload", "post", "delete"},
             NEW n \in Name \cup {NoName}, NEW step \in {"parse", "ask"},
             NEW requests \in SUBSET Request, Begin(t, kind, n, step, requests)
      PROVE  /\ Began(t, kind, n, step, requests)
             /\ task[t] = Idle /\ commands' \in 0 .. MaxCommands
             /\ undisturbed' = undisturbed \ {t}
             /\ UNCHANGED <<file, configured, targets, actor, promised, unsaved, lost, kills, failures>>
  <2> DEFINE new == [Idle EXCEPT !.pc = step, !.kind = kind, !.who = n, !.todo = requests]
  <2>2. new \in TaskRecord
    BY DEF Idle, TaskRecord, Rest
  <2>3. /\ task' = [task EXCEPT ![t] = new] /\ task[t] = Idle
        /\ commands < MaxCommands /\ commands' = commands + 1
        /\ undisturbed' = undisturbed \ {t}
             /\ UNCHANGED <<file, configured, targets, actor, promised, unsaved, lost, kills, failures>>
    BY <1>1 DEF Begin
  <2> HIDE DEF new
  <2>4. Becomes(t, new)
    BY <2>2, <2>3, TypesOf DEF Becomes
  <2>5. commands' \in 0 .. MaxCommands
    BY <2>3, TypesOf, ListenConfigAssumption
  <2> QED  BY <2>3, <2>4, <2>5 DEF Began, new
<1>2. \A n \in Name : Add({n}) \in SUBSET Request /\ Remove({n}) \in SUBSET Request
  BY Requests
<1>3. CASE Give(t)
  <2>1. CASE Begin(t, "reload", NoName, "parse", {})
    BY <1>1, <1>3, <2>1 DEF Give
  <2>2. ASSUME NEW n \in Name, Begin(t, "listen", n, "ask", Add({n}))
        PROVE  /\ Began(t, "listen", n, "ask", Add({n}))
               /\ task[t] = Idle /\ commands' \in 0 .. MaxCommands
               /\ undisturbed' = undisturbed \ {t}
             /\ UNCHANGED <<file, configured, targets, actor, promised, unsaved, lost, kills, failures>>
    BY <1>1, <1>2, <2>2
  <2>3. ASSUME NEW n \in Name, Begin(t, "unlisten", n, "ask", Remove({n}))
        PROVE  /\ Began(t, "unlisten", n, "ask", Remove({n}))
               /\ task[t] = Idle /\ commands' \in 0 .. MaxCommands
               /\ undisturbed' = undisturbed \ {t}
             /\ UNCHANGED <<file, configured, targets, actor, promised, unsaved, lost, kills, failures>>
    BY <1>1, <1>2, <2>3
  <2> QED  BY <1>3, <2>1, <2>2, <2>3 DEF Give
<1>4. CASE Call(t)
  <2>2. ASSUME NEW n \in Name, Begin(t, "post", n, "ask", Add({n}))
        PROVE  /\ Began(t, "post", n, "ask", Add({n}))
               /\ task[t] = Idle /\ commands' \in 0 .. MaxCommands
               /\ undisturbed' = undisturbed \ {t}
             /\ UNCHANGED <<file, configured, targets, actor, promised, unsaved, lost, kills, failures>>
    BY <1>1, <1>2, <2>2
  <2>3. ASSUME NEW n \in Name, Begin(t, "delete", n, "ask", Remove({n}))
        PROVE  /\ Began(t, "delete", n, "ask", Remove({n}))
               /\ task[t] = Idle /\ commands' \in 0 .. MaxCommands
               /\ undisturbed' = undisturbed \ {t}
             /\ UNCHANGED <<file, configured, targets, actor, promised, unsaved, lost, kills, failures>>
    BY <1>1, <1>2, <2>3
  <2> QED  BY <1>4, <2>2, <2>3 DEF Call
<1> QED  BY <1>3, <1>4

LEMMA DifferenceType ==
  ASSUME TypeOK, NEW t \in Task
  PROVE  Difference(t) \in SUBSET Request
<1>1. task[t].list \in SUBSET Name /\ targets \in SUBSET Name
  BY TypesOf DEF TaskRecord
<1> QED  BY <1>1, Requests DEF Difference

\* A reload reads the file, and then asks for the difference.
LEMMA ParseEffect ==
  ASSUME TypeOK, NEW t \in Task, Parse(t)
  PROVE  /\ task[t].pc = "parse"
         /\ \/ /\ Becomes(t, [task[t] EXCEPT !.pc = "diff", !.list = file.auto])
               /\ undisturbed' = undisturbed \cup {t}
            \/ Becomes(t, Idle) /\ undisturbed' = undisturbed
         /\ failures' \in 0 .. MaxFail
         /\ UNCHANGED <<file, configured, targets, actor, promised, unsaved, lost, commands, kills>>
<1> DEFINE new == [task[t] EXCEPT !.pc = "diff", !.list = file.auto]
<1>1. /\ task[t].pc = "parse"
      /\ \/ task' = [task EXCEPT ![t] = new] /\ undisturbed' = undisturbed \cup {t}
         \/ Ends(t) /\ undisturbed' = undisturbed
      /\ UNCHANGED failures \/ FileFails
      /\ UNCHANGED <<file, configured, targets, actor, promised, unsaved, lost, commands, kills>>
  BY TypesOf DEF Parse
<1>2. new \in TaskRecord
  <2>1. task[t] \in TaskRecord /\ file.auto \in SUBSET Name
    BY TypesOf
  <2> QED  BY <2>1 DEF TaskRecord
<1> HIDE DEF new
<1>3. task' = [task EXCEPT ![t] = new] => Becomes(t, new)
  BY <1>2, TypesOf DEF Becomes
<1> QED  BY <1>1, <1>3, EndsEffect, FailuresType DEF new

LEMMA DiffEffect ==
  ASSUME TypeOK, NEW t \in Task, Diff(t)
  PROVE  /\ task[t].pc = "diff"
         /\ \/ Difference(t) = {} /\ Becomes(t, Idle)
            \/ Becomes(t, [task[t] EXCEPT !.pc = "ask", !.todo = Difference(t)])
         /\ UNCHANGED <<file, configured, targets, actor, promised, unsaved, lost, undisturbed, bounds>>
<1> DEFINE new == [task[t] EXCEPT !.pc = "ask", !.todo = Difference(t)]
<1>1. /\ task[t].pc = "diff"
      /\ (Difference(t) = {} /\ Ends(t)) \/ task' = [task EXCEPT ![t] = new]
      /\ UNCHANGED <<file, configured, targets, actor, promised, unsaved, lost, undisturbed, bounds>>
  BY TypesOf DEF Diff
<1>2. new \in TaskRecord
  <2>1. task[t] \in TaskRecord /\ Difference(t) \in SUBSET Request
    BY TypesOf, DifferenceType
  <2> QED  BY <2>1 DEF TaskRecord
<1> HIDE DEF new
<1>3. task' = [task EXCEPT ![t] = new] => Becomes(t, new)
  BY <1>2, TypesOf DEF Becomes
<1> QED  BY <1>1, <1>3, EndsEffect DEF new

\* A save: the list, the rest of the file, the empty file, the new file.
SavedList(t) ==
  IF task[t].kind = "listen" THEN targets \cup {task[t].who} ELSE targets \ {task[t].who}

\* What a command that ends may promise, and one whose save failed.
Promises(t) ==
  /\ promised \subseteq promised'
  /\ \A n \in promised' : n \in promised \/ (task[t].kind = "listen" /\ n = task[t].who /\ n \in targets)
Failed(t) == Becomes(t, Idle) /\ Promises(t) /\ unsaved' = TRUE

LEMMA PromiseEffect ==
  ASSUME TypeOK, NEW t \in Task
  PROVE  /\ Promise(t) => Promises(t)
         /\ SaveFails(t) => Failed(t)
<1>1. Promise(t) => Promises(t)
  BY DEF Promise, Promises
<1> QED  BY <1>1, EndsEffect DEF SaveFails, Failed

LEMMA GetListEffect ==
  ASSUME TypeOK, Roles, NEW t \in Task, GetList(t)
  PROVE  /\ task[t].pc = "list" /\ SavedList(t) \in SUBSET Name
         /\ \/ /\ Becomes(t, [task[t] EXCEPT !.pc = "read", !.list = SavedList(t)])
               /\ UNCHANGED <<promised, unsaved>>
            \/ Failed(t)
         /\ UNCHANGED <<file, configured, targets, actor, lost, undisturbed, bounds>>
<1> DEFINE new == [task[t] EXCEPT !.pc = "read", !.list = SavedList(t)]
<1>1. /\ task[t].pc = "list"
      /\ (task' = [task EXCEPT ![t] = new] /\ UNCHANGED <<promised, unsaved>>) \/ SaveFails(t)
      /\ UNCHANGED <<file, configured, targets, actor, lost, undisturbed, bounds>>
  BY TypesOf DEF GetList, SavedList
<1>2. SavedList(t) \in SUBSET Name
  <2>1. task[t].who \in Name
    BY <1>1 DEF Roles, Role
  <2> QED  BY <2>1, TypesOf DEF SavedList
<1>3. new \in TaskRecord
  <2>1. task[t] \in TaskRecord
    BY TypesOf
  <2> QED  BY <2>1, <1>2 DEF TaskRecord
<1> HIDE DEF new
<1>4. task' = [task EXCEPT ![t] = new] => Becomes(t, new)
  BY <1>3, TypesOf DEF Becomes
<1> QED  BY <1>1, <1>2, <1>4, PromiseEffect DEF new

LEMMA ReadFileEffect ==
  ASSUME TypeOK, NEW t \in Task, ReadFile(t)
  PROVE  /\ task[t].pc = "read"
         /\ \/ /\ Becomes(t, [task[t] EXCEPT !.pc = "truncate", !.rest = file.rest])
               /\ UNCHANGED <<promised, unsaved>>
            \/ Failed(t)
         /\ failures' \in 0 .. MaxFail
         /\ UNCHANGED <<file, configured, targets, actor, lost, undisturbed, commands, kills>>
<1> DEFINE new == [task[t] EXCEPT !.pc = "truncate", !.rest = file.rest]
<1>1. /\ task[t].pc = "read"
      /\ (task' = [task EXCEPT ![t] = new] /\ UNCHANGED <<promised, unsaved>>) \/ SaveFails(t)
      /\ UNCHANGED failures \/ FileFails
      /\ UNCHANGED <<file, configured, targets, actor, lost, undisturbed, commands, kills>>
  BY TypesOf DEF ReadFile
<1>2. new \in TaskRecord
  <2>1. task[t] \in TaskRecord /\ file.rest \in Rest
    BY TypesOf
  <2> QED  BY <2>1 DEF TaskRecord
<1> HIDE DEF new
<1>3. task' = [task EXCEPT ![t] = new] => Becomes(t, new)
  BY <1>2, TypesOf DEF Becomes
<1> QED  BY <1>1, <1>3, PromiseEffect, FailuresType DEF new

LEMMA TruncateEffect ==
  ASSUME TypeOK, NEW t \in Task, Truncate(t)
  PROVE  /\ task[t].pc = "truncate"
         /\ \/ /\ file' = Empty /\ undisturbed' = undisturbed \cap {t} /\ UNCHANGED <<promised, unsaved>>
               /\ Becomes(t, [task[t] EXCEPT !.pc = "write"])
            \/ Failed(t) /\ UNCHANGED <<file, undisturbed>>
         /\ failures' \in 0 .. MaxFail
         /\ UNCHANGED <<configured, targets, actor, lost, commands, kills>>
<1>1. /\ task[t].pc = "truncate" /\ (UNCHANGED failures \/ FileFails)
      /\ \/ Goes(t, "write") /\ file' = Empty /\ Disturb(t) /\ UNCHANGED <<promised, unsaved>>
         \/ SaveFails(t) /\ UNCHANGED <<file, undisturbed>>
      /\ UNCHANGED <<configured, targets, actor, lost, commands, kills>>
  BY DEF Truncate
<1> QED  BY <1>1, GoesEffect, PromiseEffect, FailuresType DEF Disturb

\* What a write leaves, when it does not fail.
Written(t) ==
  /\ file' = Contents(t)
  /\ task[t].rest = "whole" => unsaved' = ~ Parsable(Contents(t))
  /\ task[t].rest = "bare" => unsaved' = TRUE
  /\ task[t].rest = "empty" => unsaved' = unsaved

LEMMA WriteEffect ==
  ASSUME TypeOK, NEW t \in Task, Write(t)
  PROVE  /\ task[t].pc = "write" /\ undisturbed' = undisturbed \cap {t} /\ file' \in File
         /\ \/ Written(t) /\ Becomes(t, Idle) /\ Promises(t)
            \/ Failed(t) /\ file' = file
         /\ unsaved' \in BOOLEAN /\ failures' \in 0 .. MaxFail
         /\ UNCHANGED <<configured, targets, actor, lost, commands, kills>>
<1>1. task[t].list \in SUBSET Name /\ task[t].rest \in Rest /\ file \in File /\ unsaved \in BOOLEAN
  BY TypesOf DEF TaskRecord
<1>2. Contents(t) \in File
  BY <1>1 DEF Contents, File, Rest
<1>3. /\ task[t].pc = "write" /\ Disturb(t) /\ (UNCHANGED failures \/ FileFails)
      /\ \/ /\ Ends(t) /\ Promise(t) /\ file' = Contents(t)
            /\ unsaved' = CASE task[t].rest = "whole" -> ~ Parsable(Contents(t))
                            [] task[t].rest = "bare"  -> TRUE
                            [] OTHER                  -> unsaved
         \/ SaveFails(t) /\ file' = file
      /\ UNCHANGED <<configured, targets, actor, lost, commands, kills>>
  BY DEF Write
<1>4. CASE SaveFails(t) /\ file' = file
  BY <1>1, <1>3, <1>4, PromiseEffect, FailuresType DEF Disturb, Failed
<1>5. CASE ~ (SaveFails(t) /\ file' = file)
  <2>1. Written(t) /\ unsaved' \in BOOLEAN
    BY <1>1, <1>3, <1>5 DEF Written, Rest, Parsable
  <2> QED  BY <1>2, <1>3, <1>5, <2>1, PromiseEffect, EndsEffect, FailuresType DEF Disturb
<1> QED  BY <1>3, <1>4, <1>5

\* The actor takes a request, and puts the target on the list or off it.
LEMMA ExecuteEffect ==
  ASSUME TypeOK, NEW t \in Task, Execute(t)
  PROVE  /\ actor = {} /\ task[t].pc = "ask" /\ undisturbed' = undisturbed \cap {t}
         /\ \E r \in task[t].todo :
              /\ r \in Request
              /\ actor' = {[task |-> t, request |-> r, had |-> r.who \in targets]}
              /\ targets' = TargetsAfter(r) /\ targets' \in SUBSET Name
              /\ promised' = IF r.op = "remove" /\ r.who \in targets THEN promised \ {r.who}
                                                                    ELSE promised
              /\ Becomes(t, [task[t] EXCEPT !.pc = "answer", !.todo = task[t].todo \ {r}])
         /\ UNCHANGED <<file, configured, unsaved, lost, bounds>>
<1>1. PICK r \in Asked(t) :
        /\ actor' = {[task |-> t, request |-> r, had |-> r.who \in targets]}
        /\ targets' = TargetsAfter(r)
        /\ promised' = IF r.op = "remove" /\ r.who \in targets THEN promised \ {r.who} ELSE promised
        /\ task' = [task EXCEPT ![t].pc = "answer", ![t].todo = @ \ {r}]
  BY DEF Execute
<1>2. r \in task[t].todo /\ r \in Request
  <2>1. r \in task[t].todo
    BY <1>1 DEF Asked
  <2>2. task[t].todo \in SUBSET Request
    BY TypesOf DEF TaskRecord
  <2> QED  BY <2>1, <2>2
<1>3. targets' \in SUBSET Name
  BY <1>1, <1>2, TypesOf DEF TargetsAfter, Request
<1> DEFINE new == [task[t] EXCEPT !.pc = "answer", !.todo = task[t].todo \ {r}]
<1>4. new \in TaskRecord
  <2>1. task[t] \in TaskRecord
    BY TypesOf
  <2> QED  BY <2>1 DEF TaskRecord
<1>5. task' = [task EXCEPT ![t] = new]
  BY <1>1, TypesOf
<1> HIDE DEF new
<1>6. Becomes(t, new)
  BY <1>4, <1>5, TypesOf DEF Becomes
<1>7. /\ actor = {} /\ task[t].pc = "ask" /\ undisturbed' = undisturbed \cap {t}
      /\ UNCHANGED <<file, configured, unsaved, lost, bounds>>
  BY DEF Execute, Busy, Disturb
<1> QED  BY <1>1, <1>2, <1>3, <1>6, <1>7 DEF new

\* The reply sends a command on: to save, to its next request, or to its end.
LEMMA ReplyEffect ==
  ASSUME TypeOK, Reply
  PROVE  /\ actor' = {}
         /\ \E a \in actor :
              /\ a.task \in Task
              /\ \/ /\ task[a.task].kind \in {"listen", "unlisten"}
                    /\ a.request.op # "add" => a.had
                    /\ Becomes(a.task, [task[a.task] EXCEPT !.pc = "list"])
                 \/ task[a.task].todo # {} /\ Becomes(a.task, [task[a.task] EXCEPT !.pc = "ask"])
                 \/ task[a.task].todo = {} /\ Becomes(a.task, Idle)
         /\ UNCHANGED <<file, configured, targets, promised, unsaved, lost, undisturbed, bounds>>
<1>1. PICK a \in actor :
        /\ actor' = {}
        /\ \E success \in IF a.request.op = "add" THEN BOOLEAN ELSE {a.had} :
             IF success /\ task[a.task].kind \in {"listen", "unlisten"} THEN Goes(a.task, "list")
             ELSE IF task[a.task].todo # {} THEN Goes(a.task, "ask")
             ELSE Ends(a.task)
        /\ UNCHANGED <<file, configured, targets, promised, unsaved, lost, undisturbed, bounds>>
  BY DEF Reply
<1>2. a.task \in Task
  BY TypesOf
<1>3. PICK success \in IF a.request.op = "add" THEN BOOLEAN ELSE {a.had} :
        IF success /\ task[a.task].kind \in {"listen", "unlisten"} THEN Goes(a.task, "list")
        ELSE IF task[a.task].todo # {} THEN Goes(a.task, "ask")
        ELSE Ends(a.task)
  BY <1>1
<1>4. /\ Goes(a.task, "list") => Becomes(a.task, [task[a.task] EXCEPT !.pc = "list"])
      /\ Goes(a.task, "ask") => Becomes(a.task, [task[a.task] EXCEPT !.pc = "ask"])
      /\ Ends(a.task) => Becomes(a.task, Idle)
  BY <1>2, GoesEffect, EndsEffect
<1>5. a.request.op # "add" => success = a.had
  BY <1>3
<1>6. \/ /\ task[a.task].kind \in {"listen", "unlisten"}
         /\ a.request.op # "add" => a.had
         /\ Becomes(a.task, [task[a.task] EXCEPT !.pc = "list"])
      \/ task[a.task].todo # {} /\ Becomes(a.task, [task[a.task] EXCEPT !.pc = "ask"])
      \/ task[a.task].todo = {} /\ Becomes(a.task, Idle)
  BY <1>3, <1>4, <1>5
<1> QED  BY <1>1, <1>2, <1>6

\* The program starts: every task is idle but the one that adds the targets.
LEMMA StartedTasks ==
  ASSUME NEW auto \in SUBSET Name
  PROVE  /\ Started(auto) \in [Task -> TaskRecord]
         /\ \A t \in Task : t # Boot \/ auto = {} => Started(auto)[t] = Idle
         /\ auto # {} => /\ Started(auto)[Boot].pc = "ask" /\ Started(auto)[Boot].kind = "boot"
                        /\ Started(auto)[Boot].todo = Add(auto)
<1> DEFINE boot == [Idle EXCEPT !.pc = "ask", !.kind = "boot", !.todo = Add(auto)]
<1>1. Boot \in Task
  BY DEF Task
<1>2. Add(auto) \in SUBSET Request
  BY Requests
<1>3. boot \in TaskRecord
  BY <1>2 DEF Idle, TaskRecord, Rest
<1>4. boot.pc = "ask" /\ boot.kind = "boot" /\ boot.todo = Add(auto)
  BY DEF Idle
<1>5. Started(auto) = [t \in Task |-> IF t = Boot /\ auto # {} THEN boot ELSE Idle]
  BY DEF Started
<1> HIDE DEF boot
<1> QED  BY <1>1, <1>3, <1>4, <1>5, IdleRecord

\* A step of a task outside the actor leaves the list and the other tasks alone.
Local(t) == Give(t) \/ Call(t) \/ Step(t)

LEMMA LocalEffect ==
  ASSUME TypeOK, Roles, NEW t \in Task, Local(t)
  PROVE  /\ UNCHANGED <<configured, targets, actor, lost, kills>>
         /\ commands' \in 0 .. MaxCommands /\ failures' \in 0 .. MaxFail
         /\ Becomes(t, task'[t]) /\ task[t].pc # "answer" /\ task'[t].pc # "answer"
         /\ undisturbed' \in SUBSET Task /\ file' \in File /\ promised' \in SUBSET Name
         /\ unsaved' \in BOOLEAN
<1> USE DEF bounds
<1>1. /\ commands \in 0 .. MaxCommands /\ undisturbed \in SUBSET Task /\ file \in File
      /\ promised \in SUBSET Name /\ task[t] \in TaskRecord /\ targets \in SUBSET Name
      /\ unsaved \in BOOLEAN /\ failures \in 0 .. MaxFail /\ Idle.pc = "idle"
  BY TypesOf DEF Idle
<1>2. \A new : Becomes(t, new) => Becomes(t, task'[t]) /\ task'[t] = new
  BY DEF Becomes
<1>10. Promises(t) => promised' \in SUBSET Name
  BY <1>1 DEF Promises
<1>11. Failed(t) => /\ Becomes(t, task'[t]) /\ task'[t].pc # "answer"
                    /\ promised' \in SUBSET Name /\ unsaved' \in BOOLEAN
  BY <1>1, <1>2, <1>10 DEF Failed
<1>3. CASE Give(t) \/ Call(t)
  <2>1. /\ task[t] = Idle /\ commands' \in 0 .. MaxCommands
        /\ undisturbed' = undisturbed \ {t}
             /\ UNCHANGED <<file, configured, targets, actor, promised, unsaved, lost, kills, failures>>
        /\ \E kind, n, requests, step : step # "answer" /\ Began(t, kind, n, step, requests)
    BY <1>3, BeginEffect
  <2>2. PICK kind, n, requests, step : step # "answer" /\ Began(t, kind, n, step, requests)
    BY <2>1
  <2> DEFINE new == [Idle EXCEPT !.pc = step, !.kind = kind, !.who = n, !.todo = requests]
  <2>3. Becomes(t, new) /\ new.pc = step
    BY <2>2 DEF Began, Idle
  <2> HIDE DEF new
  <2>4. Becomes(t, task'[t]) /\ task'[t].pc = step
    BY <1>2, <2>3
  <2> QED  BY <1>1, <2>1, <2>2, <2>4
<1>4. CASE Parse(t)
  <2>1. [task[t] EXCEPT !.pc = "diff", !.list = file.auto].pc = "diff"
    BY <1>1 DEF TaskRecord
  <2>2. /\ task[t].pc = "parse" /\ undisturbed' \in SUBSET Task /\ failures' \in 0 .. MaxFail
        /\ UNCHANGED <<file, configured, targets, actor, promised, unsaved, lost, commands, kills>>
    BY <1>1, <1>4, ParseEffect
  <2>3. Becomes(t, task'[t]) /\ task'[t].pc # "answer"
    BY <1>1, <1>2, <1>4, <2>1, ParseEffect
  <2> QED  BY <1>1, <2>2, <2>3
<1>5. CASE Diff(t)
  <2>1. [task[t] EXCEPT !.pc = "ask", !.todo = Difference(t)].pc = "ask"
    BY <1>1 DEF TaskRecord
  <2> QED  BY <1>1, <1>2, <1>5, <2>1, DiffEffect
<1>6. CASE GetList(t)
  <2>1. [task[t] EXCEPT !.pc = "read", !.list = SavedList(t)].pc = "read"
    BY <1>1 DEF TaskRecord
  <2> QED  BY <1>1, <1>2, <1>6, <1>11, <2>1, GetListEffect
<1>7. CASE ReadFile(t)
  <2>1. [task[t] EXCEPT !.pc = "truncate", !.rest = file.rest].pc = "truncate"
    BY <1>1 DEF TaskRecord
  <2> QED  BY <1>1, <1>2, <1>7, <1>11, <2>1, ReadFileEffect
<1>8. CASE Truncate(t)
  <2>1. [task[t] EXCEPT !.pc = "write"].pc = "write" /\ Empty \in File
    BY <1>1 DEF TaskRecord, Empty, File, Rest
  <2> QED  BY <1>1, <1>2, <1>8, <1>11, <2>1, TruncateEffect
<1>9. CASE Write(t)
  BY <1>1, <1>2, <1>9, <1>10, <1>11, WriteEffect
<1> QED  BY <1>3, <1>4, <1>5, <1>6, <1>7, <1>8, <1>9 DEF Local, Step

\* Every step of the system, by who takes it.
LEMMA WhoSteps ==
  ASSUME [Next]_vars
  PROVE  \/ \E t \in Task : Local(t)
         \/ \E t \in Task : Execute(t)
         \/ Reply \/ Kill \/ UNCHANGED vars
  BY DEF Next, Local

-----------------------------------------------------------------------------
(***************************************************************************)
(* Types, roles and the actor                                              *)
(***************************************************************************)

LEMMA InitIInv == Init => IInv
<1> SUFFICES ASSUME Init PROVE IInv
  OBVIOUS
<1> DEFINE auto == Configuration(configured)
<1>1. /\ file \in File /\ configured \in BOOLEAN /\ auto \in SUBSET Name
      /\ task = Started(auto) /\ actor = {} /\ undisturbed = {}
      /\ targets = {} /\ promised = auto /\ unsaved = FALSE /\ lost = FALSE
      /\ commands = 0 /\ kills = 0 /\ failures = 0
  <2>1. file \in File
    BY DEF Init, File, Rest
  <2>2. auto \in SUBSET Name
    BY <2>1 DEF Configuration, File
  <2> QED  BY <2>1, <2>2 DEF Init
<1> HIDE DEF auto
<1>2. /\ task \in [Task -> TaskRecord]
      /\ \A t \in Task : t # Boot \/ auto = {} => task[t] = Idle
      /\ auto # {} => /\ task[Boot].pc = "ask" /\ task[Boot].kind = "boot"
                     /\ task[Boot].todo = Add(auto)
  BY <1>1, StartedTasks
<1>3. Idle.pc = "idle" /\ Idle.kind = "none"
  BY DEF Idle
<1>4. \A t \in Task : task[t].pc # "answer"
  BY <1>2, <1>3
<1>5. Cardinality(actor) <= 1
  BY <1>1, FS_EmptySet
<1>6. TypeOK
  <2>1. commands \in 0 .. MaxCommands /\ kills \in 0 .. MaxKills /\ failures \in 0 .. MaxFail
    BY <1>1, ListenConfigAssumption
  <2> QED  BY <1>1, <1>2, <1>4, <1>5, <2>1 DEF TypeOK, TaskRecord
<1>7. Roles
  BY <1>2, <1>3, ListenConfigAssumption DEF Roles, Role
<1> QED  BY <1>1, <1>6, <1>7 DEF IInv, OneRequest, ReloadKnows

\* A restart leaves no command, and only the targets of the file to add.
LEMMA KillEffect ==
  ASSUME TypeOK, Kill
  PROVE  /\ actor' = {} /\ undisturbed' = {} /\ targets' = {} /\ kills' = kills + 1
         /\ kills' \in 0 .. MaxKills /\ failures' \in 0 .. MaxFail /\ configured' \in BOOLEAN
         /\ lost' = (lost \/ unsaved \/ ~ configured' \/ Writing)
         /\ UNCHANGED <<file, promised, unsaved, commands>>
         /\ task' \in [Task -> TaskRecord]
         /\ \A t \in Task : t # Boot => task'[t] = Idle
         /\ task'[Boot] = Idle \/ (task'[Boot].pc = "ask" /\ task'[Boot].kind = "boot")
         /\ configured' /\ file.auto # {} => task'[Boot].todo = Add(file.auto)
<1> DEFINE auto == Configuration(configured')
<1>1. /\ actor' = {} /\ undisturbed' = {} /\ targets' = {} /\ kills < MaxKills /\ kills' = kills + 1
      /\ lost' = (lost \/ unsaved \/ ~ configured' \/ Writing)
      /\ UNCHANGED <<file, promised, unsaved, commands>> /\ configured' \in BOOLEAN
      /\ UNCHANGED failures \/ FileFails
      /\ task' = Started(auto)
  BY DEF Kill, Writing
<1>2. kills' \in 0 .. MaxKills
  BY <1>1, TypesOf, ListenConfigAssumption
<1>3. auto \in SUBSET Name /\ (configured' => auto = file.auto) /\ Boot \in Task
  BY TypesOf DEF Configuration, Task
<1> HIDE DEF auto
<1> QED  BY <1>1, <1>2, <1>3, FailuresType, StartedTasks

\* The actor is at one request at most, that of the task that waits for it.
LEMMA TypeNext == TypeOK /\ Roles /\ OneRequest /\ [Next]_vars => TypeOK'
<1> SUFFICES ASSUME TypeOK, Roles, OneRequest, [Next]_vars PROVE TypeOK'
  OBVIOUS
<1> USE DEF bounds
<1>1. /\ file \in File /\ targets \in SUBSET Name /\ promised \in SUBSET Name
      /\ configured \in BOOLEAN /\ unsaved \in BOOLEAN /\ lost \in BOOLEAN /\ failures \in 0 .. MaxFail
      /\ undisturbed \in SUBSET Task /\ commands \in 0 .. MaxCommands /\ kills \in 0 .. MaxKills
      /\ actor \in SUBSET [task : Task, request : Request, had : BOOLEAN]
      /\ Cardinality(actor) <= 1 /\ (\A t \in Task : task[t].pc = "answer" <=> \E a \in actor : a.task = t)
  BY TypesOf DEF TypeOK
<1>2. ASSUME NEW t \in Task, Local(t) PROVE TypeOK'
  <2>1. /\ UNCHANGED <<configured, targets, actor, lost, kills>>
        /\ commands' \in 0 .. MaxCommands /\ failures' \in 0 .. MaxFail /\ unsaved' \in BOOLEAN
        /\ Becomes(t, task'[t]) /\ task[t].pc # "answer" /\ task'[t].pc # "answer"
        /\ undisturbed' \in SUBSET Task /\ file' \in File /\ promised' \in SUBSET Name
    BY <1>2, LocalEffect
  <2>2. task' \in [Task -> TaskRecord] /\ \A u \in Task \ {t} : task'[u] = task[u]
    BY <2>1 DEF Becomes
  <2>3. \A u \in Task : task'[u].pc = "answer" <=> \E a \in actor' : a.task = u
    BY <1>1, <2>1, <2>2
  <2> QED  BY <1>1, <2>1, <2>2, <2>3 DEF TypeOK, TaskRecord
<1>3. ASSUME NEW t \in Task, Execute(t) PROVE TypeOK'
  <2>1. /\ actor = {} /\ undisturbed' = undisturbed \cap {t}
        /\ UNCHANGED <<file, configured, unsaved, lost, bounds>>
    BY <1>3, ExecuteEffect
  <2>2. PICK r \in task[t].todo :
          /\ r \in Request
          /\ actor' = {[task |-> t, request |-> r, had |-> r.who \in targets]}
          /\ targets' = TargetsAfter(r) /\ targets' \in SUBSET Name
          /\ promised' = IF r.op = "remove" /\ r.who \in targets THEN promised \ {r.who} ELSE promised
          /\ Becomes(t, [task[t] EXCEPT !.pc = "answer", !.todo = task[t].todo \ {r}])
    BY <1>3, ExecuteEffect
  <2>3. /\ task' \in [Task -> TaskRecord] /\ task'[t].pc = "answer"
        /\ \A u \in Task \ {t} : task'[u] = task[u]
    <3>1. task[t] \in TaskRecord
      BY TypesOf
    <3> QED  BY <2>2, <3>1 DEF Becomes, TaskRecord
  <2>4. PICK a \in [task : Task, request : Request, had : BOOLEAN] : a.task = t /\ actor' = {a}
    <3>1. [task |-> t, request |-> r, had |-> r.who \in targets] \in [task : Task, request : Request, had : BOOLEAN]
      BY <2>2
    <3> QED  BY <2>2, <3>1
  <2>5. Cardinality(actor') <= 1
    BY <2>4, OneHasCardinalityOne
  <2>6. \A u \in Task : task'[u].pc = "answer" <=> \E b \in actor' : b.task = u
    BY <1>1, <2>1, <2>3, <2>4
  <2>7. promised' \in SUBSET Name
    BY <1>1, <2>2
  <2> QED  BY <1>1, <2>1, <2>2, <2>3, <2>4, <2>5, <2>6, <2>7 DEF TypeOK, TaskRecord
<1>4. CASE Reply
  <2>1. PICK a \in actor :
          /\ a.task \in Task
          /\ \E new : Becomes(a.task, new) /\ new.pc # "answer"
    <3>1. PICK a \in actor :
            /\ a.task \in Task
            /\ \/ Becomes(a.task, [task[a.task] EXCEPT !.pc = "list"])
               \/ Becomes(a.task, [task[a.task] EXCEPT !.pc = "ask"])
               \/ Becomes(a.task, Idle)
      BY <1>4, ReplyEffect
    <3>2. task[a.task] \in TaskRecord
      BY <3>1, TypesOf
    <3>3. /\ [task[a.task] EXCEPT !.pc = "list"].pc = "list"
          /\ [task[a.task] EXCEPT !.pc = "ask"].pc = "ask" /\ Idle.pc = "idle"
      BY <3>2 DEF TaskRecord, Idle
    <3> QED  BY <3>1, <3>3
  <2>2. /\ actor' = {}
        /\ UNCHANGED <<file, configured, targets, promised, unsaved, lost, undisturbed, bounds>>
    BY <1>4, ReplyEffect
  <2>3. /\ task' \in [Task -> TaskRecord] /\ task'[a.task].pc # "answer"
        /\ \A u \in Task \ {a.task} : task'[u] = task[u]
    BY <2>1 DEF Becomes
  <2>4. \A u \in Task : task'[u].pc # "answer"
    BY <1>1, <2>1, <2>3 DEF OneRequest
  <2>5. Cardinality(actor') <= 1
    BY <2>2, OneHasCardinalityOne
  <2> QED  BY <1>1, <2>2, <2>3, <2>4, <2>5 DEF TypeOK, TaskRecord
<1>5. CASE Kill
  <2>1. /\ actor' = {} /\ undisturbed' = {} /\ targets' = {} /\ kills' \in 0 .. MaxKills
        /\ lost' = (lost \/ unsaved \/ ~ configured' \/ Writing)
        /\ configured' \in BOOLEAN /\ failures' \in 0 .. MaxFail
        /\ UNCHANGED <<file, promised, unsaved, commands>>
        /\ task' \in [Task -> TaskRecord]
        /\ \A t \in Task : task'[t] = Idle \/ task'[t].pc = "ask"
    BY <1>5, KillEffect
  <2>2. \A t \in Task : task'[t].pc # "answer"
    BY <2>1 DEF Idle
  <2>3. Cardinality(actor') <= 1
    BY <2>1, OneHasCardinalityOne
  <2>4. lost' \in BOOLEAN
    BY <1>1, <2>1 DEF Writing
  <2> QED  BY <1>1, <2>1, <2>2, <2>3, <2>4 DEF TypeOK, TaskRecord
<1>6. CASE UNCHANGED vars
  BY <1>6 DEF vars, TypeOK
<1> QED  BY <1>2, <1>3, <1>4, <1>5, <1>6, WhoSteps

\* What a command keeps from step to step.
Keeps(t) == task'[t].kind = task[t].kind /\ task'[t].who = task[t].who

\* Every step of a task outside the actor, field by field.
LEMMA LocalSteps ==
  ASSUME TypeOK, Roles, NEW t \in Task, Local(t)
  PROVE  \/ /\ Give(t) \/ Call(t)
            /\ task[t] = Idle /\ undisturbed' = undisturbed \ {t}
            /\ UNCHANGED <<file, promised, unsaved>>
            /\ \/ /\ t \in Admin /\ (Patient => task[Boot] = Idle)
                  /\ \/ task'[t].kind = "reload" /\ task'[t].pc = "parse"
                     \/ /\ task'[t].pc = "ask" /\ task'[t].who \in Name
                        /\ \/ task'[t].kind = "listen" /\ task'[t].todo = Add({task'[t].who})
                           \/ task'[t].kind = "unlisten" /\ task'[t].todo = Remove({task'[t].who})
               \/ t \in Caller /\ task'[t].pc = "ask" /\ task'[t].kind \in {"post", "delete"}
         \/ /\ task[t].pc = "parse" /\ UNCHANGED <<file, promised, unsaved>>
            /\ \/ /\ task'[t].pc = "diff" /\ Keeps(t)
                  /\ task'[t].list = file.auto /\ task'[t].todo = task[t].todo
                  /\ undisturbed' = undisturbed \cup {t}
               \/ task'[t] = Idle /\ undisturbed' = undisturbed
         \/ /\ task[t].pc = "diff"
            /\ \/ Difference(t) = {} /\ task'[t] = Idle
               \/ /\ task'[t].pc = "ask" /\ task'[t].todo = Difference(t) /\ Keeps(t)
                  /\ task'[t].list = task[t].list
            /\ UNCHANGED <<file, promised, unsaved, undisturbed>>
         \/ /\ task[t].pc = "list" /\ task'[t].pc = "read" /\ Keeps(t)
            /\ task'[t].list = SavedList(t) /\ task'[t].todo = task[t].todo
            /\ UNCHANGED <<file, promised, unsaved, undisturbed>>
         \/ /\ task[t].pc = "read" /\ task'[t].pc = "truncate" /\ Keeps(t)
            /\ task'[t].list = task[t].list /\ task'[t].todo = task[t].todo
            /\ task'[t].rest = file.rest
            /\ UNCHANGED <<file, promised, unsaved, undisturbed>>
         \/ /\ task[t].pc = "truncate" /\ task'[t].pc = "write" /\ Keeps(t)
            /\ task'[t].list = task[t].list /\ task'[t].todo = task[t].todo
            /\ task'[t].rest = task[t].rest
            /\ undisturbed' = undisturbed \cap {t} /\ UNCHANGED <<promised, unsaved>>
         \/ /\ task[t].pc = "write" /\ task'[t] = Idle /\ Written(t) /\ Promises(t)
            /\ undisturbed' = undisturbed \cap {t}
         \/ /\ task[t].pc \in {"list", "read", "truncate", "write"} /\ task'[t] = Idle
            /\ unsaved' = TRUE /\ Promises(t) /\ file' = file
            /\ undisturbed' \in {undisturbed, undisturbed \cap {t}}
<1> USE DEF Keeps
<1>1. task[t] \in TaskRecord
  BY TypesOf
<1>2. \A new : Becomes(t, new) => task'[t] = new
  BY DEF Becomes
<1>3. CASE Give(t) \/ Call(t)
  <2>1. \A kind, n, step, requests :
          Began(t, kind, n, step, requests) =>
            /\ task'[t].kind = kind /\ task'[t].who = n
            /\ task'[t].pc = step /\ task'[t].todo = requests
    <3> TAKE kind, n, step, requests
    <3> DEFINE new == [Idle EXCEPT !.pc = step, !.kind = kind, !.who = n, !.todo = requests]
    <3>1. new.kind = kind /\ new.who = n /\ new.pc = step /\ new.todo = requests
      BY DEF Idle
    <3>2. Began(t, kind, n, step, requests) = Becomes(t, new)
      BY DEF Began
    <3> HIDE DEF new
    <3> QED  BY <1>2, <3>1, <3>2
  <2> QED  BY <1>3, <2>1, BeginEffect
<1>4. CASE Parse(t)
  <2> DEFINE new == [task[t] EXCEPT !.pc = "diff", !.list = file.auto]
  <2>1. /\ task[t].pc = "parse" /\ UNCHANGED <<file, promised, unsaved>>
        /\ \/ task'[t] = new /\ undisturbed' = undisturbed \cup {t}
           \/ task'[t] = Idle /\ undisturbed' = undisturbed
    BY <1>2, <1>4, ParseEffect
  <2>2. /\ new.pc = "diff" /\ new.kind = task[t].kind /\ new.who = task[t].who
        /\ new.todo = task[t].todo /\ new.list = file.auto /\ new.rest = task[t].rest
    BY <1>1 DEF TaskRecord
  <2> HIDE DEF new
  <2> QED  BY <2>1, <2>2
<1>5. CASE Diff(t)
  <2> DEFINE new == [task[t] EXCEPT !.pc = "ask", !.todo = Difference(t)]
  <2>1. /\ (Difference(t) = {} /\ task'[t] = Idle) \/ task'[t] = new
        /\ task[t].pc = "diff" /\ UNCHANGED <<file, promised, unsaved, undisturbed>>
    BY <1>2, <1>5, DiffEffect
  <2>2. /\ new.pc = "ask" /\ new.kind = task[t].kind /\ new.who = task[t].who
        /\ new.todo = Difference(t) /\ new.list = task[t].list /\ new.rest = task[t].rest
    BY <1>1 DEF TaskRecord
  <2> HIDE DEF new
  <2> QED  BY <2>1, <2>2
<1>6. CASE GetList(t)
  <2> DEFINE new == [task[t] EXCEPT !.pc = "read", !.list = SavedList(t)]
  <2>1. /\ task[t].pc = "list" /\ UNCHANGED <<file, undisturbed>>
        /\ \/ task'[t] = new /\ UNCHANGED <<promised, unsaved>>
           \/ task'[t] = Idle /\ unsaved' = TRUE /\ Promises(t)
    BY <1>2, <1>6, GetListEffect DEF Failed
  <2>2. /\ new.pc = "read" /\ new.kind = task[t].kind /\ new.who = task[t].who
        /\ new.todo = task[t].todo /\ new.list = SavedList(t) /\ new.rest = task[t].rest
    BY <1>1 DEF TaskRecord
  <2> HIDE DEF new
  <2> QED  BY <2>1, <2>2
<1>7. CASE ReadFile(t)
  <2> DEFINE new == [task[t] EXCEPT !.pc = "truncate", !.rest = file.rest]
  <2>1. /\ task[t].pc = "read" /\ UNCHANGED <<file, undisturbed>>
        /\ \/ task'[t] = new /\ UNCHANGED <<promised, unsaved>>
           \/ task'[t] = Idle /\ unsaved' = TRUE /\ Promises(t)
    BY <1>2, <1>7, ReadFileEffect DEF Failed
  <2>2. /\ new.pc = "truncate" /\ new.kind = task[t].kind /\ new.who = task[t].who
        /\ new.todo = task[t].todo /\ new.list = task[t].list /\ new.rest = file.rest
    BY <1>1 DEF TaskRecord
  <2> HIDE DEF new
  <2> QED  BY <2>1, <2>2
<1>8. CASE Truncate(t)
  <2> DEFINE new == [task[t] EXCEPT !.pc = "write"]
  <2>1. /\ task[t].pc = "truncate"
        /\ \/ /\ task'[t] = new /\ UNCHANGED <<promised, unsaved>>
              /\ undisturbed' = undisturbed \cap {t}
           \/ /\ task'[t] = Idle /\ unsaved' = TRUE /\ Promises(t)
              /\ UNCHANGED <<file, undisturbed>>
    BY <1>2, <1>8, TruncateEffect DEF Failed
  <2>2. /\ new.pc = "write" /\ new.kind = task[t].kind /\ new.who = task[t].who
        /\ new.todo = task[t].todo /\ new.list = task[t].list /\ new.rest = task[t].rest
    BY <1>1 DEF TaskRecord
  <2> HIDE DEF new
  <2> QED  BY <2>1, <2>2
<1>9. CASE Write(t)
  BY <1>2, <1>9, WriteEffect DEF Failed
<1> QED  BY <1>3, <1>4, <1>5, <1>6, <1>7, <1>8, <1>9 DEF Local, Step

\* The steps of the actor, field by field.
LEMMA ExecuteSteps ==
  ASSUME TypeOK, NEW t \in Task, Execute(t)
  PROVE  /\ actor = {} /\ task[t].pc = "ask" /\ task'[t].pc = "answer" /\ Keeps(t)
         /\ task'[t].list = task[t].list /\ undisturbed' = undisturbed \cap {t}
         /\ \A u \in Task \ {t} : task'[u] = task[u]
         /\ \E r \in task[t].todo :
              /\ r \in Request /\ task'[t].todo = task[t].todo \ {r}
              /\ actor' = {[task |-> t, request |-> r, had |-> r.who \in targets]}
              /\ targets' = TargetsAfter(r)
              /\ promised' = IF r.op = "remove" /\ r.who \in targets THEN promised \ {r.who}
                                                                    ELSE promised
         /\ UNCHANGED <<file, configured, unsaved, lost, bounds>>
<1> USE DEF Keeps
<1>1. task[t] \in TaskRecord
  BY TypesOf
<1>2. PICK r \in task[t].todo :
        /\ r \in Request
        /\ actor' = {[task |-> t, request |-> r, had |-> r.who \in targets]}
        /\ targets' = TargetsAfter(r)
        /\ promised' = IF r.op = "remove" /\ r.who \in targets THEN promised \ {r.who} ELSE promised
        /\ Becomes(t, [task[t] EXCEPT !.pc = "answer", !.todo = task[t].todo \ {r}])
  BY ExecuteEffect
<1> DEFINE new == [task[t] EXCEPT !.pc = "answer", !.todo = task[t].todo \ {r}]
<1>3. task'[t] = new /\ \A u \in Task \ {t} : task'[u] = task[u]
  BY <1>2 DEF Becomes
<1>4. /\ new.pc = "answer" /\ new.kind = task[t].kind /\ new.who = task[t].who
      /\ new.todo = task[t].todo \ {r} /\ new.list = task[t].list
  BY <1>1 DEF TaskRecord
<1> HIDE DEF new
<1>5. /\ actor = {} /\ task[t].pc = "ask" /\ undisturbed' = undisturbed \cap {t}
      /\ UNCHANGED <<file, configured, unsaved, lost, bounds>>
  BY ExecuteEffect
<1> QED  BY <1>2, <1>3, <1>4, <1>5

LEMMA ReplySteps ==
  ASSUME TypeOK, Reply
  PROVE  /\ actor' = {}
         /\ UNCHANGED <<file, configured, targets, promised, unsaved, lost, undisturbed, bounds>>
         /\ \E a \in actor :
              /\ a.task \in Task /\ task[a.task].pc = "answer"
              /\ \A u \in Task \ {a.task} : task'[u] = task[u]
              /\ \/ /\ task[a.task].kind \in {"listen", "unlisten"}
                    /\ a.request.op # "add" => a.had
                    /\ task'[a.task].pc = "list" /\ Keeps(a.task)
                    /\ task'[a.task].todo = task[a.task].todo
                 \/ /\ task'[a.task].pc = "ask" /\ Keeps(a.task)
                    /\ task'[a.task].todo = task[a.task].todo
                    /\ task'[a.task].list = task[a.task].list
                 \/ task[a.task].todo = {} /\ task'[a.task] = Idle
<1> USE DEF Keeps
<1>1. /\ actor' = {}
      /\ UNCHANGED <<file, configured, targets, promised, unsaved, lost, undisturbed, bounds>>
  BY ReplyEffect
<1>2. PICK a \in actor :
        /\ a.task \in Task
        /\ \/ /\ task[a.task].kind \in {"listen", "unlisten"}
              /\ a.request.op # "add" => a.had
              /\ Becomes(a.task, [task[a.task] EXCEPT !.pc = "list"])
           \/ Becomes(a.task, [task[a.task] EXCEPT !.pc = "ask"])
           \/ task[a.task].todo = {} /\ Becomes(a.task, Idle)
  BY ReplyEffect
<1>3. task[a.task] \in TaskRecord /\ task[a.task].pc = "answer"
  BY <1>2, TypesOf
<1> DEFINE Went(step) == [task[a.task] EXCEPT !.pc = step]
<1>4. \A step : /\ Went(step).pc = step /\ Went(step).kind = task[a.task].kind
                /\ Went(step).who = task[a.task].who /\ Went(step).todo = task[a.task].todo
                /\ Went(step).list = task[a.task].list
  BY <1>3 DEF TaskRecord
<1>5. \A new : Becomes(a.task, new) => task'[a.task] = new /\ \A u \in Task \ {a.task} : task'[u] = task[u]
  BY DEF Becomes
<1>6. \/ /\ task[a.task].kind \in {"listen", "unlisten"}
         /\ a.request.op # "add" => a.had
         /\ Becomes(a.task, Went("list"))
      \/ Becomes(a.task, Went("ask"))
      \/ task[a.task].todo = {} /\ Becomes(a.task, Idle)
  BY <1>2
<1> HIDE DEF Went
<1>7. \A u \in Task \ {a.task} : task'[u] = task[u]
  BY <1>5, <1>6
<1>8. \/ /\ task[a.task].kind \in {"listen", "unlisten"}
         /\ a.request.op # "add" => a.had
         /\ task'[a.task] = Went("list")
      \/ task'[a.task] = Went("ask")
      \/ task[a.task].todo = {} /\ task'[a.task] = Idle
  BY <1>5, <1>6
<1>9. \/ /\ task[a.task].kind \in {"listen", "unlisten"}
         /\ a.request.op # "add" => a.had
         /\ task'[a.task].pc = "list" /\ Keeps(a.task)
         /\ task'[a.task].todo = task[a.task].todo
      \/ /\ task'[a.task].pc = "ask" /\ Keeps(a.task)
         /\ task'[a.task].todo = task[a.task].todo
         /\ task'[a.task].list = task[a.task].list
      \/ task[a.task].todo = {} /\ task'[a.task] = Idle
  BY <1>4, <1>8
<1> QED  BY <1>1, <1>2, <1>3, <1>7, <1>9

LEMMA WhoIsBusy ==
  ASSUME Roles, NEW t \in Task, task[t].pc # "idle"
  PROVE  task[t] # Idle /\ task[t].kind # "none" /\ Role(t, task[t])
<1>1. Idle.pc = "idle"
  BY DEF Idle
<1>2. Role(t, task[t])
  BY DEF Roles
<1>3. task[t].kind = "none" => task[t] = Idle
  BY <1>2 DEF Role
<1> QED  BY <1>1, <1>2, <1>3

\* Every task keeps to its role.
LEMMA RolesNext == TypeOK /\ Roles /\ [Next]_vars => Roles'
<1> SUFFICES ASSUME TypeOK, Roles, [Next]_vars, NEW u \in Task PROVE Role(u, task'[u])
  BY DEF Roles, Role, Idle
<1>1. Role(u, task[u]) /\ Role(u, Idle)
  BY ListenConfigAssumption DEF Roles, Role, Idle
<1>2. CASE task'[u] = task[u] \/ task'[u] = Idle
  BY <1>1, <1>2
<1>3. ASSUME NEW t \in Task, Local(t) PROVE Role(u, task'[u])
  <2>1. u # t => task'[u] = task[u]
    BY <1>3, LocalEffect DEF Becomes
  <2>2. CASE u = t /\ task'[u] # Idle
    <3>1. t \in Caller => t \notin Admin
      BY ListenConfigAssumption
    <3>2. task[t].pc # "idle" => task[t].kind # "none" /\ Role(t, task[t])
      BY <1>1, <2>2 DEF Role, Idle
    <3>3. CASE task[t] = Idle
      <4>1. Idle.pc = "idle"
        BY DEF Idle
      <4> QED  BY <1>3, <2>2, <3>1, <3>3, <4>1, LocalSteps DEF Role
    <3>4. CASE task[t] # Idle
      <4>1. task[t].pc # "idle" /\ task[t].kind # "none" /\ Role(t, task[t])
        BY <1>1, <2>2, <3>4 DEF Role
      <4> QED  BY <1>3, <2>2, <3>4, <4>1, LocalSteps DEF Role, Keeps
    <3> QED  BY <3>3, <3>4
  <2> QED  BY <1>2, <2>1, <2>2
<1>4. ASSUME NEW t \in Task, Execute(t) PROVE Role(u, task'[u])
  <2>1. /\ \A v \in Task \ {t} : task'[v] = task[v]
        /\ task[t].pc = "ask" /\ task'[t].pc = "answer" /\ Keeps(t)
        /\ task'[t].todo \subseteq task[t].todo
    BY <1>4, ExecuteSteps
  <2>2. task[t].kind # "none"
    BY <2>1, WhoIsBusy
  <2>3. CASE u = t
    BY <1>1, <2>1, <2>2, <2>3 DEF Role, Keeps
  <2> QED  BY <1>2, <2>1, <2>3
<1>5. CASE Reply
  <2>1. PICK a \in actor :
          /\ a.task \in Task /\ task[a.task].pc = "answer"
          /\ \A v \in Task \ {a.task} : task'[v] = task[v]
          /\ \/ /\ task[a.task].kind \in {"listen", "unlisten"}
                /\ task'[a.task].pc = "list" /\ Keeps(a.task)
                /\ task'[a.task].todo = task[a.task].todo
             \/ /\ task'[a.task].pc = "ask" /\ Keeps(a.task)
                /\ task'[a.task].todo = task[a.task].todo
             \/ task'[a.task] = Idle
    BY <1>5, ReplySteps
  <2>2. task[a.task].kind # "none" /\ Role(a.task, task[a.task])
    BY <2>1, WhoIsBusy
  <2>3. CASE u = a.task
    BY <1>1, <2>1, <2>2, <2>3 DEF Role, Keeps
  <2> QED  BY <1>2, <2>1, <2>3
<1>6. CASE Kill
  <2>1. \/ task'[u] = Idle
        \/ u = Boot /\ task'[u].pc = "ask" /\ task'[u].kind = "boot"
    BY <1>6, KillEffect
  <2> QED  BY <1>2, <2>1, ListenConfigAssumption DEF Role
<1>7. CASE UNCHANGED vars
  BY <1>2, <1>7 DEF vars
<1> QED  BY <1>3, <1>4, <1>5, <1>6, <1>7, WhoSteps

\* The actor is at what a task asked it for.
LEMMA OneRequestNext == TypeOK /\ Roles /\ OneRequest /\ [Next]_vars => OneRequest'
<1> SUFFICES ASSUME TypeOK, Roles, OneRequest, [Next]_vars PROVE OneRequest'
  OBVIOUS
<1>1. \A a \in actor : a.task \in Task /\ task[a.task].pc = "answer"
  BY TypesOf
<1>2. CASE actor' = {}
  BY <1>2 DEF OneRequest
<1>3. ASSUME NEW t \in Task, Local(t) PROVE OneRequest'
  <2>1. actor' = actor /\ task[t].pc # "answer" /\ \A u \in Task \ {t} : task'[u] = task[u]
    BY <1>3, LocalEffect DEF Becomes
  <2>2. \A a \in actor : task'[a.task] = task[a.task]
    BY <1>1, <2>1
  <2> QED  BY <2>1, <2>2 DEF OneRequest
<1>4. ASSUME NEW t \in Task, Execute(t) PROVE OneRequest'
  <2>1. PICK r \in task[t].todo : actor' = {[task |-> t, request |-> r, had |-> r.who \in targets]}
    BY <1>4, ExecuteSteps
  <2>2. Keeps(t)
    BY <1>4, ExecuteSteps
  <2>3. /\ task[t].kind = "listen" => r \in Add({task[t].who})
        /\ task[t].kind = "unlisten" => r \in Remove({task[t].who})
    BY <2>1 DEF Roles, Role
  <2>4. \A a \in actor' : a.task = t /\ a.request = r
    BY <2>1
  <2>5. \A a, b \in actor' : a = b
    BY <2>1
  <2> QED  BY <2>2, <2>3, <2>4, <2>5 DEF OneRequest, Keeps
<1>5. CASE Reply
  BY <1>2, <1>5, ReplySteps
<1>6. CASE Kill
  BY <1>2, <1>6, KillEffect
<1>7. CASE UNCHANGED vars
  BY <1>7 DEF vars, OneRequest
<1> QED  BY <1>3, <1>4, <1>5, <1>6, <1>7, WhoSteps

-----------------------------------------------------------------------------
(***************************************************************************)
(* Reload                                                                  *)
(***************************************************************************)

\* In which requests a list and the file differ.
Gap(list, now) == Remove(now \ list) \cup Add(list \ now)

LEMMA GapCloses ==
  ASSUME NEW list \in SUBSET Name, targets \in SUBSET Name
  PROVE  /\ Gap(list, targets) = {} => targets = list
         /\ \A r \in Gap(list, targets) : Gap(list, TargetsAfter(r)) = Gap(list, targets) \ {r}
<1>1. Gap(list, targets) = {} => targets = list
  BY DEF Gap, Add, Remove
<1>2. ASSUME NEW r \in Gap(list, targets)
      PROVE  Gap(list, TargetsAfter(r)) = Gap(list, targets) \ {r}
  <2>1. CASE r \in Remove(targets \ list)
    <3>1. PICK n \in targets \ list : r = [op |-> "remove", who |-> n]
      BY <2>1 DEF Remove
    <3>2. TargetsAfter(r) = targets \ {n}
      BY <3>1 DEF TargetsAfter
    <3>3. Remove((targets \ {n}) \ list) = Remove(targets \ list) \ {r}
      BY <3>1 DEF Remove
    <3>4. Add(list \ (targets \ {n})) = Add(list \ targets) /\ r \notin Add(list \ targets)
      BY <3>1 DEF Add
    <3> QED  BY <3>2, <3>3, <3>4 DEF Gap
  <2>2. CASE r \in Add(list \ targets)
    <3>1. PICK n \in list \ targets : r = [op |-> "add", who |-> n]
      BY <2>2 DEF Add
    <3>2. TargetsAfter(r) = targets \cup {n}
      BY <3>1 DEF TargetsAfter
    <3>3. Add(list \ (targets \cup {n})) = Add(list \ targets) \ {r}
      BY <3>1 DEF Add
    <3>4. Remove((targets \cup {n}) \ list) = Remove(targets \ list) /\ r \notin Remove(targets \ list)
      BY <3>1 DEF Remove
    <3> QED  BY <3>2, <3>3, <3>4 DEF Gap
  <2> QED  BY <2>1, <2>2 DEF Gap
<1> QED  BY <1>1, <1>2

LEMMA DifferenceIsGap ==
  \A t \in Task : Difference(t) = Gap(task[t].list, targets)
  BY DEF Difference, Gap

LEMMA ReloadKnowsNext == TypeOK /\ Roles /\ ReloadKnows /\ [Next]_vars => ReloadKnows'
<1> DEFINE Knows(k, list, now) ==
      k.kind = "reload" =>
        /\ k.pc # "parse"
        /\ k.pc \in {"diff", "ask", "answer"} => k.list = list
        /\ k.pc \in {"ask", "answer"} => k.todo = Gap(k.list, now)
<1> SUFFICES ASSUME TypeOK, Roles, ReloadKnows, [Next]_vars, NEW u \in undisturbed', u \in Task
             PROVE  Knows(task'[u], file'.auto, targets')
  <2>1. \A now, list : Gap(list, now) = Remove(now \ list) \cup Add(list \ now)
    BY DEF Gap
  <2>2. TypeOK /\ Roles /\ [Next]_vars => undisturbed' \in SUBSET Task
    <3> SUFFICES ASSUME TypeOK, Roles, [Next]_vars PROVE undisturbed' \in SUBSET Task
      OBVIOUS
    <3>1. undisturbed \in SUBSET Task
      BY TypesOf
    <3> QED  BY <3>1, WhoSteps, LocalEffect, ExecuteSteps, ReplySteps, KillEffect DEF vars
  <2> QED  BY <2>1, <2>2 DEF ReloadKnows, Difference
<1>1. undisturbed \in SUBSET Task /\ \A v \in undisturbed : Knows(task[v], file.auto, targets)
  BY TypesOf, DifferenceIsGap DEF ReloadKnows
<1>0. Idle.pc = "idle" /\ Idle.kind = "none"
  BY DEF Idle
<1>2. CASE /\ u \in undisturbed /\ task'[u] = task[u] /\ targets' = targets /\ file' = file
  BY <1>1, <1>2
<1>3. ASSUME NEW t \in Task, Local(t) PROVE Knows(task'[u], file'.auto, targets')
  <2>1. targets' = targets /\ (u # t => task'[u] = task[u])
    BY <1>3, LocalEffect DEF Becomes
  <2>2. CASE u # t
    <3>1. \/ UNCHANGED <<file, undisturbed>>
          \/ undisturbed' = undisturbed \cup {t} /\ file' = file
          \/ undisturbed' \subseteq undisturbed \cap {t}
          \/ undisturbed' = undisturbed \ {t} /\ file' = file
      BY <1>3, LocalSteps
    <3> QED  BY <1>2, <2>1, <2>2, <3>1
  <2>3. CASE u = t /\ task[t].pc = "idle"
    <3>1. undisturbed' = undisturbed \ {t}
      BY <1>3, <2>3, LocalSteps
    <3> QED  BY <2>3, <3>1
  <2>4. CASE u = t /\ task'[t] = Idle
    BY <1>0, <2>4
  <2>5. CASE u = t /\ task[t].pc = "parse"
    BY <1>3, <2>5, <1>0, LocalSteps
  <2>6. CASE u = t /\ task[t].pc = "diff" /\ task'[t] # Idle
    <3>1. /\ task'[t].pc = "ask" /\ task'[t].todo = Difference(t) /\ Keeps(t)
          /\ task'[t].list = task[t].list /\ file' = file /\ undisturbed' = undisturbed
      BY <1>3, <2>6, <1>0, LocalSteps
    <3>2. Knows(task[t], file.auto, targets)
      BY <1>1, <2>6, <3>1
    <3> QED  BY <2>1, <2>6, <3>1, <3>2, DifferenceIsGap DEF Keeps
  <2>7. CASE u = t /\ task[t].pc \in {"list", "read", "truncate", "write"} /\ task'[t] # Idle
    <3>1. task[t].kind # "reload" /\ Keeps(t)
      BY <1>3, <2>7, <1>0, LocalSteps DEF Roles, Role
    <3> QED  BY <2>7, <3>1 DEF Keeps
  <2> QED  BY <1>3, <2>2, <2>3, <2>4, <2>5, <2>6, <2>7, <1>0, LocalSteps
<1>4. ASSUME NEW t \in Task, Execute(t) PROVE Knows(task'[u], file'.auto, targets')
  <2>1. /\ task[t].pc = "ask" /\ task'[t].pc = "answer" /\ Keeps(t) /\ file' = file
        /\ task'[t].list = task[t].list /\ undisturbed' = undisturbed \cap {t}
    BY <1>4, ExecuteSteps
  <2>2. PICK r \in task[t].todo : task'[t].todo = task[t].todo \ {r} /\ targets' = TargetsAfter(r)
    BY <1>4, ExecuteSteps
  <2>3. u = t /\ Knows(task[t], file.auto, targets)
    BY <1>1, <2>1
  <2>4. CASE task[t].kind = "reload"
    <3>1. task[t].list = file.auto /\ task[t].todo = Gap(file.auto, targets)
      BY <2>1, <2>3, <2>4
    <3>2. file.auto \in SUBSET Name /\ targets \in SUBSET Name
      BY TypesOf
    <3>3. Gap(file.auto, targets') = Gap(file.auto, targets) \ {r}
      BY <2>2, <3>1, <3>2, GapCloses
    <3> QED  BY <2>1, <2>2, <2>3, <3>1, <3>3
  <2> QED  BY <2>1, <2>3, <2>4 DEF Keeps
<1>5. CASE Reply
  <2>1. undisturbed' = undisturbed /\ file' = file /\ targets' = targets
    BY <1>5, ReplySteps
  <2>2. PICK a \in actor :
          /\ a.task \in Task /\ task[a.task].pc = "answer"
          /\ \A v \in Task \ {a.task} : task'[v] = task[v]
          /\ \/ task[a.task].kind \in {"listen", "unlisten"} /\ Keeps(a.task)
             \/ /\ task'[a.task].pc = "ask" /\ Keeps(a.task)
                /\ task'[a.task].todo = task[a.task].todo
                /\ task'[a.task].list = task[a.task].list
             \/ task'[a.task] = Idle
    BY <1>5, ReplySteps
  <2>3. Knows(task[u], file.auto, targets)
    BY <1>1, <2>1
  <2>4. Idle.kind = "none"
    BY DEF Idle
  <2>5. CASE u = a.task
    BY <2>1, <2>2, <2>3, <2>4, <2>5 DEF Keeps
  <2> QED  BY <1>2, <2>1, <2>2, <2>5
<1>6. ~ Kill
  BY KillEffect
<1>7. CASE UNCHANGED vars
  BY <1>2, <1>7 DEF vars
<1> HIDE DEF Knows
<1> QED  BY <1>3, <1>4, <1>5, <1>6, <1>7, WhoSteps

LEMMA IInvNext == IInv /\ [Next]_vars => IInv'
  BY TypeNext, RolesNext, OneRequestNext, ReloadKnowsNext DEF IInv

\* A reload ends when it has nothing left to ask for.
LEMMA ReloadEnds ==
  ASSUME IInv, [Next]_vars, NEW t \in Admin, task[t].kind = "reload", task'[t] = Idle,
         kills' = kills, t \in undisturbed
  PROVE  targets = file.auto
<1>1. TypeOK /\ Roles /\ ReloadKnows /\ t \in Task
  BY DEF IInv, Task
<1>2. Idle.pc = "idle" /\ Idle.kind = "none"
  BY DEF Idle
<1>3. task'[t] # task[t] /\ kills \in Nat
  BY <1>1, <1>2, TypesOf
<1>4. file.auto \in SUBSET Name /\ targets \in SUBSET Name
  BY <1>1, TypesOf
<1>5. ~ Kill
  BY <1>1, <1>3, KillEffect
<1>6. ASSUME NEW u \in Task, Execute(u) PROVE FALSE
  <2>1. /\ task'[u].pc = "answer" /\ \A v \in Task \ {u} : task'[v] = task[v]
    BY <1>1, <1>6, ExecuteSteps
  <2> QED  BY <1>1, <1>2, <1>3, <2>1
<1>7. ASSUME NEW u \in Task, Local(u) PROVE targets = file.auto
  <2>1. u = t
    BY <1>1, <1>3, <1>7, LocalEffect DEF Becomes
  <2>2. task[t].pc = "diff" /\ Difference(t) = {}
    <3>1. task[t] # Idle /\ task[t].pc \notin {"parse", "list", "read", "truncate", "write"}
      BY <1>1, <1>2, <1>3 DEF Roles, Role, ReloadKnows
    <3> QED  BY <1>1, <1>2, <1>7, <2>1, <3>1, LocalSteps
  <2>3. task[t].list = file.auto
    BY <1>1, <2>2 DEF ReloadKnows
  <2> QED  BY <1>1, <1>4, <2>2, <2>3, DifferenceIsGap, GapCloses
<1>8. CASE Reply
  <2>1. PICK a \in actor :
          /\ a.task \in Task /\ task[a.task].pc = "answer"
          /\ \A v \in Task \ {a.task} : task'[v] = task[v]
          /\ \/ task'[a.task].pc = "list" \/ task'[a.task].pc = "ask"
             \/ task[a.task].todo = {}
    BY <1>1, <1>8, ReplySteps
  <2>2. t = a.task /\ task[t].todo = {}
    BY <1>1, <1>2, <1>3, <2>1
  <2>3. task[t].list = file.auto /\ task[t].todo = Difference(t)
    BY <1>1, <2>1, <2>2 DEF ReloadKnows
  <2> QED  BY <1>1, <1>4, <2>2, <2>3, DifferenceIsGap, GapCloses
<1>9. ~ UNCHANGED vars
  BY <1>3 DEF vars
<1> QED  BY <1>5, <1>6, <1>7, <1>8, <1>9, WhoSteps

-----------------------------------------------------------------------------
(***************************************************************************)
(* Saving                                                                  *)
(***************************************************************************)

\* The task that adds the targets of the file does nothing but ask the actor,
\* and only an administrator writes.
LEMMA WhoSaves ==
  ASSUME TypeOK, Roles
  PROVE  /\ Boot \in Task /\ Admin \subseteq Task /\ Idle.pc = "idle" /\ Idle.todo = {}
         /\ \A t \in Task : task[t].kind \in {"listen", "unlisten"} => t \in Admin
         /\ \A t \in Task : task[t].pc \in {"list", "read", "truncate", "write"} => t \in Admin
         /\ ~ Local(Boot)
<1>1. Boot \in Task /\ Admin \subseteq Task /\ Idle.pc = "idle" /\ Idle.kind = "none" /\ Idle.todo = {}
  BY DEF Task, Idle
<1>2. \A t \in Task : task[t].kind \in {"listen", "unlisten"} => t \in Admin
  BY DEF Roles, Role
<1>3. \A t \in Task : task[t].pc \in {"list", "read", "truncate", "write"} => t \in Admin
  BY <1>2 DEF Roles, Role
<1>4. task[Boot].pc \notin {"parse", "diff", "list", "read", "truncate", "write"}
  BY <1>1, ListenConfigAssumption DEF Roles, Role
<1>5. ~ Local(Boot)
  BY <1>1, <1>4, ListenConfigAssumption DEF Local, Step, Give, Call, Parse, Diff, GetList, ReadFile,
     Truncate, Write
<1> QED  BY <1>1, <1>2, <1>3, <1>5

LEMMA BootFirstNext ==
  ASSUME OneAdministrator, IInv, BootFirst, [Next]_vars
  PROVE  BootFirst'
<1> SUFFICES ASSUME NEW t \in Admin, task'[t].pc # "idle" PROVE task'[Boot] = Idle
  BY DEF BootFirst
<1>1. TypeOK /\ Roles /\ Boot \in Task /\ t \in Task /\ t # Boot /\ Idle.pc = "idle" /\ ~ Local(Boot)
  BY WhoSaves, ListenConfigAssumption DEF IInv
<1>2. task[t].pc # "idle" => task[Boot] = Idle
  BY DEF BootFirst
<1>3. ASSUME NEW u \in Task, Local(u) PROVE task'[Boot] = Idle
  <2>1. u # Boot /\ \A v \in Task \ {u} : task'[v] = task[v]
    BY <1>1, <1>3, LocalEffect DEF Becomes
  <2>2. CASE task[t].pc # "idle"
    BY <1>1, <1>2, <2>1, <2>2
  <2>3. CASE task[t].pc = "idle"
    <3>1. u = t
      BY <1>1, <2>1, <2>3
    <3>2. task[Boot] = Idle
      <4>1. t \notin Caller
        BY ListenConfigAssumption
      <4> QED  BY <1>1, <1>3, <2>3, <3>1, <4>1, LocalSteps DEF OneAdministrator
    <3> QED  BY <1>1, <2>1, <3>2
  <2> QED  BY <2>2, <2>3
<1>4. ASSUME NEW u \in Task, Execute(u) PROVE task'[Boot] = Idle
  <2>1. task[u].pc = "ask" /\ \A v \in Task \ {u} : task'[v] = task[v]
    BY <1>1, <1>4, ExecuteSteps
  <2> QED  BY <1>1, <1>2, <2>1
<1>5. CASE Reply
  <2>1. PICK a \in actor :
          a.task \in Task /\ task[a.task].pc = "answer" /\ \A v \in Task \ {a.task} : task'[v] = task[v]
    BY <1>1, <1>5, ReplySteps
  <2> QED  BY <1>1, <1>2, <2>1
<1>6. ~ Kill
  BY <1>1, KillEffect
<1>7. CASE UNCHANGED vars
  BY <1>2, <1>7 DEF vars
<1> QED  BY <1>3, <1>4, <1>5, <1>6, <1>7, WhoSteps

LEMMA PromisedIsListedNext ==
  ASSUME IInv, PromisedIsListed, PromisedIsSaved, [Next]_vars
  PROVE  PromisedIsListed'
<1> SUFFICES ASSUME ~ lost', NEW n \in promised'
             PROVE  n \in targets' \/ [op |-> "add", who |-> n] \in task'[Boot].todo
  BY DEF PromisedIsListed
<1> DEFINE adding == [op |-> "add", who |-> n]
<1>1. TypeOK /\ Roles /\ Boot \in Task /\ ~ Local(Boot)
  BY WhoSaves DEF IInv
<1>2. ~ lost /\ n \in promised => n \in targets \/ adding \in task[Boot].todo
  BY DEF PromisedIsListed
<1> HIDE DEF adding
<1>3. ASSUME NEW u \in Task, Local(u) PROVE n \in targets' \/ adding \in task'[Boot].todo
  <2>1. targets' = targets /\ lost' = lost /\ task'[Boot] = task[Boot]
    BY <1>1, <1>3, LocalEffect DEF Becomes
  <2>2. n \in promised \/ n \in targets
    BY <1>1, <1>3, LocalSteps DEF Promises
  <2> QED  BY <1>2, <2>1, <2>2
<1>4. ASSUME NEW u \in Task, Execute(u) PROVE n \in targets' \/ adding \in task'[Boot].todo
  <2>1. lost' = lost /\ \A v \in Task \ {u} : task'[v] = task[v]
    BY <1>1, <1>4, ExecuteSteps
  <2>2. PICK r \in task[u].todo :
          /\ r \in Request /\ task'[u].todo = task[u].todo \ {r} /\ targets' = TargetsAfter(r)
          /\ promised' = IF r.op = "remove" /\ r.who \in targets THEN promised \ {r.who} ELSE promised
    BY <1>1, <1>4, ExecuteSteps
  <2>3. n \in promised
    BY <2>2
  <2>4. CASE n \in targets
    BY <2>2, <2>4 DEF TargetsAfter, Request
  <2>5. CASE adding \in task[Boot].todo /\ r = adding
    BY <2>2, <2>5 DEF TargetsAfter, adding
  <2>6. CASE adding \in task[Boot].todo /\ r # adding
    BY <1>1, <2>1, <2>2, <2>6
  <2> QED  BY <1>2, <2>1, <2>3, <2>4, <2>5, <2>6
<1>5. ASSUME Reply PROVE n \in targets' \/ adding \in task'[Boot].todo
  <2>1. targets' = targets /\ promised' = promised /\ lost' = lost
    BY <1>1, <1>5, ReplySteps
  <2>2. task'[Boot].todo = task[Boot].todo \/ task[Boot].todo = {}
    BY <1>1, <1>5, ReplySteps
  <2> QED  BY <1>2, <2>1, <2>2
<1>6. ASSUME Kill PROVE n \in targets' \/ adding \in task'[Boot].todo
  <2>1. /\ ~ lost /\ ~ unsaved /\ ~ Writing /\ promised' = promised
        /\ file.auto # {} => task'[Boot].todo = Add(file.auto)
    BY <1>1, <1>6, KillEffect
  <2>2. n \in file.auto
    BY <2>1 DEF PromisedIsSaved
  <2> QED  BY <2>1, <2>2 DEF Add, adding
<1>7. ASSUME UNCHANGED vars PROVE n \in targets' \/ adding \in task'[Boot].todo
  BY <1>2, <1>7 DEF vars
<1>8. n \in targets' \/ adding \in task'[Boot].todo
  BY <1>3, <1>4, <1>5, <1>6, <1>7, WhoSteps
<1> QED  BY <1>8 DEF adding

\* What an administrator saves was the list when he read it, and since then
\* nothing was promised: he is the one to promise.
Careful(k) ==
  /\ k.kind = "unlisten" /\ k.pc = "list" => k.who \notin promised
  /\ k.pc \in {"read", "truncate", "write"} =>
       promised \subseteq k.list /\ (k.kind = "listen" => k.who \in k.list)
  /\ ~ unsaved /\ k.pc \in {"truncate", "write"} => k.rest # "empty"

LEMMA SaveKeepsNext ==
  ASSUME OneAdministrator, IInv, BootFirst, PromisedIsListed, SaveKeeps, PromisedIsSaved, [Next]_vars
  PROVE  SaveKeeps'
<1> DEFINE Careful2(k) ==
      /\ k.kind = "unlisten" /\ k.pc = "list" => k.who \notin promised'
      /\ k.pc \in {"read", "truncate", "write"} =>
           promised' \subseteq k.list /\ (k.kind = "listen" => k.who \in k.list)
      /\ ~ unsaved' /\ k.pc \in {"truncate", "write"} => k.rest # "empty"
<1> DEFINE Took(a, k, p) == k.kind = "unlisten" /\ a.had => k.who \notin p
<1> SUFFICES ASSUME ~ lost'
             PROVE  /\ \A a \in actor' : Took(a, task'[a.task], promised')
                    /\ \A t \in Admin : Careful2(task'[t])
  BY DEF SaveKeeps
<1>1. /\ TypeOK /\ Roles /\ OneRequest /\ Boot \in Task /\ Admin \subseteq Task /\ Idle.pc = "idle"
      /\ \A t \in Task : task[t].kind \in {"listen", "unlisten"} => t \in Admin
      /\ \A t \in Task : task[t].pc \in {"list", "read", "truncate", "write"} => t \in Admin
      /\ \A t, u \in Admin : t = u
      /\ Idle.todo = {}
  BY WhoSaves DEF IInv, OneAdministrator
<1>2. ~ lost => /\ \A a \in actor : Took(a, task[a.task], promised)
                /\ \A t \in Admin : Careful(task[t])
  BY DEF SaveKeeps, Careful
<1>3. \A a \in actor : a.task \in Task /\ task[a.task].pc = "answer"
  BY <1>1, TypesOf
<1>0. \A n : \A r \in Remove({n}) : r.op = "remove" /\ r.who = n
  BY DEF Remove
<1>4. \A k : Careful(k) /\ promised' \subseteq promised /\ (unsaved => unsaved') => Careful2(k)
  BY DEF Careful
<1>5. ASSUME NEW u \in Task, Local(u)
      PROVE  /\ \A a \in actor' : Took(a, task'[a.task], promised')
             /\ \A t \in Admin : Careful2(task'[t])
  <2>1. /\ UNCHANGED <<targets, actor, lost>> /\ task[u].pc # "answer"
        /\ \A v \in Task \ {u} : task'[v] = task[v]
    BY <1>1, <1>5, LocalEffect DEF Becomes
  <2>2. \/ UNCHANGED <<promised, unsaved>>
        \/ task[u].pc \in {"list", "read", "truncate", "write"} /\ task'[u] = Idle
    BY <1>1, <1>5, LocalSteps
  <2>3. ASSUME NEW a \in actor PROVE Took(a, task'[a.task], promised')
    <3>1. a.task # u /\ task'[a.task] = task[a.task]
      BY <1>3, <2>1
    <3>2. CASE task[a.task].kind = "unlisten"
      <4>1. task[u].pc \notin {"list", "read", "truncate", "write"}
        BY <1>1, <1>3, <3>1, <3>2
      <4> QED  BY <1>2, <2>1, <2>2, <3>1, <4>1
    <3> QED  BY <3>1, <3>2
  <2>4. ASSUME NEW t \in Admin PROVE Careful2(task'[t])
    <3>1. CASE t # u
      <4>1. UNCHANGED <<promised, unsaved>>
        BY <1>1, <2>2, <3>1
      <4> QED  BY <1>1, <1>2, <1>4, <2>1, <3>1, <4>1
    <3>2. CASE t = u /\ task'[t].pc \notin {"list", "read", "truncate", "write"}
      BY <3>2
    <3>3. CASE t = u /\ task[t].pc = "list" /\ task'[t] # Idle
      <4>1. /\ task'[t].pc = "read" /\ Keeps(t) /\ task'[t].list = SavedList(t) /\ promised' = promised
        BY <1>1, <1>5, <3>3, LocalSteps
      <4>2. promised \subseteq targets
        <5>1. task[Boot].todo = {}
          BY <1>1, <3>3 DEF BootFirst
        <5> QED  BY <2>1, <5>1 DEF PromisedIsListed
      <4>3. task[t].kind \in {"listen", "unlisten"} /\ Careful(task[t])
        BY <1>1, <1>2, <2>1, <3>3 DEF Roles, Role
      <4> QED  BY <3>3, <4>1, <4>2, <4>3 DEF Keeps, SavedList, Careful
    <3>4. CASE t = u /\ task[t].pc = "read" /\ task'[t] # Idle
      <4>1. /\ task'[t].pc = "truncate" /\ Keeps(t) /\ task'[t].list = task[t].list
            /\ task'[t].rest = file.rest /\ UNCHANGED <<promised, unsaved>>
        BY <1>1, <1>5, <3>4, LocalSteps
      <4>2. ~ Writing
        BY <1>1, <3>4 DEF Writing
      <4>3. ~ unsaved => file.rest # "empty"
        BY <2>1, <4>2 DEF PromisedIsSaved
      <4> QED  BY <1>2, <2>1, <3>4, <4>1, <4>3 DEF Keeps, Careful
    <3>5. CASE t = u /\ task[t].pc = "truncate" /\ task'[t] # Idle
      <4>1. /\ task'[t].pc = "write" /\ Keeps(t) /\ task'[t].list = task[t].list
            /\ task'[t].rest = task[t].rest /\ UNCHANGED <<promised, unsaved>>
        BY <1>1, <1>5, <3>5, LocalSteps
      <4> QED  BY <1>2, <2>1, <3>5, <4>1 DEF Keeps, Careful
    <3>6. t = u => \/ task'[t].pc \notin {"list", "read", "truncate", "write"}
                   \/ task[t].pc \in {"list", "read", "truncate"} /\ task'[t] # Idle
      BY <1>1, <1>5, LocalSteps
    <3> QED  BY <3>1, <3>2, <3>3, <3>4, <3>5, <3>6
  <2> QED  BY <2>1, <2>3, <2>4
<1>6. ASSUME NEW u \in Task, Execute(u)
      PROVE  /\ \A a \in actor' : Took(a, task'[a.task], promised')
             /\ \A t \in Admin : Careful2(task'[t])
  <2>1. /\ UNCHANGED <<lost, unsaved>> /\ task'[u].pc = "answer" /\ Keeps(u) /\ \A v \in Task \ {u} : task'[v] = task[v]
    BY <1>1, <1>6, ExecuteSteps
  <2>2. PICK r \in task[u].todo :
          /\ actor' = {[task |-> u, request |-> r, had |-> r.who \in targets]}
          /\ promised' = IF r.op = "remove" /\ r.who \in targets THEN promised \ {r.who} ELSE promised
    BY <1>1, <1>6, ExecuteSteps
  <2>3. promised' \subseteq promised
    BY <2>2
  <2>4. \A a \in actor' : a.task = u /\ a.had = (r.who \in targets)
    BY <2>2
  <2>5. task[u].kind = "unlisten" => r.op = "remove" /\ r.who = task[u].who
    <3>1. Role(u, task[u])
      BY <1>1 DEF Roles
    <3>2. task[u].kind = "unlisten" => r \in Remove({task[u].who})
      BY <2>2, <3>1 DEF Role
    <3> QED  BY <1>0, <3>2
  <2>6. \A a \in actor' : Took(a, task'[a.task], promised')
    BY <2>1, <2>2, <2>4, <2>5 DEF Keeps
  <2>7. ASSUME NEW t \in Admin PROVE Careful2(task'[t])
    <3>1. CASE t = u
      BY <2>1, <3>1
    <3>2. CASE t # u
      BY <1>1, <1>2, <1>4, <2>1, <2>3, <3>2
    <3> QED  BY <3>1, <3>2
  <2> QED  BY <2>6, <2>7
<1>7. CASE Reply
  <2>1. actor' = {} /\ UNCHANGED <<promised, lost, unsaved>>
    BY <1>1, <1>7, ReplySteps
  <2>2. PICK a \in actor :
          /\ a.task \in Task /\ \A v \in Task \ {a.task} : task'[v] = task[v]
          /\ \/ /\ a.request.op # "add" => a.had
                /\ task'[a.task].pc = "list" /\ Keeps(a.task)
             \/ task'[a.task].pc = "ask"
             \/ task'[a.task] = Idle
    BY <1>1, <1>7, ReplySteps
  <2>3. task[a.task].kind = "unlisten" => a.request.op # "add"
    BY <1>1, <1>0 DEF OneRequest
  <2>4. Took(a, task[a.task], promised)
    BY <1>2, <2>1
  <2>5. Careful2(task'[a.task])
    BY <1>1, <2>1, <2>2, <2>3, <2>4 DEF Keeps
  <2>6. \A t \in Admin : Careful2(task'[t])
    <3> TAKE t \in Admin
    <3>1. t # a.task => Careful2(task'[t])
      BY <1>1, <1>2, <1>4, <2>1, <2>2
    <3> QED  BY <2>5, <3>1
  <2> QED  BY <2>1, <2>6
<1>8. CASE Kill
  <2>1. actor' = {} /\ \A t \in Admin : task'[t] = Idle
    BY <1>1, <1>8, KillEffect, ListenConfigAssumption
  <2> QED  BY <1>1, <2>1
<1>9. CASE UNCHANGED vars
  BY <1>2, <1>9 DEF vars, Careful
<1> HIDE DEF Careful2, Took
<1> QED  BY <1>5, <1>6, <1>7, <1>8, <1>9, WhoSteps

LEMMA SavedNext ==
  ASSUME OneAdministrator, IInv, SaveKeeps, PromisedIsSaved, [Next]_vars
  PROVE  PromisedIsSaved'
<1> DEFINE Saved(p, f) == p \subseteq f.auto /\ Parsable(f) /\ f.rest # "empty"
<1> SUFFICES ASSUME ~ lost', ~ unsaved', ~ Writing' PROVE Saved(promised', file')
  BY DEF PromisedIsSaved, Parsable
<1>1. /\ TypeOK /\ Roles /\ Idle.pc = "idle" /\ Admin \subseteq Task
      /\ \A t \in Task : task[t].pc \in {"list", "read", "truncate", "write"} => t \in Admin
      /\ \A t, u \in Admin : t = u
  BY WhoSaves DEF IInv, OneAdministrator
<1>2. ~ lost /\ ~ unsaved /\ ~ Writing => Saved(promised, file)
  BY DEF PromisedIsSaved
<1>3. \A t \in Task : task'[t].pc # "write"
  BY DEF Writing
<1>4. CASE /\ UNCHANGED <<lost, unsaved, file>> /\ promised' \subseteq promised
           /\ \A t \in Task : task[t].pc # "write" \/ task'[t] = task[t]
  BY <1>2, <1>3, <1>4 DEF Writing
<1>5. ASSUME NEW u \in Task, Local(u) PROVE Saved(promised', file')
  <2>1. /\ lost' = lost /\ \A v \in Task \ {u} : task'[v] = task[v]
    BY <1>1, <1>5, LocalEffect DEF Becomes
  <2>2. CASE task[u].pc = "write"
    <3>1. Written(u) /\ Promises(u)
      BY <1>1, <1>5, <2>2, LocalSteps
    <3>2. /\ promised \subseteq task[u].list /\ (task[u].kind = "listen" => task[u].who \in task[u].list)
          /\ ~ unsaved => task[u].rest # "empty"
      BY <1>1, <2>1, <2>2 DEF SaveKeeps
    <3>3. task[u].rest \in {"whole", "bare", "empty"}
      BY <1>1, TypesOf DEF TaskRecord, Rest
    <3>4. task[u].rest = "whole" /\ Parsable(file') /\ file' = Contents(u)
      BY <3>1, <3>2, <3>3 DEF Written
    <3> QED  BY <3>1, <3>2, <3>4 DEF Contents, Promises
  <2>3. CASE task[u].pc # "write"
    <3>1. UNCHANGED <<file, promised, unsaved>>
      <4>1. task[u].pc # "truncate"
        BY <1>1, <1>3, <1>5, LocalSteps
      <4> QED  BY <1>1, <1>5, <2>3, <4>1, LocalSteps
    <3> QED  BY <1>4, <2>1, <2>3, <3>1
  <2> QED  BY <2>2, <2>3
<1>6. ASSUME NEW u \in Task, Execute(u) PROVE Saved(promised', file')
  <2>1. /\ UNCHANGED <<file, unsaved, lost>> /\ promised' \subseteq promised /\ task[u].pc = "ask"
        /\ \A v \in Task \ {u} : task'[v] = task[v]
    BY <1>1, <1>6, ExecuteSteps
  <2> QED  BY <1>4, <2>1
<1>7. CASE Reply
  <2>1. UNCHANGED <<file, unsaved, lost, promised>> /\ \E t \in Task :
          task[t].pc = "answer" /\ \A v \in Task \ {t} : task'[v] = task[v]
    BY <1>1, <1>7, ReplySteps
  <2> QED  BY <1>4, <2>1
<1>8. CASE Kill
  BY <1>1, <1>2, <1>8, KillEffect
<1>9. CASE UNCHANGED vars
  BY <1>4, <1>9 DEF vars
<1> QED  BY <1>5, <1>6, <1>7, <1>8, <1>9, WhoSteps

-----------------------------------------------------------------------------
(***************************************************************************)
(* The theorems                                                            *)
(***************************************************************************)

\* The invariant on which all the rest stands is inductive.
THEOREM InductiveInvariant == Spec => []IInv
  BY InitIInv, IInvNext, PTL DEF Spec

\* Every variable has its type, and the actor is at one request at a time.
THEOREM TypeCorrect == Spec => []TypeOK
<1>1. IInv => TypeOK
  BY DEF IInv
<1> QED  BY <1>1, InductiveInvariant, PTL

\* A reload during which nothing else changed the list or the file leaves the
\* list as the file has it, whoever gives commands beside it, and when.
THEOREM ReloadsApply == Spec => ReloadApplies
<1>1. IInv /\ [Next]_vars =>
        [\A t \in Admin :
           task[t].kind = "reload" /\ task'[t] = Idle /\ kills' = kills /\ t \in undisturbed
           => targets = file.auto]_vars
  BY ReloadEnds
<1> QED  BY <1>1, InductiveInvariant, PTL DEF Spec, ReloadApplies

\* The file has what was promised, and its rest, for a single administrator who
\* waits until the targets of the file are added: whatever callers do meanwhile,
\* and wherever the process ends.  A save that failed, or wrote a name that does
\* not parse, is made good by the next that does not; only a process that ends
\* before that, or in a write, or starts without its file, may lose a promise.
THEOREM PromisesKept == ASSUME OneAdministrator PROVE Spec => []PromisedIsSaved
<1>1. Init => SaveInv
  <2> SUFFICES ASSUME Init PROVE SaveInv
    OBVIOUS
  <2>1. IInv
    BY InitIInv
  <2> DEFINE auto == Configuration(configured)
  <2>2. /\ task = Started(auto) /\ auto \in SUBSET Name /\ auto \subseteq file.auto
        /\ actor = {} /\ promised = auto
        /\ Parsable(file) /\ file.rest # "empty" /\ Idle.pc = "idle"
    <3>1. file.auto \in SUBSET Name /\ Parsable(file) /\ file.rest # "empty"
      BY DEF Init, Parsable
    <3> QED  BY <3>1 DEF Init, Configuration, Idle
  <2> HIDE DEF auto
  <2>3. /\ \A t \in Task : t # Boot => task[t] = Idle
        /\ auto # {} => task[Boot].todo = Add(auto)
    BY <2>2, StartedTasks
  <2>4. \A t \in Admin : task[t] = Idle
    BY <2>3, ListenConfigAssumption DEF Task
  <2>5. BootFirst /\ SaveKeeps
    BY <2>2, <2>4 DEF BootFirst, SaveKeeps
  <2>6. PromisedIsListed
    BY <2>2, <2>3 DEF PromisedIsListed, Add
  <2>7. PromisedIsSaved
    BY <2>2 DEF PromisedIsSaved
  <2> QED  BY <2>1, <2>5, <2>6, <2>7 DEF SaveInv
<1>2. SaveInv /\ [Next]_vars => SaveInv'
  BY IInvNext, BootFirstNext, PromisedIsListedNext, SaveKeepsNext, SavedNext DEF SaveInv
<1>3. SaveInv => PromisedIsSaved
  BY DEF SaveInv
<1> QED  BY <1>1, <1>2, <1>3, PTL DEF Spec


=============================================================================
