---------------------------- MODULE ListenConfig ----------------------------
(***************************************************************************)
(* The list of listen targets and the file that outlives the process: the  *)
(* commands listen, unlisten and reload (exec_* of api.rs, handle_command  *)
(* of console.rs), the endpoint /listen, the task of main.rs that adds the *)
(* targets of the file after a start, and load_config and save_listen_list *)
(* of config.rs.                                                           *)
(*                                                                         *)
(* All of them change the list through the one input actor, which adds a   *)
(* target before it tries to pop out its window.  Only listen and unlisten *)
(* save: they read the whole list, then the file, replace its auto line,   *)
(* and write it over itself, truncated first.  None of this is locked, and *)
(* a save that fails, or has nowhere to write, is answered like any other. *)
(*                                                                         *)
(* The file is its auto line and the rest; an empty file is a valid        *)
(* configuration with no targets.  Names are written as they are: one with *)
(* a quote or a backslash in it makes a file that no longer parses.        *)
(* Windows are in ChatRouter; here a pop-out just fails or not.            *)
(***************************************************************************)
EXTENDS Integers, FiniteSets

CONSTANTS
  Name,         \* chats
  Awkward,      \* those whose name, between quotes, is not TOML
  NoName,
  Admin,        \* who gives commands: the console, callers of /command
  Caller,       \* callers of POST and DELETE /listen
  Boot,         \* the task that adds the targets of the file
  Patient,      \* whether commands are given only after that task is done
  MaxCommands,  \* bound: commands and calls
  MaxKills,     \* bound: ends of the process: killed, /restart, /stop
  MaxFail       \* bound: reads and writes of the file that fail

Task == Admin \cup Caller \cup {Boot}

ASSUME ListenConfigAssumption ==
  /\ NoName \notin Name /\ Awkward \subseteq Name
  /\ Boot \notin Admin \cup Caller /\ Admin \cap Caller = {}
  /\ Patient \in BOOLEAN /\ MaxCommands \in Nat /\ MaxKills \in Nat /\ MaxFail \in Nat

VARIABLES
  file,        \* config.toml
  configured,  \* whether this process read it when it started: config_path
  targets,     \* listen_targets
  task,        \* per task: its step, its command, what it still asks the actor
               \* for, the list and the rest of the file as it has read them
  actor,       \* what the actor is at: nothing, or one request
  promised,    \* history: targets reported as added and not removed since
  unsaved,     \* history: a save failed, or wrote what is not the list, since
               \* the last that did not
  lost,        \* history: the process ended in a save or with the list unsaved, or
               \* a start did not read the file
  undisturbed, \* history: reloads during which nothing else changed file or list
  commands, kills, failures

bounds == <<commands, kills, failures>>
vars == <<file, configured, targets, task, actor, promised, unsaved, lost, undisturbed, bounds>>

\* The rest of the file: all of it, a file without a line for the list or a
\* [listen] to put one after, or nothing.
Rest == {"whole", "bare", "empty"}
File == [auto : SUBSET Name, rest : Rest]
Empty == [auto |-> {}, rest |-> "empty"]
Parsable(f) == f.auto \cap Awkward = {}

Request == [op : {"add", "remove"}, who : Name]
Add(names) == {[op |-> "add", who |-> n] : n \in names}
Remove(names) == {[op |-> "remove", who |-> n] : n \in names}

Idle == [pc |-> "idle", kind |-> "none", who |-> NoName, todo |-> {}, list |-> {}, rest |-> "empty"]
Goes(t, step) == task' = [task EXCEPT ![t].pc = step]
Ends(t) == task' = [task EXCEPT ![t] = Idle]
Disturb(t) == undisturbed' = undisturbed \cap {t}

FileFails == failures < MaxFail /\ failures' = failures + 1

-----------------------------------------------------------------------------
\* A process that starts knows nothing but its configuration, whose targets it
\* adds one after the other.
StartedEmpty(auto) == [t \in Task |-> Idle]   \* mutant: none is added
Started(auto) ==
  [t \in Task |-> IF t = Boot /\ auto # {}
                  THEN [Idle EXCEPT !.pc = "ask", !.kind = "boot", !.todo = Add(auto)]
                  ELSE Idle]

\* A file that cannot be read or parsed, or is not there, gives the defaults.
Configuration(read) == IF read THEN file.auto ELSE {}

Init ==
  /\ file \in [auto : SUBSET (Name \ Awkward), rest : {"whole"}] \cup [auto : {{}}, rest : {"bare"}]
  /\ configured \in BOOLEAN
  /\ targets = {} /\ task = Started(Configuration(configured)) /\ actor = {}
  /\ promised = Configuration(configured)
  /\ unsaved = FALSE /\ lost = FALSE /\ undisturbed = {}
  /\ commands = 0 /\ kills = 0 /\ failures = 0

\* The process ends, wherever its tasks are, and is started again.
Kill ==
  /\ kills < MaxKills /\ kills' = kills + 1
  /\ \/ configured' = TRUE /\ Parsable(file) /\ UNCHANGED failures
     \/ configured' = FALSE /\ ~ Parsable(file) /\ UNCHANGED failures
     \/ configured' = FALSE /\ FileFails
  /\ targets' = {} /\ task' = Started(Configuration(configured')) /\ actor' = {} /\ undisturbed' = {}
  /\ lost' = (lost \/ unsaved \/ ~ configured' \/ \E t \in Task : task[t].pc = "write")
  /\ UNCHANGED <<file, promised, unsaved, commands>>

(***************************************************************************)
(* Commands and calls                                                      *)
(***************************************************************************)

Begin(t, kind, n, step, requests) ==
  /\ commands < MaxCommands /\ commands' = commands + 1
  /\ task[t] = Idle
  /\ task' = [task EXCEPT ![t] = [Idle EXCEPT !.pc = step, !.kind = kind, !.who = n,
                                              !.todo = requests]]
  /\ undisturbed' = undisturbed \ {t}
  /\ UNCHANGED <<file, configured, targets, actor, promised, unsaved, lost, kills, failures>>

Give(t) ==
  /\ t \in Admin /\ (Patient => task[Boot] = Idle)
  /\ \/ Begin(t, "reload", NoName, "parse", {})
     \/ \E n \in Name : \/ Begin(t, "listen", n, "ask", Add({n}))
                       \/ Begin(t, "unlisten", n, "ask", Remove({n}))

Call(t) ==
  /\ t \in Caller
  /\ \E n \in Name : \/ Begin(t, "post", n, "ask", Add({n}))
                    \/ Begin(t, "delete", n, "ask", Remove({n}))

\* reload: the list of the file, and then how the list differs from it by now.
\* A file that cannot be read or parsed ends it.
Parse(t) ==
  /\ task[t].pc = "parse"
  /\ \/ /\ configured /\ Parsable(file)
        /\ task' = [task EXCEPT ![t].pc = "diff", ![t].list = file.auto]
        /\ undisturbed' = undisturbed \cup {t} /\ UNCHANGED failures
     \/ /\ ~ configured \/ ~ Parsable(file)
        /\ Ends(t) /\ UNCHANGED <<undisturbed, failures>>
     \/ configured /\ FileFails /\ Ends(t) /\ UNCHANGED undisturbed
  /\ UNCHANGED <<file, configured, targets, actor, promised, unsaved, lost, commands, kills>>

DifferenceAdds(t) ==                      \* mutant: targets not in the file stay
  Add(task[t].list \ targets)
Difference(t) == Remove(targets \ task[t].list) \cup Add(task[t].list \ targets)

Diff(t) ==
  /\ task[t].pc = "diff"
  /\ IF Difference(t) = {} THEN Ends(t)
     ELSE task' = [task EXCEPT ![t].pc = "ask", ![t].todo = Difference(t)]
  /\ UNCHANGED <<file, configured, targets, actor, promised, unsaved, lost, undisturbed, bounds>>

(***************************************************************************)
(* The actor                                                               *)
(***************************************************************************)

\* A task asks for one thing at a time, a reload for removals first.
Asked(t) ==
  LET removals == {r \in task[t].todo : r.op = "remove"}
  IN  IF removals # {} THEN removals ELSE task[t].todo

\* add_listen puts the target on the list before anything of it can fail.
TargetsAfter(r) == IF r.op = "add" THEN targets \cup {r.who} ELSE targets \ {r.who}

NeverBusy == FALSE                        \* mutant: a thread for each request
Busy == actor # {}

Execute(t) ==
  /\ ~ Busy /\ task[t].pc = "ask"
  /\ \E r \in Asked(t) :
       /\ actor' = {[task |-> t, request |-> r, had |-> r.who \in targets]}
       /\ targets' = TargetsAfter(r)
       /\ promised' = IF r.op = "remove" /\ r.who \in targets THEN promised \ {r.who} ELSE promised
       /\ task' = [task EXCEPT ![t].pc = "answer", ![t].todo = @ \ {r}]
  /\ Disturb(t)
  /\ UNCHANGED <<file, configured, unsaved, lost, bounds>>

\* The reply: whether a window popped out, or there was something to remove.
\* The commands listen and unlisten save what succeeded; the others go on.
ReplyTakingBack ==                        \* mutant: a failed pop-out is off the list again
  \E a \in actor :
    /\ actor' = {}
    /\ \E success \in IF a.request.op = "add" THEN BOOLEAN ELSE {a.had} :
         /\ targets' = targets \ (IF success THEN {} ELSE {a.request.who})
         /\ IF success /\ task[a.task].kind \in {"listen", "unlisten"} THEN Goes(a.task, "list")
            ELSE IF task[a.task].todo # {} THEN Goes(a.task, "ask")
            ELSE Ends(a.task)
    /\ UNCHANGED <<file, configured, promised, unsaved, lost, undisturbed, bounds>>
Reply ==
  \E a \in actor :
    /\ actor' = {}
    /\ \E success \in IF a.request.op = "add" THEN BOOLEAN ELSE {a.had} :
         IF success /\ task[a.task].kind \in {"listen", "unlisten"} THEN Goes(a.task, "list")
         ELSE IF task[a.task].todo # {} THEN Goes(a.task, "ask")
         ELSE Ends(a.task)
    /\ UNCHANGED <<file, configured, targets, promised, unsaved, lost, undisturbed, bounds>>

(***************************************************************************)
(* Saving                                                                  *)
(***************************************************************************)

\* However a save goes, the command is answered with [ok].
Promise(t) ==
  promised' = promised \cup (IF task[t].kind = "listen" THEN {task[t].who} \cap targets ELSE {})
SaveFails(t) == Ends(t) /\ Promise(t) /\ unsaved' = TRUE

\* Without a configuration file there is nowhere to save.
GetList(t) ==
  /\ task[t].pc = "list"
  /\ \/ /\ configured
        /\ task' = [task EXCEPT ![t].pc = "read",
                      ![t].list = IF task[t].kind = "listen" THEN targets \cup {task[t].who}
                                                             ELSE targets \ {task[t].who}]
        /\ UNCHANGED <<promised, unsaved>>
     \/ ~ configured /\ SaveFails(t)
  /\ UNCHANGED <<file, configured, targets, actor, lost, undisturbed, bounds>>

ReadFile(t) ==
  /\ task[t].pc = "read"
  /\ \/ /\ task' = [task EXCEPT ![t].pc = "truncate", ![t].rest = file.rest]
        /\ UNCHANGED <<promised, unsaved, failures>>
     \/ FileFails /\ SaveFails(t)
  /\ UNCHANGED <<file, configured, targets, actor, lost, undisturbed, commands, kills>>

Truncate(t) ==
  /\ task[t].pc = "truncate"
  /\ \/ Goes(t, "write") /\ file' = Empty /\ Disturb(t) /\ UNCHANGED <<promised, unsaved, failures>>
     \/ FileFails /\ SaveFails(t) /\ UNCHANGED <<file, undisturbed>>
  /\ UNCHANGED <<configured, targets, actor, lost, commands, kills>>

\* Only a whole file has a place for the line; any other is written as it was read.
Contents(t) ==
  IF task[t].rest = "whole" THEN [auto |-> task[t].list, rest |-> "whole"]
                            ELSE [auto |-> {}, rest |-> task[t].rest]

\* A write that fails leaves the file truncated.  A file read while another
\* command was writing is no excuse: only a bare one counts as unsaved.
Write(t) ==
  /\ task[t].pc = "write"
  /\ \/ /\ Ends(t) /\ Promise(t) /\ file' = Contents(t)
        /\ unsaved' = CASE task[t].rest = "whole" -> ~ Parsable(Contents(t))
                        [] task[t].rest = "bare"  -> TRUE
                        [] OTHER                  -> unsaved
        /\ UNCHANGED failures
     \/ FileFails /\ SaveFails(t) /\ UNCHANGED file
  /\ Disturb(t)
  /\ UNCHANGED <<configured, targets, actor, lost, commands, kills>>

-----------------------------------------------------------------------------
Step(t) == Parse(t) \/ Diff(t) \/ GetList(t) \/ ReadFile(t) \/ Truncate(t) \/ Write(t)

Next ==
  \/ \E t \in Task : Give(t) \/ Call(t) \/ Step(t) \/ Execute(t)
  \/ Reply \/ Kill

Spec == Init /\ [][Next]_vars

\* Tasks and actor run on.  The actor's queue is first come, first served, so a
\* task that asks is not passed over for ever.
FairSpec == Spec /\ WF_vars(Reply) /\ \A t \in Task : WF_vars(Step(t)) /\ SF_vars(Execute(t))

-----------------------------------------------------------------------------
(***************************************************************************)
(* Properties                                                              *)
(***************************************************************************)

TypeOK ==
  /\ file \in File /\ configured \in BOOLEAN /\ targets \in SUBSET Name
  /\ task \in [Task -> [pc : {"idle", "parse", "diff", "ask", "answer", "list", "read",
                              "truncate", "write"},
                        kind : {"none", "boot", "listen", "unlisten", "reload", "post", "delete"},
                        who : Name \cup {NoName}, todo : SUBSET Request,
                        list : SUBSET Name, rest : Rest]]
  /\ actor \in SUBSET [task : Task, request : Request, had : BOOLEAN]
  /\ \A t \in Task : task[t].pc = "answer" <=> \E a \in actor : a.task = t
  /\ Cardinality(actor) <= 1
  /\ promised \in SUBSET Name /\ unsaved \in BOOLEAN /\ lost \in BOOLEAN
  /\ undisturbed \in SUBSET Task
  /\ commands \in 0 .. MaxCommands /\ kills \in 0 .. MaxKills /\ failures \in 0 .. MaxFail

Writing == \E t \in Task : task[t].pc = "write"

\* What was reported as added is in the file, and the rest of the file is as it
\* was ("only the auto line is replaced"): also when pop-outs fail, callers of
\* /listen change the list between the steps of a save, or the process ends and
\* its targets are added anew.  A save that failed, or wrote what does not parse,
\* breaks this until one that does not - unless the process ends before that,
\* or starts without its configuration: what was promised may then be gone.
PromisedIsSaved ==
  ~ lost /\ ~ unsaved /\ ~ Writing =>
    promised \subseteq file.auto /\ Parsable(file) /\ file.rest # "empty"

\* A reload during which nothing else changed the list or the file leaves the
\* list as the file has it, also when windows do not pop out.
ReloadApplies ==
  [][\A t \in Admin :
       task[t].kind = "reload" /\ task'[t] = Idle /\ kills' = kills /\ t \in undisturbed
       => targets = file.auto]_vars

\* What was reported as added is listened to again after the process ended,
\* unless it ended in a save or with the list unsaved, or cannot read the file.
PromisedIsRestored ==
  \A n \in Name : n \in promised ~> n \in targets \/ n \notin promised \/ lost

=============================================================================
