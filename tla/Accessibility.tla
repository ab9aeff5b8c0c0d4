---------------------------- MODULE Accessibility ----------------------------
(***************************************************************************)
(* How the program finds WeChat: the one AT-SPI connection of atspi.rs and *)
(* the ways to another one, find_app and check_status of wechat.rs with    *)
(* their cached node, and the heartbeat of main.rs.                        *)
(*                                                                         *)
(* An accessibility bus lives once; another launcher starts another bus,   *)
(* under another address, and the bus before may stay, with the            *)
(* applications registered there.  WeChat registers on the bus whose       *)
(* address it is given, and a WeChat started anew is another node.  All    *)
(* callers of find_app share the connection and the cache, and none of     *)
(* them holds a lock from one D-Bus call to the next.  A call can time out *)
(* and then counts as an empty answer.                                     *)
(***************************************************************************)
EXTENDS Integers, FiniteSets

CONSTANTS
  Main,        \* the task that boots
  Caller,      \* other callers of check_status and find_app
  Heartbeat,   \* the heartbeat task
  MaxBus,      \* bound: buses that are ever started
  Others,      \* per bus: applications on it besides WeChat
  MaxTimeouts, \* bound: calls that time out
  MaxEnds,     \* bound: ends of a bus, of WeChat, of a login and of the program
  MaxFails     \* failed heartbeats before it reconnects (3)

Bus == 1 .. MaxBus
NoBus == 0
Looker == Caller \cup {Main}
Task == Looker \cup {Heartbeat}

ASSUME AccessibilityAssumption ==
  /\ Main \notin Caller /\ Heartbeat \notin Looker
  /\ MaxBus \in Nat \ {0} /\ Others \in [Bus -> Nat]
  /\ MaxTimeouts \in Nat /\ MaxEnds \in Nat /\ MaxFails \in Nat \ {0}

VARIABLES
  up,          \* buses that live
  address,     \* what org.a11y.Bus answers
  newest,      \* the bus started last
  wechat,      \* where WeChat is registered, which start of it, and its login
  conn,        \* AtSpi.conn: the bus the program is connected to
  cache,       \* cached_app: a node younger than 30 s, or none
  task,        \* per task: its step, the node and the bus it holds, whether it
               \* looks for WeChat or only reconnects, the status it found
  fails,       \* failed heartbeats in a row
  timeouts, ends,
  earlier,     \* history: tasks that are under way since before the last disturbance
  undisturbed  \* history: tasks that began to look in calm, and nothing happened since

desktop == <<up, address, newest, wechat>>
program == <<conn, cache, fails>>
bounds == <<timeouts, ends>>
history == <<earlier, undisturbed>>
accessibility == <<up, address, newest, wechat, conn, cache, task, fails, timeouts, ends,
                   earlier, undisturbed>>

Node == [bus : Bus, life : Nat]
NoNode == [bus |-> NoBus, life |-> 0]
Status == {"LoggedIn", "WaitingForLogin", "NotRunning"}
Idle == [pc |-> "idle", node |-> NoNode, bus |-> NoBus, looks |-> FALSE, status |-> "NotRunning"]

WeChatNode == [bus |-> wechat.bus, life |-> wechat.life]
LoggedIn == wechat.login = "now"
Answers(node) == node = WeChatNode /\ node.bus = conn /\ conn \in up
Registered(b) == b \in up /\ wechat.bus = b
Children(b) == IF b \in up THEN Others[b] + Cardinality({b} \cap {wechat.bus}) ELSE 0

-----------------------------------------------------------------------------
\* connect: the bus org.a11y.Bus names, else the one of the environment, which
\* start.sh has set; with applications or not.  Else any with applications.
ConnectsTo ==
  IF address # NoBus THEN {address}
  ELSE IF 1 \in up THEN {1}
  ELSE {b \in up : Children(b) > 1}

InitAccessibility ==
  /\ up = {1} /\ address = 1 /\ newest = 1
  /\ wechat \in [bus : {NoBus, 1}, life : {0}, login : {"never"}]
  /\ conn \in ConnectsTo
  /\ cache = {} /\ task = [t \in Task |-> Idle] /\ fails = 0
  /\ timeouts = 0 /\ ends = 0 /\ earlier = {} /\ undisturbed = {}

(***************************************************************************)
(* The desktop                                                             *)
(***************************************************************************)

Busy == {t \in Task : task[t].pc # "idle"}
Disturbs == earlier' = Busy /\ undisturbed' = {}
Ends == ends < MaxEnds /\ ends' = ends + 1 /\ UNCHANGED timeouts

BusStarts ==
  /\ newest < MaxBus /\ newest' = newest + 1
  /\ up' = up \cup {newest'} /\ address' = newest'
  /\ Disturbs /\ UNCHANGED <<wechat, program, task, bounds>>

BusEnds ==
  \E b \in up :
    /\ up' = up \ {b}
    /\ address' = IF address = b THEN NoBus ELSE address
    /\ wechat' = IF wechat.bus = b THEN [wechat EXCEPT !.bus = NoBus] ELSE wechat
    /\ Ends /\ Disturbs /\ UNCHANGED <<newest, program, task>>

WeChatRegisters ==
  /\ wechat.bus = NoBus /\ address # NoBus
  /\ wechat' = [wechat EXCEPT !.bus = address]
  /\ Disturbs /\ UNCHANGED <<up, address, newest, program, task, bounds>>

WeChatEnds ==
  /\ wechat.bus # NoBus
  /\ wechat' = [bus |-> NoBus, life |-> wechat.life + 1,
                login |-> IF LoggedIn THEN "past" ELSE wechat.login]
  /\ Ends /\ Disturbs /\ UNCHANGED <<up, address, newest, program, task>>

LogIn ==
  /\ wechat.bus # NoBus /\ ~ LoggedIn /\ wechat' = [wechat EXCEPT !.login = "now"]
  /\ UNCHANGED <<up, address, newest, program, task, bounds, history>>

LogOut ==
  /\ LoggedIn /\ wechat' = [wechat EXCEPT !.login = "past"]
  /\ Ends /\ UNCHANGED <<up, address, newest, program, task, history>>

(***************************************************************************)
(* The steps of a task                                                     *)
(***************************************************************************)

Goes(t, step) == task' = [task EXCEPT ![t].pc = step]
Calm == address # NoBus /\ wechat.bus = address

\* A call of this step is answered, or it times out; what the task goes on to do
\* then may disturb others.
Answered == UNCHANGED <<bounds, history>>
TimesOut == timeouts < MaxTimeouts /\ timeouts' = timeouts + 1 /\ UNCHANGED ends
Misled == TimesOut /\ Disturbs

\* The operation of a task is over.
Over(t, end) ==
  /\ task' = [task EXCEPT ![t] = end]
  /\ earlier' = earlier \ {t} /\ undisturbed' = undisturbed \ {t}

\* find_app: the cached node, or the registry's children.
Look(t) ==
  /\ task[t].pc = "idle"
  /\ task' = [task EXCEPT ![t] =
       IF cache # {} THEN [Idle EXCEPT !.pc = "tree", !.node = CHOOSE n \in cache : TRUE, !.looks = TRUE]
       ELSE [Idle EXCEPT !.pc = "scan", !.looks = TRUE]]
  /\ undisturbed' = IF Calm /\ earlier = {} /\ \A n \in cache : Answers(n)
                    THEN undisturbed \cup {t} ELSE undisturbed
  /\ UNCHANGED <<desktop, program, bounds, earlier>>

NotFound(t) == Goes(t, IF task[t].pc = "scan" THEN "ask" ELSE "drop")

Scan(t) ==
  /\ task[t].pc \in {"scan", "rescan"}
  /\ \/ /\ Registered(conn) /\ Answered
        /\ task' = [task EXCEPT ![t].pc = "keep", ![t].node = WeChatNode]
     \/ /\ (~ Registered(conn) /\ Answered) \/ Misled
        /\ NotFound(t)
  /\ UNCHANGED <<desktop, program>>

Keep(t) ==
  /\ task[t].pc = "keep" /\ Goes(t, "tree")
  /\ cache' = {task[t].node}
  /\ UNCHANGED <<desktop, conn, fails, bounds, history>>

\* Boot goes by the status it is told; the response to other callers is sent.
Told(t, status) == Over(t, IF t = Main THEN [Idle EXCEPT !.pc = "told", !.status = status]
                               ELSE Idle)

Drop(t) ==
  /\ task[t].pc = "drop" /\ cache' = {}
  /\ Told(t, "NotRunning")
  /\ UNCHANGED <<desktop, conn, fails, bounds>>

\* check_status: WeChat shows its navigation once it is logged in.
Tree(t) ==
  /\ task[t].pc = "tree"
  /\ \/ /\ UNCHANGED bounds
        /\ Told(t, IF Answers(task[t].node) /\ LoggedIn THEN "LoggedIn" ELSE "WaitingForLogin")
     \/ /\ TimesOut
        /\ Told(t, "WaitingForLogin")
  /\ UNCHANGED <<desktop, program>>

\* The 30 s of the cached node are over.
Expire == cache # {} /\ cache' = {} /\ UNCHANGED <<desktop, conn, fails, task, bounds, history>>

(***************************************************************************)
(* Reconnecting                                                            *)
(***************************************************************************)

\* reconnect asks org.a11y.Bus first, then it tries all sockets.
ByAddress == {b \in up : b = address /\ Children(b) > 0}
BySocket == {b \in up : Children(b) > 1}

FirstSockets ==                           \* mutant: sockets first
  IF BySocket # {} THEN BySocket ELSE ByAddress
First == ByAddress

Chooses(t, buses, otherwise) ==
  \/ /\ Answered
     /\ \/ \E b \in buses : task' = [task EXCEPT ![t].pc = "swap", ![t].bus = b]
        \/ (buses = {} /\ Goes(t, otherwise))
  \/ (Misled /\ Goes(t, otherwise))

Ask(t) ==
  /\ task[t].pc = "ask" /\ Chooses(t, First, "sockets")
  /\ UNCHANGED <<desktop, program>>

TrySockets(t) ==
  /\ task[t].pc = "sockets" /\ Chooses(t, BySocket, IF task[t].looks THEN "drop" ELSE "failed")
  /\ UNCHANGED <<desktop, program>>

Swap(t) ==
  /\ task[t].pc = "swap" /\ conn' = task[t].bus
  /\ IF task[t].looks
     THEN task' = [task EXCEPT ![t].pc = "rescan", ![t].bus = NoBus] /\ UNCHANGED history
     ELSE Over(t, Idle)
  /\ fails' = IF t = Heartbeat THEN 0 ELSE fails
  /\ UNCHANGED <<desktop, cache, bounds>>

Fail(t) ==
  /\ task[t].pc = "failed" /\ Over(t, Idle)
  /\ UNCHANGED <<desktop, program, bounds>>

\* try_reconnect, after which the task holds nothing.
TryReconnect(t) ==
  /\ cache' = {} /\ Over(t, [Idle EXCEPT !.pc = "ask"])
  /\ UNCHANGED <<desktop, conn, fails, bounds>>

BeatOnce ==                               \* mutant: it does not try again after it failed
  LET count == IF fails < MaxFails THEN fails + 1 ELSE fails
  IN  fails' = count /\ Goes(Heartbeat, IF fails < count /\ count = MaxFails THEN "ask" ELSE "idle")
FailedBeat ==
  LET count == IF fails < MaxFails THEN fails + 1 ELSE fails
  IN  fails' = count /\ Goes(Heartbeat, IF count = MaxFails THEN "ask" ELSE "idle")

Beat ==
  /\ task[Heartbeat].pc = "idle"
  /\ \/ /\ Answered /\ Children(conn) > 0
        /\ fails' = 0 /\ UNCHANGED task
     \/ /\ (Answered /\ Children(conn) = 0) \/ Misled
        /\ FailedBeat
  /\ UNCHANGED <<desktop, conn, cache>>

-----------------------------------------------------------------------------
Desktop == BusStarts \/ BusEnds \/ WeChatRegisters \/ WeChatEnds \/ LogIn \/ LogOut
Finding(t) == Scan(t) \/ Keep(t) \/ Drop(t) \/ Tree(t)
Reconnecting(t) == Ask(t) \/ TrySockets(t) \/ Swap(t) \/ Fail(t)
Steps(t) == Finding(t) \/ Reconnecting(t)

=============================================================================
