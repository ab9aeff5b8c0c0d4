----------------------------- MODULE BootProofs -----------------------------
(***************************************************************************)
(* Boot and Accessibility: that whoever looks for WeChat in calm finds it, *)
(* for any number of buses, applications and callers, and whatever else    *)
(* reconnects meanwhile.                                                   *)
(***************************************************************************)
EXTENDS Boot, FiniteSetTheorems, TLAPS

-----------------------------------------------------------------------------
(***************************************************************************)
(* The inductive invariant                                                 *)
(***************************************************************************)

TaskRecord ==
  [pc : {"idle", "scan", "rescan", "keep", "drop", "tree", "told", "ask", "sockets", "swap", "failed"},
   node : Node \cup {NoNode}, bus : Bus \cup {NoBus}, looks : BOOLEAN, status : Status]

\* A node to keep is one, and a bus to connect to was started.
Holds(k) == (k.pc = "keep" => k.node \in Node) /\ (k.pc = "swap" => k.bus \in 1 .. newest)
Held == \A t \in Task : Holds(task[t])

\* One cached node at most, and no more starts of WeChat than ends.
OneCached == (\A m, n \in cache : m = n) /\ wechat.life <= ends

\* With WeChat on the bus in use, whoever reconnects and began so since the last
\* disturbance finds that bus first.
RecentKnow ==
  Calm => \A t \in Task \ earlier :
            task[t].pc \notin {"sockets", "failed"} /\ (task[t].pc = "swap" => task[t].bus = address)

\* An undisturbed look is on its way to WeChat, and nobody leads it astray.
LooksFind ==
  \A t \in undisturbed :
    /\ Calm /\ earlier = {}
    /\ task[t].pc \in {"scan", "ask", "swap"} \/ (task[t].pc \in {"rescan", "keep", "tree"} /\ conn = address)
    /\ task[t].pc \in {"keep", "tree"} => task[t].node = WeChatNode

IInv == TypeOK /\ Held /\ OneCached /\ RecentKnow /\ LooksFind

-----------------------------------------------------------------------------
(***************************************************************************)
(* Facts about the operators of the model                                  *)
(***************************************************************************)

LEMMA TypesOf ==
  ASSUME TypeOK
  PROVE  /\ task \in [Task -> TaskRecord] /\ up \subseteq 1 .. newest /\ newest \in Bus
         /\ address \in up \cup {NoBus} /\ conn \in 1 .. newest
         /\ wechat \in [bus : up \cup {NoBus}, life : 0 .. MaxEnds, login : {"never", "now", "past"}]
         /\ cache \subseteq Node /\ fails \in 0 .. MaxFails
         /\ timeouts \in 0 .. MaxTimeouts /\ ends \in 0 .. MaxEnds
         /\ earlier \in SUBSET Task /\ undisturbed \in SUBSET Looker
         /\ stage \in {"login", "key", "up"} /\ attempts \in 0 .. Limit + Period - 1
         /\ tries \in 0 .. KeyTries /\ key \in BOOLEAN /\ mounted \in BOOLEAN
         /\ missed \subseteq {"login", "key", "database"}
         /\ mounted => key /\ stage = "up"
         /\ \A t \in Task : task[t] \in TaskRecord
  BY DEF TypeOK, TaskRecord

LEMMA OneHasCardinalityOne ==
  ASSUME NEW S, \A a, b \in S : a = b
  PROVE  Cardinality(S) \in Nat /\ Cardinality(S) <= 1
<1>1. CASE S = {}
  BY <1>1, FS_EmptySet
<1>2. CASE S # {}
  <2>1. PICK a \in S : S = {a}
    BY <1>2
  <2> QED  BY <2>1, FS_Singleton
<1> QED  BY <1>1, <1>2

\* Buses that live were started, and WeChat's is one of those in use.
LEMMA Buses ==
  ASSUME TypeOK
  PROVE  /\ newest \in Nat /\ newest >= 1 /\ newest <= MaxBus /\ MaxBus \in Nat
         /\ up \subseteq Bus /\ 1 .. newest \subseteq Bus /\ NoBus \notin Bus
         /\ wechat.life \in Nat /\ wechat.bus \in up \cup {NoBus}
         /\ wechat.bus # NoBus => WeChatNode \in Node /\ wechat.bus \in up
         /\ NoNode \notin Node
         /\ ConnectsTo \subseteq 1 .. newest
  BY TypesOf, AccessibilityAssumption DEF Bus, NoBus, Node, NoNode, WeChatNode, ConnectsTo

LEMMA IdleRecord ==
  /\ Idle \in TaskRecord /\ Idle.pc = "idle"
  /\ \A status \in Status : [Idle EXCEPT !.pc = "told", !.status = status] \in TaskRecord
                            /\ [Idle EXCEPT !.pc = "told", !.status = status].pc = "told"
  /\ [Idle EXCEPT !.pc = "ask"] \in TaskRecord /\ [Idle EXCEPT !.pc = "ask"].pc = "ask"
  BY DEF Idle, TaskRecord, Status

\* A task whose record is replaced, and the others.
Becomes(t, new) ==
  /\ task' \in [Task -> TaskRecord] /\ new \in TaskRecord
  /\ task'[t] = new /\ \A u \in Task \ {t} : task'[u] = task[u]

LEMMA ReplaceEffect ==
  ASSUME TypeOK, NEW t \in Task, NEW new \in TaskRecord, task' = [task EXCEPT ![t] = new]
  PROVE  Becomes(t, new)
  BY TypesOf DEF Becomes

Step == {"idle", "scan", "rescan", "keep", "drop", "tree", "told", "ask", "sockets", "swap", "failed"}

LEMMA GoesEffect ==
  ASSUME TypeOK, NEW t \in Task, NEW step \in Step, Goes(t, step)
  PROVE  /\ Becomes(t, task'[t]) /\ task'[t].pc = step
         /\ task'[t].node = task[t].node /\ task'[t].bus = task[t].bus /\ task'[t].looks = task[t].looks
<1> DEFINE new == [task[t] EXCEPT !.pc = step]
<1>1. task[t] \in TaskRecord
  BY TypesOf
<1>2. /\ new \in TaskRecord /\ new.pc = step /\ new.node = task[t].node /\ new.bus = task[t].bus
      /\ new.looks = task[t].looks
  BY <1>1 DEF TaskRecord, Step
<1>3. task' = [task EXCEPT ![t] = new]
  BY DEF Goes
<1> HIDE DEF new
<1>4. Becomes(t, new)
  BY <1>2, <1>3, ReplaceEffect
<1> QED  BY <1>2, <1>4 DEF Becomes

LEMMA OverEffect ==
  ASSUME TypeOK, NEW t \in Task, NEW end \in TaskRecord, Over(t, end)
  PROVE  /\ Becomes(t, end) /\ task'[t] = end
         /\ earlier' = earlier \ {t} /\ undisturbed' = undisturbed \ {t}
  BY ReplaceEffect DEF Over, Becomes

LEMMA ToldEffect ==
  ASSUME TypeOK, NEW t \in Task, NEW status \in Status, Told(t, status)
  PROVE  /\ Becomes(t, task'[t]) /\ task'[t].pc \in {"idle", "told"}
         /\ earlier' = earlier \ {t} /\ undisturbed' = undisturbed \ {t}
<1> DEFINE end == IF t = Main THEN [Idle EXCEPT !.pc = "told", !.status = status] ELSE Idle
<1>1. end \in TaskRecord /\ end.pc \in {"idle", "told"}
  BY IdleRecord
<1>2. Over(t, end)
  BY DEF Told
<1> HIDE DEF end
<1> QED  BY <1>1, <1>2, OverEffect

LEMMA MisledEffect ==
  ASSUME TypeOK, Misled
  PROVE  timeouts' \in 0 .. MaxTimeouts /\ ends' = ends /\ earlier' = Busy /\ undisturbed' = {}
  BY TypesOf, AccessibilityAssumption DEF Misled, TimesOut, Disturbs

-----------------------------------------------------------------------------
(***************************************************************************)
(* The steps of a task                                                     *)
(***************************************************************************)

\* What becomes of the tasks that a disturbance must not be held against.
Misleads == earlier' = Busy /\ undisturbed' = {}
Leaves(t) == earlier' = earlier \ {t} /\ undisturbed' = undisturbed \ {t}
Quiet == earlier' = earlier /\ undisturbed' = undisturbed

\* How a task goes on, if it is not misled and not at its end.
Onward(t) ==
  LET k == task[t]
      next == task'[t]
  IN  \/ k.pc \in {"scan", "rescan"} /\ Registered(conn) /\ next.pc = "keep" /\ next.node = WeChatNode
      \/ k.pc = "scan" /\ ~ Registered(conn) /\ next.pc = "ask"
      \/ k.pc = "rescan" /\ ~ Registered(conn) /\ next.pc = "drop"
      \/ k.pc = "keep" /\ next.pc = "tree" /\ next.node = k.node
      \/ k.pc = "ask" /\ next.pc = "swap" /\ next.bus \in First
      \/ k.pc = "ask" /\ next.pc = "sockets" /\ First = {}
      \/ k.pc = "sockets" /\ next.pc = "swap" /\ next.bus \in BySocket
      \/ k.pc = "sockets" /\ next.pc \in {"drop", "failed"}
      \/ k.pc = "swap" /\ next.pc = "rescan" /\ conn' = k.bus

\* The step of a task, and what it does to the connection and the cached node.
Outcome(t) ==
  /\ UNCHANGED desktop /\ ends' = ends /\ timeouts' \in 0 .. MaxTimeouts /\ fails' \in 0 .. MaxFails
  /\ Becomes(t, task'[t]) /\ task[t].pc # "idle"
  /\ cache' = cache \/ cache' = {} \/ (task[t].pc = "keep" /\ cache' = {task[t].node})
  /\ conn' = conn \/ (task[t].pc = "swap" /\ conn' = task[t].bus)
  /\ task'[t].pc = "keep" => task'[t].node \in Node
  /\ task'[t].pc = "swap" => task'[t].bus \in 1 .. newest
  /\ \/ Misleads /\ conn' = conn
     \/ Leaves(t) /\ task'[t].pc \in {"idle", "told"}
     \/ Quiet /\ Onward(t)

LEMMA ScanOutcome ==
  ASSUME TypeOK, NEW t \in Task, Scan(t)
  PROVE  Outcome(t)
<1>1. /\ task[t].pc \in {"scan", "rescan"} /\ UNCHANGED desktop /\ conn' = conn /\ cache' = cache
      /\ fails' = fails /\ fails \in 0 .. MaxFails /\ task[t] \in TaskRecord
      /\ ends \in 0 .. MaxEnds /\ timeouts \in 0 .. MaxTimeouts
  BY TypesOf DEF Scan, program
<1>2. CASE /\ Registered(conn) /\ Answered
           /\ task' = [task EXCEPT ![t].pc = "keep", ![t].node = WeChatNode]
  <2> DEFINE new == [task[t] EXCEPT !.pc = "keep", !.node = WeChatNode]
  <2>1. WeChatNode \in Node
    BY <1>2, Buses, TypesOf DEF Registered, Bus, NoBus
  <2>2. new \in TaskRecord /\ new.pc = "keep" /\ new.node = WeChatNode
    BY <1>1, <2>1 DEF TaskRecord
  <2>3. task' = [task EXCEPT ![t] = new]
    BY <1>2, TypesOf
  <2> HIDE DEF new
  <2>4. Becomes(t, new)
    BY <2>2, <2>3, ReplaceEffect
  <2>5. Becomes(t, task'[t]) /\ task'[t].pc = "keep" /\ task'[t].node = WeChatNode
    BY <2>2, <2>4 DEF Becomes
  <2> QED  BY <1>1, <1>2, <2>1, <2>5 DEF Outcome, Onward, Quiet, Answered, bounds, history
<1>3. CASE ((~ Registered(conn) /\ Answered) \/ Misled) /\ NotFound(t)
  <2>1. /\ Becomes(t, task'[t])
        /\ task[t].pc = "scan" => task'[t].pc = "ask"
        /\ task[t].pc = "rescan" => task'[t].pc = "drop"
    BY <1>1, <1>3, GoesEffect DEF NotFound, Step
  <2>2. CASE ~ Registered(conn) /\ Answered
    BY <1>1, <2>1, <2>2 DEF Outcome, Onward, Quiet, Answered, bounds, history
  <2>3. CASE Misled
    BY <1>1, <2>1, <2>3, MisledEffect DEF Outcome, Misleads
  <2> QED  BY <1>3, <2>2, <2>3
<1> QED  BY <1>2, <1>3 DEF Scan

LEMMA FindingOutcome ==
  ASSUME TypeOK, NEW t \in Task, Keep(t) \/ Drop(t) \/ Tree(t)
  PROVE  Outcome(t)
<1>1. /\ fails \in 0 .. MaxFails /\ ends \in 0 .. MaxEnds /\ timeouts \in 0 .. MaxTimeouts
      /\ {"LoggedIn", "WaitingForLogin", "NotRunning"} = Status /\ {"tree"} \subseteq Step
  BY TypesOf DEF Status, Step
<1>2. CASE Keep(t)
  <2>1. /\ task[t].pc = "keep" /\ Goes(t, "tree") /\ cache' = {task[t].node}
        /\ UNCHANGED <<desktop, conn, fails, bounds, history>>
    BY <1>2 DEF Keep
  <2>2. Becomes(t, task'[t]) /\ task'[t].pc = "tree" /\ task'[t].node = task[t].node
    BY <1>1, <2>1, GoesEffect
  <2> QED  BY <1>1, <2>1, <2>2 DEF Outcome, Onward, Quiet, bounds, history
<1>3. CASE Drop(t)
  <2>1. /\ task[t].pc = "drop" /\ Told(t, "NotRunning") /\ cache' = {}
        /\ UNCHANGED <<desktop, conn, fails, bounds>>
    BY <1>3 DEF Drop
  <2>2. /\ Becomes(t, task'[t]) /\ task'[t].pc \in {"idle", "told"} /\ Leaves(t)
    BY <1>1, <2>1, ToldEffect DEF Leaves
  <2> QED  BY <1>1, <2>1, <2>2 DEF Outcome, bounds
<1>4. CASE Tree(t)
  <2>1. /\ task[t].pc = "tree" /\ UNCHANGED <<desktop, program>>
        /\ \E status \in Status : Told(t, status)
        /\ UNCHANGED bounds \/ TimesOut
    BY <1>1, <1>4 DEF Tree
  <2>2. Becomes(t, task'[t]) /\ task'[t].pc \in {"idle", "told"} /\ Leaves(t)
    BY <2>1, ToldEffect DEF Leaves
  <2>3. timeouts' \in 0 .. MaxTimeouts /\ ends' = ends
    BY <1>1, <2>1, AccessibilityAssumption DEF TimesOut, bounds
  <2> QED  BY <1>1, <2>1, <2>2, <2>3 DEF Outcome, program
<1> QED  BY <1>2, <1>3, <1>4

LEMMA ReconnectingOutcome ==
  ASSUME TypeOK, Held, NEW t \in Task, Reconnecting(t)
  PROVE  Outcome(t)
<1>1. /\ fails \in 0 .. MaxFails /\ ends \in 0 .. MaxEnds /\ timeouts \in 0 .. MaxTimeouts
      /\ task[t] \in TaskRecord /\ up \subseteq 1 .. newest /\ 1 .. newest \subseteq Bus
  BY TypesOf, Buses
<1>2. ASSUME NEW buses \in SUBSET up, NEW otherwise \in {"sockets", "drop", "failed"},
             Chooses(t, buses, otherwise), UNCHANGED <<desktop, program>>, task[t].pc # "idle",
             \/ task[t].pc = "ask" /\ buses = First /\ otherwise = "sockets"
             \/ task[t].pc = "sockets" /\ buses = BySocket /\ otherwise \in {"drop", "failed"}
      PROVE  Outcome(t)
  <2>1. ASSUME Goes(t, otherwise) PROVE Becomes(t, task'[t]) /\ task'[t].pc = otherwise
    BY <2>1, GoesEffect DEF Step
  <2>2. ASSUME NEW b \in buses, task' = [task EXCEPT ![t].pc = "swap", ![t].bus = b]
        PROVE  Becomes(t, task'[t]) /\ task'[t].pc = "swap" /\ task'[t].bus = b /\ b \in 1 .. newest
    <3> DEFINE new == [task[t] EXCEPT !.pc = "swap", !.bus = b]
    <3>1. b \in Bus /\ b \in 1 .. newest
      BY <1>1
    <3>2. new \in TaskRecord /\ new.pc = "swap" /\ new.bus = b
      BY <1>1, <3>1 DEF TaskRecord
    <3>3. task' = [task EXCEPT ![t] = new]
      BY <2>2, TypesOf
    <3> HIDE DEF new
    <3>4. Becomes(t, new)
      BY <3>2, <3>3, ReplaceEffect
    <3> QED  BY <3>1, <3>2, <3>4 DEF Becomes
  <2>3. CASE Answered /\ \E b \in buses : task' = [task EXCEPT ![t].pc = "swap", ![t].bus = b]
    <3>1. PICK b \in buses : task' = [task EXCEPT ![t].pc = "swap", ![t].bus = b]
      BY <2>3
    <3>2. Becomes(t, task'[t]) /\ task'[t].pc = "swap" /\ task'[t].bus = b /\ b \in 1 .. newest
      BY <2>2, <3>1
    <3> QED  BY <1>1, <1>2, <2>3, <3>2 DEF Outcome, Onward, Quiet, Answered, bounds, history, program
  <2>4. CASE Answered /\ buses = {} /\ Goes(t, otherwise)
    BY <1>1, <1>2, <2>1, <2>4 DEF Outcome, Onward, Quiet, Answered, bounds, history, program
  <2>5. CASE Misled /\ Goes(t, otherwise)
    BY <1>1, <1>2, <2>1, <2>5, MisledEffect DEF Outcome, Misleads, program
  <2> QED  BY <1>2, <2>3, <2>4, <2>5 DEF Chooses
<1>3. CASE Ask(t)
  <2>1. First \in SUBSET up
    BY DEF First, ByAddress
  <2>2. Chooses(t, First, "sockets") /\ UNCHANGED <<desktop, program>> /\ task[t].pc = "ask"
    BY <1>3 DEF Ask
  <2> HIDE DEF First
  <2> QED  BY <1>2, <2>1, <2>2
<1>4. CASE TrySockets(t)
  <2>1. BySocket \in SUBSET up
    BY DEF BySocket
  <2>2. PICK otherwise \in {"drop", "failed"} :
          Chooses(t, BySocket, otherwise) /\ UNCHANGED <<desktop, program>> /\ task[t].pc = "sockets"
    BY <1>4 DEF TrySockets
  <2> QED  BY <1>2, <2>1, <2>2
<1>5. CASE Swap(t)
  <2>1. /\ task[t].pc = "swap" /\ conn' = task[t].bus /\ UNCHANGED <<desktop, cache, bounds>>
        /\ fails' \in 0 .. MaxFails
    BY <1>1, <1>5, AccessibilityAssumption DEF Swap
  <2>2. CASE task[t].looks
    <3> DEFINE new == [task[t] EXCEPT !.pc = "rescan", !.bus = NoBus]
    <3>1. new \in TaskRecord /\ new.pc = "rescan"
      BY <1>1 DEF TaskRecord
    <3>2. task' = [task EXCEPT ![t] = new] /\ UNCHANGED history
      BY <1>5, <2>2, TypesOf DEF Swap
    <3> HIDE DEF new
    <3>3. Becomes(t, new)
      BY <3>1, <3>2, ReplaceEffect
    <3>4. Becomes(t, task'[t]) /\ task'[t].pc = "rescan"
      BY <3>1, <3>3 DEF Becomes
    <3> QED  BY <1>1, <2>1, <3>2, <3>4 DEF Outcome, Onward, Quiet, bounds, history
  <2>3. CASE ~ task[t].looks
    <3>1. Becomes(t, task'[t]) /\ task'[t].pc = "idle" /\ Leaves(t)
      BY <1>5, <2>3, IdleRecord, OverEffect DEF Swap, Leaves
    <3> QED  BY <1>1, <2>1, <3>1 DEF Outcome, bounds
  <2> QED  BY <2>2, <2>3
<1>6. CASE Fail(t)
  <2>1. Becomes(t, task'[t]) /\ task'[t].pc = "idle" /\ Leaves(t)
    BY <1>6, IdleRecord, OverEffect DEF Fail, Leaves
  <2>2. task[t].pc = "failed" /\ UNCHANGED <<desktop, program, bounds>>
    BY <1>6 DEF Fail
  <2> QED  BY <1>1, <2>1, <2>2 DEF Outcome, bounds, program
<1> QED  BY <1>3, <1>4, <1>5, <1>6 DEF Reconnecting

LEMMA StepOutcome ==
  ASSUME TypeOK, Held, NEW t \in Task, Steps(t)
  PROVE  Outcome(t)
  BY ScanOutcome, FindingOutcome, ReconnectingOutcome DEF Steps, Finding

\* With WeChat on the bus in use, asking for the bus gives that one.
LEMMA CalmFirst ==
  ASSUME TypeOK, Calm
  PROVE  /\ First = {address} /\ address \in up /\ WeChatNode \in Node
         /\ \A b : Registered(b) <=> b = address
<1>1. address \in up /\ address \in Bus /\ wechat.bus = address /\ WeChatNode \in Node
  BY TypesOf, Buses DEF Calm
<1>2. Others[address] \in Nat
  BY <1>1, AccessibilityAssumption
<1>3. {address} \cap {wechat.bus} = {address} /\ Cardinality({address}) = 1
  BY <1>1, FS_Singleton
<1>4. Children(address) = Others[address] + 1
  BY <1>1, <1>3 DEF Children
<1>5. Children(address) > 0
  BY <1>2, <1>4
<1> HIDE DEF Children
<1> QED  BY <1>1, <1>5 DEF First, ByAddress, Registered

-----------------------------------------------------------------------------
(***************************************************************************)
(* Every step preserves the invariant                                      *)
(***************************************************************************)

LEMMA StepsKeep ==
  ASSUME IInv, NEW t \in Task, Steps(t), UNCHANGED <<booting, key>>
  PROVE  IInv'
<1>1. Outcome(t)
  BY StepOutcome DEF IInv
<1>2. /\ up' = up /\ address' = address /\ newest' = newest /\ wechat' = wechat /\ ends' = ends
      /\ stage' = stage /\ attempts' = attempts /\ tries' = tries /\ mounted' = mounted
      /\ missed' = missed /\ key' = key
      /\ (Calm' <=> Calm) /\ WeChatNode' = WeChatNode
  BY <1>1 DEF Outcome, desktop, booting, Calm, WeChatNode
<1>3. /\ task' \in [Task -> TaskRecord] /\ \A u \in Task \ {t} : task'[u] = task[u]
      /\ task[t].pc # "idle" /\ task[t] \in TaskRecord
  BY <1>1, TypesOf DEF Outcome, Becomes, IInv
<1>4. Held'
  BY <1>1, <1>2, <1>3 DEF Outcome, IInv, Held, Holds
<1>5. cache' \subseteq Node /\ \A m, n \in cache' : m = n
  <2>1. task[t].pc = "keep" => task[t].node \in Node
    BY DEF IInv, Held, Holds
  <2> QED  BY <1>1, <2>1, TypesOf DEF Outcome, IInv, OneCached
<1>6. OneCached'
  BY <1>2, <1>5 DEF IInv, OneCached
<1>7. conn' \in 1 .. newest
  BY <1>1, TypesOf DEF Outcome, IInv, Held, Holds
<1>8. earlier' \in SUBSET Task /\ undisturbed' \in SUBSET Looker
  <2>1. Busy \in SUBSET Task
    BY DEF Busy
  <2> QED  BY <1>1, <2>1, TypesOf DEF Outcome, IInv, Misleads, Leaves, Quiet
<1>9. TypeOK'
  <2>1. Cardinality(cache') <= 1
    BY <1>5, OneHasCardinalityOne
  <2>2. timeouts' \in 0 .. MaxTimeouts /\ fails' \in 0 .. MaxFails
    BY <1>1 DEF Outcome
  <2> QED  BY <1>2, <1>3, <1>5, <1>7, <1>8, <2>1, <2>2, TypesOf DEF TypeOK, IInv, TaskRecord
<1>10. RecentKnow'
  <2> SUFFICES ASSUME Calm, NEW u \in Task, u \notin earlier'
               PROVE  /\ task'[u].pc \notin {"sockets", "failed"}
                      /\ task'[u].pc = "swap" => task'[u].bus = address
    BY <1>2 DEF RecentKnow
  <2>1. First = {address}
    BY CalmFirst DEF IInv
  <2>2. \A v \in Task \ earlier : /\ task[v].pc \notin {"sockets", "failed"}
                                  /\ task[v].pc = "swap" => task[v].bus = address
    BY DEF IInv, RecentKnow
  <2>3. CASE Misleads
    <3>1. u # t /\ task[u].pc = "idle"
      BY <1>3, <2>3 DEF Misleads, Busy
    <3> QED  BY <1>3, <3>1
  <2>4. CASE Leaves(t) /\ task'[t].pc \in {"idle", "told"}
    BY <1>3, <2>2, <2>4 DEF Leaves
  <2>5. CASE Quiet /\ Onward(t)
    <3> HIDE DEF First
    <3>1. u \notin earlier
      BY <2>5 DEF Quiet
    <3>2. CASE u = t
      BY <2>1, <2>2, <2>5, <3>1, <3>2 DEF Onward
    <3> QED  BY <1>3, <2>2, <3>1, <3>2
  <2> QED  BY <1>1, <2>3, <2>4, <2>5 DEF Outcome
<1>11. LooksFind'
  <2> SUFFICES ASSUME NEW u \in undisturbed'
               PROVE  /\ Calm /\ earlier' = {}
                      /\ \/ task'[u].pc \in {"scan", "ask", "swap"}
                         \/ task'[u].pc \in {"rescan", "keep", "tree"} /\ conn' = address
                      /\ task'[u].pc \in {"keep", "tree"} => task'[u].node = WeChatNode
    BY <1>2 DEF LooksFind
  <2>1. ~ Misleads /\ u \in undisturbed /\ u \in Task /\ u \in Looker
    BY <1>1, TypesOf DEF Outcome, Misleads, Leaves, Quiet, IInv, Task
  <2>2. /\ Calm /\ earlier = {}
        /\ \/ task[u].pc \in {"scan", "ask", "swap"}
           \/ task[u].pc \in {"rescan", "keep", "tree"} /\ conn = address
        /\ task[u].pc \in {"keep", "tree"} => task[u].node = WeChatNode
    BY <2>1 DEF IInv, LooksFind
  <2>3. earlier' = {}
    BY <1>1, <2>1, <2>2 DEF Outcome, Leaves, Quiet
  <2>4. First = {address} /\ \A b : Registered(b) <=> b = address
    BY <2>2, CalmFirst DEF IInv
  <2>5. task[t].pc = "swap" => task[t].bus = address
    BY <2>2 DEF IInv, RecentKnow
  <2> HIDE DEF First, Registered
  <2>6. CASE u # t
    BY <1>1, <1>3, <2>1, <2>2, <2>3, <2>5, <2>6 DEF Outcome
  <2>7. CASE u = t
    <3>1. Onward(t)
      BY <1>1, <2>1, <2>7 DEF Outcome, Leaves
    <3>2. task[t].pc # "swap" => conn' = conn
      BY <1>1 DEF Outcome
    <3> QED  BY <2>2, <2>3, <2>4, <2>5, <2>7, <3>1, <3>2 DEF Onward
  <2> QED  BY <2>6, <2>7
<1> QED  BY <1>4, <1>6, <1>9, <1>10, <1>11 DEF IInv

\* The variables of Boot, whatever the tasks do.
BootTypes ==
  /\ stage \in {"login", "key", "up"} /\ attempts \in 0 .. Limit + Period - 1
  /\ tries \in 0 .. KeyTries /\ key \in BOOLEAN /\ mounted \in BOOLEAN
  /\ missed \subseteq {"login", "key", "database"}
  /\ mounted => key /\ stage = "up"

LEMMA BootTypesOf ==
  ASSUME TypeOK
  PROVE  BootTypes
  BY TypesOf DEF BootTypes

\* Who looks, the program being otherwise as it was.
LEMMA LookKeeps ==
  ASSUME IInv, NEW t \in Looker, Look(t), UNCHANGED <<booting, key>>
  PROVE  IInv'
<1>1. /\ UNCHANGED <<up, address, newest, wechat, conn, cache, fails, timeouts, ends, earlier>>
      /\ UNCHANGED <<stage, attempts, tries, key, mounted, missed>>
      /\ task[t].pc = "idle" /\ t \in Task
      /\ (Calm' <=> Calm) /\ WeChatNode' = WeChatNode
  BY DEF Look, desktop, program, bounds, booting, Calm, WeChatNode, Task
<1> DEFINE cached == CHOOSE n \in cache : TRUE
<1> DEFINE new == IF cache # {} THEN [Idle EXCEPT !.pc = "tree", !.node = cached, !.looks = TRUE]
                  ELSE [Idle EXCEPT !.pc = "scan", !.looks = TRUE]
<1>2. cache # {} => cached \in cache /\ cached \in Node
  BY TypesOf DEF IInv
<1> HIDE DEF cached
<1>3. /\ new \in TaskRecord
      /\ \/ cache # {} /\ new.pc = "tree" /\ new.node = cached
         \/ cache = {} /\ new.pc = "scan"
  BY <1>2 DEF Idle, TaskRecord, Status
<1>4. task' = [task EXCEPT ![t] = new]
  BY DEF Look, cached
<1> HIDE DEF new
<1>5. Becomes(t, new)
  BY <1>1, <1>3, <1>4, ReplaceEffect DEF IInv
<1>6. \/ undisturbed' = undisturbed
      \/ /\ undisturbed' = undisturbed \cup {t} /\ Calm /\ earlier = {}
         /\ \A n \in cache : Answers(n)
  BY DEF Look
<1>7. TypeOK'
  <2>1. undisturbed' \in SUBSET Looker
    BY <1>6, TypesOf DEF IInv
  <2> QED  BY <1>1, <1>5, <2>1 DEF IInv, TypeOK, Becomes, TaskRecord
<1>8. Held' /\ OneCached'
  BY <1>1, <1>3, <1>5 DEF IInv, Held, Holds, OneCached, Becomes
<1>9. RecentKnow'
  BY <1>1, <1>3, <1>5 DEF IInv, RecentKnow, Becomes
<1>10. LooksFind'
  <2> SUFFICES ASSUME NEW u \in undisturbed'
               PROVE  /\ Calm /\ earlier = {}
                      /\ \/ task'[u].pc \in {"scan", "ask", "swap"}
                         \/ task'[u].pc \in {"rescan", "keep", "tree"} /\ conn = address
                      /\ task'[u].pc \in {"keep", "tree"} => task'[u].node = WeChatNode
    BY <1>1 DEF LooksFind
  <2>1. CASE u # t
    <3>1. u \in undisturbed /\ u \in Task \ {t}
      BY <1>6, <2>1, TypesOf DEF IInv, Task
    <3>2. task'[u] = task[u]
      BY <1>5, <3>1 DEF Becomes
    <3> QED  BY <3>1, <3>2 DEF IInv, LooksFind
  <2>2. CASE u = t
    <3>1. t \notin undisturbed
      BY <1>1 DEF IInv, LooksFind
    <3>2. Calm /\ earlier = {} /\ \A n \in cache : Answers(n)
      BY <1>6, <2>2, <3>1
    <3>3. task'[t] = new
      BY <1>5 DEF Becomes
    <3>4. CASE cache # {}
      <4>1. cached = WeChatNode /\ cached.bus = conn
        BY <1>2, <3>2, <3>4 DEF Answers
      <4>2. conn = address
        BY <3>2, <4>1 DEF WeChatNode, Calm
      <4> QED  BY <1>3, <2>2, <3>2, <3>3, <3>4, <4>1, <4>2
    <3> QED  BY <1>3, <2>2, <3>2, <3>3, <3>4
  <2> QED  BY <2>1, <2>2
<1> QED  BY <1>7, <1>8, <1>9, <1>10 DEF IInv

LEMMA BeatKeeps ==
  ASSUME IInv, Beat, UNCHANGED <<booting, key>>
  PROVE  IInv'
<1>1. /\ UNCHANGED <<up, address, newest, wechat, conn, cache>>
      /\ UNCHANGED <<stage, attempts, tries, key, mounted, missed>>
      /\ task[Heartbeat].pc = "idle" /\ Heartbeat \in Task /\ Heartbeat \notin Looker
      /\ (Calm' <=> Calm) /\ WeChatNode' = WeChatNode
  BY AccessibilityAssumption DEF Beat, desktop, booting, Calm, WeChatNode, Task
<1>2. /\ fails' \in 0 .. MaxFails
      /\ Becomes(Heartbeat, task'[Heartbeat]) /\ task'[Heartbeat].pc \in {"idle", "ask"}
  <2>1. CASE FailedBeat
    <3>1. fails' \in 0 .. MaxFails /\ \E step \in {"ask", "idle"} : Goes(Heartbeat, step)
      BY <2>1, TypesOf, AccessibilityAssumption DEF FailedBeat, IInv
    <3> QED  BY <1>1, <3>1, GoesEffect DEF Step, IInv
  <2>2. CASE fails' = 0 /\ UNCHANGED task
    BY <1>1, <2>2, TypesOf, AccessibilityAssumption DEF IInv, Becomes
  <2> QED  BY <2>1, <2>2 DEF Beat
<1>3. \/ earlier' = earlier /\ undisturbed' = undisturbed
      \/ earlier' = Busy /\ undisturbed' = {}
  BY DEF Beat, Answered, Misled, Disturbs, history
<1>4. timeouts' \in 0 .. MaxTimeouts /\ ends' = ends
  <2>1. CASE Answered
    BY <2>1, TypesOf DEF Answered, bounds, IInv
  <2>2. CASE Misled
    BY <2>2, MisledEffect DEF IInv
  <2> QED  BY <2>1, <2>2 DEF Beat
<1>5. TypeOK'
  <2>1. earlier' \in SUBSET Task /\ undisturbed' \in SUBSET Looker
    BY <1>3, TypesOf DEF IInv, Busy
  <2> QED  BY <1>1, <1>2, <1>4, <2>1 DEF IInv, TypeOK, Becomes, TaskRecord
<1>6. Held' /\ OneCached'
  BY <1>1, <1>2, <1>4 DEF IInv, Held, Holds, OneCached, Becomes
<1>7. RecentKnow'
  BY <1>1, <1>2, <1>3 DEF IInv, RecentKnow, Becomes, Busy
<1>8. LooksFind'
  <2>1. \A u \in undisturbed' : u \in undisturbed /\ task'[u] = task[u] /\ earlier' = earlier
    BY <1>1, <1>2, <1>3, TypesOf DEF IInv, Becomes, Task
  <2> QED  BY <1>1, <2>1 DEF IInv, LooksFind
<1> QED  BY <1>5, <1>6, <1>7, <1>8 DEF IInv

\* What happens to the buses and to WeChat: nobody is taken to know of it.
LEMMA DisturbedKeep ==
  ASSUME IInv, Disturbs, UNCHANGED <<program, task>>, newest' >= newest, newest' \in Nat
  PROVE  /\ Held' /\ RecentKnow' /\ LooksFind' /\ conn' \in 1 .. newest'
         /\ earlier' \in SUBSET Task /\ undisturbed' \in SUBSET Looker
<1>1. conn' = conn /\ conn \in 1 .. newest /\ newest \in Nat /\ task' = task
  BY TypesOf, Buses DEF IInv, program
<1>2. 1 .. newest \subseteq 1 .. newest'
  BY <1>1
<1>3. Held'
  BY <1>1, <1>2 DEF IInv, Held, Holds
<1>4. earlier' = {u \in Task : task[u].pc # "idle"} /\ undisturbed' = {}
  BY DEF Disturbs, Busy
<1>5. \A u \in Task : task'[u] = task[u] /\ (u \notin earlier' => task'[u].pc = "idle")
  BY <1>1, <1>4
<1> QED  BY <1>1, <1>2, <1>3, <1>4, <1>5 DEF RecentKnow, LooksFind

LEMMA DesktopKeeps ==
  ASSUME IInv, Desktop, UNCHANGED <<booting, key>>
  PROVE  IInv'
<1>1. /\ UNCHANGED <<stage, attempts, tries, key, mounted, missed>>
      /\ UNCHANGED <<conn, cache, fails, task, timeouts>>
  BY DEF Desktop, BusStarts, BusEnds, WeChatRegisters, WeChatEnds, LogIn, LogOut, booting, program,
         bounds, Ends
<1>2. /\ newest \in Nat /\ newest >= 1 /\ up \subseteq 1 .. newest /\ newest \in Bus /\ MaxEnds \in Nat
      /\ wechat \in [bus : up \cup {NoBus}, life : 0 .. MaxEnds, login : {"never", "now", "past"}]
      /\ address \in up \cup {NoBus} /\ ends \in 0 .. MaxEnds /\ MaxBus \in Nat
      /\ wechat.life \in 0 .. MaxEnds /\ wechat.life <= ends
  BY TypesOf, Buses, AccessibilityAssumption DEF IInv, OneCached
<1>3. ASSUME up' \subseteq 1 .. newest', newest' \in Bus, newest' >= newest,
             address' \in up' \cup {NoBus},
             wechat' \in [bus : up' \cup {NoBus}, life : 0 .. MaxEnds, login : {"never", "now", "past"}],
             ends' \in 0 .. MaxEnds, wechat'.life <= ends', Disturbs
      PROVE  IInv'
  <2>1. /\ Held' /\ RecentKnow' /\ LooksFind' /\ conn' \in 1 .. newest'
        /\ earlier' \in SUBSET Task /\ undisturbed' \in SUBSET Looker
    BY <1>1, <1>3, DisturbedKeep DEF program, Bus
  <2>2. OneCached'
    BY <1>1, <1>3 DEF IInv, OneCached
  <2>3. TypeOK'
    BY <1>1, <1>3, <2>1 DEF IInv, TypeOK
  <2> QED  BY <2>1, <2>2, <2>3 DEF IInv
<1>4. ASSUME UNCHANGED <<up, address, newest, history>>, ends' \in 0 .. MaxEnds, ends' >= ends,
             NEW login \in {"never", "now", "past"}, wechat' = [wechat EXCEPT !.login = login]
      PROVE  IInv'
  <2>1. wechat'.bus = wechat.bus /\ wechat'.life = wechat.life
        /\ wechat' \in [bus : up \cup {NoBus}, life : 0 .. MaxEnds, login : {"never", "now", "past"}]
    BY <1>2, <1>4
  <2>2. earlier' = earlier /\ undisturbed' = undisturbed
    BY <1>4 DEF history
  <2>3. (Calm' <=> Calm) /\ WeChatNode' = WeChatNode
    BY <1>4, <2>1 DEF Calm, WeChatNode
  <2>4. TypeOK'
    BY <1>1, <1>4, <2>1, <2>2 DEF IInv, TypeOK
  <2>5. Held' /\ OneCached'
    BY <1>1, <1>2, <1>4, <2>1 DEF IInv, Held, Holds, OneCached
  <2>6. RecentKnow' /\ LooksFind'
    BY <1>1, <1>4, <2>2, <2>3 DEF IInv, RecentKnow, LooksFind
  <2> QED  BY <2>4, <2>5, <2>6 DEF IInv
<1>5. CASE BusStarts
  <2>1. /\ newest' = newest + 1 /\ newest < MaxBus /\ up' = up \cup {newest'} /\ address' = newest'
        /\ Disturbs /\ wechat' = wechat /\ ends' = ends
    BY <1>5 DEF BusStarts, bounds
  <2>2. newest' \in Bus /\ newest' >= newest /\ up' \subseteq 1 .. newest'
    BY <1>2, <2>1 DEF Bus
  <2>3. wechat' \in [bus : up' \cup {NoBus}, life : 0 .. MaxEnds, login : {"never", "now", "past"}]
    BY <1>2, <2>1
  <2> QED  BY <1>2, <1>3, <2>1, <2>2, <2>3
<1>6. CASE BusEnds
  <2>1. PICK b \in up :
          /\ up' = up \ {b} /\ address' = (IF address = b THEN NoBus ELSE address)
          /\ wechat' = (IF wechat.bus = b THEN [wechat EXCEPT !.bus = NoBus] ELSE wechat)
          /\ Ends /\ Disturbs /\ newest' = newest
    BY <1>6 DEF BusEnds
  <2>2. ends' \in 0 .. MaxEnds /\ ends' = ends + 1
    BY <1>2, <2>1 DEF Ends
  <2>3. /\ wechat' \in [bus : up' \cup {NoBus}, life : 0 .. MaxEnds, login : {"never", "now", "past"}]
        /\ wechat'.life = wechat.life
    <3>1. CASE wechat.bus = b
      BY <1>2, <2>1, <3>1
    <3>2. CASE wechat.bus # b
      <4>1. wechat' = wechat /\ wechat.bus \in up' \cup {NoBus}
        BY <1>2, <2>1, <3>2
      <4> QED  BY <1>2, <4>1
    <3> QED  BY <3>1, <3>2
  <2> QED  BY <1>2, <1>3, <2>1, <2>2, <2>3
<1>7. CASE WeChatRegisters
  <2>1. /\ wechat' = [wechat EXCEPT !.bus = address] /\ address # NoBus
        /\ Disturbs /\ UNCHANGED <<up, address, newest>> /\ ends' = ends
    BY <1>7 DEF WeChatRegisters, bounds
  <2>2. /\ wechat' \in [bus : up \cup {NoBus}, life : 0 .. MaxEnds, login : {"never", "now", "past"}]
        /\ wechat'.life = wechat.life
    BY <1>2, <2>1
  <2> QED  BY <1>2, <1>3, <2>1, <2>2
<1>8. CASE WeChatEnds
  <2>1. /\ wechat' = [bus |-> NoBus, life |-> wechat.life + 1,
                      login |-> IF LoggedIn THEN "past" ELSE wechat.login]
        /\ Disturbs /\ Ends /\ UNCHANGED <<up, address, newest>>
    BY <1>8 DEF WeChatEnds
  <2>2. ends' \in 0 .. MaxEnds /\ ends' = ends + 1
    BY <1>2, <2>1 DEF Ends
  <2>3. wechat.login \in {"never", "now", "past"} /\ wechat.life + 1 \in 0 .. MaxEnds
    BY <1>2, <2>2
  <2>4. /\ wechat' \in [bus : up \cup {NoBus}, life : 0 .. MaxEnds, login : {"never", "now", "past"}]
        /\ wechat'.life = wechat.life + 1
    BY <2>1, <2>3
  <2> QED  BY <1>2, <1>3, <2>1, <2>2, <2>4
<1>9. CASE LogIn
  BY <1>2, <1>4, <1>9 DEF LogIn, bounds
<1>10. CASE LogOut
  <2>1. ends' \in 0 .. MaxEnds /\ ends' >= ends
    BY <1>2, <1>10 DEF LogOut, Ends
  <2> QED  BY <1>4, <1>10, <2>1 DEF LogOut
<1> QED  BY <1>5, <1>6, <1>7, <1>8, <1>9, <1>10 DEF Desktop

\* Boot itself, which only sets its counters, or ends what its task did.
LEMMA BootingKeeps ==
  ASSUME IInv, BootTypes', UNCHANGED accessibility
  PROVE  IInv'
<1>1. UNCHANGED <<up, address, newest, wechat, conn, cache, task, fails, timeouts, ends, earlier,
                  undisturbed>>
  BY DEF accessibility
<1>2. (Calm' <=> Calm) /\ WeChatNode' = WeChatNode
  BY <1>1 DEF Calm, WeChatNode
<1>3. TypeOK'
  BY <1>1 DEF IInv, TypeOK, BootTypes
<1>4. Held' /\ OneCached'
  BY <1>1 DEF IInv, Held, Holds, OneCached
<1>5. RecentKnow' /\ LooksFind'
  BY <1>1, <1>2 DEF IInv, RecentKnow, LooksFind
<1> QED  BY <1>3, <1>4, <1>5 DEF IInv

LEMMA OverKeeps ==
  ASSUME IInv, BootTypes', NEW end \in TaskRecord, end.pc \in {"idle", "ask"}, Over(Main, end),
         UNCHANGED <<desktop, conn, fails, bounds>>, cache' \in {cache, {}}
  PROVE  IInv'
<1>1. /\ UNCHANGED <<up, address, newest, wechat, conn, fails, timeouts, ends>>
      /\ (Calm' <=> Calm) /\ WeChatNode' = WeChatNode /\ Main \in Task
  BY DEF desktop, bounds, Calm, WeChatNode, Task, Looker
<1>2. /\ Becomes(Main, end)
      /\ earlier' = earlier \ {Main} /\ undisturbed' = undisturbed \ {Main}
  BY <1>1, OverEffect DEF IInv
<1>3. TypeOK'
  <2>1. /\ earlier' \in SUBSET Task /\ undisturbed' \in SUBSET Looker
        /\ cache' \subseteq Node /\ \A m, n \in cache' : m = n
    BY <1>2, TypesOf DEF IInv, OneCached
  <2>2. Cardinality(cache') <= 1
    BY <2>1, OneHasCardinalityOne
  <2> QED  BY <1>1, <1>2, <2>1, <2>2 DEF IInv, TypeOK, BootTypes, Becomes, TaskRecord
<1>4. Held' /\ OneCached'
  BY <1>1, <1>2 DEF IInv, Held, Holds, OneCached, Becomes
<1>5. RecentKnow'
  BY <1>1, <1>2 DEF IInv, RecentKnow, Becomes
<1>6. LooksFind'
  <2>1. \A u \in undisturbed' : /\ u \in undisturbed /\ task'[u] = task[u]
                                /\ earlier = {} => earlier' = {}
    BY <1>2, TypesOf DEF IInv, Becomes, Task
  <2> QED  BY <1>1, <2>1 DEF IInv, LooksFind
<1> QED  BY <1>3, <1>4, <1>5, <1>6 DEF IInv

LEMMA ExpireKeeps ==
  ASSUME IInv, CacheExpires
  PROVE  IInv'
<1>1. /\ UNCHANGED <<up, address, newest, wechat, conn, task, fails, timeouts, ends, earlier, undisturbed>>
      /\ UNCHANGED <<stage, attempts, tries, key, mounted, missed>> /\ cache' = {}
      /\ (Calm' <=> Calm) /\ WeChatNode' = WeChatNode
  BY DEF CacheExpires, Expire, desktop, bounds, history, booting, Calm, WeChatNode
<1>2. TypeOK'
  <2>1. Cardinality(cache') <= 1
    BY <1>1, OneHasCardinalityOne
  <2> QED  BY <1>1, <2>1 DEF IInv, TypeOK
<1>3. Held' /\ OneCached'
  BY <1>1 DEF IInv, Held, Holds, OneCached
<1>4. RecentKnow' /\ LooksFind'
  BY <1>1 DEF IInv, RecentKnow, LooksFind
<1> QED  BY <1>2, <1>3, <1>4 DEF IInv

\* A program that starts knows of no look, and is connected to a bus that lives.
LEMMA FreshStart ==
  ASSUME task = [t \in Task |-> Idle], cache = {}, earlier = {}, undisturbed = {}, fails = 0,
         stage = "login", attempts = 0, tries = 0, mounted = FALSE, missed = {}, key \in BOOLEAN,
         up \subseteq 1 .. newest, newest \in Bus, address \in up \cup {NoBus}, conn \in 1 .. newest,
         wechat \in [bus : up \cup {NoBus}, life : 0 .. MaxEnds, login : {"never", "now", "past"}],
         timeouts \in 0 .. MaxTimeouts, ends \in 0 .. MaxEnds, wechat.life <= ends
  PROVE  IInv
<1>1. \A t \in Task : task[t] = Idle /\ task[t].pc = "idle"
  BY IdleRecord
<1>2. task \in [Task -> TaskRecord]
  BY IdleRecord
<1>3. Cardinality(cache) <= 1 /\ \A m, n \in cache : m = n
  BY OneHasCardinalityOne
<1>4. fails \in 0 .. MaxFails /\ attempts \in 0 .. Limit + Period - 1 /\ tries \in 0 .. KeyTries
  BY AccessibilityAssumption, BootAssumption
<1>5. TypeOK
  BY <1>2, <1>3, <1>4 DEF TypeOK, TaskRecord
<1>6. Held /\ RecentKnow
  BY <1>1 DEF Held, Holds, RecentKnow
<1>7. OneCached /\ LooksFind
  BY <1>3 DEF OneCached, LooksFind
<1> QED  BY <1>5, <1>6, <1>7 DEF IInv

LEMMA InitIInv ==
  ASSUME Init
  PROVE  IInv
<1>1. /\ up = {1} /\ address = 1 /\ newest = 1 /\ conn = 1
      /\ wechat \in [bus : {NoBus, 1}, life : {0}, login : {"never"}]
  BY DEF Init, InitAccessibility, ConnectsTo, NoBus
<1>2. /\ up \subseteq 1 .. newest /\ newest \in Bus /\ address \in up \cup {NoBus}
      /\ conn \in 1 .. newest
  BY <1>1, AccessibilityAssumption DEF Bus
<1>3. /\ wechat \in [bus : up \cup {NoBus}, life : 0 .. MaxEnds, login : {"never", "now", "past"}]
      /\ wechat.life = 0
  BY <1>1, AccessibilityAssumption
<1>4. timeouts \in 0 .. MaxTimeouts /\ ends \in 0 .. MaxEnds /\ wechat.life <= ends
  BY <1>3, AccessibilityAssumption DEF Init, InitAccessibility
<1> QED  BY <1>2, <1>3, <1>4, FreshStart DEF Init, InitAccessibility, InitBoot

LEMMA RestartKeeps ==
  ASSUME IInv, Restart
  PROVE  IInv'
<1>1. /\ UNCHANGED <<up, address, newest, wechat, key, timeouts>> /\ ends' = ends + 1 /\ ends < MaxEnds
  BY DEF Restart, Ends, desktop
<1>2. /\ up \subseteq 1 .. newest /\ newest \in Bus /\ address \in up \cup {NoBus} /\ key \in BOOLEAN
      /\ wechat \in [bus : up \cup {NoBus}, life : 0 .. MaxEnds, login : {"never", "now", "past"}]
      /\ timeouts \in 0 .. MaxTimeouts /\ ends \in 0 .. MaxEnds /\ wechat.life <= ends
      /\ wechat.life \in Nat /\ ConnectsTo \subseteq 1 .. newest /\ MaxEnds \in Nat
  BY TypesOf, Buses, AccessibilityAssumption DEF IInv, OneCached
<1>3. ends' \in 0 .. MaxEnds /\ wechat'.life <= ends'
  BY <1>1, <1>2
<1>4. conn' \in 1 .. newest'
  BY <1>1, <1>2 DEF Restart
<1>5. TypeOK' /\ Held' /\ OneCached' /\ RecentKnow' /\ LooksFind'
  <2>1. \A t \in Task : task'[t] = Idle /\ task'[t].pc = "idle"
    BY IdleRecord DEF Restart
  <2>2. task' \in [Task -> TaskRecord]
    BY IdleRecord DEF Restart
  <2>3. Cardinality(cache') <= 1 /\ \A m, n \in cache' : m = n
    BY OneHasCardinalityOne DEF Restart
  <2>4. fails' \in 0 .. MaxFails /\ attempts' \in 0 .. Limit + Period - 1 /\ tries' \in 0 .. KeyTries
    BY AccessibilityAssumption, BootAssumption DEF Restart
  <2>5. TypeOK'
    BY <1>1, <1>2, <1>3, <1>4, <2>2, <2>3, <2>4 DEF TypeOK, TaskRecord, Restart
  <2>6. Held' /\ RecentKnow'
    BY <2>1 DEF Held, Holds, RecentKnow
  <2>7. OneCached' /\ LooksFind'
    BY <1>3, <2>3 DEF OneCached, LooksFind, Restart
  <2> QED  BY <2>5, <2>6, <2>7
<1> QED  BY <1>5 DEF IInv

LEMMA BootKeeps ==
  ASSUME IInv, \/ FoundLoggedIn \/ FoundNotRunning \/ FoundWaiting
               \/ KeyAppears \/ KeyWait \/ Mount
  PROVE  IInv'
<1>1. BootTypes /\ Limit \in Nat /\ Period \in Nat \ {0} /\ KeyTries \in Nat
  BY BootTypesOf, BootAssumption DEF IInv
<1>2. /\ Idle \in TaskRecord /\ Idle.pc = "idle"
      /\ [Idle EXCEPT !.pc = "ask"] \in TaskRecord /\ [Idle EXCEPT !.pc = "ask"].pc = "ask"
  BY IdleRecord
<1>3. ASSUME NEW reconnects \in BOOLEAN, Again(reconnects) PROVE IInv'
  <2>1. attempts' \in 0 .. Limit + Period - 1
    BY <1>1, <1>3 DEF Again, Counted, BootTypes
  <2>2. BootTypes'
    BY <1>1, <1>3, <2>1 DEF Again, BootTypes
  <2>3. CASE reconnects
    BY <1>2, <1>3, <2>2, <2>3, OverKeeps DEF Again, TryReconnect
  <2>4. CASE ~ reconnects
    BY <1>2, <1>3, <2>2, <2>4, OverKeeps DEF Again, program
  <2> QED  BY <2>3, <2>4
<1>4. ASSUME NEW without \in SUBSET {"login"}, GoesOn(without), stage = "login" PROVE IInv'
  <2>1. BootTypes'
    BY <1>1, <1>4 DEF GoesOn, BootTypes
  <2> QED  BY <1>2, <1>4, <2>1, OverKeeps DEF GoesOn, program
<1>5. CASE FoundLoggedIn
  <2>1. {} \in SUBSET {"login"}
    OBVIOUS
  <2> QED  BY <1>4, <1>5, <2>1 DEF FoundLoggedIn, Hears
<1>6. CASE FoundNotRunning
  <2>1. {"login"} \in SUBSET {"login"}
    OBVIOUS
  <2>2. \A r \in {attempts % Period = Period - 1} : r \in BOOLEAN
    OBVIOUS
  <2> QED  BY <1>3, <1>4, <1>6, <2>1, <2>2 DEF FoundNotRunning, Hears
<1>7. CASE FoundWaiting
  BY <1>3, <1>7 DEF FoundWaiting
<1>8. CASE KeyAppears
  BY <1>1, <1>8, BootingKeeps DEF KeyAppears, booting, BootTypes
<1>9. CASE KeyWait
  BY <1>1, <1>9, BootingKeeps DEF KeyWait, BootTypes
<1>10. CASE Mount
  <2>1. BootTypes'
    <3>1. /\ stage' = "up" /\ tries' = 0 /\ attempts' = attempts /\ key' = key
          /\ mounted' \in BOOLEAN /\ (mounted' => key)
      BY <1>10 DEF Mount
    <3>2. missed' \subseteq missed \cup {"database", "key"}
      BY <1>10 DEF Mount, Misses
    <3> QED  BY <1>1, <3>1, <3>2 DEF BootTypes
  <2> QED  BY <1>10, <2>1, BootingKeeps DEF Mount
<1> QED  BY <1>5, <1>6, <1>7, <1>8, <1>9, <1>10

LEMMA NextKeeps ==
  ASSUME IInv, [Next]_vars
  PROVE  IInv'
<1>1. Main \in Looker /\ Main \in Task /\ Heartbeat \in Task /\ Caller \subseteq Looker
      /\ Caller \subseteq Task
  BY DEF Looker, Task
<1>2. CASE BootStep
  <2>1. CASE CheckStatus
    BY <1>1, <2>1, LookKeeps DEF CheckStatus
  <2>2. CASE Steps(Main) /\ UNCHANGED <<booting, key>>
    BY <1>1, <2>2, StepsKeep
  <2> QED  BY <1>2, <2>1, <2>2, BootKeeps DEF BootStep
<1>3. CASE HeartbeatStep
  BY <1>1, <1>3, BeatKeeps, StepsKeep DEF HeartbeatStep
<1>4. CASE CacheExpires
  BY <1>4, ExpireKeeps
<1>5. CASE KeyAppears
  BY <1>5, BootKeeps
<1>6. CASE Restart
  BY <1>6, RestartKeeps
<1>7. ASSUME NEW t \in Caller, CallerStep(t) \/ CallerLooks(t) PROVE IInv'
  BY <1>1, <1>7, StepsKeep, LookKeeps DEF CallerStep, CallerLooks
<1>8. CASE Desktop /\ UNCHANGED <<booting, key>>
  BY <1>8, DesktopKeeps
<1>9. CASE UNCHANGED vars
  BY <1>9, BootTypesOf, BootingKeeps DEF vars, booting, IInv, BootTypes
<1> QED  BY <1>2, <1>3, <1>4, <1>5, <1>6, <1>7, <1>8, <1>9 DEF Next

-----------------------------------------------------------------------------
(***************************************************************************)
(* Theorems                                                                *)
(***************************************************************************)

\* The program starts in the invariant and keeps it, with any number of buses,
\* of applications on them, and of callers of the API.
THEOREM InductiveInvariant ==
  Spec => []IInv
<1>1. Init => IInv
  BY InitIInv
<1>2. IInv /\ [Next]_vars => IInv'
  BY NextKeeps
<1> QED  BY <1>1, <1>2, PTL DEF Spec

\* The connection is to a bus that was started, at most one node is cached, the
\* counters of boot stay in their loops, and a database is mounted only with its
\* key and after the loops.
THEOREM TypeCorrect ==
  Spec => []TypeOK
<1>1. IInv => TypeOK
  BY DEF IInv
<1> QED  BY <1>1, InductiveInvariant, PTL

\* Whoever begins to look in calm, with nobody under way from before, finds
\* WeChat: find_app neither drops its node nor returns one that does not answer,
\* whatever bus the program is connected to and whoever else swaps the
\* connection between two of its D-Bus calls.
THEOREM CalmLooksFind ==
  Spec => []CalmLookFinds
<1>1. IInv => CalmLookFinds
  <2> SUFFICES ASSUME IInv, NEW t \in undisturbed
               PROVE  /\ task[t].pc # "drop"
                      /\ task[t].pc = "tree" => Answers(task[t].node)
    BY DEF CalmLookFinds
  <2>1. /\ Calm
        /\ \/ task[t].pc \in {"scan", "ask", "swap"}
           \/ task[t].pc \in {"rescan", "keep", "tree"} /\ conn = address
        /\ task[t].pc \in {"keep", "tree"} => task[t].node = WeChatNode
    BY DEF IInv, LooksFind
  <2>2. address \in up
    BY <2>1, CalmFirst DEF IInv
  <2> QED  BY <2>1, <2>2 DEF Answers, WeChatNode, Calm
<1> QED  BY <1>1, InductiveInvariant, PTL

=============================================================================
