-------------------------------- MODULE Boot --------------------------------
(***************************************************************************)
(* From the start of the program to its database: main.rs waits until      *)
(* WeChat is logged in, then for the key file, and mounts the database for *)
(* the API that has been answering all the while.  Accessibility has how   *)
(* it finds WeChat; Ingest has what it does with the database.             *)
(*                                                                         *)
(* One counter counts the looks that did not find WeChat and those that    *)
(* found it waiting for a login.  It is bounded here by its use: whether   *)
(* it has come to Limit, and when to reconnect.                            *)
(***************************************************************************)
EXTENDS Accessibility

CONSTANTS
  Limit,       \* looks without WeChat before boot goes on without it (30)
  Period,      \* every so many looks boot reconnects (5)
  KeyTries     \* looks for the key file (60, two seconds each)

ASSUME BootAssumption ==
  /\ Period \in Nat \ {0} /\ Limit \in Nat /\ Limit % Period = 0
  /\ KeyTries \in Nat

VARIABLES
  stage,       \* where boot is
  attempts,    \* looks at WeChat so far
  tries,       \* looks for the key file so far
  key,         \* the key file exists; it outlives the program
  mounted,     \* db_slot holds a database
  missed       \* history: what boot went on without: "login", "key", "database"

booting == <<stage, attempts, tries, mounted, missed>>
vars == <<accessibility, booting, key>>

-----------------------------------------------------------------------------
InitBoot ==
  /\ stage = "login" /\ attempts = 0 /\ tries = 0 /\ mounted = FALSE /\ missed = {}

Init ==
  /\ InitAccessibility /\ InitBoot
  /\ key \in BOOLEAN

\* The program ends, or /restart ends it, and is started anew.
Restart ==
  /\ Ends
  /\ conn' \in ConnectsTo /\ cache' = {} /\ task' = [t \in Task |-> Idle] /\ fails' = 0
  /\ earlier' = {} /\ undisturbed' = {}
  /\ stage' = "login" /\ attempts' = 0 /\ tries' = 0 /\ mounted' = FALSE /\ missed' = {}
  /\ UNCHANGED <<desktop, key>>

\* The extractor may find the key, some time after somebody logged in.
KeyAppears == wechat.login # "never" /\ ~ key /\ key' = TRUE /\ UNCHANGED <<accessibility, booting>>

(***************************************************************************)
(* Waiting for the login                                                   *)
(***************************************************************************)

CheckStatus == stage = "login" /\ Look(Main) /\ UNCHANGED <<booting, key>>

\* attempts + 1, up to what tells whether Limit is reached and when Period is.
Counted == IF attempts + 1 = Limit + Period THEN Limit ELSE attempts + 1

Again(reconnects) ==
  /\ attempts' = Counted
  /\ IF reconnects THEN TryReconnect(Main)
     ELSE Over(Main, Idle) /\ UNCHANGED <<desktop, program, bounds>>
  /\ UNCHANGED <<stage, tries, mounted, missed, key>>

\* The counters are done with once their loop is.
GoesOn(without) ==
  /\ stage' = "key" /\ missed' = without /\ attempts' = 0
  /\ Over(Main, Idle) /\ UNCHANGED <<desktop, program, bounds, tries, mounted, key>>

Hears(status) == stage = "login" /\ task[Main].pc = "told" /\ task[Main].status = status

FoundLoggedIn == Hears("LoggedIn") /\ GoesOn({})
FoundNotRunning ==
  /\ Hears("NotRunning")
  /\ IF attempts < Limit THEN Again(attempts % Period = Period - 1) ELSE GoesOn({"login"})
FoundWaiting == Hears("WaitingForLogin") /\ Again(Counted % Period = Period - 1)

(***************************************************************************)
(* Waiting for the key                                                     *)
(***************************************************************************)

KeyWaitUncounted ==                       \* mutant: without an end
  /\ stage = "key" /\ ~ key /\ tries < KeyTries
  /\ UNCHANGED <<accessibility, booting, key>>
KeyWait ==
  /\ stage = "key" /\ ~ key /\ tries < KeyTries
  /\ tries' = tries + 1
  /\ UNCHANGED <<accessibility, stage, attempts, mounted, missed, key>>

Misses(what) == missed' = missed \cup {what}

MountAnyway ==                            \* mutant: with or without a key
  /\ stage = "key" /\ (key \/ tries = KeyTries)
  /\ stage' = "up" /\ tries' = 0 /\ mounted' = TRUE
  /\ UNCHANGED <<accessibility, attempts, missed, key>>
\* With the key boot looks for the databases and opens them, or cannot: they are
\* not where it looks, or the key is not one.  Either way it looks only once.
Mount ==
  /\ stage = "key" /\ (key \/ tries = KeyTries)
  /\ stage' = "up" /\ tries' = 0
  /\ \/ key /\ mounted' = TRUE /\ UNCHANGED missed
     \/ key /\ mounted' = FALSE /\ Misses("database")
     \/ ~ key /\ mounted' = FALSE /\ Misses("key")
  /\ UNCHANGED <<accessibility, attempts, key>>

-----------------------------------------------------------------------------
BootStep ==
  \/ CheckStatus \/ FoundLoggedIn \/ FoundNotRunning \/ FoundWaiting \/ KeyWait \/ Mount
  \/ (Steps(Main) /\ UNCHANGED <<booting, key>>)

\* The heartbeat begins once boot is over.
HeartbeatStep ==
  /\ (stage = "up" /\ Beat) \/ Steps(Heartbeat)
  /\ UNCHANGED <<booting, key>>

CallerStep(t) == Steps(t) /\ UNCHANGED <<booting, key>>
CallerLooks(t) == Look(t) /\ UNCHANGED <<booting, key>>
CacheExpires == Expire /\ UNCHANGED <<booting, key>>

Next ==
  \/ BootStep \/ HeartbeatStep \/ CacheExpires \/ KeyAppears \/ Restart
  \/ \E t \in Caller : CallerStep(t) \/ CallerLooks(t)
  \/ (Desktop /\ UNCHANGED <<booting, key>>)

Spec == Init /\ [][Next]_vars

\* Tasks run on, and the cached node grows old.  Nobody has to start WeChat, log in
\* or call the API, and the extractor need not come by the key.
FairSpec ==
  /\ Spec /\ WF_vars(BootStep) /\ WF_vars(HeartbeatStep) /\ WF_vars(CacheExpires)
  /\ \A t \in Caller : WF_vars(CallerStep(t))

-----------------------------------------------------------------------------
(***************************************************************************)
(* Properties                                                              *)
(***************************************************************************)

TypeOK ==
  /\ up \subseteq 1 .. newest /\ newest \in Bus /\ address \in up \cup {NoBus}
  /\ wechat \in [bus : up \cup {NoBus}, life : 0 .. MaxEnds, login : {"never", "now", "past"}]
  /\ conn \in 1 .. newest
  /\ cache \subseteq Node /\ Cardinality(cache) <= 1
  /\ task \in [Task -> [pc : {"idle", "scan", "rescan", "keep", "drop", "tree", "told", "ask",
                              "sockets", "swap", "failed"},
                        node : Node \cup {NoNode}, bus : Bus \cup {NoBus},
                        looks : BOOLEAN, status : Status]]
  /\ fails \in 0 .. MaxFails
  /\ timeouts \in 0 .. MaxTimeouts /\ ends \in 0 .. MaxEnds
  /\ earlier \in SUBSET Task /\ undisturbed \in SUBSET Looker
  /\ stage \in {"login", "key", "up"} /\ attempts \in 0 .. Limit + Period - 1
  /\ tries \in 0 .. KeyTries /\ {key, mounted} \subseteq BOOLEAN
  /\ missed \subseteq {"login", "key", "database"}
  /\ mounted => key /\ stage = "up"

\* Whoever begins to look for WeChat while it is registered on the bus in use,
\* with no outdated node cached and nobody under way from before, finds it:
\* whatever bus the program is connected to, and whoever else reconnects.
CalmLookFinds ==
  \A t \in undisturbed : /\ task[t].pc # "drop"
                         /\ task[t].pc = "tree" => Answers(task[t].node)

\* Once a bus with an application on it stays the only one, the program comes
\* to be connected to it for good, also if nobody calls.
ConnectionRecovers ==
  <>[](up = {address} /\ Children(address) > 0) => <>[](conn = address)

\* Where somebody is logged in, with WeChat where it can be found, boot does not
\* wait for ever: it comes to the database, or to what it goes on without - a login
\* it had not seen in time, a key that did not come in the two minutes it waits for
\* one, a database that does not open with it.
LoginIsSeen ==
  <>[](Calm /\ LoggedIn) => <>[](stage = "up" /\ (mounted \/ missed # {}))

\* README.md: the initialisation of the database goes on with the login, also
\* for a WeChat that runs from the start and waits for somebody to log in: where
\* the key is found, unless boot had waited in vain for it after a login it saw, or
\* the database did not open.
DatabaseFollowsLogin ==
  [](wechat.bus # NoBus) /\ <>[]LoggedIn /\ <>key =>
    <>(mounted \/ "database" \in missed \/ missed = {"key"})

=============================================================================
