----------------------------- MODULE ChatRouter -----------------------------
(***************************************************************************)
(* How a message finds its chat: the InputEngine actor of src/src/api.rs   *)
(* drives WeChat's windows through src/src/wechat.rs and                   *)
(* src/src/chatwnd.rs.  There is one keyboard focus and one clipboard:     *)
(* what is pasted goes to whichever window has the focus when it is        *)
(* pasted, in the main window to whichever chat is open there.             *)
(*                                                                         *)
(* The program keeps three things about the screen: current_chat, the chat *)
(* it believes open in the main window; listen_targets, the chats that     *)
(* shall have a window of their own; listen_windows, the window it         *)
(* registered for each.  The screen itself is open_chat, windows, focus,   *)
(* and may change under the program: a window of its own can be closed at  *)
(* any time, and WeChat may do what a click or a search asked late, or     *)
(* never.                                                                  *)
(*                                                                         *)
(* Commands are executed one at a time, in steps that may each fail; the   *)
(* waiting between them (polling the accessibility tree) is left out, its  *)
(* outcomes are not: no wait tells whose message list or search results it *)
(* saw, and the program goes on when it has seen none.  Typing @-mentions  *)
(* goes wherever the text goes.                                            *)
(***************************************************************************)
EXTENDS Integers

CONSTANTS
  Name,       \* what callers ask for
  Contact,    \* the names WeChat knows
  RoomId,     \* the names that are chatroom ids
  Contains,   \* <<title, who>>: the title of a chat contains the name asked for
  NoName,     \* no chat, no window, no record
  Gone,       \* a registered window that no longer exists
  Main,       \* the main window
  MaxRetries, \* attempts at popping a window out (3 in add_listen)
  MaxError    \* bound: failures of the X11 input engine, and clicks and searches
              \* WeChat does not follow in time

ASSUME ChatRouterAssumption ==
  /\ Contact \subseteq Name /\ RoomId \subseteq Name
  /\ Contains \subseteq Name \X Name
  /\ \A n \in Name : <<n, n>> \in Contains
  /\ NoName \notin Name /\ Gone \notin Name /\ Main \notin Name
  /\ NoName # Gone /\ Gone # Main /\ NoName # Main
  /\ MaxRetries \in Nat /\ MaxError \in Nat

VARIABLES
  open_chat,      \* the chat open in the main window
  windows,        \* chats that have a window of their own on the screen
  focus,          \* the window with the keyboard focus
  current_chat,   \* Mutex<Option<String>>
  listen_targets, \* Mutex<HashSet<String>>
  listen_windows, \* Mutex<HashMap<String, ChatWnd>>: the window registered
  pc, cmd,        \* the step of the actor, and the command it executes
  tries,          \* attempts of add_listen
  last,           \* history: what the command typed (nothing: {}) and where it went
  disturbed,      \* history: during this command a window was closed or popped out
                  \* late, or a step failed or was not followed in time
  misled,         \* history: so it was, or something came late, since the program
                  \* last brought a chat to the main window
  late,           \* what WeChat is still to do: open a chat, or pop it out
  errors          \* failures so far

screen == <<open_chat, windows, focus>>
records == <<current_chat, listen_targets, listen_windows>>
vars == <<open_chat, windows, focus, current_chat, listen_targets, listen_windows,
          pc, cmd, tries, last, disturbed, misled, late, errors>>
history == <<disturbed, misled, late>>

Kind == {"text", "image", "file", "open", "listen", "unlisten"}
Command == [kind : Kind, to : Name]
Delivery == [kind : {"text", "image", "file"}, to : Name, dest : Name \cup {NoName},
             window : Name \cup {Main}, clean : BOOLEAN, sure : BOOLEAN]
Effect == [chat : Contact, pops : BOOLEAN]

to == cmd.to
Alive(who) == listen_windows[who] \in windows
Titled(who) == {w \in windows : <<w, who>> \in Contains}

\* Where the keys go.
Destination(window) == IF window = Main THEN open_chat ELSE window

\* find_session over the visible part of the session list: the exact name,
\* else an entry that contains it.
Sessions(visible, who) ==
  IF who \in visible THEN {who} ELSE {c \in visible : <<c, who>> \in Contains}

Mishap == errors < MaxError /\ errors' = errors + 1

\* A step that failed or was not followed; what it asked for may yet come.
Misled(effects) ==
  /\ Mishap /\ disturbed' = TRUE /\ misled' = TRUE
  /\ late' \in {late} \cup {late \cup {e} : e \in effects}
Opens(chats) == [chat : chats, pops : {FALSE}]
PopsOut(chats) == [chat : chats, pops : {TRUE}]

-----------------------------------------------------------------------------
Init ==
  /\ open_chat = NoName /\ windows = {} /\ focus = Main
  /\ current_chat = NoName /\ listen_targets = {}
  /\ listen_windows = [n \in Name |-> NoName]
  /\ pc = "idle" /\ cmd \in {[kind |-> "open", to |-> n] : n \in Name}
  /\ tries = 0 /\ last = {} /\ disturbed = FALSE /\ misled = FALSE /\ late = {} /\ errors = 0

(***************************************************************************)
(* The screen on its own                                                   *)
(***************************************************************************)

\* A window is closed by hand or by WeChat; the focus goes to another one.
CloseWindow(w) ==
  /\ w \in windows /\ windows' = windows \ {w}
  /\ IF focus = w THEN focus' \in (windows \ {w}) \cup {Main} ELSE UNCHANGED focus
  /\ listen_windows' = [n \in Name |-> IF listen_windows[n] = w THEN Gone ELSE listen_windows[n]]
  /\ disturbed' = (pc # "idle")
  /\ UNCHANGED <<open_chat, current_chat, listen_targets, pc, cmd, tries, last, misled, late, errors>>

\* WeChat does, after all, what the program no longer waits for.
Late(e) ==
  /\ e \in late /\ late' = late \ {e}
  /\ IF e.pops THEN /\ windows' = windows \cup {e.chat} /\ focus' = e.chat
                    /\ open_chat' \in {open_chat, e.chat, NoName}
               ELSE open_chat' = e.chat /\ UNCHANGED <<windows, focus>>
  /\ misled' = TRUE /\ disturbed' = (pc # "idle")
  /\ UNCHANGED <<records, pc, cmd, tries, last, errors>>

(***************************************************************************)
(* The actor: one command after the other                                  *)
(***************************************************************************)

Receive(c) ==
  /\ pc = "idle"
  /\ cmd' = c /\ tries' = 0 /\ last' = {} /\ disturbed' = FALSE
  /\ pc' = IF c.kind \in {"text", "image"} THEN "check"
           ELSE IF c.kind \in {"file", "open"} THEN "switch" ELSE c.kind
  /\ UNCHANGED <<screen, records, misled, late, errors>>

\* check_listen_window on a registered window that is gone.
ForgetDeadWindow ==
  IF listen_windows[to] = Gone
  THEN /\ listen_windows' = [listen_windows EXCEPT ![to] = NoName]
       /\ current_chat' = NoName
  ELSE UNCHANGED <<listen_windows, current_chat>>

\* The actor, before it sends: a listen target without a window gets it back.
RecoverAlways ==                          \* mutant: pop out a window for everyone
  /\ pc = "check"
  /\ ForgetDeadWindow
  /\ pc' = IF Alive(to) THEN "route" ELSE "pop"
  /\ UNCHANGED <<screen, listen_targets, cmd, tries, last, history, errors>>
Recover ==
  /\ pc = "check"
  /\ ForgetDeadWindow
  /\ pc' = IF ~ Alive(to) /\ to \in listen_targets THEN "listen" ELSE "route"
  /\ UNCHANGED <<screen, listen_targets, cmd, tries, last, history, errors>>

\* prepare_main_send with force_switch forgets the cached chat; images do.
NeverForced(kind) == FALSE                \* mutant: images use the cached chat too
Forced(kind) == kind = "image"

\* send_message, send_image: the chat's own window if it lives, else the main one.
Route ==
  /\ pc = "route"
  /\ pc' = IF Alive(to) THEN "activate" ELSE "switch"
  /\ listen_windows' = IF listen_windows[to] = Gone
                       THEN [listen_windows EXCEPT ![to] = NoName] ELSE listen_windows
  /\ current_chat' = IF ~ Alive(to) /\ (Forced(cmd.kind) \/ listen_windows[to] = Gone)
                     THEN NoName ELSE current_chat
  /\ UNCHANGED <<screen, listen_targets, cmd, tries, last, history, errors>>

\* activate_and_focus_input: raise a window whose title contains the name, then
\* click into the edit box of the registered one.  If both are gone by now the
\* focus stays where it is, as it does when that fails, noticed or not.
Activate ==
  /\ pc = "activate"
  /\ \/ /\ pc' = "type"
        /\ focus' \in IF Alive(to) THEN {listen_windows[to]} \cup Titled(to)
                      ELSE IF Titled(to) # {} THEN Titled(to) ELSE {focus}
        /\ UNCHANGED <<disturbed, errors>>
     \/ pc' \in {"type", "idle"} /\ Mishap /\ disturbed' = TRUE /\ UNCHANGED focus
  /\ UNCHANGED <<open_chat, windows, records, cmd, tries, last, misled, late>>

(***************************************************************************)
(* chat_with                                                               *)
(***************************************************************************)

\* Where the command goes on once chat_with is done.
AfterSwitch(found) ==
  pc' = IF pc = "popswitch" THEN "double"
        ELSE IF cmd.kind = "open" \/ ~ found THEN "idle"
        ELSE IF cmd.kind = "file" THEN "file" ELSE "type"

\* The fast path: nothing is touched when the chat is believed open.
AlreadyOpen ==
  /\ pc \in {"switch", "popswitch"} /\ current_chat = to
  /\ AfterSwitch(TRUE)
  /\ UNCHANGED <<screen, records, cmd, tries, last, history, errors>>

\* WeChat follows a click or a search in time; or it does not, and perhaps the main
\* window did not even get the focus, which focus_main_window only logs.
Followed == focus' = Main /\ misled' = FALSE /\ UNCHANGED <<disturbed, late, errors>>
Missed(chats) ==
  Misled(Opens(chats)) /\ focus' \in {focus, Main} /\ UNCHANGED open_chat

ClickSessionForgets ==                    \* mutant: the click is not recorded
  /\ pc \in {"switch", "popswitch"} /\ current_chat # to
  /\ \E visible \in SUBSET Contact : \E item \in Sessions(visible, to) :
       (open_chat' = item /\ Followed) \/ Missed({item})
  /\ AfterSwitch(TRUE)
  /\ UNCHANGED <<windows, records, cmd, tries, last>>
\* A click on an entry of the session list, recorded whatever came of it.
ClickSession ==
  /\ pc \in {"switch", "popswitch"} /\ current_chat # to
  /\ \E visible \in SUBSET Contact : \E item \in Sessions(visible, to) :
       (open_chat' = item /\ Followed) \/ Missed({item})
  /\ current_chat' = to
  /\ AfterSwitch(TRUE)
  /\ UNCHANGED <<windows, listen_targets, listen_windows, cmd, tries, last>>

\* What Enter opens, the first result of the search: the chat, if WeChat knows
\* the name, else any chat or none.
FirstResult == IF to \in Contact THEN {to} ELSE Contact \cup {open_chat}

\* Ctrl+F, the name, Enter, Escape.  chat_with then looks for a message list, of
\* any chat, the old one or one in a window of its own; a chatroom id is not
\* recorded.
Search ==
  /\ pc \in {"switch", "popswitch"} /\ current_chat # to
  /\ (open_chat' \in FirstResult /\ Followed) \/ Missed(FirstResult \cap Contact)
  /\ \E found \in IF open_chat' = NoName /\ windows = {} THEN {FALSE} ELSE BOOLEAN :
       /\ current_chat' = IF ~ found THEN NoName
                          ELSE IF to \in RoomId THEN current_chat ELSE to
       /\ AfterSwitch(found)
  /\ UNCHANGED <<windows, listen_targets, listen_windows, cmd, tries, last>>

\* An engine error, or no WeChat to be found, before or after the chat changed;
\* current_chat is not told.
SwitchFails ==
  /\ pc \in {"switch", "popswitch"} /\ current_chat # to
  /\ LET asked == Sessions(Contact, to) \cup FirstResult
     IN  open_chat' \in {open_chat} \cup asked /\ Misled(Opens(asked \cap Contact))
  /\ focus' \in {focus, Main}
  /\ pc' = IF pc = "popswitch" THEN "pop" ELSE "idle"
  /\ UNCHANGED <<windows, records, cmd, tries, last>>

(***************************************************************************)
(* Typing                                                                  *)
(***************************************************************************)
Deliver(window) ==
  last' = {[kind |-> cmd.kind, to |-> to, dest |-> Destination(window),
            window |-> window, clean |-> ~ disturbed, sure |-> ~ misled]}

\* Paste and Enter.
Type ==
  /\ pc = "type" /\ pc' = "idle"
  /\ \/ Deliver(focus) /\ UNCHANGED errors
     \/ Mishap /\ UNCHANGED last
  /\ UNCHANGED <<screen, records, cmd, tries, history>>

\* send_file: the file button of the main window is clicked by its coordinates;
\* a window that lies over it takes the click.
SendFile ==
  /\ pc = "file" /\ pc' = "idle"
  /\ \/ focus' \in {Main, focus} /\ Deliver(focus') /\ UNCHANGED errors
     \/ Mishap /\ UNCHANGED <<focus, last>>
  /\ UNCHANGED <<open_chat, windows, records, cmd, tries, history>>

(***************************************************************************)
(* add_listen                                                              *)
(***************************************************************************)
\* The command ends, or the send that asked for the window goes on.
ListenDone == pc' = IF cmd.kind = "listen" THEN "idle" ELSE "route"

TargetsUnchanged == listen_targets        \* mutant: the target is not remembered
TargetsWithIt == listen_targets \cup {to}

\* Register the window if there is one already.
AddListen ==
  /\ pc = "listen"
  /\ listen_targets' = TargetsWithIt
  /\ \/ Alive(to) /\ ListenDone /\ UNCHANGED listen_windows
     \/ /\ ~ Alive(to)
        /\ \E w \in Titled(to) : listen_windows' = [listen_windows EXCEPT ![to] = w]
        /\ ListenDone
     \/ /\ ~ Alive(to) /\ Titled(to) = {}
        /\ listen_windows' = [listen_windows EXCEPT ![to] = NoName]
        /\ pc' = "pop"
  /\ UNCHANGED <<screen, current_chat, cmd, tries, last, history, errors>>

MayRetryOnceMore == tries <= MaxRetries   \* mutant: off by one
MayRetry == tries < MaxRetries

TryPopUncounted ==                        \* mutant: attempts are not counted
  /\ pc = "pop" /\ MayRetry /\ focus' \in {Main, focus} /\ pc' = "popswitch"
  /\ UNCHANGED <<open_chat, windows, records, cmd, tries, last, history, errors>>
\* One more attempt, from the main window if that can be focused.
TryPop ==
  /\ pc = "pop"
  /\ \/ MayRetry /\ tries' = tries + 1 /\ focus' \in {Main, focus} /\ pc' = "popswitch"
     \/ ~ MayRetry /\ ListenDone /\ UNCHANGED <<tries, focus>>
  /\ UNCHANGED <<open_chat, windows, records, cmd, last, history, errors>>

\* The double click on the chat's entry.  WeChat pops the chat out, or only
\* opens it; a chat that is popped out may leave the main window.  Or nothing
\* comes of it within the wait.
DoubleClick ==
  /\ pc = "double"
  /\ \/ \E visible \in SUBSET Contact : \E item \in Sessions(visible, to) :
          /\ \/ /\ windows' = windows \cup {item} /\ focus' = item
                /\ open_chat' \in {item, NoName} /\ UNCHANGED <<history, errors>>
             \/ /\ open_chat' = item /\ focus' = Main
                /\ UNCHANGED <<windows, history, errors>>
             \/ Misled(PopsOut({item})) /\ UNCHANGED screen
          /\ pc' = "register"
     \/ pc' = "pop" /\ UNCHANGED <<screen, history, errors>>
     \/ /\ open_chat' \in {open_chat} \cup Sessions(Contact, to) /\ Misled({})
        /\ ListenDone /\ UNCHANGED <<windows, focus>>
  /\ UNCHANGED <<records, cmd, tries, last>>

\* The cached chat is forgotten, and the window that appeared registered.
RegisterKeepsChat ==                      \* mutant: current_chat is not reset
  /\ pc = "register"
  /\ \/ \E w \in Titled(to) :
          /\ listen_windows' = [listen_windows EXCEPT ![to] = w]
          /\ ListenDone
     \/ Titled(to) = {} /\ pc' = "pop" /\ UNCHANGED listen_windows
  /\ UNCHANGED <<screen, current_chat, listen_targets, cmd, tries, last, history, errors>>
Register ==
  /\ pc = "register"
  /\ current_chat' = NoName
  /\ \/ \E w \in Titled(to) :
          /\ listen_windows' = [listen_windows EXCEPT ![to] = w]
          /\ ListenDone
     \/ Titled(to) = {} /\ pc' = "pop" /\ UNCHANGED listen_windows
  /\ UNCHANGED <<screen, listen_targets, cmd, tries, last, history, errors>>

(***************************************************************************)
(* remove_listen                                                           *)
(***************************************************************************)
RemoveListen ==
  /\ pc = "unlisten" /\ pc' = "idle"
  /\ listen_targets' = listen_targets \ {to}
  /\ IF to \in listen_targets \/ listen_windows[to] # NoName
     THEN /\ current_chat' = NoName
          /\ \/ \E w \in Titled(to) :
                  /\ windows' = windows \ {w}
                  /\ IF focus = w THEN focus' \in (windows \ {w}) \cup {Main}
                     ELSE UNCHANGED focus
                  /\ listen_windows' = [n \in Name |->
                       IF n = to THEN NoName
                       ELSE IF listen_windows[n] = w THEN Gone ELSE listen_windows[n]]
                  /\ UNCHANGED errors
             \/ /\ Titled(to) = {} /\ UNCHANGED <<windows, focus, errors>>
                /\ listen_windows' = [listen_windows EXCEPT ![to] = NoName]
             \/ /\ Mishap /\ UNCHANGED <<windows, focus>>
                /\ listen_windows' = [listen_windows EXCEPT ![to] = NoName]
     ELSE UNCHANGED <<current_chat, windows, focus, listen_windows, errors>>
  /\ UNCHANGED <<open_chat, cmd, tries, last, history>>

-----------------------------------------------------------------------------
Switch == AlreadyOpen \/ ClickSession \/ Search \/ SwitchFails

Actor ==
  \/ Recover \/ Route \/ Activate \/ Switch \/ Type \/ SendFile
  \/ AddListen \/ TryPop \/ DoubleClick \/ Register \/ RemoveListen

Next ==
  \/ Actor
  \/ \E c \in Command : Receive(c)
  \/ \E w \in Name : CloseWindow(w)
  \/ \E e \in Effect : Late(e)

Spec == Init /\ [][Next]_vars

\* The actor is a task of its own: a command that was begun is carried on.
FairSpec == Spec /\ WF_vars(Actor)

-----------------------------------------------------------------------------
(***************************************************************************)
(* Properties                                                              *)
(***************************************************************************)

TypeOK ==
  /\ open_chat \in Contact \cup {NoName}
  /\ windows \in SUBSET Contact
  /\ focus \in windows \cup {Main}
  /\ current_chat \in Name \cup {NoName}
  /\ listen_targets \in SUBSET Name
  /\ listen_windows \in [Name -> windows \cup {NoName, Gone}]
  /\ pc \in {"idle", "check", "route", "activate", "switch", "type", "file", "listen", "pop",
             "popswitch", "double", "register", "unlisten"}
  /\ cmd \in Command
  /\ tries \in 0 .. MaxRetries
  /\ last \in SUBSET Delivery
  /\ disturbed \in BOOLEAN /\ misled \in BOOLEAN /\ late \in SUBSET Effect
  /\ errors \in 0 .. MaxError

\* What the command typed for a chat that exists, if all of its steps were
\* followed and it met no closing window.
Typed(kind) == {d \in last : d.kind = kind /\ d.to \in Contact /\ d.clean}

\* The cached chat is what the main window shows, between commands, for a name
\* that WeChat knows: the fast path of chat_with rests on it ("avoid skipping by
\* mistake").  It is wrong after a switch that WeChat did not follow in time, or
\* that failed half way, until the next that is followed.
CacheMatchesScreen ==
  pc = "idle" /\ ~ misled /\ current_chat \in Contact => open_chat = current_chat

\* An image goes to the chat it is for, whatever went wrong before its command:
\* the forced switch trusts no cached chat, and takes the focus back from whatever
\* window had it ("avoid independent windows stealing the focus").
ImageReachesTarget ==
  \A d \in Typed("image") : d.dest = d.to

\* A text that is typed into the main window finds its chat open there, also by
\* the fast path, if the last switch was followed.
MainTextReachesTarget ==
  \A d \in Typed("text") : d.window = Main /\ d.sure => d.dest = d.to

\* "An ordinary send must not pop out an independent window": windows appear, or
\* are on their way, for listen targets only; a send to anyone else asks for none.
Coming == {e.chat : e \in {e \in late : e.pops}}
WindowsOnlyForTargets ==
  [][\A w \in (windows \cup Coming)' \ (windows \cup Coming) :
       \E n \in listen_targets : <<w, n>> \in Contains]_vars

\* What the program keeps a window for is what it listens to, across recovery,
\* removal and windows that vanish.
WindowsAreTargets ==
  \A n \in Name : listen_windows[n] # NoName => n \in listen_targets

\* Every command is answered.
EveryCommandEnds == (pc # "idle") ~> (pc = "idle")

\* "Main window: switch to the target chat and wait for the input box": what is
\* typed after prepare_main_send goes to the target (and what is typed in its own
\* window does too).
TextReachesTarget ==
  \A d \in Typed("text") : d.sure => d.dest = d.to

=============================================================================
