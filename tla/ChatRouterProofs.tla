-------------------------- MODULE ChatRouterProofs --------------------------
(***************************************************************************)
(* The safety properties of ChatRouter.  Types and the bookkeeping of      *)
(* windows are right for every set of names.  Where a message goes is      *)
(* proved for names that do not contain each other and are not chatroom    *)
(* ids: without the first a session or window is found for the wrong name, *)
(* without the second the cached chat outlives a search.                   *)
(***************************************************************************)
EXTENDS ChatRouter, TLAPS

\* No title contains another name, and nobody asks for a chatroom id.
NamesTellApart ==
  /\ \A c \in Contact, n \in Name : <<c, n>> \in Contains => c = n
  /\ RoomId = {}

-----------------------------------------------------------------------------
(***************************************************************************)
(* The inductive invariants.                                               *)
(***************************************************************************)

\* The actor only takes the steps of the kind of its command.
StepFitsKind ==
  /\ pc \in {"check", "route", "activate", "type"} => cmd.kind \in {"text", "image"}
  /\ pc \in {"listen", "pop", "popswitch", "double", "register"}
       => cmd.kind \in {"text", "image", "listen"}
  /\ pc = "file" => cmd.kind = "file"
  /\ pc = "switch" => cmd.kind \in {"text", "image", "file", "open"}

\* What is being popped out is a listen target, from add_listen's first line on.
PoppingTarget ==
  pc \in {"pop", "popswitch", "double", "register"} => to \in listen_targets

WindowInv == TypeOK /\ StepFitsKind /\ PoppingTarget /\ WindowsAreTargets

\* Where the next text or image will go.  Before chat_with an image has no cached
\* chat to trust; the focus then is in the main window, with the chat open in it,
\* or in the chat's own window.  A text may have the cached chat to trust.
ReadyToType ==
  ~ disturbed /\ to \in Contact =>
    /\ pc = "switch" /\ cmd.kind = "image" => current_chat = NoName
    /\ pc = "activate" => Alive(to)
    /\ pc = "type" => /\ focus = Main /\ ~ misled => open_chat = to
                      /\ cmd.kind = "image" => focus = to \/ (focus = Main /\ ~ misled)

\* Windows are registered under their own name.
OwnWindows == \A n \in Name : listen_windows[n] \in {n, NoName, Gone}

\* Unless misled, the cached chat is right at every step but one: the double click
\* changes the screen before add_listen resets the cache.
CacheRight ==
  pc # "register" /\ ~ misled /\ current_chat \in Contact => open_chat = current_chat

RouteInv ==
  /\ WindowInv /\ ReadyToType /\ OwnWindows /\ CacheRight
  /\ ImageReachesTarget /\ MainTextReachesTarget

-----------------------------------------------------------------------------
(***************************************************************************)
(* Types                                                                   *)
(***************************************************************************)

\* The sessions and windows found for a name are those of chats.
LEMMA FoundAreContacts ==
  ASSUME TypeOK
  PROVE  /\ to \in Name
         /\ Titled(to) \subseteq windows
         /\ \A visible \in SUBSET Contact : Sessions(visible, to) \subseteq Contact
         /\ FirstResult \subseteq Contact \cup {NoName}
<1>1. to \in Name
  BY DEF TypeOK, Command, to
<1>2. Titled(to) \subseteq windows
  BY DEF Titled
<1>3. \A visible \in SUBSET Contact : Sessions(visible, to) \subseteq Contact
  BY DEF Sessions
<1>4. FirstResult \subseteq Contact \cup {NoName}
  BY DEF FirstResult, TypeOK
<1> QED  BY <1>1, <1>2, <1>3, <1>4

\* What a failed or missed step leaves in the history.
LEMMA MisledType ==
  ASSUME TypeOK, NEW effects \in SUBSET Effect, Misled(effects)
  PROVE  /\ errors' \in 0 .. MaxError /\ late' \in SUBSET Effect
         /\ disturbed' = TRUE /\ misled' = TRUE
  BY ChatRouterAssumption DEF TypeOK, Misled, Mishap

LEMMA EffectType ==
  ASSUME NEW chats \in SUBSET Contact
  PROVE  Opens(chats) \in SUBSET Effect /\ PopsOut(chats) \in SUBSET Effect
  BY DEF Opens, PopsOut, Effect

\* What chat_with leaves of a click or a search.
LEMMA SwitchType ==
  ASSUME TypeOK, NEW chats \in SUBSET Contact, Followed \/ Missed(chats)
  PROVE  /\ errors' \in 0 .. MaxError /\ late' \in SUBSET Effect
         /\ disturbed' \in BOOLEAN /\ misled' \in BOOLEAN /\ focus' \in windows \cup {Main}
         /\ Followed \/ open_chat' = open_chat
<1>1. CASE Followed
  BY <1>1 DEF TypeOK, Followed
<1>2. CASE Missed(chats)
  BY <1>2, MisledType, EffectType DEF TypeOK, Missed
<1> QED  BY <1>1, <1>2

LEMMA WindowInit == Init => WindowInv
<1> SUFFICES ASSUME Init PROVE WindowInv
  OBVIOUS
<1>1. TypeOK
  <2>1. cmd \in Command
    BY DEF Init, Command, Kind
  <2>2. tries \in 0 .. MaxRetries /\ errors \in 0 .. MaxError
    BY ChatRouterAssumption DEF Init
  <2>3. listen_windows \in [Name -> windows \cup {NoName, Gone}]
    BY DEF Init
  <2> QED  BY <2>1, <2>2, <2>3 DEF Init, TypeOK
<1>2. StepFitsKind /\ PoppingTarget
  BY DEF Init, StepFitsKind, PoppingTarget
<1>3. WindowsAreTargets
  BY DEF Init, WindowsAreTargets
<1> QED  BY <1>1, <1>2, <1>3 DEF WindowInv

LEMMA TypeNext == TypeOK /\ StepFitsKind /\ [Next]_vars => TypeOK'
<1> SUFFICES ASSUME TypeOK, StepFitsKind, [Next]_vars PROVE TypeOK'
  OBVIOUS
<1> USE ChatRouterAssumption, FoundAreContacts
<1>1. ASSUME NEW c \in Command, Receive(c) PROVE TypeOK'
  <2>1. c.kind \in Kind
    BY DEF Command
  <2>2. pc' \in {"check", "switch", "listen", "unlisten"}
    BY <1>1, <2>1 DEF Receive, Kind
  <2>3. cmd' \in Command /\ tries' \in 0 .. MaxRetries /\ last' = {} /\ disturbed' = FALSE
    BY <1>1 DEF Receive
  <2>4. UNCHANGED <<open_chat, windows, focus, current_chat, listen_targets,
                    listen_windows, misled, late, errors>>
    BY <1>1 DEF Receive, screen, records
  <2> QED  BY <2>2, <2>3, <2>4 DEF TypeOK
<1>2. ASSUME NEW w \in Name, CloseWindow(w) PROVE TypeOK'
  BY <1>2 DEF TypeOK, CloseWindow
<1>19. ASSUME NEW e \in Effect, Late(e) PROVE TypeOK'
  <2>1. e.chat \in Contact
    BY DEF Effect
  <2>2. open_chat' \in Contact \cup {NoName} /\ windows' \in SUBSET Contact /\ windows \subseteq windows'
    BY <1>19, <2>1 DEF TypeOK, Late
  <2>3. focus' \in windows' \cup {Main}
    BY <1>19, <2>1, <2>2 DEF TypeOK, Late
  <2>4. listen_windows' \in [Name -> windows' \cup {NoName, Gone}]
    <3>1. listen_windows' = listen_windows
      BY <1>19 DEF Late, records
    <3> QED  BY <2>2, <3>1 DEF TypeOK
  <2>5. late' \in SUBSET Effect /\ misled' \in BOOLEAN /\ disturbed' \in BOOLEAN
    BY <1>19 DEF TypeOK, Late
  <2>6. UNCHANGED <<current_chat, listen_targets, pc, cmd, tries, last, errors>>
    BY <1>19 DEF Late, records
  <2> QED  BY <2>2, <2>3, <2>4, <2>5, <2>6 DEF TypeOK
<1>3. CASE Recover
  BY <1>3 DEF TypeOK, Recover, ForgetDeadWindow, screen, history
<1>4. CASE Route
  BY <1>4 DEF TypeOK, Route, screen, history
<1>5. CASE Activate
  <2>1. focus' \in windows \cup {Main}
    BY <1>5 DEF TypeOK, Activate, Alive
  <2>2. errors' \in 0 .. MaxError
    <3>1. errors \in 0 .. MaxError /\ (errors' = errors \/ (errors < MaxError /\ errors' = errors + 1))
      BY <1>5 DEF TypeOK, Activate, Mishap
    <3> QED  BY <3>1
  <2>3. disturbed' \in BOOLEAN /\ pc' \in {"type", "idle"}
    BY <1>5 DEF TypeOK, Activate
  <2> QED  BY <1>5, <2>1, <2>2, <2>3 DEF TypeOK, Activate, records
<1>6. CASE AlreadyOpen
  BY <1>6 DEF TypeOK, AlreadyOpen, AfterSwitch, screen, records, history
<1>7. CASE ClickSession
  <2>1. PICK visible \in SUBSET Contact : \E item \in Sessions(visible, to) :
          (open_chat' = item /\ Followed) \/ Missed({item})
    BY <1>7 DEF ClickSession
  <2>2. PICK item \in Contact : (open_chat' = item /\ Followed) \/ Missed({item})
    BY <2>1, FoundAreContacts
  <2>3. /\ errors' \in 0 .. MaxError /\ late' \in SUBSET Effect
        /\ disturbed' \in BOOLEAN /\ misled' \in BOOLEAN /\ focus' \in windows \cup {Main}
        /\ open_chat' \in Contact \cup {NoName}
    BY <2>2, SwitchType DEF TypeOK, Missed
  <2> QED  BY <1>7, <2>3 DEF TypeOK, ClickSession, AfterSwitch
<1>8. CASE Search
  <2>1. FirstResult \cap Contact \in SUBSET Contact
    OBVIOUS
  <2>2. (open_chat' \in FirstResult /\ Followed) \/ Missed(FirstResult \cap Contact)
    BY <1>8 DEF Search
  <2>3. /\ errors' \in 0 .. MaxError /\ late' \in SUBSET Effect
        /\ disturbed' \in BOOLEAN /\ misled' \in BOOLEAN /\ focus' \in windows \cup {Main}
        /\ open_chat' \in Contact \cup {NoName}
    BY <2>1, <2>2, SwitchType DEF TypeOK, Missed
  <2>4. current_chat' \in Name \cup {NoName} /\ pc' \in {"double", "idle", "file", "type"}
    BY <1>8 DEF Search, AfterSwitch, TypeOK
  <2>5. UNCHANGED <<windows, listen_targets, listen_windows, cmd, tries, last>>
    BY <1>8 DEF Search
  <2> QED  BY <2>3, <2>4, <2>5 DEF TypeOK
<1>9. CASE SwitchFails
  <2> DEFINE asked == Sessions(Contact, to) \cup FirstResult
  <2>1. asked \subseteq Contact \cup {NoName}
    OBVIOUS
  <2>2. open_chat' \in {open_chat} \cup asked /\ Misled(Opens(asked \cap Contact))
    BY <1>9 DEF SwitchFails
  <2> HIDE DEF asked
  <2>3. /\ errors' \in 0 .. MaxError /\ late' \in SUBSET Effect
        /\ disturbed' = TRUE /\ misled' = TRUE
    BY <2>2, EffectType, MisledType
  <2> QED  BY <1>9, <2>1, <2>2, <2>3 DEF TypeOK, SwitchFails, records
<1>10. ASSUME NEW f \in windows \cup {Main}, Deliver(f), pc \in {"type", "file"}
       PROVE  last' \in SUBSET Delivery
  <2>1. cmd.kind \in {"text", "image", "file"}
    BY <1>10 DEF StepFitsKind
  <2>2. Destination(f) \in Name \cup {NoName} /\ f \in Name \cup {Main}
    BY DEF TypeOK, Destination
  <2> QED  BY <1>10, <2>1, <2>2 DEF TypeOK, Deliver, Delivery
<1>11. CASE Type
  BY <1>11, <1>10 DEF TypeOK, Type, Mishap, screen, records, history
<1>12. CASE SendFile
  BY <1>12, <1>10 DEF TypeOK, SendFile, Mishap, records, history
<1>13. CASE AddListen
  BY <1>13 DEF TypeOK, AddListen, TargetsWithIt, ListenDone, screen, history
<1>14. CASE TryPop
  BY <1>14 DEF TypeOK, TryPop, MayRetry, ListenDone, records, history
<1>15. CASE DoubleClick
  <2>1. UNCHANGED <<current_chat, listen_targets, listen_windows, cmd, tries, last>>
    BY <1>15 DEF DoubleClick, records
  <2>2. ASSUME NEW visible \in SUBSET Contact, NEW item \in Sessions(visible, to),
               \/ /\ windows' = windows \cup {item} /\ focus' = item
                  /\ open_chat' \in {item, NoName} /\ UNCHANGED <<history, errors>>
               \/ /\ open_chat' = item /\ focus' = Main
                  /\ UNCHANGED <<windows, history, errors>>
               \/ Misled(PopsOut({item})) /\ UNCHANGED screen,
               pc' = "register"
        PROVE  TypeOK'
    <3>1. item \in Contact /\ PopsOut({item}) \in SUBSET Effect
      BY EffectType
    <3>2. CASE \/ /\ windows' = windows \cup {item} /\ focus' = item
                  /\ open_chat' \in {item, NoName} /\ UNCHANGED <<history, errors>>
               \/ /\ open_chat' = item /\ focus' = Main
                  /\ UNCHANGED <<windows, history, errors>>
      BY <2>1, <2>2, <3>1, <3>2 DEF TypeOK, history
    <3>3. CASE Misled(PopsOut({item})) /\ UNCHANGED screen
      <4>1. /\ errors' \in 0 .. MaxError /\ late' \in SUBSET Effect
            /\ disturbed' = TRUE /\ misled' = TRUE
        BY <3>1, <3>3, MisledType
      <4> QED  BY <2>1, <2>2, <3>3, <4>1 DEF TypeOK, screen
    <3> QED  BY <2>2, <3>2, <3>3
  <2>3. CASE pc' = "pop" /\ UNCHANGED <<screen, history, errors>>
    BY <2>1, <2>3 DEF TypeOK, screen, history
  <2>4. CASE /\ open_chat' \in {open_chat} \cup Sessions(Contact, to) /\ Misled({})
             /\ ListenDone /\ UNCHANGED <<windows, focus>>
    <3>1. /\ errors' \in 0 .. MaxError /\ late' \in SUBSET Effect
          /\ disturbed' = TRUE /\ misled' = TRUE
      BY <2>4, MisledType
    <3> QED  BY <2>1, <2>4, <3>1 DEF TypeOK, ListenDone
  <2> QED  BY <1>15, <2>2, <2>3, <2>4 DEF DoubleClick
<1>16. CASE Register
  BY <1>16 DEF TypeOK, Register, ListenDone, screen, history
<1>17. CASE RemoveListen
  BY <1>17 DEF TypeOK, RemoveListen, Mishap, history
<1>18. CASE UNCHANGED vars
  BY <1>18 DEF TypeOK, vars
<1> QED
  BY <1>1, <1>2, <1>3, <1>4, <1>5, <1>6, <1>7, <1>8, <1>9, <1>11, <1>12, <1>13, <1>14,
     <1>15, <1>16, <1>17, <1>18, <1>19
  DEF Next, Actor, Switch

LEMMA WindowNext == WindowInv /\ [Next]_vars => WindowInv'
<1> SUFFICES ASSUME WindowInv, [Next]_vars PROVE WindowInv'
  OBVIOUS
<1> USE DEF WindowInv
<1>1. TypeOK'
  BY TypeNext
<1>2. StepFitsKind'
  BY DEF StepFitsKind, Next, Actor, Switch, vars, Command, Kind, Receive, CloseWindow, Late,
         Recover, Route, Activate, AlreadyOpen, ClickSession, Search, SwitchFails, Type,
         SendFile, AddListen, TryPop, DoubleClick, Register, RemoveListen, AfterSwitch,
         ListenDone
<1>3. PoppingTarget'
  <2> USE DEF PoppingTarget, to, records
  <2>1. CASE AddListen
    BY <2>1 DEF AddListen, TargetsWithIt
  <2>2. ASSUME \E c \in Command : Receive(c)
        PROVE  pc' \notin {"pop", "popswitch", "double", "register"}
    <3>1. PICK c \in Command : Receive(c)
      BY <2>2
    <3>2. c.kind \in Kind
      BY DEF Command
    <3> QED  BY <3>1, <3>2 DEF Receive, Kind
  <2>3. CASE Recover \/ Route \/ Activate \/ Type \/ SendFile \/ RemoveListen
    BY <2>3 DEF Recover, Route, Activate, Type, SendFile, RemoveListen
  <2>4. CASE Switch
    <3>1. UNCHANGED <<listen_targets, cmd>>
      BY <2>4 DEF Switch, AlreadyOpen, ClickSession, Search, SwitchFails
    <3>2. \A found : AfterSwitch(found) =>
            pc = "popswitch" \/ pc' \notin {"pop", "popswitch", "double", "register"}
      BY DEF AfterSwitch
    <3>3. pc = "popswitch" \/ pc' \notin {"pop", "popswitch", "double", "register"}
      <4>1. CASE AlreadyOpen
        BY <4>1, <3>2 DEF AlreadyOpen
      <4>2. CASE ClickSession
        BY <4>2, <3>2 DEF ClickSession
      <4>3. CASE Search
        BY <4>3, <3>2 DEF Search
      <4>4. CASE SwitchFails
        BY <4>4 DEF SwitchFails
      <4> QED  BY <2>4, <4>1, <4>2, <4>3, <4>4 DEF Switch
    <3> QED  BY <3>1, <3>3
  <2>5. CASE TryPop \/ Register
    BY <2>5 DEF TryPop, Register, ListenDone
  <2>6. CASE DoubleClick
    <3>1. pc = "double" /\ UNCHANGED <<listen_targets, cmd>>
      BY <2>6 DEF DoubleClick
    <3> QED  BY <3>1
  <2>7. CASE \/ \E w \in Name : CloseWindow(w)
             \/ \E e \in Effect : Late(e)
             \/ UNCHANGED vars
    BY <2>7 DEF CloseWindow, Late, vars
  <2> QED  BY <2>1, <2>2, <2>3, <2>4, <2>5, <2>6, <2>7 DEF Next, Actor
<1>4. WindowsAreTargets'
  <2> USE DEF WindowsAreTargets, TypeOK
  <2>1. ASSUME NEW c \in Command, Receive(c) PROVE WindowsAreTargets'
    BY <2>1 DEF Receive, records
  <2>2. ASSUME NEW w \in Name, CloseWindow(w) PROVE WindowsAreTargets'
    BY <2>2, ChatRouterAssumption DEF CloseWindow
  <2>3. CASE Recover
    BY <2>3 DEF Recover, ForgetDeadWindow
  <2>4. CASE Route
    BY <2>4 DEF Route
  <2>5. CASE AddListen
    BY <2>5 DEF AddListen, TargetsWithIt
  <2>6. CASE Register
    BY <2>6 DEF Register, PoppingTarget
  <2>7. CASE RemoveListen
    <3>1. /\ listen_targets' = listen_targets \ {to}
          /\ listen_windows'[to] = NoName
      BY <2>7, FoundAreContacts DEF RemoveListen
    <3>2. \A n \in Name \ {to} : listen_windows'[n] # NoName => listen_windows[n] # NoName
      BY <2>7, FoundAreContacts, ChatRouterAssumption DEF RemoveListen
    <3> QED  BY <3>1, <3>2
  <2>8. CASE \/ Activate \/ Switch \/ Type \/ SendFile \/ TryPop \/ DoubleClick
             \/ \E e \in Effect : Late(e)
             \/ UNCHANGED vars
    BY <2>8 DEF Late, Activate, Switch, AlreadyOpen, ClickSession, Search, SwitchFails, Type,
                SendFile, TryPop, DoubleClick, records, vars
  <2> QED
    BY <2>1, <2>2, <2>3, <2>4, <2>5, <2>6, <2>7, <2>8 DEF Next, Actor
<1> QED  BY <1>1, <1>2, <1>3, <1>4

LEMMA WindowInvariant == Spec => []WindowInv
<1> QED  BY WindowInit, WindowNext, PTL DEF Spec

\* Type correctness, for every set of names.
THEOREM TypeCorrect == Spec => []TypeOK
<1>1. WindowInv => TypeOK
  BY DEF WindowInv
<1> QED  BY <1>1, WindowInvariant, PTL

\* Every window the program keeps is that of a listen target, whatever closes,
\* fails, is removed and added again (add_listen, remove_listen,
\* try_recover_listen_window).
THEOREM KeptWindowsAreTargets == Spec => []WindowsAreTargets
<1>1. WindowInv => WindowsAreTargets
  BY DEF WindowInv
<1> QED  BY <1>1, WindowInvariant, PTL

\* A send never pops out a window for a chat that is not listened to, nor asks
\* for one that would come later.
THEOREM NewWindowsAreForTargets == Spec => WindowsOnlyForTargets
<1> DEFINE Justified ==
      \A w \in (windows \cup Coming)' \ (windows \cup Coming) :
        \E n \in listen_targets : <<w, n>> \in Contains
<1>1. WindowInv /\ [Next]_vars => [Justified]_vars
  <2> SUFFICES ASSUME WindowInv, Next, NEW w \in (windows \cup Coming)' \ (windows \cup Coming)
               PROVE  \E n \in listen_targets : <<w, n>> \in Contains
    BY DEF vars
  <2>1. w \in windows' \ windows \/ \E e \in late' \ late : e.pops /\ w = e.chat
    BY DEF Coming
  <2>2. ASSUME NEW chats, Misled(Opens(chats)) \/ Misled({})
        PROVE  \A e \in late' \ late : ~ e.pops
    BY <2>2 DEF Misled, Opens
  <2>3. ~ \E e \in Effect : Late(e)
    <3> SUFFICES ASSUME NEW e \in Effect, Late(e) PROVE FALSE
      OBVIOUS
    <3>1. late' \subseteq late /\ e \in late
      BY DEF Late
    <3>2. windows' = windows \/ (e.pops /\ windows' = windows \cup {e.chat})
      BY DEF Late
    <3> QED  BY <3>1, <3>2 DEF Coming
  <2>4. CASE ClickSession \/ Search \/ SwitchFails
    <3>1. windows' = windows
      BY <2>4 DEF ClickSession, Search, SwitchFails
    <3>2. \A e \in late' \ late : ~ e.pops
      BY <2>2, <2>4 DEF ClickSession, Search, SwitchFails, Followed, Missed
    <3> QED  BY <2>1, <3>1, <3>2
  <2>5. CASE DoubleClick
    <3>1. to \in listen_targets
      BY <2>5 DEF DoubleClick, WindowInv, PoppingTarget
    <3>2. \/ \E visible \in SUBSET Contact : w \in Sessions(visible, to)
          \/ Misled({}) /\ UNCHANGED windows
      BY <2>1, <2>5 DEF DoubleClick, screen, history, Misled, PopsOut
    <3>3. \E visible \in SUBSET Contact : w \in Sessions(visible, to)
      BY <2>1, <2>2, <3>2
    <3>4. <<w, to>> \in Contains
      BY <3>3, ChatRouterAssumption DEF Sessions
    <3> QED  BY <3>1, <3>4
  <2>6. CASE \/ \E c \in Command : Receive(c)
             \/ \E x \in Name : CloseWindow(x)
             \/ Recover \/ Route \/ Activate \/ AlreadyOpen \/ Type \/ SendFile
             \/ AddListen \/ TryPop \/ Register \/ RemoveListen
    <3>1. windows' \subseteq windows /\ late' = late
      BY <2>6 DEF Receive, CloseWindow, Recover, Route, Activate, AlreadyOpen, Type, SendFile,
                  AddListen, TryPop, Register, RemoveListen, screen, history
    <3> QED  BY <2>1, <3>1
  <2> QED  BY <2>3, <2>4, <2>5, <2>6 DEF Next, Actor, Switch
<1> QED  BY <1>1, WindowInvariant, PTL DEF Spec, WindowsOnlyForTargets

-----------------------------------------------------------------------------
(***************************************************************************)
(* Where messages go                                                       *)
(***************************************************************************)

\* With names that tell chats apart only the right session or window is found,
\* and it is the name's own.
LEMMA FoundIsTarget ==
  ASSUME NamesTellApart, TypeOK
  PROVE  /\ Titled(to) \subseteq {to}
         /\ \A visible \in SUBSET Contact : Sessions(visible, to) \subseteq {to}
<1>1. to \in Name /\ windows \subseteq Contact
  BY FoundAreContacts DEF TypeOK
<1> QED  BY <1>1 DEF Titled, Sessions, NamesTellApart

LEMMA RouteInit == NamesTellApart /\ Init => RouteInv
<1> SUFFICES ASSUME NamesTellApart, Init PROVE RouteInv
  OBVIOUS
<1>1. ReadyToType /\ OwnWindows
  BY DEF Init, ReadyToType, OwnWindows
<1>2. CacheRight
  BY ChatRouterAssumption DEF Init, CacheRight
<1>3. ImageReachesTarget /\ MainTextReachesTarget
  BY DEF Init, ImageReachesTarget, MainTextReachesTarget, Typed
<1> QED  BY <1>1, <1>2, <1>3, WindowInit DEF RouteInv

\* A step that failed or was not followed marks its command.
LEMMA MisledMarks == \A effects : Misled(effects) => disturbed' = TRUE /\ misled' = TRUE
BY DEF Misled

\* What a switch leaves when nothing marks its command.
LEMMA FollowedSwitch ==
  ASSUME NamesTellApart, TypeOK, ClickSession \/ Search
  PROVE  \/ disturbed' = TRUE /\ misled' = TRUE
         \/ /\ focus' = Main /\ misled' = FALSE
            /\ current_chat' \in {to, NoName} \cup {c \in {current_chat} : to \in RoomId}
            /\ to \in Contact => open_chat' = to
<1>1. CASE ClickSession
  <2>1. PICK visible \in SUBSET Contact : \E item \in Sessions(visible, to) :
          (open_chat' = item /\ Followed) \/ Missed({item})
    BY <1>1 DEF ClickSession
  <2>2. (open_chat' = to /\ Followed) \/ Missed({to})
    BY <2>1, FoundIsTarget
  <2> QED  BY <1>1, <2>2, MisledMarks DEF ClickSession, Followed, Missed
<1>2. CASE Search
  <2>1. (open_chat' \in FirstResult /\ Followed) \/ Missed(FirstResult \cap Contact)
    BY <1>2 DEF Search
  <2>2. current_chat' \in {to, NoName} \cup {c \in {current_chat} : to \in RoomId}
    BY <1>2 DEF Search
  <2>3. Missed(FirstResult \cap Contact) => disturbed' = TRUE /\ misled' = TRUE
    BY MisledMarks DEF Missed
  <2>4. to \in Contact /\ open_chat' \in FirstResult => open_chat' = to
    BY DEF FirstResult
  <2> QED  BY <2>1, <2>2, <2>3, <2>4 DEF Followed
<1> QED  BY <1>1, <1>2

LEMMA ReadyNext ==
  ASSUME NamesTellApart, RouteInv, [Next]_vars
  PROVE  ReadyToType'
<1> USE DEF RouteInv, WindowInv
<1>1. CASE \/ \E c \in Command : Receive(c)
           \/ \E w \in Name : CloseWindow(w)
           \/ \E e \in Effect : Late(e)
           \/ Recover \/ Type \/ SendFile \/ AddListen \/ TryPop \/ DoubleClick
           \/ Register \/ RemoveListen
  <2>1. ASSUME NEW c \in Command, Receive(c)
        PROVE  \/ pc' = "switch" /\ cmd'.kind # "image"
               \/ pc' \notin {"switch", "activate", "type"}
    <3>1. cmd' = c /\ c.kind \in {"text", "image", "file", "open", "listen", "unlisten"}
      BY <2>1 DEF Receive, Command, Kind
    <3> QED  BY <2>1, <3>1 DEF Receive
  <2>2. ASSUME (\E w \in Name : CloseWindow(w)) \/ \E e \in Effect : Late(e)
        PROVE  disturbed' \/ pc' = "idle"
    BY <2>2 DEF CloseWindow, Late
  <2>3. ASSUME \/ Recover \/ Type \/ SendFile \/ AddListen \/ TryPop \/ DoubleClick
               \/ Register \/ RemoveListen
        PROVE  pc' \notin {"switch", "activate", "type"}
    BY <2>3 DEF Recover, Type, SendFile, AddListen, TryPop, DoubleClick, Register, RemoveListen,
                ListenDone
  <2> QED  BY <1>1, <2>1, <2>2, <2>3 DEF ReadyToType
<1>2. CASE Route
  <2>1. UNCHANGED <<windows, cmd, disturbed>>
    BY <1>2 DEF Route, screen, history
  <2>2. Alive(to) => Alive(to)'
    BY <1>2, <2>1, ChatRouterAssumption DEF Route, Alive, to, TypeOK
  <2>3. pc' = IF Alive(to) THEN "activate" ELSE "switch"
    BY <1>2 DEF Route
  <2>4. ~ Alive(to) /\ cmd.kind = "image" => current_chat' = NoName
    BY <1>2 DEF Route, Forced
  <2> QED  BY <2>1, <2>2, <2>3, <2>4 DEF ReadyToType, to
<1>3. CASE Activate
  <2>1. SUFFICES ASSUME ~ disturbed', to \in Contact
                 PROVE  focus' = to /\ pc' = "type" /\ to # Main
    BY <1>3 DEF ReadyToType, Activate, to
  <2>2. pc = "activate" /\ disturbed' = disturbed
    BY <1>3, <2>1 DEF Activate
  <2>3. Alive(to) /\ listen_windows[to] = to
    BY <2>1, <2>2, ChatRouterAssumption DEF ReadyToType, OwnWindows, Alive, TypeOK
  <2>4. Titled(to) \subseteq {to}
    BY FoundIsTarget
  <2> QED  BY <1>3, <2>1, <2>3, <2>4, ChatRouterAssumption DEF Activate
<1>4. CASE AlreadyOpen
  <2>1. SUFFICES ASSUME ~ disturbed, to \in Contact, pc' = "type"
                 PROVE  (~ misled => open_chat = to) /\ cmd.kind # "image"
    BY <1>4 DEF ReadyToType, AlreadyOpen, AfterSwitch, to, screen, history
  <2>2. pc = "switch" /\ current_chat = to
    BY <1>4, <2>1 DEF AlreadyOpen, AfterSwitch
  <2>3. ~ misled => open_chat = to
    BY <2>1, <2>2 DEF CacheRight
  <2>4. cmd.kind # "image"
    BY <2>1, <2>2, ChatRouterAssumption DEF ReadyToType
  <2> QED  BY <2>3, <2>4
<1>5. CASE ClickSession \/ Search
  <2>1. pc' \notin {"switch", "activate"} /\ cmd' = cmd
    BY <1>5 DEF ClickSession, Search, AfterSwitch
  <2> QED  BY <1>5, <2>1, FollowedSwitch DEF ReadyToType, to
<1>6. CASE SwitchFails
  BY <1>6, MisledMarks DEF SwitchFails, ReadyToType
<1>7. CASE UNCHANGED vars
  BY <1>7 DEF vars, ReadyToType, to, Alive
<1> QED
  BY <1>1, <1>2, <1>3, <1>4, <1>5, <1>6, <1>7 DEF Next, Actor, Switch

LEMMA OwnNext ==
  ASSUME NamesTellApart, RouteInv, [Next]_vars
  PROVE  OwnWindows'
<1> USE DEF RouteInv, WindowInv, OwnWindows
<1>1. CASE \E w \in Name : CloseWindow(w)
  BY <1>1 DEF CloseWindow
<1>2. CASE Recover \/ Route
  BY <1>2 DEF Recover, ForgetDeadWindow, Route, TypeOK
<1>3. CASE AddListen \/ Register
  BY <1>3, FoundIsTarget DEF AddListen, Register, TypeOK
<1>4. CASE RemoveListen
  BY <1>4 DEF RemoveListen, TypeOK
<1>5. CASE \/ \E c \in Command : Receive(c)
           \/ \E e \in Effect : Late(e)
           \/ Activate \/ Switch \/ Type \/ SendFile \/ TryPop \/ DoubleClick
           \/ UNCHANGED vars
  BY <1>5 DEF Receive, Late, Activate, Switch, AlreadyOpen, ClickSession, Search, SwitchFails, Type,
              SendFile, TryPop, DoubleClick, records, vars
<1> QED  BY <1>1, <1>2, <1>3, <1>4, <1>5 DEF Next, Actor

LEMMA CacheNext ==
  ASSUME NamesTellApart, RouteInv, [Next]_vars
  PROVE  CacheRight'
<1> USE ChatRouterAssumption DEF RouteInv, WindowInv
<1>1. CASE \/ \E c \in Command : Receive(c)
           \/ \E w \in Name : CloseWindow(w)
           \/ Recover \/ Route \/ Activate \/ AlreadyOpen \/ AddListen \/ TryPop
           \/ RemoveListen \/ Type \/ SendFile
  <2>1. /\ open_chat' = open_chat /\ current_chat' \in {current_chat, NoName}
        /\ misled' = misled
    BY <1>1 DEF Receive, CloseWindow, Recover, ForgetDeadWindow, Route, Activate, AlreadyOpen,
                AddListen, TryPop, RemoveListen, Type, SendFile, screen, records, history
  <2>2. pc # "register" \/ pc' = "register"
    BY <1>1 DEF Receive, CloseWindow, Recover, Route, Activate, AlreadyOpen, AddListen, TryPop,
                RemoveListen, Type, SendFile
  <2> QED  BY <2>1, <2>2 DEF CacheRight
<1>2. CASE ClickSession \/ Search
  BY <1>2, FollowedSwitch DEF CacheRight, NamesTellApart
<1>3. CASE SwitchFails \/ \E e \in Effect : Late(e)
  BY <1>3, MisledMarks DEF SwitchFails, Late, CacheRight
<1>5. CASE DoubleClick
  <2>1. pc' = "register" \/ misled' = TRUE \/ UNCHANGED <<screen, history>>
    BY <1>5, MisledMarks DEF DoubleClick
  <2>2. pc = "double" /\ UNCHANGED records
    BY <1>5 DEF DoubleClick
  <2> QED  BY <2>1, <2>2 DEF CacheRight, screen, records, history
<1>6. CASE Register
  BY <1>6 DEF Register, CacheRight
<1>7. CASE UNCHANGED vars
  BY <1>7 DEF vars, CacheRight
<1> QED  BY <1>1, <1>2, <1>3, <1>5, <1>6, <1>7 DEF Next, Actor, Switch

LEMMA TypedNext ==
  ASSUME NamesTellApart, RouteInv, [Next]_vars
  PROVE  ImageReachesTarget' /\ MainTextReachesTarget'
<1> USE DEF RouteInv, WindowInv
<1>2. CASE last' \subseteq last
  BY <1>2 DEF ImageReachesTarget, MainTextReachesTarget, Typed
<1>3. ASSUME Type, Deliver(focus)
      PROVE  ImageReachesTarget' /\ MainTextReachesTarget'
  <2> DEFINE delivery == [kind |-> cmd.kind, to |-> to, dest |-> Destination(focus),
                          window |-> focus, clean |-> ~ disturbed, sure |-> ~ misled]
  <2>1. last' = {delivery} /\ pc = "type"
    BY <1>3 DEF Deliver, Type
  <2>2. /\ delivery.kind = cmd.kind /\ delivery.to = to /\ delivery.dest = Destination(focus)
        /\ delivery.window = focus /\ delivery.clean = ~ disturbed /\ delivery.sure = ~ misled
    OBVIOUS
  <2> HIDE DEF delivery
  <2>3. ASSUME ~ disturbed, to \in Contact
        PROVE  /\ cmd.kind = "image" => Destination(focus) = to
               /\ focus = Main /\ ~ misled => Destination(focus) = to
    BY <2>1, <2>3, ChatRouterAssumption DEF ReadyToType, Destination
  <2> QED  BY <1>3, <2>1, <2>2, <2>3 DEF ImageReachesTarget, MainTextReachesTarget, Typed
<1>4. ASSUME SendFile, NEW f, Deliver(f)
      PROVE  ImageReachesTarget' /\ MainTextReachesTarget'
  <2>1. cmd.kind = "file"
    BY <1>4 DEF SendFile, StepFitsKind
  <2>2. \A d \in last' : d.kind = "file"
    BY <1>4, <2>1 DEF Deliver
  <2> QED  BY <2>2 DEF ImageReachesTarget, MainTextReachesTarget, Typed
<1>5. last' \subseteq last \/ (Type /\ Deliver(focus))
        \/ (SendFile /\ \E f \in {Main, focus} : Deliver(f))
  BY DEF Next, Actor, Switch, vars, Receive, CloseWindow, Late, Recover, Route, Activate,
         AlreadyOpen, ClickSession, Search, SwitchFails, Type, SendFile, AddListen, TryPop,
         DoubleClick, Register, RemoveListen, screen
<1> QED  BY <1>2, <1>3, <1>4, <1>5

LEMMA RouteInvariant == ASSUME NamesTellApart PROVE Spec => []RouteInv
<1>1. Init => RouteInv
  BY RouteInit
<1>2. RouteInv /\ [Next]_vars => RouteInv'
  <2> SUFFICES ASSUME RouteInv, [Next]_vars PROVE RouteInv'
    OBVIOUS
  <2>1. WindowInv'
    BY WindowNext DEF RouteInv
  <2> QED  BY <2>1, ReadyNext, OwnNext, CacheNext, TypedNext DEF RouteInv
<1> QED  BY <1>1, <1>2, PTL DEF Spec

\* When no name contains another and none is a chatroom id, the cached chat is the
\* one on the screen between commands (chat_with's fast path), from every switch
\* that WeChat follows to the next that it does not.
THEOREM CacheCorrect == ASSUME NamesTellApart PROVE Spec => []CacheMatchesScreen
<1>1. RouteInv => CacheMatchesScreen
  BY DEF RouteInv, CacheRight, CacheMatchesScreen
<1> QED  BY <1>1, RouteInvariant, PTL

\* Under the same condition on names an image that is sent reaches its chat
\* (send_image), if the steps of its own command are followed: neither a stale
\* cached chat nor the focus of earlier commands leads it astray.
THEOREM ImagesReachTheirChat == ASSUME NamesTellApart PROVE Spec => []ImageReachesTarget
<1>1. RouteInv => ImageReachesTarget
  BY DEF RouteInv
<1> QED  BY <1>1, RouteInvariant, PTL

\* Under the same condition on names a text typed into the main window finds its
\* chat open, if its command and the last switch were followed.
THEOREM MainTextsReachTheirChat == ASSUME NamesTellApart PROVE Spec => []MainTextReachesTarget
<1>1. RouteInv => MainTextReachesTarget
  BY DEF RouteInv
<1> QED  BY <1>1, RouteInvariant, PTL

=============================================================================
