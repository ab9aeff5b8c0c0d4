------------------------- MODULE MessageStoreProofs -------------------------
(***************************************************************************)
(* The safety properties of MessageStore, for every set of messages,       *)
(* readers and callers, every capacity and every set of page sizes.        *)
(***************************************************************************)
EXTENDS MessageStore, SequenceTheorems, TLAPS

-----------------------------------------------------------------------------
(***************************************************************************)
(* The inductive invariant.  The properties alone say nothing of what is   *)
(* under way: a message between its cursor and the buffer, a page on its   *)
(* way to a client, the locals of take_legacy.                             *)
(***************************************************************************)

\* The history agrees with the counter, and the message being pushed is the
\* last one of the history.
PushInFlight ==
  /\ Len(log) = next_cursor
  /\ stored # <<>> => /\ next_cursor > 0
                      /\ stored[1] = [cursor |-> next_cursor, message |-> log[next_cursor]]

\* A client's cursor is in the buffer's past, unless it came from /status.
CursorsInPast ==
  \A r \in Reader :
    /\ base[r] <= after[r] /\ after[r] <= next_cursor
    /\ after[r] = base[r] \/ after[r] <= Appended
    /\ \A s \in seen[r] : s.cursor <= after[r]

\* A page under way holds what lies between its reader's cursor and the next.
PagesAreWhole ==
  \A r \in Reader : request[r] # <<>> =>
    /\ after[r] <= request[r][1].next
    /\ request[r][1].next = after[r] \/ request[r][1].next <= Appended
    /\ \A e \in request[r][1].page : after[r] < e.cursor /\ e.cursor <= request[r][1].next
    /\ \A i \in DOMAIN messages :
         /\ after[r] < messages[i].cursor /\ messages[i].cursor <= request[r][1].next
         /\ messages[i].message \in Wants[r]
         => messages[i] \in request[r][1].page

\* What take_legacy loaded was true of the buffer then, and stays true of what
\* is left of it; its page holds all between the cursor loaded and the last.
LegacyLocals ==
  /\ legacy_cursor <= Appended
  /\ \A k \in LegacyCaller :
       /\ legacy[k].pc # "idle" =>
            /\ legacy[k].after <= Appended
            /\ \A i \in DOMAIN messages :
                 messages[i].cursor <= legacy[k].after => messages[i].cursor \in returned
       /\ legacy[k].pc = "queried" /\ legacy[k].page # {} =>
            /\ legacy[k].last <= Appended
            /\ \A i \in DOMAIN messages :
                 /\ legacy[k].after < messages[i].cursor /\ messages[i].cursor <= legacy[k].last
                 => messages[i].cursor \in legacy[k].page

IInv ==
  /\ TypeOK
  /\ PushInFlight
  /\ BufferIsNewest
  /\ CursorsInPast
  /\ PagesAreWhole
  /\ ReaderSkipsNothing
  /\ LegacyLocals
  /\ LegacyDropsNothing

-----------------------------------------------------------------------------
(***************************************************************************)
(* Facts about the operators of the model.                                 *)
(***************************************************************************)

\* A sequence of one element, the shape of `stored` and of a request.
LEMMA Singleton ==
  ASSUME NEW S, NEW e \in S
  PROVE  /\ <<e>> \in Seq(S) /\ Len(<<e>>) = 1
         /\ <<e>>[1] = e /\ <<e>> # <<>>
  OBVIOUS

\* A sequence of at most one element is empty or has that element.
LEMMA NoneOrOne ==
  ASSUME NEW S, NEW s \in Seq(S), Len(s) \in 0 .. 1
  PROVE  \/ s = <<>> /\ Len(s) = 0
         \/ s # <<>> /\ Len(s) = 1 /\ s[1] \in S
  OBVIOUS

Shorter(n) == IF n <= Capacity THEN n ELSE Capacity

\* Dropping old entries until the buffer fits keeps the newest ones in order
\* (push: pop_front while len > capacity).
LEMMA TrimKeepsNewest ==
  ASSUME NEW S, NEW buffer \in Seq(S)
  PROVE  /\ TrimToCapacity(buffer) \in Seq(S)
         /\ Len(TrimToCapacity(buffer)) = Shorter(Len(buffer))
         /\ \A i \in 1 .. Shorter(Len(buffer)) :
              TrimToCapacity(buffer)[i] = buffer[Len(buffer) - Shorter(Len(buffer)) + i]
<1>1. Len(buffer) \in Nat /\ Capacity \in Nat /\ Capacity >= 1
  BY MessageStoreAssumption, LenProperties
<1>2. CASE Len(buffer) <= Capacity
  <2>1. TrimToCapacity(buffer) = buffer /\ Shorter(Len(buffer)) = Len(buffer)
    BY <1>1, <1>2 DEF TrimToCapacity, Shorter
  <2>2. \A i \in 1 .. Len(buffer) : Len(buffer) - Len(buffer) + i = i
    BY <1>1
  <2> QED  BY <2>1, <2>2
<1>3. CASE Len(buffer) > Capacity
  <2> DEFINE first == Len(buffer) - Capacity + 1
  <2>1. /\ first \in Int /\ first >= 1
        /\ Len(buffer) - first + 1 = Capacity /\ first <= Len(buffer)
    BY <1>1, <1>3
  <2>2. \A i \in first .. Len(buffer) : buffer[i] \in S
    BY <1>1, <2>1, ElementOfSeq
  <2>3. /\ TrimToCapacity(buffer) = SubSeq(buffer, first, Len(buffer))
        /\ Shorter(Len(buffer)) = Capacity
    BY <1>3, <1>1 DEF TrimToCapacity, Shorter
  <2> HIDE DEF first
  <2>4. /\ SubSeq(buffer, first, Len(buffer)) \in Seq(S)
        /\ Len(SubSeq(buffer, first, Len(buffer))) = Capacity
        /\ \A i \in 1 .. Capacity :
             SubSeq(buffer, first, Len(buffer))[i] = buffer[first + i - 1]
    BY <1>1, <2>1, <2>2, SubSeqProperties
  <2>5. \A i \in 1 .. Capacity : first + i - 1 = Len(buffer) - Capacity + i
    BY <1>1 DEF first
  <2> QED  BY <2>3, <2>4, <2>5
<1> QED  BY <1>1, <1>2, <1>3

\* What a buffer in the shape BufferIsNewest describes gives a query: cursors
\* are naturals up to Appended and grow with the index.
LEMMA BufferCursors ==
  ASSUME TypeOK, PushInFlight, BufferIsNewest
  PROVE  /\ Appended \in Nat /\ Appended <= next_cursor
         /\ Len(messages) \in Nat /\ DOMAIN messages = 1 .. Len(messages)
         /\ \A i \in DOMAIN messages :
              /\ messages[i] \in BufferedMessage
              /\ messages[i].cursor = Appended - Len(messages) + i
              /\ messages[i].cursor \in Nat /\ messages[i].cursor <= Appended
<1>1. \/ stored = <<>> /\ Len(stored) = 0
      \/ stored # <<>> /\ Len(stored) = 1
  <2>1. stored \in Seq(BufferedMessage) /\ Len(stored) \in 0 .. 1
    BY DEF TypeOK
  <2> QED  BY <2>1, NoneOrOne
<1>2. next_cursor \in Nat /\ messages \in Seq(BufferedMessage)
  BY DEF TypeOK
<1>3. Len(messages) \in Nat /\ DOMAIN messages = 1 .. Len(messages)
  BY <1>2, LenProperties
<1>4. Appended \in Nat /\ Appended <= next_cursor
  <2>1. CASE stored = <<>> /\ Len(stored) = 0
    BY <2>1, <1>2 DEF Appended
  <2>2. CASE stored # <<>> /\ Len(stored) = 1
    <3>1. next_cursor > 0
      BY <2>2 DEF PushInFlight
    <3> QED  BY <2>2, <3>1, <1>2 DEF Appended
  <2> QED  BY <1>1, <2>1, <2>2
<1>5. ASSUME NEW i \in DOMAIN messages
      PROVE  /\ messages[i] \in BufferedMessage
             /\ messages[i].cursor = Appended - Len(messages) + i
  <2>1. messages[i] \in BufferedMessage
    BY <1>2, <1>3, ElementOfSeq
  <2>2. messages[i] = [cursor |-> Appended - Len(messages) + i,
                       message |-> log[Appended - Len(messages) + i]]
    BY DEF BufferIsNewest
  <2> QED  BY <2>1, <2>2
<1> QED  BY <1>2, <1>3, <1>4, <1>5 DEF BufferedMessage

\* push under the write lock: the buffer stays the newest messages, and its
\* entries are old ones or the one that was in flight.
LEMMA AppendEffect ==
  ASSUME TypeOK, PushInFlight, BufferIsNewest, AppendStored
  PROVE  /\ messages' \in Seq(BufferedMessage)
         /\ Appended' = Appended + 1 /\ Appended' = next_cursor
         /\ BufferIsNewest'
         /\ \A i \in DOMAIN messages' :
              \/ messages'[i] = stored[1]
              \/ \E j \in DOMAIN messages : messages'[i] = messages[j]
<1> DEFINE old == messages
           n == Len(messages)
           longer == Append(messages, stored[1])
           kept == Shorter(n + 1)
<1>1. /\ next_cursor \in Nat /\ old \in Seq(BufferedMessage)
      /\ stored \in Seq(BufferedMessage) /\ stored # <<>> /\ Len(stored) = 1
      /\ stored[1] \in BufferedMessage
      /\ stored[1] = [cursor |-> next_cursor, message |-> log[next_cursor]]
  <2>1. /\ next_cursor \in Nat /\ old \in Seq(BufferedMessage)
        /\ stored \in Seq(BufferedMessage) /\ Len(stored) \in 0 .. 1 /\ stored # <<>>
    BY DEF TypeOK, AppendStored
  <2>2. Len(stored) = 1 /\ stored[1] \in BufferedMessage
    BY <2>1, NoneOrOne
  <2>3. stored[1] = [cursor |-> next_cursor, message |-> log[next_cursor]]
    BY <2>1 DEF PushInFlight
  <2> QED  BY <2>1, <2>2, <2>3
<1>2. n \in Nat /\ DOMAIN old = 1 .. n
  BY <1>1, LenProperties
<1>3. /\ longer \in Seq(BufferedMessage) /\ Len(longer) = n + 1
      /\ \A i \in 1 .. n : longer[i] = old[i]
      /\ longer[n + 1] = stored[1]
  BY <1>1, AppendProperties
<1>4. kept \in Nat /\ kept >= 1 /\ kept <= n + 1 /\ kept <= Capacity
  BY <1>2, MessageStoreAssumption DEF Shorter
<1>5. /\ messages' = TrimToCapacity(longer) /\ stored' = <<>>
      /\ next_cursor' = next_cursor /\ log' = log
  BY DEF AppendStored, historyVars
<1>6. /\ messages' \in Seq(BufferedMessage)
      /\ Len(messages') = kept
      /\ \A i \in 1 .. kept : messages'[i] = longer[n + 1 - kept + i]
  <2>1. /\ TrimToCapacity(longer) \in Seq(BufferedMessage)
        /\ Len(TrimToCapacity(longer)) = Shorter(Len(longer))
        /\ \A i \in 1 .. Shorter(Len(longer)) :
             TrimToCapacity(longer)[i] = longer[Len(longer) - Shorter(Len(longer)) + i]
    BY <1>3, TrimKeepsNewest
  <2> HIDE DEF longer
  <2> QED  BY <1>3, <1>5, <2>1
<1>7. DOMAIN messages' = 1 .. kept
  BY <1>6, LenProperties
<1>8. Appended = next_cursor - 1 /\ Appended' = next_cursor
  <2>1. Len(<<>>) = 0
    OBVIOUS
  <2>2. Appended' = next_cursor' - Len(stored')
    BY DEF Appended
  <2> QED  BY <1>1, <1>5, <2>1, <2>2 DEF Appended
<1>9. n = IF Appended <= Capacity THEN Appended ELSE Capacity
  BY DEF BufferIsNewest
<1>10. \A j \in 1 .. n : old[j] = [cursor |-> Appended - n + j,
                                   message |-> log[Appended - n + j]]
  BY <1>2 DEF BufferIsNewest
<1> HIDE DEF old, n, longer, kept
<1>11. ASSUME NEW i \in 1 .. kept
       PROVE  /\ \/ messages'[i] = stored[1]
                 \/ \E j \in DOMAIN old : messages'[i] = old[j]
              /\ messages'[i] = [cursor |-> next_cursor - kept + i,
                                 message |-> log[next_cursor - kept + i]]
  <2>1. CASE i = kept
    <3>1. n + 1 - kept + i = n + 1 /\ next_cursor - kept + i = next_cursor
      BY <2>1, <1>1, <1>2, <1>4
    <3> QED  BY <3>1, <1>1, <1>3, <1>6
  <2>2. CASE i # kept
    <3>1. n + 1 - kept + i \in 1 .. n
      BY <2>2, <1>2, <1>4
    <3>2. Appended - n + (n + 1 - kept + i) = next_cursor - kept + i
      BY <1>1, <1>2, <1>4, <1>8
    <3>3. messages'[i] = old[n + 1 - kept + i]
      BY <3>1, <1>3, <1>6
    <3> QED  BY <3>1, <3>2, <3>3, <1>2, <1>10
  <2> QED  BY <2>1, <2>2
<1>12. kept = IF next_cursor <= Capacity THEN next_cursor ELSE Capacity
  BY <1>1, <1>2, <1>8, <1>9, MessageStoreAssumption DEF kept, Shorter
<1>13. BufferIsNewest'
  BY <1>5, <1>6, <1>7, <1>8, <1>11, <1>12 DEF BufferIsNewest
<1> QED  BY <1>1, <1>6, <1>7, <1>8, <1>11, <1>13 DEF old

-----------------------------------------------------------------------------
(***************************************************************************)
(* The inductive invariant holds initially and every action preserves it.  *)
(***************************************************************************)

LEMMA InitIInv == Init => IInv
<1> SUFFICES ASSUME Init  PROVE IInv
  OBVIOUS
<1>1. Len(<<>>) = 0 /\ DOMAIN <<>> = {} /\ \A S : <<>> \in Seq(S)
  OBVIOUS
<1>2. /\ next_cursor = 0 /\ legacy_cursor = 0 /\ messages = <<>> /\ stored = <<>>
      /\ log = <<>> /\ returned = {} /\ request = [r \in Reader |-> <<>>]
      /\ after = [r \in Reader |-> 0] /\ base = [r \in Reader |-> 0]
      /\ seen = [r \in Reader |-> {}] /\ legacy = [k \in LegacyCaller |-> NoCall]
  BY DEF Init
<1>3. TypeOK
  BY <1>1, <1>2 DEF TypeOK, NoCall
<1>4. Appended = 0
  <2>1. next_cursor = 0 /\ Len(stored) = 0
    BY <1>1, <1>2
  <2> QED  BY <2>1 DEF Appended
<1>5. PushInFlight
  BY <1>1, <1>2 DEF PushInFlight
<1>6. BufferIsNewest
  BY <1>1, <1>2, <1>4, MessageStoreAssumption DEF BufferIsNewest
<1>7. CursorsInPast
  BY <1>2, <1>4 DEF CursorsInPast
<1>8. PagesAreWhole
  BY <1>2 DEF PagesAreWhole
<1>9. ReaderSkipsNothing
  BY <1>1, <1>2 DEF ReaderSkipsNothing
<1>10. LegacyLocals
  BY <1>1, <1>2, <1>4 DEF LegacyLocals, NoCall
<1>11. LegacyDropsNothing
  BY <1>1, <1>2 DEF LegacyDropsNothing
<1> QED  BY <1>3, <1>5, <1>6, <1>7, <1>8, <1>9, <1>10, <1>11 DEF IInv

\* push, first half: the counter runs ahead, the buffer stays.
LEMMA TakeCursorKeepsIInv ==
  ASSUME IInv, NEW m \in Message, TakeCursor(m)
  PROVE  IInv'
<1>1. /\ TypeOK /\ PushInFlight /\ BufferIsNewest /\ CursorsInPast /\ PagesAreWhole
      /\ ReaderSkipsNothing /\ LegacyLocals /\ LegacyDropsNothing
  BY DEF IInv
<1>2. /\ next_cursor' = next_cursor + 1 /\ log' = Append(log, m) /\ stored = <<>>
      /\ stored' = <<[cursor |-> next_cursor + 1, message |-> m]>>
      /\ messages' = messages /\ legacy_cursor' = legacy_cursor /\ legacy' = legacy
      /\ request' = request /\ after' = after
      /\ base' = base /\ seen' = seen /\ returned' = returned
  BY DEF TakeCursor, clientVars
<1>3. /\ next_cursor \in Nat /\ log \in Seq(Message) /\ Len(log) = next_cursor
      /\ messages \in Seq(BufferedMessage)
      /\ after \in [Reader -> Nat] /\ base \in [Reader -> Nat]
  BY <1>1 DEF TypeOK, PushInFlight
<1>4. /\ log' \in Seq(Message) /\ Len(log') = next_cursor + 1
      /\ log'[next_cursor + 1] = m
      /\ \A c \in 1 .. next_cursor : log'[c] = log[c]
  BY <1>2, <1>3, AppendProperties
<1>5. [cursor |-> next_cursor + 1, message |-> m] \in BufferedMessage
  BY <1>3 DEF BufferedMessage
<1>6. /\ stored' \in Seq(BufferedMessage) /\ Len(stored') = 1
      /\ stored'[1] = [cursor |-> next_cursor + 1, message |-> m]
  BY <1>2, <1>5, Singleton
<1>7. Appended' = Appended /\ Appended = next_cursor
  <2>1. Len(stored) = 0
    BY <1>2
  <2> QED  BY <1>2, <1>3, <1>6, <2>1 DEF Appended
<1>8. TypeOK'
  <2>1. next_cursor' \in Nat /\ Len(stored') \in 0 .. 1
    BY <1>2, <1>3, <1>6
  <2> QED  BY <1>1, <1>2, <1>4, <1>6, <2>1 DEF TypeOK
<1>9. PushInFlight'
  <2>1. next_cursor' > 0 /\ Len(log') = next_cursor'
    BY <1>2, <1>3, <1>4
  <2>2. stored'[1] = [cursor |-> next_cursor', message |-> log'[next_cursor']]
    BY <1>2, <1>4, <1>6
  <2> QED  BY <2>1, <2>2 DEF PushInFlight
<1>10. BufferIsNewest'
  <2>1. /\ Len(messages) \in Nat /\ DOMAIN messages = 1 .. Len(messages)
        /\ Len(messages) = IF Appended <= Capacity THEN Appended ELSE Capacity
    BY <1>1, BufferCursors DEF BufferIsNewest
  <2>2. \A i \in DOMAIN messages : Appended - Len(messages) + i \in 1 .. next_cursor
    BY <1>3, <1>7, <2>1, MessageStoreAssumption
  <2>3. \A i \in DOMAIN messages :
          messages[i] = [cursor |-> Appended - Len(messages) + i,
                         message |-> log[Appended - Len(messages) + i]]
    BY <1>1 DEF BufferIsNewest
  <2> QED  BY <1>2, <1>4, <1>7, <2>1, <2>2, <2>3 DEF BufferIsNewest
<1>11. CursorsInPast'
  BY <1>1, <1>2, <1>3, <1>7 DEF CursorsInPast
<1>12. PagesAreWhole'
  BY <1>1, <1>2, <1>7 DEF PagesAreWhole
<1>13. ReaderSkipsNothing'
  BY <1>1, <1>2 DEF ReaderSkipsNothing
<1>14. LegacyLocals' /\ LegacyDropsNothing'
  BY <1>1, <1>2, <1>7 DEF LegacyLocals, LegacyDropsNothing
<1> QED  BY <1>8, <1>9, <1>10, <1>11, <1>12, <1>13, <1>14 DEF IInv

\* push, second half: the entry that was in flight is newer than every cursor
\* that counts, and eviction only removes obligations.
LEMMA AppendStoredKeepsIInv ==
  ASSUME IInv, AppendStored
  PROVE  IInv'
<1>1. /\ TypeOK /\ PushInFlight /\ BufferIsNewest /\ CursorsInPast /\ PagesAreWhole
      /\ ReaderSkipsNothing /\ LegacyLocals /\ LegacyDropsNothing
  BY DEF IInv
<1>2. /\ messages' \in Seq(BufferedMessage)
      /\ Appended' = Appended + 1 /\ Appended' = next_cursor
      /\ BufferIsNewest'
      /\ \A i \in DOMAIN messages' :
           \/ messages'[i] = stored[1]
           \/ \E j \in DOMAIN messages : messages'[i] = messages[j]
  BY <1>1, AppendEffect
<1>3. /\ next_cursor' = next_cursor /\ legacy_cursor' = legacy_cursor
      /\ stored # <<>> /\ stored' = <<>>
      /\ legacy' = legacy /\ request' = request /\ after' = after /\ log' = log
      /\ base' = base /\ seen' = seen /\ returned' = returned
  BY DEF AppendStored, clientVars, historyVars
<1>4. stored[1].cursor = Appended + 1 /\ Appended \in Nat
  <2>1. stored[1] = [cursor |-> next_cursor, message |-> log[next_cursor]]
    BY <1>1, <1>3 DEF PushInFlight
  <2> QED  BY <2>1, <1>1, <1>2, BufferCursors
<1>5. /\ legacy_cursor \in Nat /\ after \in [Reader -> Nat] /\ base \in [Reader -> Nat]
      /\ next_cursor \in Nat
  BY <1>1 DEF TypeOK
<1>6. TypeOK'
  <2>1. <<>> \in Seq(BufferedMessage) /\ Len(<<>>) \in 0 .. 1
    OBVIOUS
  <2> QED  BY <1>1, <1>2, <1>3, <2>1 DEF TypeOK
<1>7. PushInFlight'
  BY <1>1, <1>3 DEF PushInFlight
<1>8. CursorsInPast'
  <2>1. ASSUME NEW r \in Reader
        PROVE  /\ base[r] <= after[r] /\ after[r] <= next_cursor
               /\ after[r] = base[r] \/ after[r] <= Appended
               /\ \A s \in seen[r] : s.cursor <= after[r]
               /\ after[r] \in Nat
    BY <1>1, <1>5 DEF CursorsInPast
  <2>2. ASSUME NEW r \in Reader  PROVE after[r] = base[r] \/ after[r] <= Appended'
    BY <2>1, <1>2, <1>4
  <2> QED  BY <1>3, <2>1, <2>2 DEF CursorsInPast
<1>9. PagesAreWhole'
  <2> SUFFICES ASSUME NEW r \in Reader, request[r] # <<>>
               PROVE  /\ after[r] <= request[r][1].next
                      /\ \/ request[r][1].next = after[r]
                         \/ request[r][1].next <= Appended'
                      /\ \A e \in request[r][1].page :
                           after[r] < e.cursor /\ e.cursor <= request[r][1].next
                      /\ \A i \in DOMAIN messages' :
                           /\ after[r] < messages'[i].cursor
                           /\ messages'[i].cursor <= request[r][1].next
                           /\ messages'[i].message \in Wants[r]
                           => messages'[i] \in request[r][1].page
    BY <1>3 DEF PagesAreWhole
  <2> DEFINE next == request[r][1].next
             page == request[r][1].page
  <2>1. next \in Nat /\ after[r] \in Nat
    <3>1. /\ request[r] \in Seq([page : SUBSET BufferedMessage, next : Nat])
          /\ Len(request[r]) \in 0 .. 1
      BY <1>1 DEF TypeOK
    <3>2. request[r][1] \in [page : SUBSET BufferedMessage, next : Nat]
      BY <3>1, NoneOrOne
    <3> QED  BY <3>2, <1>5
  <2>2. /\ after[r] <= next /\ (next = after[r] \/ next <= Appended)
        /\ \A e \in page : after[r] < e.cursor /\ e.cursor <= next
        /\ \A i \in DOMAIN messages :
             /\ after[r] < messages[i].cursor /\ messages[i].cursor <= next
             /\ messages[i].message \in Wants[r]
             => messages[i] \in page
    BY <1>1 DEF PagesAreWhole
  <2> HIDE DEF next, page
  <2>3. ASSUME NEW i \in DOMAIN messages', messages'[i] = stored[1],
               after[r] < messages'[i].cursor, messages'[i].cursor <= next
        PROVE  FALSE
    BY <2>1, <2>2, <2>3, <1>4
  <2>4. next = after[r] \/ next <= Appended'
    BY <2>1, <2>2, <1>2, <1>4
  <2> QED  BY <1>2, <2>2, <2>3, <2>4 DEF next, page
<1>10. ReaderSkipsNothing'
  <2> SUFFICES ASSUME NEW r \in Reader, NEW i \in DOMAIN messages',
                      messages'[i].cursor > base[r], messages'[i].cursor <= after[r],
                      messages'[i].message \in Wants[r]
               PROVE  messages'[i] \in seen[r]
    BY <1>3 DEF ReaderSkipsNothing
  <2>1. messages'[i] # stored[1]
    <3>1. after[r] = base[r] \/ after[r] <= Appended
      BY <1>1 DEF CursorsInPast
    <3> QED  BY <1>4, <1>5, <3>1
  <2> QED  BY <1>1, <1>2, <2>1 DEF ReaderSkipsNothing
<1>11. LegacyDropsNothing'
  <2> SUFFICES ASSUME NEW i \in DOMAIN messages', messages'[i].cursor <= legacy_cursor
               PROVE  messages'[i].cursor \in returned
    BY <1>3 DEF LegacyDropsNothing
  <2>1. messages'[i] # stored[1]
    BY <1>1, <1>4, <1>5 DEF LegacyLocals
  <2> QED  BY <1>1, <1>2, <2>1 DEF LegacyDropsNothing
<1>12. LegacyLocals'
  <2>1. ASSUME NEW k \in LegacyCaller
        PROVE  legacy[k].after \in Nat /\ legacy[k].last \in Nat
    BY <1>1 DEF TypeOK
  <2>2. legacy_cursor <= Appended'
    BY <1>1, <1>2, <1>4, <1>5 DEF LegacyLocals
  <2>3. ASSUME NEW k \in LegacyCaller, legacy[k].pc # "idle"
        PROVE  /\ legacy[k].after <= Appended'
               /\ \A i \in DOMAIN messages' :
                    messages'[i].cursor <= legacy[k].after => messages'[i].cursor \in returned
    BY <1>1, <1>2, <1>4, <2>1, <2>3 DEF LegacyLocals
  <2>4. ASSUME NEW k \in LegacyCaller, legacy[k].pc = "queried", legacy[k].page # {}
        PROVE  /\ legacy[k].last <= Appended'
               /\ \A i \in DOMAIN messages' :
                    /\ legacy[k].after < messages'[i].cursor
                    /\ messages'[i].cursor <= legacy[k].last
                    => messages'[i].cursor \in legacy[k].page
    BY <1>1, <1>2, <1>4, <2>1, <2>4 DEF LegacyLocals
  <2> QED  BY <1>3, <2>2, <2>3, <2>4 DEF LegacyLocals
<1> QED  BY <1>2, <1>6, <1>7, <1>8, <1>9, <1>10, <1>11, <1>12 DEF IInv

\* The query under the read lock: the page is a whole stretch of the buffer,
\* because cursors grow with the index.
LEMMA PageOfQuery ==
  ASSUME TypeOK, PushInFlight, BufferIsNewest,
         NEW from \in Nat, NEW wanted \in SUBSET Message, NEW limit \in Nat,
         NEW last \in 0 .. Len(messages), IsPage(last, from, wanted, limit)
  PROVE  /\ Entries(PageUpTo(last, from, wanted)) \subseteq BufferedMessage
         /\ LastCursor(last, from) \in Nat /\ from <= LastCursor(last, from)
         /\ \/ last = 0 /\ LastCursor(last, from) = from
            \/ last # 0 /\ LastCursor(last, from) <= Appended
         /\ \A i \in PageUpTo(last, from, wanted) :
              /\ i \in DOMAIN messages /\ last # 0
              /\ from < messages[i].cursor /\ messages[i].cursor <= LastCursor(last, from)
         /\ \A i \in DOMAIN messages :
              /\ from < messages[i].cursor /\ messages[i].cursor <= LastCursor(last, from)
              /\ messages[i].message \in wanted
              => i \in PageUpTo(last, from, wanted)
<1>1. /\ Appended \in Nat /\ Len(messages) \in Nat /\ DOMAIN messages = 1 .. Len(messages)
      /\ \A i \in DOMAIN messages :
           /\ messages[i] \in BufferedMessage
           /\ messages[i].cursor = Appended - Len(messages) + i
           /\ messages[i].cursor \in Nat /\ messages[i].cursor <= Appended
  BY BufferCursors
<1>2. \A i \in PageUpTo(last, from, wanted) :
        i \in DOMAIN messages /\ messages[i].cursor > from /\ i <= last
  BY DEF PageUpTo, Matched
<1>3. CASE last = 0
  <2>1. PageUpTo(last, from, wanted) = {}
    BY <1>1, <1>2, <1>3
  <2>2. LastCursor(last, from) = from
    BY <1>3 DEF LastCursor
  <2>3. Entries(PageUpTo(last, from, wanted)) = {}
    BY <2>1 DEF Entries
  <2> QED  BY <1>1, <1>3, <2>1, <2>2, <2>3
<1>4. CASE last # 0
  <2>1. last \in Matched(from, wanted)
    BY <1>4 DEF IsPage
  <2>2. /\ last \in DOMAIN messages /\ messages[last].cursor > from
        /\ LastCursor(last, from) = messages[last].cursor
    BY <1>4, <2>1 DEF Matched, LastCursor
  <2>3. LastCursor(last, from) \in Nat /\ from <= LastCursor(last, from)
        /\ LastCursor(last, from) <= Appended
    BY <1>1, <2>2
  <2>4. ASSUME NEW i \in DOMAIN messages
        PROVE  i <= last <=> messages[i].cursor <= LastCursor(last, from)
    BY <1>1, <2>2
  <2>5. ASSUME NEW i \in DOMAIN messages, messages[i].message \in wanted,
               from < messages[i].cursor, messages[i].cursor <= LastCursor(last, from)
        PROVE  i \in PageUpTo(last, from, wanted)
    BY <1>1, <2>4, <2>5 DEF PageUpTo, Matched
  <2>6. \A i \in PageUpTo(last, from, wanted) :
          from < messages[i].cursor /\ messages[i].cursor <= LastCursor(last, from)
    BY <1>1, <1>2, <2>4
  <2>7. Entries(PageUpTo(last, from, wanted)) \subseteq BufferedMessage
    BY <1>1, <1>2 DEF Entries
  <2> QED  BY <1>2, <1>4, <2>3, <2>5, <2>6, <2>7
<1> QED  BY <1>3, <1>4

\* GET /messages and what becomes of its page: the buffer does not move.
LEMMA ReaderStepKeepsIInv ==
  ASSUME IInv, NEW q \in Reader,
         GetMessages(q) \/ ReceivePage(q) \/ LosePage(q) \/ StartFromStatus(q)
  PROVE  IInv'
<1> DEFINE Page == [page : SUBSET BufferedMessage, next : Nat]
<1>1. /\ TypeOK /\ PushInFlight /\ BufferIsNewest /\ CursorsInPast /\ PagesAreWhole
      /\ ReaderSkipsNothing /\ LegacyLocals /\ LegacyDropsNothing
  BY DEF IInv
<1>2. /\ next_cursor' = next_cursor /\ messages' = messages /\ stored' = stored
      /\ legacy_cursor' = legacy_cursor /\ legacy' = legacy
      /\ log' = log /\ returned' = returned
  BY DEF GetMessages, ReceivePage, LosePage, StartFromStatus, serverVars, historyVars
<1>3. /\ next_cursor \in Nat /\ Appended \in Nat /\ Appended <= next_cursor
      /\ messages \in Seq(BufferedMessage)
      /\ after \in [Reader -> Nat] /\ base \in [Reader -> Nat]
      /\ seen \in [Reader -> SUBSET BufferedMessage] /\ request \in [Reader -> Seq(Page)]
      /\ \A r \in Reader : Len(request[r]) \in 0 .. 1
      /\ \A i \in DOMAIN messages : messages[i].cursor \in Nat
  BY <1>1, BufferCursors DEF TypeOK
<1>4. Appended' = Appended
  BY <1>2 DEF Appended
<1>5. PushInFlight' /\ BufferIsNewest' /\ LegacyLocals' /\ LegacyDropsNothing'
  BY <1>1, <1>2, <1>4 DEF PushInFlight, BufferIsNewest, LegacyLocals, LegacyDropsNothing
<1>6. ASSUME request' \in [Reader -> Seq(Page)],
             \A r \in Reader : Len(request'[r]) \in 0 .. 1,
             after' \in [Reader -> Nat], base' \in [Reader -> Nat],
             seen' \in [Reader -> SUBSET BufferedMessage]
      PROVE  TypeOK'
  BY <1>1, <1>2, <1>6 DEF TypeOK
<1>7. <<>> \in Seq(Page) /\ Len(<<>>) \in 0 .. 1
  OBVIOUS
<1>8. ASSUME request[q] # <<>>
      PROVE  request[q][1].page \subseteq BufferedMessage /\ request[q][1].next \in Nat
  <2>1. request[q][1] \in Page
    BY <1>3, <1>8, NoneOrOne
  <2> QED  BY <2>1
<1>9. CASE GetMessages(q)
  <2>1. PICK limit \in Limits, last \in 0 .. Len(messages) :
          /\ IsPage(last, after[q], Wants[q], limit)
          /\ request' = [request EXCEPT ![q] =
               <<[page |-> Entries(PageUpTo(last, after[q], Wants[q])),
                  next |-> LastCursor(last, after[q])]>>]
    BY <1>9 DEF GetMessages
  <2> DEFINE page == Entries(PageUpTo(last, after[q], Wants[q]))
             next == LastCursor(last, after[q])
  <2>2. after' = after /\ base' = base /\ seen' = seen
    BY <1>9 DEF GetMessages, historyVars
  <2>3. after[q] \in Nat /\ Wants[q] \in SUBSET Message /\ limit \in Nat
    BY <1>3, MessageStoreAssumption
  <2>4. /\ page \subseteq BufferedMessage
        /\ next \in Nat /\ after[q] <= next
        /\ \/ last = 0 /\ next = after[q]
           \/ last # 0 /\ next <= Appended
        /\ \A i \in PageUpTo(last, after[q], Wants[q]) :
             /\ i \in DOMAIN messages /\ last # 0
             /\ after[q] < messages[i].cursor /\ messages[i].cursor <= next
        /\ \A i \in DOMAIN messages :
             /\ after[q] < messages[i].cursor /\ messages[i].cursor <= next
             /\ messages[i].message \in Wants[q]
             => i \in PageUpTo(last, after[q], Wants[q])
    BY <1>1, <2>1, <2>3, PageOfQuery
  <2>5. /\ \A e \in page : after[q] < e.cursor /\ e.cursor <= next
        /\ \A i \in DOMAIN messages :
             /\ after[q] < messages[i].cursor /\ messages[i].cursor <= next
             /\ messages[i].message \in Wants[q]
             => messages[i] \in page
    BY <2>4 DEF Entries
  <2> HIDE DEF page, next
  <2>6. [page |-> page, next |-> next] \in Page
    BY <2>4
  <2>7. /\ <<[page |-> page, next |-> next]>> \in Seq(Page)
        /\ Len(<<[page |-> page, next |-> next]>>) = 1
        /\ <<[page |-> page, next |-> next]>>[1] = [page |-> page, next |-> next]
    BY <2>6, Singleton
  <2>8. request' = [request EXCEPT ![q] = <<[page |-> page, next |-> next]>>]
    BY <2>1 DEF page, next
  <2>9. /\ request' \in [Reader -> Seq(Page)]
        /\ request'[q][1].page = page /\ request'[q][1].next = next
        /\ Len(request'[q]) = 1
        /\ \A r \in Reader : r # q => request'[r] = request[r]
    BY <1>3, <2>7, <2>8
  <2>10. TypeOK'
    <3>1. \A r \in Reader : Len(request'[r]) \in 0 .. 1
      BY <1>3, <2>9
    <3> QED  BY <1>3, <1>6, <2>2, <2>9, <3>1
  <2>11. CursorsInPast' /\ ReaderSkipsNothing'
    BY <1>1, <1>2, <1>4, <2>2 DEF CursorsInPast, ReaderSkipsNothing
  <2>12. PagesAreWhole'
    <3> SUFFICES ASSUME NEW r \in Reader, request'[r] # <<>>
                 PROVE  /\ after[r] <= request'[r][1].next
                        /\ \/ request'[r][1].next = after[r]
                           \/ request'[r][1].next <= Appended
                        /\ \A e \in request'[r][1].page :
                             after[r] < e.cursor /\ e.cursor <= request'[r][1].next
                        /\ \A i \in DOMAIN messages :
                             /\ after[r] < messages[i].cursor
                             /\ messages[i].cursor <= request'[r][1].next
                             /\ messages[i].message \in Wants[r]
                             => messages[i] \in request'[r][1].page
      BY <1>2, <1>4, <2>2 DEF PagesAreWhole
    <3>1. CASE r = q
      BY <2>4, <2>5, <2>9, <3>1
    <3>2. CASE r # q
      BY <1>1, <2>9, <3>2 DEF PagesAreWhole
    <3> QED  BY <3>1, <3>2
  <2> QED  BY <1>5, <2>10, <2>11, <2>12 DEF IInv
<1>10. CASE ReceivePage(q)
  <2> DEFINE page == request[q][1].page
             next == request[q][1].next
  <2>1. /\ request[q] # <<>> /\ request' = [request EXCEPT ![q] = <<>>]
        /\ after' = [after EXCEPT ![q] = next]
        /\ seen' = [seen EXCEPT ![q] = seen[q] \cup page]
        /\ base' = base
    BY <1>10 DEF ReceivePage
  <2>2. page \subseteq BufferedMessage /\ next \in Nat
    BY <1>8, <2>1
  <2>3. /\ after[q] <= next /\ (next = after[q] \/ next <= Appended)
        /\ \A e \in page : after[q] < e.cursor /\ e.cursor <= next
        /\ \A i \in DOMAIN messages :
             /\ after[q] < messages[i].cursor /\ messages[i].cursor <= next
             /\ messages[i].message \in Wants[q]
             => messages[i] \in page
    BY <1>1, <2>1 DEF PagesAreWhole
  <2> HIDE DEF page, next
  <2>4. TypeOK'
    <3>1. /\ request' \in [Reader -> Seq(Page)]
          /\ \A r \in Reader : Len(request'[r]) \in 0 .. 1
      BY <1>3, <1>7, <2>1
    <3>2. after' \in [Reader -> Nat] /\ seen' \in [Reader -> SUBSET BufferedMessage]
      BY <1>3, <2>1, <2>2
    <3> QED  BY <1>3, <1>6, <2>1, <3>1, <3>2
  <2>5. CursorsInPast'
    <3> SUFFICES ASSUME NEW r \in Reader
                 PROVE  /\ base[r] <= after'[r] /\ after'[r] <= next_cursor
                        /\ after'[r] = base[r] \/ after'[r] <= Appended
                        /\ \A s \in seen'[r] : s.cursor <= after'[r]
      BY <1>2, <1>4, <2>1 DEF CursorsInPast
    <3>1. /\ base[r] <= after[r] /\ after[r] <= next_cursor
          /\ after[r] = base[r] \/ after[r] <= Appended
          /\ \A s \in seen[r] : s.cursor <= after[r]
          /\ after[r] \in Nat /\ base[r] \in Nat
      BY <1>1, <1>3 DEF CursorsInPast
    <3>2. CASE r # q
      BY <1>3, <2>1, <3>1, <3>2
    <3>3. CASE r = q
      <4>1. after'[r] = next /\ seen'[r] = seen[r] \cup page
        BY <1>3, <2>1, <3>3
      <4>2. base[r] <= next /\ next <= next_cursor /\ (next = base[r] \/ next <= Appended)
        BY <1>3, <2>2, <2>3, <3>1, <3>3
      <4>3. \A s \in seen[r] : s \in BufferedMessage /\ s.cursor \in Nat
        BY <1>3 DEF BufferedMessage
      <4>4. \A s \in seen[r] : s.cursor <= next
        BY <2>2, <2>3, <3>1, <3>3, <4>3
      <4>5. \A s \in page : s.cursor <= next
        BY <2>3
      <4> QED  BY <4>1, <4>2, <4>4, <4>5
    <3> QED  BY <3>2, <3>3
  <2>6. PagesAreWhole'
    <3>1. /\ request'[q] = <<>>
          /\ \A r \in Reader : r # q => request'[r] = request[r] /\ after'[r] = after[r]
      BY <1>3, <2>1
    <3> QED  BY <1>1, <1>2, <1>4, <3>1 DEF PagesAreWhole
  <2>7. ReaderSkipsNothing'
    <3> SUFFICES ASSUME NEW r \in Reader, NEW i \in DOMAIN messages,
                        messages[i].cursor > base[r], messages[i].cursor <= after'[r],
                        messages[i].message \in Wants[r]
                 PROVE  messages[i] \in seen'[r]
      BY <1>2, <2>1 DEF ReaderSkipsNothing
    <3>1. CASE r # q
      BY <1>1, <1>3, <2>1, <3>1 DEF ReaderSkipsNothing
    <3>2. CASE r = q
      <4>1. after'[r] = next /\ seen'[r] = seen[r] \cup page
        BY <1>3, <2>1, <3>2
      <4>2. CASE messages[i].cursor <= after[r]
        BY <1>1, <4>1, <4>2 DEF ReaderSkipsNothing
      <4>3. CASE after[r] < messages[i].cursor
        BY <2>3, <3>2, <4>1, <4>3
      <4>4. messages[i].cursor <= after[r] \/ after[r] < messages[i].cursor
        BY <1>3
      <4> QED  BY <4>2, <4>3, <4>4
    <3> QED  BY <3>1, <3>2
  <2> QED  BY <1>5, <2>4, <2>5, <2>6, <2>7 DEF IInv
<1>11. CASE LosePage(q)
  <2>1. /\ request' = [request EXCEPT ![q] = <<>>] /\ after' = after
        /\ base' = base /\ seen' = seen
    BY <1>11 DEF LosePage, historyVars
  <2>2. /\ request' \in [Reader -> Seq(Page)]
        /\ \A r \in Reader : Len(request'[r]) \in 0 .. 1
        /\ request'[q] = <<>> /\ \A r \in Reader : r # q => request'[r] = request[r]
    BY <1>3, <1>7, <2>1
  <2>3. TypeOK'
    BY <1>3, <1>6, <2>1, <2>2
  <2>4. CursorsInPast' /\ ReaderSkipsNothing'
    BY <1>1, <1>2, <1>4, <2>1 DEF CursorsInPast, ReaderSkipsNothing
  <2>5. PagesAreWhole'
    BY <1>1, <1>2, <1>4, <2>1, <2>2 DEF PagesAreWhole
  <2> QED  BY <1>5, <2>3, <2>4, <2>5 DEF IInv
<1>12. CASE StartFromStatus(q)
  <2>1. /\ request[q] = <<>> /\ seen[q] = {}
        /\ after' = [after EXCEPT ![q] = next_cursor]
        /\ base' = [base EXCEPT ![q] = next_cursor]
        /\ request' = request /\ seen' = seen
    BY <1>12 DEF StartFromStatus
  <2>2. /\ after' \in [Reader -> Nat] /\ base' \in [Reader -> Nat]
        /\ after'[q] = next_cursor /\ base'[q] = next_cursor
        /\ \A r \in Reader : r # q => after'[r] = after[r] /\ base'[r] = base[r]
    BY <1>3, <2>1
  <2>3. TypeOK'
    BY <1>3, <1>6, <2>1, <2>2
  <2>4. CursorsInPast'
    <3>1. next_cursor <= next_cursor
      BY <1>3
    <3> QED  BY <1>1, <1>2, <1>4, <2>1, <2>2, <3>1 DEF CursorsInPast
  <2>5. PagesAreWhole'
    <3>1. \A r \in Reader : request'[r] # <<>> => r # q /\ after'[r] = after[r]
      BY <2>1, <2>2
    <3> QED  BY <1>1, <1>2, <1>4, <2>1, <3>1 DEF PagesAreWhole
  <2>6. ReaderSkipsNothing'
    <3>1. \A i \in DOMAIN messages :
            ~ (messages[i].cursor > next_cursor /\ messages[i].cursor <= next_cursor)
      BY <1>3
    <3> QED  BY <1>1, <1>2, <2>1, <2>2, <3>1 DEF ReaderSkipsNothing
  <2> QED  BY <1>5, <2>3, <2>4, <2>5, <2>6 DEF IInv
<1> QED  BY <1>9, <1>10, <1>11, <1>12

\* take_legacy: three steps, other callers in between.
LEMMA LegacyStepKeepsIInv ==
  ASSUME IInv, NEW q \in LegacyCaller, Legacy(q)
  PROVE  IInv'
<1> DEFINE Call == [pc : {"idle", "loaded", "queried"}, after : Nat,
                    page : SUBSET Nat, last : Nat]
<1>1. /\ TypeOK /\ PushInFlight /\ BufferIsNewest /\ CursorsInPast /\ PagesAreWhole
      /\ ReaderSkipsNothing /\ LegacyLocals /\ LegacyDropsNothing
  BY DEF IInv
<1>2. /\ next_cursor' = next_cursor /\ messages' = messages /\ stored' = stored
      /\ request' = request /\ after' = after
      /\ log' = log /\ base' = base /\ seen' = seen
  BY DEF Legacy, LegacyLoad, LegacyQuery, LegacyStore, clientVars, historyVars
<1>3. /\ Appended \in Nat /\ legacy_cursor \in Nat /\ returned \in SUBSET Nat
      /\ messages \in Seq(BufferedMessage) /\ legacy \in [LegacyCaller -> Call]
      /\ \A i \in DOMAIN messages :
           messages[i].cursor \in Nat /\ messages[i].cursor <= Appended
  BY <1>1, BufferCursors DEF TypeOK
<1>4. Appended' = Appended
  BY <1>2 DEF Appended
<1>5. /\ PushInFlight' /\ BufferIsNewest' /\ CursorsInPast' /\ PagesAreWhole'
      /\ ReaderSkipsNothing'
  BY <1>1, <1>2, <1>4
     DEF PushInFlight, BufferIsNewest, CursorsInPast, PagesAreWhole, ReaderSkipsNothing
<1>6. ASSUME legacy_cursor' \in Nat, returned' \in SUBSET Nat,
             legacy' \in [LegacyCaller -> Call]
      PROVE  TypeOK'
  BY <1>1, <1>2, <1>6 DEF TypeOK
<1>7. \A k \in LegacyCaller :
        /\ legacy[k].pc # "idle" =>
             /\ legacy[k].after <= Appended
             /\ \A i \in DOMAIN messages :
                  messages[i].cursor <= legacy[k].after => messages[i].cursor \in returned
        /\ legacy[k].pc = "queried" /\ legacy[k].page # {} =>
             /\ legacy[k].last <= Appended
             /\ \A i \in DOMAIN messages :
                  /\ legacy[k].after < messages[i].cursor
                  /\ messages[i].cursor <= legacy[k].last
                  => messages[i].cursor \in legacy[k].page
  BY <1>1 DEF LegacyLocals
<1>8. legacy_cursor <= Appended
  BY <1>1 DEF LegacyLocals
<1>9. CASE LegacyLoad(q)
  <2> DEFINE call == [pc |-> "loaded", after |-> legacy_cursor, page |-> {}, last |-> 0]
  <2>1. /\ legacy' = [legacy EXCEPT ![q] = call]
        /\ legacy_cursor' = legacy_cursor /\ returned' = returned
    BY <1>9 DEF LegacyLoad, historyVars
  <2>2. /\ call.pc = "loaded" /\ call.after = legacy_cursor
        /\ call.page = {} /\ call.last = 0
    OBVIOUS
  <2>3. call \in Call
    BY <1>3
  <2> HIDE DEF call
  <2>4. /\ legacy' \in [LegacyCaller -> Call] /\ legacy'[q] = call
        /\ \A k \in LegacyCaller : k # q => legacy'[k] = legacy[k]
    BY <1>3, <2>1, <2>3
  <2>5. TypeOK'
    BY <1>3, <1>6, <2>1, <2>4
  <2>6. LegacyDropsNothing'
    BY <1>1, <1>2, <2>1 DEF LegacyDropsNothing
  <2>7. \A i \in DOMAIN messages :
          messages[i].cursor <= legacy_cursor => messages[i].cursor \in returned
    BY <1>1 DEF LegacyDropsNothing
  <2>8. LegacyLocals'
    BY <1>2, <1>4, <1>7, <1>8, <2>1, <2>2, <2>4, <2>7 DEF LegacyLocals
  <2> QED  BY <1>5, <2>5, <2>6, <2>8 DEF IInv
<1>10. CASE LegacyQuery(q)
  <2>1. PICK limit \in Limits, last \in 0 .. Len(messages) :
          /\ IsPage(last, legacy[q].after, Message, limit)
          /\ legacy' = [legacy EXCEPT ![q] =
               [pc |-> "queried", after |-> legacy[q].after,
                page |-> {messages[i].cursor : i \in PageUpTo(last, legacy[q].after, Message)},
                last |-> LastCursor(last, legacy[q].after)]]
    BY <1>10 DEF LegacyQuery
  <2> DEFINE from == legacy[q].after
             found == PageUpTo(last, from, Message)
             page == {messages[i].cursor : i \in found}
             call == [pc |-> "queried", after |-> from, page |-> page,
                      last |-> LastCursor(last, from)]
  <2>2. /\ legacy[q].pc = "loaded"
        /\ legacy_cursor' = legacy_cursor /\ returned' = returned
    BY <1>10 DEF LegacyQuery, historyVars
  <2>3. from \in Nat /\ limit \in Nat /\ Message \in SUBSET Message
    BY <1>3, MessageStoreAssumption
  <2>4. /\ LastCursor(last, from) \in Nat
        /\ \/ last = 0
           \/ last # 0 /\ LastCursor(last, from) <= Appended
        /\ \A i \in found : i \in DOMAIN messages /\ last # 0
        /\ \A i \in DOMAIN messages :
             /\ from < messages[i].cursor /\ messages[i].cursor <= LastCursor(last, from)
             /\ messages[i].message \in Message
             => i \in found
    BY <1>1, <2>1, <2>3, PageOfQuery
  <2> HIDE DEF found
  <2>5. page \in SUBSET Nat
    BY <1>3, <2>4
  <2>6. page # {} => LastCursor(last, from) <= Appended
    BY <2>4
  <2>7. \A i \in DOMAIN messages :
          /\ from < messages[i].cursor /\ messages[i].cursor <= LastCursor(last, from)
          => messages[i].cursor \in page
    BY <1>1, <2>4, BufferCursors DEF BufferedMessage
  <2>8. legacy' = [legacy EXCEPT ![q] = call]
    BY <2>1 DEF found
  <2> HIDE DEF from, page
  <2>9. call \in Call
    BY <2>3, <2>4, <2>5
  <2>10. /\ legacy' \in [LegacyCaller -> Call] /\ legacy'[q] = call
         /\ \A k \in LegacyCaller : k # q => legacy'[k] = legacy[k]
    BY <1>3, <2>8, <2>9
  <2>11. TypeOK'
    BY <1>3, <1>6, <2>2, <2>10
  <2>12. LegacyDropsNothing'
    BY <1>1, <1>2, <2>2 DEF LegacyDropsNothing
  <2>13. /\ from <= Appended
         /\ \A i \in DOMAIN messages :
              messages[i].cursor <= from => messages[i].cursor \in returned
    BY <1>7, <2>2 DEF from
  <2>14. LegacyLocals'
    BY <1>2, <1>4, <1>7, <1>8, <2>2, <2>6, <2>7, <2>10, <2>13 DEF LegacyLocals
  <2> QED  BY <1>5, <2>11, <2>12, <2>14 DEF IInv
<1>11. CASE LegacyStore(q)
  <2>1. /\ legacy[q].pc = "queried"
        /\ legacy_cursor' = IF legacy[q].page = {} THEN legacy_cursor ELSE legacy[q].last
        /\ returned' = returned \cup legacy[q].page
        /\ legacy' = [legacy EXCEPT ![q] = NoCall]
    BY <1>11 DEF LegacyStore
  <2>2. legacy[q] \in Call /\ NoCall \in Call
    BY <1>3 DEF NoCall
  <2>3. /\ legacy' \in [LegacyCaller -> Call] /\ legacy'[q] = NoCall
        /\ \A k \in LegacyCaller : k # q => legacy'[k] = legacy[k]
    BY <1>3, <2>1, <2>2
  <2>4. TypeOK'
    BY <1>3, <1>6, <2>1, <2>2, <2>3
  <2>5. legacy_cursor' <= Appended
    BY <1>7, <1>8, <2>1
  <2>6. LegacyDropsNothing'
    <3> SUFFICES ASSUME NEW i \in DOMAIN messages, messages[i].cursor <= legacy_cursor'
                 PROVE  messages[i].cursor \in returned'
      BY <1>2 DEF LegacyDropsNothing
    <3>1. CASE legacy[q].page = {}
      BY <1>1, <2>1, <3>1 DEF LegacyDropsNothing
    <3>2. CASE legacy[q].page # {}
      <4>1. CASE messages[i].cursor <= legacy[q].after
        BY <1>7, <2>1, <4>1
      <4>2. CASE legacy[q].after < messages[i].cursor
        BY <1>7, <2>1, <3>2, <4>2
      <4>3. messages[i].cursor <= legacy[q].after \/ legacy[q].after < messages[i].cursor
        BY <1>3, <2>2
      <4> QED  BY <4>1, <4>2, <4>3
    <3> QED  BY <3>1, <3>2
  <2>7. LegacyLocals'
    BY <1>2, <1>4, <1>7, <2>1, <2>3, <2>5 DEF LegacyLocals, NoCall
  <2> QED  BY <1>5, <2>4, <2>6, <2>7 DEF IInv
<1> QED  BY <1>9, <1>10, <1>11 DEF Legacy

LEMMA NextKeepsIInv == IInv /\ [Next]_vars => IInv'
<1> SUFFICES ASSUME IInv, [Next]_vars  PROVE IInv'
  OBVIOUS
<1>1. CASE AppendStored
  BY <1>1, AppendStoredKeepsIInv
<1>2. CASE \E m \in Message : TakeCursor(m)
  BY <1>2, TakeCursorKeepsIInv
<1>3. CASE \E r \in Reader : Read(r) \/ LosePage(r) \/ StartFromStatus(r)
  BY <1>3, ReaderStepKeepsIInv DEF Read
<1>4. CASE \E k \in LegacyCaller : Legacy(k)
  BY <1>4, LegacyStepKeepsIInv
<1>5. CASE UNCHANGED vars
  BY <1>5 DEF vars, IInv, TypeOK, PushInFlight, BufferIsNewest, CursorsInPast, PagesAreWhole,
              ReaderSkipsNothing, LegacyLocals, LegacyDropsNothing, Appended
<1> QED  BY <1>1, <1>2, <1>3, <1>4, <1>5 DEF Next, Push

-----------------------------------------------------------------------------
(***************************************************************************)
(* The theorems.                                                           *)
(***************************************************************************)

\* Everything the inductive invariant says is true in every reachable state.
THEOREM InductiveInvariant == Spec => []IInv
<1>1. Init => IInv
  BY InitIInv
<1>2. IInv /\ [Next]_vars => IInv'
  BY NextKeepsIInv
<1> QED  BY <1>1, <1>2, PTL DEF Spec

\* Every variable of the message store, its clients and its callers keeps its
\* type.
THEOREM TypeCorrect == Spec => []TypeOK
<1>1. IInv => TypeOK
  BY DEF IInv
<1> QED  BY <1>1, InductiveInvariant, PTL

\* push: the buffer is always the newest messages, gap-free and in order,
\* whatever the capacity.
THEOREM BufferCorrect == Spec => []BufferIsNewest
<1>1. IInv => BufferIsNewest
  BY DEF IInv
<1> QED  BY <1>1, InductiveInvariant, PTL

\* GET /messages: no reader's cursor ever passes a message it asked for and
\* did not get, for any number of readers, filters and page sizes.
THEOREM ReadersSkipNothing == Spec => []ReaderSkipsNothing
<1>1. IInv => ReaderSkipsNothing
  BY DEF IInv
<1> QED  BY <1>1, InductiveInvariant, PTL

\* GET /messages: no page ever repeats, or goes back behind, what its reader
\* has received.
THEOREM ReadersRepeatNothing == Spec => []ReaderRepeatsNothing
<1>1. IInv => ReaderRepeatsNothing
  <2> SUFFICES ASSUME IInv, NEW r \in Reader, request[r] # <<>>,
                      NEW e \in request[r][1].page, NEW s \in seen[r]
               PROVE  s.cursor < e.cursor
    BY DEF ReaderRepeatsNothing
  <2>1. TypeOK /\ CursorsInPast /\ PagesAreWhole
    BY DEF IInv
  <2>2. s.cursor <= after[r] /\ after[r] < e.cursor
    BY <2>1 DEF CursorsInPast, PagesAreWhole
  <2>3. s \in BufferedMessage /\ after[r] \in Nat
    BY <2>1 DEF TypeOK
  <2>4. request[r] \in Seq([page : SUBSET BufferedMessage, next : Nat])
        /\ Len(request[r]) \in 0 .. 1
    BY <2>1 DEF TypeOK
  <2>5. request[r][1] \in [page : SUBSET BufferedMessage, next : Nat]
    BY <2>4, NoneOrOne
  <2>6. e \in BufferedMessage
    BY <2>5
  <2> QED  BY <2>2, <2>3, <2>6 DEF BufferedMessage
<1> QED  BY <1>1, InductiveInvariant, PTL

\* GET /messages/new: however many callers race on the shared cursor, it never
\* covers a buffered message nobody received.
THEOREM LegacyCallersDropNothing == Spec => []LegacyDropsNothing
<1>1. IInv => LegacyDropsNothing
  BY DEF IInv
<1> QED  BY <1>1, InductiveInvariant, PTL

=============================================================================
