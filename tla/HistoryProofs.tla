---------------------------- MODULE HistoryProofs ----------------------------
(***************************************************************************)
(* History: that the rows a query asks of every table are enough for the   *)
(* page it answers with, and that a client that goes from page to page     *)
(* while rows are written is passed over no message.                       *)
(*                                                                         *)
(* Both rest on one idea: a message that a query leaves out has more       *)
(* messages ahead of it among those read than the page and all pages       *)
(* before it hold.  This takes ids of one second that ascend like the rows *)
(* of a table (without, TLC shows how the page goes wrong), that no row    *)
(* that cannot be decoded has taken the place of another, and that no id   *)
(* changed meanwhile.                                                      *)
(***************************************************************************)
EXTENDS History, FiniteSetTheorems, TLAPS

-----------------------------------------------------------------------------
(***************************************************************************)
(* The inductive invariant                                                 *)
(***************************************************************************)

Stored == UNION {Range(rows[t]) : t \in Table}

\* A table's messages of one second ascend.
InIdOrder ==
  \A t \in Table : \A i, j \in DOMAIN rows[t] :
    i < j /\ TimeOf[rows[t][i]] = TimeOf[rows[t][j]] => rows[t][i] < rows[t][j]

\* What a query has to go by: finitely many messages, since `since` where no id
\* has changed.
Sources ==
  /\ IsFiniteSet(Stored) /\ IsFiniteSet(found)
  /\ quiet \/ ~ failed => found \subseteq Since(since)
  /\ ~ failed => at_start \subseteq Since(since)
  /\ pc # "scan" => found = {}
  /\ pc # "idle" => running /\ runs < MaxRuns
  /\ ~ running => offset = 0 /\ at_start = {}

\* What a query can still place: a message it has not read and will not read has
\* more ahead of it, among those read, than the page and the pages before hold.
Placed ==
  {m \in Since(since) : \/ \E t \in left : m \in Range(rows[t])
                        \/ m \in found \/ Rank(m, found) >= FetchLimit}

\* An undisturbed query places all there is.
QuietPlacesAll ==
  pc = "scan" /\ quiet =>
    /\ expected = Slice(Since(since), offset, limit)
    /\ Since(since) \subseteq Placed

\* What was there when the run began the client has, or it is not yet passed over:
\* between the requests, during a query, and with the response under way.
NotPassedOver ==
  ~ failed =>
    \A m \in (at_start \cap Wants) \ got :
      /\ Rank(m, Since(since)) >= offset
      /\ pc = "scan" => m \in Placed /\ Rank(m, Placed) >= offset
      /\ pc = "answered" => \/ m \in response.page
                            \/ response.has_more /\ Rank(m, Since(since)) >= response.next_offset

IInv == TypeOK /\ Sources
PagesInv == IInv /\ InIdOrder /\ QuietPlacesAll /\ NotPassedOver /\ MergedPagePresent

-----------------------------------------------------------------------------
(***************************************************************************)
(* The order of messages, and ranks                                        *)
(***************************************************************************)

LEMMA PrecedesIsTotal ==
  /\ \A m \in Message : TimeOf[m] \in Nat /\ m \in Int /\ ~ Precedes(m, m)
  /\ \A m, n \in Message : m = n \/ Precedes(m, n) \/ Precedes(n, m)
  /\ \A k, m, n \in Message : Precedes(k, m) /\ Precedes(m, n) => Precedes(k, n)
<1>1. \A m \in Message : TimeOf[m] \in Nat /\ m \in Int
  BY HistoryAssumption
<1> QED  BY <1>1 DEF Precedes

\* Of a nonempty finite set of messages one is the first, and one the last.
LEMMA FirstAndLast ==
  ASSUME NEW S \in SUBSET Message, IsFiniteSet(S), S # {}
  PROVE  /\ \E m \in S : \A n \in S : n = m \/ Precedes(m, n)
         /\ \E m \in S : \A n \in S : n = m \/ Precedes(n, m)
<1> DEFINE Before(m) == {n \in S : Precedes(n, m)}
           After(m) == {n \in S : Precedes(m, n)}
<1>1. IsWellFoundedOn(StrictSubsetOrdering(S), SUBSET S)
  BY FS_StrictSubsetOrderingWellFounded, FS_FiniteSubsetsOfFinite
<1>2. \E m \in S : \A n \in S : ~ (<<Before(n), Before(m)>> \in StrictSubsetOrdering(S))
  <2> DEFINE T == {Before(m) : m \in S}
  <2>1. T \subseteq SUBSET S /\ T # {}
    OBVIOUS
  <2> HIDE DEF Before
  <2>2. \E x \in T : \A y \in T : ~ (<<y, x>> \in StrictSubsetOrdering(S))
    <3> HIDE DEF T
    <3> QED  BY <1>1, <2>1, WFMin
  <2> QED  BY <2>2
<1>3. \E m \in S : \A n \in S : ~ (<<After(n), After(m)>> \in StrictSubsetOrdering(S))
  <2> DEFINE T == {After(m) : m \in S}
  <2>1. T \subseteq SUBSET S /\ T # {}
    OBVIOUS
  <2> HIDE DEF After
  <2>2. \E x \in T : \A y \in T : ~ (<<y, x>> \in StrictSubsetOrdering(S))
    <3> HIDE DEF T
    <3> QED  BY <1>1, <2>1, WFMin
  <2> QED  BY <2>2
<1>4. ASSUME NEW m \in S, NEW n \in S, Precedes(n, m)
      PROVE  /\ Before(n) \subseteq Before(m) /\ n \in Before(m) \ Before(n)
             /\ After(m) \subseteq After(n) /\ m \in After(n) \ After(m)
  BY <1>4, PrecedesIsTotal
<1>5. ASSUME NEW m \in S, NEW n \in S, Precedes(n, m)
      PROVE  /\ <<Before(n), Before(m)>> \in StrictSubsetOrdering(S)
             /\ <<After(m), After(n)>> \in StrictSubsetOrdering(S)
  <2>1. Before(n) \in SUBSET S /\ Before(m) \in SUBSET S /\ After(n) \in SUBSET S /\ After(m) \in SUBSET S
    OBVIOUS
  <2>2. /\ Before(n) \subseteq Before(m) /\ Before(n) # Before(m)
        /\ After(m) \subseteq After(n) /\ After(m) # After(n)
    BY <1>4, <1>5
  <2> HIDE DEF Before, After
  <2> QED  BY <2>1, <2>2 DEF StrictSubsetOrdering
<1> HIDE DEF Before, After
<1>6. \E m \in S : \A n \in S : n = m \/ Precedes(m, n)
  <2>1. PICK m \in S : \A n \in S : ~ (<<Before(n), Before(m)>> \in StrictSubsetOrdering(S))
    BY <1>2
  <2> QED  BY <1>5, <2>1, PrecedesIsTotal
<1>7. \E m \in S : \A n \in S : n = m \/ Precedes(n, m)
  <2>1. PICK m \in S : \A n \in S : ~ (<<After(n), After(m)>> \in StrictSubsetOrdering(S))
    BY <1>3
  <2> QED  BY <1>5, <2>1, PrecedesIsTotal
<1> QED  BY <1>6, <1>7

\* A rank counts what is ahead: more messages only add to it.
LEMMA RankBounds ==
  ASSUME NEW S \in SUBSET Message, IsFiniteSet(S), NEW m \in Message
  PROVE  /\ Rank(m, S) \in Nat /\ Cardinality(S) \in Nat /\ Rank(m, S) <= Cardinality(S)
         /\ m \in S => Rank(m, S) < Cardinality(S)
         /\ \A T \in SUBSET S : IsFiniteSet(T) /\ Rank(m, T) \in Nat /\ Rank(m, T) <= Rank(m, S)
<1> DEFINE Before(X) == {n \in X : Precedes(n, m)}
<1>1. ASSUME NEW X \in SUBSET S
      PROVE  IsFiniteSet(X) /\ IsFiniteSet(Before(X)) /\ Cardinality(Before(X)) \in Nat
             /\ Cardinality(Before(X)) <= Cardinality(Before(S))
  <2>1. IsFiniteSet(X) /\ IsFiniteSet(Before(S))
    BY FS_Subset
  <2>2. Before(X) \in SUBSET Before(S)
    OBVIOUS
  <2> HIDE DEF Before
  <2> QED  BY <2>1, <2>2, FS_Subset, FS_CardinalityType
<1>2. Before(S) \in SUBSET S /\ (m \in S => Before(S) \in SUBSET (S \ {m}))
  BY PrecedesIsTotal
<1> HIDE DEF Before
<1>3. Cardinality(S) \in Nat /\ Cardinality(Before(S)) <= Cardinality(S)
  BY <1>2, FS_Subset, FS_CardinalityType
<1>4. ASSUME m \in S PROVE Cardinality(Before(S)) < Cardinality(S)
  <2>1. IsFiniteSet(S \ {m}) /\ Cardinality(S \ {m}) = Cardinality(S) - 1
    BY <1>4, FS_RemoveElement
  <2>2. Cardinality(Before(S)) <= Cardinality(S) - 1
    BY <1>2, <1>4, <2>1, FS_Subset
  <2> QED  BY <1>1, <1>3, <2>2
<1>5. \A X : Rank(m, X) = Cardinality(Before(X))
  BY DEF Rank, Before
<1> QED  BY <1>1, <1>3, <1>4, <1>5

LEMMA RankOrder ==
  ASSUME NEW S \in SUBSET Message, IsFiniteSet(S), NEW m \in Message, NEW n \in Message,
         Precedes(n, m)
  PROVE  /\ Rank(n, S) \in Nat /\ Rank(m, S) \in Nat /\ Rank(n, S) <= Rank(m, S)
         /\ n \in S => Rank(n, S) < Rank(m, S)
<1> DEFINE Before(k) == {l \in S : Precedes(l, k)}
<1>1. Before(n) \in SUBSET Before(m) /\ Before(m) \in SUBSET S /\ Before(n) \in SUBSET S
  BY PrecedesIsTotal
<1>2. n \in S => n \in Before(m) /\ n \notin Before(n)
  BY PrecedesIsTotal
<1>3. Rank(n, S) = Cardinality(Before(n)) /\ Rank(m, S) = Cardinality(Before(m))
  BY DEF Rank
<1> HIDE DEF Before
<1>4. IsFiniteSet(Before(m)) /\ IsFiniteSet(Before(n))
  BY <1>1, FS_Subset
<1>5. Cardinality(Before(m)) \in Nat /\ Cardinality(Before(n)) \in Nat
  BY <1>4, FS_CardinalityType
<1>6. /\ Cardinality(Before(n)) <= Cardinality(Before(m))
      /\ Cardinality(Before(m)) = Cardinality(Before(n)) => Before(m) = Before(n)
  BY <1>1, <1>4, FS_Subset
<1> QED  BY <1>2, <1>3, <1>5, <1>6

\* A page holds no more than was asked for.
LEMMA SliceSize ==
  ASSUME NEW S \in SUBSET Message, IsFiniteSet(S), NEW from \in Nat, NEW size \in Nat
  PROVE  /\ Slice(S, from, size) \in SUBSET S /\ IsFiniteSet(Slice(S, from, size))
         /\ Cardinality(Slice(S, from, size)) \in Nat /\ Cardinality(Slice(S, from, size)) <= size
<1> DEFINE page == Slice(S, from, size)
           ranks == from .. from + size - 1
           place == [m \in page |-> Rank(m, S)]
<1>1. page \in SUBSET S
  BY DEF Slice
<1>2. \A m \in page : from <= Rank(m, S) /\ Rank(m, S) < from + size
  BY DEF Slice
<1> HIDE DEF page
<1>3. IsFiniteSet(page) /\ Cardinality(page) \in Nat
  BY <1>1, FS_Subset, FS_CardinalityType
<1>4. IsFiniteSet(ranks) /\ Cardinality(ranks) = size
  <2>1. from \in Int /\ from + size - 1 \in Int
    OBVIOUS
  <2>2. IsFiniteSet(ranks) /\ Cardinality(ranks) = IF from > from + size - 1 THEN 0
                                                   ELSE (from + size - 1) - from + 1
    BY <2>1, FS_Interval
  <2> HIDE DEF ranks
  <2> QED  BY <2>2
<1>5. \A m \in page : Rank(m, S) \in ranks
  BY <1>1, <1>2, RankBounds
<1>6. \A m, n \in page : Rank(m, S) = Rank(n, S) => m = n
  <2> SUFFICES ASSUME NEW m \in page, NEW n \in page, m # n PROVE Rank(m, S) # Rank(n, S)
    OBVIOUS
  <2>1. m \in S /\ n \in S /\ m \in Message /\ n \in Message
    BY <1>1
  <2>2. Precedes(m, n) \/ Precedes(n, m)
    BY <2>1, PrecedesIsTotal
  <2>3. Rank(m, S) \in Nat /\ Rank(n, S) \in Nat /\ (Rank(m, S) < Rank(n, S) \/ Rank(n, S) < Rank(m, S))
    BY <2>1, <2>2, RankOrder
  <2> QED  BY <2>3
<1> HIDE DEF ranks
<1>7. place \in Injection(page, ranks)
  BY <1>5, <1>6 DEF Injection, IsInjective
<1>8. Cardinality(page) <= Cardinality(ranks)
  BY <1>4, <1>7, FS_Injection
<1> QED  BY <1>1, <1>3, <1>4, <1>8 DEF page

-----------------------------------------------------------------------------
(***************************************************************************)
(* What a query reads                                                      *)
(***************************************************************************)

LEMMA TypesOf ==
  ASSUME TypeOK
  PROVE  /\ rows \in [Table -> Seq(Message)] /\ since \in Nat /\ offset \in Nat /\ limit \in Limits
         /\ limit \in Nat /\ limit > 0 /\ FetchLimit \in Nat
         /\ pc \in {"idle", "scan", "answered"} /\ left \in SUBSET Table /\ found \in SUBSET Message
         /\ response \in [page : SUBSET Message, next_offset : Nat, checkpoint_time : Nat,
                          has_more : BOOLEAN]
         /\ got \in SUBSET Message /\ at_start \in SUBSET Message /\ expected \in SUBSET Message
         /\ runs \in 0 .. MaxRuns /\ failures \in 0 .. MaxFail
         /\ running \in BOOLEAN /\ failed \in BOOLEAN /\ quiet \in BOOLEAN
         /\ MaxRuns \in Nat /\ MaxFail \in Nat
<1>1. limit \in Nat /\ limit > 0
  BY HistoryAssumption DEF TypeOK
<1> QED  BY <1>1, HistoryAssumption DEF TypeOK, FetchLimit

\* The messages of the tables.
LEMMA StoredMessages ==
  ASSUME TypeOK
  PROVE  /\ \A t \in Table : /\ Range(rows[t]) \subseteq Message /\ Range(rows[t]) \subseteq Stored
                             /\ DOMAIN rows[t] = 1 .. Len(rows[t]) /\ Len(rows[t]) \in Nat
                             /\ \A i \in DOMAIN rows[t] : rows[t][i] \in Message
         /\ Stored \subseteq Message
         /\ \A time : Since(time) = {m \in Stored : TimeOf[m] >= time} \ Unreadable
<1>1. ASSUME NEW t \in Table
      PROVE  /\ rows[t] \in Seq(Message) /\ DOMAIN rows[t] = 1 .. Len(rows[t]) /\ Len(rows[t]) \in Nat
             /\ \A i \in DOMAIN rows[t] : rows[t][i] \in Message
  <2>1. rows[t] \in Seq(Message)
    BY TypesOf
  <2> QED  BY <2>1
<1>2. \A t \in Table : Range(rows[t]) \subseteq Message /\ Range(rows[t]) \subseteq Stored
  BY <1>1 DEF Range, Stored
<1> QED  BY <1>1, <1>2 DEF Stored, Since

\* What a table gives a query is in it.
LEMMA CandidatesStored ==
  ASSUME TypeOK, NEW t \in Table
  PROVE  /\ Candidates(t) \subseteq Range(rows[t]) /\ Candidates(t) \subseteq Stored
         /\ Candidates(t) \subseteq Message
         /\ Decoded(t) \subseteq Since(since) /\ Decoded(t) \subseteq Candidates(t)
<1> DEFINE matching == {i \in DOMAIN rows[t] : TimeOf[rows[t][i]] >= since}
<1>1. \A m \in Candidates(t) : \E i \in matching : m = rows[t][i]
  BY DEF Candidates
<1>2. \A i \in matching : /\ rows[t][i] \in Range(rows[t]) /\ rows[t][i] \in Stored
                         /\ TimeOf[rows[t][i]] >= since
  BY StoredMessages DEF Range
<1> HIDE DEF matching
<1>3. \A m \in Candidates(t) : m \in Range(rows[t]) /\ m \in Stored /\ TimeOf[m] >= since
  BY <1>1, <1>2
<1> QED  BY <1>3, StoredMessages DEF Decoded

\* Each row of a table a query does not get has enough of those it gets ahead.
LEMMA CandidatesPlace ==
  ASSUME TypeOK, IsFiniteSet(Stored), InIdOrder, NEW t \in Table
  PROVE  \A m \in Range(rows[t]) :
           TimeOf[m] >= since => m \in Candidates(t) \/ Rank(m, Candidates(t)) >= FetchLimit
<1> DEFINE row(i) == rows[t][i]
           matching == {i \in DOMAIN rows[t] : TimeOf[row(i)] >= since}
           Earlier(i) == {j \in matching : \/ TimeOf[row(j)] < TimeOf[row(i)]
                                           \/ TimeOf[row(j)] = TimeOf[row(i)] /\ j < i}
           chosen == {i \in matching : Cardinality(Earlier(i)) < FetchLimit}
<1>1. Candidates(t) = {row(i) : i \in chosen}
  BY DEF Candidates
<1>2. /\ DOMAIN rows[t] = 1 .. Len(rows[t]) /\ Len(rows[t]) \in Nat
      /\ \A i \in DOMAIN rows[t] : i \in Nat /\ row(i) \in Message /\ row(i) \in Range(rows[t])
                                   /\ TimeOf[row(i)] \in Nat /\ row(i) \in Int
  BY StoredMessages, PrecedesIsTotal DEF Range
<1>3. \A i, j \in matching : i < j /\ TimeOf[row(i)] = TimeOf[row(j)] => row(i) < row(j)
  BY DEF InIdOrder
<1>4. Candidates(t) \subseteq Stored
  BY CandidatesStored
<1>5. IsFiniteSet(matching) /\ matching \in SUBSET Nat
  <2>1. matching \in SUBSET (1 .. Len(rows[t])) /\ IsFiniteSet(1 .. Len(rows[t]))
    BY <1>2, FS_Interval
  <2> QED  BY <1>2, <2>1, FS_Subset
<1>6. \A i \in matching : Earlier(i) \in SUBSET matching /\ i \notin Earlier(i)
  BY <1>2
<1>7. \A i \in matching : \A j \in Earlier(i) :
        /\ Precedes(row(j), row(i)) /\ Earlier(j) \subseteq Earlier(i)
  <2> SUFFICES ASSUME NEW i \in matching, NEW j \in Earlier(i)
               PROVE  Precedes(row(j), row(i)) /\ Earlier(j) \subseteq Earlier(i)
    OBVIOUS
  <2>1. Precedes(row(j), row(i))
    BY <1>2, <1>3 DEF Precedes
  <2>2. ASSUME NEW k \in Earlier(j) PROVE k \in Earlier(i)
    BY <1>2, <2>2
  <2> QED  BY <2>1, <2>2
<1>8. \A i, j \in matching : row(i) = row(j) => i = j
  BY <1>2, <1>3
<1>9. ASSUME NEW i \in matching, i \notin chosen
      PROVE  Rank(row(i), Candidates(t)) >= FetchLimit
  <2> DEFINE full == {j \in matching : j \notin chosen /\ (j = i \/ j \in Earlier(i))}
  <2>1. PICK j \in full : \A k \in full : ~ (<<Earlier(k), Earlier(j)>> \in StrictSubsetOrdering(matching))
    <3> DEFINE T == {Earlier(j) : j \in full}
    <3>1. IsWellFoundedOn(StrictSubsetOrdering(matching), SUBSET matching)
      <4> HIDE DEF matching
      <4> QED  BY <1>5, FS_StrictSubsetOrderingWellFounded, FS_FiniteSubsetsOfFinite
    <3>2. T \subseteq SUBSET matching /\ T # {}
      <4>1. i \in full
        BY <1>9
      <4> HIDE DEF full, Earlier, matching
      <4> QED  BY <4>1, <1>6 DEF full
    <3> HIDE DEF Earlier, full, matching
    <3>3. \E x \in T : \A y \in T : ~ (<<y, x>> \in StrictSubsetOrdering(matching))
      <4> HIDE DEF T
      <4> QED  BY <3>1, <3>2, WFMin
    <3> QED  BY <3>3
  <2>2. j \in matching /\ j \notin chosen /\ (j = i \/ j \in Earlier(i))
    OBVIOUS
  <2>3. \A k \in Earlier(j) : k \in chosen
    <3> SUFFICES ASSUME NEW k \in Earlier(j), k \notin chosen PROVE FALSE
      OBVIOUS
    <3>1. k \in matching /\ Earlier(k) \subseteq Earlier(j) /\ k \notin Earlier(k)
      BY <1>6, <1>7, <2>2
    <3>2. k \in full
      <4>1. k \in Earlier(i)
        BY <1>7, <2>2
      <4> QED  BY <3>1, <4>1
    <3>3. Earlier(k) # Earlier(j) /\ Earlier(k) \in SUBSET matching /\ Earlier(j) \in SUBSET matching
      BY <1>6, <2>2, <3>1
    <3> HIDE DEF Earlier, full, matching
    <3> QED  BY <2>1, <3>1, <3>2, <3>3 DEF StrictSubsetOrdering
  <2> DEFINE ahead == {n \in Candidates(t) : Precedes(n, row(i))}
             place == [k \in Earlier(j) |-> row(k)]
  <2>4. IsFiniteSet(ahead) /\ Cardinality(ahead) = Rank(row(i), Candidates(t))
    <3>1. ahead \in SUBSET Stored
      BY <1>4
    <3>2. IsFiniteSet(ahead)
      <4> HIDE DEF ahead
      <4> QED  BY <3>1, FS_Subset
    <3> QED  BY <3>2 DEF Rank
  <2>5. \A k \in Earlier(j) : row(k) \in ahead
    <3> SUFFICES ASSUME NEW k \in Earlier(j) PROVE row(k) \in ahead
      OBVIOUS
    <3>1. k \in matching /\ k \in chosen /\ Precedes(row(k), row(j))
      BY <1>7, <2>2, <2>3
    <3>2. row(k) \in Candidates(t)
      <4> HIDE DEF row, chosen
      <4> QED  BY <1>1, <3>1
    <3>3. j = i \/ Precedes(row(j), row(i))
      BY <1>7, <2>2
    <3>4. row(k) \in Message /\ row(j) \in Message /\ row(i) \in Message
      BY <1>2, <2>2, <3>1
    <3>5. Precedes(row(k), row(i))
      <4> HIDE DEF row
      <4> QED  BY <3>1, <3>3, <3>4, PrecedesIsTotal
    <3> QED  BY <3>2, <3>5
  <2>6. place \in Injection(Earlier(j), ahead)
    <3>1. \A k, l \in Earlier(j) : row(k) = row(l) => k = l
      BY <1>8, <2>2
    <3> HIDE DEF Earlier, ahead, row
    <3> QED  BY <2>5, <3>1 DEF Injection, IsInjective
  <2>7. Cardinality(Earlier(j)) <= Cardinality(ahead)
    <3> HIDE DEF Earlier, ahead, place
    <3> QED  BY <2>4, <2>6, FS_Injection
  <2>8. Cardinality(Earlier(j)) \in Nat
    <3>1. Earlier(j) \in SUBSET matching
      BY <1>6, <2>2
    <3> HIDE DEF Earlier, matching
    <3> QED  BY <1>5, <3>1, FS_Subset, FS_CardinalityType
  <2>9. Cardinality(Earlier(j)) >= FetchLimit
    <3>1. ~ (Cardinality(Earlier(j)) < FetchLimit)
      BY <2>2
    <3> HIDE DEF Earlier
    <3> QED  BY <2>8, <3>1, TypesOf
  <2>10. Cardinality(ahead) \in Nat
    <3> HIDE DEF ahead
    <3> QED  BY <2>4, FS_CardinalityType
  <2> HIDE DEF Earlier, ahead, row
  <2> QED  BY <2>4, <2>7, <2>8, <2>9, <2>10, TypesOf
<1>10. ASSUME NEW m \in Range(rows[t]), TimeOf[m] >= since
       PROVE  m \in Candidates(t) \/ Rank(m, Candidates(t)) >= FetchLimit
  <2>1. PICK i \in matching : m = row(i)
    BY <1>10 DEF Range
  <2>2. CASE i \in chosen
    <3> HIDE DEF row, chosen
    <3> QED  BY <1>1, <2>1, <2>2
  <2>3. CASE i \notin chosen
    <3> HIDE DEF row, chosen
    <3> QED  BY <1>9, <2>1, <2>3
  <2> QED  BY <2>2, <2>3
<1> QED  BY <1>10

\* So has each row that can be decoded, if no other took its place.
LEMMA DecodedPlace ==
  ASSUME TypeOK, IsFiniteSet(Stored), InIdOrder, NEW t \in Table, ~ Short(t)
  PROVE  \A m \in Range(rows[t]) \ Unreadable :
           TimeOf[m] >= since => m \in Decoded(t) \/ Rank(m, Decoded(t)) >= FetchLimit
<1> SUFFICES ASSUME NEW m \in Range(rows[t]) \ Unreadable, TimeOf[m] >= since
             PROVE  m \in Decoded(t) \/ Rank(m, Decoded(t)) >= FetchLimit
  OBVIOUS
<1>1. CASE m \in Candidates(t)
  BY <1>1 DEF Decoded
<1>2. CASE m \notin Candidates(t)
  <2>1. Decoded(t) = Candidates(t)
    BY <1>2 DEF Short, Decoded
  <2> QED  BY <1>2, <2>1, CandidatesPlace
<1> QED  BY <1>1, <1>2

\* If all messages of a set are read, or have enough ahead of them among those
\* read, then whoever has not enough ahead has all of the set that is ahead.
LEMMA PlacedRanks ==
  ASSUME NEW S \in SUBSET Message, IsFiniteSet(S), NEW P \in SUBSET Message, IsFiniteSet(P),
         NEW enough \in Nat, \A n \in P : n \in S \/ Rank(n, S) >= enough, NEW m \in Message
  PROVE  Rank(m, S) >= enough \/ Rank(m, P) <= Rank(m, S)
<1>1. CASE \E n \in P \ S : Precedes(n, m)
  <2>1. PICK n \in P \ S : Precedes(n, m)
    BY <1>1
  <2>2. Rank(n, S) >= enough /\ Rank(n, S) <= Rank(m, S) /\ Rank(n, S) \in Nat /\ Rank(m, S) \in Nat
    BY <2>1, RankOrder
  <2> QED  BY <2>2
<1>2. CASE \A n \in P \ S : ~ Precedes(n, m)
  <2> DEFINE Before(X) == {n \in X : Precedes(n, m)}
  <2>1. Before(P) \in SUBSET Before(S) /\ Before(S) \in SUBSET S
    BY <1>2
  <2> HIDE DEF Before
  <2>2. Cardinality(Before(P)) <= Cardinality(Before(S))
    BY <2>1, FS_Subset
  <2> QED  BY <2>2 DEF Rank, Before
<1> QED  BY <1>1, <1>2

\* The messages that matter to a request are finitely many.
LEMMA FiniteSources ==
  ASSUME IInv
  PROVE  /\ Since(since) \in SUBSET Message /\ IsFiniteSet(Since(since))
         /\ found \in SUBSET Message /\ IsFiniteSet(found)
         /\ Placed \in SUBSET Since(since) /\ Placed \in SUBSET Message /\ IsFiniteSet(Placed)
         /\ \A X \in SUBSET Since(since) : IsFiniteSet(X)
<1>1. Since(since) \in SUBSET Stored /\ Stored \in SUBSET Message /\ IsFiniteSet(Stored)
      /\ found \in SUBSET Message /\ IsFiniteSet(found)
  BY StoredMessages, TypesOf DEF IInv, Sources
<1>2. Placed \in SUBSET Since(since)
  BY DEF Placed
<1> HIDE DEF Placed
<1>3. IsFiniteSet(Since(since)) /\ Since(since) \in SUBSET Message
  BY <1>1, FS_Subset
<1> QED  BY <1>1, <1>2, <1>3, FS_Subset

\* create_time of the last message of a page, or what was asked for.
LEMMA CheckpointIsTime ==
  ASSUME TypeOK, NEW page \in SUBSET Message, IsFiniteSet(page)
  PROVE  CheckpointTime(page) \in Nat
<1>1. CASE page = {}
  BY <1>1, TypesOf DEF CheckpointTime
<1>2. CASE page # {}
  <2> DEFINE last == CHOOSE m \in page : \A n \in page : n = m \/ Precedes(n, m)
  <2>1. \E m \in page : \A n \in page : n = m \/ Precedes(n, m)
    BY <1>2, FirstAndLast
  <2>2. last \in page
    BY <2>1
  <2>3. CheckpointTime(page) = TimeOf[last]
    BY <1>2 DEF CheckpointTime
  <2> HIDE DEF last
  <2> QED  BY <2>2, <2>3, PrecedesIsTotal
<1> QED  BY <1>1, <1>2

-----------------------------------------------------------------------------
(***************************************************************************)
(* Types and sources                                                       *)
(***************************************************************************)

\* Rows stay; an id of one changes.
LEMMA RenumberEffect ==
  ASSUME TypeOK, NEW t \in Table, NEW p \in Renamed, NEW i \in DOMAIN rows[t], Renumber(t, i, p)
  PROVE  /\ rows' \in [Table -> Seq(Message)] /\ rows'[t] = [rows[t] EXCEPT ![i] = p[2]]
         /\ \A u \in Table \ {t} : rows'[u] = rows[u]
         /\ p[2] \in Message /\ Stored' \subseteq Stored \cup {p[2]}
<1>1. p[2] \in Message
  BY HistoryAssumption
<1>2. /\ rows[t] \in Seq(Message) /\ DOMAIN rows[t] = 1 .. Len(rows[t])
      /\ rows' = [rows EXCEPT ![t] = [rows[t] EXCEPT ![i] = p[2]]]
  BY TypesOf DEF Renumber
<1>3. [rows[t] EXCEPT ![i] = p[2]] \in Seq(Message)
  BY <1>1, <1>2
<1>4. /\ rows' \in [Table -> Seq(Message)] /\ rows'[t] = [rows[t] EXCEPT ![i] = p[2]]
      /\ \A u \in Table \ {t} : rows'[u] = rows[u]
  BY <1>2, <1>3, TypesOf
<1>5. Range(rows'[t]) \subseteq Range(rows[t]) \cup {p[2]}
  BY <1>4 DEF Range
<1>6. Stored' \subseteq Stored \cup {p[2]}
  BY <1>4, <1>5 DEF Stored
<1> QED  BY <1>1, <1>4, <1>6

\* Rows come and stay.
LEMMA WriteEffect ==
  ASSUME TypeOK, NEW t \in Table, NEW m \in Message, Write(t, m)
  PROVE  /\ rows' \in [Table -> Seq(Message)] /\ rows'[t] = Append(rows[t], m)
         /\ \A u \in Table \ {t} : rows'[u] = rows[u]
         /\ \A u \in Table : Range(rows[u]) \subseteq Range(rows'[u])
         /\ Stored' = Stored \cup {m} /\ Since(since) \subseteq Since(since)'
<1>1. /\ rows' \in [Table -> Seq(Message)] /\ rows'[t] = Append(rows[t], m)
      /\ \A u \in Table \ {t} : rows'[u] = rows[u]
  BY TypesOf DEF Write
<1>2. Range(rows'[t]) = Range(rows[t]) \cup {m}
  <2>1. rows[t] \in Seq(Message)
    BY TypesOf
  <2>2. /\ DOMAIN Append(rows[t], m) = 1 .. Len(rows[t]) + 1 /\ DOMAIN rows[t] = 1 .. Len(rows[t])
        /\ Len(rows[t]) \in Nat
        /\ \A i \in 1 .. Len(rows[t]) : Append(rows[t], m)[i] = rows[t][i]
        /\ Append(rows[t], m)[Len(rows[t]) + 1] = m
    BY <2>1
  <2> QED  BY <1>1, <2>2 DEF Range
<1>3. Stored' = Stored \cup {m}
  BY <1>1, <1>2 DEF Stored
<1>4. Since(since) \subseteq Since(since)'
  BY <1>3 DEF Since, Stored, Write, request
<1> QED  BY <1>1, <1>2, <1>3, <1>4

LEMMA AnswerEffect ==
  ASSUME IInv, Answer
  PROVE  LET page == Slice(found, offset, limit)
         IN  /\ page \in SUBSET found /\ page \in SUBSET Message
             /\ response' \in [page : SUBSET Message, next_offset : Nat, checkpoint_time : Nat,
                               has_more : BOOLEAN]
             /\ response'.page = page /\ response'.has_more = HasMore
             /\ response'.next_offset <= offset + limit /\ response'.next_offset \in Nat
<1> DEFINE page == Slice(found, offset, limit)
<1>1. /\ page \in SUBSET found /\ page \in SUBSET Message /\ IsFiniteSet(page)
      /\ Cardinality(page) \in Nat /\ Cardinality(page) <= limit
  BY FiniteSources, SliceSize, TypesOf DEF IInv
<1>2. response' = [page |-> page, next_offset |-> NextOffset(page),
                   checkpoint_time |-> CheckpointTime(page), has_more |-> HasMore]
  BY DEF Answer
<1> HIDE DEF page
<1>3. NextOffset(page) \in Nat /\ NextOffset(page) <= offset + limit
  BY <1>1, TypesOf DEF NextOffset, IInv
<1>4. CheckpointTime(page) \in Nat /\ HasMore \in BOOLEAN
  BY <1>1, CheckpointIsTime DEF HasMore, IInv
<1> QED  BY <1>1, <1>2, <1>3, <1>4 DEF page

LEMMA InitKeeps ==
  ASSUME Init
  PROVE  IInv /\ InIdOrder /\ QuietPlacesAll /\ NotPassedOver /\ MergedPagePresent
<1>1. \A t \in Table : rows[t] = <<>> /\ Range(rows[t]) = {} /\ DOMAIN rows[t] = {}
  BY DEF Init, Range
<1>2. Stored = {} /\ \A time : Since(time) = {}
  BY <1>1 DEF Stored, Since
<1>3. TypeOK
  <2>1. rows \in [Table -> Seq(Message)]
    <3>1. <<>> \in Seq(Message)
      OBVIOUS
    <3> QED  BY <3>1 DEF Init
  <2>2. NoResponse \in [page : SUBSET Message, next_offset : Nat, checkpoint_time : Nat,
                       has_more : BOOLEAN]
    BY DEF NoResponse
  <2>3. 0 \in 0 .. MaxRuns /\ 0 \in 0 .. MaxFail
    BY HistoryAssumption
  <2> QED  BY <2>1, <2>2, <2>3 DEF Init, TypeOK
<1>4. Sources
  BY <1>2, FS_EmptySet DEF Init, Sources
<1>5. InIdOrder
  BY <1>1 DEF InIdOrder
<1> QED  BY <1>3, <1>4, <1>5 DEF Init, IInv, QuietPlacesAll, NotPassedOver, MergedPagePresent

LEMMA SinceNext ==
  /\ Since(since) = {m \in Stored : TimeOf[m] >= since} \ Unreadable
  /\ Since(since)' = {m \in Stored' : TimeOf[m] >= since'} \ Unreadable
  /\ UNCHANGED rows => Stored' = Stored
  BY DEF Since, Stored

LEMMA NextKeepsIInv ==
  ASSUME IInv, [Next]_vars
  PROVE  IInv'
<1>1. TypeOK /\ IsFiniteSet(Stored) /\ IsFiniteSet(found)
      /\ (quiet \/ ~ failed => found \subseteq Since(since))
      /\ (~ failed => at_start \subseteq Since(since))
      /\ (pc # "scan" => found = {}) /\ (pc # "idle" => running /\ runs < MaxRuns)
      /\ (~ running => offset = 0 /\ at_start = {})
  BY DEF IInv, Sources
<1>2. NoResponse \in [page : SUBSET Message, next_offset : Nat, checkpoint_time : Nat, has_more : BOOLEAN]
  BY DEF NoResponse
<1>3. ASSUME NEW t \in Table, NEW m \in Message, Write(t, m) PROVE IInv'
  <2>1. /\ UNCHANGED <<since, offset, limit, pc, left, found, response, running, got, runs, failures,
                       at_start, failed, expected>>
        /\ quiet' \in BOOLEAN
    BY <1>3 DEF Write, request, query
  <2>5. quiet' => quiet
    BY <1>3 DEF Write
  <2>2. /\ rows' \in [Table -> Seq(Message)] /\ Stored' = Stored \cup {m}
        /\ Since(since) \subseteq Since(since)'
    BY <1>1, <1>3, WriteEffect
  <2>3. TypeOK'
    BY <1>1, <2>1, <2>2 DEF TypeOK
  <2>4. IsFiniteSet(Stored')
    BY <1>1, <2>2, FS_AddElement
  <2> QED  BY <1>1, <2>1, <2>2, <2>3, <2>4, <2>5 DEF IInv, Sources
<1>13. ASSUME NEW t \in Table, NEW p \in Renamed, NEW i \in DOMAIN rows[t], Renumber(t, i, p)
       PROVE  IInv'
  <2>1. /\ UNCHANGED <<since, offset, limit, pc, left, found, response, running, got, runs, failures,
                       at_start, expected>>
        /\ failed' = (failed \/ running) /\ quiet' = (quiet /\ pc # "scan")
    BY <1>13 DEF Renumber, request, query
  <2>2. rows' \in [Table -> Seq(Message)] /\ Stored' \subseteq Stored \cup {p[2]}
    BY <1>1, <1>13, RenumberEffect
  <2>3. TypeOK'
    BY <1>1, <2>1, <2>2 DEF TypeOK
  <2>4. IsFiniteSet(Stored')
    BY <1>1, <2>2, FS_AddElement, FS_Subset
  <2>5. pc = "scan" => ~ quiet' /\ failed'
    BY <1>1, <2>1
  <2>6. ~ failed' => at_start = {}
    BY <1>1, <2>1
  <2> QED  BY <1>1, <2>1, <2>3, <2>4, <2>5, <2>6 DEF IInv, Sources
<1>4. ASSUME UNCHANGED <<rows, since>>, TypeOK', IsFiniteSet(found'),
             quiet' \/ ~ failed' => found' \subseteq Since(since),
             ~ failed' => at_start' \subseteq Since(since), pc' # "scan" => found' = {},
             pc' # "idle" => running' /\ runs' < MaxRuns, ~ running' => offset' = 0 /\ at_start' = {}
      PROVE  IInv'
  <2>1. Stored' = Stored /\ Since(since)' = Since(since)
    BY <1>4, SinceNext
  <2> QED  BY <1>1, <1>4, <2>1 DEF IInv, Sources
<1>5. CASE Ask
  <2>1. expected' \in SUBSET Message /\ (~ failed' => at_start' \in SUBSET Since(since))
        /\ at_start' \in SUBSET Message /\ found = {}
    <3>1. expected' \in SUBSET Since(since)
      BY <1>5 DEF Ask, Slice
    <3>2. \/ at_start' = Since(since)
          \/ at_start' = at_start /\ (~ failed' => at_start \in SUBSET Since(since))
      BY <1>1, <1>5 DEF Ask
    <3> QED  BY <1>1, <1>5, <3>1, <3>2, FiniteSources, TypesOf DEF Ask
  <2>2. /\ UNCHANGED <<rows, since, offset, found, response, got, runs, failures>>
        /\ pc' = "scan" /\ left' = Table /\ limit' \in Limits /\ quiet' = TRUE /\ running' = TRUE
        /\ runs < MaxRuns /\ failed' \in BOOLEAN
    BY <1>1, <1>5, TypesOf DEF Ask
  <2>3. TypeOK'
    BY <1>1, <2>1, <2>2 DEF TypeOK
  <2> QED  BY <1>1, <1>4, <2>1, <2>2, <2>3
<1>6. CASE Refused
  <2>1. TypeOK'
    BY <1>1, <1>6 DEF Refused, EndRun, TypeOK, query
  <2> QED  BY <1>1, <1>4, <1>6, <2>1 DEF Refused, EndRun, query
<1>7. CASE Receive
  <2>1. /\ UNCHANGED <<rows, limit, left, found, failures>> /\ found = {}
        /\ pc = "answered" /\ pc' = "idle" /\ response' = NoResponse /\ quiet' = TRUE /\ expected' = {}
        /\ got' = got \cup (response.page \cap Wants)
        /\ response.page \in SUBSET Message /\ response.next_offset \in Nat
        /\ response.checkpoint_time \in Nat
    BY <1>1, <1>7, TypesOf DEF Receive, EndQuery
  <2>2. got' \in SUBSET Message
    BY <1>1, <2>1 DEF TypeOK
  <2>3. CASE response.has_more
    <3>1. offset' = response.next_offset /\ UNCHANGED <<since, running, runs, at_start, failed>>
      BY <1>7, <2>3 DEF Receive
    <3>2. TypeOK'
      BY <1>1, <1>2, <2>1, <2>2, <3>1 DEF TypeOK
    <3> QED  BY <1>1, <1>4, <2>1, <3>1, <3>2
  <2>4. CASE ~ response.has_more
    <3>1. /\ offset' = 0 /\ running' = FALSE /\ at_start' = {} /\ failed' = FALSE
          /\ since' = response.checkpoint_time /\ runs' = runs + 1
      BY <1>7, <2>4 DEF Receive, EndRun
    <3>2. runs' \in 0 .. MaxRuns
      BY <1>1, <2>1, <3>1, TypesOf
    <3>3. TypeOK'
      BY <1>1, <1>2, <2>1, <2>2, <3>1, <3>2 DEF TypeOK
    <3>4. Stored' = Stored
      BY <2>1, SinceNext
    <3> QED  BY <1>1, <2>1, <3>1, <3>3, <3>4 DEF IInv, Sources
  <2> QED  BY <2>3, <2>4
<1>8. CASE Lose
  <2>1. TypeOK'
    BY <1>1, <1>2, <1>8 DEF Lose, EndQuery, TypeOK, request
  <2> QED  BY <1>1, <1>4, <1>8, <2>1 DEF Lose, EndQuery, request
<1>9. CASE Restart
  <2>1. TypeOK'
    BY <1>1, <1>9 DEF Restart, EndRun, TypeOK, query
  <2> QED  BY <1>1, <1>4, <1>9, <2>1 DEF Restart, EndRun, query
<1>10. ASSUME NEW t \in Table, ReadTable(t) PROVE IInv'
  <2>1. Decoded(t) \subseteq Since(since) /\ Since(since) \in SUBSET Message /\ IsFiniteSet(Since(since))
    BY <1>1, CandidatesStored, FiniteSources
  <2>2. /\ UNCHANGED <<rows, since, offset, limit, pc, response, running, got, runs, at_start, expected>>
        /\ pc = "scan" /\ left' = left \ {t}
        /\ \E some \in SUBSET Decoded(t) : found' = found \cup some
        /\ failed' \in BOOLEAN /\ quiet' \in BOOLEAN /\ (failed => failed') /\ (quiet' => quiet)
    <3>1. Decoded(t) \in SUBSET Decoded(t)
      OBVIOUS
    <3> QED  BY <1>1, <1>10, <3>1, TypesOf DEF ReadTable, request
  <2>5. PICK some \in SUBSET Decoded(t) : found' = found \cup some
    BY <2>2
  <2>6. IsFiniteSet(found') /\ (quiet' \/ ~ failed' => found' \subseteq Since(since))
    <3>1. IsFiniteSet(some)
      BY <2>1, FS_Subset
    <3> QED  BY <1>1, <2>1, <2>2, <2>5, <3>1, FS_Union
  <2>3. failures' \in 0 .. MaxFail
    BY <1>1, <1>10, TypesOf DEF ReadTable
  <2>4. TypeOK'
    BY <1>1, <2>1, <2>2, <2>3, <2>5 DEF TypeOK
  <2> QED  BY <1>1, <1>4, <2>1, <2>2, <2>4, <2>6
<1>11. CASE Answer
  <2>1. response' \in [page : SUBSET Message, next_offset : Nat, checkpoint_time : Nat, has_more : BOOLEAN]
    BY <1>11, AnswerEffect
  <2>2. /\ UNCHANGED <<rows, since, offset, limit, left, running, got, runs, failures, at_start, failed,
                       quiet, expected>>
        /\ pc = "scan" /\ pc' = "answered" /\ found' = {}
    BY <1>11 DEF Answer, request, history
  <2>3. TypeOK'
    BY <1>1, <2>1, <2>2 DEF TypeOK
  <2> QED  BY <1>1, <1>4, <2>2, <2>3, FS_EmptySet
<1>12. CASE UNCHANGED vars
  <2>1. TypeOK'
    BY <1>1, <1>12 DEF vars, TypeOK
  <2> QED  BY <1>1, <1>4, <1>12, <2>1 DEF vars
<1> QED  BY <1>3, <1>5, <1>6, <1>7, <1>8, <1>9, <1>10, <1>11, <1>12, <1>13 DEF Next, Server

-----------------------------------------------------------------------------
(***************************************************************************)
(* Pages                                                                   *)
(***************************************************************************)

LEMMA FiniteSourcesNext ==
  ASSUME IInv'
  PROVE  /\ Since(since)' \in SUBSET Message /\ IsFiniteSet(Since(since)')
         /\ Placed' \in SUBSET Since(since)' /\ IsFiniteSet(Placed')
         /\ found' \in SUBSET Message /\ IsFiniteSet(found')
<1>1. /\ rows' \in [Table -> Seq(Message)] /\ IsFiniteSet(Stored') /\ IsFiniteSet(found')
      /\ found' \in SUBSET Message
  BY DEF IInv, TypeOK, Sources
<1>2. Stored' \in SUBSET Message
  <2>1. ASSUME NEW t \in Table PROVE Range(rows'[t]) \subseteq Message
    <3>1. rows'[t] \in Seq(Message)
      BY <1>1
    <3> QED  BY <3>1 DEF Range
  <2> QED  BY <2>1 DEF Stored
<1>3. Since(since)' \in SUBSET Stored'
  BY SinceNext
<1>4. Placed' \in SUBSET Since(since)'
  BY DEF Placed
<1> HIDE DEF Placed, Stored, Since
<1>5. IsFiniteSet(Since(since)') /\ Since(since)' \in SUBSET Message
  BY <1>1, <1>2, <1>3, FS_Subset
<1> QED  BY <1>1, <1>4, <1>5, FS_Subset

LEMMA InIdOrderKept ==
  ASSUME TypeOK, IdsInRowOrder, InIdOrder, [Next]_vars
  PROVE  InIdOrder'
<1>1. CASE UNCHANGED rows
  BY <1>1 DEF InIdOrder
<1>2. ASSUME NEW t \in Table, NEW m \in Message, Write(t, m) PROVE InIdOrder'
  <2>1. /\ rows' \in [Table -> Seq(Message)] /\ rows'[t] = Append(rows[t], m)
        /\ \A u \in Table \ {t} : rows'[u] = rows[u]
    BY <1>2, WriteEffect
  <2>2. \A n \in Range(rows[t]) : TimeOf[n] = TimeOf[m] => n < m
    BY <1>2 DEF Write
  <2>3. ASSUME NEW i \in DOMAIN rows'[t], NEW j \in DOMAIN rows'[t], i < j,
               TimeOf[rows'[t][i]] = TimeOf[rows'[t][j]]
        PROVE  rows'[t][i] < rows'[t][j]
    <3>1. rows[t] \in Seq(Message)
      BY TypesOf
    <3>2. /\ DOMAIN rows'[t] = 1 .. Len(rows[t]) + 1 /\ DOMAIN rows[t] = 1 .. Len(rows[t])
          /\ Len(rows[t]) \in Nat
          /\ \A k \in 1 .. Len(rows[t]) : rows'[t][k] = rows[t][k]
          /\ rows'[t][Len(rows[t]) + 1] = m
      BY <2>1, <3>1
    <3>3. i \in DOMAIN rows[t] /\ rows'[t][i] = rows[t][i] /\ rows[t][i] \in Range(rows[t])
      BY <2>3, <3>2 DEF Range
    <3>4. CASE j = Len(rows[t]) + 1
      BY <2>2, <2>3, <3>2, <3>3, <3>4
    <3>5. CASE j # Len(rows[t]) + 1
      <4>1. j \in DOMAIN rows[t] /\ rows'[t][j] = rows[t][j]
        BY <3>2, <3>5
      <4> QED  BY <2>3, <3>3, <4>1 DEF InIdOrder
    <3> QED  BY <3>4, <3>5
  <2> QED  BY <2>1, <2>3 DEF InIdOrder
<1>3. ASSUME NEW t \in Table, NEW p \in Renamed, NEW i \in DOMAIN rows[t], Renumber(t, i, p)
      PROVE  InIdOrder'
  <2>1. /\ rows'[t] = [rows[t] EXCEPT ![i] = p[2]] /\ \A u \in Table \ {t} : rows'[u] = rows[u]
    BY <1>3, RenumberEffect
  <2>2. \A j \in DOMAIN rows[t] \ {i} :
          TimeOf[rows[t][j]] = TimeOf[p[2]] => IF j < i THEN rows[t][j] < p[2] ELSE p[2] < rows[t][j]
    BY <1>3 DEF Renumber
  <2>3. ASSUME NEW j \in DOMAIN rows'[t], NEW k \in DOMAIN rows'[t], j < k,
               TimeOf[rows'[t][j]] = TimeOf[rows'[t][k]]
        PROVE  rows'[t][j] < rows'[t][k]
    <3>1. /\ DOMAIN rows'[t] = DOMAIN rows[t] /\ DOMAIN rows[t] \subseteq Nat /\ rows'[t][i] = p[2]
          /\ \A l \in DOMAIN rows[t] \ {i} : rows'[t][l] = rows[t][l]
      BY <2>1, StoredMessages
    <3>2. CASE j = i
      BY <2>2, <2>3, <3>1, <3>2
    <3>3. CASE k = i
      BY <2>2, <2>3, <3>1, <3>3
    <3>4. CASE j # i /\ k # i
      BY <2>3, <3>1, <3>4 DEF InIdOrder
    <3> QED  BY <3>2, <3>3, <3>4
  <2> QED  BY <2>1, <2>3 DEF InIdOrder
<1> QED  BY <1>1, <1>2, <1>3 DEF Next, Server, Ask, Refused, Receive, Lose, Restart, ReadTable, Answer, vars

\* While a query goes on, what it can place and what is ahead of it only grow.
LEMMA PlacedGrows ==
  ASSUME IInv, IInv', Since(since) \subseteq Since(since)', found \subseteq found', FetchLimit' = FetchLimit,
         \A m \in Since(since) :
           (\E t \in left : m \in Range(rows[t])) =>
             \/ \E t \in left' : m \in Range(rows'[t])
             \/ m \in found' \/ Rank(m, found') >= FetchLimit
  PROVE  /\ Placed \subseteq Placed'
         /\ \A m \in Message :
              /\ Rank(m, Placed) \in Nat /\ Rank(m, Placed') \in Nat /\ Rank(m, Placed) <= Rank(m, Placed')
              /\ Rank(m, Since(since)) \in Nat /\ Rank(m, Since(since)') \in Nat
              /\ Rank(m, Since(since)) <= Rank(m, Since(since)')
<1>1. /\ Since(since) \in SUBSET Message /\ Placed \in SUBSET Since(since) /\ Placed \in SUBSET Message
      /\ Since(since)' \in SUBSET Message /\ IsFiniteSet(Since(since)')
      /\ Placed' \in SUBSET Message /\ IsFiniteSet(Placed')
      /\ found' \in SUBSET Message /\ IsFiniteSet(found') /\ FetchLimit \in Nat
  BY FiniteSources, FiniteSourcesNext, TypesOf DEF IInv
<1>2. \A m \in Message : Rank(m, found) <= Rank(m, found') /\ Rank(m, found) \in Nat /\ Rank(m, found') \in Nat
  BY <1>1, RankBounds
<1>3. Placed \subseteq Placed'
  <2> SUFFICES ASSUME NEW m \in Placed PROVE m \in Placed'
    OBVIOUS
  <2>1. m \in Since(since) /\ m \in Since(since)' /\ m \in Message
    BY <1>1
  <2>2. \/ \E t \in left : m \in Range(rows[t])
        \/ m \in found \/ Rank(m, found) >= FetchLimit
    BY DEF Placed
  <2>3. \/ \E t \in left' : m \in Range(rows'[t])
        \/ m \in found' \/ Rank(m, found') >= FetchLimit
    BY <1>1, <1>2, <2>1, <2>2
  <2> QED  BY <2>1, <2>3 DEF Placed
<1> HIDE DEF Placed
<1> QED  BY <1>1, <1>3, RankBounds

\* What a query has placed when it has read all tables: those it has read are
\* ahead as they are among all messages, as far as the page goes.
LEMMA ReadMessagesPlace ==
  ASSUME IInv, pc = "scan", left = {}, NEW P \in SUBSET Placed, NEW m \in Message
  PROVE  /\ Rank(m, found) \in Nat /\ Rank(m, P) \in Nat
         /\ Rank(m, found) >= FetchLimit \/ Rank(m, P) <= Rank(m, found)
         /\ m \in P => m \in found \/ Rank(m, found) >= FetchLimit
<1>1. /\ found \in SUBSET Message /\ IsFiniteSet(found) /\ FetchLimit \in Nat
      /\ P \in SUBSET Message /\ IsFiniteSet(P)
  <2>1. Placed \in SUBSET Message /\ IsFiniteSet(Placed)
    BY FiniteSources
  <2> QED  BY <2>1, FiniteSources, FS_Subset, TypesOf DEF IInv
<1>2. \A n \in P : n \in found \/ Rank(n, found) >= FetchLimit
  BY DEF Placed
<1> QED  BY <1>1, <1>2, PlacedRanks, RankBounds

\* The page of what was read is the page of all messages, and a message that
\* is not on it has all that was read ahead of it, or more.
LEMMA AnswerIsSlice ==
  ASSUME IInv, pc = "scan", left = {}, Since(since) \subseteq Placed, found \subseteq Since(since)
  PROVE  Slice(found, offset, limit) = Slice(Since(since), offset, limit)
<1>1. /\ found \in SUBSET Since(since) /\ Since(since) \in SUBSET Message /\ IsFiniteSet(Since(since))
      /\ Since(since) \in SUBSET Placed
  BY FiniteSources DEF IInv, Sources
<1>2. FetchLimit = offset + limit + 1 /\ offset \in Nat /\ limit \in Nat
  BY TypesOf DEF IInv, FetchLimit
<1>3. ASSUME NEW m \in Since(since)
      PROVE  m \in Slice(found, offset, limit) <=> m \in Slice(Since(since), offset, limit)
  <2>1. /\ Rank(m, found) \in Nat /\ Rank(m, Since(since)) \in Nat
        /\ Rank(m, found) >= FetchLimit \/ Rank(m, Since(since)) <= Rank(m, found)
        /\ m \in found \/ Rank(m, found) >= FetchLimit
    BY <1>1, ReadMessagesPlace
  <2>2. Rank(m, found) <= Rank(m, Since(since))
    BY <1>1, RankBounds
  <2> QED  BY <1>2, <2>1, <2>2 DEF Slice
<1> QED  BY <1>1, <1>3 DEF Slice

\* A message the run still owes the client is on the page, or there is more to
\* come and it is not ahead of what comes.
LEMMA AnswerPassesNoneOver ==
  ASSUME IInv, Answer, found \subseteq Since(since), NEW m \in Placed, Rank(m, Placed) >= offset
  PROVE  \/ m \in response'.page
         \/ response'.has_more /\ Rank(m, Since(since)) >= response'.next_offset
<1>1. /\ found \in SUBSET Since(since) /\ Since(since) \in SUBSET Message /\ IsFiniteSet(Since(since))
      /\ found \in SUBSET Message /\ IsFiniteSet(found)
      /\ m \in Message
  BY FiniteSources DEF IInv, Sources
<1>2. FetchLimit = offset + limit + 1 /\ offset \in Nat /\ limit \in Nat
  BY TypesOf DEF IInv, FetchLimit
<1>3. /\ Rank(m, found) \in Nat /\ Rank(m, Placed) \in Nat
      /\ Rank(m, found) >= FetchLimit \/ Rank(m, Placed) <= Rank(m, found)
      /\ m \in found \/ Rank(m, found) >= FetchLimit
  BY <1>1, ReadMessagesPlace DEF Answer
<1>4. /\ Rank(m, found) <= Rank(m, Since(since)) /\ Rank(m, Since(since)) \in Nat
      /\ Cardinality(found) \in Nat /\ Rank(m, found) <= Cardinality(found)
      /\ m \in found => Rank(m, found) < Cardinality(found)
  BY <1>1, RankBounds
<1>5. /\ response'.page = Slice(found, offset, limit)
      /\ response'.has_more = (Cardinality(found) > offset + limit)
      /\ response'.next_offset <= offset + limit /\ response'.next_offset \in Nat
  BY AnswerEffect DEF HasMore
<1>6. Rank(m, found) >= offset
  BY <1>2, <1>3
<1>7. CASE m \in found /\ Rank(m, found) < offset + limit
  BY <1>5, <1>6, <1>7 DEF Slice
<1>8. CASE ~ (m \in found /\ Rank(m, found) < offset + limit)
  <2>1. Cardinality(found) > offset + limit
    BY <1>2, <1>3, <1>4, <1>8
  <2>2. Rank(m, Since(since)) >= response'.next_offset
    BY <1>2, <1>3, <1>4, <1>5, <1>8
  <2> QED  BY <1>5, <2>1, <2>2
<1> QED  BY <1>7, <1>8

LEMMA NextKeepsPages ==
  ASSUME IdsInRowOrder, PagesInv, [Next]_vars
  PROVE  PagesInv'
<1>1. IInv /\ IInv' /\ InIdOrder'
  BY NextKeepsIInv, InIdOrderKept DEF PagesInv, IInv
<1>2. TypeOK /\ Sources /\ InIdOrder /\ QuietPlacesAll /\ NotPassedOver /\ MergedPagePresent
  BY DEF PagesInv, IInv
<1> SUFFICES QuietPlacesAll' /\ NotPassedOver' /\ MergedPagePresent'
  BY <1>1 DEF PagesInv
<1>3. /\ at_start \in SUBSET Message /\ (quiet \/ ~ failed => found \subseteq Since(since))
      /\ (~ failed => at_start \subseteq Since(since))
      /\ Since(since) \in SUBSET Message /\ offset \in Nat
  BY <1>1, <1>2, TypesOf, FiniteSources DEF Sources
<1>4. \* between requests only what the client has and the next offset matter
      ASSUME pc' = "idle", ~ failed' => ~ failed, at_start' = {} \/ (at_start' = at_start /\ got \subseteq got'),
             \A m \in (at_start' \cap Wants) \ got' :
               ~ failed => Rank(m, Since(since)') >= offset'
      PROVE  QuietPlacesAll' /\ NotPassedOver' /\ MergedPagePresent'
  BY <1>4 DEF QuietPlacesAll, NotPassedOver, MergedPagePresent
<1>5. ASSUME NEW t \in Table, NEW m \in Message, Write(t, m)
      PROVE  QuietPlacesAll' /\ NotPassedOver' /\ MergedPagePresent'
  <2>1. /\ UNCHANGED <<since, offset, limit, pc, left, found, response, got, at_start, failed, expected>>
        /\ quiet' = (quiet /\ pc # "scan")
    BY <1>5 DEF Write, request, query
  <2>2. /\ Since(since) \subseteq Since(since)' /\ \A u \in Table : Range(rows[u]) \subseteq Range(rows'[u])
    BY <1>2, <1>5, WriteEffect
  <2>3. FetchLimit' = FetchLimit
    BY <2>1 DEF FetchLimit
  <2>4. left' = left /\ left \in SUBSET Table
    BY <1>2, <2>1, TypesOf
  <2>5. /\ Placed \subseteq Placed'
        /\ \A k \in Message : /\ Rank(k, Placed) <= Rank(k, Placed') /\ Rank(k, Placed) \in Nat
                              /\ Rank(k, Placed') \in Nat
                              /\ Rank(k, Since(since)) <= Rank(k, Since(since)')
                              /\ Rank(k, Since(since)) \in Nat /\ Rank(k, Since(since)') \in Nat
    BY <1>1, <2>1, <2>2, <2>3, <2>4, PlacedGrows
  <2>6. NotPassedOver'
    <3> SUFFICES ASSUME ~ failed, NEW k \in (at_start \cap Wants) \ got
                 PROVE  /\ Rank(k, Since(since)') >= offset
                        /\ pc = "scan" => k \in Placed' /\ Rank(k, Placed') >= offset
                        /\ pc = "answered" =>
                             \/ k \in response.page
                             \/ response.has_more /\ Rank(k, Since(since)') >= response.next_offset
      BY <2>1 DEF NotPassedOver
    <3>1. /\ Rank(k, Since(since)) >= offset
          /\ pc = "scan" => k \in Placed /\ Rank(k, Placed) >= offset
          /\ pc = "answered" => \/ k \in response.page
                                \/ response.has_more /\ Rank(k, Since(since)) >= response.next_offset
      BY <1>2 DEF NotPassedOver
    <3>2. k \in Message /\ response.next_offset \in Nat
      BY <1>2, <1>3, TypesOf
    <3>3. Rank(k, Since(since)') >= offset
      BY <1>3, <2>5, <3>1, <3>2
    <3>4. ASSUME pc = "scan" PROVE k \in Placed' /\ Rank(k, Placed') >= offset
      BY <1>3, <2>5, <3>1, <3>2, <3>4
    <3>5. Rank(k, Since(since)) >= response.next_offset => Rank(k, Since(since)') >= response.next_offset
      BY <2>5, <3>2
    <3> QED  BY <3>1, <3>3, <3>4, <3>5
  <2>7. QuietPlacesAll'
    BY <2>1 DEF QuietPlacesAll
  <2>8. MergedPagePresent'
    BY <1>2, <2>1 DEF MergedPagePresent
  <2> QED  BY <2>6, <2>7, <2>8
<1>14. ASSUME NEW t \in Table, NEW p \in Renamed, NEW i \in DOMAIN rows[t], Renumber(t, i, p)
       PROVE  QuietPlacesAll' /\ NotPassedOver' /\ MergedPagePresent'
  <2>1. /\ UNCHANGED <<pc, response, at_start, expected>>
        /\ failed' = (failed \/ running) /\ quiet' = (quiet /\ pc # "scan")
    BY <1>14 DEF Renumber, query
  <2>2. failed' \/ at_start = {}
    BY <1>2, <2>1 DEF Sources
  <2>3. QuietPlacesAll' /\ MergedPagePresent'
    BY <1>2, <2>1 DEF QuietPlacesAll, MergedPagePresent
  <2> QED  BY <2>1, <2>2, <2>3 DEF NotPassedOver
<1>6. CASE Ask
  <2>1. /\ UNCHANGED <<rows, since, offset, found, got>> /\ pc = "idle" /\ pc' = "scan" /\ left' = Table
        /\ expected' = Slice(Since(since), offset, limit')
        /\ \/ running /\ UNCHANGED <<at_start, failed>>
           \/ ~ running /\ at_start' = Since(since)
    BY <1>6 DEF Ask
  <2>2. Since(since)' = Since(since)
    BY <2>1, SinceNext
  <2>3. Placed' = Since(since)
    <3>1. \A m \in Since(since) : \E t \in Table : m \in Range(rows[t])
      BY DEF Since
    <3> QED  BY <2>1, <2>2, <3>1 DEF Placed
  <2>4. \A m \in Message : Rank(m, Since(since)) \in Nat
    BY <1>1, FiniteSources, RankBounds
  <2>5. ASSUME ~ failed', NEW m \in (at_start' \cap Wants) \ got
        PROVE  m \in Since(since) /\ Rank(m, Since(since)) >= offset
    <3>1. CASE running
      BY <1>2, <1>3, <2>1, <2>5, <3>1 DEF NotPassedOver
    <3>2. CASE ~ running
      <4>1. m \in Since(since) /\ m \in Message /\ offset = 0
        BY <1>2, <1>3, <2>1, <2>5, <3>2 DEF Sources
      <4> QED  BY <2>4, <4>1
    <3> QED  BY <3>1, <3>2
  <2>6. NotPassedOver'
    BY <2>1, <2>2, <2>3, <2>5 DEF NotPassedOver
  <2> QED  BY <2>1, <2>2, <2>3, <2>6 DEF QuietPlacesAll, MergedPagePresent
<1>7. CASE Refused
  <2>1. pc' = "idle" /\ at_start' = {} /\ QuietPlacesAll' /\ MergedPagePresent'
    BY <1>7 DEF Refused, EndRun, QuietPlacesAll, MergedPagePresent
  <2> QED  BY <2>1 DEF NotPassedOver
<1>8. CASE Restart
  <2>1. pc' = "idle" /\ at_start' = {} /\ QuietPlacesAll' /\ MergedPagePresent'
    BY <1>8 DEF Restart, EndRun, QuietPlacesAll, MergedPagePresent
  <2> QED  BY <2>1 DEF NotPassedOver
<1>9. CASE Lose
  <2>1. pc' = "idle" /\ UNCHANGED <<rows, since, offset, got, at_start, failed>>
    BY <1>9 DEF Lose, EndQuery, request
  <2>2. Since(since)' = Since(since)
    BY <2>1, SinceNext
  <2> QED  BY <1>2, <1>4, <2>1, <2>2 DEF NotPassedOver
<1>10. CASE Receive
  <2>1. pc = "answered" /\ pc' = "idle" /\ got' = got \cup (response.page \cap Wants) /\ rows' = rows
    BY <1>10 DEF Receive, EndQuery
  <2>2. CASE response.has_more
    <3>1. offset' = response.next_offset /\ UNCHANGED <<since, running, runs, at_start, failed>>
      BY <1>10, <2>2 DEF Receive
    <3>2. Since(since)' = Since(since)
      BY <2>1, <3>1, SinceNext
    <3>3. \A m \in (at_start \cap Wants) \ got' : ~ failed => Rank(m, Since(since)) >= response.next_offset
      BY <1>2, <2>1 DEF NotPassedOver
    <3> QED  BY <1>4, <2>1, <3>1, <3>2, <3>3
  <2>3. CASE ~ response.has_more
    <3>1. at_start' = {} /\ QuietPlacesAll' /\ MergedPagePresent'
      BY <1>10, <2>1, <2>3 DEF Receive, EndRun, QuietPlacesAll, MergedPagePresent
    <3> QED  BY <3>1 DEF NotPassedOver
  <2> QED  BY <2>2, <2>3
<1>11. ASSUME NEW t \in Table, ReadTable(t)
       PROVE  QuietPlacesAll' /\ NotPassedOver' /\ MergedPagePresent'
  <2>1. /\ UNCHANGED <<rows, since, offset, limit, pc, response, got, at_start, expected>>
        /\ pc = "scan" /\ left' = left \ {t}
        /\ \/ ~ Short(t) /\ found' = found \cup Decoded(t) /\ UNCHANGED <<failed, quiet>>
           \/ failed' = TRUE /\ quiet' = FALSE
    BY <1>2, <1>11, TypesOf DEF ReadTable, request
  <2>2. CASE failed' = TRUE /\ quiet' = FALSE
    BY <2>1, <2>2 DEF QuietPlacesAll, NotPassedOver, MergedPagePresent
  <2>3. CASE ~ Short(t) /\ found' = found \cup Decoded(t) /\ UNCHANGED <<failed, quiet>>
    <3>1. Since(since)' = Since(since) /\ FetchLimit' = FetchLimit
      BY <2>1, SinceNext DEF FetchLimit
    <3>2. /\ found' \in SUBSET Message /\ IsFiniteSet(found') /\ FetchLimit \in Nat
      BY <1>1, <1>2, FiniteSourcesNext, TypesOf
    <3>3. ASSUME NEW m \in Since(since), NEW u \in left, m \in Range(rows[u])
          PROVE  \/ \E v \in left' : m \in Range(rows'[v])
                 \/ m \in found' \/ Rank(m, found') >= FetchLimit
      <4>1. CASE u # t
        BY <2>1, <3>3, <4>1
      <4>2. CASE u = t
        <5>1. m \in Message /\ TimeOf[m] >= since /\ m \notin Unreadable
          BY <1>3, SinceNext
        <5>2. m \in Decoded(t) \/ Rank(m, Decoded(t)) >= FetchLimit
          BY <1>2, <2>3, <3>3, <4>2, <5>1, DecodedPlace DEF Sources
        <5>3. /\ Rank(m, Decoded(t)) <= Rank(m, found')
              /\ Rank(m, Decoded(t)) \in Nat /\ Rank(m, found') \in Nat
          BY <2>3, <3>2, <5>1, RankBounds
        <5> QED  BY <2>3, <3>2, <5>2, <5>3
      <4> QED  BY <4>1, <4>2
    <3>4. /\ Placed \subseteq Placed'
          /\ \A k \in Message : /\ Rank(k, Placed) <= Rank(k, Placed')
                                /\ Rank(k, Placed) \in Nat /\ Rank(k, Placed') \in Nat
      BY <1>1, <2>3, <3>1, <3>3, PlacedGrows
    <3>5. QuietPlacesAll'
      BY <1>2, <2>1, <2>3, <3>1, <3>4 DEF QuietPlacesAll
    <3>6. NotPassedOver'
      <4> SUFFICES ASSUME ~ failed, NEW m \in (at_start \cap Wants) \ got
                   PROVE  /\ Rank(m, Since(since)) >= offset
                          /\ m \in Placed' /\ Rank(m, Placed') >= offset
        BY <2>1, <2>3, <3>1 DEF NotPassedOver
      <4>1. Rank(m, Since(since)) >= offset /\ m \in Placed /\ Rank(m, Placed) >= offset
        BY <1>2, <2>1 DEF NotPassedOver
      <4> QED  BY <1>3, <3>4, <4>1
    <3>7. MergedPagePresent'
      BY <2>1 DEF MergedPagePresent
    <3> QED  BY <3>5, <3>6, <3>7
  <2> QED  BY <2>1, <2>2, <2>3
<1>12. CASE Answer
  <2>1. /\ UNCHANGED <<rows, since, offset, limit, got, at_start, failed, quiet, expected>>
        /\ pc = "scan" /\ left = {} /\ pc' = "answered"
    BY <1>12 DEF Answer, request, history
  <2>2. Since(since)' = Since(since)
    BY <2>1, SinceNext
  <2>3. MergedPagePresent'
    <3> SUFFICES ASSUME quiet PROVE response'.page = expected
      BY <2>1 DEF MergedPagePresent
    <3>1. Since(since) \subseteq Placed /\ expected = Slice(Since(since), offset, limit)
      BY <1>2, <2>1 DEF QuietPlacesAll
    <3>2. response'.page = Slice(found, offset, limit)
      BY <1>1, <1>12, AnswerEffect
    <3> QED  BY <1>1, <1>3, <2>1, <3>1, <3>2, AnswerIsSlice
  <2>4. NotPassedOver'
    <3> SUFFICES ASSUME ~ failed, NEW m \in (at_start \cap Wants) \ got
                 PROVE  /\ Rank(m, Since(since)) >= offset
                        /\ \/ m \in response'.page
                           \/ response'.has_more /\ Rank(m, Since(since)) >= response'.next_offset
      BY <2>1, <2>2 DEF NotPassedOver
    <3>1. Rank(m, Since(since)) >= offset /\ m \in Placed /\ Rank(m, Placed) >= offset
      BY <1>2, <2>1 DEF NotPassedOver
    <3> QED  BY <1>1, <1>3, <1>12, <3>1, AnswerPassesNoneOver
  <2> QED  BY <2>1, <2>3, <2>4 DEF QuietPlacesAll
<1>13. CASE UNCHANGED vars
  <2>1. UNCHANGED <<rows, since, offset, limit, pc, left, found, response, got, at_start, failed, quiet,
                    expected>>
    BY <1>13 DEF vars
  <2>2. Since(since)' = Since(since) /\ Placed' = Placed
    BY <2>1 DEF Since, Placed, FetchLimit
  <2> QED  BY <1>2, <2>1, <2>2 DEF QuietPlacesAll, NotPassedOver, MergedPagePresent
<1> QED  BY <1>5, <1>6, <1>7, <1>8, <1>9, <1>10, <1>11, <1>12, <1>13, <1>14 DEF Next, Server

-----------------------------------------------------------------------------
(***************************************************************************)
(* Theorems                                                                *)
(***************************************************************************)

\* A query reads only what the tables hold since the checkpoint, whatever is
\* written or fails meanwhile, as long as no id changes, and a run the client has
\* not begun is at no offset.
THEOREM InductiveInvariant ==
  Spec => []IInv
<1>1. Init => IInv
  BY InitKeeps
<1>2. IInv /\ [Next]_vars => IInv'
  BY NextKeepsIInv
<1> QED  BY <1>1, <1>2, PTL DEF Spec

\* The pages are sets of messages, offsets and checkpoint_time natural numbers:
\* the last message of a page, whose time the checkpoint takes, always exists.
THEOREM TypeCorrect ==
  Spec => []TypeOK
<1>1. IInv => TypeOK
  BY DEF IInv
<1> QED  BY <1>1, InductiveInvariant, PTL

\* Where ids of one second ascend like the rows of a table, and as long as none
\* changes and no table fails or falls short, what is ahead of a
\* message the client still needs never grows past what its offset skips.
THEOREM PagesInvariant ==
  ASSUME IdsInRowOrder
  PROVE  Spec => []PagesInv
<1>1. Init => PagesInv
  BY InitKeeps DEF PagesInv
<1>2. PagesInv /\ [Next]_vars => PagesInv'
  BY NextKeepsPages
<1> QED  BY <1>1, <1>2, PTL DEF Spec

\* get_message_history of db.rs: offset + limit + 1 rows of every table are
\* enough for the page of the merged tables, for any number of tables, rows,
\* offsets and page sizes, unless one that cannot be decoded (db.rs drops it after
\* the LIMIT) stands in the place of one that can.
THEOREM MergedPages ==
  ASSUME IdsInRowOrder
  PROVE  Spec => []MergedPagePresent
<1>1. PagesInv => MergedPagePresent
  BY DEF PagesInv
<1> QED  BY <1>1, PagesInvariant, PTL

\* A run that ends has brought the client all its filters let through of what was
\* there to be read when it began, although the tables are read one after another,
\* the offset counts rows that move, and rows come at any time: unless in one of
\* its queries a table failed or a dropped row stood in the place of another, or
\* an own message got the server's id meanwhile.
THEOREM RunsComplete ==
  ASSUME IdsInRowOrder
  PROVE  Spec => RunComplete
<1>1. ASSUME PagesInv, [Next]_vars, runs' # runs, ~ failed
      PROVE  at_start \cap Wants \subseteq got'
  <2>1. Receive /\ ~ response.has_more
    BY <1>1 DEF Next, Server, Write, Renumber, Ask, Refused, Receive, Lose, Restart, ReadTable, Answer, vars, EndRun
  <2>2. pc = "answered" /\ got' = got \cup (response.page \cap Wants)
    BY <2>1 DEF Receive
  <2> QED  BY <1>1, <2>1, <2>2 DEF PagesInv, NotPassedOver
<1>2. PagesInv /\ [Next]_vars => [runs' # runs /\ ~ failed => at_start \cap Wants \subseteq got']_vars
  BY <1>1
<1> QED  BY <1>2, PagesInvariant, PTL DEF Spec, RunComplete

=============================================================================
