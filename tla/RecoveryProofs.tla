--------------------------- MODULE RecoveryProofs ---------------------------
(***************************************************************************)
(* Recovery: that a client that follows docs/API.md loses no message and   *)
(* processes none twice, for any number of tables and rows, any capacity   *)
(* of the channel and any number of lost connections and restarts.         *)
(*                                                                         *)
(* The argument is about time.  A message the client lacks is no older     *)
(* than its checkpoint less the overlap, for what would move the           *)
(* checkpoint past it comes behind it in the stream.                       *)
(***************************************************************************)
EXTENDS Recovery, FiniteSetTheorems, SequenceTheorems, TLAPS

-----------------------------------------------------------------------------
(***************************************************************************)
(* The inductive invariants                                                *)
(***************************************************************************)

Unpolled == UNION {{rows[t][i] : i \in watermark[t] + 1 .. Len(rows[t])} : t \in Table}
RowsOf(events) == {e.row : e \in Range(events)}

\* The ids a row can have: its own row's, until the server's arrives, and that.
IdsOf(r) ==
  {<<"wx", r, 0>>} \cup (IF r \in Own THEN {<<"local", TableOf[r] \in known, r>> : known \in NamesOfScan}
                         ELSE {})
Events == {e \in AnyEvent : e.row \in Written /\ e.id \in IdsOf(e.row)}

\* The tables hold the rows that belong there; ours only may wait for their id.
RowsInPlace ==
  /\ \A t \in Table : \A r \in Range(rows[t]) : TableOf[r] = t
  /\ Written \ Own \subseteq numbered
  /\ \A t \in Table : watermark[t] <= Len(rows[t])

EventsTell ==
  /\ Range(batch) \cup Range(channel) \cup Range(wire) \cup Range(kept) \cup found \subseteq Events
  /\ mode = "scan" => names \in NamesOfScan

\* The connection, seen from both ends.
OneConnection ==
  /\ mode = "down" => socket = "none" /\ kept = <<>> /\ wire = <<>>
  /\ socket # "open" => channel = <<>> /\ ~ lagged
  /\ mode \in {"scan", "live"} => socket # "upgraded"
  /\ mode # "scan" => found = {} /\ left = {}

\* A row was processed as often as it had ids that were.
IdsCounted == \A r \in Row : times[r] = Cardinality(done \cap IdsOf(r))

\* The times of the rows are bounded, and so is the checkpoint by one of them.
Checkpointed ==
  /\ \E bound \in Nat : \A r \in Written : TimeOf[r] <= bound
  /\ since = 0 \/ \E r \in Written : since <= TimeOf[r]

IInv == TypeOK /\ RowsInPlace /\ EventsTell /\ OneConnection /\ IdsCounted /\ Checkpointed

Unprocessed == {r \in Written : times[r] = 0}
Latest(r) == \A other \in Written : TimeOf[other] <= TimeOf[r] + Skew
Good == socket = "open" /\ ~ lagged

\* What the client lacks its next run asks for.
WithinOverlap == \A r \in Unprocessed : since <= TimeOf[r] + Skew

\* What is yet to be broadcast is no older than the skew.
LateRows == \A r \in RowsOf(batch) \cup Unpolled : Latest(r)

\* What a run does not find came after it began, and over the connection.
RunFinds ==
  mode = "scan" =>
    \A r \in Unprocessed :
      \/ r \in {e.row : e \in found}
      \/ TableOf[r] \in left
      \/ Latest(r) /\ (Good => r \in Coming)

\* Events on their way to the client, the next to be processed first.
Pipe == kept \o wire \o (IF lagged THEN <<>> ELSE channel)

\* An event that would move the checkpoint past a message comes behind it.
Ordered(pipe, lacking) ==
  \A r \in lacking : \A j \in 1 .. Len(pipe) :
    TimeOf[pipe[j].row] <= TimeOf[r] + Skew \/ \E i \in 1 .. j - 1 : pipe[i].row = r
InOrder == mode = "live" => Ordered(Pipe, Unprocessed)

\* NoMessageLost, of the rows that were not processed.
NoneLost == mode = "live" /\ Good => Unprocessed \subseteq Coming

StreamInv == IInv /\ WithinOverlap /\ LateRows /\ RunFinds /\ InOrder /\ NoneLost

\* All databases tell the chat of a table alike; and the client's overlap covers
\* what rows that are under way differ by.
OneNaming == \A c, d \in Range(DbOf) : Names[c] = Names[d]
OverlapSuffices == Skew <= Overlap

-----------------------------------------------------------------------------
(***************************************************************************)
(* Natural numbers and sequences                                           *)
(***************************************************************************)

LEMMA LeastNatural ==
  ASSUME NEW S, S \subseteq Nat, S # {}
  PROVE  \E least \in S : \A n \in S : least <= n
<1>1. PICK least \in S : \A n \in S : ~ (<<n, least>> \in OpToRel(<, Nat))
  BY NatLessThanWellFounded, WFMin, Zenon
<1>2. \A n \in S : ~ (n < least)
  BY <1>1, Zenon DEF OpToRel
<1> QED  BY <1>2

LEMMA GreatestNatural ==
  ASSUME NEW S, S \subseteq Nat, S # {}, NEW bound \in Nat, \A n \in S : n <= bound
  PROVE  \E greatest \in S : \A n \in S : n <= greatest
<1> DEFINE bounds == {b \in Nat : \A n \in S : n <= b}
<1>1. PICK b \in bounds : \A c \in bounds : b <= c
  <2>1. bounds \subseteq Nat /\ bounds # {}
    OBVIOUS
  <2> HIDE DEF bounds
  <2> QED  BY <2>1, LeastNatural
<1>2. CASE b \in S
  BY <1>1, <1>2
<1>3. CASE b \notin S
  <2>1. \A n \in S : n < b
    BY <1>1, <1>3
  <2>2. b \in Nat
    BY <1>1
  <2>3. PICK n \in S : TRUE
    OBVIOUS
  <2>4. n \in Nat /\ n < b
    BY <2>1, <2>3
  <2>5. b - 1 \in Nat /\ ~ (b <= b - 1)
    BY <2>2, <2>4
  <2>6. \A m \in S : m <= b - 1
    <3> SUFFICES ASSUME NEW m \in S PROVE m <= b - 1
      OBVIOUS
    <3>1. m \in Nat /\ m < b
      BY <2>1
    <3> QED  BY <2>2, <3>1
  <2>7. b - 1 \in bounds
    BY <2>5, <2>6
  <2> QED  BY <1>1, <2>5, <2>7
<1> QED  BY <1>2, <1>3

\* FlattenSeq is defined by recursion: what it says of the parts up to n holds
\* for all of them, for otherwise there were a least n for which it does not.
LEMMA FlattenRange ==
  ASSUME NEW S, NEW parts \in Seq(Seq(S))
  PROVE  /\ FlattenSeq(parts) \in Seq(S)
         /\ Range(FlattenSeq(parts)) = UNION {Range(parts[i]) : i \in 1 .. Len(parts)}
<1> DEFINE N == Len(parts)
           Solves(f, n) == f = [i \in 1 .. n |-> IF i = 1 THEN parts[i] ELSE f[i - 1] \o parts[i]]
           flatten == CHOOSE f : Solves(f, N)
<1>1. N \in Nat /\ \A i \in 1 .. N : parts[i] \in Seq(S)
  OBVIOUS
<1>2. CASE N = 0
  <2>1. FlattenSeq(parts) = <<>> /\ 1 .. N = {}
    BY <1>2 DEF FlattenSeq
  <2>2. <<>> \in Seq(S) /\ Range(<<>>) = {}
    BY DEF Range
  <2> QED  BY <2>1, <2>2
<1>3. CASE N # 0
  <2>1. FlattenSeq(parts) = flatten[N]
    BY <1>3 DEF FlattenSeq
  <2>2. \A n \in Nat : \E f : Solves(f, n)
    <3> SUFFICES ASSUME \E n \in Nat : ~ \E f : Solves(f, n) PROVE FALSE
      OBVIOUS
    <3> DEFINE unsolved == {n \in Nat : ~ \E f : Solves(f, n)}
    <3>1. PICK n \in unsolved : \A m \in unsolved : n <= m
      <4>1. unsolved \subseteq Nat /\ unsolved # {}
        OBVIOUS
      <4> HIDE DEF unsolved
      <4> QED  BY <4>1, LeastNatural
    <3>2. n # 0
      <4> DEFINE none == [i \in 1 .. 0 |-> parts[i]]
      <4>1. Solves(none, 0)
        OBVIOUS
      <4>2. 0 \notin unsolved
        BY <4>1
      <4> QED  BY <3>1, <4>2
    <3>3. n \in Nat
      BY <3>1
    <3>4. n - 1 \in Nat /\ ~ (n <= n - 1)
      BY <3>2, <3>3
    <3>5. n - 1 \notin unsolved
      BY <3>1, <3>4
    <3>6. PICK f : Solves(f, n - 1)
      BY <3>4, <3>5
    <3> DEFINE g == [i \in 1 .. n |-> IF i = n THEN IF n = 1 THEN parts[n] ELSE f[n - 1] \o parts[n]
                                      ELSE f[i]]
    <3>7. ASSUME NEW i \in 1 .. n PROVE g[i] = IF i = 1 THEN parts[i] ELSE g[i - 1] \o parts[i]
      <4>1. CASE i = n
        <5>1. n # 1 => n - 1 \in 1 .. n /\ n - 1 # n
          BY <3>2, <3>3
        <5>2. n # 1 => g[n - 1] = f[n - 1]
          BY <5>1
        <5> QED  BY <4>1, <5>2
      <4>2. CASE i # n
        <5>1. i \in 1 .. n - 1 /\ (i # 1 => i - 1 \in 1 .. n /\ i - 1 # n)
          BY <3>3, <4>2
        <5>2. g[i] = f[i] /\ (i # 1 => g[i - 1] = f[i - 1])
          BY <4>2, <5>1
        <5>3. f[i] = IF i = 1 THEN parts[i] ELSE f[i - 1] \o parts[i]
          BY <3>6, <5>1
        <5> HIDE DEF g
        <5> QED  BY <5>2, <5>3
      <4> QED  BY <4>1, <4>2
    <3>8. Solves(g, n)
      <4>1. g = [i \in 1 .. n |-> g[i]]
        OBVIOUS
      <4> HIDE DEF g
      <4>2. [i \in 1 .. n |-> g[i]]
            = [i \in 1 .. n |-> IF i = 1 THEN parts[i] ELSE g[i - 1] \o parts[i]]
        BY <3>7
      <4> QED  BY <4>1, <4>2
    <3> HIDE DEF Solves
    <3>9. ~ \E h : Solves(h, n)
      BY <3>1
    <3> QED  BY <3>8, <3>9
  <2>3. Solves(flatten, N)
    <3> HIDE DEF Solves
    <3> QED  BY <1>1, <2>2
  <2> DEFINE Flat(n) == /\ flatten[n] \in Seq(S)
                        /\ Range(flatten[n]) = UNION {Range(parts[i]) : i \in 1 .. n}
  <2>4. \A n \in 1 .. N : flatten[n] = IF n = 1 THEN parts[n] ELSE flatten[n - 1] \o parts[n]
    <3> HIDE DEF flatten
    <3> QED  BY <2>3
  <2> HIDE DEF flatten
  <2>5. \A n \in 1 .. N : Flat(n)
    <3> SUFFICES ASSUME \E n \in 1 .. N : ~ Flat(n) PROVE FALSE
      OBVIOUS
    <3> DEFINE wrong == {n \in 1 .. N : ~ Flat(n)}
    <3> HIDE DEF Flat, N
    <3>1. PICK n \in wrong : \A m \in wrong : n <= m
      <4>1. wrong \subseteq Nat /\ wrong # {}
        BY <1>1
      <4> HIDE DEF wrong
      <4> QED  BY <4>1, LeastNatural
    <3>2. n \in 1 .. N /\ ~ Flat(n)
      BY <3>1
    <3>3. CASE n = 1
      <4>1. flatten[n] = parts[1] /\ parts[1] \in Seq(S) /\ 1 .. n = {1}
        BY <1>1, <2>4, <3>2, <3>3
      <4> QED  BY <3>2, <4>1 DEF Flat
    <3>4. CASE n # 1
      <4>1. n - 1 \in 1 .. N /\ ~ (n <= n - 1)
        BY <1>1, <3>2, <3>4
      <4>2. n - 1 \notin wrong
        BY <3>1, <4>1
      <4>3. Flat(n - 1)
        BY <4>1, <4>2
      <4>4. flatten[n] = flatten[n - 1] \o parts[n] /\ parts[n] \in Seq(S)
        BY <1>1, <2>4, <3>2, <3>4
      <4>5. /\ flatten[n - 1] \in Seq(S)
            /\ Range(flatten[n - 1]) = UNION {Range(parts[i]) : i \in 1 .. n - 1}
        BY <4>3 DEF Flat
      <4>6. flatten[n] \in Seq(S) /\ Range(flatten[n]) = Range(flatten[n - 1]) \cup Range(parts[n])
        BY <4>4, <4>5, ConcatProperties, RangeConcatenation
      <4>7. 1 .. n = (1 .. n - 1) \cup {n}
        BY <1>1, <3>2, <3>4
      <4> HIDE DEF wrong
      <4>8. UNION {Range(parts[i]) : i \in 1 .. n}
            = (UNION {Range(parts[i]) : i \in 1 .. n - 1}) \cup Range(parts[n])
        BY <4>7, Zenon
      <4> QED  BY <3>2, <4>5, <4>6, <4>8 DEF Flat
    <3> QED  BY <3>3, <3>4
  <2>6. N \in 1 .. N
    BY <1>1, <1>3
  <2>7. Flat(N)
    <3> HIDE DEF Flat, N
    <3> QED  BY <2>5, <2>6
  <2> QED  BY <2>1, <2>7
<1> QED  BY <1>2, <1>3

LEMMA AppendRange ==
  ASSUME NEW S, NEW s \in Seq(S), NEW e \in S
  PROVE  Append(s, e) \in Seq(S) /\ Range(Append(s, e)) = Range(s) \cup {e}
<1>1. <<e>> \in Seq(S) /\ Range(<<e>>) = {e}
  BY DEF Range
<1>2. Append(s, e) = s \o <<e>>
  BY AppendIsConcat
<1>3. Range(s \o <<e>>) = Range(s) \cup Range(<<e>>)
  BY <1>1, RangeConcatenation
<1>4. Append(s, e) \in Seq(S)
  BY AppendProperties
<1> QED  BY <1>1, <1>2, <1>3, <1>4

LEMMA HeadTailRange ==
  ASSUME NEW S, NEW s \in Seq(S), s # <<>>
  PROVE  /\ Tail(s) \in Seq(S) /\ Head(s) \in S
         /\ Head(s) \in Range(s) /\ Range(s) = {Head(s)} \cup Range(Tail(s))
<1>1. /\ Head(s) \in S /\ Tail(s) \in Seq(S) /\ Len(Tail(s)) = Len(s) - 1
      /\ \A i \in 1 .. Len(Tail(s)) : Tail(s)[i] = s[i + 1]
  BY HeadTailProperties
<1>2. Len(s) \in Nat \ {0} /\ Head(s) = s[1]
  BY EmptySeq
<1>3. Range(s) = {s[i] : i \in 1 .. Len(s)} /\ Range(Tail(s)) = {Tail(s)[i] : i \in 1 .. Len(Tail(s))}
  BY <1>1, RangeEquality
<1>4. Range(Tail(s)) \subseteq Range(s)
  BY <1>1, <1>2, <1>3
<1>5. ASSUME NEW i \in 1 .. Len(s) PROVE s[i] \in {Head(s)} \cup Range(Tail(s))
  <2>1. CASE i = 1
    BY <1>2, <2>1
  <2>2. CASE i # 1
    <3>1. i - 1 \in 1 .. Len(Tail(s)) /\ (i - 1) + 1 = i
      BY <1>1, <1>2, <2>2
    <3>2. Tail(s)[i - 1] = s[i]
      BY <1>1, <3>1
    <3> QED  BY <1>3, <3>1, <3>2
  <2> QED  BY <2>1, <2>2
<1>6. Head(s) \in Range(s)
  BY <1>2, <1>3
<1> QED  BY <1>1, <1>3, <1>4, <1>5, <1>6

LEMMA DisjointCardinality ==
  ASSUME NEW A, NEW B, IsFiniteSet(A), IsFiniteSet(B), A \cap B = {}
  PROVE  IsFiniteSet(A \cup B) /\ Cardinality(A \cup B) = Cardinality(A) + Cardinality(B)
<1>1. /\ IsFiniteSet(A \cup B)
      /\ Cardinality(A \cup B) = Cardinality(A) + Cardinality(B) - Cardinality(A \cap B)
  BY FS_Union
<1>2. Cardinality(A \cap B) = 0
  BY FS_EmptySet
<1>3. Cardinality(A) \in Nat /\ Cardinality(B) \in Nat
  BY FS_CardinalityType
<1> QED  BY <1>1, <1>2, <1>3

\* An order in which the tables are read has each of them.
LEMMA OrderCovers ==
  ASSUME NEW order \in SetToSeqs(Table)
  PROVE  order \in Seq(Table) /\ Range(order) = Table
<1> DEFINE D == 1 .. Cardinality(Table)
<1>1. IsFiniteSet(Table) /\ Cardinality(Table) \in Nat
  BY RecoveryAssumption, FS_CardinalityType
<1>2. order \in [D -> Table] /\ \A i, j \in D : i # j => order[i] # order[j]
  BY DEF SetToSeqs
<1>3. order \in Injection(D, Table)
  BY <1>2 DEF Injection, IsInjective
<1>4. IsFiniteSet(D) /\ Cardinality(D) = Cardinality(Table)
  BY <1>1, FS_Interval
<1>5. order \in Surjection(D, Table)
  <2> HIDE DEF D
  <2> QED  BY <1>1, <1>3, <1>4, FS_Injection
<1>6. Range(order) = Table
  BY <1>2, <1>5 DEF Surjection, Range
<1>7. order \in Seq(Table)
  BY <1>1, <1>2
<1> QED  BY <1>6, <1>7

-----------------------------------------------------------------------------
(***************************************************************************)
(* Events and their ids                                                    *)
(***************************************************************************)

LEMMA EventOfRow ==
  ASSUME NEW r \in Row, NEW known
  PROVE  /\ Event(r, known) \in AnyEvent /\ Event(r, known).row = r
         /\ Event(r, known).id = MessageId(r, known)
<1>1. CASE r \in numbered
  BY <1>1 DEF Event, AnyEvent, MessageId
<1>2. CASE r \notin numbered
  <2>1. MessageId(r, known) = <<"local", TableOf[r] \in known, r>>
    BY <1>2 DEF MessageId
  <2>2. PICK place \in BOOLEAN : place = (TableOf[r] \in known)
    <3>1. CASE TableOf[r] \in known
      <4>1. (TableOf[r] \in known) = TRUE
        BY <3>1, Zenon
      <4> QED  BY <4>1, Zenon
    <3>2. CASE TableOf[r] \notin known
      <4>1. (TableOf[r] \in known) = FALSE
        BY <3>2, SMT
      <4> QED  BY <4>1, Zenon
    <3> QED  BY <3>1, <3>2
  <2>3. <<"local", place, r>> \in {"local"} \X BOOLEAN \X Row
    OBVIOUS
  <2>4. MessageId(r, known) \in {"local"} \X BOOLEAN \X Row
    BY <2>1, <2>2, <2>3, Zenon
  <2> QED  BY <2>4 DEF Event, AnyEvent
<1> QED  BY <1>1, <1>2

LEMMA IdOfRow ==
  ASSUME NEW r \in Row, r \in numbered \/ r \in Own, NEW known \in NamesOfScan
  PROVE  MessageId(r, known) \in IdsOf(r)
<1>1. CASE r \in numbered
  BY <1>1 DEF MessageId, IdsOf
<1>2. CASE r \notin numbered
  <2>1. MessageId(r, known) = <<"local", TableOf[r] \in known, r>>
    BY <1>2 DEF MessageId
  <2> QED  BY <1>2, <2>1 DEF IdsOf
<1> QED  BY <1>1, <1>2

LEMMA IdsApart ==
  ASSUME NEW r \in Row, NEW other \in Row, NEW id \in IdsOf(r) \cap IdsOf(other)
  PROVE  r = other
<1>1. id[3] = IF id[1] = "wx" THEN 0 ELSE r
  BY DEF IdsOf
<1>2. id[1] = "wx" => id[2] = r
  BY DEF IdsOf
<1>3. id[3] = IF id[1] = "wx" THEN 0 ELSE other
  BY DEF IdsOf
<1>4. id[1] = "wx" => id[2] = other
  BY DEF IdsOf
<1> QED  BY <1>1, <1>2, <1>3, <1>4

LEMMA IdsFew ==
  ASSUME OneNaming, NEW r \in Row
  PROVE  /\ IsFiniteSet(IdsOf(r)) /\ Cardinality(IdsOf(r)) \in Nat
         /\ Cardinality(IdsOf(r)) <= IF r \in Own THEN 2 ELSE 1
<1> DEFINE local == {<<"local", TableOf[r] \in known, r>> : known \in NamesOfScan}
           wx == <<"wx", r, 0>>
<1>1. IsFiniteSet({wx}) /\ Cardinality({wx}) = 1
  BY FS_Singleton
<1>2. CASE r \notin Own
  <2>1. IdsOf(r) = {wx}
    BY <1>2 DEF IdsOf
  <2> QED  BY <1>1, <1>2, <2>1
<1>3. CASE r \in Own
  <2>1. IdsOf(r) = {wx} \cup local
    BY <1>3 DEF IdsOf
  <2>2. PICK one : local \subseteq {one}
    <3>1. CASE NamesOfScan = {}
      BY <3>1
    <3>2. CASE NamesOfScan # {}
      <4>1. PICK d \in Range(DbOf) : TRUE
        BY <3>2 DEF NamesOfScan
      <4>2. \A known \in NamesOfScan : known = Names[d]
        BY <4>1 DEF NamesOfScan, OneNaming
      <4> QED  BY <4>2
    <3> QED  BY <3>1, <3>2
  <2> HIDE DEF local, wx
  <2>3. IdsOf(r) \subseteq {wx} \cup {one}
    BY <2>1, <2>2
  <2>4. IsFiniteSet({wx} \cup {one}) /\ Cardinality({wx} \cup {one}) <= 2
    BY <1>1, FS_AddElement
  <2>5. IsFiniteSet(IdsOf(r)) /\ Cardinality(IdsOf(r)) <= Cardinality({wx} \cup {one})
    BY <2>3, <2>4, FS_Subset
  <2> QED  BY <1>3, <2>4, <2>5, FS_CardinalityType
<1> QED  BY <1>2, <1>3

-----------------------------------------------------------------------------
(***************************************************************************)
(* What a poll brings: each row that is new, whatever the order            *)
(***************************************************************************)

LEMMA NewRows ==
  ASSUME TypeOK, RowsInPlace, NEW t \in Table
  PROVE  LET new == SubSeq(rows[t], watermark[t] + 1, Len(rows[t]))
         IN  /\ new \in Seq(Row)
             /\ Range(new) = {rows[t][i] : i \in watermark[t] + 1 .. Len(rows[t])}
<1> DEFINE m == watermark[t] + 1
           n == Len(rows[t])
           new == SubSeq(rows[t], m, n)
<1>1. rows[t] \in Seq(Row) /\ m \in Nat \ {0} /\ n \in Nat /\ m <= n + 1
  BY DEF TypeOK, RowsInPlace
<1>2. \A i \in m .. n : rows[t][i] \in Row
  BY <1>1
<1> HIDE DEF m, n
<1>3. /\ new \in Seq(Row) /\ Len(new) = IF m <= n THEN n - m + 1 ELSE 0
      /\ \A i \in 1 .. n - m + 1 : new[i] = rows[t][m + i - 1]
  BY <1>1, <1>2, SubSeqProperties
<1> HIDE DEF new
<1>4. Len(new) = n - m + 1 /\ Range(new) = {new[i] : i \in 1 .. Len(new)}
  BY <1>1, <1>3, RangeEquality
<1>5. ASSUME NEW i \in 1 .. Len(new) PROVE \E j \in m .. n : new[i] = rows[t][j]
  <2>1. m + i - 1 \in m .. n /\ new[i] = rows[t][m + i - 1]
    BY <1>1, <1>3, <1>4
  <2> QED  BY <2>1
<1>6. ASSUME NEW j \in m .. n PROVE \E i \in 1 .. Len(new) : new[i] = rows[t][j]
  <2>1. j - m + 1 \in 1 .. Len(new) /\ m + (j - m + 1) - 1 = j
    BY <1>1, <1>4
  <2> QED  BY <1>3, <1>4, <2>1
<1>7. Range(new) = {rows[t][j] : j \in m .. n}
  BY <1>4, <1>5, <1>6
<1> QED  BY <1>3, <1>7 DEF m, n, new

LEMMA BatchRange ==
  ASSUME TypeOK, RowsInPlace, NEW order \in SetToSeqs(Table), NEW known
  PROVE  /\ Batch(order, known) \in Seq(AnyEvent)
         /\ Range(Batch(order, known)) = {Event(r, known) : r \in Unpolled}
<1> DEFINE New(t) == SubSeq(rows[t], watermark[t] + 1, Len(rows[t]))
           EventsOf(t) == [i \in DOMAIN New(t) |-> Event(New(t)[i], known)]
           parts == [i \in DOMAIN order |-> EventsOf(order[i])]
           fresh(t) == {rows[t][i] : i \in watermark[t] + 1 .. Len(rows[t])}
<1>1. \A t \in Table : New(t) \in Seq(Row) /\ Range(New(t)) = fresh(t)
  BY NewRows
<1>2. Batch(order, known) = FlattenSeq(parts)
  BY DEF Batch
<1> HIDE DEF New, fresh
<1>3. ASSUME NEW t \in Table
      PROVE  EventsOf(t) \in Seq(AnyEvent) /\ Range(EventsOf(t)) = {Event(r, known) : r \in fresh(t)}
  <2>1. DOMAIN New(t) = 1 .. Len(New(t)) /\ Len(New(t)) \in Nat /\ \A i \in DOMAIN New(t) : New(t)[i] \in Row
    BY <1>1
  <2>2. EventsOf(t) \in Seq(AnyEvent)
    BY <2>1, EventOfRow
  <2>3. fresh(t) = {New(t)[i] : i \in DOMAIN New(t)}
    BY <1>1 DEF Range
  <2>4. Range(EventsOf(t)) = {Event(New(t)[i], known) : i \in DOMAIN New(t)}
    BY DEF Range
  <2>5. {Event(New(t)[i], known) : i \in DOMAIN New(t)} = {Event(r, known) : r \in fresh(t)}
    BY <2>3
  <2> QED  BY <2>2, <2>4, <2>5
<1> HIDE DEF EventsOf
<1>4. order \in Seq(Table) /\ Range(order) = Table
  BY OrderCovers
<1>5. DOMAIN order = 1 .. Len(order) /\ Len(order) \in Nat /\ \A i \in DOMAIN order : order[i] \in Table
  BY <1>4
<1>6. parts \in Seq(Seq(AnyEvent)) /\ Len(parts) = Len(order)
  BY <1>3, <1>5
<1>7. /\ FlattenSeq(parts) \in Seq(AnyEvent)
      /\ Range(FlattenSeq(parts)) = UNION {Range(parts[i]) : i \in 1 .. Len(parts)}
  BY <1>6, FlattenRange
<1>8. UNION {Range(parts[i]) : i \in 1 .. Len(parts)} = UNION {Range(EventsOf(t)) : t \in Table}
  <2>1. \A i \in 1 .. Len(parts) : order[i] \in Table /\ parts[i] = EventsOf(order[i])
    BY <1>5, <1>6
  <2>2. \A t \in Table : \E i \in 1 .. Len(parts) : order[i] = t
    BY <1>4, <1>5, <1>6 DEF Range
  <2> HIDE DEF parts
  <2> QED  BY <2>1, <2>2
<1>9. UNION {Range(EventsOf(t)) : t \in Table} = {Event(r, known) : r \in UNION {fresh(t) : t \in Table}}
  BY <1>3
<1>10. Unpolled = UNION {fresh(t) : t \in Table}
  BY DEF Unpolled, fresh
<1> QED  BY <1>2, <1>7, <1>8, <1>9, <1>10

-----------------------------------------------------------------------------
(***************************************************************************)
(* The first invariant                                                     *)
(***************************************************************************)

LEMMA WrittenRows ==
  ASSUME TypeOK, RowsInPlace
  PROVE  /\ Written \subseteq Row /\ Unpolled \subseteq Written
         /\ \A r \in Written : TableOf[r] \in Table /\ r \in Range(rows[TableOf[r]])
         /\ \A r \in Written : r \in numbered \/ r \in Own
<1>1. \A t \in Table : rows[t] \in Seq(Row) /\ Range(rows[t]) \subseteq Row
  BY RangeOfSeq DEF TypeOK
<1>2. Written \subseteq Row /\ \A r \in Written : TableOf[r] \in Table
  BY <1>1, RecoveryAssumption DEF Written
<1>3. \A r \in Written : r \in Range(rows[TableOf[r]])
  BY DEF Written, RowsInPlace
<1>4. ASSUME NEW t \in Table, NEW i \in watermark[t] + 1 .. Len(rows[t])
      PROVE  rows[t][i] \in Range(rows[t])
  <2>1. watermark[t] \in Nat /\ Len(rows[t]) \in Nat /\ DOMAIN rows[t] = 1 .. Len(rows[t])
    BY <1>1 DEF TypeOK
  <2>2. i \in DOMAIN rows[t]
    BY <2>1
  <2> QED  BY <2>2 DEF Range
<1>5. Unpolled \subseteq Written
  BY <1>4 DEF Unpolled, Written
<1> QED  BY <1>2, <1>3, <1>5 DEF RowsInPlace

LEMMA InitInv ==
  ASSUME Init
  PROVE  IInv
<1>1. Range(<<>>) = {}
  BY DEF Range
<1>2. Written = {}
  BY <1>1 DEF Init, Written
<1>3. TypeOK
  <2>1. /\ <<>> \in Seq(Row) /\ <<>> \in Seq(AnyEvent) /\ Len(<<>>) = 0
        /\ Capacity \in Nat /\ WireCapacity \in Nat /\ 0 \in 0 .. MaxFaults /\ 0 \in 0 .. 2
    BY RecoveryAssumption
  <2>2. rows \in [Table -> Seq(Row)] /\ watermark \in [Table -> Nat] /\ times \in [Row -> 0 .. 2]
    BY <2>1 DEF Init
  <2>3. Len(channel) <= Capacity /\ Len(wire) <= WireCapacity
    BY <2>1 DEF Init
  <2> QED  BY <2>1, <2>2, <2>3 DEF Init, TypeOK
<1>4. RowsInPlace
  BY <1>1, <1>2 DEF Init, RowsInPlace
<1>5. EventsTell
  BY <1>1 DEF Init, EventsTell
<1>6. OneConnection
  BY DEF Init, OneConnection
<1>7. IdsCounted
  <2>1. Cardinality({}) = 0
    BY FS_EmptySet
  <2>2. \A r \in Row : done \cap IdsOf(r) = {} /\ times[r] = 0
    BY DEF Init
  <2> QED  BY <2>1, <2>2 DEF IdsCounted
<1>8. Checkpointed
  BY <1>2 DEF Init, Checkpointed
<1> QED  BY <1>3, <1>4, <1>5, <1>6, <1>7, <1>8 DEF IInv

LEMMA WriteAdds ==
  ASSUME IInv, NEW r \in Row, Write(r)
  PROVE  /\ TableOf[r] \in Table /\ TimeOf[r] \in Nat
         /\ rows' \in [Table -> Seq(Row)] /\ Written' = Written \cup {r}
         /\ \A t \in Table : Range(rows'[t]) = IF t = TableOf[r] THEN Range(rows[t]) \cup {r} ELSE Range(rows[t])
         /\ \A t \in Table : Len(rows'[t]) = IF t = TableOf[r] THEN Len(rows[t]) + 1 ELSE Len(rows[t])
         /\ \A t \in Table : \A i \in 1 .. Len(rows[t]) : rows'[t][i] = rows[t][i]
         /\ rows'[TableOf[r]][Len(rows[TableOf[r]]) + 1] = r
<1> DEFINE u == TableOf[r]
<1>1. u \in Table /\ TimeOf[r] \in Nat /\ rows \in [Table -> Seq(Row)] /\ rows[u] \in Seq(Row)
  BY RecoveryAssumption DEF IInv, TypeOK
<1>2. rows' = [rows EXCEPT ![u] = Append(rows[u], r)]
  BY DEF Write
<1>3. /\ Append(rows[u], r) \in Seq(Row) /\ Range(Append(rows[u], r)) = Range(rows[u]) \cup {r}
      /\ Len(Append(rows[u], r)) = Len(rows[u]) + 1
      /\ \A i \in 1 .. Len(rows[u]) : Append(rows[u], r)[i] = rows[u][i]
      /\ Append(rows[u], r)[Len(rows[u]) + 1] = r
  BY <1>1, AppendRange, AppendProperties
<1>4. rows'[u] = Append(rows[u], r) /\ \A t \in Table \ {u} : rows'[t] = rows[t]
  BY <1>1, <1>2
<1>5. rows' \in [Table -> Seq(Row)]
  BY <1>1, <1>2, <1>3
<1>6. Written' = UNION {Range(rows'[t]) : t \in Table}
  BY DEF Written
<1> HIDE DEF u
<1>7. UNION {Range(rows'[t]) : t \in Table} = (UNION {Range(rows[t]) : t \in Table}) \cup {r}
  <2>1. \A t \in Table : Range(rows[t]) \subseteq Range(rows'[t])
    BY <1>3, <1>4
  <2>2. \A t \in Table : Range(rows'[t]) \subseteq Range(rows[t]) \cup {r}
    BY <1>3, <1>4
  <2>3. r \in Range(rows'[u])
    BY <1>3, <1>4
  <2> QED  BY <1>1, <2>1, <2>2, <2>3
<1>8. Written' = Written \cup {r}
  BY <1>6, <1>7 DEF Written
<1> QED  BY <1>1, <1>3, <1>4, <1>5, <1>8 DEF u

LEMMA WriteInv ==
  ASSUME IInv, NEW r \in Row, Write(r)
  PROVE  IInv'
<1>1. /\ UNCHANGED <<listener, server, mode, kept, durable, run, faults>>
      /\ numbered' = IF r \in Own THEN numbered ELSE numbered \cup {r}
  BY DEF Write
<1>2. TypeOK'
  BY <1>1, WriteAdds DEF IInv, TypeOK, listener, server, durable, run
<1>3. RowsInPlace'
  <2>1. \A t \in Table : \A x \in Range(rows'[t]) : TableOf[x] = t
    <3> TAKE t \in Table
    <3>1. \A x \in Range(rows[t]) : TableOf[x] = t
      BY DEF IInv, RowsInPlace
    <3>2. Range(rows'[t]) = IF t = TableOf[r] THEN Range(rows[t]) \cup {r} ELSE Range(rows[t])
      BY WriteAdds
    <3> QED  BY <3>1, <3>2
  <2>2. Written' \ Own \subseteq numbered'
    BY <1>1, WriteAdds DEF IInv, RowsInPlace
  <2>3. \A t \in Table : watermark'[t] <= Len(rows'[t])
    <3> TAKE t \in Table
    <3>1. /\ watermark'[t] = watermark[t] /\ watermark[t] \in Nat /\ Len(rows[t]) \in Nat
          /\ watermark[t] <= Len(rows[t])
      BY <1>1 DEF listener, IInv, TypeOK, RowsInPlace
    <3>2. Len(rows'[t]) = Len(rows[t]) \/ Len(rows'[t]) = Len(rows[t]) + 1
      BY WriteAdds
    <3> QED  BY <3>1, <3>2
  <2> QED  BY <2>1, <2>2, <2>3 DEF RowsInPlace
<1>4. EventsTell'
  <2>1. Events \subseteq Events'
    BY WriteAdds DEF Events
  <2> QED  BY <1>1, <2>1 DEF IInv, EventsTell, listener, server, run
<1>5. OneConnection'
  BY <1>1 DEF IInv, OneConnection, server, run
<1>6. IdsCounted'
  BY <1>1 DEF IInv, IdsCounted, durable
<1>7. Checkpointed'
  <2>1. PICK bound \in Nat : \A x \in Written : TimeOf[x] <= bound
    BY DEF IInv, Checkpointed
  <2>2. TimeOf[r] \in Nat /\ \A x \in Written : TimeOf[x] \in Nat
    BY WrittenRows, RecoveryAssumption DEF IInv
  <2>3. bound + TimeOf[r] \in Nat /\ \A x \in Written' : TimeOf[x] <= bound + TimeOf[r]
    <3>1. Written' = Written \cup {r}
      BY WriteAdds
    <3> QED  BY <2>1, <2>2, <3>1
  <2>4. since' = 0 \/ \E x \in Written' : since' <= TimeOf[x]
    BY <1>1, WriteAdds DEF IInv, Checkpointed, durable
  <2> QED  BY <2>3, <2>4 DEF Checkpointed
<1> QED  BY <1>2, <1>3, <1>4, <1>5, <1>6, <1>7 DEF IInv

\* What most steps leave alone.
LEMMA SameRows ==
  ASSUME UNCHANGED rows
  PROVE  Written' = Written /\ Events' = Events
BY DEF Written, Events

LEMMA NumberInv ==
  ASSUME IInv, NEW r \in Row, Number(r)
  PROVE  IInv'
<1>1. UNCHANGED <<rows, listener, server, mode, kept, durable, run, faults>> /\ numbered' = numbered \cup {r}
  BY DEF Number
<1>2. Written' = Written /\ Events' = Events
  BY <1>1, SameRows
<1>3. TypeOK'
  BY <1>1 DEF IInv, TypeOK, listener, server, durable, run
<1>4. RowsInPlace' /\ EventsTell' /\ OneConnection'
  BY <1>1, <1>2 DEF IInv, RowsInPlace, EventsTell, OneConnection, listener, server, run
<1>5. IdsCounted' /\ Checkpointed'
  BY <1>1, <1>2 DEF IInv, IdsCounted, Checkpointed, durable
<1> QED  BY <1>3, <1>4, <1>5 DEF IInv

LEMMA PollBrings ==
  ASSUME IInv, Poll
  PROVE  /\ batch' \in Seq(AnyEvent) /\ Range(batch') \subseteq Events /\ RowsOf(batch') = Unpolled
         /\ watermark' = [t \in Table |-> Len(rows[t])] /\ Unpolled' = {}
<1>1. PICK order \in SetToSeqs(Table), known \in NamesOfScan : batch' = Batch(order, known)
  BY DEF Poll
<1>2. batch' \in Seq(AnyEvent) /\ Range(batch') = {Event(r, known) : r \in Unpolled}
  BY <1>1, BatchRange DEF IInv
<1>3. \A r \in Unpolled : r \in Row /\ r \in Written /\ (r \in numbered \/ r \in Own)
  BY WrittenRows DEF IInv
<1>4. \A r \in Unpolled : Event(r, known) \in Events /\ Event(r, known).row = r
  BY <1>3, EventOfRow, IdOfRow DEF Events
<1>5. Range(batch') \subseteq Events /\ RowsOf(batch') = Unpolled
  BY <1>2, <1>4 DEF RowsOf
<1>6. watermark' = [t \in Table |-> Len(rows[t])] /\ rows' = rows
  BY DEF Poll, database
<1>7. \A t \in Table : watermark'[t] + 1 .. Len(rows'[t]) = {}
  <2> TAKE t \in Table
  <2>1. Len(rows[t]) \in Nat /\ watermark'[t] = Len(rows[t])
    BY <1>6 DEF IInv, TypeOK
  <2> QED  BY <1>6, <2>1
<1>8. Unpolled' = {}
  BY <1>7 DEF Unpolled
<1> QED  BY <1>2, <1>5, <1>6, <1>8

LEMMA PollInv ==
  ASSUME IInv, Poll
  PROVE  IInv'
<1>1. UNCHANGED <<database, server, mode, kept, durable, run, faults>>
  BY DEF Poll
<1>2. Written' = Written /\ Events' = Events
  BY <1>1, SameRows DEF database
<1>3. TypeOK'
  BY <1>1, PollBrings DEF IInv, TypeOK, database, server, durable, run
<1>4. RowsInPlace'
  <2>1. \A t \in Table : watermark'[t] <= Len(rows'[t])
    <3> TAKE t \in Table
    <3>1. Len(rows[t]) \in Nat /\ watermark'[t] = Len(rows[t]) /\ rows' = rows
      BY <1>1, PollBrings DEF IInv, TypeOK, database
    <3> QED  BY <3>1
  <2> QED  BY <1>1, <1>2, <2>1 DEF IInv, RowsInPlace, database
<1>5. EventsTell' /\ OneConnection'
  BY <1>1, <1>2, PollBrings DEF IInv, EventsTell, OneConnection, server, run
<1>6. IdsCounted' /\ Checkpointed'
  BY <1>1, <1>2 DEF IInv, IdsCounted, Checkpointed, durable
<1> QED  BY <1>3, <1>4, <1>5, <1>6 DEF IInv

LEMMA Untouched ==
  ASSUME IInv, UNCHANGED <<database, watermark, durable>>
  PROVE  /\ RowsInPlace' /\ IdsCounted' /\ Checkpointed' /\ Written' = Written /\ Events' = Events
         /\ rows' = rows /\ numbered' = numbered /\ since' = since /\ done' = done /\ times' = times
<1>1. /\ rows' = rows /\ numbered' = numbered /\ since' = since /\ done' = done /\ times' = times
      /\ watermark' = watermark
  BY DEF database, durable
<1>2. Written' = Written /\ Events' = Events
  BY <1>1, SameRows
<1> QED  BY <1>1, <1>2 DEF IInv, RowsInPlace, IdsCounted, Checkpointed

LEMMA BroadcastMoves ==
  ASSUME IInv, Broadcast
  PROVE  /\ batch' \in Seq(AnyEvent) /\ Head(batch) \in AnyEvent
         /\ Range(batch) = {Head(batch)} \cup Range(batch')
         /\ channel' \in Seq(AnyEvent) /\ Len(channel') <= Capacity /\ lagged' \in BOOLEAN
         /\ Range(channel') \subseteq Range(channel) \cup {Head(batch)}
         /\ Good' => Good /\ channel' = Append(channel, Head(batch))
         /\ ~ lagged' => ~ lagged
         /\ socket # "open" => UNCHANGED <<channel, lagged>>
<1> DEFINE e == Head(batch)
<1>1. batch \in Seq(AnyEvent) /\ batch # <<>> /\ batch' = Tail(batch)
  BY DEF Broadcast, IInv, TypeOK
<1>2. batch' \in Seq(AnyEvent) /\ e \in AnyEvent /\ Range(batch) = {e} \cup Range(batch')
  BY <1>1, HeadTailRange
<1>3. /\ channel \in Seq(AnyEvent) /\ Len(channel) \in Nat /\ Len(channel) <= Capacity
      /\ Capacity \in Nat \ {0} /\ lagged \in BOOLEAN /\ socket' = socket
  BY RecoveryAssumption DEF IInv, TypeOK, Broadcast
<1>4. /\ socket = "open" => channel' = Sent(e) /\ lagged' = (lagged \/ Len(channel) = Capacity)
      /\ socket # "open" => UNCHANGED <<channel, lagged>>
  BY DEF Broadcast
<1> HIDE DEF e
<1>5. CASE socket # "open"
  BY <1>2, <1>3, <1>4, <1>5 DEF Good, e
<1>6. CASE socket = "open" /\ Len(channel) # Capacity
  <2>1. channel' = Append(channel, e) /\ lagged' = lagged
    BY <1>3, <1>4, <1>6 DEF Sent
  <2>2. Append(channel, e) \in Seq(AnyEvent) /\ Range(Append(channel, e)) = Range(channel) \cup {e}
    BY <1>2, <1>3, AppendRange
  <2>3. Len(Append(channel, e)) <= Capacity
    BY <1>2, <1>3, <1>6, AppendProperties
  <2> QED  BY <1>2, <1>3, <1>4, <2>1, <2>2, <2>3 DEF Good, e
<1>7. CASE socket = "open" /\ Len(channel) = Capacity
  <2>1. channel' = Append(Tail(channel), e) /\ lagged'
    <3>1. ~ (Len(channel) < Capacity)
      BY <1>3, <1>7
    <3>2. lagged'
      BY <1>4, <1>7, Zenon
    <3> QED  BY <1>4, <1>7, <3>1, <3>2 DEF Sent
  <2>2. channel # <<>>
    BY <1>3, <1>7, EmptySeq
  <2>3. Tail(channel) \in Seq(AnyEvent) /\ Range(channel) = {Head(channel)} \cup Range(Tail(channel))
    BY <1>3, <2>2, HeadTailRange
  <2>4. Len(Tail(channel)) = Len(channel) - 1
    BY <1>3, <2>2, HeadTailProperties
  <2>5. /\ Append(Tail(channel), e) \in Seq(AnyEvent)
        /\ Range(Append(Tail(channel), e)) = Range(Tail(channel)) \cup {e}
    <3> DEFINE rest == Tail(channel)
    <3>1. rest \in Seq(AnyEvent) /\ e \in AnyEvent
      BY <1>2, <2>3
    <3> HIDE DEF rest
    <3>2. Append(rest, e) \in Seq(AnyEvent) /\ Range(Append(rest, e)) = Range(rest) \cup {e}
      BY <3>1, AppendRange
    <3> QED  BY <3>2 DEF rest
  <2>6. Len(Append(Tail(channel), e)) <= Capacity
    BY <1>2, <1>3, <1>7, <2>3, <2>4, AppendProperties
  <2> QED  BY <1>2, <1>4, <1>7, <2>1, <2>3, <2>5, <2>6 DEF Good, e
<1> QED  BY <1>5, <1>6, <1>7

LEMMA BroadcastInv ==
  ASSUME IInv, Broadcast
  PROVE  IInv'
<1>1. UNCHANGED <<database, watermark, socket, wire, mode, kept, durable, run, faults>>
  BY DEF Broadcast
<1>2. RowsInPlace' /\ IdsCounted' /\ Checkpointed' /\ Events' = Events
  BY <1>1, Untouched
<1>3. TypeOK'
  BY <1>1, BroadcastMoves DEF IInv, TypeOK, database, durable, run
<1>4. EventsTell'
  <2>1. Range(batch) \cup Range(channel) \subseteq Events
    BY DEF IInv, EventsTell
  <2>2. Range(batch') \cup Range(channel') \subseteq Events
    BY <2>1, BroadcastMoves
  <2> QED  BY <1>1, <1>2, <2>2 DEF IInv, EventsTell, run
<1>5. OneConnection'
  BY <1>1, BroadcastMoves DEF IInv, OneConnection, run
<1> QED  BY <1>2, <1>3, <1>4, <1>5 DEF IInv

LEMMA SubscribeInv ==
  ASSUME IInv, Subscribe
  PROVE  IInv'
<1>1. /\ UNCHANGED <<database, listener, channel, lagged, wire, mode, kept, durable, run, faults>>
      /\ socket = "upgraded" /\ socket' = "open"
  BY DEF Subscribe
<1>2. RowsInPlace' /\ IdsCounted' /\ Checkpointed' /\ Events' = Events
  BY <1>1, Untouched DEF listener
<1>3. TypeOK' /\ EventsTell' /\ OneConnection'
  BY <1>1, <1>2 DEF IInv, TypeOK, EventsTell, OneConnection, database, listener, durable, run
<1> QED  BY <1>2, <1>3 DEF IInv

\* An event goes from the channel to the wire, or the connection ends.
LEMMA SendMoves ==
  ASSUME IInv, SendNext
  PROVE  /\ wire' \in Seq(AnyEvent) /\ Len(wire') <= WireCapacity /\ channel' \in Seq(AnyEvent)
         /\ Len(channel') <= Capacity
         /\ \/ /\ ~ lagged /\ channel # <<>> /\ UNCHANGED <<socket, lagged>>
               /\ wire' = Append(wire, Head(channel)) /\ channel' = Tail(channel)
               /\ Range(wire') = Range(wire) \cup {Head(channel)}
               /\ Range(channel) = {Head(channel)} \cup Range(channel')
            \/ lagged /\ EndSocket /\ UNCHANGED wire
<1>1. /\ wire \in Seq(AnyEvent) /\ channel \in Seq(AnyEvent) /\ Len(wire) \in Nat /\ Len(channel) \in Nat
      /\ Len(channel) <= Capacity /\ Len(wire) < WireCapacity /\ Capacity \in Nat /\ WireCapacity \in Nat
  BY RecoveryAssumption DEF IInv, TypeOK, SendNext
<1>2. CASE lagged
  <2>1. EndSocket /\ UNCHANGED wire
    BY <1>2 DEF SendNext
  <2>2. <<>> \in Seq(AnyEvent) /\ Len(<<>>) = 0
    BY EmptySeq
  <2> QED  BY <1>1, <1>2, <2>1, <2>2 DEF EndSocket
<1>3. CASE ~ lagged
  <2>1. /\ channel # <<>> /\ UNCHANGED <<socket, lagged>>
        /\ wire' = Append(wire, Head(channel)) /\ channel' = Tail(channel)
    BY <1>3 DEF SendNext
  <2>2. /\ Tail(channel) \in Seq(AnyEvent) /\ Head(channel) \in AnyEvent
        /\ Range(channel) = {Head(channel)} \cup Range(Tail(channel))
    BY <1>1, <2>1, HeadTailRange
  <2>3. Len(Tail(channel)) = Len(channel) - 1
    BY <1>1, <2>1, HeadTailProperties
  <2>4. /\ Append(wire, Head(channel)) \in Seq(AnyEvent)
        /\ Range(Append(wire, Head(channel))) = Range(wire) \cup {Head(channel)}
    BY <1>1, <2>2, AppendRange
  <2>5. Len(Append(wire, Head(channel))) = Len(wire) + 1
    BY <1>1, <2>2, AppendProperties
  <2> QED  BY <1>1, <1>3, <2>1, <2>2, <2>3, <2>4, <2>5
<1> QED  BY <1>2, <1>3

LEMMA SendInv ==
  ASSUME IInv, SendNext
  PROVE  IInv'
<1>1. UNCHANGED <<database, listener, mode, kept, durable, run, faults>> /\ socket = "open"
  BY DEF SendNext
<1>2. RowsInPlace' /\ IdsCounted' /\ Checkpointed' /\ Events' = Events
  BY <1>1, Untouched DEF listener
<1>3. Range(<<>>) = {}
  BY DEF Range
<1>4. TypeOK'
  BY <1>1, SendMoves DEF IInv, TypeOK, EndSocket, database, listener, durable, run
<1>5. EventsTell'
  <2>1. Range(wire) \cup Range(channel) \subseteq Events
    BY DEF IInv, EventsTell
  <2>2. Range(wire') \cup Range(channel') \subseteq Events
    BY <1>3, <2>1, SendMoves DEF EndSocket
  <2> QED  BY <1>1, <1>2, <2>2 DEF IInv, EventsTell, listener, run
<1>6. OneConnection'
  BY <1>1, SendMoves DEF IInv, OneConnection, EndSocket, run
<1> QED  BY <1>2, <1>4, <1>5, <1>6 DEF IInv

LEMMA ConnectInv ==
  ASSUME IInv, Connect
  PROVE  IInv'
<1>1. /\ UNCHANGED <<database, listener, channel, lagged, wire, kept, durable, run, faults>>
      /\ mode = "down" /\ socket = "none" /\ socket' = "upgraded" /\ mode' = "connected"
  BY DEF Connect
<1>2. RowsInPlace' /\ IdsCounted' /\ Checkpointed' /\ Events' = Events
  BY <1>1, Untouched DEF listener
<1>3. TypeOK' /\ EventsTell' /\ OneConnection'
  BY <1>1, <1>2 DEF IInv, TypeOK, EventsTell, OneConnection, database, listener, durable, run
<1> QED  BY <1>2, <1>3 DEF IInv

LEMMA BeginRunInv ==
  ASSUME IInv, BeginRun
  PROVE  IInv'
<1>1. /\ UNCHANGED <<database, listener, server, kept, durable, found, faults>>
      /\ mode = "connected" /\ socket # "upgraded"
      /\ mode' = "scan" /\ left' = Table /\ names' \in NamesOfScan
  BY DEF BeginRun
<1>2. RowsInPlace' /\ IdsCounted' /\ Checkpointed' /\ Events' = Events
  BY <1>1, Untouched DEF listener
<1>3. names' \in SUBSET Table
  BY <1>1, RecoveryAssumption DEF NamesOfScan
<1>4. TypeOK' /\ EventsTell' /\ OneConnection'
  BY <1>1, <1>2, <1>3 DEF IInv, TypeOK, EventsTell, OneConnection, database, listener, server, durable
<1> QED  BY <1>2, <1>4 DEF IInv

LEMMA ReadInv ==
  ASSUME IInv, NEW t \in Table, ReadTable(t)
  PROVE  IInv'
<1> DEFINE since_rows == {r \in Range(rows[t]) : TimeOf[r] >= RunFrom}
<1>1. /\ UNCHANGED <<database, listener, server, mode, kept, durable, names, faults>>
      /\ mode = "scan" /\ left' = left \ {t}
      /\ found' = found \cup {Event(r, names) : r \in since_rows}
  BY DEF ReadTable
<1>2. RowsInPlace' /\ IdsCounted' /\ Checkpointed' /\ Events' = Events
  BY <1>1, Untouched DEF listener
<1>3. since_rows \subseteq Written /\ names \in NamesOfScan
  BY <1>1 DEF Written, IInv, EventsTell
<1> HIDE DEF since_rows
<1>4. \A r \in Written : r \in Row /\ (r \in numbered \/ r \in Own)
  BY WrittenRows DEF IInv
<1>5. \A r \in since_rows : Event(r, names) \in Events
  BY <1>3, <1>4, EventOfRow, IdOfRow DEF Events
<1>6. found' \subseteq Events /\ found' \subseteq AnyEvent
  BY <1>1, <1>5 DEF IInv, EventsTell, Events, TypeOK
<1>7. TypeOK'
  BY <1>1, <1>6 DEF IInv, TypeOK, database, listener, server, durable
<1>8. EventsTell' /\ OneConnection'
  BY <1>1, <1>2, <1>6 DEF IInv, EventsTell, OneConnection, listener, server
<1> QED  BY <1>2, <1>7, <1>8 DEF IInv

\* One of whose ids was processed, was processed.
LEMMA ProcessedCount ==
  ASSUME IInv, OneNaming, NEW e \in Events, e.id \in done
  PROVE  e.row \in Row /\ times[e.row] > 0
<1>1. e.row \in Row /\ e.id \in done \cap IdsOf(e.row)
  BY DEF Events, AnyEvent
<1>2. IsFiniteSet(done \cap IdsOf(e.row))
  BY <1>1, IdsFew, FS_Intersection
<1>3. Cardinality(done \cap IdsOf(e.row)) \in Nat \ {0}
  BY <1>1, <1>2, FS_EmptySet, FS_CardinalityType
<1>4. times[e.row] = Cardinality(done \cap IdsOf(e.row))
  BY <1>1 DEF IInv, IdsCounted
<1> QED  BY <1>1, <1>3, <1>4

\* Counted by ids, a row is processed no more often than it can have ids.
LEMMA CountsFew ==
  ASSUME OneNaming, NEW r \in Row, NEW ids
  PROVE  /\ IsFiniteSet(ids \cap IdsOf(r)) /\ Cardinality(ids \cap IdsOf(r)) \in Nat
         /\ Cardinality(ids \cap IdsOf(r)) <= IF r \in Own THEN 2 ELSE 1
<1>1. ids \cap IdsOf(r) \in SUBSET IdsOf(r)
  OBVIOUS
<1>2. /\ IsFiniteSet(ids \cap IdsOf(r))
      /\ Cardinality(ids \cap IdsOf(r)) <= Cardinality(IdsOf(r))
  BY <1>1, IdsFew, FS_Subset
<1>3. Cardinality(ids \cap IdsOf(r)) \in Nat
  BY <1>2, FS_CardinalityType
<1> QED  BY <1>2, <1>3, IdsFew

LEMMA RunFromType ==
  ASSUME IInv
  PROVE  RunFrom \in Nat /\ RunFrom <= since
BY RecoveryAssumption DEF IInv, TypeOK, RunFrom

\* The checkpoint after a run is the greatest time it found.
LEMMA FinishCheckpoint ==
  ASSUME IInv, FinishRun
  PROVE  /\ since' \in Nat
         /\ \/ since' <= since
            \/ \E e \in found : since' = TimeOf[e.row]
<1> DEFINE seen == {TimeOf[e.row] : e \in found}
<1>1. since' = IF found = {} THEN RunFrom
               ELSE CHOOSE time \in seen : \A e \in found : TimeOf[e.row] <= time
  BY DEF FinishRun
<1>2. CASE found = {}
  BY <1>1, <1>2, RunFromType
<1>3. CASE found # {}
  <2>1. PICK bound \in Nat : \A r \in Written : TimeOf[r] <= bound
    BY DEF IInv, Checkpointed
  <2>2. \A e \in found : e.row \in Written /\ TimeOf[e.row] \in Nat
    BY RecoveryAssumption DEF IInv, EventsTell, Events, AnyEvent
  <2>3. seen \subseteq Nat /\ seen # {} /\ \A n \in seen : n <= bound
    BY <1>3, <2>1, <2>2
  <2>4. \E time \in seen : \A n \in seen : n <= time
    <3> HIDE DEF seen
    <3> QED  BY <2>1, <2>3, GreatestNatural
  <2>5. \E time \in seen : \A e \in found : TimeOf[e.row] <= time
    BY <2>4
  <2>6. since' \in seen
    <3> HIDE DEF seen
    <3> QED  BY <1>1, <1>3, <2>5
  <2> QED  BY <2>3, <2>6
<1> QED  BY <1>2, <1>3

LEMMA FinishCounts ==
  ASSUME IInv, OneNaming, FinishRun, NEW r \in Row
  PROVE  /\ times'[r] = Cardinality(done' \cap IdsOf(r)) /\ times[r] <= times'[r]
         /\ r \in {e.row : e \in found} => times'[r] > 0
<1> DEFINE ids == {e.id : e \in found}
           mine == {e.id : e \in {e \in found : e.row = r}}
           before == done \cap IdsOf(r)
           new == mine \ done
<1>1. /\ done' = done \cup ids
      /\ times'[r] = times[r] + Cardinality(new)
  BY DEF FinishRun
<1>2. \A e \in found : e.row \in Row /\ e.id \in IdsOf(e.row)
  BY DEF IInv, EventsTell, Events, AnyEvent
<1>3. mine = ids \cap IdsOf(r)
  <2>1. mine \subseteq ids \cap IdsOf(r)
    BY <1>2
  <2>2. ASSUME NEW e \in found, e.id \in IdsOf(r) PROVE e.row = r
    BY <1>2, <2>2, IdsApart
  <2> QED  BY <2>1, <2>2
<1>4. done' \cap IdsOf(r) = before \cup new
  BY <1>1, <1>3
<1>5. new \subseteq IdsOf(r) /\ before \cap new = {}
  BY <1>3
<1> HIDE DEF ids, mine
<1>6. IsFiniteSet(before) /\ IsFiniteSet(new) /\ Cardinality(before) \in Nat /\ Cardinality(new) \in Nat
  <2>1. IsFiniteSet(IdsOf(r))
    BY IdsFew
  <2>2. before \in SUBSET IdsOf(r) /\ new \in SUBSET IdsOf(r)
    BY <1>5
  <2> HIDE DEF before, new
  <2> QED  BY <2>1, <2>2, FS_Subset, FS_CardinalityType
<1>7. times[r] = Cardinality(before)
  BY DEF IInv, IdsCounted
<1> HIDE DEF before, new
<1>8. Cardinality(before \cup new) = Cardinality(before) + Cardinality(new)
  BY <1>5, <1>6, DisjointCardinality
<1>9. ASSUME r \in {e.row : e \in found} PROVE times'[r] > 0
  <2>1. PICK e \in found : e.row = r
    BY <1>9
  <2>2. e.id \in before \cup new
    BY <1>2, <2>1 DEF before, new, mine
  <2>3. IsFiniteSet(before \cup new) /\ Cardinality(before \cup new) # 0
    BY <1>5, <1>6, <2>2, DisjointCardinality, FS_EmptySet
  <2> QED  BY <1>1, <1>6, <1>7, <1>8, <2>3
<1> QED  BY <1>1, <1>4, <1>6, <1>7, <1>8, <1>9

LEMMA TimesFew ==
  ASSUME OneNaming, NEW count, NEW ids, \A r \in Row : count[r] = Cardinality(ids \cap IdsOf(r)),
         count = [r \in Row |-> count[r]]
  PROVE  count \in [Row -> 0 .. 2]
<1>1. \A r \in Row : count[r] \in 0 .. 2
  <2> TAKE r \in Row
  <2>1. Cardinality(ids \cap IdsOf(r)) \in Nat /\ Cardinality(ids \cap IdsOf(r)) <= 2
    BY CountsFew
  <2> QED  BY <2>1
<1> QED  BY <1>1

LEMMA FinishInv ==
  ASSUME IInv, OneNaming, FinishRun
  PROVE  IInv'
<1>1. /\ UNCHANGED <<database, listener, server, kept, faults>> /\ mode = "scan" /\ mode' = "live"
      /\ left' = {} /\ names' = {} /\ found' = {} /\ done' = done \cup {e.id : e \in found}
  BY DEF FinishRun, EndRun
<1>2. RowsInPlace' /\ Written' = Written /\ Events' = Events
  BY <1>1, SameRows DEF database, listener, IInv, RowsInPlace
<1>3. IdsCounted'
  BY FinishCounts DEF IdsCounted
<1>4. times' \in [Row -> 0 .. 2]
  <2>1. \A r \in Row : times'[r] = Cardinality(done' \cap IdsOf(r))
    BY FinishCounts
  <2>2. times' = [r \in Row |-> times'[r]]
    BY DEF FinishRun
  <2> QED  BY <2>1, <2>2, TimesFew
<1>5. TypeOK'
  <2>1. done' \subseteq {e.id : e \in AnyEvent}
    BY <1>1 DEF IInv, TypeOK
  <2> QED  BY <1>1, <1>4, <2>1, FinishCheckpoint DEF IInv, TypeOK, database, listener, server
<1>6. EventsTell' /\ OneConnection'
  BY <1>1, <1>2 DEF IInv, EventsTell, OneConnection, listener, server
<1>7. Checkpointed'
  <2>1. \E bound \in Nat : \A r \in Written' : TimeOf[r] <= bound
    BY <1>2 DEF IInv, Checkpointed
  <2>2. \A r \in Written : TimeOf[r] \in Nat
    BY WrittenRows, RecoveryAssumption DEF IInv
  <2>3. since' = 0 \/ \E r \in Written' : since' <= TimeOf[r]
    <3>1. CASE since' <= since
      <4>1. since \in Nat /\ since' \in Nat
        BY FinishCheckpoint DEF IInv, TypeOK
      <4> QED  BY <1>2, <2>2, <3>1, <4>1 DEF IInv, Checkpointed
    <3>2. CASE \E e \in found : since' = TimeOf[e.row]
      <4>1. PICK e \in found : since' = TimeOf[e.row]
        BY <3>2
      <4>2. e.row \in Written
        BY DEF IInv, EventsTell, Events
      <4> QED  BY <1>2, <2>2, <4>1, <4>2
    <3> QED  BY <3>1, <3>2, FinishCheckpoint
  <2> QED  BY <2>1, <2>3 DEF Checkpointed
<1> QED  BY <1>2, <1>3, <1>5, <1>6, <1>7 DEF IInv

LEMMA ReceiveMoves ==
  ASSUME IInv, Receive
  PROVE  /\ wire # <<>> /\ kept' = Append(kept, Head(wire)) /\ wire' = Tail(wire)
         /\ kept' \in Seq(AnyEvent) /\ wire' \in Seq(AnyEvent) /\ Len(wire') <= WireCapacity
         /\ Range(kept') = Range(kept) \cup {Head(wire)} /\ Range(wire) = {Head(wire)} \cup Range(wire')
<1>1. wire # <<>> /\ kept' = Append(kept, Head(wire)) /\ wire' = Tail(wire)
  BY DEF Receive
<1>2. /\ kept \in Seq(AnyEvent) /\ wire \in Seq(AnyEvent) /\ Len(wire) \in Nat /\ Len(wire) <= WireCapacity
      /\ WireCapacity \in Nat
  BY RecoveryAssumption DEF IInv, TypeOK
<1>3. Tail(wire) \in Seq(AnyEvent) /\ Head(wire) \in AnyEvent /\ Range(wire) = {Head(wire)} \cup Range(Tail(wire))
  BY <1>1, <1>2, HeadTailRange
<1>4. Len(Tail(wire)) = Len(wire) - 1
  BY <1>1, <1>2, HeadTailProperties
<1>5. /\ Append(kept, Head(wire)) \in Seq(AnyEvent)
      /\ Range(Append(kept, Head(wire))) = Range(kept) \cup {Head(wire)}
  BY <1>2, <1>3, AppendRange
<1> QED  BY <1>1, <1>2, <1>3, <1>4, <1>5

LEMMA ReceiveInv ==
  ASSUME IInv, Receive
  PROVE  IInv'
<1>1. UNCHANGED <<database, listener, socket, channel, lagged, mode, durable, run, faults>> /\ mode # "down"
  BY DEF Receive
<1>2. RowsInPlace' /\ IdsCounted' /\ Checkpointed' /\ Events' = Events
  BY <1>1, Untouched DEF listener
<1>3. TypeOK'
  BY <1>1, ReceiveMoves DEF IInv, TypeOK, database, listener, durable, run
<1>4. EventsTell'
  <2>1. Range(wire) \cup Range(kept) \subseteq Events
    BY DEF IInv, EventsTell
  <2>2. Range(wire') \cup Range(kept') \subseteq Events
    BY <2>1, ReceiveMoves
  <2> QED  BY <1>1, <1>2, <2>2 DEF IInv, EventsTell, listener, run
<1>5. OneConnection'
  BY <1>1 DEF IInv, OneConnection, run
<1> QED  BY <1>2, <1>3, <1>4, <1>5 DEF IInv

LEMMA ConsumeMoves ==
  ASSUME IInv, OneNaming, Consume
  PROVE  /\ kept # <<>> /\ Head(kept) \in Events /\ Head(kept).row \in Row
         /\ kept' = Tail(kept) /\ kept' \in Seq(AnyEvent) /\ Range(kept) = {Head(kept)} \cup Range(kept')
         /\ since \in Nat /\ since' \in Nat /\ TimeOf[Head(kept).row] \in Nat
         /\ since' = since \/ since' = TimeOf[Head(kept).row]
         /\ IdsCounted' /\ times'[Head(kept).row] > 0
         /\ \A r \in Row : times[r] \in Nat /\ times'[r] \in Nat /\ times[r] <= times'[r]
<1> DEFINE e == Head(kept)
<1>1. /\ kept # <<>> /\ kept' = Tail(kept) /\ done' = done \cup {e.id}
      /\ times' = [times EXCEPT ![e.row] = IF e.id \in done THEN @ ELSE @ + 1]
      /\ since' = IF TimeOf[e.row] > since THEN TimeOf[e.row] ELSE since
  BY DEF Consume, Process, NextTime
<1>2. /\ kept \in Seq(AnyEvent) /\ since \in Nat
      /\ times \in [Row -> 0 .. 2]
  BY DEF IInv, TypeOK
<1>3. /\ e \in Range(kept) /\ kept' \in Seq(AnyEvent) /\ Range(kept) = {e} \cup Range(kept')
  BY <1>1, <1>2, HeadTailRange
<1>4. e \in Events /\ e.row \in Row /\ e.id \in IdsOf(e.row) /\ TimeOf[e.row] \in Nat
  BY <1>3, RecoveryAssumption DEF IInv, EventsTell, Events, AnyEvent
<1> HIDE DEF e
<1>5. since' \in Nat /\ (since' = since \/ since' = TimeOf[e.row])
  BY <1>1, <1>2, <1>4
<1>6. CASE e.id \in done
  <2>1. times' = times /\ done' = done
    BY <1>1, <1>2, <1>4, <1>6
  <2>2. times[e.row] > 0
    BY <1>4, <1>6, ProcessedCount
  <2>3. IdsCounted'
    BY <2>1 DEF IInv, IdsCounted
  <2> QED  BY <1>1, <1>2, <1>3, <1>4, <1>5, <2>1, <2>2, <2>3 DEF e
<1>7. CASE e.id \notin done
  <2>1. \A r \in Row : times'[r] = IF r = e.row THEN times[r] + 1 ELSE times[r]
    BY <1>1, <1>2, <1>4, <1>7
  <2>2. ASSUME NEW r \in Row PROVE times'[r] = Cardinality(done' \cap IdsOf(r))
    <3>1. times[r] = Cardinality(done \cap IdsOf(r)) /\ IsFiniteSet(done \cap IdsOf(r))
      BY CountsFew DEF IInv, IdsCounted
    <3>2. CASE r = e.row
      <4>1. done' \cap IdsOf(r) = (done \cap IdsOf(r)) \cup {e.id}
        BY <1>1, <1>4, <3>2
      <4>2. Cardinality((done \cap IdsOf(r)) \cup {e.id}) = Cardinality(done \cap IdsOf(r)) + 1
        BY <1>7, <3>1, FS_AddElement
      <4> QED  BY <2>1, <3>1, <3>2, <4>1, <4>2
    <3>3. CASE r # e.row
      <4>1. e.id \notin IdsOf(r)
        BY <1>4, <3>3, IdsApart
      <4>2. done' \cap IdsOf(r) = done \cap IdsOf(r)
        BY <1>1, <4>1
      <4> QED  BY <2>1, <3>1, <3>3, <4>2
    <3> QED  BY <3>2, <3>3
  <2>3. IdsCounted'
    BY <2>2 DEF IdsCounted
  <2>4. times'[e.row] > 0 /\ \A r \in Row : times[r] \in Nat /\ times'[r] \in Nat /\ times[r] <= times'[r]
    BY <1>2, <1>4, <2>1
  <2> QED  BY <1>1, <1>2, <1>3, <1>4, <1>5, <2>3, <2>4 DEF e
<1> QED  BY <1>6, <1>7

LEMMA ConsumeInv ==
  ASSUME IInv, OneNaming, Consume
  PROVE  IInv'
<1>1. /\ UNCHANGED <<database, listener, server, mode, run, faults>> /\ mode = "live"
      /\ done' = done \cup {Head(kept).id}
      /\ times' = [times EXCEPT ![Head(kept).row] = IF Head(kept).id \in done THEN @ ELSE @ + 1]
  BY DEF Consume, Process
<1>2. RowsInPlace' /\ Written' = Written /\ Events' = Events
  BY <1>1, SameRows DEF database, listener, IInv, RowsInPlace
<1>3. times' \in [Row -> 0 .. 2]
  <2>1. \A r \in Row : times'[r] = Cardinality(done' \cap IdsOf(r))
    BY ConsumeMoves DEF IdsCounted
  <2>2. times' = [r \in Row |-> times'[r]]
    BY <1>1 DEF IInv, TypeOK
  <2> QED  BY <2>1, <2>2, TimesFew
<1>4. TypeOK'
  <2>1. done' \subseteq {e.id : e \in AnyEvent}
    BY <1>1, ConsumeMoves DEF IInv, TypeOK, Events
  <2> QED  BY <1>1, <1>3, <2>1, ConsumeMoves DEF IInv, TypeOK, database, listener, server, run
<1>5. EventsTell'
  <2>1. Range(kept') \subseteq Events
    BY ConsumeMoves DEF IInv, EventsTell
  <2> QED  BY <1>1, <1>2, <2>1 DEF IInv, EventsTell, listener, server, run
<1>6. OneConnection'
  BY <1>1 DEF IInv, OneConnection, server, run
<1>7. Checkpointed'
  <2>1. Head(kept).row \in Written
    BY ConsumeMoves DEF Events
  <2>2. since' = 0 \/ \E r \in Written' : since' <= TimeOf[r]
    <3>1. CASE since' = since
      BY <1>2, <3>1 DEF IInv, Checkpointed
    <3>2. CASE since' = TimeOf[Head(kept).row]
      <4>1. TimeOf[Head(kept).row] <= TimeOf[Head(kept).row]
        BY ConsumeMoves
      <4> QED  BY <1>2, <2>1, <3>2, <4>1
    <3> QED  BY <3>1, <3>2, ConsumeMoves
  <2> QED  BY <1>2, <2>2 DEF IInv, Checkpointed
<1> QED  BY <1>2, <1>4, <1>5, <1>6, <1>7, ConsumeMoves DEF IInv

LEMMA SeeCloseInv ==
  ASSUME IInv, SeeClose
  PROVE  IInv'
<1>1. /\ UNCHANGED <<database, listener, socket, channel, lagged, durable, faults>> /\ socket = "none"
      /\ mode' = "down" /\ kept' = <<>> /\ wire' = <<>> /\ left' = {} /\ names' = {} /\ found' = {}
  BY DEF SeeClose, Disconnect, EndRun
<1>2. RowsInPlace' /\ IdsCounted' /\ Checkpointed' /\ Events' = Events
  BY <1>1, Untouched DEF listener
<1>3. Range(<<>>) = {} /\ <<>> \in Seq(AnyEvent) /\ Len(<<>>) = 0
  BY DEF Range
<1>4. TypeOK'
  BY <1>1, <1>3, RecoveryAssumption DEF IInv, TypeOK, database, listener, durable
<1>5. EventsTell' /\ OneConnection'
  BY <1>1, <1>2, <1>3 DEF IInv, EventsTell, OneConnection, listener
<1> QED  BY <1>2, <1>4, <1>5 DEF IInv

LEMMA ClientFailsInv ==
  ASSUME IInv, ClientFails
  PROVE  IInv'
<1>1. /\ UNCHANGED <<database, listener, durable>> /\ faults < MaxFaults /\ faults' = faults + 1
      /\ mode' = "down" /\ kept' = <<>> /\ wire' = <<>> /\ left' = {} /\ names' = {} /\ found' = {}
      /\ socket' = "none" /\ channel' = <<>> /\ lagged' = FALSE
  BY DEF ClientFails, Fault, Disconnect, EndRun, EndSocket
<1>2. RowsInPlace' /\ IdsCounted' /\ Checkpointed' /\ Events' = Events
  BY <1>1, Untouched DEF listener
<1>3. Range(<<>>) = {} /\ <<>> \in Seq(AnyEvent) /\ Len(<<>>) = 0
  BY DEF Range
<1>4. TypeOK'
  <2>1. faults' \in 0 .. MaxFaults
    BY <1>1, RecoveryAssumption DEF IInv, TypeOK
  <2>2. /\ Len(channel') <= Capacity /\ Len(wire') <= WireCapacity
        /\ channel' \in Seq(AnyEvent) /\ wire' \in Seq(AnyEvent)
    BY <1>1, <1>3, RecoveryAssumption DEF IInv, TypeOK
  <2>3. lagged' \in BOOLEAN
    BY <1>1, Zenon
  <2> QED  BY <1>1, <1>3, <2>1, <2>2, <2>3 DEF IInv, TypeOK, database, listener, durable
<1>5. EventsTell' /\ OneConnection'
  BY <1>1, <1>2, <1>3 DEF IInv, EventsTell, OneConnection, listener
<1> QED  BY <1>2, <1>4, <1>5 DEF IInv

LEMMA ServerFailsInv ==
  ASSUME IInv, ServerFails
  PROVE  IInv'
<1>1. /\ UNCHANGED <<database, watermark, durable>> /\ faults < MaxFaults /\ faults' = faults + 1
      /\ batch' = <<>> /\ socket' = "none" /\ channel' = <<>> /\ lagged' = FALSE
      /\ \/ /\ mode = "scan" /\ mode' = "down" /\ kept' = <<>> /\ wire' = <<>>
            /\ left' = {} /\ names' = {} /\ found' = {}
         \/ mode # "scan" /\ UNCHANGED <<mode, kept, wire, left, names, found>>
  BY DEF ServerFails, Fault, Disconnect, EndRun, EndSocket, run
<1>2. RowsInPlace' /\ IdsCounted' /\ Checkpointed' /\ Events' = Events
  BY <1>1, Untouched
<1>3. Range(<<>>) = {} /\ <<>> \in Seq(AnyEvent) /\ Len(<<>>) = 0
  BY DEF Range
<1>4. TypeOK'
  <2>1. faults' \in 0 .. MaxFaults
    BY <1>1, RecoveryAssumption DEF IInv, TypeOK
  <2>2. /\ Len(channel') <= Capacity /\ Len(wire') <= WireCapacity
        /\ channel' \in Seq(AnyEvent) /\ wire' \in Seq(AnyEvent)
    <3>1. channel' = <<>> /\ (wire' = <<>> \/ wire' = wire)
      BY <1>1
    <3>2. /\ Capacity \in Nat /\ WireCapacity \in Nat /\ wire \in Seq(AnyEvent)
          /\ Len(wire) <= WireCapacity
      BY RecoveryAssumption DEF IInv, TypeOK
    <3>3. Len(channel') = 0 /\ channel' \in Seq(AnyEvent)
      BY <1>3, <3>1
    <3>4. CASE wire' = wire
      BY <3>2, <3>3, <3>4
    <3>5. CASE wire' = <<>>
      <4>1. Len(wire') = 0 /\ wire' \in Seq(AnyEvent)
        BY <1>3, <3>5
      <4> QED  BY <3>2, <3>3, <4>1
    <3> QED  BY <3>1, <3>4, <3>5
  <2>3. lagged' \in BOOLEAN
    BY <1>1, Zenon
  <2> QED  BY <1>1, <1>3, <2>1, <2>2, <2>3 DEF IInv, TypeOK, database, durable
<1>5. EventsTell' /\ OneConnection'
  BY <1>1, <1>2, <1>3 DEF IInv, EventsTell, OneConnection
<1> QED  BY <1>2, <1>4, <1>5 DEF IInv

LEMMA InvNext ==
  ASSUME IInv, OneNaming, [Next]_vars
  PROVE  IInv'
<1>1. CASE Next
  BY <1>1, WriteInv, NumberInv, PollInv, BroadcastInv, SubscribeInv, SendInv, ConnectInv, BeginRunInv, ReadInv,
     FinishInv, ReceiveInv, ConsumeInv, SeeCloseInv, ClientFailsInv, ServerFailsInv DEF Next, Client
<1>2. CASE UNCHANGED vars
  <2>1. Written' = Written /\ Events' = Events
    BY <1>2, SameRows DEF vars
  <2> QED  BY <1>2, <2>1 DEF vars, IInv, TypeOK, RowsInPlace, EventsTell, OneConnection, IdsCounted, Checkpointed
<1> QED  BY <1>1, <1>2

\* Every row is where it belongs, every event on its way tells a row by one of
\* its ids, and each row was processed as often as ids of it were: whatever is
\* killed or disconnected, as long as all databases tell a chat alike.
THEOREM InductiveInvariant ==
  ASSUME OneNaming
  PROVE  Spec => []IInv
<1>1. Init => IInv
  BY InitInv
<1>2. IInv /\ [Next]_vars => IInv'
  BY InvNext
<1> QED  BY <1>1, <1>2, PTL DEF Spec

\* The state of listener, channel, socket and client stays of its types, and
\* within the channel's capacity.
THEOREM TypeCorrect ==
  ASSUME OneNaming
  PROVE  Spec => []TypeOK
<1>1. IInv => TypeOK
  BY DEF IInv
<1> QED  BY <1>1, InductiveInvariant, PTL

\* A client that tells messages apart by message_id processes each once, and
\* one of our own, whose id changes when the server's arrives, at most twice.
THEOREM ProcessedAtMostOnce ==
  ASSUME OneNaming
  PROVE  Spec => []ProcessedOnce
<1>1. IInv => ProcessedOnce
  BY CountsFew DEF IInv, IdsCounted, ProcessedOnce
<1> QED  BY <1>1, InductiveInvariant, PTL

-----------------------------------------------------------------------------
(***************************************************************************)
(* The stream on its way to the client                                     *)
(***************************************************************************)

LEMMA ConcatLeft ==
  ASSUME NEW S, NEW s \in Seq(S), NEW u \in Seq(S), s # <<>>
  PROVE  s \o u # <<>> /\ Head(s \o u) = Head(s) /\ Tail(s \o u) = Tail(s) \o u
<1>1. /\ Len(s) \in Nat \ {0} /\ Len(u) \in Nat /\ s \o u \in Seq(S) /\ Len(s \o u) = Len(s) + Len(u)
      /\ \A i \in 1 .. Len(s) + Len(u) : (s \o u)[i] = IF i <= Len(s) THEN s[i] ELSE u[i - Len(s)]
  BY EmptySeq, ConcatProperties
<1>2. s \o u # <<>> /\ Head(s \o u) = Head(s)
  <2>1. s \o u # <<>>
    BY <1>1, ConcatEqualIffEmpty
  <2>2. (s \o u)[1] = s[1]
    BY <1>1
  <2> QED  BY <2>1, <2>2
<1>3. /\ Tail(s) \in Seq(S) /\ Len(Tail(s)) = Len(s) - 1
      /\ \A i \in 1 .. Len(Tail(s)) : Tail(s)[i] = s[i + 1]
  BY HeadTailProperties
<1> DEFINE a == Tail(s \o u)
           b == Tail(s) \o u
           rest == Tail(s)
           all == s \o u
<1>4. a \in Seq(S) /\ Len(a) = Len(all) - 1 /\ \A i \in 1 .. Len(a) : a[i] = all[i + 1]
  BY <1>1, <1>2, HeadTailProperties
<1>5. /\ b \in Seq(S) /\ Len(b) = Len(rest) + Len(u)
      /\ \A i \in 1 .. Len(rest) + Len(u) : b[i] = IF i <= Len(rest) THEN rest[i] ELSE u[i - Len(rest)]
  BY <1>3, ConcatProperties
<1>6. /\ Len(all) = Len(s) + Len(u) /\ Len(rest) = Len(s) - 1
      /\ \A i \in 1 .. Len(s) + Len(u) : all[i] = IF i <= Len(s) THEN s[i] ELSE u[i - Len(s)]
      /\ \A i \in 1 .. Len(rest) : rest[i] = s[i + 1]
  BY <1>1, <1>3
<1> HIDE DEF a, b, rest, all
<1>7. Len(a) = Len(b)
  BY <1>1, <1>4, <1>5, <1>6
<1>8. ASSUME NEW i \in 1 .. Len(a) PROVE a[i] = b[i]
  <2>1. i + 1 \in 1 .. Len(s) + Len(u) /\ i \in 1 .. Len(rest) + Len(u) /\ i \in Nat
    BY <1>1, <1>4, <1>6
  <2>2. a[i] = all[i + 1]
    BY <1>4
  <2>3. CASE i <= Len(rest)
    <3>1. i + 1 <= Len(s) /\ i \in 1 .. Len(rest)
      BY <1>1, <1>6, <2>1, <2>3
    <3> QED  BY <1>5, <1>6, <2>1, <2>2, <2>3, <3>1
  <2>4. CASE ~ (i <= Len(rest))
    <3>1. ~ (i + 1 <= Len(s)) /\ (i + 1) - Len(s) = i - Len(rest)
      BY <1>1, <1>6, <2>1, <2>4
    <3> QED  BY <1>5, <1>6, <2>1, <2>2, <2>4, <3>1
  <2> QED  BY <2>3, <2>4
<1>9. a = b
  BY <1>4, <1>5, <1>7, <1>8, SeqEqual
<1> QED  BY <1>2, <1>9 DEF a, b

LEMMA AppendOverConcat ==
  ASSUME NEW S, NEW s \in Seq(S), NEW u \in Seq(S), NEW e \in S
  PROVE  s \o Append(u, e) = Append(s \o u, e)
<1>1. <<e>> \in Seq(S) /\ s \o u \in Seq(S)
  BY ConcatProperties
<1>2. Append(u, e) = u \o <<e>> /\ Append(s \o u, e) = (s \o u) \o <<e>>
  BY <1>1, AppendIsConcat
<1>3. (s \o u) \o <<e>> = s \o (u \o <<e>>)
  BY <1>1, ConcatAssociative
<1> QED  BY <1>2, <1>3

\* Moving the head of one part to the end of the one before changes nothing.
LEMMA MoveHead ==
  ASSUME NEW S, NEW s \in Seq(S), NEW u \in Seq(S), u # <<>>
  PROVE  Append(s, Head(u)) \o Tail(u) = s \o u
<1> DEFINE h == Head(u)
           rest == Tail(u)
<1>1. h \in S /\ rest \in Seq(S) /\ <<h>> \in Seq(S) /\ Len(u) \in Nat \ {0}
  BY HeadTailProperties, EmptySeq
<1>2. u = <<h>> \o rest
  <2>1. 1 \in 1 .. Len(u) /\ Len(u) \in 1 .. Len(u)
    BY <1>1
  <2>2. SubSeq(u, 1, Len(u)) = <<u[1]>> \o SubSeq(u, 1 + 1, Len(u))
    BY <2>1, SubSeqRecursiveFirst
  <2>3. SubSeq(u, 1, Len(u)) = u /\ Tail(u) = SubSeq(u, 2, Len(u)) /\ Head(u) = u[1]
    BY SubSeqFull, TailIsSubSeq
  <2> QED  BY <2>2, <2>3
<1> HIDE DEF h, rest
<1>3. Append(s, h) = s \o <<h>>
  BY <1>1, AppendIsConcat
<1>4. (s \o <<h>>) \o rest = s \o (<<h>> \o rest)
  BY <1>1, ConcatAssociative
<1> QED  BY <1>2, <1>3, <1>4 DEF h, rest

LEMMA OrderedPrefix ==
  ASSUME NEW p \in Seq(AnyEvent), NEW q \in Seq(AnyEvent), NEW lacking, Ordered(p \o q, lacking)
  PROVE  Ordered(p, lacking)
<1> SUFFICES ASSUME NEW r \in lacking, NEW j \in 1 .. Len(p)
             PROVE  TimeOf[p[j].row] <= TimeOf[r] + Skew \/ \E i \in 1 .. j - 1 : p[i].row = r
  BY DEF Ordered
<1>1. /\ Len(p) \in Nat /\ Len(q) \in Nat /\ Len(p \o q) = Len(p) + Len(q)
      /\ \A i \in 1 .. Len(p) : (p \o q)[i] = p[i]
  BY ConcatProperties
<1>2. j \in 1 .. Len(p \o q) /\ \A i \in 1 .. j - 1 : i \in 1 .. Len(p)
  BY <1>1
<1>3. TimeOf[(p \o q)[j].row] <= TimeOf[r] + Skew \/ \E i \in 1 .. j - 1 : (p \o q)[i].row = r
  BY <1>2 DEF Ordered
<1> QED  BY <1>1, <1>2, <1>3

LEMMA OrderedAppend ==
  ASSUME NEW p \in Seq(AnyEvent), NEW e \in AnyEvent, NEW lacking, Ordered(p, lacking),
         \A r \in lacking : TimeOf[e.row] <= TimeOf[r] + Skew \/ r \in RowsOf(p)
  PROVE  Ordered(Append(p, e), lacking)
<1> DEFINE more == Append(p, e)
<1>1. /\ Len(p) \in Nat /\ Len(more) = Len(p) + 1 /\ more[Len(p) + 1] = e
      /\ \A i \in 1 .. Len(p) : more[i] = p[i]
  BY AppendProperties
<1> HIDE DEF more
<1> SUFFICES ASSUME NEW r \in lacking, NEW j \in 1 .. Len(more)
             PROVE  TimeOf[more[j].row] <= TimeOf[r] + Skew \/ \E i \in 1 .. j - 1 : more[i].row = r
  BY DEF Ordered, more
<1>2. CASE j \in 1 .. Len(p)
  <2>1. TimeOf[p[j].row] <= TimeOf[r] + Skew \/ \E i \in 1 .. j - 1 : p[i].row = r
    BY <1>2 DEF Ordered
  <2>2. \A i \in 1 .. j - 1 : i \in 1 .. Len(p)
    BY <1>1, <1>2
  <2> QED  BY <1>1, <1>2, <2>1, <2>2
<1>3. CASE j \notin 1 .. Len(p)
  <2>1. j = Len(p) + 1 /\ 1 .. j - 1 = 1 .. Len(p)
    BY <1>1, <1>3
  <2>2. ASSUME r \in RowsOf(p) PROVE \E i \in 1 .. j - 1 : more[i].row = r
    <3>1. Range(p) = {p[i] : i \in 1 .. Len(p)}
      BY RangeEquality
    <3>2. PICK i \in 1 .. Len(p) : p[i].row = r
      BY <2>2, <3>1 DEF RowsOf
    <3> QED  BY <1>1, <2>1, <3>2
  <2> QED  BY <1>1, <2>1, <2>2
<1> QED  BY <1>2, <1>3

\* The next event moves the checkpoint past nothing the client lacks.
LEMMA OrderedHead ==
  ASSUME NEW p \in Seq(AnyEvent), p # <<>>, NEW lacking, Ordered(p, lacking), NEW r \in lacking
  PROVE  TimeOf[Head(p).row] <= TimeOf[r] + Skew
<1>1. Len(p) \in Nat \ {0} /\ Head(p) = p[1]
  BY EmptySeq
<1>2. 1 \in 1 .. Len(p) /\ 1 .. 1 - 1 = {}
  BY <1>1
<1>3. TimeOf[p[1].row] <= TimeOf[r] + Skew \/ \E i \in 1 .. 1 - 1 : p[i].row = r
  BY <1>2 DEF Ordered
<1> QED  BY <1>1, <1>2, <1>3

LEMMA OrderedTail ==
  ASSUME NEW p \in Seq(AnyEvent), p # <<>>, NEW lacking, Ordered(p, lacking)
  PROVE  Ordered(Tail(p), lacking \ {Head(p).row})
<1> DEFINE rest == Tail(p)
<1>1. /\ Len(p) \in Nat \ {0} /\ Head(p) = p[1] /\ Len(rest) = Len(p) - 1
      /\ \A i \in 1 .. Len(rest) : rest[i] = p[i + 1]
  BY EmptySeq, HeadTailProperties
<1> HIDE DEF rest
<1> SUFFICES ASSUME NEW r \in lacking \ {Head(p).row}, NEW j \in 1 .. Len(rest)
             PROVE  TimeOf[rest[j].row] <= TimeOf[r] + Skew \/ \E i \in 1 .. j - 1 : rest[i].row = r
  BY DEF Ordered, rest
<1>2. j + 1 \in 1 .. Len(p) /\ rest[j] = p[j + 1] /\ j \in Nat
  BY <1>1
<1>3. TimeOf[p[j + 1].row] <= TimeOf[r] + Skew \/ \E i \in 1 .. (j + 1) - 1 : p[i].row = r
  BY <1>2 DEF Ordered
<1>4. ASSUME NEW i \in 1 .. (j + 1) - 1, p[i].row = r PROVE \E k \in 1 .. j - 1 : rest[k].row = r
  <2>1. i # 1
    BY <1>1, <1>4
  <2>2. i - 1 \in 1 .. j - 1 /\ i - 1 \in 1 .. Len(rest) /\ (i - 1) + 1 = i
    BY <1>1, <1>2, <2>1
  <2>3. rest[i - 1] = p[i]
    BY <1>1, <2>2
  <2> QED  BY <1>4, <2>2, <2>3
<1> QED  BY <1>2, <1>3, <1>4

LEMMA PipeType ==
  ASSUME TypeOK
  PROVE  /\ Pipe \in Seq(AnyEvent) /\ kept \o wire \in Seq(AnyEvent)
         /\ RowsOf(Pipe) \subseteq RowsOf(kept) \cup RowsOf(wire) \cup RowsOf(channel)
         /\ RowsOf(kept) \cup RowsOf(wire) \subseteq RowsOf(Pipe)
         /\ ~ lagged => RowsOf(channel) \subseteq RowsOf(Pipe)
<1> DEFINE last == IF lagged THEN <<>> ELSE channel
<1>1. kept \in Seq(AnyEvent) /\ wire \in Seq(AnyEvent) /\ channel \in Seq(AnyEvent)
  BY DEF TypeOK
<1>2. /\ last \in Seq(AnyEvent) /\ Range(last) \subseteq Range(channel)
      /\ ~ lagged => Range(last) = Range(channel)
  <2>1. <<>> \in Seq(AnyEvent) /\ Range(<<>>) = {}
    BY DEF Range
  <2> QED  BY <1>1, <2>1
<1>3. kept \o wire \in Seq(AnyEvent) /\ Range(kept \o wire) = Range(kept) \cup Range(wire)
  BY <1>1, ConcatProperties, RangeConcatenation
<1>4. Pipe = kept \o wire \o last
  BY DEF Pipe
<1> HIDE DEF last
<1>5. Pipe \in Seq(AnyEvent) /\ Range(Pipe) = Range(kept) \cup Range(wire) \cup Range(last)
  <2> DEFINE front == kept \o wire
  <2>1. front \in Seq(AnyEvent) /\ Range(front) = Range(kept) \cup Range(wire) /\ Pipe = front \o last
    BY <1>3, <1>4
  <2> HIDE DEF front
  <2>2. front \o last \in Seq(AnyEvent)
    BY <1>2, <2>1, ConcatProperties
  <2>3. Range(front \o last) = Range(front) \cup Range(last)
    BY <1>2, <2>1, RangeConcatenation
  <2> QED  BY <2>1, <2>2, <2>3
<1> QED  BY <1>2, <1>3, <1>5 DEF RowsOf

LEMMA ComingParts ==
  Coming = RowsOf(batch) \cup RowsOf(channel) \cup RowsOf(wire) \cup RowsOf(kept) \cup Unpolled
BY DEF Coming, RowsOf, Unpolled

LEMMA ComingNext ==
  Coming' = RowsOf(batch') \cup RowsOf(channel') \cup RowsOf(wire') \cup RowsOf(kept') \cup Unpolled'
BY DEF Coming, RowsOf, Unpolled

-----------------------------------------------------------------------------
(***************************************************************************)
(* No message is lost                                                      *)
(***************************************************************************)

LEMMA WrittenTimes ==
  ASSUME IInv
  PROVE  /\ \A r \in Written : r \in Row /\ TimeOf[r] \in Nat
         /\ Skew \in Nat /\ Overlap \in Nat /\ since \in Nat
BY WrittenRows, RecoveryAssumption DEF IInv, TypeOK

LEMMA ComingWritten ==
  ASSUME IInv
  PROVE  /\ Coming \subseteq Written /\ RowsOf(Pipe) \subseteq Written
         /\ RowsOf(batch) \cup Unpolled \subseteq Written
<1>1. /\ RowsOf(batch) \subseteq Written /\ RowsOf(channel) \subseteq Written /\ RowsOf(wire) \subseteq Written
      /\ RowsOf(kept) \subseteq Written
  BY DEF IInv, EventsTell, Events, RowsOf
<1>2. Unpolled \subseteq Written
  BY WrittenRows DEF IInv
<1> QED  BY <1>1, <1>2, ComingParts, PipeType DEF IInv

\* A step that adds no row and processes none, and takes nothing from the
\* stream of a good connection.
LEMMA StreamStep ==
  ASSUME StreamInv, IInv',
         Written' = Written, Unprocessed' = Unprocessed, since' = since,
         RowsOf(batch') \cup Unpolled' \subseteq RowsOf(batch) \cup Unpolled,
         Good' /\ mode' \in {"scan", "live"} => Good /\ Coming \subseteq Coming',
         mode' = "scan" => mode = "scan" /\ left' = left /\ found' = found,
         mode' = "live" => mode = "live" /\ Ordered(Pipe', Unprocessed)
  PROVE  StreamInv'
<1>1. \A r : Latest(r) => Latest(r)'
  BY DEF Latest
<1>2. WithinOverlap'
  BY DEF StreamInv, WithinOverlap
<1>3. LateRows'
  BY <1>1 DEF StreamInv, LateRows
<1>4. RunFinds'
  BY <1>1 DEF StreamInv, RunFinds
<1>5. InOrder'
  BY DEF InOrder
<1>6. NoneLost'
  BY DEF StreamInv, NoneLost
<1> QED  BY <1>2, <1>3, <1>4, <1>5, <1>6 DEF StreamInv

LEMMA SameDatabase ==
  ASSUME UNCHANGED <<rows, times>>
  PROVE  Written' = Written /\ Unprocessed' = Unprocessed
BY DEF Written, Unprocessed

LEMMA SameListener ==
  ASSUME UNCHANGED <<rows, watermark, batch>>
  PROVE  Unpolled' = Unpolled /\ RowsOf(batch') = RowsOf(batch)
BY DEF Unpolled

LEMMA NumberStream ==
  ASSUME StreamInv, IInv', NEW r \in Row, Number(r)
  PROVE  StreamInv'
<1>1. UNCHANGED <<rows, listener, server, mode, kept, durable, run, faults>>
  BY DEF Number
<1>2. Written' = Written /\ Unprocessed' = Unprocessed /\ Unpolled' = Unpolled
  BY <1>1, SameDatabase, SameListener DEF listener, durable
<1>3. Pipe' = Pipe /\ (Good' <=> Good) /\ Coming' = Coming
  BY <1>1, <1>2, ComingParts, ComingNext DEF Pipe, Good, server, listener
<1> QED  BY <1>1, <1>2, <1>3, StreamStep DEF StreamInv, InOrder, listener, durable, run

LEMMA PollStream ==
  ASSUME StreamInv, IInv', Poll
  PROVE  StreamInv'
<1>1. UNCHANGED <<database, server, mode, kept, durable, run, faults>> /\ batch = <<>>
  BY DEF Poll
<1>2. Written' = Written /\ Unprocessed' = Unprocessed
  BY <1>1, SameDatabase DEF database, durable
<1>3. RowsOf(batch') = Unpolled /\ Unpolled' = {}
  BY PollBrings DEF StreamInv
<1>4. Pipe' = Pipe /\ (Good' <=> Good)
  BY <1>1 DEF Pipe, Good, server
<1>5. Coming \subseteq Coming'
  <2>1. RowsOf(batch) = {}
    BY <1>1 DEF RowsOf, Range
  <2> QED  BY <1>1, <1>3, <2>1, ComingParts, ComingNext DEF server
<1> QED  BY <1>1, <1>2, <1>3, <1>4, <1>5, StreamStep DEF StreamInv, InOrder, durable, run

LEMMA BroadcastStream ==
  ASSUME StreamInv, IInv', Broadcast
  PROVE  StreamInv'
<1> DEFINE e == Head(batch)
<1>1. UNCHANGED <<database, watermark, socket, wire, mode, kept, durable, run, faults>>
  BY DEF Broadcast
<1>2. Written' = Written /\ Unprocessed' = Unprocessed
  BY <1>1, SameDatabase DEF database, durable
<1>3. Unpolled' = Unpolled
  BY <1>1 DEF Unpolled, database
<1>4. IInv /\ TypeOK
  BY DEF StreamInv, IInv
<1>5. e \in AnyEvent /\ RowsOf(batch) = {e.row} \cup RowsOf(batch')
  BY <1>4, BroadcastMoves DEF RowsOf
<1>6. e.row \in Written
  BY <1>4, <1>5, ComingWritten
<1>7. Good' => Good /\ Coming \subseteq Coming'
  <2> HAVE Good'
  <2>1. Good /\ channel' = Append(channel, e)
    BY <1>4, BroadcastMoves
  <2>2. RowsOf(channel') = RowsOf(channel) \cup {e.row}
    BY <1>4, <1>5, <2>1, AppendRange DEF RowsOf, TypeOK
  <2> QED  BY <1>1, <1>3, <1>5, <2>1, <2>2, ComingParts, ComingNext
<1>8. ASSUME mode' = "live" PROVE Ordered(Pipe', Unprocessed)
  <2>1. mode = "live" /\ Ordered(Pipe, Unprocessed)
    BY <1>1, <1>8 DEF StreamInv, InOrder
  <2>2. CASE socket # "open"
    BY <1>1, <1>4, <2>1, <2>2, BroadcastMoves DEF Pipe
  <2>3. CASE socket = "open" /\ lagged'
    <3>1. Pipe' = kept \o wire
      <4>1. Pipe' = kept' \o wire' \o <<>>
        BY <2>3 DEF Pipe
      <4> QED  BY <1>1, <1>4, <4>1, PipeType, ConcatEmptySeq
    <3>2. kept \o wire \in Seq(AnyEvent) /\ channel \in Seq(AnyEvent) /\ <<>> \in Seq(AnyEvent)
      BY <1>4, PipeType DEF TypeOK
    <3>3. Pipe = (kept \o wire) \o channel \/ Pipe = (kept \o wire) \o <<>>
      BY DEF Pipe
    <3> QED  BY <2>1, <3>1, <3>2, <3>3, OrderedPrefix
  <2>4. CASE socket = "open" /\ ~ lagged'
    <3>1. Good /\ ~ lagged /\ channel' = Append(channel, e)
      BY <1>1, <1>4, <2>4, BroadcastMoves DEF Good
    <3>2. Pipe = (kept \o wire) \o channel /\ Pipe' = (kept \o wire) \o Append(channel, e)
      BY <1>1, <2>4, <3>1 DEF Pipe
    <3>3. Pipe' = Append(Pipe, e)
      <4>1. kept \o wire \in Seq(AnyEvent) /\ channel \in Seq(AnyEvent)
        BY <1>4, PipeType DEF TypeOK
      <4> QED  BY <1>5, <3>2, <4>1, AppendOverConcat
    <3>4. ASSUME NEW r \in Unprocessed PROVE TimeOf[e.row] <= TimeOf[r] + Skew \/ r \in RowsOf(Pipe)
      <4>1. r \in Coming
        BY <2>1, <3>1 DEF StreamInv, NoneLost
      <4>2. CASE r \in RowsOf(batch) \cup Unpolled
        BY <1>6, <4>2 DEF StreamInv, LateRows, Latest
      <4>3. CASE r \notin RowsOf(batch) \cup Unpolled
        BY <1>4, <3>1, <4>1, <4>3, ComingParts, PipeType
      <4> QED  BY <4>2, <4>3
    <3> QED  BY <1>4, <1>5, <2>1, <3>3, <3>4, PipeType, OrderedAppend
  <2> QED  BY <2>2, <2>3, <2>4
<1> QED  BY <1>1, <1>2, <1>3, <1>5, <1>7, <1>8, StreamStep DEF StreamInv, durable, run

LEMMA SubscribeStream ==
  ASSUME StreamInv, IInv', Subscribe
  PROVE  StreamInv'
<1>1. /\ UNCHANGED <<database, listener, channel, lagged, wire, mode, kept, durable, run, faults>>
      /\ socket = "upgraded"
  BY DEF Subscribe
<1>2. Written' = Written /\ Unprocessed' = Unprocessed /\ Unpolled' = Unpolled /\ RowsOf(batch') = RowsOf(batch)
  BY <1>1, SameDatabase, SameListener DEF database, listener, durable
<1>3. mode' \notin {"scan", "live"}
  BY <1>1 DEF StreamInv, IInv, OneConnection
<1> QED  BY <1>1, <1>2, <1>3, StreamStep DEF durable

LEMMA SendStream ==
  ASSUME StreamInv, IInv', SendNext
  PROVE  StreamInv'
<1>1. UNCHANGED <<database, listener, mode, kept, durable, run, faults>> /\ socket = "open"
  BY DEF SendNext
<1>2. Written' = Written /\ Unprocessed' = Unprocessed /\ Unpolled' = Unpolled /\ RowsOf(batch') = RowsOf(batch)
  BY <1>1, SameDatabase, SameListener DEF database, listener, durable
<1>3. IInv /\ TypeOK /\ kept \in Seq(AnyEvent) /\ wire \in Seq(AnyEvent) /\ channel \in Seq(AnyEvent)
  BY DEF StreamInv, IInv, TypeOK
<1>4. CASE lagged
  <2>1. socket' = "none" /\ channel' = <<>> /\ lagged' = FALSE /\ wire' = wire
    BY <1>3, <1>4, SendMoves DEF EndSocket
  <2>2. ~ Good'
    BY <2>1 DEF Good
  <2>3. Pipe' = Pipe
    <3>1. Pipe = kept \o wire \o <<>>
      BY <1>4 DEF Pipe
    <3>2. Pipe' = kept' \o wire' \o <<>>
      BY <2>1 DEF Pipe
    <3> QED  BY <1>1, <2>1, <3>1, <3>2
  <2> QED  BY <1>1, <1>2, <2>2, <2>3, StreamStep DEF StreamInv, InOrder, durable, run
<1>5. CASE ~ lagged
  <2>1. /\ channel # <<>> /\ UNCHANGED <<socket, lagged>>
        /\ wire' = Append(wire, Head(channel)) /\ channel' = Tail(channel)
        /\ Range(wire') = Range(wire) \cup {Head(channel)} /\ Range(channel) = {Head(channel)} \cup Range(channel')
    BY <1>3, <1>5, SendMoves
  <2>2. Good' /\ Good
    BY <1>1, <1>5, <2>1 DEF Good
  <2>3. Coming \subseteq Coming'
    <3>1. RowsOf(wire) \cup RowsOf(channel) \subseteq RowsOf(wire') \cup RowsOf(channel')
      BY <2>1 DEF RowsOf
    <3> QED  BY <1>1, <1>2, <3>1, ComingParts, ComingNext
  <2>4. Pipe' = Pipe
    <3>1. Pipe = (kept \o wire) \o channel /\ Pipe' = (kept \o Append(wire, Head(channel))) \o Tail(channel)
      BY <1>1, <1>5, <2>1 DEF Pipe
    <3>2. Head(channel) \in AnyEvent /\ kept \o wire \in Seq(AnyEvent)
      BY <1>3, <2>1, HeadTailProperties, PipeType
    <3>3. kept \o Append(wire, Head(channel)) = Append(kept \o wire, Head(channel))
      BY <1>3, <3>2, AppendOverConcat
    <3>4. Append(kept \o wire, Head(channel)) \o Tail(channel) = (kept \o wire) \o channel
      BY <1>3, <2>1, <3>2, MoveHead
    <3> QED  BY <3>1, <3>3, <3>4
  <2> QED  BY <1>1, <1>2, <2>2, <2>3, <2>4, StreamStep DEF StreamInv, InOrder, durable, run
<1> QED  BY <1>4, <1>5

LEMMA ReceiveStream ==
  ASSUME StreamInv, IInv', Receive
  PROVE  StreamInv'
<1>1. UNCHANGED <<database, listener, socket, channel, lagged, mode, durable, run, faults>>
  BY DEF Receive
<1>2. Written' = Written /\ Unprocessed' = Unprocessed /\ Unpolled' = Unpolled /\ RowsOf(batch') = RowsOf(batch)
  BY <1>1, SameDatabase, SameListener DEF database, listener, durable
<1>3. IInv /\ kept \in Seq(AnyEvent) /\ wire \in Seq(AnyEvent)
  BY DEF StreamInv, IInv, TypeOK
<1>4. /\ wire # <<>> /\ kept' = Append(kept, Head(wire)) /\ wire' = Tail(wire)
      /\ Range(kept') = Range(kept) \cup {Head(wire)} /\ Range(wire) = {Head(wire)} \cup Range(wire')
  BY <1>3, ReceiveMoves
<1>5. Coming \subseteq Coming'
  <2>1. RowsOf(kept) \cup RowsOf(wire) \subseteq RowsOf(kept') \cup RowsOf(wire')
    BY <1>4 DEF RowsOf
  <2> QED  BY <1>1, <1>2, <2>1, ComingParts, ComingNext
<1>6. Pipe' = Pipe /\ (Good' <=> Good)
  <2>1. kept' \o wire' = kept \o wire
    BY <1>3, <1>4, MoveHead
  <2> QED  BY <1>1, <2>1 DEF Pipe, Good
<1> QED  BY <1>1, <1>2, <1>5, <1>6, StreamStep DEF StreamInv, InOrder, durable, run

\* Connecting, giving up and failing: no client in a run or a live phase gains
\* anything by them.
LEMMA ConnectStream ==
  ASSUME StreamInv, IInv', Connect
  PROVE  StreamInv'
<1>1. /\ UNCHANGED <<database, listener, channel, lagged, wire, kept, durable, run, faults>>
      /\ mode' = "connected"
  BY DEF Connect
<1>2. Written' = Written /\ Unprocessed' = Unprocessed /\ Unpolled' = Unpolled /\ RowsOf(batch') = RowsOf(batch)
  BY <1>1, SameDatabase, SameListener DEF database, listener, durable
<1> QED  BY <1>1, <1>2, StreamStep DEF durable

LEMMA SeeCloseStream ==
  ASSUME StreamInv, IInv', SeeClose
  PROVE  StreamInv'
<1>1. UNCHANGED <<database, listener, socket, channel, lagged, durable, faults>> /\ mode' = "down"
  BY DEF SeeClose, Disconnect
<1>2. Written' = Written /\ Unprocessed' = Unprocessed /\ Unpolled' = Unpolled /\ RowsOf(batch') = RowsOf(batch)
  BY <1>1, SameDatabase, SameListener DEF database, listener, durable
<1> QED  BY <1>1, <1>2, StreamStep DEF durable

LEMMA ClientFailsStream ==
  ASSUME StreamInv, IInv', ClientFails
  PROVE  StreamInv'
<1>1. UNCHANGED <<database, listener, durable>> /\ mode' = "down"
  BY DEF ClientFails, Disconnect
<1>2. Written' = Written /\ Unprocessed' = Unprocessed /\ Unpolled' = Unpolled /\ RowsOf(batch') = RowsOf(batch)
  BY <1>1, SameDatabase, SameListener DEF database, listener, durable
<1> QED  BY <1>1, <1>2, StreamStep DEF durable

LEMMA ServerFailsStream ==
  ASSUME StreamInv, IInv', ServerFails
  PROVE  StreamInv'
<1>1. /\ UNCHANGED <<database, watermark, durable>> /\ batch' = <<>>
      /\ socket' = "none" /\ channel' = <<>> /\ lagged' = FALSE
      /\ mode = "scan" => mode' = "down"
      /\ mode # "scan" => UNCHANGED <<mode, kept, wire, run>>
  BY DEF ServerFails, Disconnect, EndSocket
<1>2. Written' = Written /\ Unprocessed' = Unprocessed /\ Unpolled' = Unpolled
  BY <1>1, SameDatabase DEF database, durable, Unpolled
<1>3. RowsOf(batch') = {} /\ ~ Good'
  BY <1>1 DEF RowsOf, Range, Good
<1>4. ASSUME mode' = "live" PROVE mode = "live" /\ Ordered(Pipe', Unprocessed)
  <2>1. mode = "live" /\ UNCHANGED <<kept, wire>> /\ Ordered(Pipe, Unprocessed)
    BY <1>1, <1>4 DEF StreamInv, InOrder
  <2>2. TypeOK /\ kept \o wire \in Seq(AnyEvent) /\ channel \in Seq(AnyEvent) /\ <<>> \in Seq(AnyEvent)
    BY PipeType DEF StreamInv, IInv, TypeOK
  <2>3. Pipe' = kept \o wire
    <3>1. Pipe' = kept' \o wire' \o <<>>
      BY <1>1 DEF Pipe
    <3> QED  BY <2>1, <2>2, <3>1, ConcatEmptySeq
  <2>4. Pipe = (kept \o wire) \o channel \/ Pipe = (kept \o wire) \o <<>>
    BY DEF Pipe
  <2> QED  BY <2>1, <2>2, <2>3, <2>4, OrderedPrefix
<1> QED  BY <1>1, <1>2, <1>3, <1>4, StreamStep DEF durable

LEMMA StutterStream ==
  ASSUME StreamInv, IInv', UNCHANGED vars
  PROVE  StreamInv'
<1>1. Written' = Written /\ Unprocessed' = Unprocessed /\ Unpolled' = Unpolled /\ RowsOf(batch') = RowsOf(batch)
  BY SameDatabase, SameListener DEF vars
<1>2. Pipe' = Pipe /\ (Good' <=> Good) /\ Coming' = Coming
  BY <1>1, ComingParts, ComingNext DEF Pipe, Good, vars
<1> QED  BY <1>1, <1>2, StreamStep DEF StreamInv, InOrder, vars

LEMMA BeginRunStream ==
  ASSUME StreamInv, IInv', BeginRun
  PROVE  StreamInv'
<1>1. /\ UNCHANGED <<database, listener, server, kept, durable, found, faults>>
      /\ mode' = "scan" /\ left' = Table
  BY DEF BeginRun
<1>2. Written' = Written /\ Unprocessed' = Unprocessed /\ Unpolled' = Unpolled /\ RowsOf(batch') = RowsOf(batch)
  BY <1>1, SameDatabase, SameListener DEF database, listener, durable
<1>3. WithinOverlap' /\ LateRows'
  BY <1>1, <1>2 DEF StreamInv, WithinOverlap, LateRows, Latest, durable
<1>4. RunFinds'
  BY <1>1, <1>2, WrittenRows DEF StreamInv, IInv, RunFinds, Unprocessed
<1> QED  BY <1>1, <1>3, <1>4 DEF StreamInv, InOrder, NoneLost

\* A table gives every row the client lacks: the run begins early enough.
LEMMA ReadStream ==
  ASSUME StreamInv, IInv', OverlapSuffices, NEW t \in Table, ReadTable(t)
  PROVE  StreamInv'
<1>1. /\ UNCHANGED <<database, listener, server, mode, kept, durable, names, faults>>
      /\ mode = "scan" /\ left' = left \ {t}
      /\ found' = found \cup
           {Event(r, names) : r \in {r \in Range(rows[t]) : TimeOf[r] >= RunFrom}}
  BY DEF ReadTable
<1>2. Written' = Written /\ Unprocessed' = Unprocessed /\ Unpolled' = Unpolled /\ RowsOf(batch') = RowsOf(batch)
  BY <1>1, SameDatabase, SameListener DEF database, listener, durable
<1>3. WithinOverlap' /\ LateRows'
  BY <1>1, <1>2 DEF StreamInv, WithinOverlap, LateRows, Latest, durable
<1>4. (Good' <=> Good) /\ Coming' = Coming
  BY <1>1, <1>2, ComingParts, ComingNext DEF Good, server, listener
<1>5. ASSUME NEW r \in Unprocessed, TableOf[r] = t PROVE r \in {e.row : e \in found'}
  <2>1. r \in Written /\ r \in Row /\ r \in Range(rows[t]) /\ TimeOf[r] \in Nat
    BY <1>5, WrittenRows, WrittenTimes DEF StreamInv, IInv, Unprocessed
  <2>3. TimeOf[r] >= RunFrom
    <3>1. since <= TimeOf[r] + Skew /\ Skew <= Overlap
      BY DEF StreamInv, WithinOverlap, OverlapSuffices
    <3>2. since \in Nat /\ Skew \in Nat /\ Overlap \in Nat
      BY WrittenTimes DEF StreamInv
    <3> QED  BY <2>1, <3>1, <3>2 DEF RunFrom
  <2>4. Event(r, names) \in found' /\ Event(r, names).row = r
    BY <1>1, <2>1, <2>3, EventOfRow
  <2> QED  BY <2>4
<1>6. {e.row : e \in found} \subseteq {e.row : e \in found'}
  BY <1>1
<1>7. RunFinds'
  <2> SUFFICES ASSUME NEW r \in Unprocessed
               PROVE  \/ r \in {e.row : e \in found'}
                      \/ TableOf[r] \in left'
                      \/ Latest(r)' /\ (Good' => r \in Coming')
    BY <1>2 DEF RunFinds
  <2>1. \/ r \in {e.row : e \in found}
        \/ TableOf[r] \in left
        \/ Latest(r) /\ (Good => r \in Coming)
    BY <1>1 DEF StreamInv, RunFinds
  <2>2. Latest(r) => Latest(r)'
    BY <1>2 DEF Latest
  <2> QED  BY <1>1, <1>4, <1>5, <1>6, <2>1, <2>2
<1> QED  BY <1>1, <1>3, <1>7 DEF StreamInv, InOrder, NoneLost

LEMMA OrderedFewer ==
  ASSUME NEW p, NEW lacking, NEW fewer \in SUBSET lacking, Ordered(p, lacking)
  PROVE  Ordered(p, fewer)
BY DEF Ordered

LEMMA LatestOrdered ==
  ASSUME IInv, NEW lacking, \A r \in lacking : Latest(r)
  PROVE  Ordered(Pipe, lacking)
<1> SUFFICES ASSUME NEW r \in lacking, NEW j \in 1 .. Len(Pipe)
             PROVE  TimeOf[Pipe[j].row] <= TimeOf[r] + Skew
  BY DEF Ordered
<1>1. Range(Pipe) = {Pipe[i] : i \in 1 .. Len(Pipe)}
  <2> DEFINE pipe == Pipe
  <2>1. pipe \in Seq(AnyEvent)
    BY PipeType DEF IInv
  <2> HIDE DEF pipe
  <2>2. Range(pipe) = {pipe[i] : i \in 1 .. Len(pipe)}
    BY <2>1, RangeEquality
  <2> QED  BY <2>2 DEF pipe
<1>2. Pipe[j].row \in RowsOf(Pipe)
  BY <1>1 DEF RowsOf
<1>3. Pipe[j].row \in Written
  BY <1>2, ComingWritten
<1> QED  BY <1>3 DEF Latest

\* What the client lacks when its run is over came after the run began.
LEMMA FinishStream ==
  ASSUME StreamInv, IInv', OneNaming, FinishRun
  PROVE  StreamInv'
<1>1. /\ UNCHANGED <<database, listener, server, kept, faults>>
      /\ mode = "scan" /\ left = {} /\ mode' = "live"
  BY DEF FinishRun
<1>2. Written' = Written /\ Unpolled' = Unpolled /\ RowsOf(batch') = RowsOf(batch)
  BY <1>1, SameRows, SameListener DEF database, listener
<1>3. (Good' <=> Good) /\ Coming' = Coming /\ Pipe' = Pipe
  BY <1>1, <1>2, ComingParts, ComingNext DEF Good, Pipe, server, listener
<1>4. IInv
  BY DEF StreamInv
<1>5. ASSUME NEW r \in Unprocessed'
      PROVE  r \in Unprocessed /\ Latest(r) /\ (Good => r \in Coming)
  <2>1. r \in Written /\ times'[r] = 0 /\ r \in Row
    BY <1>2, <1>4, WrittenRows DEF Unprocessed, IInv
  <2>2. times[r] = 0 /\ r \notin {e.row : e \in found}
    <3>1. times \in [Row -> 0 .. 2]
      BY <1>4 DEF IInv, TypeOK
    <3>2. times[r] \in 0 .. 2
      BY <2>1, <3>1
    <3>3. times[r] <= times'[r] /\ (r \in {e.row : e \in found} => times'[r] > 0)
      BY <1>4, <2>1, FinishCounts
    <3> QED  BY <2>1, <3>2, <3>3
  <2>3. r \in Unprocessed
    BY <2>1, <2>2 DEF Unprocessed
  <2> QED  BY <1>1, <2>2, <2>3 DEF StreamInv, RunFinds
<1>6. WithinOverlap'
  <2> SUFFICES ASSUME NEW r \in Unprocessed' PROVE since' <= TimeOf[r] + Skew
    BY DEF WithinOverlap
  <2>1. r \in Written /\ TimeOf[r] \in Nat /\ Skew \in Nat /\ since \in Nat
    BY <1>4, <1>5, WrittenTimes DEF Unprocessed
  <2>2. since' \in Nat
    BY <1>4, FinishCheckpoint
  <2>3. CASE since' <= since
    <3>1. since <= TimeOf[r] + Skew
      BY <1>5 DEF StreamInv, WithinOverlap
    <3> QED  BY <2>1, <2>2, <2>3, <3>1
  <2>4. CASE \E e \in found : since' = TimeOf[e.row]
    <3>1. PICK e \in found : since' = TimeOf[e.row]
      BY <2>4
    <3>2. e.row \in Written
      BY <1>4 DEF IInv, EventsTell, Events
    <3> QED  BY <1>5, <3>1, <3>2 DEF Latest
  <2> QED  BY <1>4, <2>3, <2>4, FinishCheckpoint
<1>7. LateRows'
  BY <1>2 DEF StreamInv, LateRows, Latest
<1>8. RunFinds'
  BY <1>1 DEF RunFinds
<1>9. InOrder'
  <2>1. Ordered(Pipe, Unprocessed')
    BY <1>4, <1>5, LatestOrdered
  <2> QED  BY <1>3, <2>1 DEF InOrder
<1>10. NoneLost'
  BY <1>3, <1>5 DEF NoneLost
<1> QED  BY <1>6, <1>7, <1>8, <1>9, <1>10 DEF StreamInv

LEMMA ConsumePipe ==
  ASSUME IInv, Consume
  PROVE  Pipe # <<>> /\ Head(Pipe) = Head(kept) /\ Pipe' = Tail(Pipe)
<1> DEFINE last == IF lagged THEN <<>> ELSE channel
<1>1. /\ kept \in Seq(AnyEvent) /\ wire \in Seq(AnyEvent) /\ last \in Seq(AnyEvent)
      /\ kept # <<>> /\ kept' = Tail(kept) /\ UNCHANGED <<wire, channel, lagged>>
  BY DEF IInv, TypeOK, Consume, server
<1>2. Pipe = (kept \o wire) \o last /\ Pipe' = (Tail(kept) \o wire) \o last
  BY <1>1 DEF Pipe
<1> HIDE DEF last
<1> DEFINE front == kept \o wire
<1>3. front \in Seq(AnyEvent) /\ front # <<>> /\ Head(front) = Head(kept) /\ Tail(front) = Tail(kept) \o wire
  BY <1>1, ConcatLeft, ConcatProperties
<1>4. Pipe = front \o last /\ Pipe' = Tail(front) \o last
  BY <1>2, <1>3
<1> HIDE DEF front
<1>5. front \o last # <<>> /\ Head(front \o last) = Head(front) /\ Tail(front \o last) = Tail(front) \o last
  BY <1>1, <1>3, ConcatLeft
<1> QED  BY <1>3, <1>4, <1>5

LEMMA ConsumeStream ==
  ASSUME StreamInv, IInv', OneNaming, Consume
  PROVE  StreamInv'
<1> DEFINE e == Head(kept)
<1>1. UNCHANGED <<database, listener, server, mode, run, faults>> /\ mode = "live"
  BY DEF Consume
<1>2. Written' = Written /\ Unpolled' = Unpolled /\ RowsOf(batch') = RowsOf(batch)
  BY <1>1, SameRows, SameListener DEF database, listener
<1>3. IInv /\ Pipe \in Seq(AnyEvent)
  BY PipeType DEF StreamInv, IInv
<1>4. /\ Range(kept) = {e} \cup Range(kept') /\ since' \in Nat
      /\ since' = since \/ since' = TimeOf[e.row]
      /\ times'[e.row] > 0
      /\ \A r \in Row : times[r] \in Nat /\ times'[r] \in Nat /\ times[r] <= times'[r]
  BY <1>3, ConsumeMoves
<1>5. Pipe # <<>> /\ Head(Pipe) = e /\ Pipe' = Tail(Pipe)
  BY <1>3, ConsumePipe
<1>6. Unprocessed' \subseteq Unprocessed \ {e.row}
  <2>1. \A r \in Written : r \in Row
    BY <1>3, WrittenTimes
  <2> HIDE DEF e
  <2>2. ASSUME NEW r \in Written, times'[r] = 0 PROVE times[r] = 0 /\ r # e.row
    BY <1>4, <2>1, <2>2
  <2> QED  BY <1>2, <2>2 DEF Unprocessed
<1>7. Ordered(Pipe, Unprocessed)
  BY <1>1 DEF StreamInv, InOrder
<1>8. WithinOverlap'
  <2> SUFFICES ASSUME NEW r \in Unprocessed' PROVE since' <= TimeOf[r] + Skew
    BY DEF WithinOverlap
  <2>1. since <= TimeOf[r] + Skew
    BY <1>6 DEF StreamInv, WithinOverlap
  <2>2. TimeOf[e.row] <= TimeOf[r] + Skew
    <3>1. r \in Unprocessed
      BY <1>6
    <3>2. TimeOf[Head(Pipe).row] <= TimeOf[r] + Skew
      <4> HIDE DEF e
      <4> DEFINE pipe == Pipe
                 lacking == Unprocessed
      <4>1. pipe \in Seq(AnyEvent) /\ pipe # <<>> /\ Ordered(pipe, lacking) /\ r \in lacking
        BY <1>3, <1>5, <1>7, <3>1
      <4> HIDE DEF pipe, lacking
      <4>2. TimeOf[Head(pipe).row] <= TimeOf[r] + Skew
        BY <4>1, OrderedHead
      <4> QED  BY <4>2 DEF pipe
    <3> QED  BY <1>5, <3>2
  <2> QED  BY <1>4, <2>1, <2>2
<1>9. LateRows'
  BY <1>2 DEF StreamInv, LateRows, Latest
<1>10. RunFinds'
  BY <1>1 DEF RunFinds
<1>11. InOrder'
  <2> DEFINE pipe == Pipe
             lacking == Unprocessed
  <2>1. pipe \in Seq(AnyEvent) /\ pipe # <<>> /\ Ordered(pipe, lacking) /\ Head(pipe) = e
    BY <1>3, <1>5, <1>7
  <2> HIDE DEF pipe, lacking
  <2>2. Ordered(Tail(pipe), lacking \ {Head(pipe).row})
    BY <2>1, OrderedTail
  <2>3. Ordered(Pipe', Unprocessed \ {e.row})
    BY <1>5, <2>1, <2>2 DEF pipe, lacking
  <2>4. Ordered(Pipe', Unprocessed')
    BY <1>6, <2>3, OrderedFewer
  <2> QED  BY <2>4 DEF InOrder
<1>12. NoneLost'
  <2>1. RowsOf(kept) \subseteq {e.row} \cup RowsOf(kept')
    BY <1>4 DEF RowsOf
  <2>2. Coming \subseteq {e.row} \cup Coming'
    BY <1>1, <1>2, <2>1, ComingParts, ComingNext DEF server
  <2>3. Good' => Good
    BY <1>1 DEF Good, server
  <2> QED  BY <1>1, <1>6, <2>2, <2>3 DEF StreamInv, NoneLost
<1> QED  BY <1>8, <1>9, <1>10, <1>11, <1>12 DEF StreamInv

LEMMA WriteUnpolled ==
  ASSUME IInv, NEW r \in Row, Write(r)
  PROVE  Unpolled' = Unpolled \cup {r}
<1> DEFINE u == TableOf[r]
           fresh(t) == {rows[t][i] : i \in watermark[t] + 1 .. Len(rows[t])}
           after(t) == {rows'[t][i] : i \in watermark'[t] + 1 .. Len(rows'[t])}
<1>1. watermark' = watermark /\ u \in Table
  BY WriteAdds DEF Write, listener
<1>2. \A t \in Table : watermark[t] \in Nat /\ Len(rows[t]) \in Nat /\ watermark[t] <= Len(rows[t])
  BY DEF IInv, TypeOK, RowsInPlace
<1>3. ASSUME NEW t \in Table PROVE after(t) = IF t = u THEN fresh(t) \cup {r} ELSE fresh(t)
  <2>1. /\ Len(rows'[t]) = IF t = u THEN Len(rows[t]) + 1 ELSE Len(rows[t])
        /\ \A i \in watermark[t] + 1 .. Len(rows[t]) : rows'[t][i] = rows[t][i]
        /\ rows'[u][Len(rows[u]) + 1] = r
    <3>1. \A i \in watermark[t] + 1 .. Len(rows[t]) : i \in 1 .. Len(rows[t])
      BY <1>2
    <3> QED  BY <3>1, WriteAdds
  <2>2. CASE t = u
    <3>1. watermark[t] + 1 .. Len(rows[t]) + 1 = (watermark[t] + 1 .. Len(rows[t])) \cup {Len(rows[t]) + 1}
      BY <1>2
    <3>2. after(t) = {rows'[t][i] : i \in watermark[t] + 1 .. Len(rows[t])} \cup {rows'[t][Len(rows[t]) + 1]}
      BY <1>1, <2>1, <2>2, <3>1
    <3>3. rows'[t][Len(rows[t]) + 1] = r
      BY <2>1, <2>2
    <3>4. {rows'[t][i] : i \in watermark[t] + 1 .. Len(rows[t])} = fresh(t)
      BY <2>1
    <3>5. after(t) = fresh(t) \cup {r}
      <4> HIDE DEF fresh, after
      <4> QED  BY <3>2, <3>3, <3>4
    <3> HIDE DEF fresh, after
    <3> QED  BY <2>2, <3>5
  <2>3. CASE t # u
    BY <1>1, <2>1, <2>3
  <2> QED  BY <2>2, <2>3
<1>4. Unpolled = UNION {fresh(t) : t \in Table} /\ Unpolled' = UNION {after(t) : t \in Table}
  BY DEF Unpolled
<1> HIDE DEF fresh, after, u
<1> QED  BY <1>1, <1>3, <1>4

\* A row that comes is no older than what the client has by more than the
\* skew, and no younger than what is under way by more than that.
LEMMA WriteStream ==
  ASSUME StreamInv, IInv', NEW r \in Row, Write(r)
  PROVE  StreamInv'
<1>1. /\ UNCHANGED <<listener, server, mode, kept, durable, run, faults>>
      /\ \A other \in Written : TimeOf[other] <= TimeOf[r] + Skew
      /\ \A other \in UnderWay : TimeOf[r] <= TimeOf[other] + Skew
  BY DEF Write, WithinSkew
<1>2. IInv
  BY DEF StreamInv
<1>3. Written' = Written \cup {r} /\ Unpolled' = Unpolled \cup {r} /\ TimeOf[r] \in Nat
  BY <1>2, WriteAdds, WriteUnpolled
<1>4. Unprocessed' \subseteq Unprocessed \cup {r}
  BY <1>1, <1>3 DEF Unprocessed, durable
<1>5. Coming' = Coming \cup {r} /\ Pipe' = Pipe /\ (Good' <=> Good)
  <2>1. Coming' = Coming \cup {r}
    BY <1>1, <1>3, ComingParts, ComingNext DEF listener, server
  <2> QED  BY <1>1, <2>1 DEF Pipe, Good, server
<1>6. Latest(r)'
  <2>1. TimeOf[r] <= TimeOf[r] + Skew
    BY <1>2, <1>3, WrittenTimes
  <2> QED  BY <1>1, <1>3, <2>1 DEF Latest
<1>7. ASSUME NEW other \in UnderWay, Latest(other) PROVE Latest(other)'
  BY <1>1, <1>3, <1>7 DEF Latest
<1>8. /\ RowsOf(batch) \cup Unpolled \subseteq UnderWay
      /\ mode = "scan" => Written \ {e.row : e \in found} \subseteq UnderWay
  <2>1. UnderWay = RowsOf(batch) \cup Unpolled \cup
                   (IF mode = "scan" THEN Written \ {e.row : e \in found} ELSE {})
    BY DEF UnderWay, RowsOf, Unpolled
  <2>2. RowsOf(batch) \cup Unpolled \subseteq UnderWay
    BY <2>1
  <2>3. mode = "scan" => Written \ {e.row : e \in found} \subseteq UnderWay
    BY <2>1
  <2> QED  BY <2>2, <2>3
<1>9. WithinOverlap'
  <2>1. since <= TimeOf[r] + Skew
    <3>1. CASE since = 0
      BY <1>2, <1>3, <3>1, WrittenTimes
    <3>2. CASE since # 0
      <4>1. PICK other \in Written : since <= TimeOf[other]
        BY <1>2, <3>2 DEF IInv, Checkpointed
      <4>2. TimeOf[other] \in Nat /\ since \in Nat /\ Skew \in Nat /\ TimeOf[other] <= TimeOf[r] + Skew
        BY <1>1, <1>2, WrittenTimes
      <4> QED  BY <1>3, <4>1, <4>2
    <3> QED  BY <3>1, <3>2
  <2> QED  BY <1>1, <1>4, <2>1 DEF StreamInv, WithinOverlap, durable
<1>10. LateRows'
  <2> SUFFICES ASSUME NEW x \in RowsOf(batch') \cup Unpolled' PROVE Latest(x)'
    BY DEF LateRows
  <2>1. CASE x = r
    BY <1>6, <2>1
  <2>2. CASE x # r
    <3>1. x \in RowsOf(batch) \cup Unpolled
      BY <1>1, <1>3, <2>2 DEF listener
    <3> QED  BY <1>7, <1>8, <3>1 DEF StreamInv, LateRows
  <2> QED  BY <2>1, <2>2
<1>11. RunFinds'
  <2> SUFFICES ASSUME mode = "scan", NEW x \in Unprocessed'
               PROVE  \/ x \in {e.row : e \in found}
                      \/ TableOf[x] \in left
                      \/ Latest(x)' /\ (Good => x \in Coming')
    BY <1>1, <1>5 DEF RunFinds, run
  <2>1. CASE x = r
    BY <1>5, <1>6, <2>1
  <2>2. CASE x # r
    <3>1. x \in Unprocessed /\ x \in Written
      BY <1>4, <2>2 DEF Unprocessed
    <3>2. \/ x \in {e.row : e \in found}
          \/ TableOf[x] \in left
          \/ Latest(x) /\ (Good => x \in Coming)
      BY <3>1 DEF StreamInv, RunFinds
    <3>3. x \notin {e.row : e \in found} /\ Latest(x) => Latest(x)'
      BY <1>7, <1>8, <3>1
    <3> QED  BY <1>5, <3>2, <3>3
  <2> QED  BY <2>1, <2>2
<1>12. InOrder'
  <2> SUFFICES ASSUME mode = "live" PROVE Ordered(Pipe, Unprocessed')
    BY <1>1, <1>5 DEF InOrder
  <2>1. Ordered(Pipe, Unprocessed)
    BY DEF StreamInv, InOrder
  <2>2. Ordered(Pipe, {r})
    <3>1. Latest(r)
      BY <1>1 DEF Latest
    <3> QED  BY <1>2, <3>1, LatestOrdered
  <2>3. Ordered(Pipe, Unprocessed \cup {r})
    BY <2>1, <2>2 DEF Ordered
  <2> QED  BY <1>4, <2>3, OrderedFewer
<1>13. NoneLost'
  BY <1>1, <1>4, <1>5 DEF StreamInv, NoneLost
<1> QED  BY <1>9, <1>10, <1>11, <1>12, <1>13 DEF StreamInv

LEMMA InitStream ==
  ASSUME Init
  PROVE  StreamInv
<1>1. IInv
  BY InitInv
<1>2. Written = {} /\ mode = "down"
  BY DEF Init, Written, Range
<1>3. RowsOf(batch) \cup Unpolled = {}
  BY <1>1, <1>2, ComingWritten
<1> QED  BY <1>1, <1>2, <1>3 DEF StreamInv, WithinOverlap, LateRows, RunFinds, InOrder, NoneLost, Unprocessed

LEMMA StreamNext ==
  ASSUME StreamInv, OneNaming, OverlapSuffices, [Next]_vars
  PROVE  StreamInv'
<1>2. IInv'
  BY InvNext DEF StreamInv
<1>3. CASE Next
  BY <1>2, <1>3, WriteStream, NumberStream, PollStream, BroadcastStream, SubscribeStream, SendStream,
     ConnectStream, BeginRunStream, ReadStream, FinishStream, ReceiveStream, ConsumeStream, SeeCloseStream,
     ClientFailsStream, ServerFailsStream DEF Next, Client
<1>4. CASE UNCHANGED vars
  BY <1>2, <1>4, StutterStream
<1> QED  BY <1>3, <1>4

\* What the client lacks is no older than its checkpoint less the overlap, and
\* comes over a good connection before what would move the checkpoint past it.
THEOREM StreamInvariant ==
  ASSUME OneNaming, OverlapSuffices
  PROVE  Spec => []StreamInv
<1>1. Init => StreamInv
  BY InitStream
<1>2. StreamInv /\ [Next]_vars => StreamInv'
  BY StreamNext
<1> QED  BY <1>1, <1>2, PTL DEF Spec

\* A client in its live phase over a connection that is good has every message
\* of the databases, or will get it over that connection: if the databases tell the
\* chats alike, and the overlap is no less than what messages that are
\* under way together differ by.
THEOREM NoMessageIsLost ==
  ASSUME OneNaming, OverlapSuffices
  PROVE  Spec => []NoMessageLost
<1>1. ASSUME StreamInv PROVE NoMessageLost
  <2> SUFFICES ASSUME mode = "live", socket = "open", ~ lagged, NEW r \in Written
               PROVE  times[r] > 0 \/ r \in Coming
    BY DEF NoMessageLost
  <2>1. times[r] \in 0 .. 2
    BY <1>1, WrittenTimes DEF StreamInv, IInv, TypeOK
  <2>2. r \in Unprocessed => r \in Coming
    BY <1>1 DEF StreamInv, NoneLost, Good
  <2> QED  BY <2>1, <2>2 DEF Unprocessed
<1>2. StreamInv => NoMessageLost
  BY <1>1
<1> QED  BY <1>2, StreamInvariant, PTL

=============================================================================
