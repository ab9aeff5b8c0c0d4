----------------------------- MODULE IngestProofs -----------------------------
(***************************************************************************)
(* The safety properties of Ingest, for every set of databases and tables, *)
(* every set of unreadable rows and every number of crashes and failures,  *)
(* and that Ingest implements Delivery.                                    *)
(***************************************************************************)
EXTENDS Ingest, WellFoundedInduction, TLAPS

-----------------------------------------------------------------------------
(***************************************************************************)
(* The inductive invariant.  The properties speak of the saved watermarks  *)
(* and of what was fed; a step depends on what lies between: the           *)
(* watermarks in memory, the copy a scan works on, and the batch.          *)
(***************************************************************************)

\* Boot begins afresh after a crash, and its attempts end.
BootCounts ==
  /\ pc = "down" => attempts = 0 /\ rekeyed = FALSE
  /\ pc \in {"opened", "marking"} /\ ~ rekeyed => attempts < MaxAttempts

\* Existing rows are only marked as read where nothing was saved; and what is in
\* memory at each step of boot and of the listener.
Phases ==
  /\ pc \in {"marking", "mark", "marksave", "unmarked", "keywait"} => disk = None
  /\ pc \in {"down", "marking", "mark", "unmarked", "keywait"} => watermarks = None
  /\ pc = "opened" => watermarks = disk /\ (rekeyed => disk = None)
  /\ pc \in {"marksave", "save", "feed"} => watermarks = wm
  /\ ~ Serving => feed = <<>> /\ start = None
  /\ pc \notin {"scan", "save", "feed"} => batch = <<>>
  /\ pc \in {"save", "feed"} => batch # <<>>

\* No watermark is ahead of its table, and none in memory behind the saved one.
WatermarksInOrder ==
  \A t \in Table :
    /\ disk[t] <= rows[t] /\ watermarks[t] <= rows[t] /\ wm[t] <= rows[t]
    /\ pc # "down" => disk[t] <= watermarks[t]
    /\ pc = "scan" => watermarks[t] <= wm[t]

\* A chunk ends with a readable row, and the chunks of a table follow each other.
ChunksInOrder ==
  /\ \A i \in DOMAIN batch :
       /\ batch[i].upto \in Between(batch[i].table, batch[i].from, batch[i].upto)
       /\ batch[i].upto <= wm[batch[i].table]
  /\ \A i, j \in DOMAIN batch :
       i < j /\ batch[i].table = batch[j].table => batch[i].upto <= batch[j].from

\* How far a table was read in this run.
ReadUpTo(t) == IF pc = "idle" THEN watermarks[t] ELSE wm[t]

\* What was read and not fed is what is still to be fed.
PendingIsTheGap ==
  Serving => \A t \in Table :
    /\ Position(t) <= watermarks[t]
    /\ \A id \in Nat : <<t, id>> \in Pending <=> id \in Between(t, Position(t), ReadUpTo(t))

\* The feed of a run goes up from where the run started.
FeedGoesUp ==
  /\ \A t \in Table : \A i \in DOMAIN feed :
       feed[i][1] = t => start[t] < feed[i][2] /\ feed[i][2] <= Position(t)
  /\ \A i, j \in DOMAIN feed : feed[i] = feed[j] => i = j
  /\ \A t \in Table : start[t] <= Position(t)

\* Accounted, for the watermarks in memory.
MemoryAccounted ==
  \A t \in Table : \A id \in Between(t, 0, watermarks[t]) :
    Handled(t, id) \/ (pc \in {"save", "feed"} /\ <<t, id>> \in Pending)

\* While saves succeed, whatever was fed is behind the saved watermarks, and what
\* was fed in earlier runs is behind the start of this one.
FedIsSaved ==
  ~ save_failed =>
    /\ \A row \in past \cup FedNow : row[2] <= disk[row[1]]
    /\ Serving => \A row \in past : row[2] <= start[row[1]]
    /\ pc = "feed" => disk = wm

IInv ==
  /\ TypeOK /\ BootCounts /\ Phases /\ WatermarksInOrder /\ ChunksInOrder
  /\ PendingIsTheGap /\ FeedGoesUp /\ MemoryAccounted /\ Accounted /\ FedIsSaved

-----------------------------------------------------------------------------
(***************************************************************************)
(* Facts about the operators of the model.                                 *)
(***************************************************************************)

\* First finds the least element (the oldest row of a chunk).
LEMMA FirstIsLeast ==
  ASSUME NEW S, S \subseteq Nat, S # {}
  PROVE  First(S) \in S /\ \A x \in S : First(S) <= x
<1>1. PICK least \in S : \A y \in S : ~ (<<y, least>> \in OpToRel(<, Nat))
  BY NatLessThanWellFounded, WFMin, Zenon
<1>2. \A y \in S : ~ (y < least)
  BY <1>1, Zenon DEF OpToRel
<1>3. \A y \in S : least <= y
  BY <1>2
<1> QED  BY <1>3 DEF First

\* Last finds the greatest element of a bounded set (the newest row read).
LEMMA LastIsGreatest ==
  ASSUME NEW n \in Nat, NEW S, S \subseteq 0 .. n, S # {}
  PROVE  Last(S) \in S /\ \A x \in S : x <= Last(S)
<1> DEFINE Mirror == {m \in Nat : m <= n /\ n - m \in S}
<1>1. Mirror \subseteq Nat /\ Mirror # {}
  <2>1. PICK x \in S : TRUE
    OBVIOUS
  <2>2. n - x \in Mirror
    BY <2>1
  <2> QED  BY <2>2
<1>2. PICK least \in Mirror : \A y \in Mirror : least <= y
  <2> HIDE DEF Mirror
  <2> QED  BY <1>1, FirstIsLeast
<1>3. \A x \in S : x <= n - least
  <2> TAKE x \in S
  <2>1. n - x \in Mirror
    OBVIOUS
  <2>2. least <= n - x
    BY <2>1, <1>2
  <2> QED  BY <2>2
<1>4. n - least \in S
  BY <1>2
<1> HIDE DEF Mirror
<1> QED  BY <1>3, <1>4 DEF Last

\* The rows between two local_ids are local_ids.
LEMMA BetweenIds ==
  ASSUME NEW t \in Table, NEW from \in Nat, NEW upto \in Nat
  PROVE  /\ Between(t, from, upto) \subseteq Nat
         /\ Between(t, from, upto) \subseteq 0 .. upto
         /\ \A id : id \in Between(t, from, upto) <=>
              id \in Nat /\ from < id /\ id <= upto /\ Readable(t, id)
  BY DEF Between

\* What it means to be a sequence.
LEMMA SequenceOf ==
  ASSUME NEW S, NEW s \in Seq(S)
  PROVE  /\ Len(s) \in Nat /\ DOMAIN s = 1 .. Len(s)
         /\ \A i \in DOMAIN s : s[i] \in S
  OBVIOUS

\* TypeOK, for the variables that the reasoning is about.
LEMMA TypesOf ==
  ASSUME TypeOK
  PROVE  /\ rows \in [Table -> Nat] /\ disk \in [Table -> Nat]
         /\ watermarks \in [Table -> Nat] /\ wm \in [Table -> Nat]
         /\ start \in [Table -> Nat] /\ baseline \in [Table -> Nat]
         /\ existing \in [Table -> Nat]
         /\ batch \in Seq([table : Table, from : Nat, upto : Nat])
         /\ feed \in Seq(Table \X Nat)
         /\ Len(batch) \in Nat /\ DOMAIN batch = 1 .. Len(batch)
         /\ Len(feed) \in Nat /\ DOMAIN feed = 1 .. Len(feed)
         /\ \A i \in DOMAIN batch :
              batch[i].table \in Table /\ batch[i].from \in Nat /\ batch[i].upto \in Nat
         /\ \A i \in DOMAIN feed :
              feed[i] \in Table \X Nat /\ feed[i][1] \in Table /\ feed[i][2] \in Nat
<1>1. /\ rows \in [Table -> Nat] /\ disk \in [Table -> Nat]
      /\ watermarks \in [Table -> Nat] /\ wm \in [Table -> Nat]
      /\ start \in [Table -> Nat] /\ baseline \in [Table -> Nat]
      /\ existing \in [Table -> Nat]
  BY DEF TypeOK
<1>2. /\ batch \in Seq([table : Table, from : Nat, upto : Nat])
      /\ Len(batch) \in Nat /\ DOMAIN batch = 1 .. Len(batch)
      /\ \A i \in DOMAIN batch : batch[i] \in [table : Table, from : Nat, upto : Nat]
  <2>1. batch \in Seq([table : Table, from : Nat, upto : Nat])
    BY DEF TypeOK
  <2> QED  BY <2>1, SequenceOf, Zenon
<1>3. /\ feed \in Seq(Table \X Nat)
      /\ Len(feed) \in Nat /\ DOMAIN feed = 1 .. Len(feed)
      /\ \A i \in DOMAIN feed : feed[i] \in Table \X Nat
  BY DEF TypeOK
<1> QED  BY <1>1, <1>2, <1>3

\* A run that has fed nothing from a table is where it began.
LEMMA PositionAtStart ==
  ASSUME feed = <<>>
  PROVE  \A t \in Table : Position(t) = start[t]
  BY DEF Position

LEMMA PositionAtStartNext ==
  ASSUME feed' = <<>>
  PROVE  \A t \in Table : Position(t)' = start'[t]
  BY DEF Position

LEMMA PositionIsNat ==
  ASSUME TypeOK, NEW t \in Table
  PROVE  Position(t) \in Nat
<1> DEFINE mine == {i \in DOMAIN feed : feed[i][1] = t}
<1>1. mine \subseteq 0 .. Len(feed) /\ Len(feed) \in Nat
  BY TypesOf
<1>2. Position(t) = IF mine = {} THEN start[t] ELSE feed[Last(mine)][2]
  BY DEF Position
<1>3. mine # {} => Last(mine) \in mine
  <2> HIDE DEF mine
  <2> QED  BY <1>1, LastIsGreatest
<1>4. mine # {} => feed[Last(mine)][2] \in Nat
  BY <1>3, TypesOf
<1>5. start[t] \in Nat
  BY TypesOf
<1> HIDE DEF mine
<1> QED  BY <1>2, <1>4, <1>5

\* Feeding a row moves the position of its table to it and no other position.
LEMMA PositionAfterPush ==
  ASSUME TypeOK, NEW t \in Table, NEW id \in Nat,
         feed' = Append(feed, <<t, id>>), start' = start
  PROVE  /\ Position(t)' = id
         /\ \A u \in Table \ {t} : Position(u)' = Position(u)
<1>1. feed \in Seq(Table \X Nat) /\ Len(feed) \in Nat /\ DOMAIN feed = 1 .. Len(feed)
  BY TypesOf
<1>2. /\ DOMAIN feed' = 1 .. Len(feed) + 1
      /\ \A i \in DOMAIN feed : feed'[i] = feed[i]
      /\ feed'[Len(feed) + 1] = <<t, id>>
  BY <1>1
<1>3. Position(t)' = id
  <2> DEFINE mine == {i \in DOMAIN feed' : feed'[i][1] = t}
             last == Len(feed) + 1
  <2>1. mine \subseteq 0 .. last /\ last \in mine /\ mine # {} /\ last \in Nat
    BY <1>1, <1>2
  <2>2. Position(t)' = IF mine = {} THEN start'[t] ELSE feed'[Last(mine)][2]
    BY DEF Position
  <2>3. feed'[last][2] = id
    BY <1>2
  <2> HIDE DEF mine, last
  <2>4. Last(mine) \in mine /\ \A x \in mine : x <= Last(mine)
    BY <2>1, LastIsGreatest
  <2>5. last <= Last(mine) /\ Last(mine) \in 0 .. last
    BY <2>1, <2>4
  <2>6. Last(mine) = last
    BY <2>1, <2>5
  <2> QED  BY <2>1, <2>2, <2>3, <2>6, Zenon
<1>4. ASSUME NEW u \in Table, u # t
      PROVE  Position(u)' = Position(u)
  <2> DEFINE mine == {i \in DOMAIN feed : feed[i][1] = u}
             mineNext == {i \in DOMAIN feed' : feed'[i][1] = u}
  <2>1. mine = mineNext
    BY <1>1, <1>2, <1>4
  <2>2. mine # {} => Last(mine) \in mine
    <3>1. mine \subseteq 0 .. Len(feed)
      BY <1>1
    <3> HIDE DEF mine
    <3> QED  BY <1>1, <3>1, LastIsGreatest
  <2>3. mine # {} => feed'[Last(mine)] = feed[Last(mine)]
    BY <2>2, <1>2
  <2> QED  BY <2>1, <2>3 DEF Position
<1> QED  BY <1>3, <1>4

Chunk == [table : Table, from : Nat, upto : Nat]

\* The readable rows of a sequence of chunks.
RowsOf(chunks) ==
  UNION {{<<chunks[i].table, id>> :
            id \in Between(chunks[i].table, chunks[i].from, chunks[i].upto)} :
         i \in DOMAIN chunks}

LEMMA PendingRows == Pending = RowsOf(batch) /\ Pending' = RowsOf(batch')
  BY DEF Pending, RowsOf

\* A row is in a sequence of chunks if it is between the ends of one of them.
LEMMA RowsOfChunks ==
  ASSUME NEW chunks \in Seq(Chunk)
  PROVE  /\ RowsOf(chunks) \subseteq Table \X Nat
         /\ \A t \in Table, id \in Nat : <<t, id>> \in RowsOf(chunks) <=>
              \E i \in DOMAIN chunks : /\ chunks[i].table = t
                                       /\ chunks[i].from < id /\ id <= chunks[i].upto
                                       /\ Readable(t, id)
<1>1. \A i \in DOMAIN chunks : chunks[i] \in Chunk
  BY SequenceOf, Zenon
<1>2. \A i \in DOMAIN chunks :
        chunks[i].table \in Table /\ chunks[i].from \in Nat /\ chunks[i].upto \in Nat
  BY <1>1 DEF Chunk
<1>3. \A i \in DOMAIN chunks : \A id :
        id \in Between(chunks[i].table, chunks[i].from, chunks[i].upto) <=>
          /\ id \in Nat /\ chunks[i].from < id /\ id <= chunks[i].upto
          /\ Readable(chunks[i].table, id)
  BY <1>2, BetweenIds
<1>4. \A row : row \in RowsOf(chunks) <=>
        \E i \in DOMAIN chunks :
          \E id \in Between(chunks[i].table, chunks[i].from, chunks[i].upto) :
            row = <<chunks[i].table, id>>
  BY DEF RowsOf
<1>5. RowsOf(chunks) \subseteq Table \X Nat
  BY <1>2, <1>3, <1>4
<1>6. ASSUME NEW t \in Table, NEW id \in Nat
      PROVE  <<t, id>> \in RowsOf(chunks) <=>
              \E i \in DOMAIN chunks : /\ chunks[i].table = t
                                       /\ chunks[i].from < id /\ id <= chunks[i].upto
                                       /\ Readable(t, id)
  <2>1. ASSUME <<t, id>> \in RowsOf(chunks)
        PROVE  \E i \in DOMAIN chunks : /\ chunks[i].table = t
                                        /\ chunks[i].from < id /\ id <= chunks[i].upto
                                        /\ Readable(t, id)
    <3>1. PICK i \in DOMAIN chunks :
            \E x \in Between(chunks[i].table, chunks[i].from, chunks[i].upto) :
              <<t, id>> = <<chunks[i].table, x>>
      BY <2>1, <1>4
    <3>2. chunks[i].table = t /\ id \in Between(chunks[i].table, chunks[i].from, chunks[i].upto)
      BY <3>1
    <3> QED  BY <3>2, <1>3
  <2>2. ASSUME NEW i \in DOMAIN chunks, chunks[i].table = t,
               chunks[i].from < id, id <= chunks[i].upto, Readable(t, id)
        PROVE  <<t, id>> \in RowsOf(chunks)
    BY <2>2, <1>3, <1>4
  <2> QED  BY <2>1, <2>2
<1> QED  BY <1>5, <1>6

\* The state of a scan's result: in order, each chunk ending with a readable row.
Ordered(chunks) ==
  /\ \A i \in DOMAIN chunks : /\ chunks[i].from < chunks[i].upto
                              /\ Readable(chunks[i].table, chunks[i].upto)
  /\ \A i, j \in DOMAIN chunks :
       i < j /\ chunks[i].table = chunks[j].table => chunks[i].upto <= chunks[j].from

LEMMA BatchIsOrdered ==
  ASSUME TypeOK, ChunksInOrder
  PROVE  batch \in Seq(Chunk) /\ Ordered(batch)
<1>1. batch \in Seq(Chunk)
  BY TypesOf DEF Chunk
<1>2. \A i \in DOMAIN batch :
        batch[i].table \in Table /\ batch[i].from \in Nat /\ batch[i].upto \in Nat
  BY TypesOf
<1>3. \A i \in DOMAIN batch : batch[i].from < batch[i].upto /\ Readable(batch[i].table, batch[i].upto)
  BY <1>2, BetweenIds DEF ChunksInOrder
<1> QED  BY <1>1, <1>3 DEF ChunksInOrder, Ordered

\* What Push does to the batch: `next` is its first chunk, `id` the row it feeds.
AfterPush(chunks, id) ==
  IF id = chunks[1].upto THEN Tail(chunks) ELSE [chunks EXCEPT ![1].from = id]

\* The row Push feeds is the first of its table, and the only row that leaves.
LEMMA PushTakesOne ==
  ASSUME NEW chunks \in Seq(Chunk), chunks # <<>>, Ordered(chunks),
         NEW id, id = First(Between(chunks[1].table, chunks[1].from, chunks[1].upto))
  PROVE  /\ chunks[1].table \in Table /\ id \in Nat
         /\ chunks[1].from < id /\ id <= chunks[1].upto
         /\ <<chunks[1].table, id>> \in RowsOf(chunks)
         /\ \A other \in Nat : <<chunks[1].table, other>> \in RowsOf(chunks) => id <= other
         /\ AfterPush(chunks, id) \in Seq(Chunk)
         /\ Ordered(AfterPush(chunks, id))
         /\ RowsOf(AfterPush(chunks, id)) = RowsOf(chunks) \ {<<chunks[1].table, id>>}
         /\ \A i \in DOMAIN AfterPush(chunks, id) : \E j \in DOMAIN chunks :
              /\ AfterPush(chunks, id)[i].table = chunks[j].table
              /\ AfterPush(chunks, id)[i].upto = chunks[j].upto
<1> DEFINE t == chunks[1].table  from == chunks[1].from  upto == chunks[1].upto
           after == AfterPush(chunks, id)
<1>1. /\ Len(chunks) \in Nat /\ DOMAIN chunks = 1 .. Len(chunks) /\ 1 \in DOMAIN chunks
      /\ \A i \in DOMAIN chunks : chunks[i] \in Chunk
  OBVIOUS
<1>2. \A i \in DOMAIN chunks :
        chunks[i].table \in Table /\ chunks[i].from \in Nat /\ chunks[i].upto \in Nat
  BY <1>1 DEF Chunk
<1>3. /\ t \in Table /\ from \in Nat /\ upto \in Nat
      /\ from < upto /\ Readable(t, upto)
  BY <1>1, <1>2 DEF Ordered
<1>4. /\ id \in Nat /\ from < id /\ id <= upto /\ Readable(t, id)
      /\ \A other \in Nat : from < other /\ other <= upto /\ Readable(t, other) => id <= other
  <2>1. upto \in Between(t, from, upto)
    BY <1>3, BetweenIds
  <2>2. Between(t, from, upto) # {} /\ Between(t, from, upto) \subseteq Nat
    BY <1>3, <2>1, BetweenIds
  <2>3. id \in Between(t, from, upto) /\ \A x \in Between(t, from, upto) : id <= x
    BY <2>2, FirstIsLeast
  <2> QED  BY <1>3, <2>3, BetweenIds
<1>5. <<t, id>> \in RowsOf(chunks)
  BY <1>1, <1>3, <1>4, RowsOfChunks
<1>6. ASSUME NEW other \in Nat, <<t, other>> \in RowsOf(chunks)
      PROVE  id <= other
  <2>1. PICK i \in DOMAIN chunks : /\ chunks[i].table = t
                                   /\ chunks[i].from < other /\ other <= chunks[i].upto
                                   /\ Readable(t, other)
    BY <1>3, <1>6, RowsOfChunks
  <2>2. CASE i = 1
    BY <2>1, <2>2, <1>4
  <2>3. CASE i # 1
    <3>1. upto <= chunks[i].from
      BY <1>1, <2>1, <2>3 DEF Ordered
    <3> QED  BY <3>1, <2>1, <1>2, <1>3, <1>4
  <2> QED  BY <2>2, <2>3
<1>7. CASE id = upto
  <2>1. after = Tail(chunks)
    BY <1>7 DEF AfterPush
  <2>2. /\ after \in Seq(Chunk) /\ DOMAIN after = 1 .. Len(chunks) - 1
        /\ \A i \in DOMAIN after : i + 1 \in DOMAIN chunks /\ after[i] = chunks[i + 1]
    BY <1>1, <2>1
  <2> HIDE DEF after
  <2>3. Ordered(after)
    BY <1>1, <2>2 DEF Ordered
  <2>4. ASSUME NEW u \in Table, NEW other \in Nat
        PROVE  <<u, other>> \in RowsOf(after) <=>
                 <<u, other>> \in RowsOf(chunks) /\ ~ (u = t /\ other = id)
    <3>1. ASSUME <<u, other>> \in RowsOf(after)
          PROVE  <<u, other>> \in RowsOf(chunks) /\ ~ (u = t /\ other = id)
      <4>1. PICK i \in DOMAIN after : /\ after[i].table = u
                                      /\ after[i].from < other /\ other <= after[i].upto
                                      /\ Readable(u, other)
        BY <3>1, <2>2, RowsOfChunks
      <4>2. <<u, other>> \in RowsOf(chunks)
        BY <4>1, <2>2, RowsOfChunks
      <4>3. u = t => upto <= after[i].from
        BY <4>1, <2>2, <1>1 DEF Ordered
      <4> QED  BY <4>1, <4>2, <4>3, <1>2, <1>3, <1>7, <2>2
    <3>2. ASSUME <<u, other>> \in RowsOf(chunks), ~ (u = t /\ other = id)
          PROVE  <<u, other>> \in RowsOf(after)
      <4>1. PICK i \in DOMAIN chunks : /\ chunks[i].table = u
                                       /\ chunks[i].from < other /\ other <= chunks[i].upto
                                       /\ Readable(u, other)
        BY <3>2, RowsOfChunks
      <4>2. i # 1
        BY <4>1, <3>2, <1>4, <1>7
      <4>3. i - 1 \in DOMAIN after /\ after[i - 1] = chunks[i]
        <5>1. i - 1 \in DOMAIN after
          BY <4>2, <2>2, <1>1
        <5> QED  BY <5>1, <2>2, <1>1
      <4> QED  BY <4>1, <4>3, <2>2, RowsOfChunks
    <3> QED  BY <3>1, <3>2
  <2>5. RowsOf(after) \subseteq Table \X Nat /\ RowsOf(chunks) \subseteq Table \X Nat
    BY <2>2, RowsOfChunks
  <2>6. RowsOf(after) = RowsOf(chunks) \ {<<t, id>>}
    BY <2>4, <2>5
  <2> QED  BY <1>3, <1>4, <1>5, <1>6, <2>2, <2>3, <2>6 DEF after
<1>8. CASE id # upto
  <2>1. after = [chunks EXCEPT ![1].from = id]
    BY <1>8 DEF AfterPush
  <2>2. /\ after \in Seq(Chunk) /\ DOMAIN after = DOMAIN chunks
        /\ after[1] = [chunks[1] EXCEPT !.from = id]
        /\ \A i \in DOMAIN after : i # 1 => after[i] = chunks[i]
    BY <1>1, <1>4, <2>1 DEF Chunk
  <2>3. after[1].table = t /\ after[1].from = id /\ after[1].upto = upto
    BY <1>1, <2>2 DEF Chunk
  <2> HIDE DEF after
  <2>4. \A i \in DOMAIN chunks :
          /\ after[i].table = chunks[i].table /\ after[i].upto = chunks[i].upto
          /\ chunks[i].from <= after[i].from /\ after[i].from \in Nat
          /\ chunks[i].from < chunks[i].upto => after[i].from < after[i].upto
    <3> TAKE i \in DOMAIN chunks
    <3>1. CASE i = 1
      BY <3>1, <1>3, <1>4, <1>8, <2>3
    <3>2. CASE i # 1
      BY <3>2, <1>2, <2>2
    <3> QED  BY <3>1, <3>2
  <2>5. Ordered(after)
    <3>1. ASSUME NEW i \in DOMAIN chunks, NEW j \in DOMAIN chunks,
                 i < j, after[i].table = after[j].table
          PROVE  after[i].upto <= after[j].from
      <4>1. chunks[i].upto <= chunks[j].from
        BY <3>1, <2>4 DEF Ordered
      <4> QED  BY <4>1, <2>4, <1>2
    <3> QED  BY <3>1, <2>2, <2>4 DEF Ordered
  <2>6. ASSUME NEW u \in Table, NEW other \in Nat
        PROVE  <<u, other>> \in RowsOf(after) <=>
                 <<u, other>> \in RowsOf(chunks) /\ ~ (u = t /\ other = id)
    <3>1. ASSUME <<u, other>> \in RowsOf(after)
          PROVE  <<u, other>> \in RowsOf(chunks) /\ ~ (u = t /\ other = id)
      <4>1. PICK i \in DOMAIN after : /\ after[i].table = u
                                      /\ after[i].from < other /\ other <= after[i].upto
                                      /\ Readable(u, other)
        BY <3>1, <2>2, RowsOfChunks
      <4>2. chunks[i].table = u /\ chunks[i].from < other /\ other <= chunks[i].upto
        BY <4>1, <2>2, <2>4, <1>2
      <4>3. u = t => id < other
        <5>1. CASE i = 1
          BY <5>1, <4>1, <2>3
        <5>2. CASE i # 1
          <6>1. u = t => upto <= chunks[i].from
            BY <4>2, <5>2, <2>2, <1>1 DEF Ordered
          <6> QED  BY <6>1, <4>2, <2>2, <1>2, <1>3, <1>4
        <5> QED  BY <5>1, <5>2
      <4>4. <<u, other>> \in RowsOf(chunks)
        BY <4>1, <4>2, <2>2, RowsOfChunks
      <4> QED  BY <4>3, <4>4, <1>4
    <3>2. ASSUME <<u, other>> \in RowsOf(chunks), ~ (u = t /\ other = id)
          PROVE  <<u, other>> \in RowsOf(after)
      <4>1. PICK i \in DOMAIN chunks : /\ chunks[i].table = u
                                       /\ chunks[i].from < other /\ other <= chunks[i].upto
                                       /\ Readable(u, other)
        BY <3>2, RowsOfChunks
      <4>2. after[i].table = u /\ after[i].from < other /\ other <= after[i].upto
        <5>1. CASE i = 1
          <6>1. u = t /\ id <= other
            BY <4>1, <5>1, <1>4
          <6> QED  BY <6>1, <5>1, <4>1, <3>2, <2>3, <1>4
        <5>2. CASE i # 1
          BY <5>2, <4>1, <2>2
        <5> QED  BY <5>1, <5>2
      <4> QED  BY <4>1, <4>2, <2>2, RowsOfChunks
    <3> QED  BY <3>1, <3>2
  <2>7. RowsOf(after) \subseteq Table \X Nat /\ RowsOf(chunks) \subseteq Table \X Nat
    BY <2>2, RowsOfChunks
  <2>8. RowsOf(after) = RowsOf(chunks) \ {<<t, id>>}
    BY <2>6, <2>7
  <2> QED  BY <1>3, <1>4, <1>5, <1>6, <2>2, <2>4, <2>5, <2>8 DEF after
<1> QED  BY <1>7, <1>8

\* Reading one more chunk of a table adds its readable rows.
LEMMA OneMoreChunk ==
  ASSUME NEW chunks \in Seq(Chunk), Ordered(chunks), NEW c \in Chunk,
         c.from < c.upto, Readable(c.table, c.upto),
         \A i \in DOMAIN chunks : chunks[i].table = c.table => chunks[i].upto <= c.from
  PROVE  /\ Append(chunks, c) \in Seq(Chunk) /\ Append(chunks, c) # <<>>
         /\ Ordered(Append(chunks, c))
         /\ \A t \in Table, id \in Nat : <<t, id>> \in RowsOf(Append(chunks, c)) <=>
              \/ <<t, id>> \in RowsOf(chunks)
              \/ t = c.table /\ c.from < id /\ id <= c.upto /\ Readable(t, id)
<1> DEFINE more == Append(chunks, c)
<1>1. /\ Len(chunks) \in Nat /\ DOMAIN chunks = 1 .. Len(chunks)
      /\ DOMAIN more = 1 .. Len(chunks) + 1
      /\ more \in Seq(Chunk) /\ more # <<>> /\ more[Len(chunks) + 1] = c
      /\ \A i \in DOMAIN chunks : more[i] = chunks[i]
  OBVIOUS
<1>2. \A i \in DOMAIN more : i \in DOMAIN chunks \/ i = Len(chunks) + 1
  BY <1>1
<1> HIDE DEF more
<1>3. Ordered(more)
  <2>1. ASSUME NEW i \in DOMAIN more
        PROVE  more[i].from < more[i].upto /\ Readable(more[i].table, more[i].upto)
    BY <1>1, <1>2 DEF Ordered
  <2>2. ASSUME NEW i \in DOMAIN more, NEW j \in DOMAIN more,
               i < j, more[i].table = more[j].table
        PROVE  more[i].upto <= more[j].from
    <3>1. i \in DOMAIN chunks
      BY <1>1, <2>2
    <3>2. CASE j \in DOMAIN chunks
      BY <1>1, <2>2, <3>1, <3>2 DEF Ordered
    <3>3. CASE j = Len(chunks) + 1
      BY <1>1, <2>2, <3>1, <3>3
    <3> QED  BY <1>2, <3>2, <3>3
  <2> QED  BY <2>1, <2>2 DEF Ordered
<1>4. ASSUME NEW t \in Table, NEW id \in Nat
      PROVE  <<t, id>> \in RowsOf(more) <=>
              \/ <<t, id>> \in RowsOf(chunks)
              \/ t = c.table /\ c.from < id /\ id <= c.upto /\ Readable(t, id)
  <2>1. <<t, id>> \in RowsOf(more) <=>
          \E i \in DOMAIN more : /\ more[i].table = t
                                 /\ more[i].from < id /\ id <= more[i].upto /\ Readable(t, id)
    BY <1>1, RowsOfChunks
  <2>2. <<t, id>> \in RowsOf(chunks) <=>
          \E i \in DOMAIN chunks : /\ chunks[i].table = t
                                   /\ chunks[i].from < id /\ id <= chunks[i].upto
                                   /\ Readable(t, id)
    BY RowsOfChunks
  <2> QED  BY <1>1, <1>2, <2>1, <2>2
<1> QED  BY <1>1, <1>3, <1>4 DEF more

\* The new watermark is the last readable row the scan got: between it and how
\* far the scan read nothing is readable.
LEMMA NewWatermarkIsLast ==
  ASSUME TypeOK, NEW t \in Table, NEW upto \in wm[t] .. rows[t]
  PROVE  /\ NewWatermark(t, upto) \in Nat
         /\ wm[t] <= NewWatermark(t, upto) /\ NewWatermark(t, upto) <= upto
         /\ Between(t, wm[t], upto) = {} => NewWatermark(t, upto) = wm[t]
         /\ Between(t, wm[t], upto) # {} =>
              /\ NewWatermark(t, upto) = Last(Between(t, wm[t], upto))
              /\ wm[t] < NewWatermark(t, upto) /\ Readable(t, NewWatermark(t, upto))
<1> DEFINE found == Between(t, wm[t], upto)
<1>1. wm[t] \in Nat /\ rows[t] \in Nat /\ upto \in Nat /\ wm[t] <= upto
  BY TypesOf
<1>2. /\ found \subseteq 0 .. upto
      /\ \A id : id \in found <=> id \in Nat /\ wm[t] < id /\ id <= upto /\ Readable(t, id)
  BY <1>1, BetweenIds
<1>3. NewWatermark(t, upto) = IF found = {} THEN wm[t] ELSE Last(found)
  BY DEF NewWatermark
<1> HIDE DEF found
<1>4. found # {} => Last(found) \in found
  BY <1>1, <1>2, LastIsGreatest
<1>5. CASE found = {}
  BY <1>1, <1>3, <1>5 DEF found
<1>6. CASE found # {}
  BY <1>1, <1>2, <1>3, <1>4, <1>6 DEF found
<1> QED  BY <1>5, <1>6

\* An empty batch has no rows to feed, and an empty feed has fed none.
LEMMA NothingPending ==
  /\ batch = <<>> => Pending = {}
  /\ batch' = <<>> => Pending' = {}
  /\ feed = <<>> => FedNow = {}
  /\ feed' = <<>> => FedNow' = {}
  BY DEF Pending, FedNow

\* What was fed is a set of rows.
LEMMA FedRows ==
  ASSUME TypeOK
  PROVE  /\ FedNow \subseteq Table \X Nat
         /\ \A t \in Table, id \in Nat : feed' = Append(feed, <<t, id>>) =>
              FedNow' = FedNow \cup {<<t, id>>}
<1>1. /\ feed \in Seq(Table \X Nat) /\ Len(feed) \in Nat /\ DOMAIN feed = 1 .. Len(feed)
      /\ \A i \in DOMAIN feed : feed[i] \in Table \X Nat
  BY TypesOf
<1>2. FedNow \subseteq Table \X Nat
  BY <1>1 DEF FedNow
<1>3. ASSUME NEW t \in Table, NEW id \in Nat, feed' = Append(feed, <<t, id>>)
      PROVE  FedNow' = FedNow \cup {<<t, id>>}
  <2>1. /\ DOMAIN feed' = 1 .. Len(feed) + 1
        /\ \A i \in DOMAIN feed : feed'[i] = feed[i]
        /\ feed'[Len(feed) + 1] = <<t, id>>
    BY <1>1, <1>3
  <2>2. \A row : row \in FedNow' <=> \E i \in DOMAIN feed' : row = feed'[i]
    BY DEF FedNow
  <2>3. \A row : row \in FedNow <=> \E i \in DOMAIN feed : row = feed[i]
    BY DEF FedNow
  <2>4. \A i \in DOMAIN feed' : i \in DOMAIN feed \/ i = Len(feed) + 1
    BY <2>1, <1>1
  <2>5. \A i \in DOMAIN feed : i \in DOMAIN feed'
    BY <2>1, <1>1
  <2>6. Len(feed) + 1 \in DOMAIN feed'
    BY <2>1, <1>1
  <2>7. ASSUME NEW row
        PROVE  row \in FedNow' <=> row \in FedNow \cup {<<t, id>>}
    BY <2>1, <2>2, <2>3, <2>4, <2>5, <2>6, Zenon
  <2> QED  BY <2>7
<1> QED  BY <1>2, <1>3

-----------------------------------------------------------------------------
(***************************************************************************)
(* Types                                                                   *)
(***************************************************************************)

\* The program starts with nothing saved, read or fed.
LEMMA InitIInv == Init => IInv
<1> SUFFICES ASSUME Init PROVE IInv
  OBVIOUS
<1>1. None \in [Table -> Nat] /\ \A t \in Table : None[t] = 0
  BY DEF None
<1>2. rows \in [Table -> Nat]
  <2>1. UNION {0 .. MaxRow[t] : t \in Table} \subseteq Nat
    BY IngestAssumption
  <2> QED  BY <2>1 DEF Init
<1>3. TypeOK
  <2>1. batch \in Seq([table : Table, from : Nat, upto : Nat]) /\ feed \in Seq(Table \X Nat)
    BY DEF Init
  <2>2. {rows, disk, watermarks, wm, start, baseline, existing} \subseteq [Table -> Nat]
    BY <1>1, <1>2 DEF Init
  <2>3. /\ attempts \in 0 .. MaxAttempts /\ crashes \in 0 .. MaxCrash
        /\ failures \in 0 .. MaxFail
    BY IngestAssumption DEF Init
  <2> QED  BY <2>1, <2>2, <2>3 DEF Init, TypeOK
<1>4. /\ disk = None /\ watermarks = None /\ wm = None /\ start = None /\ baseline = None
      /\ pc = "down" /\ batch = <<>> /\ feed = <<>> /\ past = {} /\ FedNow = {}
  BY NothingPending DEF Init
<1>5. BootCounts /\ Phases
  BY IngestAssumption DEF Init, BootCounts, Phases, Serving
<1>6. WatermarksInOrder
  BY <1>1, <1>2, <1>4 DEF WatermarksInOrder
<1>7. ChunksInOrder /\ PendingIsTheGap
  BY <1>4 DEF ChunksInOrder, PendingIsTheGap, Serving
<1>8. FeedGoesUp
  BY <1>1, <1>4, PositionAtStart DEF FeedGoesUp
<1>9. MemoryAccounted /\ Accounted
  <2>1. \A t \in Table : Between(t, 0, 0) = {}
    BY BetweenIds
  <2> QED  BY <1>1, <1>4, <2>1 DEF MemoryAccounted, Accounted
<1>10. FedIsSaved
  BY <1>4 DEF FedIsSaved, Serving
<1> QED  BY <1>3, <1>5, <1>6, <1>7, <1>8, <1>9, <1>10 DEF IInv

\* A failure more is still within the bound.
LEMMA FailureCounted ==
  ASSUME TypeOK, NEW failed \in BOOLEAN, FailsIf(failed)
  PROVE  failures' \in 0 .. MaxFail
<1>1. failures \in Nat /\ MaxFail \in Nat
  BY IngestAssumption DEF TypeOK
<1>2. failures' \in Nat /\ failures' <= MaxFail
  BY <1>1 DEF FailsIf
<1> QED  BY <1>1, <1>2

\* Opening connections gives connections, and counts the failures.
LEMMA OpenAllTypes ==
  ASSUME TypeOK, NEW kept \in SUBSET Db, OpenAll(kept)
  PROVE  conns' \in SUBSET Db /\ failures' \in 0 .. MaxFail
<1>1. PICK failed \in SUBSET ((files \cap keys) \ kept) :
        FailsIf(failed # {}) /\ conns' = kept \cup ((files \cap keys) \ failed)
  BY DEF OpenAll
<1>2. failures' \in 0 .. MaxFail
  BY <1>1, FailureCounted
<1>3. files \in SUBSET Db
  BY DEF TypeOK
<1> QED  BY <1>1, <1>2, <1>3

LEMMA EnsureTypes ==
  ASSUME TypeOK, EnsureMsgConns
  PROVE  /\ conns' \in SUBSET Db /\ failures' \in 0 .. MaxFail
         /\ known_keys' \in SUBSET Db
<1>1. (IF known_keys # keys THEN {} ELSE conns) \in SUBSET Db
  BY DEF TypeOK
<1>2. OpenAll(IF known_keys # keys THEN {} ELSE conns) /\ known_keys' = keys
  BY DEF EnsureMsgConns
<1> QED  BY <1>1, <1>2, OpenAllTypes DEF TypeOK

\* Push feeds the first row that is pending in its table, and nothing else leaves
\* the batch.
LEMMA PushEffect ==
  ASSUME TypeOK, Phases, ChunksInOrder, Push
  PROVE  \E t \in Table, id \in Nat :
           /\ pc = "feed" /\ feed' = Append(feed, <<t, id>>)
           /\ <<t, id>> \in Pending /\ id <= wm[t]
           /\ \A other \in Nat : <<t, other>> \in Pending => id <= other
           /\ Pending' = Pending \ {<<t, id>>}
           /\ batch' \in Seq(Chunk) /\ Ordered(batch')
           /\ \A i \in DOMAIN batch' :
                batch'[i].table \in Table /\ batch'[i].upto <= wm[batch'[i].table]
           /\ pc' = IF batch' = <<>> THEN "idle" ELSE "feed"
           /\ UNCHANGED <<files, rows, keys, disk, attempts, rekeyed, old_keys, conns,
                          known_keys, watermarks, wm, dbs, todo, crashes, failures, start,
                          past, lost, baseline, existing, save_failed>>
<1> DEFINE t == batch[1].table
           id == First(Between(t, batch[1].from, batch[1].upto))
<1>1. batch \in Seq(Chunk) /\ Ordered(batch)
  BY BatchIsOrdered
<1>2. pc = "feed" /\ batch # <<>>
  BY DEF Push, Phases
<1>3. Head(batch) = batch[1] /\ 1 \in DOMAIN batch
  BY <1>1, <1>2
<1>4. /\ feed' = Append(feed, <<t, id>>)
      /\ batch' = AfterPush(batch, id)
      /\ pc' = IF batch' = <<>> THEN "idle" ELSE "feed"
      /\ UNCHANGED <<files, rows, keys, disk, attempts, rekeyed, old_keys, conns,
                     known_keys, watermarks, wm, dbs, todo, crashes, failures, start,
                     past, lost, baseline, existing, save_failed>>
  BY <1>3 DEF Push, AfterPush, outside, boot, connections
<1>5. /\ t \in Table /\ id \in Nat
      /\ batch[1].from < id /\ id <= batch[1].upto
      /\ <<t, id>> \in RowsOf(batch)
      /\ \A other \in Nat : <<t, other>> \in RowsOf(batch) => id <= other
      /\ AfterPush(batch, id) \in Seq(Chunk)
      /\ Ordered(AfterPush(batch, id))
      /\ RowsOf(AfterPush(batch, id)) = RowsOf(batch) \ {<<t, id>>}
      /\ \A i \in DOMAIN AfterPush(batch, id) : \E j \in DOMAIN batch :
           /\ AfterPush(batch, id)[i].table = batch[j].table
           /\ AfterPush(batch, id)[i].upto = batch[j].upto
  BY <1>1, <1>2, PushTakesOne, Zenon
<1>6. \A i \in DOMAIN batch : batch[i].table \in Table /\ batch[i].upto <= wm[batch[i].table]
  BY TypesOf DEF ChunksInOrder
<1>7. id <= wm[t]
  <2>1. batch[1].upto <= wm[t] /\ batch[1].upto \in Nat /\ wm[t] \in Nat
    BY <1>3, <1>5, <1>6, TypesOf
  <2> HIDE DEF t, id
  <2> QED  BY <1>5, <2>1
<1> HIDE DEF t, id
<1>8. \A i \in DOMAIN batch' :
        batch'[i].table \in Table /\ batch'[i].upto <= wm[batch'[i].table]
  BY <1>4, <1>5, <1>6, Zenon
<1>9. Pending = RowsOf(batch) /\ Pending' = RowsOf(batch')
  BY PendingRows
<1>10. /\ <<t, id>> \in Pending /\ Pending' = Pending \ {<<t, id>>}
       /\ \A other \in Nat : <<t, other>> \in Pending => id <= other
       /\ batch' \in Seq(Chunk) /\ Ordered(batch')
  BY <1>4, <1>5, <1>9, Zenon
<1> QED  BY <1>2, <1>4, <1>5, <1>7, <1>8, <1>10, Zenon

\* Types are kept by every step.
LEMMA TypeNext == TypeOK /\ BootCounts /\ Phases /\ ChunksInOrder /\ [Next]_vars => TypeOK'
<1> SUFFICES ASSUME TypeOK, BootCounts, Phases, ChunksInOrder, [Next]_vars
             PROVE  TypeOK'
  OBVIOUS
<1> USE DEF outside, scan, boot, connections, history
<1>1. None \in [Table -> Nat]
  BY DEF None
<1>2. ASSUME NEW t \in Table, Insert(t) PROVE TypeOK'
  <2>1. rows' \in [Table -> Nat]
    BY <1>2, TypesOf DEF Insert
  <2> QED  BY <1>2, <2>1 DEF Insert, TypeOK
<1>3. ASSUME NEW d \in Db, CreateDb(d) PROVE TypeOK'
  BY <1>3 DEF CreateDb, TypeOK
<1>4. ASSUME NEW found \in SUBSET Db, UpdateKeyMap(found) PROVE TypeOK'
  BY <1>4 DEF UpdateKeyMap, TypeOK
<1>5. CASE Boot \/ Rekey
  <2>1. OpenAll({})
    BY <1>5 DEF Boot, Rekey, NewManager
  <2>2. conns' \in SUBSET Db /\ failures' \in 0 .. MaxFail
    BY <2>1, OpenAllTypes
  <2>3. CASE Boot
    BY <2>2, <2>3 DEF Boot, NewManager, TypeOK
  <2>4. CASE Rekey
    BY <2>2, <2>4 DEF Rekey, NewManager, TypeOK
  <2> QED  BY <1>5, <2>3, <2>4
<1>6. CASE NoteKeyMap
  BY <1>6 DEF NoteKeyMap, TypeOK
<1>7. CASE BeginMark
  <2>1. conns' \in SUBSET Db /\ failures' \in 0 .. MaxFail /\ known_keys' \in SUBSET Db
    BY <1>7, EnsureTypes DEF BeginMark
  <2> QED  BY <1>1, <1>7, <2>1 DEF BeginMark, TypeOK
<1>8. CASE FailMark
  <2>1. conns' \in SUBSET Db /\ failures' \in 0 .. MaxFail /\ known_keys' \in SUBSET Db
    BY <1>8, EnsureTypes DEF FailMark
  <2>2. attempts' \in 0 .. MaxAttempts
    <3>1. attempts \in 0 .. MaxAttempts /\ MaxAttempts \in Nat
      BY IngestAssumption DEF TypeOK
    <3>2. ~ rekeyed => attempts < MaxAttempts
      BY <1>8 DEF FailMark, BootCounts
    <3>3. attempts' = IF rekeyed THEN attempts ELSE attempts + 1
      BY <1>8 DEF FailMark
    <3> QED  BY <3>1, <3>2, <3>3
  <2>3. pc' \in {"marking", "unmarked", "ready"}
    BY <1>8 DEF FailMark
  <2> QED  BY <1>8, <2>1, <2>2, <2>3 DEF FailMark, TypeOK
<1>9. CASE NoteOldKeyMap \/ GiveUpOnKey \/ Listen
  BY <1>9 DEF NoteOldKeyMap, GiveUpOnKey, Listen, TypeOK
<1>10. ASSUME NEW t \in Table, MarkTable(t) PROVE TypeOK'
  <2>1. PICK failed \in BOOLEAN :
          FailsIf(failed) /\ wm' = [wm EXCEPT ![t] = IF failed THEN 0 ELSE rows[t]]
    BY <1>10 DEF MarkTable
  <2>2. wm' \in [Table -> Nat] /\ failures' \in 0 .. MaxFail
    BY <2>1, TypesOf, FailureCounted
  <2>3. /\ UNCHANGED <<files, rows, keys, disk, pc, boot, connections, watermarks, dbs,
                       batch, crashes, history>>
        /\ todo' = todo \ {t}
    BY <1>10 DEF MarkTable
  <2> QED  BY <2>2, <2>3 DEF TypeOK
<1>11. CASE CommitMark
  <2>1. baseline' \in [Table -> Nat]
    BY <1>11, TypesOf DEF CommitMark
  <2> QED  BY <1>11, <2>1 DEF CommitMark, TypeOK
<1>12. CASE BeginPoll
  <2>1. conns' \in SUBSET Db /\ failures' \in 0 .. MaxFail /\ known_keys' \in SUBSET Db
    BY <1>12, EnsureTypes DEF BeginPoll
  <2> QED  BY <1>12, <2>1 DEF BeginPoll, TypeOK
<1>13. ASSUME NEW d \in Db, VisitDb(d) PROVE TypeOK'
  <2>1. PICK failed \in BOOLEAN :
          /\ FailsIf(failed)
          /\ todo' = IF failed THEN {} ELSE {t \in Table : DbOf[t] = d /\ rows[t] > 0}
    BY <1>13 DEF VisitDb
  <2>2. todo' \in SUBSET Table /\ failures' \in 0 .. MaxFail
    BY <2>1, FailureCounted
  <2> QED  BY <1>13, <2>2 DEF VisitDb, TypeOK
<1>14. ASSUME NEW t \in Table, ScanTable(t) PROVE TypeOK'
  <2>1. PICK upto \in wm[t] .. rows[t] :
          LET found == Between(t, wm[t], upto)
          IN  /\ FailsIf(upto # rows[t])
              /\ wm' = [wm EXCEPT ![t] = NewWatermark(t, upto)]
              /\ batch' = IF found = {} THEN batch
                          ELSE Append(batch, [table |-> t, from |-> wm[t], upto |-> Last(found)])
    BY <1>14 DEF ScanTable
  <2>2. /\ NewWatermark(t, upto) \in Nat
        /\ Between(t, wm[t], upto) # {} => Last(Between(t, wm[t], upto)) \in Nat
    BY NewWatermarkIsLast
  <2>3. wm' \in [Table -> Nat]
    BY <2>1, <2>2, TypesOf
  <2>4. batch' \in Seq(Chunk)
    <3> DEFINE c == [table |-> t, from |-> wm[t], upto |-> Last(Between(t, wm[t], upto))]
    <3>1. Between(t, wm[t], upto) # {} => c \in Chunk
      BY <2>2, TypesOf DEF Chunk
    <3>2. batch' = IF Between(t, wm[t], upto) = {} THEN batch ELSE Append(batch, c)
      BY <2>1
    <3>3. batch \in Seq(Chunk)
      BY TypesOf DEF Chunk
    <3> HIDE DEF c
    <3> QED  BY <3>1, <3>2, <3>3
  <2>5. failures' \in 0 .. MaxFail
    BY <2>1, FailureCounted
  <2>6. batch' \in Seq([table : Table, from : Nat, upto : Nat])
    BY <2>4 DEF Chunk
  <2>7. /\ UNCHANGED <<files, rows, keys, disk, pc, boot, connections, watermarks, dbs,
                       crashes, history>>
        /\ todo' \in SUBSET Table
    BY <1>14 DEF ScanTable, TypeOK
  <2> QED  BY <2>3, <2>5, <2>6, <2>7 DEF TypeOK
<1>15. CASE CommitPoll
  BY <1>15 DEF CommitPoll, TypeOK
<1>16. CASE Save
  <2>1. PICK failed \in BOOLEAN :
          /\ FailsIf(failed) /\ disk' = (IF failed THEN disk ELSE wm)
          /\ save_failed' = (save_failed \/ failed)
    BY <1>16 DEF Save
  <2>2. failures' \in 0 .. MaxFail /\ disk' \in [Table -> Nat]
    BY <2>1, TypesOf, FailureCounted
  <2>3. save_failed' \in BOOLEAN
    BY <2>1
  <2> QED  BY <1>16, <2>2, <2>3 DEF Save, TypeOK
<1>17. CASE Push
  <2>1. PICK t \in Table, id \in Nat : feed' = Append(feed, <<t, id>>) /\ batch' \in Seq(Chunk)
    BY <1>17, PushEffect, Zenon
  <2>2. feed' \in Seq(Table \X Nat)
    <3>1. feed \in Seq(Table \X Nat) /\ <<t, id>> \in Table \X Nat
      BY TypesOf
    <3> QED  BY <2>1, <3>1
  <2>3. pc' \in {"idle", "feed"}
    BY <1>17 DEF Push
  <2>4. batch' \in Seq([table : Table, from : Nat, upto : Nat])
    BY <2>1 DEF Chunk
  <2>5. UNCHANGED <<files, rows, keys, disk, boot, connections, watermarks, wm, dbs, todo,
                    crashes, failures, start, past, lost, baseline, existing, save_failed>>
    BY <1>17 DEF Push
  <2> QED  BY <2>2, <2>3, <2>4, <2>5 DEF TypeOK
<1>18. CASE QueryHistory
  <2>1. conns' \in SUBSET Db /\ failures' \in 0 .. MaxFail /\ known_keys' \in SUBSET Db
    BY <1>18, EnsureTypes DEF QueryHistory
  <2> QED  BY <1>18, <2>1 DEF QueryHistory, TypeOK
<1>19. CASE Crash
  <2>1. FedNow \subseteq Table \X Nat
    BY FedRows
  <2>2. Pending \subseteq Table \X Nat
    BY PendingRows, RowsOfChunks, BatchIsOrdered
  <2>3. past' \in SUBSET (Table \X Nat) /\ lost' \in SUBSET (Table \X Nat)
    BY <1>19, <2>1, <2>2 DEF Crash, TypeOK
  <2>4. crashes' \in 0 .. MaxCrash
    BY <1>19, IngestAssumption DEF Crash, TypeOK
  <2>5. batch' \in Seq([table : Table, from : Nat, upto : Nat]) /\ feed' \in Seq(Table \X Nat)
    BY <1>19 DEF Crash
  <2>6. attempts' \in 0 .. MaxAttempts
    BY <1>19, IngestAssumption DEF Crash
  <2>7. {rows', disk', watermarks', wm', start', baseline', existing'} \subseteq [Table -> Nat]
    BY <1>1, <1>19 DEF Crash, TypeOK
  <2> QED  BY <1>19, <2>3, <2>4, <2>5, <2>6, <2>7 DEF Crash, TypeOK
<1>20. CASE UNCHANGED vars
  BY <1>20 DEF vars, TypeOK
<1> QED  BY <1>2, <1>3, <1>4, <1>5, <1>6, <1>7, <1>8, <1>9, <1>10, <1>11, <1>12, <1>13,
            <1>14, <1>15, <1>16, <1>17, <1>18, <1>19, <1>20
         DEF Next, Environment, Booting, Listening

-----------------------------------------------------------------------------
(***************************************************************************)
(* The environment, and boot                                               *)
(***************************************************************************)

\* A step that only lets tables grow, or looks at databases, keeps all.
LEMMA QuietStepKeepsIInv ==
  ASSUME IInv, TypeOK', \A t \in Table : rows[t] <= rows'[t],
         UNCHANGED <<disk, pc, attempts, rekeyed, watermarks, wm, batch, feed, start, past,
                     lost, baseline, save_failed>>
  PROVE  IInv'
<1> USE DEF IInv
<1>1. /\ Pending' = Pending /\ FedNow' = FedNow /\ Serving' = Serving
      /\ \A t \in Table : Position(t)' = Position(t) /\ ReadUpTo(t)' = ReadUpTo(t)
  BY DEF Pending, FedNow, Serving, Position, ReadUpTo
<1>2. BootCounts'
  BY DEF BootCounts
<1>3. Phases'
  BY <1>1 DEF Phases
<1>4. WatermarksInOrder'
  <2>1. \A t \in Table : /\ rows'[t] \in Nat /\ rows[t] \in Nat /\ disk[t] \in Nat
                         /\ watermarks[t] \in Nat /\ wm[t] \in Nat
    <3>1. rows' \in [Table -> Nat]
      BY DEF TypeOK
    <3> QED  BY <3>1, TypesOf
  <2> QED  BY <2>1 DEF WatermarksInOrder
<1>5. ChunksInOrder'
  BY DEF ChunksInOrder
<1>6. PendingIsTheGap'
  BY <1>1 DEF PendingIsTheGap
<1>7. FeedGoesUp'
  BY <1>1 DEF FeedGoesUp
<1>8. MemoryAccounted' /\ Accounted'
  BY <1>1 DEF MemoryAccounted, Accounted, Handled
<1>9. FedIsSaved'
  BY <1>1 DEF FedIsSaved
<1> QED  BY <1>2, <1>3, <1>4, <1>5, <1>6, <1>7, <1>8, <1>9

\* Before the listener runs nothing is read and nothing fed.
LEMMA NothingRead ==
  ASSUME TypeOK', batch' = <<>>, feed' = <<>>, start' = None, ~ Serving'
  PROVE  ChunksInOrder' /\ PendingIsTheGap' /\ FeedGoesUp' /\ FedNow' = {}
<1>1. ChunksInOrder' /\ PendingIsTheGap'
  BY DEF ChunksInOrder, PendingIsTheGap
<1>2. \A t \in Table : Position(t)' = 0 /\ start'[t] = 0
  BY PositionAtStartNext DEF None
<1>3. FeedGoesUp'
  BY <1>2 DEF FeedGoesUp
<1> QED  BY <1>1, <1>3, NothingPending

\* A step of boot that saves nothing: the watermarks in memory stay, are those
\* saved, or cover rows that are marked as read.
LEMMA BootStepKeepsIInv ==
  ASSUME IInv, TypeOK', ~ Serving, ~ Serving',
         UNCHANGED <<rows, disk, batch, feed, start, past, lost, save_failed>>,
         BootCounts', Phases', WatermarksInOrder',
         \A t \in Table : baseline[t] <= baseline'[t],
         \A t \in Table : watermarks'[t] \in {watermarks[t], disk[t]}
                            \/ watermarks'[t] <= baseline'[t]
  PROVE  IInv'
<1> USE DEF IInv
<1>1. feed = <<>> /\ start = None /\ batch = <<>>
  BY DEF Phases, Serving
<1>2. ChunksInOrder' /\ PendingIsTheGap' /\ FeedGoesUp' /\ FedNow' = {} /\ FedNow = {}
  BY <1>1, NothingRead, NothingPending
<1>3. pc \notin {"save", "feed"} /\ pc' \notin {"save", "feed"}
  BY DEF Serving
<1>4. ASSUME NEW t \in Table
      PROVE  /\ rows[t] \in Nat /\ disk[t] \in Nat /\ watermarks[t] \in Nat
             /\ watermarks'[t] \in Nat /\ baseline[t] \in Nat /\ baseline'[t] \in Nat
  <2>1. watermarks' \in [Table -> Nat] /\ baseline' \in [Table -> Nat]
    BY DEF TypeOK
  <2> QED  BY <2>1, TypesOf
<1>5. \A t \in Table, id \in Nat : Handled(t, id) => Handled(t, id)'
  BY <1>2, <1>4 DEF Handled
<1>6. Accounted'
  <2> SUFFICES ASSUME NEW t \in Table, NEW id \in Between(t, 0, disk[t])
               PROVE  Handled(t, id)'
    BY DEF Accounted, Handled
  <2>1. id \in Nat
    BY <1>4, BetweenIds
  <2>2. Handled(t, id)
    BY <1>3 DEF Accounted, Handled
  <2> QED  BY <1>5, <2>1, <2>2
<1>7. MemoryAccounted'
  <2> SUFFICES ASSUME NEW t \in Table, NEW id \in Between(t, 0, watermarks'[t])
               PROVE  Handled(t, id)'
    BY DEF MemoryAccounted
  <2>1. id \in Nat /\ id <= watermarks'[t]
    BY <1>4, BetweenIds
  <2>2. CASE watermarks'[t] = watermarks[t]
    <3>1. Handled(t, id)
      BY <1>3, <2>2 DEF MemoryAccounted
    <3> QED  BY <1>5, <2>1, <3>1
  <2>3. CASE watermarks'[t] = disk[t]
    <3>1. Handled(t, id)
      BY <1>3, <2>3 DEF Accounted, Handled
    <3> QED  BY <1>5, <2>1, <3>1
  <2>4. CASE watermarks'[t] <= baseline'[t]
    BY <1>4, <2>1, <2>4 DEF Handled
  <2> QED  BY <2>2, <2>3, <2>4
<1>8. FedIsSaved'
  BY <1>2 DEF FedIsSaved, Serving
<1> QED  BY <1>2, <1>6, <1>7, <1>8

\* The watermarks in memory and those saved are no further than their tables.
LEMMA WatermarkTypes ==
  ASSUME TypeOK, TypeOK', NEW t \in Table
  PROVE  /\ rows[t] \in Nat /\ disk[t] \in Nat /\ watermarks[t] \in Nat /\ wm[t] \in Nat
         /\ rows'[t] \in Nat /\ disk'[t] \in Nat /\ watermarks'[t] \in Nat /\ wm'[t] \in Nat
         /\ baseline[t] \in Nat /\ baseline'[t] \in Nat /\ start[t] \in Nat
         /\ None[t] = 0
<1>1. /\ rows' \in [Table -> Nat] /\ disk' \in [Table -> Nat] /\ watermarks' \in [Table -> Nat]
      /\ wm' \in [Table -> Nat] /\ baseline' \in [Table -> Nat]
  BY DEF TypeOK
<1> QED  BY <1>1, TypesOf DEF None

\* The steps of boot that save nothing.
LEMMA BootKeepsIInv ==
  ASSUME IInv, TypeOK',
         \/ Boot \/ NoteKeyMap \/ BeginMark \/ FailMark \/ CommitMark
         \/ NoteOldKeyMap \/ Rekey \/ GiveUpOnKey
         \/ \E t \in Table : MarkTable(t)
  PROVE  IInv'
<1> USE DEF IInv, outside, scan, boot, connections, history
<1>1. ~ Serving => feed = <<>> /\ start = None /\ batch = <<>>
  BY DEF Phases, Serving
<1>2. \A t \in Table : watermarks[t] = watermarks[t] /\ baseline[t] <= baseline[t]
  BY TypesOf
<1>3. CASE Boot \/ Rekey
  <2>1. /\ pc \in {"down", "keywait"} /\ pc' = "opened" /\ watermarks' = disk
        /\ UNCHANGED <<rows, disk, wm, batch, feed, start, past, lost, baseline, save_failed>>
        /\ rekeyed' => disk = None
    BY <1>3 DEF Boot, Rekey, NewManager, BootCounts, Phases
  <2>2. BootCounts'
    BY <1>3, IngestAssumption DEF Boot, Rekey, NewManager, BootCounts
  <2>3. Phases'
    BY <1>1, <2>1 DEF Phases, Serving
  <2>4. WatermarksInOrder'
    BY <2>1, WatermarkTypes DEF WatermarksInOrder
  <2> QED  BY <1>2, <2>1, <2>2, <2>3, <2>4, BootStepKeepsIInv DEF Serving
<1>4. CASE NoteKeyMap \/ FailMark \/ NoteOldKeyMap \/ GiveUpOnKey
  <2>1. /\ pc \in {"opened", "marking", "unmarked", "keywait"}
        /\ UNCHANGED <<rows, disk, watermarks, wm, batch, feed, start, past, lost, baseline,
                       save_failed, rekeyed>>
        /\ pc = "opened" => /\ pc' \in {"ready", "marking"}
                            /\ pc' = "marking" => watermarks = None \/ rekeyed
        /\ pc = "opened" => attempts' = attempts
        /\ pc = "marking" => /\ pc' \in {"marking", "unmarked", "ready"}
                             /\ pc' = "marking" => attempts' # MaxAttempts
        /\ pc \in {"unmarked", "keywait"} => pc' \in {"keywait", "ready"}
    BY <1>4, IngestAssumption DEF NoteKeyMap, FailMark, NoteOldKeyMap, GiveUpOnKey
  <2>2. BootCounts'
    <3>1. attempts' \in 0 .. MaxAttempts /\ MaxAttempts \in Nat
      BY IngestAssumption DEF TypeOK
    <3> QED  BY <2>1, <3>1 DEF BootCounts
  <2>3. Phases'
    BY <1>1, <2>1 DEF Phases, Serving
  <2>4. WatermarksInOrder'
    BY <2>1, WatermarkTypes DEF WatermarksInOrder
  <2> QED  BY <1>2, <2>1, <2>2, <2>3, <2>4, BootStepKeepsIInv DEF Serving
<1>5. CASE BeginMark \/ \E t \in Table : MarkTable(t)
  <2>1. /\ pc \in {"marking", "mark"} /\ pc' = "mark"
        /\ UNCHANGED <<rows, disk, watermarks, batch, feed, start, past, lost, baseline,
                       save_failed, rekeyed, attempts>>
    BY <1>5 DEF BeginMark, MarkTable
  <2>2. \A t \in Table : wm'[t] <= rows[t]
    <3>1. CASE BeginMark
      BY <3>1, WatermarkTypes DEF BeginMark
    <3>2. ASSUME NEW u \in Table, MarkTable(u)
          PROVE  \A t \in Table : wm'[t] <= rows[t]
      <4>1. PICK failed \in BOOLEAN : wm' = [wm EXCEPT ![u] = IF failed THEN 0 ELSE rows[u]]
        BY <3>2 DEF MarkTable
      <4>2. wm \in [Table -> Nat]
        BY TypesOf
      <4> QED  BY <4>1, <4>2, WatermarkTypes DEF WatermarksInOrder
    <3> QED  BY <1>5, <3>1, <3>2
  <2>3. BootCounts' /\ Phases'
    BY <1>1, <2>1 DEF BootCounts, Phases, Serving
  <2>4. WatermarksInOrder'
    BY <2>1, <2>2, WatermarkTypes DEF WatermarksInOrder
  <2> QED  BY <1>2, <2>1, <2>3, <2>4, BootStepKeepsIInv DEF Serving
<1>6. CASE CommitMark
  <2>1. /\ pc = "mark" /\ pc' = "marksave" /\ watermarks' = wm
        /\ baseline' = [t \in Table |-> IF wm[t] > baseline[t] THEN wm[t] ELSE baseline[t]]
        /\ UNCHANGED <<rows, disk, wm, batch, feed, start, past, lost, save_failed, rekeyed,
                       attempts>>
    BY <1>6 DEF CommitMark
  <2>2. \A t \in Table : baseline[t] <= baseline'[t] /\ watermarks'[t] <= baseline'[t]
    BY <2>1, WatermarkTypes
  <2>3. BootCounts' /\ Phases'
    BY <1>1, <2>1 DEF BootCounts, Phases, Serving
  <2>4. WatermarksInOrder'
    BY <2>1, WatermarkTypes DEF WatermarksInOrder, Phases
  <2> QED  BY <2>1, <2>2, <2>3, <2>4, BootStepKeepsIInv DEF Serving
<1> QED  BY <1>3, <1>4, <1>5, <1>6

\* Saving what was marked as read: nothing was saved before.
LEMMA SaveMarksKeepsIInv ==
  ASSUME IInv, TypeOK', Save, pc = "marksave"
  PROVE  IInv'
<1> USE DEF IInv, outside, scan, boot, connections
<1>1. /\ pc' = "ready" /\ watermarks = wm /\ disk = None /\ disk' \in {None, wm}
      /\ batch = <<>> /\ feed = <<>> /\ start = None
      /\ UNCHANGED <<rows, watermarks, wm, batch, feed, start, past, lost, baseline, rekeyed,
                     attempts>>
      /\ save_failed => save_failed'
  BY DEF Save, Phases, Serving
<1>2. ChunksInOrder' /\ PendingIsTheGap' /\ FeedGoesUp' /\ FedNow' = {} /\ FedNow = {}
  BY <1>1, NothingRead, NothingPending DEF Serving
<1>3. BootCounts' /\ Phases'
  BY <1>1 DEF BootCounts, Phases, Serving
<1>4. WatermarksInOrder'
  BY <1>1, WatermarkTypes DEF WatermarksInOrder
<1>5. MemoryAccounted'
  BY <1>1, <1>2 DEF MemoryAccounted, Handled
<1>6. Accounted'
  <2> SUFFICES ASSUME NEW t \in Table, NEW id \in Between(t, 0, disk'[t])
               PROVE  Handled(t, id)'
    BY DEF Accounted, Handled
  <2>1. id \in Between(t, 0, watermarks[t])
    <3>1. disk'[t] <= watermarks[t]
      BY <1>1, WatermarkTypes
    <3> QED  BY <3>1, BetweenIds, WatermarkTypes
  <2>2. Handled(t, id)
    BY <1>1, <2>1 DEF MemoryAccounted
  <2> QED  BY <1>1, <1>2, <2>2 DEF Handled
<1>7. FedIsSaved'
  <2> SUFFICES ASSUME ~ save_failed', NEW row \in past
               PROVE  row[2] <= disk'[row[1]]
    BY <1>1, <1>2 DEF FedIsSaved, Serving
  <2>1. row[1] \in Table /\ row[2] \in Nat
    BY DEF TypeOK
  <2>2. row[2] <= disk[row[1]]
    BY <1>1 DEF FedIsSaved
  <2> QED  BY <1>1, <2>1, <2>2, WatermarkTypes
<1> QED  BY <1>2, <1>3, <1>4, <1>5, <1>6, <1>7

\* The listener starts from the watermarks in memory.
LEMMA ListenKeepsIInv ==
  ASSUME IInv, TypeOK', Listen
  PROVE  IInv'
<1> USE DEF IInv, outside, scan, boot, connections
<1>1. /\ pc = "ready" /\ pc' = "idle" /\ start' = watermarks
      /\ batch = <<>> /\ feed = <<>>
      /\ UNCHANGED <<rows, disk, watermarks, wm, batch, feed, past, lost, baseline, rekeyed,
                     attempts, save_failed>>
  BY DEF Listen, Phases, Serving
<1>2. FedNow' = {} /\ FedNow = {} /\ Pending' = {}
  BY <1>1, NothingPending
<1>3. BootCounts' /\ Phases'
  BY <1>1 DEF BootCounts, Phases, Serving
<1>4. WatermarksInOrder' /\ ChunksInOrder'
  BY <1>1 DEF WatermarksInOrder, ChunksInOrder
<1>5. \A t \in Table : Position(t)' = watermarks[t]
  BY <1>1, PositionAtStartNext
<1>6. PendingIsTheGap'
  <2>1. \A t \in Table : ReadUpTo(t)' = watermarks[t]
    BY <1>1 DEF ReadUpTo
  <2>2. \A t \in Table : Between(t, watermarks[t], watermarks[t]) = {}
    BY WatermarkTypes, BetweenIds
  <2> QED  BY <1>1, <1>2, <1>5, <2>1, <2>2, WatermarkTypes DEF PendingIsTheGap
<1>7. FeedGoesUp'
  BY <1>1, <1>5, WatermarkTypes DEF FeedGoesUp
<1>8. MemoryAccounted' /\ Accounted'
  BY <1>1, <1>2 DEF MemoryAccounted, Accounted, Handled
<1>9. FedIsSaved'
  <2> SUFFICES ASSUME ~ save_failed, NEW row \in past
               PROVE  row[2] <= disk[row[1]] /\ row[2] <= watermarks[row[1]]
    BY <1>1, <1>2 DEF FedIsSaved
  <2>1. row[1] \in Table /\ row[2] \in Nat
    BY DEF TypeOK
  <2>2. row[2] <= disk[row[1]] /\ disk[row[1]] <= watermarks[row[1]]
    BY <1>1, <2>1 DEF FedIsSaved, WatermarksInOrder
  <2> QED  BY <2>1, <2>2, WatermarkTypes
<1> QED  BY <1>3, <1>4, <1>6, <1>7, <1>8, <1>9

-----------------------------------------------------------------------------
(***************************************************************************)
(* The listener, and a crash                                               *)
(***************************************************************************)

\* A scan begins with a copy of the watermarks.
LEMMA BeginPollKeepsIInv ==
  ASSUME IInv, TypeOK', BeginPoll
  PROVE  IInv'
<1> USE DEF IInv, outside, boot, history
<1>1. /\ pc = "idle" /\ pc' \in {"idle", "scan"} /\ wm' = watermarks /\ batch = <<>>
      /\ UNCHANGED <<rows, disk, watermarks, batch, feed, start, past, lost, baseline, rekeyed,
                     attempts, save_failed>>
  BY DEF BeginPoll, Phases
<1>2. /\ Pending' = Pending /\ FedNow' = FedNow /\ Pending = {} /\ Serving /\ Serving'
      /\ \A t \in Table : Position(t)' = Position(t) /\ ReadUpTo(t)' = ReadUpTo(t)
  BY <1>1, NothingPending DEF Pending, FedNow, Serving, Position, ReadUpTo
<1>3. BootCounts' /\ Phases'
  BY <1>1, <1>2 DEF BootCounts, Phases
<1>4. WatermarksInOrder'
  BY <1>1, WatermarkTypes DEF WatermarksInOrder
<1>5. ChunksInOrder'
  BY <1>1 DEF ChunksInOrder
<1>6. PendingIsTheGap'
  BY <1>1, <1>2 DEF PendingIsTheGap
<1>7. FeedGoesUp'
  BY <1>1, <1>2 DEF FeedGoesUp
<1>8. MemoryAccounted' /\ Accounted'
  BY <1>1, <1>2 DEF MemoryAccounted, Accounted, Handled
<1>9. FedIsSaved'
  BY <1>1, <1>2 DEF FedIsSaved
<1> QED  BY <1>3, <1>4, <1>5, <1>6, <1>7, <1>8, <1>9

\* Reading a table adds to the batch what lies between the old and the new end of
\* its rows, and nothing of another table.
LEMMA ScanEffect ==
  ASSUME TypeOK, ChunksInOrder, NEW t \in Table, ScanTable(t)
  PROVE  /\ pc = "scan"
         /\ wm[t] <= wm'[t] /\ wm'[t] <= rows[t]
         /\ \A u \in Table : u # t => wm'[u] = wm[u]
         /\ batch' \in Seq(Chunk) /\ Ordered(batch')
         /\ \A i \in DOMAIN batch' :
              batch'[i].table \in Table /\ batch'[i].upto <= wm'[batch'[i].table]
         /\ \A u \in Table, id \in Nat : <<u, id>> \in Pending' <=>
              \/ <<u, id>> \in Pending
              \/ u = t /\ wm[t] < id /\ id <= wm'[t] /\ Readable(t, id)
<1>1. PICK upto \in wm[t] .. rows[t] :
        LET found == Between(t, wm[t], upto)
        IN  /\ wm' = [wm EXCEPT ![t] = NewWatermark(t, upto)]
            /\ batch' = IF found = {} THEN batch
                        ELSE Append(batch, [table |-> t, from |-> wm[t], upto |-> Last(found)])
  BY DEF ScanTable
<1> DEFINE found == Between(t, wm[t], upto)
           new == NewWatermark(t, upto)
           c == [table |-> t, from |-> wm[t], upto |-> new]
<1>2. /\ new \in Nat /\ wm[t] <= new /\ new <= upto
      /\ found = {} => new = wm[t]
      /\ found # {} => new = Last(found) /\ wm[t] < new /\ Readable(t, new)
  BY NewWatermarkIsLast
<1>3. /\ wm \in [Table -> Nat] /\ wm[t] \in Nat /\ rows[t] \in Nat
      /\ batch \in Seq(Chunk) /\ Ordered(batch)
  BY TypesOf, BatchIsOrdered
<1>4. wm' = [wm EXCEPT ![t] = new] /\ batch' = IF found = {} THEN batch ELSE Append(batch, c)
  BY <1>1, <1>2
<1>5. \A i \in DOMAIN batch : batch[i].table \in Table /\ batch[i].upto \in Nat
                              /\ batch[i].upto <= wm[batch[i].table]
  BY TypesOf DEF ChunksInOrder
<1>6. pc = "scan" /\ upto <= rows[t] /\ upto \in Nat
  BY <1>3 DEF ScanTable
<1>7. c \in Chunk /\ c.table = t /\ c.from = wm[t] /\ c.upto = new
  BY <1>2, <1>3 DEF Chunk
<1> HIDE DEF found, new, c
<1>8. wm'[t] = new /\ \A u \in Table : u # t => wm'[u] = wm[u]
  BY <1>3, <1>4
<1>9. wm[t] <= wm'[t] /\ wm'[t] <= rows[t]
  BY <1>2, <1>3, <1>6, <1>8
<1>10. Pending = RowsOf(batch) /\ Pending' = RowsOf(batch')
  BY PendingRows
<1>11. CASE found = {}
  <2>1. batch' = batch /\ wm'[t] = wm[t]
    BY <1>2, <1>4, <1>8, <1>11
  <2>2. \A u \in Table : wm'[u] = wm[u]
    BY <1>8, <2>1
  <2>3. Pending' = Pending
    BY <1>10, <2>1
  <2>4. \A id \in Nat : ~ (wm[t] < id /\ id <= wm'[t])
    BY <2>1, <1>3
  <2> QED  BY <1>3, <1>5, <1>6, <1>8, <1>9, <2>1, <2>2, <2>3, <2>4
<1>12. CASE found # {}
  <2>1. batch' = Append(batch, c) /\ wm[t] < new /\ Readable(t, new)
    BY <1>2, <1>4, <1>12
  <2>2. \A i \in DOMAIN batch : batch[i].table = c.table => batch[i].upto <= c.from
    BY <1>5, <1>7
  <2>3. /\ batch' \in Seq(Chunk) /\ Ordered(batch')
        /\ \A u \in Table, id \in Nat : <<u, id>> \in RowsOf(batch') <=>
             \/ <<u, id>> \in RowsOf(batch)
             \/ u = c.table /\ c.from < id /\ id <= c.upto /\ Readable(u, id)
    BY <1>3, <1>7, <2>1, <2>2, OneMoreChunk
  <2>4. \A i \in DOMAIN batch' :
          batch'[i].table \in Table /\ batch'[i].upto <= wm'[batch'[i].table]
    <3> TAKE i \in DOMAIN batch'
    <3>1. CASE i \in DOMAIN batch
      <4>1. batch'[i] = batch[i]
        BY <1>3, <2>1, <3>1
      <4>2. batch[i].upto <= wm[batch[i].table] /\ batch[i].upto \in Nat /\ batch[i].table \in Table
        BY <1>5, <3>1
      <4>3. batch[i].table = t => wm[batch[i].table] <= wm'[batch[i].table]
        BY <1>9
      <4>4. wm[batch[i].table] \in Nat /\ (batch[i].table = t => wm'[batch[i].table] \in Nat)
        BY <1>2, <1>3, <1>8, <4>2
      <4> QED  BY <4>1, <4>2, <4>3, <4>4, <1>8
    <3>2. CASE i \notin DOMAIN batch
      <4>1. batch'[i] = c
        BY <1>3, <2>1, <3>2
      <4> QED  BY <4>1, <1>2, <1>7, <1>8
    <3> QED  BY <3>1, <3>2
  <2> QED  BY <1>6, <1>7, <1>8, <1>9, <1>10, <2>3, <2>4
<1> QED  BY <1>11, <1>12

LEMMA ScanKeepsIInv ==
  ASSUME IInv, TypeOK', NEW t \in Table, ScanTable(t)
  PROVE  IInv'
<1> USE DEF IInv, outside, boot, connections, history
<1>1. /\ pc = "scan" /\ wm[t] <= wm'[t] /\ wm'[t] <= rows[t]
      /\ \A u \in Table : u # t => wm'[u] = wm[u]
      /\ batch' \in Seq(Chunk) /\ Ordered(batch')
      /\ \A i \in DOMAIN batch' :
           batch'[i].table \in Table /\ batch'[i].upto <= wm'[batch'[i].table]
      /\ \A u \in Table, id \in Nat : <<u, id>> \in Pending' <=>
           \/ <<u, id>> \in Pending
           \/ u = t /\ wm[t] < id /\ id <= wm'[t] /\ Readable(t, id)
  BY ScanEffect
<1>2. /\ pc' = "scan"
      /\ UNCHANGED <<rows, disk, pc, watermarks, feed, start, past, lost, baseline, rekeyed,
                     attempts, save_failed>>
  BY <1>1 DEF ScanTable
<1>3. /\ FedNow' = FedNow /\ Serving /\ Serving'
      /\ \A u \in Table : /\ Position(u)' = Position(u)
                          /\ ReadUpTo(u) = wm[u] /\ ReadUpTo(u)' = wm'[u]
  BY <1>1, <1>2 DEF FedNow, Serving, Position, ReadUpTo
<1>4. BootCounts' /\ Phases'
  BY <1>1, <1>2, <1>3 DEF BootCounts, Phases
<1>5. WatermarksInOrder'
  <2> SUFFICES ASSUME NEW u \in Table
               PROVE  wm'[u] <= rows[u] /\ watermarks[u] <= wm'[u]
    BY <1>1, <1>2 DEF WatermarksInOrder
  <2>1. wm[u] <= rows[u] /\ watermarks[u] <= wm[u]
    BY <1>1 DEF WatermarksInOrder
  <2>2. CASE u = t
    BY <1>1, <2>1, <2>2, WatermarkTypes
  <2>3. CASE u # t
    BY <1>1, <2>1, <2>3
  <2> QED  BY <2>2, <2>3
<1>6. ChunksInOrder'
  <2> SUFFICES ASSUME NEW i \in DOMAIN batch'
               PROVE  batch'[i].upto \in Between(batch'[i].table, batch'[i].from, batch'[i].upto)
    BY <1>1 DEF ChunksInOrder, Ordered
  <2>1. batch'[i] \in Chunk
    BY <1>1, SequenceOf, Zenon
  <2>2. batch'[i].table \in Table /\ batch'[i].from \in Nat /\ batch'[i].upto \in Nat
    BY <2>1 DEF Chunk
  <2>3. batch'[i].from < batch'[i].upto /\ Readable(batch'[i].table, batch'[i].upto)
    BY <1>1 DEF Ordered
  <2> QED  BY <2>2, <2>3, BetweenIds
<1>7. PendingIsTheGap'
  <2> SUFFICES ASSUME NEW u \in Table, NEW id \in Nat
               PROVE  <<u, id>> \in Pending' <=> id \in Between(u, Position(u), wm'[u])
    BY <1>2, <1>3 DEF PendingIsTheGap
  <2>1. /\ Position(u) <= watermarks[u]
        /\ <<u, id>> \in Pending <=> id \in Between(u, Position(u), wm[u])
    BY <1>3 DEF PendingIsTheGap
  <2>2. Position(u) \in Nat /\ wm[u] \in Nat /\ wm'[u] \in Nat /\ watermarks[u] \in Nat
    BY PositionIsNat, WatermarkTypes
  <2>3. watermarks[u] <= wm[u]
    BY <1>1 DEF WatermarksInOrder
  <2>4. /\ id \in Between(u, Position(u), wm[u]) <=>
             Position(u) < id /\ id <= wm[u] /\ Readable(u, id)
        /\ id \in Between(u, Position(u), wm'[u]) <=>
             Position(u) < id /\ id <= wm'[u] /\ Readable(u, id)
    BY <2>2, BetweenIds
  <2>5. CASE u = t
    BY <1>1, <2>1, <2>2, <2>3, <2>4, <2>5
  <2>6. CASE u # t
    BY <1>1, <2>1, <2>6
  <2> QED  BY <2>5, <2>6
<1>8. FeedGoesUp'
  BY <1>2, <1>3 DEF FeedGoesUp
<1>9. MemoryAccounted' /\ Accounted'
  BY <1>2, <1>3 DEF MemoryAccounted, Accounted, Handled
<1>10. FedIsSaved'
  BY <1>2, <1>3 DEF FedIsSaved
<1> QED  BY <1>4, <1>5, <1>6, <1>7, <1>8, <1>9, <1>10

\* The watermarks move over the rows of the batch and over nothing else.
LEMMA CommitPollKeepsIInv ==
  ASSUME IInv, TypeOK', CommitPoll
  PROVE  IInv'
<1> USE DEF IInv, outside, boot, connections, history, scan
<1>1. /\ pc = "scan"
      /\ \/ batch = <<>> /\ pc' = "idle" /\ watermarks' = watermarks
         \/ batch # <<>> /\ pc' = "save" /\ watermarks' = wm
      /\ UNCHANGED <<rows, disk, wm, batch, feed, start, past, lost, baseline, rekeyed,
                     attempts, save_failed>>
  BY DEF CommitPoll
<1>2. /\ Pending' = Pending /\ FedNow' = FedNow /\ Serving /\ Serving'
      /\ \A t \in Table : Position(t)' = Position(t) /\ ReadUpTo(t) = wm[t]
  BY <1>1 DEF Pending, FedNow, Serving, Position, ReadUpTo
<1>3. \A t \in Table : watermarks[t] <= wm[t] /\ Position(t) <= watermarks[t]
  BY <1>1, <1>2 DEF WatermarksInOrder, PendingIsTheGap
<1>4. \A t \in Table : Position(t) \in Nat
  BY PositionIsNat
<1>5. BootCounts' /\ Phases'
  BY <1>1, <1>2 DEF BootCounts, Phases
<1>6. WatermarksInOrder'
  BY <1>1, <1>3, WatermarkTypes DEF WatermarksInOrder
<1>7. ChunksInOrder'
  BY <1>1 DEF ChunksInOrder
<1>8. PendingIsTheGap'
  <2>1. CASE batch # <<>>
    <3>1. \A t \in Table : ReadUpTo(t)' = wm[t] /\ Position(t) <= wm[t]
      BY <1>1, <1>3, <1>4, <2>1, WatermarkTypes DEF ReadUpTo
    <3> QED  BY <1>1, <1>2, <2>1, <3>1 DEF PendingIsTheGap
  <2>2. CASE batch = <<>>
    <3> SUFFICES ASSUME NEW t \in Table, NEW id \in Nat
                 PROVE  id \notin Between(t, Position(t), watermarks[t])
      <4>1. Pending' = {} /\ \A t \in Table : ReadUpTo(t)' = watermarks[t]
        BY <1>1, <2>2, NothingPending DEF ReadUpTo
      <4> QED  BY <1>1, <1>2, <1>3, <2>2, <4>1 DEF PendingIsTheGap
    <3>1. id \notin Between(t, Position(t), wm[t])
      BY <1>2, <2>2, NothingPending DEF PendingIsTheGap
    <3> QED  BY <1>3, <1>4, <3>1, BetweenIds, WatermarkTypes
  <2> QED  BY <2>1, <2>2
<1>9. FeedGoesUp'
  BY <1>1, <1>2 DEF FeedGoesUp
<1>10. Accounted'
  BY <1>1, <1>2 DEF Accounted
<1>11. MemoryAccounted'
  <2> SUFFICES ASSUME NEW t \in Table, NEW id \in Between(t, 0, watermarks'[t])
               PROVE  Handled(t, id) \/ (pc' = "save" /\ <<t, id>> \in Pending)
    BY <1>1, <1>2 DEF MemoryAccounted, Handled
  <2>1. id \in Nat /\ 0 < id /\ id <= watermarks'[t] /\ Readable(t, id)
    BY WatermarkTypes, BetweenIds
  <2>2. CASE id <= watermarks[t]
    <3>1. id \in Between(t, 0, watermarks[t])
      BY <2>1, <2>2, WatermarkTypes, BetweenIds
    <3> QED  BY <1>1, <3>1 DEF MemoryAccounted
  <2>3. CASE ~ (id <= watermarks[t])
    <3>1. pc' = "save" /\ watermarks'[t] = wm[t]
      BY <1>1, <2>1, <2>3
    <3>2. id \in Between(t, Position(t), wm[t])
      BY <1>3, <1>4, <2>1, <2>3, <3>1, WatermarkTypes, BetweenIds
    <3> QED  BY <1>2, <2>1, <3>1, <3>2 DEF PendingIsTheGap
  <2> QED  BY <2>2, <2>3
<1>12. FedIsSaved'
  BY <1>1, <1>2 DEF FedIsSaved
<1> QED  BY <1>5, <1>6, <1>7, <1>8, <1>9, <1>10, <1>11, <1>12

\* The watermarks are saved before what they cover is fed.
LEMMA SavePollKeepsIInv ==
  ASSUME IInv, TypeOK', Save, pc = "save"
  PROVE  IInv'
<1> USE DEF IInv, outside, scan, boot, connections
<1>1. /\ pc' = "feed" /\ watermarks = wm /\ disk' \in {disk, wm}
      /\ ~ save_failed' => ~ save_failed /\ disk' = wm
      /\ UNCHANGED <<rows, watermarks, wm, batch, feed, start, past, lost, baseline, rekeyed,
                     attempts>>
  BY DEF Save, Phases
<1>2. /\ Pending' = Pending /\ FedNow' = FedNow /\ Serving /\ Serving'
      /\ \A t \in Table : Position(t)' = Position(t) /\ ReadUpTo(t)' = ReadUpTo(t)
  BY <1>1 DEF Pending, FedNow, Serving, Position, ReadUpTo
<1>3. BootCounts' /\ Phases'
  BY <1>1, <1>2 DEF BootCounts, Phases
<1>4. \A t \in Table : disk[t] <= wm[t] /\ disk'[t] <= wm[t]
  BY <1>1, WatermarkTypes DEF WatermarksInOrder
<1>5. WatermarksInOrder'
  BY <1>1, <1>4, WatermarkTypes DEF WatermarksInOrder
<1>6. ChunksInOrder'
  BY <1>1 DEF ChunksInOrder
<1>7. PendingIsTheGap'
  BY <1>1, <1>2 DEF PendingIsTheGap
<1>8. FeedGoesUp'
  BY <1>1, <1>2 DEF FeedGoesUp
<1>9. MemoryAccounted'
  BY <1>1, <1>2 DEF MemoryAccounted, Handled
<1>10. Accounted'
  <2> SUFFICES ASSUME NEW t \in Table, NEW id \in Between(t, 0, disk'[t])
               PROVE  Handled(t, id) \/ <<t, id>> \in Pending
    BY <1>1, <1>2 DEF Accounted, Handled
  <2>1. id \in Between(t, 0, watermarks[t])
    BY <1>1, <1>4, WatermarkTypes, BetweenIds
  <2> QED  BY <2>1 DEF MemoryAccounted
<1>11. FedIsSaved'
  <2> SUFFICES ASSUME ~ save_failed', NEW row \in past \cup FedNow
               PROVE  row[2] <= disk'[row[1]]
    BY <1>1, <1>2 DEF FedIsSaved
  <2>1. row[1] \in Table /\ row[2] \in Nat
    BY FedRows DEF TypeOK
  <2>2. row[2] <= disk[row[1]]
    BY <1>1 DEF FedIsSaved
  <2> QED  BY <1>1, <1>4, <2>1, <2>2, WatermarkTypes
<1> QED  BY <1>3, <1>5, <1>6, <1>7, <1>8, <1>9, <1>10, <1>11

\* A row that is fed was pending; it is the next of its table.
LEMMA PushKeepsIInv ==
  ASSUME IInv, TypeOK', Push
  PROVE  IInv'
<1> USE DEF IInv
<1>1. PICK t \in Table, id \in Nat :
        /\ pc = "feed" /\ feed' = Append(feed, <<t, id>>)
        /\ <<t, id>> \in Pending /\ id <= wm[t]
        /\ \A other \in Nat : <<t, other>> \in Pending => id <= other
        /\ Pending' = Pending \ {<<t, id>>}
        /\ batch' \in Seq(Chunk) /\ Ordered(batch')
        /\ \A i \in DOMAIN batch' :
             batch'[i].table \in Table /\ batch'[i].upto <= wm[batch'[i].table]
        /\ pc' = IF batch' = <<>> THEN "idle" ELSE "feed"
        /\ UNCHANGED <<files, rows, keys, disk, attempts, rekeyed, old_keys, conns,
                       known_keys, watermarks, wm, dbs, todo, crashes, failures, start,
                       past, lost, baseline, existing, save_failed>>
  BY PushEffect
<1>2. watermarks = wm /\ pc' \in {"idle", "feed"} /\ Serving /\ Serving'
  BY <1>1 DEF Phases, Serving
<1>3. /\ \A u \in Table : ReadUpTo(u) = wm[u] /\ ReadUpTo(u)' = wm[u]
      /\ \A u \in Table : Position(u) \in Nat
  BY <1>1, <1>2, PositionIsNat DEF ReadUpTo
<1>4. Position(t)' = id /\ \A u \in Table \ {t} : Position(u)' = Position(u)
  BY <1>1, PositionAfterPush
<1>5. Position(t) < id /\ Readable(t, id)
  <2>1. id \in Between(t, Position(t), wm[t])
    BY <1>1, <1>2, <1>3 DEF PendingIsTheGap
  <2> QED  BY <1>3, <2>1, BetweenIds, WatermarkTypes
<1>6. FedNow' = FedNow \cup {<<t, id>>}
  BY <1>1, FedRows
<1>7. BootCounts'
  BY <1>1, <1>2 DEF BootCounts
<1>8. Phases'
  BY <1>1, <1>2 DEF Phases
<1>9. WatermarksInOrder'
  BY <1>1, <1>2 DEF WatermarksInOrder
<1>10. ChunksInOrder'
  <2> SUFFICES ASSUME NEW i \in DOMAIN batch'
               PROVE  batch'[i].upto \in Between(batch'[i].table, batch'[i].from, batch'[i].upto)
    BY <1>1 DEF ChunksInOrder, Ordered
  <2>1. batch'[i] \in Chunk
    BY <1>1, SequenceOf, Zenon
  <2>2. batch'[i].table \in Table /\ batch'[i].from \in Nat /\ batch'[i].upto \in Nat
    BY <2>1 DEF Chunk
  <2>3. batch'[i].from < batch'[i].upto /\ Readable(batch'[i].table, batch'[i].upto)
    BY <1>1 DEF Ordered
  <2> QED  BY <2>2, <2>3, BetweenIds
<1>11. PendingIsTheGap'
  <2> SUFFICES ASSUME NEW u \in Table
               PROVE  /\ Position(u)' <= wm[u]
                      /\ \A x \in Nat : <<u, x>> \in Pending' <=> x \in Between(u, Position(u)', wm[u])
    BY <1>1, <1>2, <1>3 DEF PendingIsTheGap
  <2>1. /\ Position(u) <= wm[u]
        /\ \A x \in Nat : <<u, x>> \in Pending <=> x \in Between(u, Position(u), wm[u])
    BY <1>2, <1>3 DEF PendingIsTheGap
  <2>2. CASE u # t
    BY <1>1, <1>4, <2>1, <2>2
  <2>3. CASE u = t
    <3>1. ASSUME NEW x \in Nat
          PROVE  <<t, x>> \in Pending' <=> x \in Between(t, id, wm[t])
      <4>1. <<t, x>> \in Pending <=> Position(t) < x /\ x <= wm[t] /\ Readable(t, x)
        BY <1>3, <2>1, <2>3, BetweenIds, WatermarkTypes
      <4>2. x \in Between(t, id, wm[t]) <=> id < x /\ x <= wm[t] /\ Readable(t, x)
        BY BetweenIds, WatermarkTypes
      <4>3. <<t, x>> \in Pending' <=> <<t, x>> \in Pending /\ x # id
        BY <1>1
      <4>4. <<t, x>> \in Pending => id <= x
        BY <1>1
      <4> QED  BY <1>3, <1>5, <4>1, <4>2, <4>3, <4>4
    <3> QED  BY <1>1, <1>4, <2>3, <3>1
  <2> QED  BY <2>2, <2>3
<1>12. FeedGoesUp'
  <2>1. /\ feed \in Seq(Table \X Nat) /\ Len(feed) \in Nat /\ DOMAIN feed = 1 .. Len(feed)
        /\ \A i \in DOMAIN feed : feed[i][1] \in Table /\ feed[i][2] \in Nat
        /\ \A u \in Table : start[u] \in Nat
    BY TypesOf
  <2>2. /\ DOMAIN feed' = 1 .. Len(feed) + 1
        /\ \A i \in DOMAIN feed : feed'[i] = feed[i]
        /\ feed'[Len(feed) + 1] = <<t, id>>
        /\ \A i \in DOMAIN feed' : i \in DOMAIN feed \/ i = Len(feed) + 1
    BY <1>1, <2>1
  <2>3. \A u \in Table : start[u] <= Position(u) /\ Position(u) <= Position(u)'
                           /\ Position(u)' \in Nat
    BY <1>3, <1>4, <1>5 DEF FeedGoesUp
  <2>4. \A u \in Table : \A i \in DOMAIN feed :
          feed[i][1] = u => start[u] < feed[i][2] /\ feed[i][2] <= Position(u)
    BY DEF FeedGoesUp
  <2>5. \A i \in DOMAIN feed : <<t, id>> # feed[i]
    <3> SUFFICES ASSUME NEW i \in DOMAIN feed, feed[i] = <<t, id>> PROVE FALSE
      OBVIOUS
    <3>1. id <= Position(t)
      BY <2>4
    <3> QED  BY <1>3, <1>5, <3>1
  <2>6. ASSUME NEW u \in Table, NEW i \in DOMAIN feed', feed'[i][1] = u
        PROVE  start[u] < feed'[i][2] /\ feed'[i][2] <= Position(u)'
    <3>1. CASE i \in DOMAIN feed
      <4>1. feed'[i] = feed[i] /\ feed[i][2] \in Nat
        BY <2>1, <2>2, <3>1
      <4>2. start[u] < feed[i][2] /\ feed[i][2] <= Position(u)
        BY <2>4, <2>6, <3>1, <4>1
      <4>3. Position(u) \in Nat /\ Position(u) <= Position(u)' /\ Position(u)' \in Nat
        BY <1>3, <2>3
      <4> QED  BY <4>1, <4>2, <4>3
    <3>2. CASE i = Len(feed) + 1
      <4>1. u = t /\ feed'[i][2] = id
        BY <2>2, <2>6, <3>2
      <4>2. start[t] < id
        BY <1>3, <1>5, <2>1, <2>3
      <4> QED  BY <1>1, <1>4, <4>1, <4>2
    <3> QED  BY <2>2, <3>1, <3>2
  <2>7. ASSUME NEW i \in DOMAIN feed', NEW j \in DOMAIN feed', feed'[i] = feed'[j]
        PROVE  i = j
    <3>1. \A k, l \in DOMAIN feed : feed[k] = feed[l] => k = l
      BY DEF FeedGoesUp
    <3> QED  BY <2>2, <2>5, <2>7, <3>1
  <2>8. start' = start /\ \A u \in Table : start[u] <= Position(u)'
    BY <1>1, <1>3, <2>1, <2>3
  <2> QED  BY <2>6, <2>7, <2>8 DEF FeedGoesUp
<1>13. ASSUME NEW u \in Table, NEW x \in Nat,
              Handled(u, x) \/ <<u, x>> \in Pending
       PROVE  Handled(u, x)' \/ (pc' \in {"save", "feed"} /\ <<u, x>> \in Pending')
  <2>1. Pending' # {} => pc' = "feed"
    BY <1>1, NothingPending
  <2> QED  BY <1>1, <1>6, <1>13, <2>1 DEF Handled
<1>14. MemoryAccounted'
  <2> SUFFICES ASSUME NEW u \in Table, NEW x \in Between(u, 0, watermarks[u])
               PROVE  Handled(u, x)' \/ (pc' \in {"save", "feed"} /\ <<u, x>> \in Pending')
    BY <1>1 DEF MemoryAccounted
  <2>1. x \in Nat
    BY BetweenIds, WatermarkTypes
  <2>2. Handled(u, x) \/ <<u, x>> \in Pending
    BY DEF MemoryAccounted
  <2> QED  BY <1>13, <2>1, <2>2
<1>15. Accounted'
  <2> SUFFICES ASSUME NEW u \in Table, NEW x \in Between(u, 0, disk[u])
               PROVE  Handled(u, x)' \/ (pc' \in {"save", "feed"} /\ <<u, x>> \in Pending')
    BY <1>1 DEF Accounted, Handled
  <2>1. x \in Nat
    BY BetweenIds, WatermarkTypes
  <2>2. Handled(u, x) \/ <<u, x>> \in Pending
    BY DEF Accounted, Handled
  <2> QED  BY <1>13, <2>1, <2>2
<1>16. FedIsSaved'
  <2> SUFFICES ASSUME ~ save_failed
               PROVE  /\ \A row \in past \cup FedNow' : row[2] <= disk[row[1]]
                      /\ \A row \in past : row[2] <= start[row[1]]
                      /\ disk = wm
    BY <1>1, <1>2 DEF FedIsSaved
  <2>1. disk = wm /\ (\A row \in past : row[2] <= start[row[1]])
        /\ \A row \in past \cup FedNow : row[2] <= disk[row[1]]
    BY <1>1, <1>2 DEF FedIsSaved
  <2> QED  BY <1>1, <1>6, <2>1
<1> QED  BY <1>7, <1>8, <1>9, <1>10, <1>11, <1>12, <1>14, <1>15, <1>16

\* A crash leaves what was saved; the rest of the batch it covers is lost.
LEMMA CrashKeepsIInv ==
  ASSUME IInv, TypeOK', Crash
  PROVE  IInv'
<1> USE DEF IInv, outside
<1>1. /\ pc' = "down" /\ attempts' = 0 /\ rekeyed' = FALSE /\ watermarks' = None /\ wm' = None
      /\ batch' = <<>> /\ feed' = <<>> /\ start' = None
      /\ past' = past \cup FedNow
      /\ lost' = lost \cup {row \in Pending : row[2] <= disk[row[1]]}
      /\ UNCHANGED <<rows, disk, baseline, save_failed>>
  BY DEF Crash
<1>2. ~ Serving'
  BY <1>1 DEF Serving
<1>3. ChunksInOrder' /\ PendingIsTheGap' /\ FeedGoesUp' /\ FedNow' = {}
  BY <1>1, <1>2, NothingRead
<1>4. BootCounts' /\ Phases'
  BY <1>1, <1>2 DEF BootCounts, Phases
<1>5. WatermarksInOrder'
  BY <1>1, WatermarkTypes DEF WatermarksInOrder
<1>6. MemoryAccounted'
  <2>1. \A t \in Table : Between(t, 0, watermarks'[t]) = {}
    BY <1>1, WatermarkTypes, BetweenIds
  <2> QED  BY <2>1 DEF MemoryAccounted
<1>7. Accounted'
  <2> SUFFICES ASSUME NEW t \in Table, NEW id \in Between(t, 0, disk[t])
               PROVE  Handled(t, id)'
    BY <1>1 DEF Accounted, Handled
  <2>1. id \in Nat /\ id <= disk[t]
    BY BetweenIds, WatermarkTypes
  <2>2. Handled(t, id) \/ <<t, id>> \in Pending
    BY DEF Accounted, Handled
  <2> QED  BY <1>1, <2>1, <2>2 DEF Handled
<1>8. FedIsSaved'
  BY <1>1, <1>2, <1>3 DEF FedIsSaved
<1> QED  BY <1>3, <1>4, <1>5, <1>6, <1>7, <1>8

-----------------------------------------------------------------------------
(***************************************************************************)
(* The theorems                                                            *)
(***************************************************************************)

\* The environment, looking at databases, and a client's query change nothing
\* the invariant speaks of but that tables grow.
LEMMA QuietSteps ==
  ASSUME TypeOK,
         \/ Environment \/ QueryHistory \/ UNCHANGED vars
         \/ \E d \in Db : VisitDb(d)
  PROVE  /\ \A t \in Table : rows[t] <= rows'[t]
         /\ UNCHANGED <<disk, pc, attempts, rekeyed, watermarks, wm, batch, feed, start, past,
                        lost, baseline, save_failed>>
<1> USE DEF outside, scan, boot, connections, history
<1>1. rows \in [Table -> Nat] /\ \A t \in Table : rows[t] <= rows[t]
  BY TypesOf
<1>2. ASSUME NEW t \in Table, Insert(t)
      PROVE  \A u \in Table : rows[u] <= rows'[u]
  BY <1>1, <1>2 DEF Insert
<1>3. CASE \E t \in Table : Insert(t)
  BY <1>2, <1>3 DEF Insert
<1>4. CASE \/ \E d \in Db : CreateDb(d) \/ VisitDb(d)
           \/ \E found \in SUBSET Db : UpdateKeyMap(found)
           \/ QueryHistory
  BY <1>1, <1>4 DEF CreateDb, UpdateKeyMap, VisitDb, QueryHistory
<1>5. CASE UNCHANGED vars
  BY <1>1, <1>5 DEF vars
<1> QED  BY <1>3, <1>4, <1>5 DEF Environment

LEMMA NextKeepsIInv == IInv /\ [Next]_vars => IInv'
<1> SUFFICES ASSUME IInv, [Next]_vars PROVE IInv'
  OBVIOUS
<1>1. TypeOK /\ TypeOK'
  BY TypeNext DEF IInv
<1>2. CASE \/ Environment \/ QueryHistory \/ UNCHANGED vars
           \/ \E d \in Db : VisitDb(d)
  BY <1>1, <1>2, QuietSteps, QuietStepKeepsIInv
<1>3. CASE \/ Boot \/ NoteKeyMap \/ BeginMark \/ FailMark \/ CommitMark
           \/ NoteOldKeyMap \/ Rekey \/ GiveUpOnKey
           \/ \E t \in Table : MarkTable(t)
  BY <1>1, <1>3, BootKeepsIInv
<1>4. CASE Listen
  BY <1>1, <1>4, ListenKeepsIInv
<1>5. CASE BeginPoll
  BY <1>1, <1>5, BeginPollKeepsIInv
<1>6. CASE \E t \in Table : ScanTable(t)
  BY <1>1, <1>6, ScanKeepsIInv
<1>7. CASE CommitPoll
  BY <1>1, <1>7, CommitPollKeepsIInv
<1>8. CASE Save
  <2>1. pc \in {"marksave", "save"}
    BY <1>8 DEF Save
  <2> QED  BY <1>1, <1>8, <2>1, SaveMarksKeepsIInv, SavePollKeepsIInv
<1>9. CASE Push
  BY <1>1, <1>9, PushKeepsIInv
<1>10. CASE Crash
  BY <1>1, <1>10, CrashKeepsIInv
<1> QED  BY <1>2, <1>3, <1>4, <1>5, <1>6, <1>7, <1>8, <1>9, <1>10 DEF Next, Booting, Listening

\* The strengthening of the properties below is an invariant.
THEOREM InductiveInvariant == Spec => []IInv
<1>1. Init => IInv
  BY InitIInv
<1>2. IInv /\ [Next]_vars => IInv'
  BY NextKeepsIInv
<1> QED  BY <1>1, <1>2, PTL DEF Spec

\* Every variable keeps its type: in particular boot tries mark_all_read no more
\* often than MaxAttempts says.
THEOREM TypeCorrect == Spec => []TypeOK
<1>1. IInv => TypeOK
  BY DEF IInv
<1> QED  BY <1>1, InductiveInvariant, PTL

\* No partial scan, failed save, crash or late database makes the saved watermarks
\* run over a readable row that was not fed, marked as read or cut off by a crash
\* (get_new_messages, persist_watermarks, mark_all_read).
THEOREM WatermarksAccountForRows == Spec => []Accounted
<1>1. IInv => Accounted
  BY DEF IInv
<1> QED  BY <1>1, InductiveInvariant, PTL

\* While saves succeed no row is fed twice, over any number of crashes: the
\* watermarks are saved before the batch is fed.
THEOREM RowsFedOnce == Spec => []FedOnce
<1>1. IInv => FedOnce
  <2> SUFFICES ASSUME IInv, ~ save_failed
               PROVE  /\ FedNow \cap past = {}
                      /\ \A i, j \in DOMAIN feed : feed[i] = feed[j] => i = j
    BY DEF FedOnce
  <2> USE DEF IInv
  <2>1. \A i, j \in DOMAIN feed : feed[i] = feed[j] => i = j
    BY DEF FeedGoesUp
  <2>2. CASE ~ Serving
    BY <2>1, <2>2, NothingPending DEF Phases
  <2>3. CASE Serving
    <3> SUFFICES ASSUME NEW row \in FedNow, row \in past PROVE FALSE
      BY <2>1
    <3>1. PICK i \in DOMAIN feed : row = feed[i]
      BY DEF FedNow
    <3>2. row[1] \in Table /\ row[2] \in Nat /\ start[row[1]] \in Nat
      BY <3>1, TypesOf
    <3>3. start[row[1]] < row[2]
      BY <3>1, <3>2 DEF FeedGoesUp
    <3>4. row[2] <= start[row[1]]
      BY <2>3 DEF FedIsSaved
    <3> QED  BY <3>2, <3>3, <3>4
  <2> QED  BY <2>2, <2>3
<1> QED  BY <1>1, InductiveInvariant, PTL

-----------------------------------------------------------------------------
(***************************************************************************)
(* Ingest implements Delivery: tables grow, the listener begins at the     *)
(* watermarks, each push delivers the next row, a crash ends the run, and  *)
(* every other step is invisible.                                          *)
(***************************************************************************)

LEMMA DeliveryInit == Init => D!Init
<1> SUFFICES ASSUME Init PROVE D!Init
  OBVIOUS
<1>1. rows \in [Table -> Nat]
  BY InitIInv, TypesOf DEF IInv
<1>2. Serving = FALSE /\ feed = <<>> /\ start = None
  BY DEF Init, Serving
<1>3. \A t \in Table : Position(t) = 0
  BY <1>2, PositionAtStart DEF None
<1> QED  BY <1>1, <1>2, <1>3 DEF D!Init

\* Steps that show nothing: the feed, its start and the tables stay, and the
\* listener neither begins nor stops.
LEMMA Invisible ==
  ASSUME UNCHANGED <<rows, feed, start>>, Serving' = Serving
  PROVE  UNCHANGED D!vars
<1>1. \A t \in Table : Position(t)' = Position(t)
  BY DEF Position
<1> QED  BY <1>1 DEF D!vars

\* A push delivers the next readable row after the position of its table.
LEMMA PushDelivers ==
  ASSUME IInv, Push
  PROVE  \E t \in Table : \E id \in 1 .. rows[t] : D!Deliver(t, id)
<1> USE DEF IInv
<1>1. PICK t \in Table, id \in Nat :
        /\ pc = "feed" /\ feed' = Append(feed, <<t, id>>)
        /\ <<t, id>> \in Pending /\ id <= wm[t]
        /\ \A other \in Nat : <<t, other>> \in Pending => id <= other
        /\ pc' = IF batch' = <<>> THEN "idle" ELSE "feed"
        /\ UNCHANGED <<rows, start>>
  BY PushEffect
<1>2. Serving = TRUE /\ Serving' = TRUE /\ watermarks = wm
  BY <1>1 DEF Serving, Phases
<1>3. rows[t] \in Nat /\ wm[t] \in Nat /\ Position(t) \in Nat /\ wm[t] <= rows[t]
  BY TypesOf, PositionIsNat DEF WatermarksInOrder
<1>4. \A x \in Nat : <<t, x>> \in Pending <=> Position(t) < x /\ x <= wm[t] /\ Readable(t, x)
  <2>1. ReadUpTo(t) = wm[t]
    BY <1>1 DEF ReadUpTo
  <2>2. \A x \in Nat : <<t, x>> \in Pending <=> x \in Between(t, Position(t), wm[t])
    BY <1>2, <2>1 DEF PendingIsTheGap
  <2> QED  BY <1>3, <2>2, BetweenIds
<1>5. D!Between(t, Position(t), rows[t]) = Between(t, Position(t), rows[t])
  BY DEF D!Between, D!Readable, Between, Readable
<1>6. D!IsNext(t, id)
  <2>1. id \in Between(t, Position(t), rows[t])
    BY <1>1, <1>3, <1>4, BetweenIds
  <2>2. ASSUME NEW other \in Between(t, Position(t), rows[t])
        PROVE  id <= other
    <3>1. other \in Nat /\ Position(t) < other /\ Readable(t, other)
      BY <1>3, BetweenIds
    <3>2. CASE other <= wm[t]
      BY <1>1, <1>4, <3>1, <3>2
    <3>3. CASE ~ (other <= wm[t])
      BY <1>1, <1>3, <3>1, <3>3
    <3> QED  BY <3>2, <3>3
  <2> QED  BY <1>5, <2>1, <2>2 DEF D!IsNext
<1>7. Position(t)' = id /\ \A u \in Table \ {t} : Position(u)' = Position(u)
  BY <1>1, PositionAfterPush
<1>8. [u \in Table |-> Position(u)]' = [[u \in Table |-> Position(u)] EXCEPT ![t] = id]
  BY <1>7
<1>9. id \in 1 .. rows[t]
  BY <1>1, <1>3, <1>4
<1>10. D!Deliver(t, id)
  BY <1>1, <1>2, <1>6, <1>8 DEF D!Deliver
<1> QED  BY <1>9, <1>10

LEMMA DeliveryStep == IInv /\ IInv' /\ [Next]_vars => [D!Next]_(D!vars)
<1> SUFFICES ASSUME IInv, IInv', [Next]_vars PROVE D!Next \/ UNCHANGED D!vars
  OBVIOUS
<1> USE DEF IInv, outside, scan, boot, connections, history
<1>1. CASE \E t \in Table : Insert(t)
  <2>1. /\ rows' \in [Table -> Nat] /\ \A t \in Table : rows'[t] >= rows[t]
        /\ UNCHANGED <<pc, feed, start>>
    <3>1. \A t \in Table : rows[t] <= rows'[t] /\ rows[t] \in Nat /\ rows'[t] \in Nat
      BY <1>1, QuietSteps, WatermarkTypes DEF Environment
    <3> QED  BY <1>1, <3>1 DEF Insert, TypeOK
  <2>2. Serving' = Serving /\ \A t \in Table : Position(t)' = Position(t)
    BY <2>1 DEF Serving, Position
  <2> QED  BY <2>1, <2>2 DEF D!Next, D!Grow
<1>2. CASE \/ \E d \in Db : CreateDb(d) \/ VisitDb(d)
           \/ \E found \in SUBSET Db : UpdateKeyMap(found)
           \/ QueryHistory \/ UNCHANGED vars
           \/ Boot \/ NoteKeyMap \/ BeginMark \/ FailMark \/ CommitMark
           \/ NoteOldKeyMap \/ Rekey \/ GiveUpOnKey
           \/ BeginPoll \/ CommitPoll \/ Save
           \/ \E t \in Table : MarkTable(t) \/ ScanTable(t)
  <2>1. UNCHANGED <<rows, feed, start>>
    BY <1>2 DEF CreateDb, VisitDb, UpdateKeyMap, QueryHistory, vars, Boot, NoteKeyMap,
                BeginMark, FailMark, CommitMark, NoteOldKeyMap, Rekey, GiveUpOnKey,
                BeginPoll, CommitPoll, Save, MarkTable, ScanTable
  <2>2. Serving' = Serving
    BY <1>2 DEF CreateDb, VisitDb, UpdateKeyMap, QueryHistory, vars, Boot, NoteKeyMap,
                BeginMark, FailMark, CommitMark, NoteOldKeyMap, Rekey, GiveUpOnKey,
                BeginPoll, CommitPoll, Save, MarkTable, ScanTable, NewManager, Serving
  <2> QED  BY <2>1, <2>2, Invisible
<1>3. CASE Listen
  <2>1. /\ Serving = FALSE /\ Serving' = TRUE /\ start' = watermarks /\ feed' = <<>>
        /\ UNCHANGED rows
    BY <1>3 DEF Listen, Serving, Phases
  <2>2. \A t \in Table : Position(t)' = watermarks[t]
    BY <2>1, PositionAtStartNext
  <2>3. \A t \in Table : watermarks[t] \in Nat /\ watermarks[t] <= rows[t]
    BY TypesOf DEF WatermarksInOrder
  <2> QED  BY <2>1, <2>2, <2>3 DEF D!Next, D!Begin
<1>4. CASE Push
  BY <1>4, PushDelivers DEF D!Next
<1>5. CASE Crash
  <2>1. Serving' = FALSE /\ feed' = <<>> /\ start' = None /\ UNCHANGED rows
    BY <1>5 DEF Crash, Serving
  <2>2. CASE Serving
    <3>1. \A t \in Table : Position(t)' = 0
      BY <2>1, PositionAtStartNext DEF None
    <3> QED  BY <2>1, <2>2, <3>1 DEF D!Next, D!End, Serving
  <2>3. CASE ~ Serving
    <3>1. UNCHANGED <<rows, feed, start>> /\ Serving' = Serving
      BY <2>1, <2>3 DEF Phases, Serving
    <3> QED  BY <3>1, Invisible
  <2> QED  BY <2>2, <2>3
<1> QED  BY <1>1, <1>2, <1>3, <1>4, <1>5 DEF Next, Environment, Booting, Listening

\* In every run each table is fed row by row from where the run began, whatever
\* crashes and failures come: Ingest implements Delivery.
THEOREM ImplementsDelivery == Spec => DeliverySpec
<1>1. Init => D!Init
  BY DeliveryInit
<1>2. IInv /\ IInv' /\ [Next]_vars => [D!Next]_(D!vars)
  BY DeliveryStep
<1> QED  BY <1>1, <1>2, InductiveInvariant, PTL DEF Spec, DeliverySpec, D!Spec

=============================================================================
