------------------------------ MODULE Delivery ------------------------------
(***************************************************************************)
(* What the database listener promises to the clients of the live feed:    *)
(* while it serves, the feed holds, for every message table, the readable  *)
(* rows after some starting point, one after another: none out of order,   *)
(* none twice, none left out.  Where a run starts is not promised: that is *)
(* what a restart may change.  Nor is the order between tables.            *)
(***************************************************************************)
EXTENDS Integers, Sequences

CONSTANTS
  Table,       \* message tables, over all databases
  Unreadable   \* the rows <<table, local_id>> that cannot be parsed

VARIABLES
  rows,        \* per table: its last local_id
  serving,     \* whether the listener runs
  position,    \* per table: the last row that counts as fed
  feed         \* what this run has fed: a sequence of rows <<table, local_id>>

vars == <<rows, serving, position, feed>>

Readable(t, id) == <<t, id>> \notin Unreadable

\* The readable rows of a table in (from, upto].
Between(t, from, upto) == {id \in from + 1 .. upto : Readable(t, id)}

IsNext(t, id) ==
  /\ id \in Between(t, position[t], rows[t])
  /\ \A other \in Between(t, position[t], rows[t]) : id <= other

-----------------------------------------------------------------------------
Init ==
  /\ rows \in [Table -> Nat]
  /\ serving = FALSE /\ feed = <<>>
  /\ position = [t \in Table |-> 0]

\* WeChat appends rows to the tables.
Grow ==
  /\ rows' \in [Table -> Nat] /\ \A t \in Table : rows'[t] >= rows[t]
  /\ UNCHANGED <<serving, position, feed>>

Begin ==
  /\ ~ serving /\ serving' = TRUE
  /\ position' \in [Table -> Nat] /\ \A t \in Table : position'[t] <= rows[t]
  /\ feed' = <<>> /\ UNCHANGED rows

Deliver(t, id) ==
  /\ serving /\ IsNext(t, id)
  /\ feed' = Append(feed, <<t, id>>)
  /\ position' = [position EXCEPT ![t] = id]
  /\ UNCHANGED <<rows, serving>>

End ==
  /\ serving /\ serving' = FALSE
  /\ position' = [t \in Table |-> 0] /\ feed' = <<>>
  /\ UNCHANGED rows

Next ==
  \/ Grow \/ Begin \/ End
  \/ \E t \in Table : \E id \in 1 .. rows[t] : Deliver(t, id)

\* For TLC, which cannot enumerate the next states of Grow and Begin, this is
\* only ever a property.
Spec == Init /\ [][Next]_vars

=============================================================================
