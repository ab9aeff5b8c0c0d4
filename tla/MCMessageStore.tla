--------------------------- MODULE MCMessageStore ---------------------------
(***************************************************************************)
(* A small instance of MessageStore: two kinds of message, a reader that   *)
(* asks for one of them, two racing callers of /messages/new (who ask for  *)
(* both), and more pushes than the buffer holds.                           *)
(***************************************************************************)
EXTENDS MessageStore

CONSTANTS m1, m2, reader

MCMessage == {m1, m2}
MCReader == {reader}
MCWants == [r \in MCReader |-> {m2}]

=============================================================================
