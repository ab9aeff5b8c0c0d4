----------------------------- MODULE MCHistory ------------------------------
(***************************************************************************)
(* A small instance of History: two tables, each of messages in one or     *)
(* both of them.  The first three ids are of one second, the fourth of a   *)
(* later one; the client's filter drops the first, the third is the        *)
(* server's id of the first, and the second cannot be decoded.             *)
(***************************************************************************)
EXTENDS History

CONSTANTS chat_a, chat_b

MCTable == {chat_a, chat_b}
MCMessage == 1 .. 4
MCTimeOf == <<1, 1, 1, 2>>
MCWants == {2, 3, 4}
MCUnreadable == {2}
MCRenamed == {<<1, 3>>}

\* One table, and three messages of one second, all of them as they should be.
MCOneTable == {chat_a}
MCThree == 1 .. 3
MCOneSecond == <<1, 1, 1>>
MCNone == {}

=============================================================================
