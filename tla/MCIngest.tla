------------------------------ MODULE MCIngest ------------------------------
(***************************************************************************)
(* A small instance of Ingest: two databases, of which one may appear or   *)
(* get its key late, one table in each, and an unreadable row between      *)
(* readable ones.                                                          *)
(***************************************************************************)
EXTENDS Ingest

CONSTANTS message_0, message_1, t0, t1

MCDb == {message_0, message_1}
MCTable == {t0, t1}
MCDbOf == [t \in MCTable |-> IF t = t0 THEN message_0 ELSE message_1]
MCMaxRow == [t \in MCTable |-> IF t = t0 THEN 3 ELSE 1]
MCUnreadable == {<<t0, 2>>}

=============================================================================
