----------------------------- MODULE MCRecovery -----------------------------
(***************************************************************************)
(* A small instance of Recovery: two tables in two databases, rows with    *)
(* times 1 to 3 in both orders, one of them our own, a channel of one.     *)
(***************************************************************************)
EXTENDS Recovery

CONSTANTS chat_a, chat_b, shard_0, shard_1

MCTable == {chat_a, chat_b}
MCDbOf == [t \in MCTable |-> IF t = chat_a THEN shard_0 ELSE shard_1]
MCRow == 1 .. 3
MCTableOf == <<chat_a, chat_b, chat_a>>
MCTimeOf == <<1, 2, 3>>

\* Every database knows every chat, or only those it has tables of.
MCNames == [d \in {shard_0, shard_1} |-> MCTable]
MCOwnNames == [d \in {shard_0, shard_1} |-> {t \in MCTable : MCDbOf[t] = d}]

=============================================================================
