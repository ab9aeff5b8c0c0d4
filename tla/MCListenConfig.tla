--------------------------- MODULE MCListenConfig ---------------------------
(***************************************************************************)
(* A small instance of ListenConfig: three chats, one of them with a name  *)
(* that is not TOML, one administrator, one caller of /listen, a process   *)
(* that ends twice, and a read or write of the file that fails.            *)
(***************************************************************************)
EXTENDS ListenConfig
=============================================================================
