------------------------------- MODULE MCBoot -------------------------------
(***************************************************************************)
(* A small instance of Boot: two buses in turn, two applications besides   *)
(* WeChat on the first and none on the second, one caller of the API.      *)
(***************************************************************************)
EXTENDS Boot

MCOthers == [b \in Bus |-> IF b = 1 THEN 2 ELSE 0]
=============================================================================
