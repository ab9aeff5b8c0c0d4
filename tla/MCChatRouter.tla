---------------------------- MODULE MCChatRouter ----------------------------
(***************************************************************************)
(* Small instances of ChatRouter: two chats and, where a configuration asks *)
(* for it, a name WeChat does not know or a chatroom id it does know.      *)
(***************************************************************************)
EXTENDS ChatRouter

CONSTANTS alice, bob, stranger, room

MCContact == {alice, bob}
MCWithStranger == {alice, bob, stranger}
MCWithRoom == {alice, bob, room}
MCContains == {<<n, n>> : n \in Name}

=============================================================================
