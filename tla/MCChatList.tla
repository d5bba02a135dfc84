----------------------------- MODULE MCChatList -----------------------------
(***************************************************************************)
(* 1 and 2 are messages both ways with the same partner, so that the two   *)
(* groupings of find_users_chats both have that user; 3 is to another one, *)
(* written before 2 or after it, between 1 and 2 by its timestamp.         *)
(***************************************************************************)
EXTENDS ChatList, TLC

CONSTANTS me, bob, carol

MCUserId == {me, bob, carol}
MCFrom == (1 :> bob) @@ (2 :> me) @@ (3 :> me)
MCTo == (1 :> me) @@ (2 :> bob) @@ (3 :> carol)
MCTimestamp == (1 :> 1) @@ (2 :> 3) @@ (3 :> 2)

MCAsker == [q \in Call |-> me]
MCFound == {<<bob>>}
=============================================================================
