----------------------------- MODULE MCChatPage -----------------------------
(***************************************************************************)
(* A user with two chats.  Messages 1 to 4 are of the first one, in both   *)
(* directions, 2 and 3 with the same timestamp; 5 is of the second one and *)
(* lies between them in time.                                              *)
(***************************************************************************)
EXTENDS ChatPage, TLC

CONSTANTS me, anna, boris

MCUserId == {me, anna, boris}
MCFrom == Restrict((1 :> me) @@ (2 :> anna) @@ (3 :> me) @@ (4 :> anna) @@ (5 :> boris), MessageId)
MCTo == Restrict((1 :> anna) @@ (2 :> me) @@ (3 :> anna) @@ (4 :> me) @@ (5 :> me), MessageId)
MCTimestamp == Restrict((1 :> 1) @@ (2 :> 2) @@ (3 :> 2) @@ (4 :> 4) @@ (5 :> 3), MessageId)
=============================================================================
