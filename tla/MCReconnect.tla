---------------------------- MODULE MCReconnect ----------------------------
(***************************************************************************)
(* Alice's page and its connections; any other subscription is Bob's.      *)
(* Message 1 is hers to Bob, 2 is Bob's to her with an earlier timestamp,  *)
(* 3 is hers to herself with the timestamp of 2.                           *)
(***************************************************************************)
EXTENDS Reconnect, TLC

CONSTANTS alice, bob

MCUserId == {alice, bob}
MCFrom == Restrict((1 :> alice) @@ (2 :> bob) @@ (3 :> alice), MessageId)
MCTo == Restrict((1 :> bob) @@ (2 :> alice) @@ (3 :> alice), MessageId)
MCTimestamp == Restrict((1 :> 2) @@ (2 :> 1) @@ (3 :> 1), MessageId)

MCSubscriber == [s \in SubscriptionId |-> IF s \in Connection THEN alice ELSE bob]
=============================================================================
