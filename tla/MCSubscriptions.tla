-------------------------- MODULE MCSubscriptions --------------------------
(***************************************************************************)
(* Small instances of SubscriptionsHandler.                                *)
(*                                                                         *)
(* Message 1 and 2 cross between two users with timestamps in the opposite *)
(* order of their ids, 3 is a message of the first user to herself with    *)
(* the timestamp of 2: only the id tells 2 and 3 apart.                    *)
(***************************************************************************)
EXTENDS SubscriptionsHandler, TLC

CONSTANTS alice, bob, s1, s2, s3

MCUserId == {alice, bob}
MCFrom == Restrict((1 :> alice) @@ (2 :> bob) @@ (3 :> alice), MessageId)
MCTo == Restrict((1 :> bob) @@ (2 :> alice) @@ (3 :> alice), MessageId)
MCTimestamp == Restrict((1 :> 2) @@ (2 :> 1) @@ (3 :> 1), MessageId)

(* The first two subscriptions are one user's: they share a channel, or    *)
(* follow each other on different ones.  The third is the other user's.    *)
MCSubscriber ==
  Restrict((s1 :> alice) @@ (s2 :> alice) @@ (s3 :> bob), SubscriptionId)
=============================================================================
