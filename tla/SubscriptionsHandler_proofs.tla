-------------------- MODULE SubscriptionsHandler_proofs --------------------
(***************************************************************************)
(* What SubscriptionsHandler guarantees for any users, messages,           *)
(* subscriptions and capacity.                                             *)
(***************************************************************************)
EXTENDS SubscriptionsHandler, FiniteSetTheorems, TLAPS

(* The rows a query returns are a sequence of messages without repetition. *)
LEMMA ByTimestampRows ==
  ASSUME NEW S, S \subseteq MessageId, NEW rows \in ByTimestamp(S)
  PROVE  /\ rows \in Seq(MessageId)
         /\ Range(rows) = S
         /\ IsInjective(rows)
<1>1. IsFiniteSet(S)
  BY FS_Subset, MessageAssumption
<1>2. Cardinality(S) \in Nat
  BY <1>1, FS_CardinalityType
<1>3. rows \in [1..Cardinality(S) -> S] /\ Range(rows) = S
  BY DEF ByTimestamp
<1>4. rows \in Seq(MessageId)
  BY <1>2, <1>3
<1>5. \A i, j \in DOMAIN rows : i < j => rows[i] # rows[j]
  BY DEF ByTimestamp
<1>6. IsInjective(rows)
  <2> SUFFICES ASSUME NEW i \in DOMAIN rows, NEW j \in DOMAIN rows, rows[i] = rows[j]
               PROVE  i = j
    BY DEF IsInjective
  <2>1. i \in Nat /\ j \in Nat
    BY <1>2, <1>3
  <2> QED BY <1>5, <2>1
<1> QED BY <1>3, <1>4, <1>6

(* A query returns messages. *)
LEMMA SinceType ==
  ASSUME NEW table, table \subseteq MessageId, NEW u, NEW p
  PROVE  UsersMessagesSince(table, u, p) \subseteq MessageId
BY DEF UsersMessagesSince

(* Sending on a channel keeps the channels sequences of messages that only *)
(* grow.                                                                   *)
LEMMA PublishType ==
  ASSUME log \in [SubscriptionId -> Seq(MessageId)],
         NEW m \in MessageId, NEW u \in UserId
  PROVE  /\ Publish(m, u) \in [SubscriptionId -> Seq(MessageId)]
         /\ \A c \in SubscriptionId : Len(Publish(m, u)[c]) >= Len(log[c])
BY DEF Publish

LEMMA TypeInit == Init => TypeOK
BY MessageAssumption, SubscriptionAssumption DEF Init, TypeOK, SendPhase, Receiving

(* A receiver that takes the next message stays behind its channel's end.  *)
LEMMA CursorStep ==
  ASSUME TypeOK, NEW s \in SubscriptionId, Receives(s),
         cursor' = [cursor EXCEPT ![s] = @ + 1], UNCHANGED <<phase, rx, log>>
  PROVE  /\ cursor' \in [SubscriptionId -> Nat]
         /\ \A t \in Receiving' : rx'[t] \in SubscriptionId /\ cursor'[t] <= Len(log'[rx'[t]])
<1>1. /\ cursor \in [SubscriptionId -> Nat]
      /\ \A t \in Receiving : rx[t] \in SubscriptionId /\ cursor[t] <= Len(log[rx[t]])
      /\ \A t \in Receiving : Len(log[rx[t]]) \in Nat
  BY DEF TypeOK, Receiving
<1>2. cursor' \in [SubscriptionId -> Nat]
  BY <1>1
<1>3. Receiving' = Receiving /\ rx' = rx /\ log' = log
  BY DEF Receiving
<1>4. s \in Receiving /\ cursor[s] < Len(log[rx[s]])
  BY DEF Receives, Receiving
<1>5. ASSUME NEW t \in Receiving PROVE cursor'[t] <= Len(log[rx[t]])
  <2>1. t \in SubscriptionId
    BY DEF Receiving
  <2>2. CASE t = s
    BY <1>1, <1>4, <2>1, <2>2
  <2>3. CASE t # s
    BY <1>1, <2>1, <2>3
  <2> QED BY <2>2, <2>3
<1> QED BY <1>1, <1>2, <1>3, <1>5

LEMMA TypeNext == TypeOK /\ [Next]_vars => TypeOK'
<1> SUFFICES ASSUME TypeOK, [Next]_vars PROVE TypeOK'
  OBVIOUS
<1> USE MessageAssumption, SubscriptionAssumption
<1>1. ASSUME NEW m \in MessageId, CreateMessage(m) PROVE TypeOK'
  BY <1>1 DEF TypeOK, SendPhase, Receiving, CreateMessage, subVars
<1>2. ASSUME NEW m \in MessageId, CreateMessageFails(m) PROVE TypeOK'
  BY <1>2 DEF TypeOK, SendPhase, Receiving, CreateMessageFails, subVars
<1>3. ASSUME NEW m \in MessageId, HandleFromFails(m) PROVE TypeOK'
  BY <1>3 DEF TypeOK, SendPhase, Receiving, HandleFromFails, subVars
<1>4. ASSUME NEW m \in MessageId, HandleFrom(m) PROVE TypeOK'
  <2>1. /\ log' \in [SubscriptionId -> Seq(MessageId)]
        /\ \A c \in SubscriptionId : Len(log'[c]) >= Len(log[c])
    BY <1>4, PublishType DEF HandleFrom, TypeOK
  <2> QED BY <1>4, <2>1 DEF TypeOK, SendPhase, Receiving, HandleFrom, subVars
<1>5. ASSUME NEW m \in MessageId, HandleToFails(m) PROVE TypeOK'
  BY <1>5 DEF TypeOK, SendPhase, Receiving, HandleToFails, subVars
<1>6. ASSUME NEW m \in MessageId, HandleTo(m) PROVE TypeOK'
  <2>1. /\ log' \in [SubscriptionId -> Seq(MessageId)]
        /\ \A c \in SubscriptionId : Len(log'[c]) >= Len(log[c])
    BY <1>6, PublishType DEF HandleTo, TypeOK
  <2> QED BY <1>6, <2>1 DEF TypeOK, SendPhase, Receiving, HandleTo, subVars
<1>7. ASSUME NEW s \in SubscriptionId, NEW p \in stored \cup {NoStart, UnknownId},
             Subscribe(s, p)
      PROVE  TypeOK'
  <2>1. /\ log' = log
        /\ \A t \in SubscriptionId \ {s} :
             phase'[t] = phase[t] /\ rx'[t] = rx[t] /\ cursor'[t] = cursor[t]
        /\ rx'[s] \in SubscriptionId /\ cursor'[s] = Len(log[rx'[s]])
    BY <1>7 DEF TypeOK, Subscribe
  <2>2. \A t \in Receiving' : rx'[t] \in SubscriptionId /\ cursor'[t] <= Len(log'[rx'[t]])
    <3> SUFFICES ASSUME NEW t \in Receiving'
                 PROVE  rx'[t] \in SubscriptionId /\ cursor'[t] <= Len(log[rx'[t]])
      BY <2>1
    <3>1. CASE t = s
      <4>1. Len(log[rx'[s]]) \in Nat
        BY <2>1 DEF TypeOK
      <4> QED BY <2>1, <3>1, <4>1
    <3>2. CASE t # s
      <4>1. t \in Receiving
        BY <2>1, <3>2 DEF Receiving
      <4> QED BY <2>1, <3>2, <4>1 DEF TypeOK, Receiving
    <3> QED BY <3>1, <3>2
  <2>3. /\ new_messages' \in [UserId -> SubscriptionId \cup {NoChannel}]
        /\ rx' \in [SubscriptionId -> SubscriptionId \cup {NoChannel}]
        /\ cursor' \in [SubscriptionId -> Nat]
    BY <1>7 DEF TypeOK, Subscribe
  <2>4. /\ start' \in [SubscriptionId -> MessageId \cup {NoStart, UnknownId}]
        /\ baseline' \in [SubscriptionId -> SUBSET MessageId]
        /\ phase' \in [SubscriptionId -> {"idle", "fetching", "piping", "ended"}]
        /\ UNCHANGED <<stored, send, log, history, live, open>>
    BY <1>7 DEF TypeOK, Subscribe, sendVars
  <2> QED BY <2>2, <2>3, <2>4 DEF TypeOK
<1>8. ASSUME NEW s \in SubscriptionId, Fetch(s) PROVE TypeOK'
  <2>1. PICK rows \in ByTimestamp(UsersMessagesSince(stored, Subscriber[s], start[s])) :
          history' = [history EXCEPT ![s] = rows]
    BY <1>8 DEF Fetch
  <2>2. rows \in Seq(MessageId)
    BY ByTimestampRows, SinceType DEF TypeOK
  <2> QED BY <1>8, <2>1, <2>2 DEF TypeOK, Receiving, Fetch, sendVars
<1>9. ASSUME NEW s \in SubscriptionId, End(s) PROVE TypeOK'
  BY <1>9 DEF TypeOK, Receiving, End, sendVars
<1>10. ASSUME NEW s \in SubscriptionId, PipeForward(s) PROVE TypeOK'
  <2>1. log[rx[s]][cursor[s] + 1] \in MessageId
    BY <1>10 DEF TypeOK, PipeForward, Receives, Receiving
  <2>2. live' \in [SubscriptionId -> Seq(MessageId)]
    BY <1>10, <2>1 DEF TypeOK, PipeForward
  <2>3. /\ cursor' \in [SubscriptionId -> Nat]
        /\ \A t \in Receiving' : rx'[t] \in SubscriptionId /\ cursor'[t] <= Len(log'[rx'[t]])
    BY <1>10, CursorStep DEF PipeForward
  <2> QED BY <1>10, <2>2, <2>3 DEF TypeOK, PipeForward, sendVars
<1>11. ASSUME NEW s \in SubscriptionId, PipeSkip(s) PROVE TypeOK'
  <2>1. /\ cursor' \in [SubscriptionId -> Nat]
        /\ \A t \in Receiving' : rx'[t] \in SubscriptionId /\ cursor'[t] <= Len(log'[rx'[t]])
    BY <1>11, CursorStep DEF PipeSkip
  <2> QED BY <1>11, <2>1 DEF TypeOK, PipeSkip, sendVars
<1>12. ASSUME NEW s \in SubscriptionId, Disconnect(s) PROVE TypeOK'
  BY <1>12 DEF TypeOK, Receiving, Disconnect, sendVars
<1>13. CASE Cleanup
  BY <1>13 DEF TypeOK, Receiving, Cleanup, sendVars, subVars
<1>14. CASE UNCHANGED vars
  BY <1>14 DEF TypeOK, Receiving, vars, subVars
<1> QED
  BY <1>1, <1>2, <1>3, <1>4, <1>5, <1>6, <1>7, <1>8, <1>9, <1>10, <1>11, <1>12, <1>13, <1>14
     DEF Next, SendMessage, HandleNewMessage, FetchFails, Pipe, PipeBroken, PipeClosed

(* Every variable keeps its type and no receiver runs ahead of its channel.*)
THEOREM TypeCorrect == Spec => []TypeOK
<1>1. SafetySpec => []TypeOK
  BY TypeInit, TypeNext, PTL DEF SafetySpec
<1> QED BY <1>1, PTL DEF Spec

-----------------------------------------------------------------------------
(* A receiver reads the channel the map holds for its user.                *)

LEMMA RegisteredInit == Init => NoOrphanedReceiver
BY DEF Init, NoOrphanedReceiver, Receiving

LEMMA RegisteredNext ==
  TypeOK /\ NoOrphanedReceiver /\ [Next]_vars => NoOrphanedReceiver'
<1> SUFFICES ASSUME TypeOK, NoOrphanedReceiver, [Next]_vars PROVE NoOrphanedReceiver'
  OBVIOUS
<1> USE SubscriptionAssumption
<1> USE DEF NoOrphanedReceiver, Receiving
<1>1. ASSUME NEW m \in MessageId, SendMessage(m) \/ HandleNewMessage(m)
      PROVE  NoOrphanedReceiver'
  BY <1>1 DEF SendMessage, CreateMessage, CreateMessageFails, HandleNewMessage,
     HandleFromFails, HandleFrom, HandleToFails, HandleTo, subVars
<1>2. ASSUME NEW s \in SubscriptionId, NEW p \in stored \cup {NoStart, UnknownId},
             Subscribe(s, p)
      PROVE  NoOrphanedReceiver'
  BY <1>2 DEF TypeOK, Subscribe
<1>3. ASSUME NEW s \in SubscriptionId, Fetch(s) PROVE NoOrphanedReceiver'
  BY <1>3 DEF TypeOK, Fetch
<1>4. ASSUME NEW s \in SubscriptionId, End(s) PROVE NoOrphanedReceiver'
  BY <1>4 DEF TypeOK, End
<1>5. ASSUME NEW s \in SubscriptionId, PipeForward(s) \/ PipeSkip(s) \/ Disconnect(s)
      PROVE  NoOrphanedReceiver'
  BY <1>5 DEF PipeForward, PipeSkip, Disconnect
<1>6. CASE Cleanup
  BY <1>6 DEF TypeOK, Cleanup, Unused, Receivers, subVars
<1>7. CASE UNCHANGED vars
  BY <1>7 DEF vars, subVars
<1> QED
  BY <1>1, <1>2, <1>3, <1>4, <1>5, <1>6, <1>7
     DEF Next, FetchFails, Pipe, PipeBroken, PipeClosed

(* The cleanup job never takes the channel of a user who has a receiver.   *)
THEOREM RegisteredCorrect == Spec => []NoOrphanedReceiver
<1>1. SafetySpec => [](TypeOK /\ NoOrphanedReceiver)
  BY TypeInit, TypeNext, RegisteredInit, RegisteredNext, PTL DEF SafetySpec
<1> QED BY <1>1, PTL DEF Spec

-----------------------------------------------------------------------------
(* What is on the channels.                                                *)

(* A message on channel c has been handled as far as the send to the user  *)
(* the channel belongs to.                                                 *)
Published(m, c) ==
  \/ send[m] = "sending" /\ Subscriber[c] = From[m]
  \/ send[m] \in {"sent", "unheard"} /\ Concerns(m, Subscriber[c])

(* A channel of the map belongs to its user, a channel carries a message   *)
(* at most once, and messages are handled after they are stored.           *)
ChannelInv ==
  /\ \A u \in UserId : new_messages[u] # NoChannel => Subscriber[new_messages[u]] = u
  /\ \A c \in SubscriptionId : IsInjective(log[c])
  /\ \A c \in SubscriptionId : \A m \in Range(log[c]) : Published(m, c)
  /\ \A m \in MessageId : send[m] = "sending" => From[m] # To[m]
  /\ \A m \in MessageId : send[m] \notin {"unsent", "failed"} => m \in stored

(* Append adds one element at the end.                                     *)
LEMMA AppendFacts ==
  ASSUME NEW T, NEW q \in Seq(T), NEW e \in T
  PROVE  /\ Append(q, e) \in Seq(T)
         /\ Len(Append(q, e)) = Len(q) + 1
         /\ \A i \in 1..Len(q) : Append(q, e)[i] = q[i]
         /\ Append(q, e)[Len(q) + 1] = e
         /\ Range(Append(q, e)) = Range(q) \cup {e}
         /\ IsInjective(q) /\ e \notin Range(q) => IsInjective(Append(q, e))
<1>1. /\ Append(q, e) \in Seq(T)
      /\ Len(Append(q, e)) = Len(q) + 1
      /\ DOMAIN q = 1..Len(q)
      /\ DOMAIN Append(q, e) = 1..Len(q) + 1
      /\ \A i \in 1..Len(q) : Append(q, e)[i] = q[i]
      /\ Append(q, e)[Len(q) + 1] = e
      /\ Len(q) \in Nat
  OBVIOUS
<1>2. Range(Append(q, e)) = Range(q) \cup {e}
  BY <1>1 DEF Range
<1>3. IsInjective(q) /\ e \notin Range(q) => IsInjective(Append(q, e))
  BY <1>1 DEF Range, IsInjective
<1> QED BY <1>1, <1>2, <1>3

(* A send adds the message to the user's channel and to no other.          *)
LEMMA PublishFacts ==
  ASSUME TypeOK, NEW m \in MessageId, NEW u \in UserId, NEW c \in SubscriptionId
  PROVE  /\ c # new_messages[u] => Publish(m, u)[c] = log[c]
         /\ c = new_messages[u] =>
              /\ Publish(m, u)[c] = Append(log[c], m)
              /\ Range(Publish(m, u)[c]) = Range(log[c]) \cup {m}
              /\ IsInjective(log[c]) /\ m \notin Range(log[c])
                   => IsInjective(Publish(m, u)[c])
BY AppendFacts DEF TypeOK, Publish

LEMMA ChannelInit == Init => ChannelInv
BY SubscriptionAssumption DEF Init, ChannelInv, IsInjective, Range

LEMMA ChannelNext == TypeOK /\ ChannelInv /\ [Next]_vars => ChannelInv'
<1> SUFFICES ASSUME TypeOK, ChannelInv, [Next]_vars PROVE ChannelInv'
  OBVIOUS
<1> USE MessageAssumption, SubscriptionAssumption
<1>0. \A c \in SubscriptionId : Range(log[c]) \subseteq MessageId
  BY DEF TypeOK, Range
<1>1. ASSUME NEW m \in MessageId, SendMessage(m) PROVE ChannelInv'
  <2>1. /\ log' = log /\ new_messages' = new_messages
        /\ \A n \in MessageId : send'[n] # send[n] => n = m /\ send[m] = "unsent"
        /\ \A n \in MessageId : send[n] = "unsent" \/ send'[n] = send[n]
    BY <1>1 DEF TypeOK, SendMessage, CreateMessage, CreateMessageFails
  <2> QED BY <1>0, <1>1, <2>1
          DEF ChannelInv, Published, TypeOK, SendMessage, CreateMessage, CreateMessageFails
<1>2. ASSUME NEW m \in MessageId, HandleFromFails(m) PROVE ChannelInv'
  BY <1>0, <1>2 DEF ChannelInv, Published, TypeOK, HandleFromFails
<1>3. ASSUME NEW m \in MessageId, HandleFrom(m) PROVE ChannelInv'
  <2>1. \A c \in SubscriptionId : m \notin Range(log[c])
    BY <1>3 DEF ChannelInv, Published, HandleFrom
  <2>2. \A c \in SubscriptionId : IsInjective(log'[c])
    BY <1>3, <2>1, PublishFacts DEF ChannelInv, HandleFrom
  <2>3. ASSUME NEW c \in SubscriptionId, NEW n \in Range(log'[c]) PROVE Published(n, c)'
    <3>0. From[m] \in UserId /\ log' = Publish(m, From[m])
      BY <1>3 DEF HandleFrom
    <3>1. n \in Range(log[c]) \/ (n = m /\ c = new_messages[From[m]])
      <4>1. CASE c = new_messages[From[m]]
        <5>1. Range(Publish(m, From[m])[c]) = Range(log[c]) \cup {m}
          BY <3>0, <4>1, PublishFacts
        <5> QED BY <2>3, <3>0, <4>1, <5>1
      <4>2. CASE c # new_messages[From[m]]
        <5>1. Publish(m, From[m])[c] = log[c]
          BY <3>0, <4>2, PublishFacts
        <5> QED BY <2>3, <3>0, <5>1
      <4> QED BY <4>1, <4>2
    <3>2. CASE n \in Range(log[c])
      BY <1>0, <1>3, <2>1, <3>2 DEF ChannelInv, Published, TypeOK, HandleFrom
    <3>3. CASE n = m /\ c = new_messages[From[m]]
      BY <1>3, <3>3 DEF ChannelInv, Published, Concerns, TypeOK, HandleFrom
    <3> QED BY <3>1, <3>2, <3>3
  <2> QED BY <1>3, <2>2, <2>3 DEF ChannelInv, TypeOK, HandleFrom
<1>4. ASSUME NEW m \in MessageId, HandleToFails(m) PROVE ChannelInv'
  BY <1>0, <1>4 DEF ChannelInv, Published, Concerns, TypeOK, HandleToFails
<1>5. ASSUME NEW m \in MessageId, HandleTo(m) PROVE ChannelInv'
  <2>1. \A c \in SubscriptionId : c = new_messages[To[m]] => m \notin Range(log[c])
    BY <1>5 DEF ChannelInv, Published, HandleTo
  <2>2. \A c \in SubscriptionId : IsInjective(log'[c])
    BY <1>5, <2>1, PublishFacts DEF ChannelInv, HandleTo
  <2>3. ASSUME NEW c \in SubscriptionId, NEW n \in Range(log'[c]) PROVE Published(n, c)'
    <3>0. To[m] \in UserId /\ log' = Publish(m, To[m])
      BY <1>5 DEF HandleTo
    <3>1. n \in Range(log[c]) \/ (n = m /\ c = new_messages[To[m]])
      <4>1. CASE c = new_messages[To[m]]
        <5>1. Range(Publish(m, To[m])[c]) = Range(log[c]) \cup {m}
          BY <3>0, <4>1, PublishFacts
        <5> QED BY <2>3, <3>0, <4>1, <5>1
      <4>2. CASE c # new_messages[To[m]]
        <5>1. Publish(m, To[m])[c] = log[c]
          BY <3>0, <4>2, PublishFacts
        <5> QED BY <2>3, <3>0, <5>1
      <4> QED BY <4>1, <4>2
    <3>2. CASE n \in Range(log[c])
      BY <1>0, <1>5, <3>2 DEF ChannelInv, Published, Concerns, TypeOK, HandleTo
    <3>3. CASE n = m /\ c = new_messages[To[m]]
      BY <1>5, <3>3 DEF ChannelInv, Published, Concerns, TypeOK, HandleTo
    <3> QED BY <3>1, <3>2, <3>3
  <2> QED BY <1>5, <2>2, <2>3 DEF ChannelInv, TypeOK, HandleTo
<1>6. ASSUME NEW s \in SubscriptionId, NEW p \in stored \cup {NoStart, UnknownId},
             Subscribe(s, p)
      PROVE  ChannelInv'
  BY <1>6 DEF ChannelInv, Published, TypeOK, Subscribe, sendVars
<1>7. ASSUME NEW s \in SubscriptionId,
             \/ Fetch(s) \/ End(s) \/ PipeForward(s) \/ PipeSkip(s) \/ Disconnect(s)
      PROVE  ChannelInv'
  BY <1>7 DEF ChannelInv, Published, Fetch, End, PipeForward, PipeSkip, Disconnect, sendVars
<1>8. CASE Cleanup
  BY <1>8 DEF ChannelInv, Published, TypeOK, Cleanup, sendVars
<1>9. CASE UNCHANGED vars
  BY <1>9 DEF ChannelInv, Published, vars
<1> QED
  BY <1>1, <1>2, <1>3, <1>4, <1>5, <1>6, <1>7, <1>8, <1>9
     DEF Next, HandleNewMessage, FetchFails, Pipe, PipeBroken, PipeClosed

-----------------------------------------------------------------------------
(* What has been sent to the readers.                                      *)

(* What a subscription forwarded stands on the part of its channel that    *)
(* its receiver has read; before the query returns nothing was sent.       *)
ReaderInv ==
  /\ \A s \in SubscriptionId :
       phase[s] \in {"idle", "fetching"} => history[s] = <<>> /\ live[s] = <<>>
  /\ \A s \in SubscriptionId : phase[s] = "piping" =>
       \A m \in Range(live[s]) : \E i \in 1..cursor[s] : log[rx[s]][i] = m
  /\ NoDuplicates
  /\ OnlyOwnMessages

(* The empty sequence.                                                     *)
LEMMA EmptyFacts == Range(<<>>) = {} /\ IsInjective(<<>>)
BY DEF Range, IsInjective

LEMMA ReaderInit == Init => ReaderInv
BY EmptyFacts, SubscriptionAssumption DEF Init, ReaderInv, NoDuplicates, OnlyOwnMessages, Delivered

(* The messages already on a channel keep their place there.               *)
LEMMA PublishKeeps ==
  ASSUME TypeOK, NEW m \in MessageId, NEW u \in UserId, NEW c \in SubscriptionId
  PROVE  /\ Len(Publish(m, u)[c]) >= Len(log[c])
         /\ \A i \in 1..Len(log[c]) : Publish(m, u)[c][i] = log[c][i]
BY AppendFacts DEF TypeOK, Publish

(* A step that sends nothing to a reader and deletes no row.               *)
LEMMA DeliveredFrame ==
  ASSUME ReaderInv, UNCHANGED <<history, live>>, stored \subseteq stored'
  PROVE  NoDuplicates' /\ OnlyOwnMessages'
<1>1. NoDuplicates'
  BY DEF ReaderInv, NoDuplicates
<1>2. OnlyOwnMessages'
  BY DEF ReaderInv, OnlyOwnMessages, Delivered
<1> QED BY <1>1, <1>2

(* A step that sends nothing to a reader and leaves the receivers of the   *)
(* subscriptions where they are keeps ReaderInv, as long as no row is      *)
(* deleted and the channels only grow.                                     *)
LEMMA ReaderFrame ==
  ASSUME TypeOK, ReaderInv,
         UNCHANGED <<phase, rx, cursor, history, live>>,
         stored \subseteq stored',
         \A c \in SubscriptionId : \A i \in 1..Len(log[c]) : log'[c][i] = log[c][i]
  PROVE  ReaderInv'
<1>1. ASSUME NEW s \in SubscriptionId, phase[s] = "piping", NEW m \in Range(live[s])
      PROVE  \E i \in 1..cursor[s] : log'[rx[s]][i] = m
  <2>1. PICK i \in 1..cursor[s] : log[rx[s]][i] = m
    BY <1>1 DEF ReaderInv
  <2>2. rx[s] \in SubscriptionId /\ i \in 1..Len(log[rx[s]])
    BY <1>1 DEF TypeOK, Receiving
  <2> QED BY <2>1, <2>2
<1> QED BY <1>1 DEF ReaderInv, NoDuplicates, OnlyOwnMessages, Delivered

LEMMA ReaderNext ==
  TypeOK /\ NoOrphanedReceiver /\ ChannelInv /\ ReaderInv /\ [Next]_vars => ReaderInv'
<1> SUFFICES ASSUME TypeOK, NoOrphanedReceiver, ChannelInv, ReaderInv, [Next]_vars
             PROVE  ReaderInv'
  OBVIOUS
<1> USE MessageAssumption, SubscriptionAssumption
<1>1. ASSUME NEW m \in MessageId, SendMessage(m) PROVE ReaderInv'
  BY <1>1, ReaderFrame DEF SendMessage, CreateMessage, CreateMessageFails, subVars
<1>2. ASSUME NEW m \in MessageId, HandleNewMessage(m) PROVE ReaderInv'
  <2>1. CASE HandleFromFails(m) \/ HandleToFails(m)
    BY <2>1, ReaderFrame DEF HandleFromFails, HandleToFails, subVars
  <2>2. CASE HandleFrom(m)
    <3>1. From[m] \in UserId /\ log' = Publish(m, From[m])
      BY <2>2 DEF HandleFrom
    <3>2. \A c \in SubscriptionId : \A i \in 1..Len(log[c]) : log'[c][i] = log[c][i]
      BY <3>1, PublishKeeps
    <3> QED BY <2>2, <3>2, ReaderFrame DEF HandleFrom, subVars
  <2>3. CASE HandleTo(m)
    <3>1. To[m] \in UserId /\ log' = Publish(m, To[m])
      BY <2>3 DEF HandleTo
    <3>2. \A c \in SubscriptionId : \A i \in 1..Len(log[c]) : log'[c][i] = log[c][i]
      BY <3>1, PublishKeeps
    <3> QED BY <2>3, <3>2, ReaderFrame DEF HandleTo, subVars
  <2> QED BY <1>2, <2>1, <2>2, <2>3 DEF HandleNewMessage
<1>3. ASSUME NEW s \in SubscriptionId, NEW p \in stored \cup {NoStart, UnknownId},
             Subscribe(s, p)
      PROVE  ReaderInv'
  <2>1. history[s] = <<>> /\ live[s] = <<>>
    BY <1>3 DEF ReaderInv, Subscribe
  <2>2. NoDuplicates' /\ OnlyOwnMessages'
    BY <1>3, DeliveredFrame DEF Subscribe, sendVars
  <2>3. ASSUME NEW t \in SubscriptionId, phase'[t] \in {"idle", "fetching"}
        PROVE  history'[t] = <<>> /\ live'[t] = <<>>
    BY <1>3, <2>1, <2>3 DEF ReaderInv, TypeOK, Subscribe
  <2>4. ASSUME NEW t \in SubscriptionId, phase'[t] = "piping", NEW m \in Range(live'[t])
        PROVE  \E i \in 1..cursor'[t] : log'[rx'[t]][i] = m
    <3>1. t # s
      BY <1>3, <2>1, <2>4, EmptyFacts DEF Subscribe
    <3> QED BY <1>3, <2>4, <3>1 DEF ReaderInv, TypeOK, Subscribe
  <2> QED BY <2>2, <2>3, <2>4 DEF ReaderInv
<1>4. ASSUME NEW s \in SubscriptionId, Fetch(s) PROVE ReaderInv'
  <2>1. PICK rows \in ByTimestamp(UsersMessagesSince(stored, Subscriber[s], start[s])) :
          history' = [history EXCEPT ![s] = rows]
    BY <1>4 DEF Fetch
  <2>2. /\ Range(rows) = UsersMessagesSince(stored, Subscriber[s], start[s])
        /\ IsInjective(rows)
    BY ByTimestampRows, SinceType DEF TypeOK
  <2>3. \A m \in Range(rows) : m \in stored /\ Concerns(m, Subscriber[s])
    BY <2>2 DEF UsersMessagesSince
  <2>4. live[s] = <<>>
    BY <1>4 DEF ReaderInv, Fetch
  <2> QED BY <1>4, <2>1, <2>2, <2>3, <2>4, EmptyFacts
     DEF ReaderInv, NoDuplicates, OnlyOwnMessages, Delivered, TypeOK, Fetch, sendVars
<1>5. ASSUME NEW s \in SubscriptionId, End(s) PROVE ReaderInv'
  <2>1. NoDuplicates' /\ OnlyOwnMessages'
    BY <1>5, DeliveredFrame DEF End, sendVars
  <2>2. phase'[s] = "ended"
    BY <1>5 DEF TypeOK, End
  <2>3. \A t \in SubscriptionId : t # s =>
          phase'[t] = phase[t] /\ rx'[t] = rx[t] /\ cursor'[t] = cursor[t]
    BY <1>5 DEF TypeOK, End
  <2>4. UNCHANGED <<history, live, log>>
    BY <1>5 DEF End
  <2>5. \A t \in SubscriptionId :
          phase'[t] \in {"idle", "fetching"} => history'[t] = <<>> /\ live'[t] = <<>>
    BY <2>2, <2>3, <2>4 DEF ReaderInv
  <2>6. ASSUME NEW t \in SubscriptionId, phase'[t] = "piping", NEW m \in Range(live'[t])
        PROVE  \E i \in 1..cursor'[t] : log'[rx'[t]][i] = m
    <3>1. t # s /\ phase[t] = "piping" /\ m \in Range(live[t])
      BY <2>2, <2>3, <2>4, <2>6
    <3> QED BY <2>3, <2>4, <3>1 DEF ReaderInv
  <2> QED BY <2>1, <2>5, <2>6 DEF ReaderInv
<1>6. ASSUME NEW s \in SubscriptionId, PipeForward(s) PROVE ReaderInv'
  <2> DEFINE k == cursor[s] + 1
             m == log[rx[s]][k]
  <2>1. /\ phase[s] = "piping"
        /\ rx[s] \in SubscriptionId
        /\ k \in 1..Len(log[rx[s]])
        /\ m \in MessageId
        /\ m \in Range(log[rx[s]])
    BY <1>6 DEF PipeForward, Receives, Receiving, TypeOK, Range
  <2>2. m \notin Range(history[s])
    BY <1>6 DEF PipeForward, Forwards
  <2>3. m \notin Range(live[s])
    <3> SUFFICES ASSUME m \in Range(live[s]) PROVE FALSE
      OBVIOUS
    <3>1. PICK i \in 1..cursor[s] : log[rx[s]][i] = m
      BY <2>1 DEF ReaderInv
    <3>2. i \in 1..Len(log[rx[s]]) /\ i # k /\ cursor[s] \in Nat
      BY <2>1 DEF TypeOK
    <3> QED BY <2>1, <3>1, <3>2 DEF ChannelInv, IsInjective, TypeOK
  <2>4. /\ live'[s] = Append(live[s], m)
        /\ Range(live'[s]) = Range(live[s]) \cup {m}
        /\ IsInjective(live'[s])
    BY <1>6, <2>1, <2>3, AppendFacts DEF PipeForward, TypeOK, ReaderInv, NoDuplicates
  <2>5. m \in stored /\ Concerns(m, Subscriber[s])
    <3>1. Published(m, rx[s])
      BY <2>1 DEF ChannelInv
    <3>2. Subscriber[rx[s]] = Subscriber[s]
      BY <2>1 DEF NoOrphanedReceiver, ChannelInv, Receiving
    <3> QED BY <2>1, <3>1, <3>2 DEF Published, Concerns, ChannelInv
  <2>6. \A t \in SubscriptionId : t # s => live'[t] = live[t]
    BY <1>6 DEF PipeForward, TypeOK
  <2>7. ASSUME NEW t \in SubscriptionId, phase[t] = "piping", NEW n \in Range(live'[t])
        PROVE  \E i \in 1..cursor'[t] : log[rx[t]][i] = n
    <3>1. CASE t = s
      <4>1. cursor'[s] = k /\ cursor[s] \in Nat
        BY <1>6 DEF PipeForward, TypeOK
      <4>2. CASE n = m
        BY <2>1, <3>1, <4>1, <4>2
      <4>3. CASE n \in Range(live[s])
        BY <2>1, <3>1, <4>1, <4>3 DEF ReaderInv
      <4> QED BY <2>4, <2>7, <3>1, <4>2, <4>3
    <3>2. CASE t # s
      <4>0. cursor \in [SubscriptionId -> Nat] /\ live \in [SubscriptionId -> Seq(MessageId)]
        BY DEF TypeOK
      <4>1. cursor'[t] = cursor[t] /\ live'[t] = live[t]
        BY <1>6, <3>2, <4>0 DEF PipeForward
      <4>2. \E i \in 1..cursor[t] : log[rx[t]][i] = n
        BY <2>7, <4>1 DEF ReaderInv
      <4> QED BY <4>1, <4>2
    <3> QED BY <3>1, <3>2
  <2>8. NoDuplicates'
    <3>1. history' = history
      BY <1>6 DEF PipeForward
    <3>2. Range(history[s]) \cap Range(live'[s]) = {}
      BY <2>2, <2>4 DEF ReaderInv, NoDuplicates
    <3> QED BY <2>4, <2>6, <3>1, <3>2 DEF ReaderInv, NoDuplicates
  <2>9. OnlyOwnMessages'
    BY <1>6, <2>4, <2>5, <2>6 DEF ReaderInv, OnlyOwnMessages, Delivered, PipeForward, sendVars
  <2>10. \A t \in SubscriptionId :
          phase'[t] \in {"idle", "fetching"} => history'[t] = <<>> /\ live'[t] = <<>>
    BY <1>6, <2>1, <2>6 DEF ReaderInv, PipeForward
  <2>11. UNCHANGED <<phase, rx, log>>
    BY <1>6 DEF PipeForward
  <2> QED BY <2>7, <2>8, <2>9, <2>10, <2>11 DEF ReaderInv
<1>7. ASSUME NEW s \in SubscriptionId, PipeSkip(s) PROVE ReaderInv'
  <2>0. cursor \in [SubscriptionId -> Nat] /\ cursor' = [cursor EXCEPT ![s] = @ + 1]
    BY <1>7 DEF PipeSkip, TypeOK
  <2>1. /\ \A t \in SubscriptionId : cursor'[t] \in Nat /\ cursor'[t] >= cursor[t]
        /\ UNCHANGED <<stored, log, phase, rx, history, live>>
    <3>1. \A t \in SubscriptionId : cursor'[t] \in Nat /\ cursor'[t] >= cursor[t]
      BY <2>0
    <3>2. UNCHANGED <<stored, log, phase, rx, history, live>>
      BY <1>7 DEF PipeSkip, sendVars
    <3> QED BY <3>1, <3>2
  <2>2. NoDuplicates' /\ OnlyOwnMessages'
    BY <2>1, DeliveredFrame
  <2>3. ASSUME NEW t \in SubscriptionId, phase[t] = "piping", NEW m \in Range(live[t])
        PROVE  \E i \in 1..cursor'[t] : log[rx[t]][i] = m
    <3>1. PICK i \in 1..cursor[t] : log[rx[t]][i] = m
      BY <2>3 DEF ReaderInv
    <3>2. i \in 1..cursor'[t]
      BY <2>0, <2>1, <3>1
    <3> QED BY <3>1, <3>2
  <2>4. \A t \in SubscriptionId :
           phase'[t] \in {"idle", "fetching"} => history'[t] = <<>> /\ live'[t] = <<>>
    BY <2>1 DEF ReaderInv
  <2>5. \A t \in SubscriptionId : phase'[t] = "piping" =>
           \A m \in Range(live'[t]) : \E i \in 1..cursor'[t] : log'[rx'[t]][i] = m
    <3>1. phase' = phase /\ live' = live /\ log' = log /\ rx' = rx
      BY <2>1
    <3> QED BY <2>3, <3>1
  <2> QED BY <2>2, <2>4, <2>5 DEF ReaderInv
<1>8. ASSUME NEW s \in SubscriptionId, Disconnect(s) PROVE ReaderInv'
  BY <1>8, ReaderFrame DEF Disconnect, sendVars
<1>9. CASE Cleanup
  BY <1>9, ReaderFrame DEF Cleanup, sendVars, subVars
<1>10. CASE UNCHANGED vars
  BY <1>10, ReaderFrame DEF vars, subVars
<1> QED
  BY <1>1, <1>2, <1>3, <1>4, <1>5, <1>6, <1>7, <1>8, <1>9, <1>10
     DEF Next, FetchFails, Pipe, PipeBroken, PipeClosed

-----------------------------------------------------------------------------
(* What a subscription is owed.                                            *)

(* Every message handled since the subscription was made was sent on or is *)
(* unread in its receiver, from before the query on; every row the query   *)
(* had to return was sent first.  A starting point is a row or nothing.    *)
CoverageInv ==
  /\ \A s \in SubscriptionId :
       start[s] \in stored \cup {NoStart, UnknownId} /\ baseline[s] \subseteq stored
  /\ \A s \in Receiving : \A m \in MessageId :
       Owed(m, Subscriber[s]) /\ m \notin baseline[s] => Covered(m, s)
  /\ \A s \in SubscriptionId : phase[s] = "piping" =>
       \A m \in baseline[s] :
         start[s] \in stored /\ After(m, start[s]) /\ Concerns(m, Subscriber[s])
           => m \in Range(history[s])

LEMMA CoverageImplies == TypeOK /\ CoverageInv => NothingMissed
BY DEF TypeOK, CoverageInv, NothingMissed, InScope, Owed, Concerns, Covered, Delivered, Receiving

LEMMA CoverageInit == Init => CoverageInv
BY SubscriptionAssumption DEF Init, CoverageInv, Receiving

(* What covers a message before a step covers it after the step, when the  *)
(* channels only grow and the receiver and the reader are left alone.      *)
LEMMA CoveredKeeps ==
  ASSUME TypeOK, NEW s \in Receiving, NEW m, Covered(m, s),
         rx'[s] = rx[s], cursor'[s] = cursor[s],
         history'[s] = history[s], live'[s] = live[s],
         Len(log'[rx[s]]) \in Nat,
         Len(log'[rx[s]]) >= Len(log[rx[s]]),
         \A i \in 1..Len(log[rx[s]]) : log'[rx[s]][i] = log[rx[s]][i]
  PROVE  Covered(m, s)'
<1>1. CASE m \in Delivered(s)
  BY <1>1 DEF Covered, Delivered
<1>2. CASE m \in Unread(s)
  <2>1. PICK i \in cursor[s] + 1 .. Len(log[rx[s]]) : m = log[rx[s]][i]
    BY <1>2 DEF Unread
  <2>2. rx[s] \in SubscriptionId /\ cursor[s] \in Nat /\ Len(log[rx[s]]) \in Nat
    BY DEF TypeOK, Receiving
  <2>3. i \in cursor[s] + 1 .. Len(log'[rx[s]]) /\ i \in 1..Len(log[rx[s]])
    BY <2>1, <2>2
  <2>4. m \in Unread(s)'
    BY <2>1, <2>3 DEF Unread
  <2> QED BY <2>4 DEF Covered
<1> QED BY <1>1, <1>2 DEF Covered

(* A step that leaves the subscriptions alone and through which nothing    *)
(* becomes owed that is not on the channel of the one it is owed to.       *)
LEMMA CoverageFrame ==
  ASSUME TypeOK, TypeOK', CoverageInv, UNCHANGED subVars,
         stored \subseteq stored',
         \A c \in SubscriptionId : Len(log'[c]) >= Len(log[c]),
         \A c \in SubscriptionId : \A i \in 1..Len(log[c]) : log'[c][i] = log[c][i],
         \A s \in Receiving : \A m \in MessageId :
           Owed(m, Subscriber[s])' => Owed(m, Subscriber[s]) \/ Covered(m, s)' \/ m \in baseline[s]
  PROVE  CoverageInv'
<1> USE SubscriptionAssumption
<1>1. ASSUME NEW s \in SubscriptionId
      PROVE  start'[s] \in stored' \cup {NoStart, UnknownId} /\ baseline'[s] \subseteq stored'
  BY DEF CoverageInv, subVars
<1>2. ASSUME NEW s \in Receiving, NEW m \in MessageId,
             Owed(m, Subscriber[s])', m \notin baseline[s]
      PROVE  Covered(m, s)'
  <2>1. CASE Owed(m, Subscriber[s])
    <3>1. Covered(m, s)
      BY <1>2, <2>1 DEF CoverageInv
    <3>2. rx[s] \in SubscriptionId
      BY DEF TypeOK
    <3>3. Len(log'[rx[s]]) \in Nat
      BY <3>2 DEF TypeOK
    <3>4. /\ rx'[s] = rx[s] /\ cursor'[s] = cursor[s]
          /\ history'[s] = history[s] /\ live'[s] = live[s]
      BY DEF subVars
    <3> QED BY <3>1, <3>2, <3>3, <3>4, CoveredKeeps
  <2>2. CASE ~Owed(m, Subscriber[s])
    BY <1>2, <2>2
  <2> QED BY <2>1, <2>2
<1>3. ASSUME NEW s \in SubscriptionId, phase[s] = "piping", NEW m \in baseline[s],
             start[s] \in stored', After(m, start[s]), Concerns(m, Subscriber[s])
      PROVE  m \in Range(history[s])
  <2>1. start[s] \in stored
    BY <1>3 DEF CoverageInv, TypeOK
  <2> QED BY <1>3, <2>1 DEF CoverageInv
<1>4. Receiving' = Receiving
  BY DEF Receiving, subVars
<1>5. \A m, u : Concerns(m, u)' = Concerns(m, u)
  BY DEF Concerns
<1>6. \A m, p : After(m, p)' = After(m, p)
  BY DEF After
<1> QED BY <1>1, <1>2, <1>3, <1>4, <1>5, <1>6 DEF CoverageInv, subVars

(* What a send puts on the user's channel is unread by all its receivers.  *)
LEMMA PublishCovers ==
  ASSUME TypeOK, TypeOK', NEW s \in Receiving, NEW m \in MessageId, NEW u \in UserId,
         rx[s] = new_messages[u], log' = Publish(m, u), UNCHANGED subVars
  PROVE  Covered(m, s)'
<1>1. rx[s] \in SubscriptionId /\ cursor[s] \in Nat /\ cursor[s] <= Len(log[rx[s]])
  BY DEF TypeOK, Receiving
<1>2. log'[rx[s]] = Append(log[rx[s]], m)
  BY <1>1, PublishFacts
<1>3. /\ Len(log'[rx[s]]) = Len(log[rx[s]]) + 1
      /\ log'[rx[s]][Len(log[rx[s]]) + 1] = m
      /\ Len(log[rx[s]]) \in Nat
  BY <1>1, <1>2, AppendFacts DEF TypeOK
<1>4. rx'[s] = rx[s] /\ cursor'[s] = cursor[s]
  BY DEF subVars
<1>5. Len(log[rx[s]]) + 1 \in cursor[s] + 1 .. Len(log'[rx[s]])
  BY <1>1, <1>3
<1>6. m \in Unread(s)'
  BY <1>3, <1>4, <1>5 DEF Unread
<1> QED BY <1>6 DEF Covered

(* What CoverageInv says of one subscription.                              *)
CoverageOf(s) ==
  /\ start[s] \in stored \cup {NoStart, UnknownId} /\ baseline[s] \subseteq stored
  /\ s \in Receiving => \A m \in MessageId :
       Owed(m, Subscriber[s]) /\ m \notin baseline[s] => Covered(m, s)
  /\ phase[s] = "piping" => \A m \in baseline[s] :
       start[s] \in stored /\ After(m, start[s]) /\ Concerns(m, Subscriber[s])
         => m \in Range(history[s])

LEMMA CoverageByParts == CoverageInv <=> \A s \in SubscriptionId : CoverageOf(s)
BY DEF CoverageInv, CoverageOf, Receiving

(* A step of subscription s leaves the others alone.                       *)
LEMMA CoverageOthers ==
  ASSUME CoverageInv, NEW s \in SubscriptionId,
         UNCHANGED <<stored, send, log>>,
         \A t \in SubscriptionId \ {s} :
           /\ phase'[t] = phase[t] /\ start'[t] = start[t] /\ baseline'[t] = baseline[t]
           /\ rx'[t] = rx[t] /\ cursor'[t] = cursor[t]
           /\ history'[t] = history[t] /\ live'[t] = live[t],
         CoverageOf(s)'
  PROVE  CoverageInv'
<1>1. ASSUME NEW t \in SubscriptionId, t # s PROVE CoverageOf(t)'
  <2>1. CoverageOf(t)
    BY CoverageByParts
  <2>2. \A m : Covered(m, t)' <=> Covered(m, t)
    BY <1>1 DEF Covered, Delivered, Unread
  <2>3. \A m, u : Owed(m, u)' <=> Owed(m, u)
    BY DEF Owed, Concerns
  <2>4. t \in Receiving' <=> t \in Receiving
    BY <1>1 DEF Receiving
  <2> QED BY <1>1, <2>1, <2>2, <2>3, <2>4 DEF CoverageOf, After, Concerns
<1>2. \A t \in SubscriptionId : CoverageOf(t)'
  BY <1>1
<1> QED BY <1>2 DEF CoverageInv, CoverageOf, Receiving

LEMMA CoverageNext ==
  /\ TypeOK /\ TypeOK' /\ NoOrphanedReceiver
  /\ ChannelInv /\ ReaderInv /\ CoverageInv
  /\ [Next]_vars
  => CoverageInv'
<1> SUFFICES ASSUME TypeOK, TypeOK', NoOrphanedReceiver,
                    ChannelInv, ReaderInv, CoverageInv, [Next]_vars
             PROVE  CoverageInv'
  OBVIOUS
<1> USE MessageAssumption, SubscriptionAssumption
<1>0. \A c \in SubscriptionId : Len(log[c]) \in Nat
  BY DEF TypeOK
<1>1. ASSUME NEW m \in MessageId, SendMessage(m) PROVE CoverageInv'
  <2>1. \A n \in MessageId : \A u : Owed(n, u)' => Owed(n, u)
    BY <1>1 DEF SendMessage, CreateMessage, CreateMessageFails, Owed, Concerns, TypeOK
  <2> QED BY <1>0, <1>1, <2>1, CoverageFrame
     DEF SendMessage, CreateMessage, CreateMessageFails
<1>2. ASSUME NEW m \in MessageId, HandleFromFails(m) PROVE CoverageInv'
  <2>1. \A s \in Receiving : Subscriber[s] # From[m]
    BY <1>2 DEF HandleFromFails, SendFails, Receivers, NoOrphanedReceiver, Receiving
  <2>2. \A s \in Receiving : \A n \in MessageId :
          Owed(n, Subscriber[s])' => Owed(n, Subscriber[s])
    BY <1>2, <2>1 DEF HandleFromFails, Owed, Concerns, TypeOK
  <2> QED BY <1>0, <1>2, <2>2, CoverageFrame DEF HandleFromFails
<1>3. ASSUME NEW m \in MessageId, HandleFrom(m) PROVE CoverageInv'
  <2>1. From[m] \in UserId /\ log' = Publish(m, From[m]) /\ UNCHANGED <<stored, subVars>>
    BY <1>3 DEF HandleFrom
  <2>2. ASSUME NEW s \in Receiving, NEW n \in MessageId,
               Owed(n, Subscriber[s])', ~Owed(n, Subscriber[s])
        PROVE  Covered(n, s)'
    <3>1. n = m /\ Subscriber[s] = From[m]
      BY <1>3, <2>2 DEF HandleFrom, Owed, Concerns, TypeOK
    <3>2. rx[s] = new_messages[From[m]]
      BY <3>1 DEF NoOrphanedReceiver
    <3> QED BY <2>1, <3>1, <3>2, PublishCovers
  <2>3. /\ \A c \in SubscriptionId : Len(log'[c]) >= Len(log[c])
        /\ \A c \in SubscriptionId : \A i \in 1..Len(log[c]) : log'[c][i] = log[c][i]
    BY <2>1, PublishKeeps
  <2> QED BY <2>1, <2>2, <2>3, CoverageFrame
<1>4. ASSUME NEW m \in MessageId, HandleToFails(m) PROVE CoverageInv'
  <2>1. \A s \in Receiving : Subscriber[s] # To[m]
    BY <1>4 DEF HandleToFails, SendFails, Receivers, NoOrphanedReceiver, Receiving
  <2>2. \A s \in Receiving : \A n \in MessageId :
          Owed(n, Subscriber[s])' => Owed(n, Subscriber[s])
    BY <1>4, <2>1 DEF HandleToFails, Owed, Concerns, TypeOK
  <2> QED BY <1>0, <1>4, <2>2, CoverageFrame DEF HandleToFails
<1>5. ASSUME NEW m \in MessageId, HandleTo(m) PROVE CoverageInv'
  <2>1. To[m] \in UserId /\ log' = Publish(m, To[m]) /\ UNCHANGED <<stored, subVars>>
    BY <1>5 DEF HandleTo
  <2>2. ASSUME NEW s \in Receiving, NEW n \in MessageId,
               Owed(n, Subscriber[s])', ~Owed(n, Subscriber[s])
        PROVE  Covered(n, s)'
    <3>1. n = m /\ Subscriber[s] = To[m]
      BY <1>5, <2>2 DEF HandleTo, Owed, Concerns, TypeOK
    <3>2. rx[s] = new_messages[To[m]]
      BY <3>1 DEF NoOrphanedReceiver
    <3> QED BY <2>1, <3>1, <3>2, PublishCovers
  <2>3. /\ \A c \in SubscriptionId : Len(log'[c]) >= Len(log[c])
        /\ \A c \in SubscriptionId : \A i \in 1..Len(log[c]) : log'[c][i] = log[c][i]
    BY <2>1, PublishKeeps
  <2> QED BY <2>1, <2>2, <2>3, CoverageFrame
<1>6. CASE Cleanup
  BY <1>0, <1>6, CoverageFrame DEF Cleanup, sendVars, Owed, Concerns
<1>7. CASE UNCHANGED vars
  <2>1. UNCHANGED <<stored, send, log, subVars>>
    BY <1>7 DEF vars, sendVars
  <2>2. \A n, u : Owed(n, u)' <=> Owed(n, u)
    BY <2>1 DEF Owed, Concerns
  <2> QED BY <1>0, <2>1, <2>2, CoverageFrame
<1>8. ASSUME NEW s \in SubscriptionId, NEW p \in stored \cup {NoStart, UnknownId},
             Subscribe(s, p)
      PROVE  CoverageInv'
  <2>1. CoverageOf(s)'
    <3>1. /\ start'[s] = p /\ baseline'[s] = stored /\ UNCHANGED <<stored, send>>
          /\ p = NoStart <=> phase'[s] = "piping"
      BY <1>8 DEF Subscribe, TypeOK, sendVars
    <3>2. \A m \in MessageId : ~(Owed(m, Subscriber[s])' /\ m \notin baseline'[s])
      BY <3>1 DEF Owed, ChannelInv
    <3>3. p = NoStart => p \notin stored
      BY DEF TypeOK
    <3> QED BY <3>1, <3>2, <3>3 DEF CoverageOf
  <2> QED BY <1>8, <2>1, CoverageOthers DEF Subscribe, TypeOK, sendVars
<1>9. ASSUME NEW s \in SubscriptionId, Fetch(s) PROVE CoverageInv'
  <2>1. PICK rows \in ByTimestamp(UsersMessagesSince(stored, Subscriber[s], start[s])) :
          history' = [history EXCEPT ![s] = rows]
    BY <1>9 DEF Fetch
  <2>2. Range(rows) = UsersMessagesSince(stored, Subscriber[s], start[s])
    BY ByTimestampRows, SinceType DEF TypeOK
  <2>3. /\ history'[s] = rows /\ s \in Receiving /\ history[s] = <<>> /\ live'[s] = live[s]
        /\ UNCHANGED <<stored, send, log, start, baseline, rx, cursor>>
    BY <1>9, <2>1 DEF Fetch, TypeOK, sendVars, Receiving, ReaderInv
  <2>4. ASSUME NEW m \in MessageId, Owed(m, Subscriber[s])', m \notin baseline[s]
        PROVE  Covered(m, s)'
    <3>1. Covered(m, s)
      BY <2>3, <2>4 DEF CoverageInv, Owed, Concerns
    <3> QED BY <2>3, <3>1, EmptyFacts DEF Covered, Delivered, Unread
  <2>5. ASSUME NEW m \in baseline[s], start[s] \in stored,
               After(m, start[s]), Concerns(m, Subscriber[s])
        PROVE  m \in Range(rows)
    BY <2>2, <2>5 DEF UsersMessagesSince, CoverageInv
  <2>6. start[s] \in stored \cup {NoStart, UnknownId} /\ baseline[s] \subseteq stored
    BY DEF CoverageInv
  <2>7. CoverageOf(s)'
    BY <2>3, <2>4, <2>5, <2>6 DEF CoverageOf, After, Concerns
  <2> QED BY <1>9, <2>1, <2>7, CoverageOthers DEF Fetch, TypeOK, sendVars
<1>10. ASSUME NEW s \in SubscriptionId, End(s) PROVE CoverageInv'
  <2>1. CoverageOf(s)
    BY CoverageByParts
  <2>2. CoverageOf(s)'
    BY <1>10, <2>1 DEF CoverageOf, End, TypeOK, Receiving, sendVars
  <2> QED BY <1>10, <2>2, CoverageOthers DEF End, TypeOK, sendVars
<1>11. ASSUME NEW s \in SubscriptionId, PipeForward(s) \/ PipeSkip(s) PROVE CoverageInv'
  <2> DEFINE k == cursor[s] + 1
  <2>1. /\ phase[s] = "piping" /\ s \in Receiving
        /\ rx[s] \in SubscriptionId /\ cursor[s] \in Nat
        /\ k \in 1..Len(log[rx[s]])
        /\ UNCHANGED <<stored, send, log, phase, start, baseline, rx, history>>
        /\ cursor'[s] = k
    BY <1>11 DEF PipeForward, PipeSkip, Receives, Receiving, TypeOK, sendVars
  <2>2. /\ log[rx[s]][k] \in Range(history[s]) \cup Range(live'[s])
        /\ Range(live[s]) \subseteq Range(live'[s])
    <3>1. CASE PipeForward(s)
      <4>1. log[rx[s]][k] \in MessageId
        BY <2>1 DEF TypeOK
      <4>2. Range(live'[s]) = Range(live[s]) \cup {log[rx[s]][k]}
        BY <3>1, <4>1, AppendFacts DEF PipeForward, TypeOK
      <4> QED BY <4>2
    <3>2. CASE PipeSkip(s)
      BY <3>2 DEF PipeSkip, Forwards
    <3> QED BY <1>11, <3>1, <3>2
  <2>3. Unread(s) \subseteq Unread(s)' \cup {log[rx[s]][k]}
    <3> SUFFICES ASSUME NEW i \in k .. Len(log[rx[s]]), i # k
                 PROVE  log[rx[s]][i] \in Unread(s)'
      BY DEF Unread
    <3>1. i \in cursor'[s] + 1 .. Len(log'[rx'[s]])
      BY <2>1, <1>0
    <3> QED BY <2>1, <3>1 DEF Unread
  <2>4. \A m : Covered(m, s) => Covered(m, s)'
    BY <2>1, <2>2, <2>3 DEF Covered, Delivered
  <2>5. CoverageOf(s)
    BY CoverageByParts
  <2>6. CoverageOf(s)'
    BY <2>1, <2>4, <2>5 DEF CoverageOf, Owed, Concerns, After, Receiving
  <2> QED BY <1>11, <2>6, CoverageOthers DEF PipeForward, PipeSkip, TypeOK, sendVars
<1>12. ASSUME NEW s \in SubscriptionId, Disconnect(s) PROVE CoverageInv'
  <2>1. CoverageOf(s)
    BY CoverageByParts
  <2>2. CoverageOf(s)'
    BY <1>12, <2>1 DEF CoverageOf, Disconnect, Owed, Concerns, After, Receiving,
       Covered, Delivered, Unread, sendVars
  <2> QED BY <1>12, <2>2, CoverageOthers DEF Disconnect, sendVars
<1> QED
  BY <1>1, <1>2, <1>3, <1>4, <1>5, <1>6, <1>7, <1>8, <1>9, <1>10, <1>11, <1>12
     DEF Next, HandleNewMessage, FetchFails, Pipe, PipeBroken, PipeClosed

-----------------------------------------------------------------------------
(* The inductive invariant and what follows from it.                       *)

IInv ==
  /\ TypeOK
  /\ NoOrphanedReceiver
  /\ ChannelInv
  /\ ReaderInv
  /\ CoverageInv

THEOREM Inductive == SafetySpec => []IInv
<1>1. Init => IInv
  BY TypeInit, RegisteredInit, ChannelInit, ReaderInit, CoverageInit DEF IInv
<1>2. IInv /\ [Next]_vars => IInv'
  BY TypeNext, RegisteredNext, ChannelNext, ReaderNext, CoverageNext DEF IInv
<1> QED BY <1>1, <1>2, PTL DEF SafetySpec

(* No message reaches a reader twice, from the query and the channel or as *)
(* author and recipient.                                                   *)
THEOREM NoDuplicatesCorrect == Spec => []NoDuplicates
<1>1. IInv => NoDuplicates
  BY DEF IInv, ReaderInv
<1> QED BY <1>1, Inductive, PTL DEF Spec

(* A reader sees only rows of the table, and only its user's.              *)
THEOREM OnlyOwnCorrect == Spec => []OnlyOwnMessages
<1>1. IInv => OnlyOwnMessages
  BY DEF IInv, ReaderInv
<1> QED BY <1>1, Inductive, PTL DEF Spec

(* Nothing falls through between the query and the channel.                *)
THEOREM NothingMissedCorrect == Spec => []NothingMissed
<1>1. IInv => NothingMissed
  BY CoverageImplies DEF IInv
<1> QED BY <1>1, Inductive, PTL DEF Spec

(* A subscription somebody reads is only ever ended because it lags.       *)
THEOREM CutOffCorrect == Spec => CutOffOnlyWhenLagging
<1>1. ASSUME IInv, [Next]_vars, NEW s \in SubscriptionId,
             phase[s] = "piping", phase'[s] = "ended", open[s]
      PROVE  Lagged(s)
  <2>1. new_messages[Subscriber[s]] = rx[s]
    BY <1>1 DEF IInv, NoOrphanedReceiver, Receiving
  <2>2. ~Closed(s)
    BY <2>1, SubscriptionAssumption DEF Closed
  <2>3. ASSUME NEW t \in SubscriptionId, End(t), t # s PROVE FALSE
    BY <1>1, <2>3 DEF End, IInv, TypeOK
  <2>4. PipeBroken(s)
    BY <1>1, <2>3 DEF Next, SendMessage, CreateMessage, CreateMessageFails, HandleNewMessage,
       HandleFromFails, HandleFrom, HandleToFails, HandleTo, Subscribe, Fetch, FetchFails,
       Pipe, PipeForward, PipeSkip, PipeBroken, PipeClosed, Disconnect, Cleanup,
       IInv, TypeOK, vars, subVars
  <2> QED BY <2>2, <2>4 DEF PipeBroken
<1>2. IInv /\ [Next]_vars =>
        [\A s \in SubscriptionId :
           phase[s] = "piping" /\ phase'[s] = "ended" /\ open[s] => Lagged(s)]_vars
  BY <1>1
<1> QED BY <1>2, Inductive, PTL DEF Spec, SafetySpec, CutOffOnlyWhenLagging
=============================================================================
