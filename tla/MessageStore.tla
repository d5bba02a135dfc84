---------------------------- MODULE MessageStore ----------------------------
(***************************************************************************)
(* The messages table as the messenger sees it through the DataAccess      *)
(* trait, with the meaning lib/postgres-db gives to its queries.           *)
(*                                                                         *)
(* A message is its id.  Sender, receiver and timestamp never change once  *)
(* Messenger::send_message has built the Message, so they are functions of *)
(* the id; ids are uuids, which Postgres compares as 128-bit numbers.      *)
(* send_message reads the clock before the insert is awaited, so a         *)
(* timestamp says nothing about when the row becomes visible.              *)
(***************************************************************************)
EXTENDS Naturals, Sequences, FiniteSets, Functions

CONSTANTS
  UserId,      (* the users                                               *)
  MessageId,   (* the messages that may ever be sent                      *)
  From, To,    (* Message::from and Message::to of each message           *)
  Timestamp    (* Message::timestamp of each message                      *)

ASSUME MessageAssumption ==
  /\ MessageId \subseteq Nat
  /\ IsFiniteSet(MessageId)
  /\ From \in [MessageId -> UserId]
  /\ To \in [MessageId -> UserId]
  /\ Timestamp \in [MessageId -> Nat]

(* Message m belongs to a chat of user u. *)
Concerns(m, u) == u \in {From[m], To[m]}

(* The row comparison (timestamp, id) > ($2, $3). *)
After(m, p) ==
  \/ Timestamp[m] > Timestamp[p]
  \/ Timestamp[m] = Timestamp[p] /\ m > p

(* Mutant: no condition on the user.                                       *)
AnyMessagesSince(table, u, p) ==
  IF p \in table THEN {m \in table : After(m, p)} ELSE {}

(* fetch_users_messages_since(u, p) as a set: nothing when the starting    *)
(* point is not in the table.                                              *)
UsersMessagesSince(table, u, p) ==
  IF p \in table THEN {m \in table : Concerns(m, u) /\ After(m, p)} ELSE {}

(* The row orders "order by timestamp" allows: equal timestamps come in    *)
(* any order.                                                              *)
ByTimestamp(S) ==
  {rows \in [1..Cardinality(S) -> S] :
     /\ Range(rows) = S
     /\ \A i, j \in DOMAIN rows : i < j =>
          rows[i] # rows[j] /\ Timestamp[rows[i]] <= Timestamp[rows[j]]}

-----------------------------------------------------------------------------
(* Message m is one between u and v. *)
InChat(m, u, v) == {From[m], To[m]} = {u, v}

(* The messages of the chat, those before p if p is in the table: the row  *)
(* comparison (timestamp, id) < ($1, $2).                                  *)
ChatBefore(table, u, v, p) ==
  {m \in table : InChat(m, u, v) /\ (p \in table => After(p, m))}

(* Mutant: "order by timestamp" without desc, reversed by nobody.          *)
OldestMessagesInChat(table, u, v, p, limit) ==
  LET old == ChatBefore(table, u, v, p)
  IN  UNION {ByTimestamp(page) :
        page \in {q \in SUBSET old :
          /\ Cardinality(q) = IF Cardinality(old) < limit THEN Cardinality(old) ELSE limit
          /\ \A m \in q, o \in old \ q : Timestamp[o] >= Timestamp[m]}}

(* fetch_last_messages_in_chat: the last of them, at most limit.  Equal    *)
(* timestamps make the choice and the order arbitrary.  The rows are given *)
(* oldest first, as messages_json turns them round.                        *)
LastMessagesInChat(table, u, v, p, limit) ==
  LET old == ChatBefore(table, u, v, p)
  IN  UNION {ByTimestamp(page) :
        page \in {q \in SUBSET old :
          /\ Cardinality(q) = IF Cardinality(old) < limit THEN Cardinality(old) ELSE limit
          /\ \A m \in q, o \in old \ q : Timestamp[o] <= Timestamp[m]}}
=============================================================================
