---------------------------- MODULE ChatQueries ----------------------------
(***************************************************************************)
(* The two implementations of the DataAccess queries over messages: those  *)
(* of lib/mock-db, on a Vec, next to those of lib/postgres-db, and the     *)
(* five statements of the latter's find_users_chats with the temporary     *)
(* tables they make on a pooled connection.                                *)
(***************************************************************************)
EXTENDS MessageStore, SequencesExt

CONSTANTS
  Call,        (* calls of find_users_chats                                *)
  Asker,       (* the user each asks for                                   *)
  Session,     (* the pooled connections                                   *)
  NoSession,
  Limit,       (* MESSAGE_LOAD_BUF_SIZE                                    *)
  NoStart,     (* starting_point = None                                    *)
  UnknownId    (* a starting point that is in no row                       *)

ASSUME QueriesAssumption ==
  /\ Asker \in [Call -> UserId]
  /\ NoSession \notin Session
  /\ Limit \in Nat \ {0}
  /\ NoStart # UnknownId /\ {NoStart, UnknownId} \cap MessageId = {}

VARIABLES
  rows,        (* the messages in the order of their inserts               *)
  call,        (* how far each call has got                                *)
  session,     (* the connection it works on                               *)
  temp,        (* the temporary tables of each connection, by their call   *)
  chatIds,     (* the rows of the first table: users with a timestamp      *)
  grouped,     (* those of the second                                      *)
  chats,       (* what the call returns                                    *)
  asOf         (* the messages when it began (history only)                *)

queryVars == <<call, session, temp, chatIds, grouped, chats, asOf>>

CallPhase ==
  {"idle", "asked", "collected", "grouped", "ungrouped", "selected", "done", "failed"}

Working == {q \in Call : call[q] \in {"collected", "grouped", "ungrouped", "selected"}}

QueriesInit ==
  /\ rows = <<>>
  /\ call = [q \in Call |-> "idle"]
  /\ session = [q \in Call |-> NoSession]
  /\ temp = [k \in Session |-> {}]
  /\ chatIds = [q \in Call |-> {}]
  /\ grouped = [q \in Call |-> {}]
  /\ chats = [q \in Call |-> <<>>]
  /\ asOf = [q \in Call |-> {}]

-----------------------------------------------------------------------------
(* The other user of message m, which is one of u's.                       *)
Other(m, u) == IF From[m] = u THEN To[m] ELSE From[m]

Partners(table, u) == {Other(m, u) : m \in {n \in table : Concerns(n, u)}}

(* The users that v is in the union of two groupings: with the last        *)
(* timestamp received from each, and the last sent to each.                *)
LastReceived(table, u) ==
  {<<From[m], Timestamp[m]>> : m \in
     {m \in table : To[m] = u /\ \A n \in table :
        To[n] = u /\ From[n] = From[m] => Timestamp[n] <= Timestamp[m]}}

LastSent(table, u) ==
  {<<To[m], Timestamp[m]>> : m \in
     {m \in table : From[m] = u /\ \A n \in table :
        From[n] = u /\ To[n] = To[m] => Timestamp[n] <= Timestamp[m]}}

(* MAX(timestamp) ... group by user_id.                                    *)
GroupByUser(table) ==
  {row \in table : \A other \in table : other[1] = row[1] => other[2] <= row[2]}

(* Sequences of the users of a table, the latest timestamp first.          *)
LatestFirst(table) ==
  {users \in [1..Cardinality(table) -> {row[1] : row \in table}] :
     \E order \in [DOMAIN users -> table] :
       /\ Range(order) = table
       /\ \A i \in DOMAIN users : users[i] = order[i][1]
       /\ \A i, j \in DOMAIN users : i < j => order[i][2] >= order[j][2]}

-----------------------------------------------------------------------------
(* Db::create_message of both.                                             *)
InsertRow(m) ==
  /\ m \notin Range(rows)
  /\ rows' = Append(rows, m)
  /\ UNCHANGED queryVars

(* find_users_chats is called.                                             *)
Ask(q) ==
  /\ call[q] = "idle"
  /\ call' = [call EXCEPT ![q] = "asked"]
  /\ UNCHANGED <<rows, session, temp, chatIds, grouped, chats, asOf>>

(* A connection is acquired and the first table created.                   *)
CreateChatIds(q) ==
  /\ call[q] = "asked"
  /\ \E k \in Session \ {session[p] : p \in Working} :
       /\ session' = [session EXCEPT ![q] = k]
       /\ temp' = [temp EXCEPT ![k] = @ \cup {<<q, "chat_ids">>}]
  /\ chatIds' = [chatIds EXCEPT ![q] =
       LastReceived(Range(rows), Asker[q]) \cup LastSent(Range(rows), Asker[q])]
  /\ asOf' = [asOf EXCEPT ![q] = Range(rows)]
  /\ call' = [call EXCEPT ![q] = "collected"]
  /\ UNCHANGED <<rows, grouped, chats>>

(* Mutant: the second table is a copy of the first.                        *)
CreateUngrouped(q) ==
  /\ call[q] = "collected"
  /\ grouped' = [grouped EXCEPT ![q] = chatIds[q]]
  /\ temp' = [temp EXCEPT ![session[q]] = @ \cup {<<q, "chat_ids_grouped">>}]
  /\ call' = [call EXCEPT ![q] = "grouped"]
  /\ UNCHANGED <<rows, session, chatIds, chats, asOf>>

CreateGrouped(q) ==
  /\ call[q] = "collected"
  /\ grouped' = [grouped EXCEPT ![q] = GroupByUser(chatIds[q])]
  /\ temp' = [temp EXCEPT ![session[q]] = @ \cup {<<q, "chat_ids_grouped">>}]
  /\ call' = [call EXCEPT ![q] = "grouped"]
  /\ UNCHANGED <<rows, session, chatIds, chats, asOf>>

DropChatIds(q) ==
  /\ call[q] = "grouped"
  /\ temp' = [temp EXCEPT ![session[q]] = @ \ {<<q, "chat_ids">>}]
  /\ call' = [call EXCEPT ![q] = "ungrouped"]
  /\ UNCHANGED <<rows, session, chatIds, grouped, chats, asOf>>

SelectChats(q) ==
  /\ call[q] = "ungrouped"
  /\ \E users \in LatestFirst(grouped[q]) : chats' = [chats EXCEPT ![q] = users]
  /\ call' = [call EXCEPT ![q] = "selected"]
  /\ UNCHANGED <<rows, session, temp, chatIds, grouped, asOf>>

(* Mutant: the second table is left for the end of the session.            *)
KeepGrouped(q) ==
  /\ call[q] = "selected"
  /\ call' = [call EXCEPT ![q] = "done"]
  /\ session' = [session EXCEPT ![q] = NoSession]
  /\ UNCHANGED <<rows, temp, chatIds, grouped, chats, asOf>>

(* The second table goes, the connection is given back.                    *)
DropGrouped(q) ==
  /\ call[q] = "selected"
  /\ temp' = [temp EXCEPT ![session[q]] = @ \ {<<q, "chat_ids_grouped">>}]
  /\ call' = [call EXCEPT ![q] = "done"]
  /\ session' = [session EXCEPT ![q] = NoSession]
  /\ UNCHANGED <<rows, chatIds, grouped, chats, asOf>>

(* Mutant: the connection of a failed call stays with it.                  *)
StatementFailsHolding(q) ==
  /\ q \in Working
  /\ call' = [call EXCEPT ![q] = "failed"]
  /\ UNCHANGED <<rows, session, temp, chatIds, grouped, chats, asOf>>

(* A statement fails and the `?` behind it returns.  The connection goes   *)
(* back to the pool with the tables there are, or it is broken and another *)
(* takes its place.                                                        *)
StatementFails(q) ==
  /\ q \in Working
  /\ temp' \in {temp, [temp EXCEPT ![session[q]] = {}]}
  /\ call' = [call EXCEPT ![q] = "failed"]
  /\ session' = [session EXCEPT ![q] = NoSession]
  /\ UNCHANGED <<rows, chatIds, grouped, chats, asOf>>

(* The pool gives no connection, or the first statement fails.             *)
CallFails(q) ==
  /\ call[q] = "asked"
  /\ call' = [call EXCEPT ![q] = "failed"]
  /\ UNCHANGED <<rows, session, temp, chatIds, grouped, chats, asOf>>

FindUsersChats(q) ==
  \/ CreateChatIds(q) \/ CreateGrouped(q) \/ DropChatIds(q)
  \/ SelectChats(q) \/ DropGrouped(q)
  \/ StatementFails(q) \/ CallFails(q)

-----------------------------------------------------------------------------
(* The queries of the mock database.                                       *)

(* Some places of the Vec, in their order.                                 *)
Ascending(places) ==
  CHOOSE order \in [1..Cardinality(places) -> places] :
    /\ Range(order) = places
    /\ \A i, j \in DOMAIN order : i < j => order[i] < order[j]

(* What a filter over the rows lets through.                               *)
Filtered(places) == [i \in 1..Cardinality(places) |-> rows[Ascending(places)[i]]]

Position(p) == SelectInSeq(rows, LAMBDA m : m = p)

Mine(u) == {i \in DOMAIN rows : Concerns(rows[i], u)}

(* Mutant: every message has its own entry.                                *)
MockChatsRepeated(u) ==
  LET found == Filtered(Mine(u))
  IN  Reverse([i \in DOMAIN found |-> Other(found[i], u)])

(* find_users_chats: the partners from the last row to the first, each     *)
(* where it comes up first.                                                *)
MockChats(u) ==
  LET found == Filtered({i \in Mine(u) : \A j \in Mine(u) :
                           j > i => Other(rows[j], u) # Other(rows[i], u)})
  IN  Reverse([i \in DOMAIN found |-> Other(found[i], u)])

(* fetch_last_messages_in_chat, the rows oldest first: those in front of   *)
(* the starting point, or none if it is not there.                         *)
MockLastMessages(u, v, p) ==
  LET before == CASE p = NoStart -> DOMAIN rows
                  [] p \in Range(rows) -> 1..(Position(p) - 1)
                  [] OTHER -> {}
      old == Filtered({i \in before : InChat(rows[i], u, v)})
      from == IF Len(old) > Limit THEN Len(old) - Limit + 1 ELSE 1
  IN  SubSeq(old, from, Len(old))

(* fetch_users_messages_since: the rows behind the starting point.         *)
MockMessagesSince(u, p) ==
  IF p \in Range(rows) THEN Filtered({i \in Mine(u) : i > Position(p)}) ELSE <<>>

(* The messages were inserted in the order of their timestamps.            *)
InOrder ==
  \A i, j \in DOMAIN rows : i < j => Timestamp[rows[i]] < Timestamp[rows[j]]

-----------------------------------------------------------------------------
(* A temporary table on a connection belongs to the call at work on it, or *)
(* to one that failed there: pooled connections do not fill up with them.  *)
LeftoversOnlyFromFailures ==
  \A k \in Session : \A t \in temp[k] :
    \/ t[1] \in Working /\ session[t[1]] = k
    \/ call[t[1]] = "failed"

(* Every chat is returned once, the one with the latest message first, as  *)
(* of the first statement, whatever is stored between the five.            *)
ChatsAsOfStart ==
  \A q \in Call : call[q] = "done" =>
    LET latest(v) == {m \in asOf[q] : Concerns(m, Asker[q]) /\ Other(m, Asker[q]) = v}
    IN  /\ Range(chats[q]) = Partners(asOf[q], Asker[q])
        /\ IsInjective(chats[q])
        /\ \A i, j \in DOMAIN chats[q] : i < j =>
             \E m \in latest(chats[q][i]) : \A n \in latest(chats[q][j]) :
               Timestamp[m] >= Timestamp[n]

(* tests/data_access.rs runs the same tests on both: inserted in the order *)
(* of their timestamps, the mock's answers are ones Postgres may give.     *)
(* (An unknown starting point of the last messages is left out: Postgres   *)
(* ignores it, the mock returns nothing.)                                  *)
MockAgrees ==
  InOrder =>
    \A u, v \in UserId :
      /\ MockChats(u) \in LatestFirst(GroupByUser(
           LastReceived(Range(rows), u) \cup LastSent(Range(rows), u)))
      /\ \A p \in Range(rows) \cup {NoStart} :
           MockLastMessages(u, v, p) \in LastMessagesInChat(Range(rows), u, v, p, Limit)
      /\ \A p \in Range(rows) \cup {UnknownId} :
           MockMessagesSince(u, p) \in ByTimestamp(UsersMessagesSince(Range(rows), u, p))
=============================================================================
