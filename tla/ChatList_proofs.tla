-------------------------- MODULE ChatList_proofs --------------------------
(***************************************************************************)
(* What ChatList and the queries behind it guarantee for any users,        *)
(* messages, calls and connections.                                        *)
(***************************************************************************)
EXTENDS ChatList, FiniteSetTheorems, SequenceTheorems, TLAPS

-----------------------------------------------------------------------------
(* Finite sets.                                                            *)

(* A number is smallest at some element: of the sets of elements below     *)
(* another, a minimal one is that of such an element.                      *)
LEMMA Least ==
  ASSUME NEW S, IsFiniteSet(S), S # {}, NEW f \in [S -> Int]
  PROVE  \E m \in S : \A n \in S : f[m] <= f[n]
<1> DEFINE Below(m) == {n \in S : f[n] < f[m]}
<1> DEFINE T == {Below(m) : m \in S}
<1>1. T \subseteq FiniteSubsetsOf(S) /\ T # {}
  <2>1. T \subseteq SUBSET S /\ T # {}
    <3>1. \A m \in S : Below(m) \in SUBSET S
      OBVIOUS
    <3> HIDE DEF Below
    <3> QED BY <3>1
  <2>2. FiniteSubsetsOf(S) = SUBSET S
    BY FS_FiniteSubsetsOfFinite
  <2> HIDE DEF T
  <2> QED BY <2>1, <2>2
<1>2. PICK x \in T : \A y \in T : <<y, x>> \notin StrictSubsetOrdering(S)
  <2> HIDE DEF T
  <2> QED BY <1>1, FS_StrictSubsetOrderingWellFounded, WFMin
<1>3. PICK m \in S : x = Below(m)
  OBVIOUS
<1>4. ASSUME NEW n \in S, f[n] < f[m] PROVE FALSE
  <2>1. Below(n) \subseteq Below(m) /\ n \in Below(m) /\ n \notin Below(n)
    BY <1>4
  <2>2. <<Below(n), Below(m)>> \in StrictSubsetOrdering(S)
    BY <2>1 DEF StrictSubsetOrdering
  <2> QED BY <1>2, <1>3, <2>2
<1> QED BY <1>4

(* The latest of some messages.                                            *)
LEMMA Latest ==
  ASSUME NEW S, S \subseteq MessageId, S # {}
  PROVE  \E m \in S : \A n \in S : Timestamp[n] <= Timestamp[m]
<1> DEFINE f == [m \in S |-> 0 - Timestamp[m]]
<1>1. IsFiniteSet(S)
  BY MessageAssumption, FS_Subset
<1>2. \A m \in S : Timestamp[m] \in Nat
  BY MessageAssumption
<1>3. f \in [S -> Int]
  BY <1>2
<1>4. PICK m \in S : \A n \in S : f[m] <= f[n]
  <2> HIDE DEF f
  <2> QED BY <1>1, <1>3, Least
<1>5. ASSUME NEW n \in S PROVE Timestamp[n] <= Timestamp[m]
  <2>1. 0 - Timestamp[m] <= 0 - Timestamp[n]
    BY <1>4
  <2> QED BY <1>2, <2>1
<1> QED BY <1>5

(* The position SelectInSeq finds.                                         *)
LEMMA FirstPosition ==
  ASSUME NEW S, NEW s \in Seq(S), NEW e \in Range(s)
  PROVE  /\ SelectInSeq(s, LAMBDA v : v = e) \in 1..Len(s)
         /\ s[SelectInSeq(s, LAMBDA v : v = e)] = e
<1> DEFINE I == {i \in 1..Len(s) : s[i] = e}
<1>1. I # {} /\ I \subseteq 1..Len(s) /\ Len(s) \in Nat
  BY DEF Range
<1>2. IsFiniteSet(I)
  <2>1. IsFiniteSet(1..Len(s))
    BY <1>1, FS_Interval
  <2> HIDE DEF I
  <2> QED BY <1>1, <2>1, FS_Subset
<1>3. PICK m \in I : \A n \in I : m <= n
  <2> DEFINE f == [i \in I |-> i]
  <2>1. f \in [I -> Int]
    BY <1>1
  <2>2. \E m \in I : \A n \in I : f[m] <= f[n]
    <3> HIDE DEF f, I
    <3> QED BY <1>1, <1>2, <2>1, Least
  <2> QED BY <2>2
<1>4. Min(I) \in I
  BY <1>3 DEF Min
<1>5. SelectInSeq(s, LAMBDA v : v = e) = Min(I)
  BY <1>1 DEF SelectInSeq
<1> QED BY <1>4, <1>5

-----------------------------------------------------------------------------
(* What find_users_chats makes of the messages.                            *)

(* The rows of the first temporary table.                                  *)
ChatIds(table, u) == LastReceived(table, u) \cup LastSent(table, u)

(* Each row is for a message with that partner...                          *)
LEMMA RowOfMessage ==
  ASSUME NEW S, S \subseteq MessageId, NEW u \in UserId, NEW row \in ChatIds(S, u)
  PROVE  /\ row \in UserId \X Nat
         /\ \E m \in S : Concerns(m, u) /\ Other(m, u) = row[1] /\ Timestamp[m] = row[2]
<1>1. \A m \in S : From[m] \in UserId /\ To[m] \in UserId /\ Timestamp[m] \in Nat
  BY MessageAssumption
<1>2. CASE row \in LastReceived(S, u)
  <2>1. PICK m \in S : To[m] = u /\ row = <<From[m], Timestamp[m]>>
    BY <1>2 DEF LastReceived
  <2> QED BY <1>1, <2>1 DEF Concerns, Other
<1>3. CASE row \in LastSent(S, u)
  <2>1. PICK m \in S : From[m] = u /\ row = <<To[m], Timestamp[m]>>
    BY <1>3 DEF LastSent
  <2> QED BY <1>1, <2>1 DEF Concerns, Other
<1> QED BY <1>2, <1>3 DEF ChatIds

(* ... and the grouped ones have a row for the latest message with each.   *)
LEMMA MessageInRow ==
  ASSUME NEW S, S \subseteq MessageId, NEW u \in UserId, NEW m \in S, Concerns(m, u)
  PROVE  \E row \in GroupByUser(ChatIds(S, u)) :
           row[1] = Other(m, u) /\ Timestamp[m] <= row[2]
<1> DEFINE v == Other(m, u)
<1> DEFINE chat == {n \in S : Concerns(n, u) /\ Other(n, u) = v}
<1>1. PICK last \in chat : \A n \in chat : Timestamp[n] <= Timestamp[last]
  <2>1. chat \subseteq MessageId /\ chat # {}
    OBVIOUS
  <2> HIDE DEF chat
  <2> QED BY <2>1, Latest
<1> DEFINE row == <<v, Timestamp[last]>>
<1>2. row \in ChatIds(S, u)
  <2>1. CASE From[last] = u
    <3>1. To[last] = v
      BY <2>1 DEF Other
    <3>2. \A n \in S : From[n] = u /\ To[n] = To[last] => n \in chat
      BY <3>1 DEF Concerns, Other
    <3> QED BY <1>1, <2>1, <3>1, <3>2 DEF ChatIds, LastSent
  <2>2. CASE From[last] # u
    <3>1. To[last] = u /\ From[last] = v
      BY <2>2 DEF Other, Concerns
    <3>2. \A n \in S : To[n] = u /\ From[n] = From[last] => n \in chat
      BY <2>2, <3>1 DEF Concerns, Other
    <3> QED BY <1>1, <3>1, <3>2 DEF ChatIds, LastReceived
  <2> QED BY <2>1, <2>2
<1>3. ASSUME NEW other \in ChatIds(S, u), other[1] = row[1] PROVE other[2] <= row[2]
  <2>1. PICK n \in S : Concerns(n, u) /\ Other(n, u) = other[1] /\ Timestamp[n] = other[2]
    BY RowOfMessage
  <2>2. n \in chat
    BY <1>3, <2>1
  <2> QED BY <1>1, <2>1, <2>2
<1>4. row \in GroupByUser(ChatIds(S, u))
  BY <1>2, <1>3 DEF GroupByUser
<1>5. Timestamp[m] <= row[2]
  BY <1>1
<1> QED BY <1>4, <1>5

(* One row for each user.                                                  *)
LEMMA OneRow ==
  ASSUME NEW S, S \subseteq MessageId, NEW u \in UserId,
         NEW r \in GroupByUser(ChatIds(S, u)), NEW t \in GroupByUser(ChatIds(S, u)),
         r[1] = t[1]
  PROVE  r = t
<1>1. r \in ChatIds(S, u) /\ t \in ChatIds(S, u) /\ r[2] <= t[2] /\ t[2] <= r[2]
  BY DEF GroupByUser
<1>2. r \in UserId \X Nat /\ t \in UserId \X Nat
  BY <1>1, RowOfMessage
<1> QED BY <1>1, <1>2

(* There are finitely many rows.                                           *)
LEMMA RowsFinite ==
  ASSUME NEW S, S \subseteq MessageId, NEW u \in UserId
  PROVE  IsFiniteSet(GroupByUser(ChatIds(S, u)))
<1> DEFINE T == GroupByUser(ChatIds(S, u))
<1> DEFINE D == {m \in S : \E row \in T : Other(m, u) = row[1] /\ Timestamp[m] = row[2]}
<1> DEFINE f == [m \in D |-> <<Other(m, u), Timestamp[m]>>]
<1>1. ASSUME NEW m \in D PROVE f[m] \in T
  <2>1. PICK row \in T : Other(m, u) = row[1] /\ Timestamp[m] = row[2]
    OBVIOUS
  <2>2. row \in UserId \X Nat
    BY RowOfMessage DEF GroupByUser
  <2> QED BY <2>1, <2>2
<1>2. ASSUME NEW row \in T PROVE \E m \in D : f[m] = row
  <2>1. row \in ChatIds(S, u)
    BY DEF GroupByUser
  <2>2. row \in UserId \X Nat
    BY <2>1, RowOfMessage
  <2>3. PICK m \in S : Other(m, u) = row[1] /\ Timestamp[m] = row[2]
    BY <2>1, RowOfMessage
  <2> QED BY <2>2, <2>3
<1>3. IsFiniteSet(D)
  BY MessageAssumption, FS_Subset
<1>4. f \in Surjection(D, T)
  <2>1. f \in [D -> T]
    BY <1>1
  <2> HIDE DEF f, D, T
  <2> QED BY <1>2, <2>1 DEF Surjection
<1> HIDE DEF f, D, T
<1>5. IsFiniteSet(T)
  BY <1>3, <1>4, FS_Surjection
<1> QED BY <1>5 DEF T

(* The users are the partners of u in messages of S, each once, in the     *)
(* order of the last message with each.                                    *)
ChatsInOrder(users, S, u) ==
  /\ Range(users) = Partners(S, u)
  /\ IsInjective(users)
  /\ \A i, j \in DOMAIN users : i < j =>
       \E m \in S :
         /\ Concerns(m, u) /\ Other(m, u) = users[i]
         /\ \A n \in S : Concerns(n, u) /\ Other(n, u) = users[j] =>
              Timestamp[m] >= Timestamp[n]

(* They are what SelectChats returns.                                      *)
LEMMA ChatsOf ==
  ASSUME NEW S, S \subseteq MessageId, NEW u \in UserId,
         NEW users \in LatestFirst(GroupByUser(ChatIds(S, u)))
  PROVE  users \in Seq(UserId) /\ ChatsInOrder(users, S, u)
<1> DEFINE table == GroupByUser(ChatIds(S, u))
<1> DEFINE D == 1..Cardinality(table)
<1>1. IsFiniteSet(table) /\ Cardinality(table) \in Nat
  BY RowsFinite, FS_CardinalityType
<1>2. IsFiniteSet(D) /\ Cardinality(D) = Cardinality(table)
  <2> HIDE DEF table
  <2> QED BY <1>1, FS_Interval
<1>3. \A row \in table :
        /\ row \in UserId \X Nat
        /\ \E m \in S : Concerns(m, u) /\ Other(m, u) = row[1] /\ Timestamp[m] = row[2]
  BY RowOfMessage DEF GroupByUser
<1>4. \A m \in S : Concerns(m, u) =>
        \E row \in table : row[1] = Other(m, u) /\ Timestamp[m] <= row[2]
  BY MessageInRow
<1>5. \A r, t \in table : r[1] = t[1] => r = t
  BY OneRow
<1>6. users \in [D -> {row[1] : row \in table}] /\ users \in LatestFirst(table)
  BY DEF LatestFirst
<1> HIDE DEF table, D
<1>7. DOMAIN users = D
  BY <1>6
<1>8. PICK order \in [D -> table] :
        /\ Range(order) = table
        /\ \A i \in D : users[i] = order[i][1]
        /\ \A i, j \in D : i < j => order[i][2] >= order[j][2]
  BY <1>6, <1>7 DEF LatestFirst
<1>9. \A row \in table : \E i \in D : order[i] = row
  BY <1>8 DEF Range
<1>10. \A i, j \in D : order[i] = order[j] => i = j
  <2>1. order \in Surjection(D, table)
    BY <1>8, <1>9 DEF Surjection
  <2>2. order \in Injection(D, table)
    BY <1>2, <2>1, FS_SurjSameCardinalityImpliesInj
  <2> QED BY <2>2 DEF Injection, IsInjective
<1>11. users \in Seq(UserId)
  <2>1. users \in [D -> UserId]
    BY <1>3, <1>6
  <2> QED BY <1>1, <2>1 DEF D
<1>12. IsInjective(users)
  <2> SUFFICES ASSUME NEW i \in D, NEW j \in D, users[i] = users[j] PROVE i = j
    BY <1>7 DEF IsInjective
  <2>1. order[i][1] = order[j][1] /\ order[i] \in table /\ order[j] \in table
    BY <1>8
  <2>2. order[i] = order[j]
    BY <1>5, <2>1
  <2> QED BY <1>10, <2>2
<1>13. Range(users) = Partners(S, u)
  <2>1. ASSUME NEW i \in D PROVE users[i] \in Partners(S, u)
    <3>1. order[i] \in table /\ users[i] = order[i][1]
      BY <1>8
    <3>2. PICK m \in S : Concerns(m, u) /\ Other(m, u) = order[i][1]
      BY <1>3, <3>1
    <3> QED BY <3>1, <3>2 DEF Partners
  <2>2. ASSUME NEW m \in S, Concerns(m, u) PROVE \E i \in D : users[i] = Other(m, u)
    <3>1. PICK row \in table : row[1] = Other(m, u)
      BY <1>4, <2>2
    <3>2. PICK i \in D : order[i] = row
      BY <1>9
    <3> QED BY <1>8, <3>1, <3>2
  <2> QED BY <1>7, <2>1, <2>2 DEF Range, Partners
<1>14. ASSUME NEW i \in D, NEW j \in D, i < j
       PROVE  \E m \in S :
                /\ Concerns(m, u) /\ Other(m, u) = users[i]
                /\ \A n \in S : Concerns(n, u) /\ Other(n, u) = users[j] =>
                     Timestamp[m] >= Timestamp[n]
  <2>1. /\ order[i] \in table /\ users[i] = order[i][1]
        /\ order[j] \in table /\ users[j] = order[j][1]
        /\ order[i][2] >= order[j][2]
    BY <1>8, <1>14
  <2>2. PICK m \in S : Concerns(m, u) /\ Other(m, u) = order[i][1] /\ Timestamp[m] = order[i][2]
    BY <1>3, <2>1
  <2>3. ASSUME NEW n \in S, Concerns(n, u), Other(n, u) = users[j]
        PROVE  Timestamp[m] >= Timestamp[n]
    <3>1. PICK row \in table : row[1] = Other(n, u) /\ Timestamp[n] <= row[2]
      BY <1>4, <2>3
    <3>2. row = order[j]
      BY <1>5, <2>1, <2>3, <3>1
    <3>3. /\ Timestamp[n] \in Nat /\ order[j][2] \in Nat /\ order[i][2] \in Nat
          /\ Timestamp[n] <= order[j][2] /\ Timestamp[m] = order[i][2]
      <4>1. order[i] \in UserId \X Nat /\ order[j] \in UserId \X Nat
        BY <1>3, <2>1
      <4> QED BY <2>2, <3>1, <3>2, <4>1, MessageAssumption
    <3> QED BY <2>1, <3>3
  <2> QED BY <2>1, <2>2, <2>3
<1> QED BY <1>7, <1>11, <1>12, <1>13, <1>14 DEF ChatsInOrder

-----------------------------------------------------------------------------
(* Types.                                                                  *)

(* The types TypeOK leaves to what it says of calls and connections.  Only *)
(* finitely many fetches are under way.                                    *)
Tables ==
  /\ session \in [Call -> Session \cup {NoSession}]
  /\ chats \in [Call -> Seq(UserId)]
  /\ DOMAIN chatIds = Call /\ DOMAIN grouped = Call
  /\ asOf \in [Call -> SUBSET MessageId]
  /\ IsFiniteSet(Fetches)

(* What each statement has made of the messages there were at the first.   *)
Answers ==
  \A q \in Call :
    /\ call[q] \in {"collected", "grouped", "ungrouped", "selected", "done"} =>
         chatIds[q] = ChatIds(asOf[q], Asker[q])
    /\ call[q] \in {"grouped", "ungrouped", "selected", "done"} =>
         grouped[q] = GroupByUser(chatIds[q])
    /\ call[q] \in {"selected", "done"} => chats[q] \in LatestFirst(grouped[q])

(* What a statement may have selected.                                     *)
LEMMA Selected ==
  ASSUME TypeOK, Tables, Answers, NEW q \in Call,
         call[q] \in {"ungrouped", "selected", "done"},
         NEW users \in LatestFirst(grouped[q])
  PROVE  /\ users \in LatestFirst(GroupByUser(ChatIds(asOf[q], Asker[q])))
         /\ asOf[q] \subseteq MessageId /\ Asker[q] \in UserId
         /\ users \in Seq(UserId) /\ IsInjective(users)
         /\ ChatsInOrder(users, asOf[q], Asker[q])
<1>1. grouped[q] = GroupByUser(ChatIds(asOf[q], Asker[q]))
  BY DEF Answers
<1>2. asOf[q] \subseteq MessageId /\ Asker[q] \in UserId
  BY QueriesAssumption DEF Tables
<1>3. users \in Seq(UserId) /\ ChatsInOrder(users, asOf[q], Asker[q])
  BY <1>1, <1>2, ChatsOf
<1>4. IsInjective(users)
  BY <1>3 DEF ChatsInOrder
<1> QED BY <1>1, <1>2, <1>3, <1>4

(* The statements of a call: each leaves the other calls alone.            *)
LEMMA AnswersInit == Init => Answers
BY DEF Init, QueriesInit, Answers

LEMMA AnswersNext == TypeOK /\ Tables /\ Answers /\ [Next]_vars => Answers'
<1> SUFFICES ASSUME TypeOK, Tables, Answers, [Next]_vars PROVE Answers'
  OBVIOUS
<1>1. CASE UNCHANGED <<call, chatIds, grouped, chats, asOf>>
  BY <1>1 DEF Answers
<1>2. ASSUME NEW q \in Call, Ask(q) PROVE Answers'
  BY <1>2 DEF Ask, Answers, TypeOK
<1>3. ASSUME NEW q \in Call, FindUsersChats(q) PROVE Answers'
  <2>1. \A p \in Call : p # q =>
          /\ call'[p] = call[p] /\ chatIds'[p] = chatIds[p] /\ grouped'[p] = grouped[p]
          /\ chats'[p] = chats[p] /\ asOf'[p] = asOf[p]
    BY <1>3 DEF FindUsersChats, CreateChatIds, CreateGrouped, DropChatIds, SelectChats,
                DropGrouped, StatementFails, CallFails, TypeOK, Tables
  <2>2. /\ call'[q] \in {"collected", "grouped", "ungrouped", "selected", "done"} =>
             chatIds'[q] = ChatIds(asOf'[q], Asker[q])
        /\ call'[q] \in {"grouped", "ungrouped", "selected", "done"} =>
             grouped'[q] = GroupByUser(chatIds'[q])
        /\ call'[q] \in {"selected", "done"} => chats'[q] \in LatestFirst(grouped'[q])
    <3>1. CASE CreateChatIds(q)
      BY <3>1 DEF CreateChatIds, ChatIds, TypeOK, Tables
    <3>2. CASE CreateGrouped(q)
      BY <3>2 DEF CreateGrouped, Answers, TypeOK, Tables
    <3>3. CASE DropChatIds(q)
      BY <3>3 DEF DropChatIds, Answers, TypeOK, Tables
    <3>4. CASE SelectChats(q)
      BY <3>4 DEF SelectChats, Answers, TypeOK, Tables
    <3>5. CASE DropGrouped(q)
      BY <3>5 DEF DropGrouped, Answers, TypeOK, Tables
    <3>6. CASE StatementFails(q) \/ CallFails(q)
      BY <3>6 DEF StatementFails, CallFails, TypeOK
    <3> QED BY <1>3, <3>1, <3>2, <3>3, <3>4, <3>5, <3>6 DEF FindUsersChats
  <2> QED BY <2>1, <2>2 DEF Answers
<1> QED
  BY <1>1, <1>2, <1>3
     DEF Next, Server, AskChats, CreateMessage, InsertRow, OnMessage, ChatArrives, ChatFails,
         ChatsArrive, ChatsFail, Replace, TypeSearch, AskSearch, SearchArrives, OpenPage,
          vars, queryVars

(* The types of the queries' variables.                                    *)
QueriesType ==
  /\ rows \in Seq(MessageId) /\ IsInjective(rows)
  /\ call \in [Call -> CallPhase]
  /\ \A q \in Call : session[q] \in Session <=> q \in Working
  /\ \A q, p \in Working : session[q] = session[p] => q = p
  /\ temp \in [Session -> SUBSET (Call \X {"chat_ids", "chat_ids_grouped"})]
  /\ session \in [Call -> Session \cup {NoSession}]
  /\ chats \in [Call -> Seq(UserId)]
  /\ DOMAIN chatIds = Call /\ DOMAIN grouped = Call
  /\ asOf \in [Call -> SUBSET MessageId]

(* ... and those of the page's.                                            *)
ListType ==
  /\ list \in Seq(UserId)
  /\ searchText \in BOOLEAN
  /\ listing \in Call \cup {NoRequest, Search}
  /\ fetching \in [UserId -> 0..MaxFetches]
  /\ heard \subseteq Range(rows)
  /\ overlapped \subseteq UserId
  /\ IsFiniteSet(Fetches)

LEMMA TypeParts == TypeOK /\ Tables <=> QueriesType /\ ListType
BY DEF TypeOK, Tables, QueriesType, ListType

LEMMA TypeInit == Init => TypeOK /\ Tables
<1> SUFFICES ASSUME Init PROVE QueriesType /\ ListType
  BY TypeParts
<1>1. Working = {}
  BY DEF Init, QueriesInit, Working
<1>2. Fetches = {}
  BY ListAssumption DEF Init, Fetches
<1>3. \A q \in Call : session[q] \notin Session
  BY QueriesAssumption DEF Init, QueriesInit
<1>4. QueriesType
  BY <1>1, <1>3 DEF Init, QueriesInit, QueriesType, CallPhase, IsInjective
<1>5. ListType
  <2>1. IsFiniteSet(Fetches)
    BY <1>2, FS_EmptySet
  <2>2. /\ list \in Seq(UserId) /\ searchText \in BOOLEAN
        /\ listing \in Call \cup {NoRequest, Search}
        /\ heard \subseteq Range(rows) /\ overlapped \subseteq UserId
    <3>1. <<>> \in Seq(UserId)
      OBVIOUS
    <3> QED BY <3>1 DEF Init
  <2>3. fetching \in [UserId -> 0..MaxFetches]
    BY ListAssumption DEF Init
  <2> QED BY <2>1, <2>2, <2>3 DEF ListType
<1> QED BY <1>4, <1>5

(* A message that is stored.                                               *)
LEMMA InsertFacts ==
  ASSUME rows \in Seq(MessageId), IsInjective(rows), NEW m \in MessageId, InsertRow(m)
  PROVE  /\ rows' \in Seq(MessageId) /\ IsInjective(rows')
         /\ Range(rows) \subseteq Range(rows')
<1>1. /\ rows' = Append(rows, m) /\ \A i \in 1..Len(rows) : rows[i] # m
      /\ DOMAIN rows = 1..Len(rows) /\ Len(rows) \in Nat
  BY DEF InsertRow, Range
<1>2. /\ rows' \in Seq(MessageId) /\ DOMAIN rows' = 1..Len(rows) + 1
      /\ rows'[Len(rows) + 1] = m /\ \A i \in 1..Len(rows) : rows'[i] = rows[i]
  BY <1>1
<1>3. \A i \in 1..Len(rows) + 1 : i \in 1..Len(rows) \/ i = Len(rows) + 1
  BY <1>1
<1>4. IsInjective(rows')
  <2>1. \A i, j \in 1..Len(rows) : rows[i] = rows[j] => i = j
    BY <1>1 DEF IsInjective
  <2> QED BY <1>1, <1>2, <1>3, <2>1 DEF IsInjective
<1>5. Range(rows) \subseteq Range(rows')
  <2>1. \A i \in 1..Len(rows) : i \in 1..Len(rows) + 1
    BY <1>1
  <2> QED BY <1>1, <1>2, <2>1 DEF Range
<1> QED BY <1>2, <1>4, <1>5

LEMMA RangeOfRows == rows \in Seq(MessageId) => Range(rows) \subseteq MessageId
BY DEF Range

(* Every step of a call leaves it with a connection exactly if it is at    *)
(* work, and with one no other call works on.                              *)
LEMMA StatementFacts ==
  ASSUME QueriesType, NEW q \in Call, FindUsersChats(q)
  PROVE  /\ call' \in [Call -> CallPhase] /\ session' \in [Call -> Session \cup {NoSession}]
         /\ \A p \in Call : p # q => call'[p] = call[p] /\ session'[p] = session[p]
         /\ session'[q] \in Session <=> q \in Working'
         /\ \A p \in Working : p # q => session'[q] # session[p]
         /\ temp' \in [Session -> SUBSET (Call \X {"chat_ids", "chat_ids_grouped"})]
         /\ asOf' \in [Call -> SUBSET MessageId]
         /\ DOMAIN chatIds' = Call /\ DOMAIN grouped' = Call
         /\ rows' = rows
<1> DEFINE Pair == Call \X {"chat_ids", "chat_ids_grouped"}
<1>0. /\ <<q, "chat_ids">> \in Pair /\ <<q, "chat_ids_grouped">> \in Pair
      /\ call \in [Call -> CallPhase] /\ session \in [Call -> Session \cup {NoSession}]
      /\ temp \in [Session -> SUBSET Pair] /\ NoSession \notin Session
  BY QueriesAssumption DEF QueriesType
<1>1. q \in Working => session[q] \in Session /\ \A p \in Working : p # q => session[p] # session[q]
  BY DEF QueriesType
<1>2. \A p \in Working : session[p] \in Session
  BY DEF QueriesType, Working
<1>3. /\ asOf \in [Call -> SUBSET MessageId] /\ DOMAIN chatIds = Call /\ DOMAIN grouped = Call
      /\ Range(rows) \subseteq MessageId
  BY RangeOfRows DEF QueriesType
<1> HIDE DEF Pair
<1>4. CASE CreateChatIds(q)
  <2>1. PICK k \in Session \ {session[p] : p \in Working} :
          /\ session' = [session EXCEPT ![q] = k]
          /\ temp' = [temp EXCEPT ![k] = @ \cup {<<q, "chat_ids">>}]
    BY <1>4 DEF CreateChatIds
  <2>2. call' = [call EXCEPT ![q] = "collected"] /\ rows' = rows
    BY <1>4 DEF CreateChatIds
  <2>3. temp' \in [Session -> SUBSET Pair]
    BY <1>0, <2>1
  <2>4. session'[q] = k /\ session' \in [Call -> Session \cup {NoSession}]
    BY <1>0, <2>1
  <2>5. call'[q] = "collected" /\ call' \in [Call -> CallPhase]
    BY <1>0, <2>2 DEF CallPhase
  <2>6. asOf' \in [Call -> SUBSET MessageId] /\ DOMAIN chatIds' = Call /\ DOMAIN grouped' = Call
    BY <1>3, <1>4 DEF CreateChatIds
  <2>7. \A p \in Call : p # q => call'[p] = call[p] /\ session'[p] = session[p]
    BY <1>0, <2>1, <2>2
  <2> QED BY <2>1, <2>2, <2>3, <2>4, <2>5, <2>6, <2>7 DEF Working, Pair
<1>5. CASE CreateGrouped(q) \/ DropChatIds(q)
  <2>1. /\ q \in Working /\ session' = session /\ rows' = rows /\ asOf' = asOf
        /\ call' \in [Call -> CallPhase] /\ call'[q] \in {"grouped", "ungrouped"}
        /\ \A p \in Call : p # q => call'[p] = call[p]
        /\ DOMAIN chatIds' = Call /\ DOMAIN grouped' = Call
    BY <1>0, <1>3, <1>5 DEF CreateGrouped, DropChatIds, Working, CallPhase
  <2>2. temp' \in [Session -> SUBSET Pair]
    BY <1>0, <1>1, <1>5, <2>1 DEF CreateGrouped, DropChatIds
  <2> QED BY <1>0, <1>1, <1>3, <2>1, <2>2 DEF Working, Pair
<1>6. CASE SelectChats(q)
  <2>1. /\ q \in Working /\ session' = session /\ rows' = rows /\ asOf' = asOf /\ temp' = temp
        /\ call' \in [Call -> CallPhase] /\ call'[q] = "selected"
        /\ \A p \in Call : p # q => call'[p] = call[p]
        /\ DOMAIN chatIds' = Call /\ DOMAIN grouped' = Call
    BY <1>0, <1>3, <1>6 DEF SelectChats, Working, CallPhase
  <2> QED BY <1>0, <1>1, <1>3, <2>1 DEF Working, Pair
<1>7. CASE DropGrouped(q) \/ StatementFails(q)
  <2>1. /\ q \in Working /\ rows' = rows /\ asOf' = asOf
        /\ call' \in [Call -> CallPhase] /\ call'[q] \in {"done", "failed"}
        /\ \A p \in Call : p # q => call'[p] = call[p]
        /\ DOMAIN chatIds' = Call /\ DOMAIN grouped' = Call
    BY <1>0, <1>3, <1>7 DEF DropGrouped, StatementFails, Working, CallPhase
  <2>2. /\ session' = [session EXCEPT ![q] = NoSession]
        /\ \/ temp' = temp
           \/ temp' = [temp EXCEPT ![session[q]] = {}]
           \/ temp' = [temp EXCEPT ![session[q]] = @ \ {<<q, "chat_ids_grouped">>}]
    BY <1>7 DEF DropGrouped, StatementFails
  <2>3. temp' \in [Session -> SUBSET Pair]
    BY <1>0, <1>1, <2>1, <2>2
  <2>4. /\ session' \in [Call -> Session \cup {NoSession}] /\ session'[q] = NoSession
        /\ \A p \in Call : p # q => session'[p] = session[p]
    BY <1>0, <2>2
  <2> QED BY <1>0, <1>2, <1>3, <2>1, <2>3, <2>4 DEF Working, Pair
<1>8. CASE CallFails(q)
  <2>1. /\ q \notin Working /\ session' = session /\ rows' = rows /\ asOf' = asOf /\ temp' = temp
        /\ call' \in [Call -> CallPhase] /\ call'[q] = "failed"
        /\ \A p \in Call : p # q => call'[p] = call[p]
        /\ DOMAIN chatIds' = Call /\ DOMAIN grouped' = Call
    BY <1>0, <1>3, <1>8 DEF CallFails, Working, CallPhase
  <2>2. session[q] \notin Session
    BY <2>1 DEF QueriesType
  <2> QED BY <1>0, <1>2, <1>3, <2>1, <2>2 DEF Working, Pair
<1> QED BY <1>4, <1>5, <1>6, <1>7, <1>8 DEF FindUsersChats

LEMMA QueriesTypeNext ==
  TypeOK /\ Tables /\ Answers /\ [Next]_vars => QueriesType'
<1> SUFFICES ASSUME TypeOK, Tables, Answers, [Next]_vars PROVE QueriesType'
  OBVIOUS
<1>0. QueriesType
  BY TypeParts
<1>1. CASE UNCHANGED <<rows, queryVars>>
  BY <1>0, <1>1 DEF QueriesType, queryVars, Working
<1>2. ASSUME NEW m \in MessageId, InsertRow(m) PROVE QueriesType'
  <2>1. rows' \in Seq(MessageId) /\ IsInjective(rows')
    BY <1>0, <1>2, InsertFacts DEF QueriesType
  <2> QED BY <1>0, <1>2, <2>1 DEF InsertRow, QueriesType, queryVars, Working
<1>3. ASSUME NEW q \in Call, Ask(q) PROVE QueriesType'
  <2>1. /\ call' \in [Call -> CallPhase] /\ Working' = Working
    BY <1>0, <1>3 DEF Ask, QueriesType, CallPhase, Working
  <2> QED BY <1>0, <1>3, <2>1 DEF Ask, QueriesType
<1>4. ASSUME NEW q \in Call, FindUsersChats(q) PROVE QueriesType'
  <2>1. chats' \in [Call -> Seq(UserId)]
    <3>1. CASE SelectChats(q)
      <4>1. PICK users \in LatestFirst(grouped[q]) : chats' = [chats EXCEPT ![q] = users]
        BY <3>1 DEF SelectChats
      <4>2. users \in Seq(UserId)
        BY <3>1, <4>1, Selected DEF SelectChats
      <4> QED BY <1>0, <4>1, <4>2 DEF QueriesType
    <3>2. CASE UNCHANGED chats
      BY <1>0, <3>2 DEF QueriesType
    <3> QED BY <1>4, <3>1, <3>2 DEF FindUsersChats, CreateChatIds, CreateGrouped, DropChatIds,
                                    DropGrouped, StatementFails, CallFails
  <2>2. \A p \in Call : p # q => (p \in Working' <=> p \in Working)
    BY <1>0, <1>4, StatementFacts DEF Working
  <2>3. \A p \in Call : session'[p] \in Session <=> p \in Working'
    BY <1>0, <1>4, <2>2, StatementFacts DEF QueriesType
  <2>4. \A p, r \in Working' : session'[p] = session'[r] => p = r
    <3> SUFFICES ASSUME NEW p \in Working', NEW r \in Working', session'[p] = session'[r], p # r
                 PROVE  FALSE
      OBVIOUS
    <3>1. p \in Call /\ r \in Call
      BY DEF Working
    <3>2. CASE p = q
      BY <1>0, <1>4, <2>2, <3>1, <3>2, StatementFacts
    <3>3. CASE r = q
      BY <1>0, <1>4, <2>2, <3>1, <3>3, StatementFacts
    <3>4. CASE p # q /\ r # q
      <4>1. p \in Working /\ r \in Working /\ session[p] = session[r]
        BY <1>0, <1>4, <2>2, <3>1, <3>4, StatementFacts
      <4> QED BY <1>0, <4>1 DEF QueriesType
    <3> QED BY <3>2, <3>3, <3>4
  <2> QED BY <1>0, <1>4, <2>1, <2>3, <2>4, StatementFacts DEF QueriesType
<1> QED
  BY <1>1, <1>2, <1>3, <1>4
     DEF Next, Server, AskChats, CreateMessage, OnMessage, ChatArrives, ChatFails,
         ChatsArrive, ChatsFail, Replace, TypeSearch, AskSearch, SearchArrives, OpenPage, vars

LEMMA ConcatFacts ==
  ASSUME NEW S, NEW q \in Seq(S), NEW r \in Seq(S)
  PROVE  /\ q \o r \in Seq(S) /\ Len(q \o r) = Len(q) + Len(r)
         /\ DOMAIN (q \o r) = 1..Len(q) + Len(r)
         /\ \A i \in 1..Len(q) : (q \o r)[i] = q[i]
         /\ \A i \in 1..Len(r) : (q \o r)[Len(q) + i] = r[i]
OBVIOUS

(* moveChatToTop: the list gets a permutation of its elements.             *)
LEMMA MoveFacts ==
  ASSUME NEW u \in Range(list), list \in Seq(UserId)
  PROVE  LET top == <<u>> \o Pop(u)
         IN  /\ top \in Seq(UserId)
             /\ \E from \in [DOMAIN top -> DOMAIN list] :
                  IsInjective(from) /\ \A i \in DOMAIN top : top[i] = list[from[i]]
<1> DEFINE p == SelectInSeq(list, LAMBDA v : v = u)
<1> DEFINE n == Len(list)
<1> DEFINE front == SubSeq(list, 1, p - 1)
<1> DEFINE back == SubSeq(list, p + 1, n)
<1> DEFINE top == <<u>> \o (front \o back)
<1>1. p \in 1..n /\ list[p] = u /\ n \in Nat /\ u \in UserId
  <2>1. p \in 1..n /\ list[p] = u
    BY FirstPosition
  <2> HIDE DEF p
  <2> QED BY <2>1 DEF Range
<1>2. Pop(u) = front \o back
  BY DEF Pop, RemoveAt
<1> HIDE DEF p
<1>3. /\ front \in Seq(UserId) /\ Len(front) = p - 1
      /\ \A i \in 1..p - 1 : front[i] = list[i]
  BY <1>1
<1>4. /\ back \in Seq(UserId) /\ Len(back) = n - p
      /\ \A i \in 1..n - p : back[i] = list[p + i]
  BY <1>1
<1> HIDE DEF front, back, n
<1>5. /\ front \o back \in Seq(UserId) /\ Len(front \o back) = n - 1
      /\ \A i \in 1..n - 1 : (front \o back)[i] = IF i < p THEN list[i] ELSE list[i + 1]
  <2>1. /\ front \o back \in Seq(UserId) /\ Len(front \o back) = Len(front) + Len(back)
        /\ \A i \in 1..Len(front) : (front \o back)[i] = front[i]
        /\ \A i \in 1..Len(back) : (front \o back)[Len(front) + i] = back[i]
    <3>1. front \in Seq(UserId) /\ back \in Seq(UserId)
      BY <1>3, <1>4
    <3> QED BY <3>1, ConcatFacts
  <2>2. ASSUME NEW i \in 1..n - 1
        PROVE  (front \o back)[i] = IF i < p THEN list[i] ELSE list[i + 1]
    <3>1. CASE i < p
      <4>1. i \in 1..p - 1 /\ i \in 1..Len(front)
        BY <1>1, <1>3, <3>1
      <4> QED BY <1>3, <2>1, <3>1, <4>1
    <3>2. CASE i >= p
      <4> DEFINE k == i - (p - 1)
      <4>1. k \in 1..n - p /\ k \in 1..Len(back) /\ Len(front) + k = i /\ p + k = i + 1
        BY <1>1, <1>3, <1>4, <3>2
      <4>2. (front \o back)[Len(front) + k] = back[k] /\ back[k] = list[p + k]
        BY <1>4, <2>1, <4>1
      <4>3. (front \o back)[i] = list[i + 1]
        BY <4>1, <4>2
      <4>4. ~(i < p)
        BY <1>1, <3>2
      <4> QED BY <4>3, <4>4
    <3>3. i < p \/ i >= p
      BY <1>1
    <3> QED BY <3>1, <3>2, <3>3
  <2>3. Len(front) + Len(back) = n - 1
    BY <1>1, <1>3, <1>4
  <2> QED BY <2>1, <2>2, <2>3
<1> DEFINE rest == front \o back
<1> HIDE DEF rest
<1>6. /\ top \in Seq(UserId) /\ DOMAIN top = 1..n
      /\ top[1] = u /\ \A i \in 2..n : top[i] = rest[i - 1]
  <2>1. top = <<u>> \o rest /\ rest \in Seq(UserId) /\ Len(rest) = n - 1
    BY <1>5 DEF rest
  <2>2. <<u>> \in Seq(UserId) /\ Len(<<u>>) = 1 /\ <<u>>[1] = u
    BY <1>1
  <2>3. /\ top \in Seq(UserId) /\ Len(top) = n
        /\ top[1] = u /\ \A i \in 1..Len(rest) : top[1 + i] = rest[i]
    <3> DEFINE one == <<u>>
    <3>1. one \in Seq(UserId) /\ Len(one) = 1 /\ one[1] = u /\ top = one \o rest
      BY <2>1, <2>2
    <3> HIDE DEF one, top
    <3>2. /\ one \o rest \in Seq(UserId) /\ Len(one \o rest) = Len(one) + Len(rest)
          /\ \A i \in 1..Len(one) : (one \o rest)[i] = one[i]
          /\ \A i \in 1..Len(rest) : (one \o rest)[Len(one) + i] = rest[i]
      BY <2>1, <3>1, ConcatFacts
    <3> QED BY <1>1, <2>1, <3>1, <3>2
  <2>4. ASSUME NEW i \in 2..n PROVE top[i] = rest[i - 1]
    <3>1. i - 1 \in 1..Len(rest) /\ 1 + (i - 1) = i
      BY <1>1, <2>1
    <3> QED BY <2>3, <3>1
  <2> QED BY <2>3, <2>4
<1> DEFINE from == [i \in 1..n |-> IF i = 1 THEN p ELSE IF i <= p THEN i - 1 ELSE i]
<1>7. from \in [1..n -> 1..n] /\ \A i, j \in 1..n : from[i] = from[j] => i = j
  BY <1>1
<1>8. ASSUME NEW i \in 1..n PROVE top[i] = list[from[i]]
  <2>1. CASE i = 1
    BY <1>1, <1>6, <2>1
  <2>2. CASE i # 1
    <3>1. i \in 2..n /\ i - 1 \in 1..n - 1 /\ (i - 1 < p <=> i <= p) /\ i - 1 + 1 = i
      BY <1>1, <2>2
    <3>2. top[i] = IF i - 1 < p THEN list[i - 1] ELSE list[i - 1 + 1]
      BY <1>5, <1>6, <3>1 DEF rest
    <3> QED BY <2>2, <3>1, <3>2
  <2> QED BY <2>1, <2>2
<1>9. DOMAIN list = 1..n
  BY DEF n
<1> HIDE DEF from, top
<1>10. IsInjective(from)
  BY <1>7 DEF IsInjective
<1>11. top \in Seq(UserId) /\ from \in [DOMAIN top -> DOMAIN list]
  BY <1>6, <1>7, <1>9
<1>12. \A i \in DOMAIN top : top[i] = list[from[i]]
  BY <1>6, <1>8
<1>13. \E g \in [DOMAIN top -> DOMAIN list] :
         IsInjective(g) /\ \A i \in DOMAIN top : top[i] = list[g[i]]
  BY <1>10, <1>11, <1>12
<1> QED BY <1>2, <1>11, <1>13 DEF top

(* The element of a chat that arrives.                                     *)
LEMMA PutFacts ==
  ASSUME NEW u \in UserId, list \in Seq(UserId)
  PROVE  LET top == <<u>> \o list
         IN  /\ top \in Seq(UserId) /\ DOMAIN top = 1..Len(list) + 1
             /\ top[1] = u /\ \A i \in 1..Len(list) : top[i + 1] = list[i]
<1>1. <<u>> \in Seq(UserId) /\ Len(<<u>>) = 1 /\ <<u>>[1] = u
  OBVIOUS
<1> DEFINE top == <<u>> \o list
<1>2. /\ top \in Seq(UserId) /\ Len(top) = Len(list) + 1
      /\ top[1] = u /\ \A i \in 1..Len(list) : top[1 + i] = list[i]
  BY <1>1, ConcatFacts
<1> HIDE DEF top
<1>3. \A i \in 1..Len(list) : 1 + i = i + 1
  OBVIOUS
<1>4. DOMAIN top = 1..Len(list) + 1
  BY <1>2
<1> QED BY <1>2, <1>3, <1>4 DEF top

(* No more fetches are under way for one chat than altogether.             *)
LEMMA FetchesBound ==
  ASSUME fetching \in [UserId -> 0..MaxFetches], IsFiniteSet(Fetches), NEW u \in UserId
  PROVE  fetching[u] <= Cardinality(Fetches) /\ Cardinality(Fetches) \in Nat
<1> DEFINE D == 1..fetching[u]
<1> DEFINE f == [k \in D |-> <<u, k>>]
<1>1. fetching[u] \in Nat /\ fetching[u] <= MaxFetches /\ MaxFetches \in Nat
  BY ListAssumption
<1>2. ASSUME NEW k \in D PROVE f[k] \in Fetches
  BY <1>1 DEF Fetches
<1>3. f \in [D -> Fetches] /\ \A k, l \in D : f[k] = f[l] => k = l
  BY <1>2
<1>4. Cardinality(D) = fetching[u]
  BY <1>1, FS_Interval
<1> HIDE DEF f, D
<1>5. f \in Injection(D, Fetches)
  BY <1>3 DEF Injection, IsInjective
<1>6. Cardinality(D) <= Cardinality(Fetches)
  BY <1>5, FS_Injection
<1> QED BY <1>4, <1>6, FS_CardinalityType

(* One fetch more for chat u, or one less.                                 *)
LEMMA FetchesMore ==
  ASSUME fetching \in [UserId -> 0..MaxFetches], IsFiniteSet(Fetches), NEW u \in UserId,
         Cardinality(Fetches) < MaxFetches, fetching' = [fetching EXCEPT ![u] = @ + 1]
  PROVE  fetching' \in [UserId -> 0..MaxFetches] /\ IsFiniteSet(Fetches')
<1>1. fetching[u] \in Nat /\ fetching[u] + 1 <= MaxFetches /\ MaxFetches \in Nat
  BY FetchesBound, ListAssumption
<1>2. fetching' \in [UserId -> 0..MaxFetches]
  BY <1>1
<1>3. Fetches' \subseteq Fetches \cup {<<u, fetching[u] + 1>>}
  <2> SUFFICES ASSUME NEW f \in Fetches', f \notin Fetches PROVE f = <<u, fetching[u] + 1>>
    OBVIOUS
  <2>1. f \in UserId \X (1..MaxFetches) /\ f[2] <= fetching'[f[1]] /\ ~(f[2] <= fetching[f[1]])
    BY DEF Fetches
  <2>2. f[1] = u
    BY <2>1
  <2>3. f[2] <= fetching[u] + 1 /\ ~(f[2] <= fetching[u]) /\ f[2] \in Nat
    BY <2>1, <2>2
  <2>4. f[2] = fetching[u] + 1
    BY <1>1, <2>3
  <2> QED BY <2>1, <2>2, <2>4
<1>4. IsFiniteSet(Fetches \cup {<<u, fetching[u] + 1>>})
  BY FS_AddElement
<1> QED BY <1>2, <1>3, <1>4, FS_Subset

LEMMA FetchesLess ==
  ASSUME fetching \in [UserId -> 0..MaxFetches], IsFiniteSet(Fetches), NEW u \in UserId,
         Pending(u), fetching' = [fetching EXCEPT ![u] = @ - 1]
  PROVE  fetching' \in [UserId -> 0..MaxFetches] /\ IsFiniteSet(Fetches')
<1>1. fetching[u] \in Nat /\ fetching[u] > 0 /\ fetching[u] <= MaxFetches /\ MaxFetches \in Nat
  BY ListAssumption DEF Pending
<1>2. fetching' \in [UserId -> 0..MaxFetches]
  BY <1>1
<1>3. Fetches' \subseteq Fetches
  <2> SUFFICES ASSUME NEW f \in Fetches' PROVE f \in Fetches
    OBVIOUS
  <2>1. f \in UserId \X (1..MaxFetches) /\ f[2] <= fetching'[f[1]] /\ f[1] \in UserId /\ f[2] \in Nat
    BY <1>1 DEF Fetches
  <2>2. fetching'[f[1]] <= fetching[f[1]] /\ fetching[f[1]] \in Nat /\ fetching'[f[1]] \in Nat
    BY <1>1, <2>1
  <2>3. f[2] <= fetching[f[1]]
    BY <2>1, <2>2
  <2> QED BY <2>1, <2>3 DEF Fetches
<1> QED BY <1>2, <1>3, FS_Subset

(* The list a request for chats or a search brings.                        *)
LEMMA Replacements ==
  ASSUME TypeOK, Tables, Answers
  PROVE  /\ SearchArrives => \E users \in Found : Replace(users)
         /\ \A users \in Found : users \in Seq(UserId) /\ IsInjective(users)
         /\ \A q \in Call : call[q] = "done" =>
              chats[q] \in Seq(UserId) /\ IsInjective(chats[q])
         /\ <<>> \in Seq(UserId) /\ IsInjective(<<>>)
<1>1. ASSUME NEW q \in Call, call[q] = "done"
      PROVE  chats[q] \in Seq(UserId) /\ IsInjective(chats[q])
  <2>1. chats[q] \in LatestFirst(grouped[q])
    BY <1>1 DEF Answers
  <2> QED BY <1>1, <2>1, Selected
<1>2. <<>> \in Seq(UserId) /\ IsInjective(<<>>)
  BY DEF IsInjective
<1> QED BY <1>1, <1>2, ListAssumption DEF SearchArrives

(* The list a page is opened with: the chats of the rows there were.       *)
LEMMA Opened ==
  ASSUME rows \in Seq(MessageId), OpenPage
  PROVE  list' \in Seq(UserId) /\ IsInjective(list')
<1>1. PICK n \in 0..Len(rows) :
        list' \in LatestFirst(GroupByUser(ChatIds(Range(SubSeq(rows, 1, n)), Me)))
  BY DEF OpenPage, ChatIds
<1>2. SubSeq(rows, 1, n) \in Seq(MessageId)
  OBVIOUS
<1>3. Range(SubSeq(rows, 1, n)) \subseteq MessageId
  BY <1>2 DEF Range
<1> QED BY <1>1, <1>3, ChatsOf, ListAssumption DEF ChatsInOrder

(* What happens to the list.                                               *)
LEMMA ListCases ==
  ASSUME TypeOK, Tables, Answers, [Next]_vars
  PROVE  \/ UNCHANGED <<list, fetching, overlapped>>
         \/ \E u \in UserId : Move(u) \/ FetchChat(u) \/ ChatArrives(u) \/ ChatFails(u)
         \/ \E users \in Seq(UserId) : IsInjective(users) /\ Replace(users)
         \/ OpenPage
<1>1. ASSUME NEW m \in MessageId, OnMessage(m)
      PROVE  \/ UNCHANGED <<list, fetching, overlapped>>
             \/ \E u \in UserId : Move(u) \/ FetchChat(u)
  <2>1. Other(m, Me) \in UserId
    BY MessageAssumption DEF Other
  <2> QED BY <1>1, <2>1 DEF OnMessage
<1>2. ASSUME NEW q \in Call, ChatsArrive(q) \/ ChatsFail(q)
      PROVE  \E users \in Seq(UserId) : IsInjective(users) /\ Replace(users)
  BY <1>2, Replacements DEF ChatsArrive, ChatsFail
<1>3. ASSUME SearchArrives
      PROVE  \E users \in Seq(UserId) : IsInjective(users) /\ Replace(users)
  BY <1>3, Replacements
<1> QED
  BY <1>1, <1>2, <1>3
     DEF Next, CreateMessage, AskChats, Server, TypeSearch, AskSearch, vars, listVars

LEMMA ListTypeNext ==
  TypeOK /\ Tables /\ Answers /\ [Next]_vars => ListType'
<1> SUFFICES ASSUME TypeOK, Tables, Answers, [Next]_vars PROVE ListType'
  OBVIOUS
<1>0. QueriesType /\ ListType
  BY TypeParts
<1>1. heard' \subseteq Range(rows')
  <2>1. ASSUME NEW m \in MessageId, InsertRow(m) PROVE Range(rows) \subseteq Range(rows')
    BY <1>0, <2>1, InsertFacts DEF QueriesType
  <2>2. Range(rows) \subseteq Range(rows')
    BY <2>1
       DEF Next, Server, FindUsersChats, CreateChatIds, CreateGrouped, DropChatIds, SelectChats,
           DropGrouped, StatementFails, CallFails, AskChats, Ask, CreateMessage, OnMessage,
           ChatArrives, ChatFails, ChatsArrive, ChatsFail, Replace, TypeSearch, AskSearch,
           SearchArrives, OpenPage, vars
  <2>3. heard' = heard \/ \E m \in Range(rows) : heard' = heard \cup {m}
    BY DEF Next, Server, AskChats, CreateMessage, OnMessage,
           ChatArrives, ChatFails, ChatsArrive, ChatsFail, Replace, TypeSearch, AskSearch,
           SearchArrives, OpenPage, vars, listVars
  <2> QED BY <1>0, <2>2, <2>3 DEF ListType
<1>2. searchText' \in BOOLEAN /\ listing' \in Call \cup {NoRequest, Search}
  BY <1>0 DEF ListType, Next, Server, AskChats, CreateMessage, OnMessage,
           ChatArrives, ChatFails, ChatsArrive, ChatsFail, Replace, TypeSearch, AskSearch,
           SearchArrives, OpenPage, vars, listVars
<1> DEFINE ListTyped ==
      /\ list \in Seq(UserId) /\ overlapped \subseteq UserId
      /\ fetching \in [UserId -> 0..MaxFetches] /\ IsFiniteSet(Fetches)
<1>3. ListTyped'
  <2>0. /\ list \in Seq(UserId) /\ overlapped \subseteq UserId
        /\ fetching \in [UserId -> 0..MaxFetches] /\ IsFiniteSet(Fetches)
    BY <1>0 DEF ListType
  <2>1. CASE UNCHANGED <<list, fetching, overlapped>>
    BY <2>0, <2>1 DEF Fetches
  <2>2. ASSUME NEW u \in UserId, Move(u) PROVE ListTyped'
    BY <2>0, <2>2, MoveFacts DEF Move, Fetches
  <2>3. ASSUME NEW u \in UserId, FetchChat(u) PROVE ListTyped'
    <3>1. fetching' \in [UserId -> 0..MaxFetches] /\ IsFiniteSet(Fetches')
      BY <2>0, <2>3, FetchesMore DEF FetchChat
    <3> QED BY <2>0, <2>3, <3>1 DEF FetchChat
  <2>4. ASSUME NEW u \in UserId, ChatArrives(u) \/ ChatFails(u) PROVE ListTyped'
    <3>1. fetching' \in [UserId -> 0..MaxFetches] /\ IsFiniteSet(Fetches')
      BY <2>0, <2>4, FetchesLess DEF ChatArrives, ChatFails
    <3>2. list' \in Seq(UserId)
      BY <2>0, <2>4, PutFacts DEF ChatArrives, ChatFails
    <3> QED BY <2>0, <2>4, <3>1, <3>2 DEF ChatArrives, ChatFails
  <2>5. ASSUME NEW users \in Seq(UserId), Replace(users) PROVE ListTyped'
    BY <2>0, <2>5 DEF Replace, Fetches
  <2>6. CASE OpenPage
    <3>1. list' \in Seq(UserId)
      BY <1>0, <2>6, Opened DEF QueriesType
    <3>2. fetching' = [u \in UserId |-> 0]
      BY <2>6 DEF OpenPage
    <3>3. fetching' \in [UserId -> 0..MaxFetches]
      BY <3>2, ListAssumption
    <3>4. \A f \in Fetches' : FALSE
      BY <3>2 DEF Fetches
    <3>5. IsFiniteSet(Fetches')
      BY <3>4, FS_EmptySet
    <3> QED BY <2>6, <3>1, <3>3, <3>5 DEF OpenPage
  <2> HIDE DEF ListTyped
  <2> QED BY <2>1, <2>2, <2>3, <2>4, <2>5, <2>6, ListCases
<1> QED BY <1>1, <1>2, <1>3 DEF ListType

LEMMA Inductive == Spec => [](TypeOK /\ Tables /\ Answers)
<1>1. Init => TypeOK /\ Tables /\ Answers
  BY TypeInit, AnswersInit
<1>2. TypeOK /\ Tables /\ Answers /\ [Next]_vars => TypeOK' /\ Tables' /\ Answers'
  <2>1. QueriesType' /\ ListType' => TypeOK' /\ Tables'
    BY DEF TypeOK, Tables, QueriesType, ListType
  <2> QED BY <2>1, QueriesTypeNext, ListTypeNext, AnswersNext
<1> QED BY <1>1, <1>2, PTL DEF Spec

(* Every variable keeps its type, a call that is at work has a connection  *)
(* of its own, and one that is not has none.                               *)
THEOREM TypeCorrect == Spec => []TypeOK
BY Inductive, PTL

-----------------------------------------------------------------------------
(* The answer of find_users_chats.                                         *)

LEMMA AnswersImply == TypeOK /\ Tables /\ Answers => ChatsAsOfStart
<1> SUFFICES ASSUME TypeOK, Tables, Answers, NEW q \in Call, call[q] = "done"
             PROVE  ChatsInOrder(chats[q], asOf[q], Asker[q])
  BY DEF ChatsAsOfStart, ChatsInOrder
<1>1. chats[q] \in LatestFirst(grouped[q])
  BY DEF Answers
<1> QED BY <1>1, Selected

(* Whatever is stored between the five statements, and whatever other      *)
(* calls do to their own tables meanwhile, the answer is the chats there   *)
(* were at the first statement, each once, the latest first.               *)
THEOREM ChatsAsOfStartCorrect == Spec => []ChatsAsOfStart
BY Inductive, AnswersImply, PTL

-----------------------------------------------------------------------------
(* Temporary tables.                                                       *)

(* A call that has dropped its first table has none on any connection.     *)
Dropped ==
  \A q \in Call, k \in Session :
    call[q] \in {"ungrouped", "selected"} => <<q, "chat_ids">> \notin temp[k]

LEMMA TempInit == Init => Dropped /\ LeftoversOnlyFromFailures
BY DEF Init, QueriesInit, Dropped, LeftoversOnlyFromFailures

LEMMA TempNext ==
  TypeOK /\ Tables /\ Dropped /\ LeftoversOnlyFromFailures /\ [Next]_vars
    => Dropped' /\ LeftoversOnlyFromFailures'
<1> SUFFICES ASSUME TypeOK, Tables, Dropped, LeftoversOnlyFromFailures, [Next]_vars
             PROVE  Dropped' /\ LeftoversOnlyFromFailures'
  OBVIOUS
<1> DEFINE Pair == Call \X {"chat_ids", "chat_ids_grouped"}
<1>0. QueriesType /\ temp \in [Session -> SUBSET Pair] /\ call \in [Call -> CallPhase]
  BY TypeParts DEF QueriesType
<1>1. CASE UNCHANGED <<call, session, temp>>
  BY <1>1 DEF Dropped, LeftoversOnlyFromFailures, Working
<1>2. ASSUME NEW q \in Call, Ask(q) PROVE Dropped' /\ LeftoversOnlyFromFailures'
  <2>1. /\ call[q] = "idle" /\ call'[q] = "asked" /\ session' = session /\ temp' = temp
        /\ \A p \in Call : p # q => call'[p] = call[p]
    BY <1>0, <1>2 DEF Ask
  <2>2. \A k \in Session : \A t \in temp[k] : t[1] \in Call /\ t[1] # q
    BY <1>0, <2>1 DEF LeftoversOnlyFromFailures, Working
  <2> QED BY <2>1, <2>2 DEF Dropped, LeftoversOnlyFromFailures, Working
<1>3. ASSUME NEW q \in Call, FindUsersChats(q) PROVE Dropped' /\ LeftoversOnlyFromFailures'
  <2>1. /\ \A p \in Call : p # q => call'[p] = call[p] /\ session'[p] = session[p]
        /\ temp' \in [Session -> SUBSET Pair]
    BY <1>0, <1>3, StatementFacts
  <2>2. \A p \in Call : p # q => (p \in Working' <=> p \in Working)
    BY <2>1 DEF Working
  <2>3. \A k \in Session : \A t \in temp[k] : t \in Pair /\ t[1] \in Call
    BY <1>0
  (* What is on the connections after the step: what was, or the table the *)
  (* call has just made on its own one.                                    *)
  <2>4. ASSUME NEW k \in Session, NEW t \in temp'[k], t[1] # q
        PROVE  t \in temp[k] /\ t[1] \in Call
    BY <1>0, <1>3, <2>4, QueriesAssumption
       DEF FindUsersChats, CreateChatIds, CreateGrouped, DropChatIds, SelectChats,
           DropGrouped, StatementFails, CallFails
  <2>5. ASSUME NEW k \in Session, NEW t \in temp'[k], t[1] = q
        PROVE  (q \in Working' /\ session'[q] = k) \/ call'[q] = "failed"
    <3>0. t \in Pair
      BY <2>1, <2>5
    <3>1. CASE CreateChatIds(q)
      BY <1>0, <2>5, <3>1
         DEF CreateChatIds, LeftoversOnlyFromFailures, Working, Tables
    <3>2. CASE CreateGrouped(q) \/ DropChatIds(q)
      <4>1. session' = session /\ q \in Working /\ q \in Working' /\ session[q] \in Session
        BY <1>0, <3>2 DEF CreateGrouped, DropChatIds, Working, QueriesType
      <4>2. k # session[q] => temp'[k] = temp[k]
        BY <1>0, <3>2 DEF CreateGrouped, DropChatIds
      <4> QED BY <2>5, <4>1, <4>2 DEF LeftoversOnlyFromFailures, Working
    <3>3. CASE SelectChats(q)
      <4>1. session' = session /\ q \in Working /\ q \in Working' /\ temp' = temp
        BY <1>0, <3>3 DEF SelectChats, Working
      <4> QED BY <2>5, <4>1 DEF LeftoversOnlyFromFailures, Working
    <3>4. CASE DropGrouped(q)
      <4>1. /\ call[q] = "selected" /\ q \in Working /\ session[q] \in Session
            /\ temp' = [temp EXCEPT ![session[q]] = @ \ {<<q, "chat_ids_grouped">>}]
        BY <1>0, <3>4 DEF DropGrouped, Working, QueriesType
      <4>2. t \in temp[k] /\ (k = session[q] => t # <<q, "chat_ids_grouped">>)
        BY <1>0, <2>5, <4>1
      <4>3. session[q] = k
        BY <2>5, <4>1, <4>2 DEF LeftoversOnlyFromFailures
      <4>4. t = <<q, "chat_ids">>
        BY <2>5, <3>0, <4>2, <4>3
      <4> QED BY <4>1, <4>2, <4>4 DEF Dropped
    <3>5. CASE StatementFails(q) \/ CallFails(q)
      BY <1>0, <3>5 DEF StatementFails, CallFails
    <3> QED BY <1>3, <3>1, <3>2, <3>3, <3>4, <3>5 DEF FindUsersChats
  <2>6. LeftoversOnlyFromFailures'
    <3> SUFFICES ASSUME NEW k \in Session, NEW t \in temp'[k]
                 PROVE  (t[1] \in Working' /\ session'[t[1]] = k) \/ call'[t[1]] = "failed"
      BY DEF LeftoversOnlyFromFailures
    <3>1. CASE t[1] # q
      BY <2>1, <2>2, <2>4, <3>1 DEF LeftoversOnlyFromFailures
    <3>2. CASE t[1] = q
      BY <2>5, <3>2
    <3> QED BY <3>1, <3>2
  <2>7. Dropped'
    <3> SUFFICES ASSUME NEW p \in Call, NEW k \in Session,
                        call'[p] \in {"ungrouped", "selected"}, <<p, "chat_ids">> \in temp'[k]
                 PROVE  FALSE
      BY DEF Dropped
    <3>1. CASE p # q
      BY <2>1, <2>4, <3>1 DEF Dropped
    <3>2. CASE p = q /\ DropChatIds(q)
      <4>1. /\ call[q] = "grouped" /\ q \in Working /\ session[q] \in Session
            /\ session' = session
            /\ temp' = [temp EXCEPT ![session[q]] = @ \ {<<q, "chat_ids">>}]
        BY <1>0, <3>2 DEF DropChatIds, Working, QueriesType
      <4>2. session[q] = k
        BY <2>5, <3>2, <4>1
      <4> QED BY <1>0, <3>2, <4>1, <4>2
    <3>3. CASE p = q /\ SelectChats(q)
      BY <3>3 DEF SelectChats, Dropped
    <3>4. CASE p = q /\ ~DropChatIds(q) /\ ~SelectChats(q)
      BY <1>0, <1>3, <3>4
         DEF FindUsersChats, CreateChatIds, CreateGrouped, DropGrouped, StatementFails, CallFails
    <3> QED BY <3>1, <3>2, <3>3, <3>4
  <2> QED BY <2>6, <2>7
<1> QED
  BY <1>1, <1>2, <1>3
     DEF Next, Server, AskChats, CreateMessage, InsertRow, OnMessage, ChatArrives, ChatFails,
         ChatsArrive, ChatsFail, Replace, TypeSearch, AskSearch, SearchArrives, OpenPage,
          vars, queryVars

(* On however many connections however many calls work: the tables they    *)
(* leave behind are those of calls that failed.                            *)
THEOREM LeftoversCorrect == Spec => []LeftoversOnlyFromFailures
<1>1. TypeOK /\ Tables /\ Dropped /\ LeftoversOnlyFromFailures /\ [Next]_vars
        => Dropped' /\ LeftoversOnlyFromFailures'
  BY TempNext
<1> QED BY <1>1, TempInit, Inductive, PTL DEF Spec

-----------------------------------------------------------------------------
(* The list on the page.                                                   *)

Once(u) == \A i, j \in DOMAIN list : list[i] = u /\ list[j] = u => i = j

(* A chat that is not marked has one element, in the list or on its way.   *)
OneElement ==
  \A u \in UserId \ overlapped :
    /\ Once(u)
    /\ fetching[u] <= 1
    /\ fetching[u] = 1 => u \notin Range(list)

LEMMA OneElementInit == Init => OneElement
BY DEF Init, OneElement, Once, Range

LEMMA OneElementNext ==
  TypeOK /\ Tables /\ Answers /\ OneElement /\ [Next]_vars => OneElement'
<1> SUFFICES ASSUME TypeOK, Tables, Answers, OneElement, [Next]_vars,
                    NEW v \in UserId, v \notin overlapped'
             PROVE  /\ Once(v)'
                    /\ fetching'[v] <= 1
                    /\ fetching'[v] = 1 => v \notin Range(list')
  BY DEF OneElement
<1> DEFINE Goal == /\ Once(v)
                   /\ fetching[v] <= 1
                   /\ fetching[v] = 1 => v \notin Range(list)
<1>0. /\ list \in Seq(UserId) /\ fetching \in [UserId -> 0..MaxFetches]
      /\ fetching[v] \in Nat
      /\ v \notin overlapped => Goal
  BY ListAssumption DEF TypeOK, OneElement
<1>1. ASSUME UNCHANGED <<list, fetching, overlapped>> PROVE Goal'
  BY <1>0, <1>1 DEF Once
<1>2. ASSUME NEW u \in UserId, Move(u) PROVE Goal'
  <2>1. Goal /\ fetching' = fetching /\ list' = <<u>> \o Pop(u) /\ u \in Range(list)
    BY <1>0, <1>2 DEF Move
  <2>2. PICK from \in [DOMAIN list' -> DOMAIN list] :
          IsInjective(from) /\ \A i \in DOMAIN list' : list'[i] = list[from[i]]
    BY <1>0, <2>1, MoveFacts
  <2>3. Once(v)'
    <3> SUFFICES ASSUME NEW i \in DOMAIN list', NEW j \in DOMAIN list',
                        list'[i] = v, list'[j] = v
                 PROVE  i = j
      BY DEF Once
    <3>1. from[i] = from[j]
      BY <2>1, <2>2 DEF Once
    <3> QED BY <2>2, <3>1 DEF IsInjective
  <2>4. Range(list') \subseteq Range(list)
    BY <2>2 DEF Range
  <2> QED BY <2>1, <2>3, <2>4
<1>3. ASSUME NEW u \in UserId, FetchChat(u) PROVE Goal'
  <2>1. /\ u \notin Range(list) /\ list' = list /\ v \notin overlapped
        /\ fetching' = [fetching EXCEPT ![u] = @ + 1]
        /\ u = v => ~Pending(u)
    BY <1>3 DEF FetchChat
  <2>2. CASE u = v
    <3>1. fetching[v] = 0
      BY <1>0, <2>1, <2>2 DEF Pending
    <3>2. fetching'[v] = 1
      BY <1>0, <2>1, <2>2, <3>1
    <3> QED BY <1>0, <2>1, <2>2, <3>2 DEF Once
  <2>3. CASE u # v
    <3>1. fetching'[v] = fetching[v]
      BY <1>0, <2>1, <2>3
    <3> QED BY <1>0, <2>1, <3>1 DEF Once
  <2> QED BY <2>2, <2>3
<1>4. ASSUME NEW u \in UserId, ChatArrives(u) PROVE Goal'
  <2>1. /\ Pending(u) /\ v \notin overlapped /\ Goal
        /\ fetching' = [fetching EXCEPT ![u] = @ - 1] /\ list' = <<u>> \o list
    BY <1>0, <1>4 DEF ChatArrives
  <2>2. /\ DOMAIN list' = 1..Len(list) + 1 /\ list'[1] = u
        /\ \A i \in 1..Len(list) : list'[i + 1] = list[i]
        /\ DOMAIN list = 1..Len(list) /\ Len(list) \in Nat
    BY <1>0, <2>1, PutFacts
  <2>3. \A i \in DOMAIN list' : i = 1 \/ (i - 1 \in DOMAIN list /\ list'[i] = list[i - 1])
    <3> TAKE i \in DOMAIN list'
    <3>1. i = 1 \/ (i - 1 \in 1..Len(list) /\ i - 1 + 1 = i)
      BY <2>2
    <3> QED BY <2>2, <3>1
  <2>4. CASE u = v
    <3>1. fetching[v] = 1 /\ v \notin Range(list)
      BY <1>0, <2>1, <2>4 DEF Pending
    <3>2. fetching'[v] = 0
      BY <1>0, <2>1, <2>4, <3>1
    <3>3. \A i \in DOMAIN list' : list'[i] = v => i = 1
      BY <2>3, <3>1 DEF Range
    <3> QED BY <3>2, <3>3 DEF Once
  <2>5. CASE u # v
    <3>1. fetching'[v] = fetching[v]
      BY <1>0, <2>1, <2>5
    <3>2. \A i \in DOMAIN list' : list'[i] = v => i - 1 \in DOMAIN list /\ list[i - 1] = v
      BY <2>2, <2>3, <2>5
    <3>3. Once(v)'
      <4> SUFFICES ASSUME NEW i \in DOMAIN list', NEW j \in DOMAIN list',
                          list'[i] = v, list'[j] = v
                   PROVE  i = j
        BY DEF Once
      <4>1. i - 1 = j - 1
        BY <2>1, <3>2 DEF Once
      <4> QED BY <2>2, <4>1
    <3>4. v \in Range(list') => v \in Range(list)
      BY <3>2 DEF Range
    <3> QED BY <2>1, <3>1, <3>3, <3>4
  <2> QED BY <2>4, <2>5
<1>5. ASSUME NEW u \in UserId, ChatFails(u) PROVE Goal'
  <2>1. /\ Pending(u) /\ v \notin overlapped /\ Goal
        /\ fetching' = [fetching EXCEPT ![u] = @ - 1] /\ list' = list
    BY <1>0, <1>5 DEF ChatFails
  <2>2. fetching'[v] = fetching[v] \/ (fetching[v] = 1 /\ fetching'[v] = 0)
    BY <1>0, <2>1 DEF Pending
  <2> QED BY <2>1, <2>2 DEF Once
<1>6. ASSUME NEW users \in Seq(UserId), IsInjective(users), Replace(users) PROVE Goal'
  <2>1. list' = users /\ fetching' = fetching /\ ~Pending(v)
    BY <1>6 DEF Replace
  <2>2. fetching'[v] = 0
    BY <1>0, <2>1 DEF Pending
  <2> QED BY <1>6, <2>1, <2>2 DEF Once, IsInjective
<1>7. ASSUME OpenPage PROVE Goal'
  <2>1. IsInjective(list') /\ fetching'[v] = 0
    BY <1>7, Opened DEF OpenPage, TypeOK
  <2> QED BY <2>1 DEF Once, IsInjective
<1>8. Goal'
  <2> HIDE DEF Goal
  <2> QED BY <1>1, <1>2, <1>3, <1>4, <1>5, <1>6, <1>7, ListCases
<1> QED BY <1>8

LEMMA OneElementImplies == TypeOK /\ OneElement => TwiceOnlyWhenOverlapping
<1> SUFFICES ASSUME TypeOK, OneElement, NEW u \in UserId, u \notin overlapped
             PROVE  ~(Count(u) > 1)
  BY DEF TwiceOnlyWhenOverlapping
<1> DEFINE I == {i \in DOMAIN list : list[i] = u}
<1>1. \A i, j \in I : i = j
  BY DEF OneElement, Once
<1>2. CASE I = {}
  BY <1>2, FS_EmptySet DEF Count
<1>3. CASE I # {}
  <2>1. PICK i : I = {i}
    <3> HIDE DEF I
    <3> QED BY <1>1, <1>3
  <2> QED BY <2>1, FS_Singleton DEF Count
<1> QED BY <1>2, <1>3

(* However many messages, fetches and searches overlap, a chat is only     *)
(* listed twice if a fetch of it met another one or a new list.            *)
THEOREM TwiceCorrect == Spec => []TwiceOnlyWhenOverlapping
<1>1. TypeOK /\ Tables /\ Answers /\ OneElement /\ [Next]_vars => OneElement'
  BY OneElementNext
<1> QED BY <1>1, OneElementInit, OneElementImplies, Inductive, PTL DEF Spec


-----------------------------------------------------------------------------
(* The two stores.                                                         *)

(* order lists the numbers of I, the smaller ones first.                   *)
Lists(order, I) ==
  /\ order \in [1..Cardinality(I) -> I]
  /\ Range(order) = I
  /\ \A i, j \in DOMAIN order : i < j => order[i] < order[j]

LEMMA ListExists ==
  ASSUME NEW S, IsFiniteSet(S), S \subseteq Int
  PROVE  \E order : Lists(order, S)
<1> DEFINE Bad == {I \in SUBSET S : ~\E order : Lists(order, I)}
<1>1. ASSUME NEW I \in Bad, \A J \in Bad : <<J, I>> \notin StrictSubsetOrdering(S) PROVE FALSE
  <2>1. I \subseteq S /\ IsFiniteSet(I) /\ I \subseteq Int /\ ~\E order : Lists(order, I)
    <3>1. I \subseteq S
      OBVIOUS
    <3> QED BY <3>1, FS_Subset
  <2>2. I # {}
    <3> SUFFICES ASSUME I = {} PROVE FALSE
      OBVIOUS
    <3> DEFINE order == [i \in {} |-> 0]
    <3>1. Cardinality(I) = 0 /\ 1..0 = {}
      BY FS_EmptySet
    <3>2. order \in [1..Cardinality(I) -> I] /\ DOMAIN order = {}
      BY <3>1
    <3>3. Range(order) = {}
      BY <3>2 DEF Range
    <3>4. Lists(order, I)
      BY <3>2, <3>3 DEF Lists
    <3> QED BY <2>1, <3>4
  <2>3. PICK m \in I : \A i \in I : i <= m
    <3> DEFINE f == [i \in I |-> 0 - i]
    <3>1. f \in [I -> Int]
      BY <2>1
    <3>2. PICK m \in I : \A i \in I : f[m] <= f[i]
      <4> HIDE DEF f
      <4> QED BY <2>1, <2>2, <3>1, Least
    <3>3. \A i \in I : i <= m
      BY <2>1, <3>2
    <3> QED BY <3>3
  <2> DEFINE J == I \ {m}
             k == Cardinality(J)
  <2>4. k \in Nat /\ Cardinality(I) = k + 1
    <3>1. IsFiniteSet(J) /\ Cardinality(I) \in Nat /\ Cardinality(J) = Cardinality(I) - 1
      BY <2>1, FS_RemoveElement, FS_CardinalityType
    <3>2. Cardinality(J) \in Nat
      BY <3>1, FS_CardinalityType
    <3> QED BY <3>1, <3>2
  <2>5. \E order : Lists(order, J)
    <3>1. J \in SUBSET S /\ <<J, I>> \in StrictSubsetOrdering(S)
      BY <2>1 DEF StrictSubsetOrdering
    <3> QED BY <1>1, <3>1
  <2>6. PICK h : Lists(h, J)
    BY <2>5
  <2>7. h \in [1..k -> J] /\ Range(h) = J /\ \A i, j \in 1..k : i < j => h[i] < h[j]
    BY <2>6 DEF Lists
  <2> HIDE DEF k
  <2> DEFINE order == [i \in 1..(k + 1) |-> IF i = k + 1 THEN m ELSE h[i]]
  <2>8. \A i \in 1..(k + 1) : i = k + 1 \/ i \in 1..k
    BY <2>4
  <2>9. k + 1 \in 1..(k + 1) /\ \A i \in 1..k : i \in 1..(k + 1) /\ i # k + 1
    BY <2>4
  <2>10. order \in [1..Cardinality(I) -> I]
    BY <2>4, <2>7, <2>8
  <2>11. order[k + 1] = m /\ \A i \in 1..k : order[i] = h[i]
    BY <2>9
  <2>12. DOMAIN order = 1..(k + 1)
    OBVIOUS
  <2> HIDE DEF order
  <2>13. Range(order) = I
    <3>1. \A i \in I : \E j \in 1..(k + 1) : order[j] = i
      <4>1. \A i \in J : \E j \in 1..k : h[j] = i
        BY <2>7 DEF Range
      <4> QED BY <2>9, <2>11, <4>1
    <3>2. Range(order) = {order[j] : j \in 1..(k + 1)} /\ order \in [1..(k + 1) -> I]
      BY <2>4, <2>10, <2>12 DEF Range
    <3> QED BY <3>1, <3>2
  <2>14. ASSUME NEW i \in 1..(k + 1), NEW j \in 1..(k + 1), i < j PROVE order[i] < order[j]
    <3>1. i \in 1..k
      BY <2>4, <2>14
    <3>2. CASE j = k + 1
      <4>1. h[i] \in J
        BY <2>7, <3>1
      <4>2. h[i] \in Int /\ m \in Int /\ h[i] # m /\ h[i] <= m
        BY <2>1, <2>3, <4>1
      <4> QED BY <2>11, <3>1, <3>2, <4>2
    <3>3. CASE j \in 1..k
      BY <2>7, <2>11, <2>14, <3>1, <3>3
    <3> QED BY <2>8, <3>2, <3>3
  <2>15. Lists(order, I)
    BY <2>10, <2>12, <2>13, <2>14 DEF Lists
  <2> QED BY <2>1, <2>15
<1>2. Bad = {}
  <2> SUFFICES ASSUME Bad # {} PROVE FALSE
    OBVIOUS
  <2>1. FiniteSubsetsOf(S) = SUBSET S
    BY FS_FiniteSubsetsOfFinite
  <2>2. Bad \subseteq FiniteSubsetsOf(S) /\ Bad # {}
    BY <2>1
  <2>3. PICK I \in Bad : \A J \in Bad : <<J, I>> \notin StrictSubsetOrdering(S)
    <3> HIDE DEF Bad
    <3> QED BY <2>2, FS_StrictSubsetOrderingWellFounded, WFMin
  <2> QED BY <1>1, <2>3
<1>3. S \in SUBSET S /\ S \notin Bad
  BY <1>2
<1> QED BY <1>3

LEMMA AscendingFacts ==
  ASSUME NEW n \in Nat, NEW I, I \subseteq 1..n
  PROVE  /\ IsFiniteSet(I) /\ Cardinality(I) \in Nat
         /\ Lists(Ascending(I), I)
<1>1. IsFiniteSet(1..n)
  BY FS_Interval
<1>2. IsFiniteSet(I) /\ I \subseteq Int
  <2>1. I \subseteq Int
    OBVIOUS
  <2>2. IsFiniteSet(I)
    BY <1>1, FS_Subset
  <2> QED BY <2>1, <2>2
<1>3. Cardinality(I) \in Nat
  BY <1>2, FS_CardinalityType
<1>4. PICK order : Lists(order, I)
  BY <1>2, ListExists
<1>5. Ascending(I) = CHOOSE g \in [1..Cardinality(I) -> I] :
                       /\ Range(g) = I
                       /\ \A i, j \in DOMAIN g : i < j => g[i] < g[j]
  BY DEF Ascending
<1>6. Lists(Ascending(I), I)
  BY <1>4, <1>5 DEF Lists
<1> QED BY <1>2, <1>3, <1>6

(* Rows in the order of their timestamps, no two at the same time.         *)
Sorted(r) ==
  /\ r \in Seq(MessageId)
  /\ \A i, j \in 1..Len(r) : i < j => Timestamp[r[i]] < Timestamp[r[j]]

LEMMA SortedFacts ==
  ASSUME NEW r, Sorted(r)
  PROVE  /\ IsFiniteSet(Range(r)) /\ Cardinality(Range(r)) = Len(r)
         /\ r \in ByTimestamp(Range(r))
         /\ IsInjective(r)
<1> DEFINE n == Len(r)
<1>1. r \in Seq(MessageId) /\ n \in Nat /\ DOMAIN r = 1..n
  BY DEF Sorted
<1>2. \A i \in 1..n : r[i] \in MessageId /\ Timestamp[r[i]] \in Nat
  BY <1>1, MessageAssumption
<1>3. r \in [1..n -> Range(r)] /\ \A m \in Range(r) : \E i \in 1..n : r[i] = m
  BY <1>1 DEF Range
<1>4. \A i, j \in 1..n : i < j => r[i] # r[j] /\ Timestamp[r[i]] <= Timestamp[r[j]]
  BY <1>2 DEF Sorted
<1>5. \A i, j \in 1..n : r[i] = r[j] => i = j
  <2>1. \A i, j \in 1..n : i < j \/ j < i \/ i = j
    BY <1>1
  <2> QED BY <1>4, <2>1
<1>6. IsInjective(r)
  BY <1>1, <1>5 DEF IsInjective
<1>7. r \in Bijection(1..n, Range(r))
  BY <1>3, <1>6 DEF Bijection, Injection, Surjection
<1>8. IsFiniteSet(1..n) /\ Cardinality(1..n) = n
  <2> HIDE DEF n
  <2> QED BY <1>1, FS_Interval
<1>9. IsFiniteSet(Range(r)) /\ Cardinality(Range(r)) = n
  <2> HIDE DEF n
  <2>1. ExistsBijection(1..n, Range(r))
    BY <1>7 DEF ExistsBijection
  <2> QED BY <1>8, <2>1, FS_Bijection
<1>10. r \in ByTimestamp(Range(r))
  BY <1>1, <1>3, <1>4, <1>9 DEF ByTimestamp
<1> QED BY <1>6, <1>9, <1>10

(* What a filter gives, of rows that were inserted in order.               *)
LEMMA FilteredFacts ==
  ASSUME rows \in Seq(MessageId), InOrder, NEW I, I \subseteq DOMAIN rows
  PROVE  /\ Sorted(Filtered(I))
         /\ Range(Filtered(I)) = {rows[i] : i \in I}
<1> DEFINE n == Len(rows)
           k == Cardinality(I)
           r == Filtered(I)
           at == Ascending(I)
<1>1. n \in Nat /\ I \subseteq 1..n
  OBVIOUS
<1>2. k \in Nat /\ Lists(at, I)
  <2> HIDE DEF n, k
  <2> QED BY <1>1, AscendingFacts DEF k
<1>3. /\ at \in [1..k -> I] /\ \A i \in I : \E j \in 1..k : at[j] = i
      /\ \A i, j \in 1..k : i < j => at[i] < at[j]
  BY <1>2 DEF Lists, Range
<1>4. r = [i \in 1..k |-> rows[at[i]]]
  BY DEF Filtered
<1> HIDE DEF k, r, at
<1>5. \A i \in 1..k : at[i] \in I /\ at[i] \in DOMAIN rows /\ rows[at[i]] \in MessageId
  BY <1>1, <1>3
<1>6. r \in Seq(MessageId) /\ Len(r) = k /\ \A i \in 1..k : r[i] = rows[at[i]]
  BY <1>2, <1>4, <1>5
<1>7. ASSUME NEW i \in 1..k, NEW j \in 1..k, i < j PROVE Timestamp[r[i]] < Timestamp[r[j]]
  BY <1>3, <1>5, <1>6, <1>7 DEF InOrder
<1>8. Range(r) = {rows[i] : i \in I}
  <2>1. \A m : m \in Range(r) <=> \E i \in 1..k : m = r[i]
    BY <1>4 DEF Range
  <2>2. ASSUME NEW m \in Range(r) PROVE m \in {rows[i] : i \in I}
    BY <1>5, <1>6, <2>1
  <2>3. ASSUME NEW i \in I PROVE rows[i] \in Range(r)
    <3>1. PICK j \in 1..k : at[j] = i
      BY <1>3
    <3> QED BY <1>6, <2>1, <3>1
  <2> QED BY <2>2, <2>3
<1> QED BY <1>6, <1>7, <1>8 DEF Sorted, r

(* The place of a row.                                                     *)
LEMMA PlaceOfRow ==
  ASSUME rows \in Seq(MessageId), InOrder, NEW p \in Range(rows)
  PROVE  /\ Position(p) \in DOMAIN rows /\ rows[Position(p)] = p /\ p \in MessageId
         /\ \A i \in DOMAIN rows : After(rows[i], p) <=> i > Position(p)
         /\ \A i \in DOMAIN rows : After(p, rows[i]) <=> i < Position(p)
<1> DEFINE at == Position(p)
<1>1. at \in 1..Len(rows) /\ rows[at] = p
  BY FirstPosition DEF Position
<1>2. \A i \in 1..Len(rows) :
        /\ rows[i] \in MessageId /\ Timestamp[rows[i]] \in Nat /\ rows[i] \in Nat
        /\ i \in Nat
  <2>1. \A i \in 1..Len(rows) : rows[i] \in MessageId /\ i \in Nat
    OBVIOUS
  <2>2. \A m \in MessageId : m \in Nat /\ Timestamp[m] \in Nat
    BY MessageAssumption
  <2> QED BY <2>1, <2>2
<1> HIDE DEF at
<1>3. ASSUME NEW i \in 1..Len(rows)
      PROVE  (After(rows[i], p) <=> i > at) /\ (After(p, rows[i]) <=> i < at)
  <2>1. /\ i < at => Timestamp[rows[i]] < Timestamp[p]
        /\ at < i => Timestamp[p] < Timestamp[rows[i]]
    BY <1>1 DEF InOrder
  <2>2. /\ i \in Nat /\ at \in Nat /\ rows[i] \in Nat /\ p \in Nat
        /\ Timestamp[rows[i]] \in Nat /\ Timestamp[p] \in Nat /\ (i = at => rows[i] = p)
    BY <1>1, <1>2
  <2> QED BY <2>1, <2>2 DEF After
<1> QED BY <1>1, <1>2, <1>3 DEF at

(* fetch_users_messages_since.                                             *)
LEMMA SinceAgrees ==
  ASSUME rows \in Seq(MessageId), InOrder, NEW u \in UserId,
         NEW p \in Range(rows) \cup {UnknownId}
  PROVE  MockMessagesSince(u, p) \in ByTimestamp(UsersMessagesSince(Range(rows), u, p))
<1>1. CASE p \in Range(rows)
  <2> DEFINE I == {i \in Mine(u) : i > Position(p)}
             S == UsersMessagesSince(Range(rows), u, p)
  <2>1. I \subseteq DOMAIN rows
    BY DEF Mine
  <2>2. Sorted(Filtered(I)) /\ Range(Filtered(I)) = {rows[i] : i \in I}
    <3> HIDE DEF I
    <3> QED BY <2>1, FilteredFacts
  <2>3. ASSUME NEW i \in I PROVE rows[i] \in S
    <3>1. i \in DOMAIN rows /\ Concerns(rows[i], u) /\ i > Position(p)
      BY DEF Mine
    <3>2. After(rows[i], p)
      BY <1>1, <3>1, PlaceOfRow
    <3>3. rows[i] \in Range(rows)
      BY <3>1 DEF Range
    <3> QED BY <1>1, <3>1, <3>2, <3>3 DEF UsersMessagesSince
  <2>4. ASSUME NEW m \in S PROVE \E i \in I : m = rows[i]
    <3>1. m \in Range(rows) /\ Concerns(m, u) /\ After(m, p)
      BY <1>1 DEF UsersMessagesSince
    <3>2. PICK i \in DOMAIN rows : rows[i] = m
      BY <3>1 DEF Range
    <3>3. i > Position(p)
      BY <1>1, <3>1, <3>2, PlaceOfRow
    <3>4. i \in I
      BY <3>1, <3>2, <3>3 DEF Mine
    <3> QED BY <3>2, <3>4
  <2>5. MockMessagesSince(u, p) = Filtered(I)
    BY <1>1 DEF MockMessagesSince
  <2> HIDE DEF I, S
  <2>6. Range(Filtered(I)) = S
    BY <2>2, <2>3, <2>4
  <2>7. Filtered(I) \in ByTimestamp(Range(Filtered(I)))
    BY <2>2, SortedFacts
  <2> QED BY <2>5, <2>6, <2>7 DEF S
<1>2. CASE p \notin Range(rows)
  <2>1. MockMessagesSince(u, p) = <<>> /\ UsersMessagesSince(Range(rows), u, p) = {}
    BY <1>2 DEF MockMessagesSince, UsersMessagesSince
  <2>2. Sorted(<<>>) /\ Range(<<>>) = {}
    BY DEF Sorted, Range
  <2>3. <<>> \in ByTimestamp(Range(<<>>))
    BY <2>2, SortedFacts
  <2> QED BY <2>1, <2>2, <2>3
<1> QED BY <1>1, <1>2

(* The last of some rows, at most limit.                                   *)
LastOf(r, limit) ==
  SubSeq(r, IF Len(r) > limit THEN Len(r) - limit + 1 ELSE 1, Len(r))

LEMMA LastOfSorted ==
  ASSUME NEW r, Sorted(r), NEW limit \in Nat \ {0}
  PROVE  LET s == LastOf(r, limit)
         IN  /\ Sorted(s) /\ Range(s) \subseteq Range(r)
             /\ Cardinality(Range(s)) =
                  IF Cardinality(Range(r)) < limit THEN Cardinality(Range(r)) ELSE limit
             /\ \A m \in Range(s), o \in Range(r) \ Range(s) : Timestamp[o] <= Timestamp[m]
<1> DEFINE n == Len(r)
           first == IF n > limit THEN n - limit + 1 ELSE 1
           k == n - first + 1
           s == LastOf(r, limit)
<1>1. r \in Seq(MessageId) /\ n \in Nat /\ DOMAIN r = 1..n
  BY DEF Sorted
<1>2. /\ first = IF n > limit THEN n - limit + 1 ELSE 1
      /\ s = SubSeq(r, first, n) /\ Len(r) = n
  BY DEF LastOf
<1> HIDE DEF n, first, s
<1>3. first \in Nat /\ first >= 1 /\ k \in Nat /\ k = IF n < limit THEN n ELSE limit
  <2>1. CASE n > limit
    BY <1>1, <1>2, <2>1
  <2>2. CASE ~(n > limit)
    BY <1>1, <1>2, <2>2
  <2> QED BY <2>1, <2>2
<1>4. s \in Seq(MessageId) /\ Len(s) = k /\ \A i \in 1..k : s[i] = r[first + i - 1]
  <2>1. \A i \in first..n : r[i] \in MessageId
    BY <1>1, <1>2, <1>3
  <2>2. /\ s \in Seq(MessageId) /\ Len(s) = IF first <= n THEN n - first + 1 ELSE 0
        /\ \A i \in 1..(n - first + 1) : s[i] = r[first + i - 1]
    BY <1>1, <1>2, <1>3, <2>1, SubSeqProperties
  <2>3. k = IF first <= n THEN n - first + 1 ELSE 0
    <3>1. n \in Nat /\ first \in Nat /\ n - first + 1 \in Nat
      BY <1>1, <1>3
    <3> QED BY <3>1
  <2>4. k = n - first + 1
    OBVIOUS
  <2> HIDE DEF k
  <2> QED BY <2>2, <2>3, <2>4
<1>5. \A i \in 1..k : first + i - 1 \in 1..n /\ first + i - 1 >= first
  BY <1>1, <1>3
<1>6. \A i \in 1..n : i >= first => i - first + 1 \in 1..k /\ first + (i - first + 1) - 1 = i
  BY <1>1, <1>3
<1>7. \A i, j \in 1..k : i < j => first + i - 1 < first + j - 1
  BY <1>3
<1> HIDE DEF k
<1>8. Sorted(s)
  <2>1. ASSUME NEW i \in 1..k, NEW j \in 1..k, i < j PROVE Timestamp[s[i]] < Timestamp[s[j]]
    <3>1. r[first + i - 1] = s[i] /\ r[first + j - 1] = s[j]
      BY <1>4
    <3>2. /\ first + i - 1 \in 1..Len(r) /\ first + j - 1 \in 1..Len(r)
          /\ first + i - 1 < first + j - 1
      BY <1>2, <1>5, <1>7, <2>1
    <3> QED BY <3>1, <3>2 DEF Sorted
  <2> QED BY <1>4, <2>1 DEF Sorted
<1>9. ASSUME NEW m
      PROVE  m \in Range(s) <=> \E i \in 1..n : i >= first /\ m = r[i]
  <2>1. m \in Range(s) <=> \E i \in 1..k : m = s[i]
    <3>1. s \in Seq(MessageId) /\ Len(s) = k
      BY <1>4
    <3>2. DOMAIN s = 1..k
      BY <3>1, LenProperties
    <3> QED BY <3>2 DEF Range
  <2>2. ASSUME NEW i \in 1..n, i >= first, m = r[i] PROVE \E j \in 1..k : m = s[j]
    BY <1>4, <1>6, <2>2
  <2>3. ASSUME NEW i \in 1..k, m = s[i] PROVE \E j \in 1..n : j >= first /\ m = r[j]
    <3>1. s[i] = r[first + i - 1] /\ first + i - 1 \in 1..n /\ first + i - 1 >= first
      BY <1>4, <1>5
    <3> DEFINE j == first + i - 1
    <3>2. j \in 1..n /\ j >= first /\ m = r[j]
      BY <2>3, <3>1
    <3> HIDE DEF j
    <3> QED BY <3>2
  <2> QED BY <2>1, <2>2, <2>3
<1>10. \A m : m \in Range(r) <=> \E i \in 1..n : m = r[i]
  BY <1>1 DEF Range
<1>11. Cardinality(Range(s)) = k /\ Cardinality(Range(r)) = n
  <2>1. Cardinality(Range(s)) = Len(s) /\ Cardinality(Range(r)) = Len(r)
    BY <1>8, SortedFacts
  <2> QED BY <1>2, <1>4, <2>1
<1>12. ASSUME NEW m \in Range(s), NEW o \in Range(r) \ Range(s)
       PROVE  Timestamp[o] <= Timestamp[m]
  <2>1. PICK i \in 1..n : i >= first /\ m = r[i]
    BY <1>9
  <2>2. PICK j \in 1..n : o = r[j] /\ ~(j >= first)
    BY <1>9, <1>10
  <2>3. j < i
    BY <1>3, <2>1, <2>2
  <2>4. Timestamp[o] < Timestamp[m]
    BY <1>2, <2>1, <2>2, <2>3 DEF Sorted
  <2>5. Timestamp[o] \in Nat /\ Timestamp[m] \in Nat
    <3>1. r[i] \in MessageId /\ r[j] \in MessageId
      BY <1>1, <1>2
    <3> QED BY <2>1, <2>2, <3>1, MessageAssumption
  <2> QED BY <2>4, <2>5
<1>13. Range(s) \subseteq Range(r)
  BY <1>9, <1>10
<1>14. Cardinality(Range(s)) =
         IF Cardinality(Range(r)) < limit THEN Cardinality(Range(r)) ELSE limit
  BY <1>3, <1>11
<1> QED BY <1>8, <1>12, <1>13, <1>14 DEF s

(* fetch_last_messages_in_chat.                                            *)
LEMMA LastAgrees ==
  ASSUME rows \in Seq(MessageId), InOrder, NEW u \in UserId, NEW v \in UserId,
         NEW p \in Range(rows) \cup {NoStart}
  PROVE  MockLastMessages(u, v, p) \in LastMessagesInChat(Range(rows), u, v, p, Limit)
<1> DEFINE before == CASE p = NoStart -> DOMAIN rows
                       [] p \in Range(rows) -> 1..(Position(p) - 1)
                       [] OTHER -> {}
           I == {i \in before : InChat(rows[i], u, v)}
           old == Filtered(I)
           page == LastOf(old, Limit)
           S == ChatBefore(Range(rows), u, v, p)
<1>1. MockLastMessages(u, v, p) = page
  BY DEF MockLastMessages, LastOf
<1>2. NoStart \notin Range(rows)
  BY RangeOfRows, QueriesAssumption
<1>3. \A i : i \in before <=> i \in DOMAIN rows /\ (p \in Range(rows) => After(p, rows[i]))
  <2>1. CASE p \in Range(rows)
    <3>1. p # NoStart
      BY <1>2, <2>1
    <3>2. before = 1..(Position(p) - 1)
      BY <2>1, <3>1
    <3>3. /\ Position(p) \in 1..Len(rows)
          /\ \A i \in DOMAIN rows : After(p, rows[i]) <=> i < Position(p)
      BY <2>1, PlaceOfRow
    <3>4. \A i : i \in 1..(Position(p) - 1) <=> i \in 1..Len(rows) /\ i < Position(p)
      BY <3>3
    <3> HIDE DEF before
    <3> QED BY <2>1, <3>2, <3>3, <3>4
  <2>2. CASE p \notin Range(rows)
    <3>1. before = DOMAIN rows
      BY <2>2
    <3> HIDE DEF before
    <3> QED BY <2>2, <3>1
  <2> QED BY <2>1, <2>2
<1> HIDE DEF before
<1>4. I \subseteq DOMAIN rows
  BY <1>3
<1>5. Sorted(old) /\ Range(old) = {rows[i] : i \in I}
  <2> HIDE DEF I
  <2> QED BY <1>4, FilteredFacts
<1>6. ASSUME NEW i \in I PROVE rows[i] \in S
  <2>1. i \in DOMAIN rows /\ (p \in Range(rows) => After(p, rows[i])) /\ InChat(rows[i], u, v)
    BY <1>3
  <2>2. rows[i] \in Range(rows)
    BY <2>1 DEF Range
  <2> QED BY <2>1, <2>2 DEF ChatBefore
<1>7. ASSUME NEW m \in S PROVE \E i \in I : m = rows[i]
  <2>1. m \in Range(rows) /\ InChat(m, u, v) /\ (p \in Range(rows) => After(p, m))
    BY DEF ChatBefore
  <2>2. PICK i \in DOMAIN rows : rows[i] = m
    BY <2>1 DEF Range
  <2>3. i \in I
    BY <1>3, <2>1, <2>2
  <2> QED BY <2>2, <2>3
<1> HIDE DEF I, S
<1>8. Range(old) = S
  BY <1>5, <1>6, <1>7
<1> HIDE DEF old
<1>9. /\ Sorted(page) /\ Range(page) \subseteq S
      /\ Cardinality(Range(page)) = IF Cardinality(S) < Limit THEN Cardinality(S) ELSE Limit
      /\ \A m \in Range(page), o \in S \ Range(page) : Timestamp[o] <= Timestamp[m]
  <2>1. Limit \in Nat \ {0}
    BY QueriesAssumption
  <2>2. LET t == LastOf(old, Limit)
        IN  /\ Sorted(t) /\ Range(t) \subseteq Range(old)
            /\ Cardinality(Range(t)) =
                 IF Cardinality(Range(old)) < Limit THEN Cardinality(Range(old)) ELSE Limit
            /\ \A m \in Range(t), o \in Range(old) \ Range(t) : Timestamp[o] <= Timestamp[m]
    BY <1>5, <2>1, LastOfSorted
  <2> QED BY <1>8, <2>2
<1>10. page \in ByTimestamp(Range(page))
  BY <1>9, SortedFacts
<1> HIDE DEF page
<1> QED BY <1>1, <1>9, <1>10 DEF LastMessagesInChat, S

(* find_users_chats.                                                       *)
LEMMA ChatsAgree ==
  ASSUME rows \in Seq(MessageId), InOrder, NEW u \in UserId
  PROVE  MockChats(u) \in LatestFirst(GroupByUser(ChatIds(Range(rows), u)))
<1> DEFINE last == {i \in Mine(u) : \A j \in Mine(u) :
                      j > i => Other(rows[j], u) # Other(rows[i], u)}
           found == Filtered(last)
           k == Len(found)
           S == Range(rows)
           T == GroupByUser(ChatIds(S, u))
           f == [i \in 1..k |-> <<Other(found[i], u), Timestamp[found[i]]>>]
<1>1. S \subseteq MessageId
  BY RangeOfRows
<1>2. \A i \in Mine(u) : i \in DOMAIN rows /\ i \in Nat /\ rows[i] \in S /\ Concerns(rows[i], u)
  BY DEF Mine, Range
<1>3. \A m \in S : Concerns(m, u) => \E i \in Mine(u) : m = rows[i]
  BY DEF Mine, Range
<1>4. last \subseteq DOMAIN rows
  BY <1>2
<1>5. Sorted(found) /\ Range(found) = {rows[i] : i \in last}
  <2> HIDE DEF last
  <2> QED BY <1>4, FilteredFacts
<1>6. \A i \in Mine(u), j \in Mine(u) : ~(j > i) => Timestamp[rows[j]] <= Timestamp[rows[i]]
  <2>1. \A m \in S : Timestamp[m] \in Nat
    BY <1>1, MessageAssumption
  <2>2. ASSUME NEW i \in Mine(u), NEW j \in Mine(u), ~(j > i)
        PROVE  Timestamp[rows[j]] <= Timestamp[rows[i]]
    <3>1. i \in DOMAIN rows /\ j \in DOMAIN rows /\ i \in Nat /\ j \in Nat
      BY <1>2
    <3>2. Timestamp[rows[i]] \in Nat /\ Timestamp[rows[j]] \in Nat
      BY <1>2, <2>1
    <3>3. CASE j < i
      BY <3>1, <3>2, <3>3 DEF InOrder
    <3>4. CASE i = j
      BY <3>2, <3>4
    <3> QED BY <2>2, <3>1, <3>3, <3>4
  <2> QED BY <2>2
<1>7. \A m \in S : Concerns(m, u) => \E i \in last : Other(rows[i], u) = Other(m, u)
  <2> SUFFICES ASSUME NEW m \in S, Concerns(m, u)
               PROVE  \E i \in last : Other(rows[i], u) = Other(m, u)
    OBVIOUS
  <2> DEFINE I == {i \in Mine(u) : Other(rows[i], u) = Other(m, u)}
             g == [i \in I |-> 0 - i]
  <2>1. I # {} /\ g \in [I -> Int]
    BY <1>2, <1>3
  <2>2. IsFiniteSet(I)
    <3>1. I \subseteq 1..Len(rows) /\ Len(rows) \in Nat
      BY <1>2
    <3>2. IsFiniteSet(1..Len(rows))
      BY <3>1, FS_Interval
    <3> HIDE DEF I
    <3> QED BY <3>1, <3>2, FS_Subset
  <2>3. PICK i \in I : \A j \in I : g[i] <= g[j]
    <3> HIDE DEF I, g
    <3> QED BY <2>1, <2>2, Least
  <2>4. ASSUME NEW j \in Mine(u), j > i PROVE Other(rows[j], u) # Other(rows[i], u)
    <3>1. j \notin I
      BY <1>2, <2>3, <2>4
    <3> QED BY <3>1
  <2>5. i \in last
    BY <2>4
  <2> QED BY <2>5
<1>8. ASSUME NEW m, NEW n, m \in Range(found), n \in S, Concerns(n, u), Other(n, u) = Other(m, u)
      PROVE  m \in S /\ Concerns(m, u) /\ Timestamp[n] <= Timestamp[m]
  <2>1. PICK i \in last : m = rows[i]
    BY <1>5, <1>8
  <2>2. PICK j \in Mine(u) : n = rows[j]
    BY <1>3, <1>8
  <2>3. i \in Mine(u) /\ ~(j > i)
    BY <1>8, <2>1, <2>2
  <2> QED BY <1>2, <1>6, <2>1, <2>2, <2>3
<1>9. \A m \in Range(found) : m \in S /\ Concerns(m, u)
  BY <1>2, <1>5
<1>10. \A m \in S : Concerns(m, u) => \E n \in Range(found) : Other(n, u) = Other(m, u)
  <2>1. \A i \in last : rows[i] \in Range(found)
    BY <1>5
  <2> QED BY <1>7, <2>1
<1>11. MockChats(u) = Reverse([i \in DOMAIN found |-> Other(found[i], u)])
  BY DEF MockChats
<1> HIDE DEF last, found
<1>12. /\ k \in Nat /\ DOMAIN found = 1..k
       /\ \A i \in 1..k : found[i] \in Range(found) /\ found[i] \in MessageId
       /\ \A m \in Range(found) : \E i \in 1..k : found[i] = m
       /\ \A i, j \in 1..k : i < j => Timestamp[found[i]] < Timestamp[found[j]]
  <2>1. found \in Seq(MessageId)
    BY <1>5 DEF Sorted
  <2>2. k \in Nat /\ DOMAIN found = 1..k
    BY <2>1
  <2> QED BY <1>5, <2>1, <2>2 DEF Sorted, Range
<1> HIDE DEF k, S, T
<1>13. ASSUME NEW m \in Range(found) PROVE <<Other(m, u), Timestamp[m]>> \in T
  <2>1. m \in S /\ Concerns(m, u)
    BY <1>9
  <2>2. PICK row \in T : row[1] = Other(m, u) /\ Timestamp[m] <= row[2]
    BY <1>1, <2>1, MessageInRow DEF T
  <2>3. row \in ChatIds(S, u)
    BY DEF GroupByUser, T
  <2>4. /\ row \in UserId \X Nat
        /\ \E n \in S : Concerns(n, u) /\ Other(n, u) = row[1] /\ Timestamp[n] = row[2]
    BY <1>1, <2>3, RowOfMessage
  <2>5. PICK n \in S : Concerns(n, u) /\ Other(n, u) = row[1] /\ Timestamp[n] = row[2]
    BY <2>4
  <2>6. Timestamp[n] <= Timestamp[m]
    BY <1>8, <2>2, <2>5
  <2>7. Timestamp[n] = Timestamp[m]
    <3>1. Timestamp[n] \in Nat /\ Timestamp[m] \in Nat /\ Timestamp[m] <= Timestamp[n]
      BY <1>1, <2>1, <2>2, <2>5, MessageAssumption
    <3> QED BY <2>6, <3>1
  <2>8. row = <<Other(m, u), Timestamp[m]>>
    <3>1. row = <<row[1], row[2]>>
      BY <2>4
    <3> QED BY <2>2, <2>5, <2>7, <3>1
  <2> QED BY <2>8
<1>14. ASSUME NEW row \in T PROVE \E i \in 1..k : f[i] = row
  <2>1. row \in ChatIds(S, u)
    BY DEF GroupByUser, T
  <2>2. PICK n \in S : Concerns(n, u) /\ Other(n, u) = row[1]
    BY <1>1, <2>1, RowOfMessage
  <2>3. PICK m \in Range(found) : Other(m, u) = Other(n, u)
    BY <1>10, <2>2
  <2>4. PICK i \in 1..k : found[i] = m
    BY <1>12
  <2>5. f[i] = <<Other(m, u), Timestamp[m]>>
    BY <2>4
  <2>6. f[i] \in T /\ f[i][1] = row[1]
    BY <1>13, <2>2, <2>3, <2>5
  <2>7. f[i] = row
    <3> HIDE DEF f
    <3> QED BY <1>1, <2>6, OneRow DEF T
  <2> QED BY <2>7
<1>15. /\ f \in [1..k -> T] /\ DOMAIN f = 1..k
       /\ \A i \in 1..k : f[i][1] = Other(found[i], u) /\ f[i][2] = Timestamp[found[i]]
  BY <1>12, <1>13
<1> HIDE DEF f
<1>16. \A i, j \in 1..k : i < j => f[i][2] <= f[j][2] /\ f[i] # f[j]
  <2> SUFFICES ASSUME NEW i \in 1..k, NEW j \in 1..k, i < j
               PROVE  f[i][2] <= f[j][2] /\ f[i] # f[j]
    OBVIOUS
  <2>1. Timestamp[found[i]] < Timestamp[found[j]]
    BY <1>12
  <2>2. Timestamp[found[i]] \in Nat /\ Timestamp[found[j]] \in Nat
    BY <1>12, MessageAssumption
  <2> QED BY <1>15, <2>1, <2>2
<1>17. Cardinality(T) = k
  <2>1. \A i, j \in 1..k : f[i] = f[j] => i = j
    <3>1. \A i, j \in 1..k : i < j \/ j < i \/ i = j
      BY <1>12
    <3> QED BY <1>16, <3>1
  <2>2. f \in Bijection(1..k, T)
    BY <1>14, <1>15, <2>1 DEF Bijection, Injection, Surjection, IsInjective
  <2>3. IsFiniteSet(1..k) /\ Cardinality(1..k) = k
    <3>1. k \in Nat
      BY <1>12
    <3> QED BY <3>1, FS_Interval
  <2>4. ExistsBijection(1..k, T)
    BY <2>2 DEF ExistsBijection
  <2> QED BY <2>3, <2>4, FS_Bijection
<1> DEFINE users == [i \in 1..k |-> f[k - i + 1][1]]
           order == [i \in 1..k |-> f[k - i + 1]]
<1>18. \A i \in 1..k : k - i + 1 \in 1..k /\ k - (k - i + 1) + 1 = i
  BY <1>12
<1>19. MockChats(u) = users
  <2> DEFINE s == [i \in 1..k |-> Other(found[i], u)]
  <2>1. MockChats(u) = Reverse(s)
    BY <1>11, <1>12
  <2>2. s \in Seq({Other(found[i], u) : i \in 1..k}) /\ Len(s) = k
    BY <1>12
  <2>3. Reverse(s) = [i \in 1..k |-> s[(k - i) + 1]]
    <3> HIDE DEF s
    <3>1. Reverse(s) = [i \in 1..Len(s) |-> s[(Len(s) - i) + 1]]
      BY DEF Reverse
    <3> QED BY <2>2, <3>1
  <2>4. \A i \in 1..k : s[(k - i) + 1] = f[k - i + 1][1]
    BY <1>15, <1>18
  <2> HIDE DEF s
  <2> QED BY <2>1, <2>3, <2>4
<1>20. /\ order \in [1..k -> T] /\ users \in [1..k -> {row[1] : row \in T}]
       /\ DOMAIN users = 1..k
       /\ \A i \in 1..k : order[i] = f[k - i + 1] /\ users[i] = order[i][1]
  BY <1>15, <1>18
<1> HIDE DEF order, users
<1>21. Range(order) = T
  <2>1. ASSUME NEW row \in T PROVE \E i \in 1..k : order[i] = row
    <3>1. PICK i \in 1..k : f[i] = row
      BY <1>14
    <3>2. k - i + 1 \in 1..k /\ order[k - i + 1] = f[i]
      BY <1>18, <1>20
    <3> QED BY <3>1, <3>2
  <2> QED BY <1>20, <2>1 DEF Range
<1>22. ASSUME NEW i \in 1..k, NEW j \in 1..k, i < j PROVE order[i][2] >= order[j][2]
  <2>1. k - j + 1 \in 1..k /\ k - i + 1 \in 1..k /\ k - j + 1 < k - i + 1
    BY <1>12, <1>22
  <2>2. f[k - j + 1][2] <= f[k - i + 1][2]
    BY <1>16, <2>1
  <2> QED BY <1>20, <2>2
<1> QED BY <1>17, <1>19, <1>20, <1>21, <1>22 DEF LatestFirst, T, S

(* With the rows inserted in the order of their timestamps the answers of  *)
(* lib/mock-db are ones lib/postgres-db may give, for any messages.        *)
THEOREM MockAgreesCorrect == Spec => []MockAgrees
<1>1. TypeOK /\ Tables /\ Answers => MockAgrees
  <2> SUFFICES ASSUME TypeOK, InOrder, NEW u \in UserId, NEW v \in UserId
               PROVE  /\ MockChats(u) \in LatestFirst(GroupByUser(ChatIds(Range(rows), u)))
                      /\ \A p \in Range(rows) \cup {NoStart} :
                           MockLastMessages(u, v, p) \in
                             LastMessagesInChat(Range(rows), u, v, p, Limit)
                      /\ \A p \in Range(rows) \cup {UnknownId} :
                           MockMessagesSince(u, p) \in
                             ByTimestamp(UsersMessagesSince(Range(rows), u, p))
    BY DEF MockAgrees, ChatIds
  <2>1. rows \in Seq(MessageId)
    BY DEF TypeOK
  <2> QED BY <2>1, ChatsAgree, LastAgrees, SinceAgrees
<1> QED BY <1>1, Inductive, PTL
=============================================================================
