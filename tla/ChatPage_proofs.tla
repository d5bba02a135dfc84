-------------------------- MODULE ChatPage_proofs --------------------------
(***************************************************************************)
(* What ChatPage guarantees for any users, messages and page size, to a    *)
(* user who waits for each answer before the next request.                 *)
(***************************************************************************)
EXTENDS ChatPage, FiniteSetTheorems, TLAPS

(* Requests under way differ in their numbers, answered or not.            *)
Numbered ==
  /\ \A f, g \in fetches : f.number = g.number => f = g
  /\ \A a, b \in answers : a.fetch.number = b.fetch.number => a = b

(* What an answer was read from is in the table still.                     *)
Earlier == \A a \in answers : a.table \subseteq stored

(* A request, seen from the page: a "load" is for a chat that has not been *)
(* loaded, a "more" asks for what is before the first message shown.       *)
RequestFits(f) ==
  /\ f.kind = "load" => f.from = NoStart /\ ~Current
  /\ Current /\ f.kind = "more" =>
       /\ f.chat = loaded
       /\ \/ f.from = NoStart
          \/ messagesBuffer # <<>> /\ f.from = messagesBuffer[1]

(* An answer: the rows before the request's start, from a table in which   *)
(* every message of the baseline was already.                              *)
AnswerFits(a) ==
  /\ a.rows \in LastMessagesInChat(a.table, Me, a.fetch.chat, a.fetch.from, PageSize)
  /\ Current /\ a.fetch.kind = "more" => baseline \subseteq a.table
  /\ RequestFits(a.fetch)

RequestInv ==
  /\ \A f \in fetches : RequestFits(f)
  /\ \A a \in answers : AnswerFits(a)

(* A message is on the page or, until there are no more, before it. *)
Reached(m) ==
  \/ m \in Range(messagesBuffer)
  \/ messagesBuffer # <<>> /\ After(messagesBuffer[1], m) /\ ~noMoreOldMessages

(* What the page shows of the chat that is open.                           *)
ShownInv ==
  Current =>
    /\ \A m \in Range(messagesBuffer) : InChat(m, Me, loaded) /\ m \in stored
    /\ \A m \in baseline :
         InChat(m, Me, loaded) /\ Untied(m) => Reached(m)

-----------------------------------------------------------------------------
(* The rows of a page are messages of the chat from before the starting    *)
(* point, and a message of them that is left out is not younger than the   *)
(* first row; only when there are none is the page empty.                  *)
LEMMA LastFacts ==
  ASSUME NEW table, table \subseteq MessageId, NEW u, NEW v, NEW p,
         NEW limit \in Nat \ {0}, NEW rows \in LastMessagesInChat(table, u, v, p, limit)
  PROVE  /\ rows \in Seq(MessageId)
         /\ Range(rows) \subseteq ChatBefore(table, u, v, p)
         /\ \A m \in ChatBefore(table, u, v, p) :
              rows # <<>> /\ (m \in Range(rows) \/ Timestamp[m] <= Timestamp[rows[1]])
<1> DEFINE old == ChatBefore(table, u, v, p)
<1>1. old \subseteq MessageId
  BY DEF ChatBefore
<1>2. IsFiniteSet(old) /\ Cardinality(old) \in Nat
  BY <1>1, FS_Subset, FS_CardinalityType, MessageAssumption
<1>3. PICK part \in SUBSET old :
        /\ rows \in ByTimestamp(part)
        /\ Cardinality(part) = IF Cardinality(old) < limit THEN Cardinality(old) ELSE limit
        /\ \A m \in part, o \in old \ part : Timestamp[o] <= Timestamp[m]
  BY DEF LastMessagesInChat
<1> HIDE DEF old
<1>4. Cardinality(part) \in Nat
  BY <1>2, <1>3
<1>5. rows \in [1..Cardinality(part) -> part] /\ Range(rows) = part
  BY <1>3 DEF ByTimestamp
<1>6. rows \in Seq(MessageId)
  BY <1>1, <1>4, <1>5
<1>7. ASSUME NEW m \in old
      PROVE  rows # <<>> /\ (m \in part \/ Timestamp[m] <= Timestamp[rows[1]])
  <2>1. Cardinality(old) # 0
    BY <1>2, <1>7, FS_EmptySet
  <2>2. Cardinality(part) >= 1
    BY <1>2, <1>3, <2>1
  <2>3. 1 \in DOMAIN rows /\ rows[1] \in part
    BY <1>4, <1>5, <2>2
  <2> QED BY <1>3, <1>7, <2>3
<1> QED BY <1>3, <1>5, <1>6, <1>7 DEF old

LEMMA RowsType ==
  ASSUME TypeOK, NEW f \in fetches,
         NEW rows \in LastMessagesInChat(stored, Me, f.chat, f.from, PageSize)
  PROVE  rows \in Seq(MessageId)
BY LastFacts, ChatPageAssumption DEF TypeOK

(* A new request has a number of its own.                                  *)
LEMMA AskType ==
  ASSUME TypeOK, Numbered, NEW kind \in {"load", "more"}, NEW chat \in UserId,
         NEW from \in MessageId \cup {NoStart}, Ask(kind, chat, from), answers' = answers
  PROVE  /\ fetches' \subseteq Fetch
         /\ {f.number : f \in fetches'} \cap {a.fetch.number : a \in answers'} = {}
         /\ Numbered'
<1>1. PICK n \in FreeNumbers :
        fetches' = fetches \cup {[kind |-> kind, chat |-> chat, from |-> from, number |-> n]}
  BY DEF Ask
<1> DEFINE new == [kind |-> kind, chat |-> chat, from |-> from, number |-> n]
<1>2. new \in Fetch /\ new.number = n
  BY DEF Fetch, FreeNumbers
<1>3. \A f \in fetches : f.number # n
  BY DEF FreeNumbers
<1>4. \A a \in answers : a.fetch.number # n
  BY DEF FreeNumbers
<1>5. fetches' = fetches \cup {new}
  BY <1>1
<1> HIDE DEF new
<1>6. fetches' \subseteq Fetch
  BY <1>2, <1>5 DEF TypeOK
<1>7. \A f \in fetches, a \in answers : f.number # a.fetch.number
  BY DEF TypeOK
<1>8. {f.number : f \in fetches'} \cap {a.fetch.number : a \in answers'} = {}
  BY <1>2, <1>4, <1>5, <1>7
<1>9. Numbered'
  BY <1>2, <1>3, <1>5 DEF Numbered
<1> QED BY <1>6, <1>8, <1>9

(* An answer takes its request's place.                                    *)
LEMMA AnswerType ==
  ASSUME TypeOK, Numbered, NEW f \in fetches, MessagesJson(f)
  PROVE  /\ fetches' \subseteq Fetch /\ answers' \subseteq Answer
         /\ {g.number : g \in fetches'} \cap {a.fetch.number : a \in answers'} = {}
         /\ Numbered'
<1>1. PICK rows \in LastMessagesInChat(stored, Me, f.chat, f.from, PageSize) :
        answers' = answers \cup {[fetch |-> f, rows |-> rows, table |-> stored]}
  BY DEF MessagesJson
<1> DEFINE new == [fetch |-> f, rows |-> rows, table |-> stored]
<1>2. new \in Answer /\ new.fetch = f
  BY RowsType DEF TypeOK, Answer
<1>3. answers' = answers \cup {new} /\ fetches' = fetches \ {f}
  BY <1>1 DEF MessagesJson
<1> HIDE DEF new
<1>4. fetches' \subseteq Fetch /\ answers' \subseteq Answer
  BY <1>2, <1>3 DEF TypeOK
<1>5. \A g \in fetches, a \in answers : g.number # a.fetch.number
  BY DEF TypeOK
<1>6. \A g \in fetches' : g.number # f.number
  BY <1>3 DEF Numbered
<1>7. {g.number : g \in fetches'} \cap {a.fetch.number : a \in answers'} = {}
  BY <1>2, <1>3, <1>5, <1>6
<1>8. Numbered'
  <2>1. \A g, h \in fetches' : g.number = h.number => g = h
    BY <1>3 DEF Numbered
  <2>2. \A a, b \in answers' : a.fetch.number = b.fetch.number => a = b
    BY <1>2, <1>3, <1>5 DEF Numbered
  <2> QED BY <2>1, <2>2 DEF Numbered
<1> QED BY <1>4, <1>7, <1>8

(* Fewer requests and fewer answers are numbered as before.                *)
LEMMA FewerType ==
  ASSUME TypeOK, Numbered, fetches' \subseteq fetches, answers' \subseteq answers
  PROVE  /\ fetches' \subseteq Fetch /\ answers' \subseteq Answer
         /\ {g.number : g \in fetches'} \cap {a.fetch.number : a \in answers'} = {}
         /\ Numbered'
<1>1. fetches' \subseteq Fetch /\ answers' \subseteq Answer
  BY DEF TypeOK
<1>2. {g.number : g \in fetches'} \cap {a.fetch.number : a \in answers'} = {}
  BY DEF TypeOK
<1>3. Numbered'
  BY DEF Numbered
<1> QED BY <1>1, <1>2, <1>3

(* A page without requests, as it is when it has just been opened.         *)
LEMMA TypeEmpty ==
  ASSUME fetches = {}, answers = {}
  PROVE  /\ fetches \subseteq Fetch /\ answers \subseteq Answer
         /\ {f.number : f \in fetches} \cap {a.fetch.number : a \in answers} = {}
         /\ Numbered
<1>1. \A n \in {f.number : f \in fetches} : FALSE
  OBVIOUS
<1> QED BY <1>1 DEF Numbered

LEMMA TypeInit == Init => TypeOK /\ Numbered
<1> SUFFICES ASSUME Init PROVE TypeOK /\ Numbered
  OBVIOUS
<1>1. /\ fetches \subseteq Fetch /\ answers \subseteq Answer
      /\ {f.number : f \in fetches} \cap {a.fetch.number : a \in answers} = {}
      /\ Numbered
  BY TypeEmpty DEF Init
<1>2. /\ stored \subseteq MessageId /\ noticed \subseteq stored /\ baseline \subseteq stored
      /\ current_chat_id \in UserId \cup {NoChat} /\ loaded \in UserId \cup {NoChat}
      /\ noMoreOldMessages \in BOOLEAN /\ drawn \in BOOLEAN /\ visited \subseteq UserId
  BY DEF Init
<1>3. messagesBuffer \in Seq(MessageId)
  BY DEF Init
<1> QED BY <1>1, <1>2, <1>3 DEF TypeOK

LEMMA EarlierInit == Init => Earlier
BY DEF Init, Earlier

LEMMA EarlierNext ==
  ASSUME Earlier, [Next]_vars
  PROVE  Earlier'
<1>1. stored \subseteq stored'
  BY DEF Next, vars, StoreMessage, OnMessage, OpenChat, OpenWithoutLoad, LoadMore,
         MessagesJson, FetchFails, Load, Extend, Reopen
<1>2. ASSUME NEW f \in fetches, MessagesJson(f) PROVE Earlier'
  BY <1>2 DEF MessagesJson, Earlier
<1>3. CASE answers' \subseteq answers
  BY <1>1, <1>3 DEF Earlier
<1>4. answers' \subseteq answers \/ \E f \in fetches : MessagesJson(f)
  BY DEF Next, vars, StoreMessage, OnMessage, OpenChat, OpenWithoutLoad, LoadMore,
         FetchFails, Load, Extend, Reopen
<1> QED BY <1>2, <1>3, <1>4

LEMMA AnswerFacts ==
  ASSUME TypeOK, NEW a \in answers
  PROVE  /\ a.rows \in Seq(MessageId) /\ a.table \subseteq MessageId
         /\ a.fetch \in Fetch /\ a.fetch.chat \in UserId
BY DEF TypeOK, Answer, Fetch

LEMMA TypeNext ==
  ASSUME TypeOK, Numbered, Earlier, [Next]_vars
  PROVE  TypeOK' /\ Numbered'
<1> DEFINE Goal == TypeOK' /\ Numbered'
<1> USE DEF page
<1>1. ASSUME NEW m \in MessageId, StoreMessage(m) PROVE Goal
  <2>1. Numbered'
    BY <1>1 DEF StoreMessage, Numbered
  <2> QED BY <1>1, <2>1 DEF StoreMessage, TypeOK
<1>2. ASSUME NEW m \in MessageId, OnMessage(m) PROVE Goal
  <2>1. Numbered'
    BY <1>2 DEF OnMessage, Numbered
  <2>2. messagesBuffer' \in Seq(MessageId)
    BY <1>2 DEF OnMessage, TypeOK
  <2> QED BY <1>2, <2>1, <2>2 DEF OnMessage, TypeOK
<1>3. ASSUME NEW u \in UserId, OpenChat(u) PROVE Goal
  <2>1. /\ fetches' \subseteq Fetch
        /\ {f.number : f \in fetches'} \cap {a.fetch.number : a \in answers'} = {}
        /\ Numbered'
    BY <1>3, AskType DEF OpenChat
  <2> QED BY <1>3, <2>1 DEF OpenChat, TypeOK
<1>4. ASSUME NEW u \in UserId \cup {NoChat}, OpenWithoutLoad(u) PROVE Goal
  <2>1. Numbered'
    BY <1>4 DEF OpenWithoutLoad, Numbered
  <2> QED BY <1>4, <2>1 DEF OpenWithoutLoad, TypeOK
<1>5. ASSUME LoadMore PROVE Goal
  <2> DEFINE from == IF messagesBuffer = <<>> THEN NoStart ELSE messagesBuffer[1]
  <2>1. from \in MessageId \cup {NoStart}
    BY DEF TypeOK
  <2>2. current_chat_id \in UserId /\ Ask("more", current_chat_id, from) /\ answers' = answers
    BY <1>5 DEF LoadMore, TypeOK
  <2> HIDE DEF from
  <2>3. /\ fetches' \subseteq Fetch
        /\ {f.number : f \in fetches'} \cap {a.fetch.number : a \in answers'} = {}
        /\ Numbered'
    BY <2>1, <2>2, AskType
  <2> QED BY <1>5, <2>3 DEF LoadMore, TypeOK
<1>6. ASSUME NEW f \in fetches, MessagesJson(f) PROVE Goal
  BY <1>6, AnswerType DEF MessagesJson, TypeOK
<1>7. ASSUME NEW f \in fetches, FetchFails(f) PROVE Goal
  BY <1>7, FewerType DEF FetchFails, TypeOK
<1>8. ASSUME NEW a \in answers, Load(a) PROVE Goal
  <2>1. fetches' \subseteq fetches /\ answers' \subseteq answers
    BY <1>8 DEF Load
  <2>2. /\ fetches' \subseteq Fetch /\ answers' \subseteq Answer
        /\ {g.number : g \in fetches'} \cap {b.fetch.number : b \in answers'} = {}
        /\ Numbered'
    BY <2>1, FewerType
  <2>3. messagesBuffer' \in Seq(MessageId) /\ loaded' \in UserId \cup {NoChat}
    BY <1>8, AnswerFacts DEF Load, Witness, TypeOK
  <2>4. baseline' \subseteq stored'
    BY <1>8 DEF Load, Witness, Earlier, TypeOK
  <2> QED BY <1>8, <2>2, <2>3, <2>4 DEF Load, TypeOK
<1>9. ASSUME NEW a \in answers, Extend(a) PROVE Goal
  <2>1. fetches' \subseteq fetches /\ answers' \subseteq answers
    BY <1>9 DEF Extend
  <2>2. /\ fetches' \subseteq Fetch /\ answers' \subseteq Answer
        /\ {g.number : g \in fetches'} \cap {b.fetch.number : b \in answers'} = {}
        /\ Numbered'
    BY <2>1, FewerType
  <2>3. a.rows \in Seq(MessageId) /\ messagesBuffer \in Seq(MessageId)
    BY AnswerFacts DEF TypeOK
  <2>4. a.rows \o messagesBuffer \in Seq(MessageId)
    BY <2>3
  <2>5. messagesBuffer' \in Seq(MessageId) /\ noMoreOldMessages' \in BOOLEAN
    BY <1>9, <2>3, <2>4 DEF Extend, TypeOK
  <2> QED BY <1>9, <2>2, <2>5 DEF Extend, TypeOK
<1>10. ASSUME Reopen PROVE Goal
  <2>1. fetches' \subseteq fetches /\ answers' \subseteq answers
    BY <1>10 DEF Reopen
  <2>2. /\ fetches' \subseteq Fetch /\ answers' \subseteq Answer
        /\ {g.number : g \in fetches'} \cap {b.fetch.number : b \in answers'} = {}
        /\ Numbered'
    BY <2>1, FewerType
  <2>3. /\ stored' \subseteq MessageId /\ noticed' \subseteq stored' /\ baseline' \subseteq stored'
        /\ current_chat_id' \in UserId \cup {NoChat} /\ loaded' \in UserId \cup {NoChat}
        /\ noMoreOldMessages' \in BOOLEAN /\ drawn' \in BOOLEAN /\ visited' \subseteq UserId
    BY <1>10 DEF Reopen, TypeOK
  <2>4. messagesBuffer' \in Seq(MessageId)
    BY <1>10 DEF Reopen
  <2> QED BY <2>2, <2>3, <2>4 DEF TypeOK
<1>11. ASSUME UNCHANGED vars PROVE Goal
  BY <1>11 DEF vars, TypeOK, Numbered
<1> QED BY <1>1, <1>2, <1>3, <1>4, <1>5, <1>6, <1>7, <1>8, <1>9, <1>10, <1>11 DEF Next

(* Every variable has its type, however many requests are under way, and   *)
(* no request of chat.html is both answered and waiting for its answer.    *)
THEOREM TypeCorrect == Spec => []TypeOK
<1>1. Spec => [](TypeOK /\ Numbered /\ Earlier)
  <2>1. Init => TypeOK /\ Numbered /\ Earlier
    BY TypeInit, EarlierInit
  <2>2. TypeOK /\ Numbered /\ Earlier /\ [Next]_vars => (TypeOK /\ Numbered /\ Earlier)'
    BY TypeNext, EarlierNext
  <2> QED BY <2>1, <2>2, PTL DEF Spec
<1> QED BY <1>1, PTL

(* A message at the end of the buffer.                                     *)
LEMMA AppendFacts ==
  ASSUME NEW s \in Seq(MessageId), NEW m \in MessageId
  PROVE  /\ Append(s, m) # <<>>
         /\ s # <<>> => Append(s, m)[1] = s[1]
         /\ Range(Append(s, m)) = Range(s) \cup {m}
<1>1. \A i \in 1..Len(s) : Append(s, m)[i] = s[i]
  OBVIOUS
<1>2. Append(s, m)[Len(s) + 1] = m /\ Len(Append(s, m)) = Len(s) + 1
  OBVIOUS
<1>3. DOMAIN Append(s, m) = 1..(Len(s) + 1) /\ DOMAIN s = 1..Len(s)
  OBVIOUS
<1>4. \A i \in 1..(Len(s) + 1) : i \in 1..Len(s) \/ i = Len(s) + 1
  OBVIOUS
<1>5. Range(Append(s, m)) = Range(s) \cup {m}
  BY <1>1, <1>2, <1>3, <1>4 DEF Range
<1>6. s # <<>> => Append(s, m)[1] = s[1]
  OBVIOUS
<1>7. Append(s, m) # <<>>
  <2>1. Len(s) \in Nat /\ Len(Append(s, m)) # 0
    BY <1>2
  <2> QED BY <2>1
<1> QED BY <1>5, <1>6, <1>7

(* A page in front of the buffer.                                          *)
LEMMA ConcatFacts ==
  ASSUME NEW r \in Seq(MessageId), NEW s \in Seq(MessageId), r # <<>>
  PROVE  /\ r \o s # <<>> /\ (r \o s)[1] = r[1]
         /\ Range(r \o s) = Range(r) \cup Range(s)
<1>1. Len(r) \in Nat /\ Len(s) \in Nat /\ Len(r) >= 1
  OBVIOUS
<1>2. \A i \in 1..Len(r) : (r \o s)[i] = r[i]
  OBVIOUS
<1>3. \A i \in 1..Len(s) : (r \o s)[Len(r) + i] = s[i]
  OBVIOUS
<1>4. /\ DOMAIN (r \o s) = 1..(Len(r) + Len(s))
      /\ DOMAIN r = 1..Len(r) /\ DOMAIN s = 1..Len(s)
  OBVIOUS
<1>5. \A i \in 1..(Len(r) + Len(s)) :
        i \in 1..Len(r) \/ \E j \in 1..Len(s) : i = Len(r) + j
  <2> SUFFICES ASSUME NEW i \in 1..(Len(r) + Len(s)), i \notin 1..Len(r)
               PROVE  \E j \in 1..Len(s) : i = Len(r) + j
    OBVIOUS
  <2>1. i - Len(r) \in 1..Len(s) /\ i = Len(r) + (i - Len(r))
    BY <1>1
  <2> QED BY <2>1
<1>6. \A i \in 1..Len(r) : i \in 1..(Len(r) + Len(s))
  BY <1>1
<1>7. \A i \in 1..Len(s) : Len(r) + i \in 1..(Len(r) + Len(s))
  BY <1>1
<1>8. \A i \in DOMAIN (r \o s) : (r \o s)[i] \in Range(r) \cup Range(s)
  <2>1. \A i \in 1..Len(r) : (r \o s)[i] \in Range(r)
    BY <1>2, <1>4 DEF Range
  <2>2. \A j \in 1..Len(s) : (r \o s)[Len(r) + j] \in Range(s)
    BY <1>3, <1>4 DEF Range
  <2> QED BY <1>4, <1>5, <2>1, <2>2
<1>9. \A i \in DOMAIN r : r[i] \in Range(r \o s)
  BY <1>2, <1>4, <1>6 DEF Range
<1>10. \A i \in DOMAIN s : s[i] \in Range(r \o s)
  BY <1>3, <1>4, <1>7 DEF Range
<1>11. Range(r \o s) = Range(r) \cup Range(s)
  BY <1>8, <1>9, <1>10 DEF Range
<1>12. (r \o s)[1] = r[1] /\ r \o s # <<>>
  BY <1>1, <1>2
<1> QED BY <1>11, <1>12

-----------------------------------------------------------------------------
(* Whatever the order in which answers and events come, and to whichever   *)
(* chat they belong, what is shown is a stored message of the user's own.  *)
OwnOnly == \A m \in Range(messagesBuffer) : m \in stored /\ Concerns(m, Me)

OwnAnswers == \A a \in answers : \A m \in Range(a.rows) : m \in stored /\ Concerns(m, Me)

LEMMA RowsOwn ==
  ASSUME TypeOK, NEW f \in fetches,
         NEW rows \in LastMessagesInChat(stored, Me, f.chat, f.from, PageSize)
  PROVE  \A m \in Range(rows) : m \in stored /\ Concerns(m, Me)
<1>1. Range(rows) \subseteq ChatBefore(stored, Me, f.chat, f.from)
  BY LastFacts, ChatPageAssumption DEF TypeOK
<1>2. \A m \in ChatBefore(stored, Me, f.chat, f.from) :
        m \in stored /\ {From[m], To[m]} = {Me, f.chat}
  BY DEF ChatBefore, InChat
<1> QED BY <1>1, <1>2 DEF Concerns

LEMMA OwnNext ==
  ASSUME TypeOK, OwnOnly, OwnAnswers, [Next]_vars
  PROVE  OwnOnly' /\ OwnAnswers'
<1> DEFINE Goal == OwnOnly' /\ OwnAnswers'
<1> USE DEF page
<1>1. ASSUME stored \subseteq stored', messagesBuffer' = messagesBuffer, answers' \subseteq answers
      PROVE  Goal
  BY <1>1 DEF OwnOnly, OwnAnswers
<1>2. ASSUME NEW m \in MessageId, OnMessage(m) PROVE Goal
  <2>1. m \in stored /\ Concerns(m, Me) /\ stored' = stored /\ answers' = answers
    BY <1>2 DEF OnMessage
  <2>2. Range(messagesBuffer)' \subseteq Range(messagesBuffer) \cup {m}
    BY <1>2, AppendFacts DEF OnMessage, TypeOK
  <2> QED BY <2>1, <2>2 DEF OwnOnly, OwnAnswers
<1>3. ASSUME NEW f \in fetches, MessagesJson(f) PROVE Goal
  <2>1. PICK rows \in LastMessagesInChat(stored, Me, f.chat, f.from, PageSize) :
          answers' = answers \cup {[fetch |-> f, rows |-> rows, table |-> stored]}
    BY <1>3 DEF MessagesJson
  <2>2. \A a \in answers' : a \in answers \/ a.rows = rows
    BY <2>1
  <2>3. stored' = stored /\ messagesBuffer' = messagesBuffer
    BY <1>3 DEF MessagesJson
  <2> QED BY <2>2, <2>3, RowsOwn DEF OwnOnly, OwnAnswers
<1>4. ASSUME NEW a \in answers, Load(a) PROVE Goal
  BY <1>4 DEF Load, OwnOnly, OwnAnswers
<1>5. ASSUME NEW a \in answers, Extend(a) PROVE Goal
  <2>1. a.rows \in Seq(MessageId) /\ messagesBuffer \in Seq(MessageId)
    BY AnswerFacts DEF TypeOK
  <2>2. a.rows # <<>> => Range(a.rows \o messagesBuffer) = Range(a.rows) \cup Range(messagesBuffer)
    BY <2>1, ConcatFacts
  <2>3. Range(messagesBuffer)' \subseteq Range(a.rows) \cup Range(messagesBuffer)
    BY <1>5, <2>2 DEF Extend
  <2>4. stored' = stored /\ answers' \subseteq answers
    BY <1>5 DEF Extend
  <2> QED BY <2>3, <2>4 DEF OwnOnly, OwnAnswers
<1>6. ASSUME Reopen PROVE Goal
  <2>1. Range(messagesBuffer)' = {} /\ answers' = {}
    BY <1>6 DEF Reopen, Range
  <2> QED BY <2>1 DEF OwnOnly, OwnAnswers
<1>7. \/ stored \subseteq stored' /\ messagesBuffer' = messagesBuffer /\ answers' \subseteq answers
      \/ \E m \in MessageId : OnMessage(m)
      \/ \E f \in fetches : MessagesJson(f)
      \/ \E a \in answers : Load(a) \/ Extend(a)
      \/ Reopen
  BY DEF Next, vars, StoreMessage, OpenChat, OpenWithoutLoad, LoadMore, FetchFails
<1> QED BY <1>1, <1>2, <1>3, <1>4, <1>5, <1>6, <1>7

(* Nobody reads in the page what was written between two others, however   *)
(* many requests are under way and whichever chat they were made for.      *)
THEOREM OwnOnlyCorrect == Spec => []OwnOnly
<1>1. Init => OwnOnly /\ OwnAnswers
  BY DEF Init, OwnOnly, OwnAnswers, Range
<1>2. TypeOK /\ OwnOnly /\ OwnAnswers /\ [Next]_vars => (OwnOnly /\ OwnAnswers)'
  BY OwnNext
<1> QED BY <1>1, <1>2, TypeCorrect, PTL DEF Spec

-----------------------------------------------------------------------------
(* One request at a time: from here on the user waits for each answer.     *)
LEMMA OneAtATime ==
  ASSUME MaxPending = 1, TypeOK, Numbered
  PROVE  /\ \A f, g \in fetches : f = g
         /\ \A a, b \in answers : a = b
         /\ fetches = {} \/ answers = {}
         /\ FreeNumbers # {} => fetches = {} /\ answers = {}
<1>1. \A f \in Fetch : f.number = 1
  BY DEF Fetch
<1>2. \A f \in fetches : f.number = 1
  BY <1>1 DEF TypeOK
<1>3. \A a \in answers : a.fetch.number = 1
  BY <1>1, AnswerFacts
<1>4. \A f \in fetches, a \in answers : f.number # a.fetch.number
  BY DEF TypeOK
<1>5. FreeNumbers # {} => fetches = {} /\ answers = {}
  <2> SUFFICES ASSUME NEW n \in FreeNumbers PROVE fetches = {} /\ answers = {}
    OBVIOUS
  <2>1. n = 1
    BY DEF FreeNumbers
  <2>2. \A f \in fetches : f.number # n
    BY DEF FreeNumbers
  <2>3. \A a \in answers : a.fetch.number # n
    BY DEF FreeNumbers
  <2> QED BY <1>2, <1>3, <2>1, <2>2, <2>3
<1> QED BY <1>2, <1>3, <1>4, <1>5 DEF Numbered

(* The steps that ask nothing, and leave what is asked for as it was.      *)
LEMMA RequestsKept ==
  ASSUME RequestInv, fetches' \subseteq fetches, answers' \subseteq answers,
         Current' => /\ Current /\ loaded' = loaded /\ baseline' = baseline
                     /\ messagesBuffer # <<>> =>
                          messagesBuffer' # <<>> /\ messagesBuffer'[1] = messagesBuffer[1]
  PROVE  RequestInv'
<1>1. ASSUME NEW f, RequestFits(f) PROVE RequestFits(f)'
  BY <1>1 DEF RequestFits
<1>2. ASSUME NEW a, AnswerFits(a) PROVE AnswerFits(a)'
  BY <1>1, <1>2 DEF AnswerFits
<1> QED BY <1>1, <1>2 DEF RequestInv

LEMMA RequestInit == Init => RequestInv
BY DEF Init, RequestInv

LEMMA RequestNext ==
  ASSUME MaxPending = 1, TypeOK, Numbered, RequestInv, [Next]_vars
  PROVE  RequestInv'
<1> USE DEF page
<1>1. ASSUME NEW m \in MessageId, StoreMessage(m) PROVE RequestInv'
  BY <1>1, RequestsKept DEF StoreMessage, Current
<1>2. ASSUME NEW m \in MessageId, OnMessage(m) PROVE RequestInv'
  <2>1. messagesBuffer # <<>> =>
          messagesBuffer' # <<>> /\ messagesBuffer'[1] = messagesBuffer[1]
    <3>1. messagesBuffer' = Append(messagesBuffer, m) \/ messagesBuffer' = messagesBuffer
      BY <1>2 DEF OnMessage
    <3> QED BY <3>1, AppendFacts DEF TypeOK
  <2>2. UNCHANGED <<current_chat_id, loaded, baseline, fetches, answers>>
    BY <1>2 DEF OnMessage
  <2> QED BY <2>1, <2>2, RequestsKept DEF Current
<1>3. ASSUME NEW u \in UserId, OpenChat(u) PROVE RequestInv'
  <2>1. fetches = {} /\ answers' = {} /\ ~Current'
    BY <1>3, OneAtATime, ChatPageAssumption DEF OpenChat, Ask, Current
  <2>2. \A f \in fetches' : f.kind = "load" /\ f.from = NoStart
    BY <1>3, <2>1 DEF OpenChat, Ask
  <2> QED BY <2>1, <2>2 DEF RequestInv, RequestFits
<1>4. ASSUME NEW u \in UserId \cup {NoChat}, OpenWithoutLoad(u) PROVE RequestInv'
  <2>1. ~Current' /\ UNCHANGED <<fetches, answers>>
    BY <1>4 DEF OpenWithoutLoad, Current
  <2> QED BY <2>1, RequestsKept
<1>5. ASSUME LoadMore PROVE RequestInv'
  <2> DEFINE from == IF messagesBuffer = <<>> THEN NoStart ELSE messagesBuffer[1]
  <2>1. fetches = {} /\ answers' = {}
    BY <1>5, OneAtATime DEF LoadMore, Ask
  <2>2. \A f \in fetches' : f.kind = "more" /\ f.chat = current_chat_id /\ f.from = from
    BY <1>5, <2>1 DEF LoadMore, Ask
  <2>3. UNCHANGED <<current_chat_id, loaded, messagesBuffer>>
    BY <1>5 DEF LoadMore
  <2> QED BY <2>1, <2>2, <2>3 DEF RequestInv, RequestFits, Current
<1>6. ASSUME NEW f \in fetches, MessagesJson(f) PROVE RequestInv'
  <2>1. answers = {} /\ fetches' = {}
    BY <1>6, OneAtATime DEF MessagesJson
  <2>2. PICK rows \in LastMessagesInChat(stored, Me, f.chat, f.from, PageSize) :
          answers' = {[fetch |-> f, rows |-> rows, table |-> stored]}
    BY <1>6, <2>1 DEF MessagesJson
  <2>3. \A a \in answers' : a.fetch = f /\ a.rows = rows /\ a.table = stored
    BY <2>2
  <2>4. UNCHANGED <<current_chat_id, loaded, baseline, messagesBuffer>> /\ baseline \subseteq stored
    BY <1>6 DEF MessagesJson, TypeOK
  <2>5. RequestFits(f) /\ (RequestFits(f))'
    BY <2>4 DEF RequestInv, RequestFits, Current
  <2>6. ASSUME NEW a \in answers' PROVE AnswerFits(a)'
    <3>1. (RequestFits(a.fetch))'
      BY <2>3, <2>5, <2>6 DEF RequestFits
    <3>2. a.rows \in LastMessagesInChat(a.table, Me, a.fetch.chat, a.fetch.from, PageSize)
      BY <2>3, <2>6
    <3> QED BY <2>3, <2>4, <2>6, <3>1, <3>2 DEF AnswerFits
  <2> QED BY <2>1, <2>6 DEF RequestInv
<1>7. ASSUME NEW f \in fetches, FetchFails(f) PROVE RequestInv'
  BY <1>7, RequestsKept DEF FetchFails, Current
<1>8. ASSUME NEW a \in answers, Load(a) \/ Extend(a) PROVE RequestInv'
  <2>1. fetches' = {} /\ answers' = {}
    BY <1>8, OneAtATime DEF Load, Extend
  <2> QED BY <2>1 DEF RequestInv
<1>9. ASSUME Reopen PROVE RequestInv'
  BY <1>9 DEF Reopen, RequestInv
<1>10. ASSUME UNCHANGED vars PROVE RequestInv'
  BY <1>10, RequestsKept DEF vars, Current
<1> QED BY <1>1, <1>2, <1>3, <1>4, <1>5, <1>6, <1>7, <1>8, <1>9, <1>10 DEF Next

-----------------------------------------------------------------------------
(* Of the messages a page was chosen from, one whose timestamp no other of *)
(* the chat has is on the page or after its first row.                     *)
LEMMA PageFacts ==
  ASSUME NEW a, NEW u, NEW v, a.table \subseteq stored, stored \subseteq MessageId,
         a.rows \in LastMessagesInChat(a.table, u, v, a.fetch.from, PageSize),
         NEW m \in ChatBefore(a.table, u, v, a.fetch.from),
         \A o \in stored : InChat(o, u, v) /\ Timestamp[o] = Timestamp[m] => o = m
  PROVE  /\ a.rows # <<>>
         /\ m \in Range(a.rows) \/ After(a.rows[1], m)
<1>1. /\ a.rows \in Seq(MessageId)
      /\ Range(a.rows) \subseteq ChatBefore(a.table, u, v, a.fetch.from)
      /\ a.rows # <<>> /\ (m \in Range(a.rows) \/ Timestamp[m] <= Timestamp[a.rows[1]])
  BY LastFacts, ChatPageAssumption
<1>2. a.rows[1] \in Range(a.rows)
  BY <1>1 DEF Range
<1>3. a.rows[1] \in stored /\ InChat(a.rows[1], u, v)
  BY <1>1, <1>2 DEF ChatBefore
<1>4. Timestamp[m] \in Nat /\ Timestamp[a.rows[1]] \in Nat
  BY <1>3, MessageAssumption DEF ChatBefore
<1>5. CASE Timestamp[m] = Timestamp[a.rows[1]]
  BY <1>1, <1>2, <1>3, <1>5
<1>6. CASE Timestamp[m] # Timestamp[a.rows[1]]
  BY <1>1, <1>4, <1>6 DEF After
<1> QED BY <1>1, <1>5, <1>6

LEMMA ShownInit == Init => ShownInv
BY ChatPageAssumption DEF Init, ShownInv, Current

(* The steps that leave the baseline and what is reached.                  *)
LEMMA ShownKept ==
  ASSUME ShownInv, stored \subseteq stored',
         Current' =>
           /\ Current /\ loaded' = loaded /\ baseline' = baseline
           /\ \A m \in Range(messagesBuffer)' :
                m \in Range(messagesBuffer) \/ (InChat(m, Me, loaded) /\ m \in stored)
           /\ \A m \in baseline : Reached(m) => Reached(m)'
  PROVE  ShownInv'
<1> SUFFICES ASSUME Current' PROVE ShownInv'
  BY DEF ShownInv
<1>1. ASSUME NEW m \in Range(messagesBuffer)' PROVE InChat(m, Me, loaded') /\ m \in stored'
  BY <1>1 DEF ShownInv
<1>2. ASSUME NEW m \in baseline', InChat(m, Me, loaded'), Untied(m)' PROVE Reached(m)'
  <2>1. Untied(m)
    BY <1>2 DEF Untied
  <2>2. Reached(m)
    BY <1>2, <2>1 DEF ShownInv
  <2> QED BY <1>2, <2>2
<1> QED BY <1>1, <1>2 DEF ShownInv

(* The answer to a load: the last page of the chat that is open.           *)
LEMMA ShownLoad ==
  ASSUME TypeOK, Earlier, RequestInv, NEW a \in answers, Load(a)
  PROVE  ShownInv'
<1> DEFINE u == a.fetch.chat
<1> SUFFICES ASSUME Current' PROVE ShownInv'
  BY DEF ShownInv
<1>0. u = current_chat_id
  <2>1. ~Current /\ current_chat_id' = current_chat_id
    BY DEF Load, RequestInv, AnswerFits, RequestFits
  <2>2. loaded' # loaded
    BY <2>1 DEF Current
  <2> QED BY <2>2 DEF Load, Witness
<1>1. /\ messagesBuffer' = a.rows /\ loaded' = u /\ baseline' = a.table
      /\ ~noMoreOldMessages' /\ stored' = stored
  BY <1>0 DEF Load, Witness
<1>2. a.rows \in LastMessagesInChat(a.table, Me, u, a.fetch.from, PageSize)
  BY DEF RequestInv, AnswerFits
<1>3. a.fetch.from \notin a.table
  BY AnswerFacts, ChatPageAssumption DEF Load, RequestInv, AnswerFits, RequestFits
<1>4. a.table \subseteq stored /\ stored \subseteq MessageId
  BY DEF Earlier, TypeOK
<1>5. Range(a.rows) \subseteq ChatBefore(a.table, Me, u, a.fetch.from)
  BY <1>2, <1>4, LastFacts, ChatPageAssumption
<1> HIDE DEF u
<1>6. \A m \in Range(messagesBuffer)' : InChat(m, Me, loaded') /\ m \in stored'
  BY <1>1, <1>4, <1>5 DEF ChatBefore
<1>7. ASSUME NEW m \in a.table, InChat(m, Me, u), Untied(m)' PROVE Reached(m)'
  <2>1. m \in ChatBefore(a.table, Me, u, a.fetch.from)
    BY <1>3, <1>7 DEF ChatBefore
  <2>2. \A o \in stored : InChat(o, Me, u) /\ Timestamp[o] = Timestamp[m] => o = m
    BY <1>1, <1>7 DEF Untied
  <2>3. a.rows # <<>> /\ (m \in Range(a.rows) \/ After(a.rows[1], m))
    BY <1>2, <1>4, <2>1, <2>2, PageFacts
  <2> QED BY <1>1, <2>3 DEF Reached
<1> QED BY <1>1, <1>6, <1>7 DEF ShownInv

(* The answer to a "more": the page before the first message shown, or, if *)
(* it is empty, the word that there is none.                               *)
LEMMA ShownExtend ==
  ASSUME TypeOK, Earlier, RequestInv, ShownInv, NEW a \in answers, Extend(a)
  PROVE  ShownInv'
<1> SUFFICES ASSUME Current' PROVE ShownInv'
  BY DEF ShownInv
<1>1. Current /\ UNCHANGED <<current_chat_id, loaded, baseline, stored>>
  BY DEF Extend, Current
<1>2. /\ a.fetch.chat = loaded /\ baseline \subseteq a.table
      /\ \/ a.fetch.from = NoStart
         \/ messagesBuffer # <<>> /\ a.fetch.from = messagesBuffer[1]
      /\ a.rows \in LastMessagesInChat(a.table, Me, loaded, a.fetch.from, PageSize)
  BY <1>1 DEF Extend, RequestInv, AnswerFits, RequestFits
<1>3. a.table \subseteq stored /\ stored \subseteq MessageId /\ messagesBuffer \in Seq(MessageId)
  BY DEF Earlier, TypeOK
<1>4. Range(a.rows) \subseteq ChatBefore(a.table, Me, loaded, a.fetch.from)
  BY <1>2, <1>3, LastFacts, ChatPageAssumption
<1>5. a.rows \in Seq(MessageId)
  BY AnswerFacts
<1>6. ASSUME NEW m \in baseline, InChat(m, Me, loaded), Untied(m), m \notin Range(messagesBuffer)
      PROVE  ~noMoreOldMessages /\ a.rows # <<>> /\ (m \in Range(a.rows) \/ After(a.rows[1], m))
  <2>1. messagesBuffer # <<>> /\ After(messagesBuffer[1], m) /\ ~noMoreOldMessages
    BY <1>1, <1>6 DEF ShownInv, Reached
  <2>2. a.fetch.from \in a.table => After(a.fetch.from, m)
    BY <1>2, <1>3, <2>1, ChatPageAssumption
  <2>3. m \in ChatBefore(a.table, Me, loaded, a.fetch.from)
    BY <1>2, <1>6, <2>2 DEF ChatBefore
  <2>4. \A o \in stored : InChat(o, Me, loaded) /\ Timestamp[o] = Timestamp[m] => o = m
    BY <1>6 DEF Untied
  <2> QED BY <1>2, <1>3, <2>1, <2>3, <2>4, PageFacts
<1>7. CASE a.rows # <<>>
  <2>1. messagesBuffer' = a.rows \o messagesBuffer /\ noMoreOldMessages' = noMoreOldMessages
    BY <1>7 DEF Extend
  <2>2. /\ messagesBuffer' # <<>> /\ messagesBuffer'[1] = a.rows[1]
        /\ Range(messagesBuffer)' = Range(a.rows) \cup Range(messagesBuffer)
    BY <1>3, <1>5, <1>7, <2>1, ConcatFacts
  <2>3. \A m \in Range(messagesBuffer)' : InChat(m, Me, loaded') /\ m \in stored'
    BY <1>1, <1>3, <1>4, <2>2 DEF ShownInv, ChatBefore
  <2>4. ASSUME NEW m \in baseline', InChat(m, Me, loaded'), Untied(m)' PROVE Reached(m)'
    <3>1. m \in baseline /\ InChat(m, Me, loaded) /\ Untied(m)
      BY <1>1, <2>4 DEF Untied
    <3> QED BY <1>6, <2>1, <2>2, <3>1 DEF Reached
  <2> QED BY <2>3, <2>4 DEF ShownInv
<1>8. CASE a.rows = <<>>
  <2>1. messagesBuffer' = messagesBuffer
    BY <1>8 DEF Extend
  <2>2. \A m \in Range(messagesBuffer)' : InChat(m, Me, loaded') /\ m \in stored'
    BY <1>1, <2>1 DEF ShownInv
  <2>3. ASSUME NEW m \in baseline', InChat(m, Me, loaded'), Untied(m)' PROVE Reached(m)'
    <3>1. m \in baseline /\ InChat(m, Me, loaded) /\ Untied(m)
      BY <1>1, <2>3 DEF Untied
    <3> QED BY <1>6, <1>8, <2>1, <3>1 DEF Reached
  <2> QED BY <2>2, <2>3 DEF ShownInv
<1> QED BY <1>7, <1>8

LEMMA ShownNext ==
  ASSUME TypeOK, Earlier, RequestInv, ShownInv, [Next]_vars
  PROVE  ShownInv'
<1> USE DEF page
<1>1. ASSUME NEW m \in MessageId, StoreMessage(m) PROVE ShownInv'
  BY <1>1, ShownKept DEF StoreMessage, Current, Reached
<1>2. ASSUME NEW m \in MessageId, OnMessage(m) PROVE ShownInv'
  <2>1. UNCHANGED <<stored, current_chat_id, noMoreOldMessages, loaded, baseline>> /\ m \in stored
    BY <1>2 DEF OnMessage
  <2>2. CASE Shows(m)
    <3>1. messagesBuffer' = Append(messagesBuffer, m) /\ messagesBuffer \in Seq(MessageId)
      BY <1>2, <2>2 DEF OnMessage, TypeOK
    <3>2. /\ messagesBuffer' # <<>>
          /\ messagesBuffer # <<>> => messagesBuffer'[1] = messagesBuffer[1]
          /\ Range(messagesBuffer)' = Range(messagesBuffer) \cup {m}
      BY <3>1, AppendFacts
    <3>3. \A n \in baseline : Reached(n) => Reached(n)'
      BY <2>1, <3>2 DEF Reached
    <3>4. Current' => Current /\ InChat(m, Me, loaded)
      BY <2>1, <2>2 DEF Current, Shows
    <3> QED BY <2>1, <3>2, <3>3, <3>4, ShownKept
  <2>3. CASE ~Shows(m)
    <3>1. messagesBuffer' = messagesBuffer
      BY <1>2, <2>3 DEF OnMessage
    <3> QED BY <2>1, <3>1, ShownKept DEF Current, Reached
  <2> QED BY <2>2, <2>3
<1>3. ASSUME NEW u \in UserId \cup {NoChat}, OpenChat(u) \/ OpenWithoutLoad(u) PROVE ShownInv'
  <2>1. loaded' = NoChat /\ current_chat_id' = u
    BY <1>3 DEF OpenChat, OpenWithoutLoad
  <2> QED BY <2>1 DEF ShownInv, Current
<1>4. ASSUME LoadMore \/ \E f \in fetches : MessagesJson(f) \/ FetchFails(f) PROVE ShownInv'
  <2>1. UNCHANGED <<stored, page, loaded, baseline>>
    BY <1>4 DEF LoadMore, MessagesJson, FetchFails
  <2> QED BY <2>1, ShownKept DEF Current, Reached
<1>5. ASSUME NEW a \in answers, Load(a) \/ Extend(a) PROVE ShownInv'
  BY <1>5, ShownLoad, ShownExtend
<1>6. ASSUME Reopen PROVE ShownInv'
  BY <1>6 DEF Reopen, ShownInv, Current
<1>7. ASSUME UNCHANGED vars PROVE ShownInv'
  BY <1>7, ShownKept DEF vars, Current, Reached
<1> QED BY <1>1, <1>2, <1>3, <1>4, <1>5, <1>6, <1>7 DEF Next

-----------------------------------------------------------------------------
PageInv == TypeOK /\ Numbered /\ Earlier /\ RequestInv /\ ShownInv

(* One request at a time keeps the page whole, whatever the other users    *)
(* send, and whatever arrives, meanwhile.                                  *)
LEMMA PageCorrect ==
  ASSUME MaxPending = 1
  PROVE  Spec => []PageInv
<1>1. Init => PageInv
  BY TypeInit, EarlierInit, RequestInit, ShownInit DEF PageInv
<1>2. PageInv /\ [Next]_vars => PageInv'
  BY TypeNext, EarlierNext, RequestNext, ShownNext DEF PageInv
<1> QED BY <1>1, <1>2, PTL DEF Spec

LEMMA LoadedIsCurrent == Loaded => Current
BY DEF Loaded

(* To a user who waits for the answers, the page shows the chat that is    *)
(* open and no other, once it has been loaded (chat.html:57 and 79).       *)
THEOREM ShownInChatCorrect ==
  ASSUME MaxPending = 1
  PROVE  Spec => []ShownInChat
<1>1. PageInv => ShownInChat
  BY LoadedIsCurrent DEF PageInv, ShownInv, ShownInChat, Current
<1> QED BY <1>1, PageCorrect, PTL

(* Nor does loadMoreOldMessages skip a message between two pages, whatever *)
(* the page size and however many are stored while it loads.               *)
THEOREM NoHolesCorrect ==
  ASSUME MaxPending = 1
  PROVE  Spec => []NoHoles
<1>1. PageInv => NoHoles
  BY LoadedIsCurrent DEF PageInv, ShownInv, Reached, NoHoles
<1> QED BY <1>1, PageCorrect, PTL

(* And noMoreOldMessages is only set when the chat is shown from its first *)
(* message on.                                                             *)
THEOREM NoMoreMeansAllCorrect ==
  ASSUME MaxPending = 1
  PROVE  Spec => []NoMoreMeansAll
<1>1. PageInv => NoMoreMeansAll
  BY LoadedIsCurrent DEF PageInv, ShownInv, Reached, NoMoreMeansAll
<1> QED BY <1>1, PageCorrect, PTL
=============================================================================
