------------------------------ MODULE ChatList ------------------------------
(***************************************************************************)
(* templates/chat.html: the list of chats, which the EventSource reorders  *)
(* (moveChatToTop) and the search button replaces with the answer of       *)
(* find_users_chats, which is asked statement by statement.                *)
(*                                                                         *)
(* An async function of the page runs up to its fetch and goes on with the *)
(* answer; between the two anything else happens.                          *)
(***************************************************************************)
EXTENDS ChatQueries

CONSTANTS
  Me,          (* the user of the page                                     *)
  Found,       (* what /html/chatsearch may answer, as lists of users      *)
  MaxFetches,  (* bound: fetches of /html/chat/<id> under way at a time    *)
  NoRequest, Search

(* /html/chatsearch answers with rows of the table users, each of another  *)
(* user: the ids are its primary key.                                      *)
ASSUME ListAssumption ==
  /\ Me \in UserId
  /\ Asker = [q \in Call |-> Me]
  /\ \A users \in Found : users \in Seq(UserId) /\ IsInjective(users)
  /\ MaxFetches \in Nat
  /\ {NoRequest, Search} \cap Call = {} /\ NoRequest # Search

VARIABLES
  list,        (* the children of the element "chats", by their user       *)
  searchText,  (* whether there is text in the search box                  *)
  listing,     (* the answer the search button waits for                   *)
  fetching,    (* the fetches under way for each chat                      *)
  heard,       (* the messages the EventSource has brought                 *)
  overlapped   (* chats whose fetch met another answer (history only)      *)

listVars == <<list, searchText, listing, fetching, heard, overlapped>>
vars == <<rows, queryVars, listVars>>

Pending(u) == fetching[u] > 0

Fetches == {f \in UserId \X (1..MaxFetches) : f[2] <= fetching[f[1]]}

(* Every variable has its type, and no two calls work on one connection.   *)
TypeOK ==
  /\ rows \in Seq(MessageId) /\ IsInjective(rows)
  /\ call \in [Call -> CallPhase]
  /\ \A q \in Call : session[q] \in Session <=> q \in Working
  /\ \A q, p \in Working : session[q] = session[p] => q = p
  /\ temp \in [Session -> SUBSET (Call \X {"chat_ids", "chat_ids_grouped"})]
  /\ list \in Seq(UserId)
  /\ searchText \in BOOLEAN
  /\ listing \in Call \cup {NoRequest, Search}
  /\ fetching \in [UserId -> 0..MaxFetches]
  /\ heard \subseteq Range(rows)
  /\ overlapped \subseteq UserId

(* The page is opened before there are messages.                           *)
Init ==
  /\ QueriesInit
  /\ list = <<>>
  /\ searchText = FALSE
  /\ listing = NoRequest
  /\ fetching = [u \in UserId |-> 0]
  /\ heard = {}
  /\ overlapped = {}

-----------------------------------------------------------------------------
(* The list.                                                               *)

Count(u) == Cardinality({i \in DOMAIN list : list[i] = u})

(* The first element with the id of chat u, as getElementById finds it.    *)
Pop(u) == RemoveAt(list, SelectInSeq(list, LAMBDA v : v = u))

(* Mutant: the element is inserted without being removed.                  *)
MoveCopy(u) ==
  /\ u \in Range(list)
  /\ list' = <<u>> \o list
  /\ UNCHANGED <<fetching, overlapped>>

(* moveChatToTop of a chat in the list: the await of an async function     *)
(* that does not fetch lets no other event in.                             *)
Move(u) ==
  /\ u \in Range(list)
  /\ list' = <<u>> \o Pop(u)
  /\ UNCHANGED <<fetching, overlapped>>

(* ... of any other: GET /html/chat/<id>.                                  *)
FetchChat(u) ==
  /\ u \notin Range(list)
  /\ Cardinality(Fetches) < MaxFetches
  /\ fetching' = [fetching EXCEPT ![u] = @ + 1]
  /\ overlapped' = IF Pending(u) THEN overlapped \cup {u} ELSE overlapped
  /\ UNCHANGED list

(* The EventSource brings a message of the user.                           *)
OnMessage(m) ==
  /\ m \in Range(rows) \ heard
  /\ Concerns(m, Me)
  /\ heard' = heard \cup {m}
  /\ IF searchText
     THEN UNCHANGED <<list, fetching, overlapped>>
     ELSE Move(Other(m, Me)) \/ FetchChat(Other(m, Me))
  /\ UNCHANGED <<rows, queryVars, searchText, listing>>

(* insertBefore of the fetched element, whatever the list is by now.       *)
ChatArrives(u) ==
  /\ Pending(u)
  /\ fetching' = [fetching EXCEPT ![u] = @ - 1]
  /\ list' = <<u>> \o list
  /\ UNCHANGED <<rows, queryVars, searchText, listing, heard, overlapped>>

(* The fetch fails or its answer is no element.                            *)
ChatFails(u) ==
  /\ Pending(u)
  /\ fetching' = [fetching EXCEPT ![u] = @ - 1]
  /\ UNCHANGED <<rows, queryVars, list, searchText, listing, heard, overlapped>>

(* The user fills or empties the search box.                               *)
TypeSearch ==
  /\ searchText' = ~searchText
  /\ UNCHANGED <<rows, queryVars, list, listing, fetching, heard, overlapped>>

(* The search button: with text the search, without it the chats.  (Bound: *)
(* one such request at a time.)                                            *)
AskSearch ==
  /\ listing = NoRequest
  /\ searchText
  /\ listing' = Search
  /\ UNCHANGED <<rows, queryVars, list, searchText, fetching, heard, overlapped>>

AskChats(q) ==
  /\ listing = NoRequest
  /\ ~searchText
  /\ Ask(q)
  /\ listing' = q
  /\ UNCHANGED <<list, searchText, fetching, heard, overlapped>>

(* innerHTML is replaced; fetches under way will add to what it is now.    *)
Replace(users) ==
  /\ list' = users
  /\ listing' = NoRequest
  /\ overlapped' = {u \in UserId : Pending(u)}
  /\ UNCHANGED <<rows, queryVars, searchText, fetching, heard>>

SearchArrives == listing = Search /\ \E users \in Found : Replace(users)

ChatsArrive(q) ==
  /\ listing = q
  /\ call[q] = "done"
  /\ Replace(chats[q])

(* The text of an error is no chat.                                        *)
ChatsFail(q) ==
  /\ listing = q
  /\ call[q] = "failed"
  /\ Replace(<<>>)

(* The page is opened anew.  chat_page brings the list with it, which is   *)
(* find_users_chats' of a moment before; a fetch of the page before it     *)
(* comes to nothing, the call that answers it goes on.                     *)
OpenPage ==
  /\ \E n \in 0..Len(rows) :
       LET table == Range(SubSeq(rows, 1, n))
       IN  list' \in LatestFirst(GroupByUser(LastReceived(table, Me) \cup LastSent(table, Me)))
  /\ searchText' = FALSE
  /\ listing' = NoRequest
  /\ fetching' = [u \in UserId |-> 0]
  /\ overlapped' = {}
  /\ UNCHANGED <<rows, queryVars, heard>>

(* Somebody's message is stored, or the user's own.                        *)
CreateMessage(m) == InsertRow(m) /\ UNCHANGED listVars

-----------------------------------------------------------------------------
Server(q) == FindUsersChats(q) /\ UNCHANGED listVars

Next ==
  \/ \E m \in MessageId : CreateMessage(m) \/ OnMessage(m)
  \/ \E u \in UserId : ChatArrives(u) \/ ChatFails(u)
  \/ \E q \in Call : AskChats(q) \/ Server(q) \/ ChatsArrive(q) \/ ChatsFail(q)
  \/ TypeSearch \/ AskSearch \/ SearchArrives
  \/ OpenPage

Spec == Init /\ [][Next]_vars

-----------------------------------------------------------------------------
(* A chat stands in the list twice only if two of its elements were on     *)
(* their way at a time: two fetches, or a fetch and a new list.            *)
TwiceOnlyWhenOverlapping ==
  \A u \in UserId : Count(u) > 1 => u \in overlapped
=============================================================================
