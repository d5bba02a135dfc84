------------------------------ MODULE ChatPage ------------------------------
(***************************************************************************)
(* The script of lib/pheidippides-web/templates/chat.html in one open      *)
(* page, with the handler behind GET /json/messages/<chat> and the query   *)
(* it makes: opening a chat, loading older messages page by page, and the  *)
(* messages the EventSource brings meanwhile.                              *)
(*                                                                         *)
(* An async function of the script runs in steps: up to its await of       *)
(* fetch, and from the answer on.  In between anything else may happen.    *)
(***************************************************************************)
EXTENDS MessageStore

CONSTANTS
  Me,            (* the user logged in                                     *)
  PageSize,      (* MESSAGE_LOAD_BUF_SIZE                                  *)
  MaxPending,    (* bound on the fetches under way at a time               *)
  NoChat,        (* no chat is open: /chat                                 *)
  NoStart        (* no parameter from                                      *)

ASSUME ChatPageAssumption ==
  /\ Me \in UserId
  /\ PageSize \in Nat \ {0}
  /\ MaxPending \in Nat \ {0}
  /\ NoChat \notin UserId
  /\ NoStart \notin MessageId

VARIABLES
  stored,          (* the rows of the messages table                       *)
  current_chat_id,
  messagesBuffer,
  noMoreOldMessages,
  drawn,           (* whether the div "messages" has been drawn since it   *)
                   (* was empty                                            *)
  visited,         (* the chats in the page's history                      *)
  fetches,         (* the requests the server has not answered             *)
  answers,         (* the answers whose promise has not been resumed       *)
  noticed,         (* the messages the EventSource has brought             *)
  loaded,          (* the current chat, if it has been loaded since it was *)
                   (* opened (history only)                                *)
  baseline         (* the rows there were when it was (history only)       *)

page == <<current_chat_id, messagesBuffer, noMoreOldMessages, drawn, visited>>
vars == <<stored, page, fetches, answers, noticed, loaded, baseline>>

(* A request, with a number that tells apart those that ask the same.      *)
Fetch ==
  [kind : {"load", "more"}, chat : UserId, from : MessageId \cup {NoStart},
   number : 1..MaxPending]

Answer ==
  [fetch : Fetch, rows : Seq(MessageId), table : SUBSET MessageId]

(* Every variable has its type, and no request is both answered and not.   *)
TypeOK ==
  /\ stored \subseteq MessageId
  /\ current_chat_id \in UserId \cup {NoChat}
  /\ messagesBuffer \in Seq(MessageId)
  /\ noMoreOldMessages \in BOOLEAN
  /\ drawn \in BOOLEAN
  /\ visited \subseteq UserId
  /\ fetches \subseteq Fetch
  /\ answers \subseteq Answer
  /\ noticed \subseteq stored
  /\ loaded \in UserId \cup {NoChat}
  /\ baseline \subseteq stored
  /\ {f.number : f \in fetches} \cap {a.fetch.number : a \in answers} = {}

(* The page has just been opened, on /chat.                                *)
Init ==
  /\ stored = {}
  /\ current_chat_id = NoChat
  /\ messagesBuffer = <<>>
  /\ noMoreOldMessages = FALSE
  /\ drawn = FALSE
  /\ visited = {}
  /\ fetches = {}
  /\ answers = {}
  /\ noticed = {}
  /\ loaded = NoChat
  /\ baseline = {}

FreeNumbers ==
  1..MaxPending \ ({f.number : f \in fetches} \cup {a.fetch.number : a \in answers})

(* fetch("/json/messages/" + chat + ...).                                  *)
Ask(kind, chat, from) ==
  \E n \in FreeNumbers :
    fetches' = fetches \cup
      {[kind |-> kind, chat |-> chat, from |-> from, number |-> n]}

-----------------------------------------------------------------------------
(* The rest of the system stores a message of anybody.                     *)
StoreMessage(m) ==
  /\ m \notin stored
  /\ stored' = stored \cup {m}
  /\ UNCHANGED <<page, fetches, answers, noticed, loaded, baseline>>

(* updateCurrentChat, after a click on a chat (the current one included)   *)
(* or a popstate: the buffer stays until loadMessages has its answer.      *)
OpenChat(u) ==
  /\ current_chat_id' = u
  /\ visited' = visited \cup {u}
  /\ Ask("load", u, NoStart)
  /\ loaded' = NoChat
  /\ baseline' = {}
  /\ UNCHANGED <<stored, messagesBuffer, noMoreOldMessages, drawn, answers, noticed>>

(* A popstate back to /chat, which empties the div, or to a chat that the  *)
(* list on the page lacks since a search: the missing element throws       *)
(* before loadMessages.                                                    *)
OpenWithoutLoad(u) ==
  /\ u \in visited \cup {NoChat}
  /\ current_chat_id' = u
  /\ drawn' = (drawn /\ u # NoChat)
  /\ loaded' = NoChat
  /\ baseline' = {}
  /\ UNCHANGED <<stored, messagesBuffer, noMoreOldMessages, visited, fetches, answers, noticed>>

(* loadMoreOldMessages, up to its fetch.  What calls it, the element       *)
(* loadMoreOldMessages or the end of a scroll, is there once the div is    *)
(* drawn.  Without a chat the path is that of no handler, and nothing      *)
(* comes of it.                                                            *)
LoadMore ==
  /\ drawn
  /\ ~noMoreOldMessages
  /\ current_chat_id # NoChat
  /\ Ask("more", current_chat_id,
         IF messagesBuffer = <<>> THEN NoStart ELSE messagesBuffer[1])
  /\ UNCHANGED <<stored, page, answers, noticed, loaded, baseline>>

(* Mutant: a request that is answered is under way still.                  *)
MessagesJsonAgain(f) ==
  /\ f \in fetches
  /\ \E rows \in LastMessagesInChat(stored, Me, f.chat, f.from, PageSize) :
       answers' = answers \cup {[fetch |-> f, rows |-> rows, table |-> stored]}
  /\ UNCHANGED <<stored, page, fetches, noticed, loaded, baseline>>

(* messages_json.                                                          *)
MessagesJson(f) ==
  /\ f \in fetches
  /\ fetches' = fetches \ {f}
  /\ \E rows \in LastMessagesInChat(stored, Me, f.chat, f.from, PageSize) :
       answers' = answers \cup {[fetch |-> f, rows |-> rows, table |-> stored]}
  /\ UNCHANGED <<stored, page, noticed, loaded, baseline>>

(* The fetch is rejected, or its answer is an error: the function throws.  *)
FetchFails(f) ==
  /\ f \in fetches
  /\ fetches' = fetches \ {f}
  /\ UNCHANGED <<stored, page, answers, noticed, loaded, baseline>>

(* An answer for the chat that is open by now is what loads it.            *)
Witness(a) ==
  IF a.fetch.chat = current_chat_id
  THEN loaded' = current_chat_id /\ baseline' = a.table
  ELSE UNCHANGED <<loaded, baseline>>

(* Mutant: no reset for the new chat.                                      *)
LoadOnly(a) ==
  /\ a \in answers /\ a.fetch.kind = "load"
  /\ messagesBuffer' = a.rows
  /\ drawn' = TRUE
  /\ answers' = answers \ {a}
  /\ Witness(a)
  /\ UNCHANGED <<stored, current_chat_id, noMoreOldMessages, visited, fetches, noticed>>

(* loadMessages from its await on: the answer is shown, whichever chat is  *)
(* open by now.                                                            *)
Load(a) ==
  /\ a \in answers /\ a.fetch.kind = "load"
  /\ messagesBuffer' = a.rows
  /\ drawn' = TRUE
  /\ noMoreOldMessages' = FALSE
  /\ answers' = answers \ {a}
  /\ Witness(a)
  /\ UNCHANGED <<stored, current_chat_id, visited, fetches, noticed>>

(* loadMoreOldMessages from its await on.                                  *)
Extend(a) ==
  /\ a \in answers /\ a.fetch.kind = "more"
  /\ IF a.rows # <<>>
     THEN messagesBuffer' = a.rows \o messagesBuffer /\ UNCHANGED noMoreOldMessages
     ELSE noMoreOldMessages' = TRUE /\ UNCHANGED messagesBuffer
  /\ drawn' = TRUE
  /\ answers' = answers \ {a}
  /\ UNCHANGED <<stored, current_chat_id, visited, fetches, noticed, loaded, baseline>>

(* Mutant: what is not from the current chat is taken for an own message.  *)
ShowsToo(m) == Me \in {From[m], To[m]}

(* Whether onmessage shows m: it is between the user and the current chat. *)
Shows(m) == current_chat_id # NoChat /\ InChat(m, Me, current_chat_id)

(* onmessage, for a message of the user's: at any time after it is stored, *)
(* in any order, or never.                                                 *)
OnMessage(m) ==
  /\ m \in stored \ noticed
  /\ Concerns(m, Me)
  /\ noticed' = noticed \cup {m}
  /\ messagesBuffer' = IF Shows(m) THEN Append(messagesBuffer, m) ELSE messagesBuffer
  /\ drawn' = (drawn \/ Shows(m))
  /\ UNCHANGED <<stored, current_chat_id, noMoreOldMessages, visited, fetches, answers, loaded,
                 baseline>>

(* The page is opened anew: by its user, or after /login, where an answer  *)
(* that is Unauthorized leads.                                             *)
Reopen ==
  /\ current_chat_id' = NoChat
  /\ messagesBuffer' = <<>>
  /\ noMoreOldMessages' = FALSE
  /\ drawn' = FALSE
  /\ visited' = {}
  /\ fetches' = {}
  /\ answers' = {}
  /\ loaded' = NoChat
  /\ baseline' = {}
  /\ UNCHANGED <<stored, noticed>>

Next ==
  \/ \E m \in MessageId : StoreMessage(m) \/ OnMessage(m)
  \/ \E u \in UserId : OpenChat(u)
  \/ \E u \in UserId \cup {NoChat} : OpenWithoutLoad(u)
  \/ LoadMore
  \/ \E f \in fetches : MessagesJson(f) \/ FetchFails(f)
  \/ \E a \in answers : Load(a) \/ Extend(a)
  \/ Reopen

Spec == Init /\ [][Next]_vars

-----------------------------------------------------------------------------
Idle == fetches = {} /\ answers = {}

(* loadMessages has answered for the current chat since it was opened.     *)
Current == current_chat_id # NoChat /\ loaded = current_chat_id

(* It has, and nothing is under way.                                       *)
Loaded == Idle /\ Current

(* No other message of the chat has m's timestamp.                         *)
Untied(m) ==
  \A o \in stored : InChat(o, Me, loaded) /\ Timestamp[o] = Timestamp[m] => o = m

(* chat.html:57 and 79: loadMessages is for the new chat, and              *)
(* loadMoreOldMessages for the current one.  What the page shows once the  *)
(* open chat has been loaded is of that chat.                              *)
ShownInChat ==
  Loaded => \A m \in Range(messagesBuffer) : InChat(m, Me, current_chat_id)

(* Page after page, whatever is stored or arrives between two of them,     *)
(* no message is skipped: of those the load could have seen, the page      *)
(* shows all that are not older than its first.                            *)
NoHoles ==
  Loaded =>
    \A m \in baseline :
      InChat(m, Me, loaded) /\ Untied(m) =>
        \/ m \in Range(messagesBuffer)
        \/ messagesBuffer # <<>> /\ After(messagesBuffer[1], m)

(* "No more" is only said of a chat that is shown from its first message.  *)
NoMoreMeansAll ==
  Loaded /\ noMoreOldMessages =>
    \A m \in baseline :
      InChat(m, Me, loaded) /\ Untied(m) => m \in Range(messagesBuffer)
=============================================================================
