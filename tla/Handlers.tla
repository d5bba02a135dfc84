------------------------------ MODULE Handlers ------------------------------
(***************************************************************************)
(* lib/pheidippides-web: the handlers route chooses from, each as the list *)
(* of the steps it takes before it answers, with the early return of each  *)
(* step.  A step is one that can fail (`or_bad_request`, `or_server_error` *)
(* and the `?` after them), that awaits, or that uses the database.        *)
(***************************************************************************)
EXTENDS Naturals, Sequences

(* Response, as the client can tell the variants apart.                    *)
Answer ==
  {"html", "text", "json", "redirect", "eventSource", "badRequest",
   "serverError", "empty"}

(* A check of what came with the request: a parameter, an id, a form, the  *)
(* cookies.                                                                *)
Parse == [does |-> "check", otherwise |-> "badRequest"]

(* get_authorization finds a session, or the handler answers otherwise.    *)
Authorized(otherwise) == [does |-> "authorize", otherwise |-> otherwise]

(* Request::content.                                                       *)
Body == [does |-> "body", otherwise |-> "serverError"]

(* One use of a pooled connection: a statement or a transaction.           *)
Query == [does |-> "query", otherwise |-> "serverError"]

(* The same, made only if the request has a starting point.                *)
QueryIfAny == [does |-> "optional", otherwise |-> "serverError"]

(* What the query brought is Some.                                         *)
Found(otherwise) == [does |-> "check", otherwise |-> otherwise]

-----------------------------------------------------------------------------
Main == [steps |-> <<>>, answer |-> "redirect"]

LoginPage == [steps |-> <<>>, answer |-> "html"]

SignupPage == [steps |-> <<>>, answer |-> "html"]

(* chat_page: the user, then the user's chats.                             *)
Chat ==
  [steps |-> <<Authorized("redirect"), Query, Found("badRequest"), Query>>,
   answer |-> "html"]

(* create_user is two transactions: the user, and then the password.       *)
Signup ==
  [steps |-> <<Body, Parse, Query, Found("json"), Query>>, answer |-> "json"]

(* verify_user: the user by name, then the password's hash.  The page of a *)
(* failed log in is an ordinary page.                                      *)
Authorize ==
  [steps |-> <<Body, Parse, Query, Found("html"), Query, Found("html")>>,
   answer |-> "redirect"]

(* Whether there was a session to remove or not, the answer is the same.   *)
Logout == [steps |-> <<Parse>>, answer |-> "redirect"]

(* Mutant: the row is created before the body has been awaited.            *)
SendMessageEarly ==
  [steps |-> <<Parse, Authorized("redirect"), Query, Body, Parse>>,
   answer |-> "html"]

SendMessage ==
  [steps |-> <<Parse, Authorized("redirect"), Body, Parse, Query>>,
   answer |-> "html"]

SubscribeNewMessages ==
  [steps |-> <<Authorized("badRequest"), Parse, QueryIfAny>>,
   answer |-> "eventSource"]

(* Without a session the answer is a page that says so.                    *)
ChatsHtml == [steps |-> <<Authorized("html"), Query>>, answer |-> "html"]

ChatSearch == [steps |-> <<Parse, Query>>, answer |-> "html"]

ChatHtml == [steps |-> <<Parse, Query>>, answer |-> "html"]

(* Without a session the answer is success = false in JSON.                *)
MessagesJson ==
  [steps |-> <<Parse, Authorized("json"), Query>>, answer |-> "json"]

EventSourceTool == [steps |-> <<>>, answer |-> "html"]

Favicon == [steps |-> <<>>, answer |-> "empty"]

NoSuchRoute == [steps |-> <<>>, answer |-> "badRequest"]

(* The handler of each route.                                              *)
Handler ==
  [main |-> Main, login |-> LoginPage, signupPage |-> SignupPage,
   chat |-> Chat, signup |-> Signup, authorize |-> Authorize,
   logout |-> Logout, message |-> SendMessage,
   subscribe |-> SubscribeNewMessages, chats |-> ChatsHtml,
   chatsearch |-> ChatSearch, chatHtml |-> ChatHtml,
   messages |-> MessagesJson, tool |-> EventSourceTool,
   favicon |-> Favicon, other |-> NoSuchRoute]

Routes == DOMAIN Handler

(* The routes whose statements write to the database.                      *)
Writing == {"signup", "message"}
=============================================================================
