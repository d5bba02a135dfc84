# A formal model of Pheidippides

TLA+ modules for Pheidippides, a messenger written in Rust: a hand-written HTTP
server, sessions in memory, a Postgres database, and new messages pushed to
browsers through server-sent events. The modules are translated from the source
under `src/`; TLC checks them on small instances and TLAPS proves the
safety properties for any number of users, messages, subscriptions, connections,
requests, chats and forms.

## 1. The system

| Part | Source | State | Operations |
|---|---|---|---|
| Subscriptions handler | `lib/pheidippides-messenger/src/subscriptions_handler.rs`, `messenger.rs` | the map from a user to the user's tokio broadcast channel, under an RwLock | announce a stored message, subscribe from a starting point or from now, clean up every 5 s |
| Message queries | `lib/postgres-db/src/lib.rs` | table `messages` | insert, messages since a message, last page of a chat, the list of chats |
| Channel tasks | `lib/pheidippides-utils/src/async_utils.rs` | one task and one unbounded channel each | pass on, filter, end from either side |
| Event stream | `lib/http-server/src/event_source.rs`, `request.rs` | a TCP connection and the channel it is fed from | write events, notice the client's departure, hourly keep-alive, drain |
| Accounts | `routing/actions.rs`, `messenger.rs`, `lib/pheidippides-auth`, `lib/postgres-db` | tables `users` and `auth` | sign up, log in |
| Sessions | `lib/pheidippides-web/src/sessions.rs`, `routing.rs` | a global map in memory | open, look up, remove |
| Chat page | `lib/pheidippides-web/templates/chat.html`, `routing/json.rs` | buffer of messages, current chat, fetches under way | open a chat, page back, show what arrives, list of chats, search, reply |
| HTTP server | `lib/http-server/src/server.rs`, `request.rs`, `bin/server` | listener, connection tasks, cancellation token | accept, parse, answer, shut down |
| Form data | `lib/pheidippides-utils/src/serde/form_data.rs` | none | parse |
| Routing and pages | `routing.rs`, `routing/*.rs`, `flow_controller.rs` | none | choose the handler, return early, render |
| Mock database | `lib/mock-db` | vectors behind mutexes | as Postgres, for tests and `--mock` |
| Pool, shutdown, migrations | `bin/server`, `bin/migrate`, `postgres-db/src/lib.rs` 26-81 | the pool, the schema version | check the version at start, close the pool after the signal; migrating is sqlx's |

How they interact. `POST /message/<receiver>` looks up the session, awaits the
body, inserts the row and then, in a separate step, sends the message on the
broadcast channels of author and recipient. `GET /subscribe/new_messages` takes a
receiver of its user's channel first, then reads the table after the starting
point, sends those rows, and lets a filter keep them from coming a second time. From the channel
to the socket there are two or three tasks with an unbounded channel between each
two. The page pages back through `GET /json/messages/<chat>` while the
EventSource appends to the same buffer.

What is hard about it: the read of the table and the subscription are not one
step, nor are the insert and the announcement; the cleanup job runs between any
two of them; the end of a connection must travel back through the tasks, the end
of a source forward; sign ups for the same name race behind a table lock;
sessions outlive awaits and die with the process; the page resumes after an
await in a state that may have changed; a handler awaits its client and its
database in turn, and the process goes down among all of them; a page that loses
its connection makes another while the server still holds the first. `PROJECT.json` lists these hazards at
their lines.

What makes each part correct, in a sentence:

- *subscriptions*: every message of a user reaches every reader of the user
  exactly once, whichever way; only a reader that lags is cut off; unused channels go;
- *event stream*: the chain of tasks is one ordered stream, and it winds up;
- *accounts*: names differ but for case, who signed up can log in, nobody
  enters without the password, no request waits for ever;
- *sessions*: a message's author is who logged in;
- *chat page*: what is shown is of the open chat and has no holes; the list has
  every chat once unless two of its updates overlap;
- *list of chats*: what five statements return is the state at the first of
  them, and they leave nothing behind;
- *reconnecting page*: nothing is lost between two connections but what the
  starting point leaves out, and nothing is repeated but what a query returned;
- *HTTP server*: a request is answered at most once, acts only when it has come
  whole, holds up no other, and does not keep the process from exiting, which
  waits for the statements under way;
- *form data*: what was typed is what is read;
- *the two stores*: they answer alike.

## 2. The modules

| Module | Models | Lines of the source |
|---|---|---|
| `MessageStore` | the queries over `messages` as operators, ties between timestamps included | `postgres-db/src/lib.rs` 279-401 |
| `SubscriptionsHandler` | `send_message`, `handle_new_message`, `subscribe_new_messages`, `pipe_broadcast`, the cleanup job | `subscriptions_handler.rs`, `messenger.rs` 68-92, `async_utils.rs` 52-89 |
| `EventStream` | abstract: one list of events, received in order, ended after the last | a promise, not code |
| `Pipeline` | the tasks of `async_utils`, `handle_event_stream`, `respond` | `async_utils.rs`, `event_source.rs`, `request.rs` 57-74 |
| `Accounts` | the handlers of sign up, log in, log out and send, over `users`, `auth` and `SESSION_INFO` | `actions.rs` 19-159, `postgres-db/src/lib.rs` 127-206 and 454-497, `sessions.rs` |
| `ChatPage` | the messages in the script of `chat.html`, and `messages_json` | `chat.html` 28-114 and 179-204, `json.rs` 59-109 |
| `Reconnect` | the page's EventSource and the starting point of each connection, over `SubscriptionsHandler` | `chat.html` 179-204, `actions.rs` 161-209 |
| `RequestService` | abstract: requests, their statements and answers, and a process that ends | a promise, not code |
| `Handlers` | the steps of each route's handler and their early returns | `routing.rs`, `actions.rs`, `html.rs`, `pages.rs`, `json.rs`, `tools.rs`, `flow_controller.rs` |
| `HttpServer` | `main`, `run_server`, the connection tasks, the pool, shutdown | `main.rs`, `server.rs`, `request.rs`, `postgres-db/src/lib.rs` 26-77 |
| `ChatQueries` | `find_users_chats` of Postgres statement by statement; the mock's queries | `postgres-db/src/lib.rs` 208-277, `mock-db/src/lib.rs` 184-309 |
| `ChatList` | the list of chats in the page | `chat.html` 198-276 |
| `FormData` | the form data deserializer | `form_data.rs` 128-362 |
| `MC...` | values for the constants | |
| `..._proofs` | theorems and proofs | |

`SubscriptionsHandler`, `ChatPage` and `ChatQueries` extend `MessageStore`,
`Reconnect` extends `SubscriptionsHandler`, `ChatList` extends `ChatQueries`,
`HttpServer` extends `Handlers`; `Pipeline` instantiates `EventStream`, and
`HttpServer` `RequestService`, under a refinement mapping. A definition marked
*Mutant* is a wrong variant of the one after it, kept to show that the
properties notice it; no specification uses it.

### SubscriptionsHandler

A message is its id; sender, receiver and timestamp are functions of it. The
timestamp is read before the insert, so rows become visible in any order of
timestamps. `stored` is the table; `new_messages` the map; `log[c]` everything
sent on channel `c`, and `cursor[s]` how much of it the receiver of subscription
`s` has read: the ring buffer of tokio shows in `Lagged`, when a receiver is
more than `Capacity` behind. `send[m]` is how far `send_message` has got with
`m`. Sending to the author and sending to the recipient are two steps under one
read lock: other readers of the map may come between, `Subscribe` and `Cleanup`,
which write it, may not (`WriteLockFree`). A subscription without a starting
point goes straight to `pipe_broadcast`, one with a starting point is
`"fetching"` until the query is answered, `Fetch`, or fails. `FetchFails` drops the receiver.
Failures of the insert leave the row in the table or not. `baseline`
is a history variable: the rows there were when the subscription was made.

### Pipeline and EventStream

Task 1 is `pipe_broadcast`, task 2 of three is `redirect_unbounded_channel`, the
last is the `pipe_unbounded_channel` of `actions.rs`. All three are one loop:
stop when the reader is gone or the source has ended and is empty, else pass
on. The end of a task drops its sender and its receiver. `handle_event_stream` writes
events until the client closes, a write or the keep-alive fails, or the channel ends; then
`respond` closes and drains the channel. A client may vanish without closing.
`read_line` ends the stream whatever it returns, so a client that writes a line is
in the state of one that closes (`client = "closed"`): the stream ends with events
possibly unsent. A browser's EventSource writes nothing after its request, so a
client that is `"connected"` gets all that was sent.
`ImplementsEventStream` maps the whole to `EventStream`: what was sent is the
history and what task 1 accepted, what was received is what the client was
written, the end is the end of writing.

### Accounts

Users and sessions are uuids and are named by the request that makes them. A
request goes through the phases its handler awaits in. `create_user` takes the
lock on the table, checks, inserts and commits; every exit ends the transaction
and with it the lock (`Unlock`). The foreign keys of `auth` and `messages` wait
for that lock as well (`UsersUnlocked`). A failed commit may have been
committed, and so may the insert of a message whose answer is an error.
The password is stored in a second transaction: between the two a
sign up may fail or the server stop, which leaves a user without a password. `Restart`
empties what is in memory and ends what is under way. Lower case is computed
twice, by Rust on what is asked (`Lower`) and by Postgres on what is stored
(`DbLower`): two constants. The hash of a password is the password.

### ChatPage

An async function of the script is two steps, up to `fetch` and from the answer
on; between them the server answers (`MessagesJson`) and anything else happens.
The answer to a load replaces the buffer, that to a request for older messages
extends it, whichever chat is open by then, as in the code. What asks for older
messages, a click on the element `loadMoreOldMessages` or the end of a scroll, is
there once `redrawMessages` has filled the div (`drawn`). `OpenWithoutLoad`
is the way out of `updateCurrentChat` without a load, after a step in the history
of the page (`visited`): no chat, or a chat that is
not in the list on the page. The EventSource brings messages in any
order after they are stored, or not at all. `Reopen` is a fresh page, also the
one after `/login`, where an answer `Unauthorized` leads. `loaded` and
`baseline` are history: whether `loadMessages` has answered for the current chat
since it was opened, and the rows there were when it did. An answer for another
chat leaves both alone (`Witness`) while it replaces the buffer, which is how
`ShownInChat` catches it.

### Reconnect

A connection of the page is a subscription, so the module adds to
`SubscriptionsHandler` only the page: the connection its EventSource reads, how
many of its events have arrived, the last event ID and the messages seen. The
tasks and sockets between a subscription and the page are what `EventStream`
promises, so the events on their way are those sent on and not yet got. `Lose`
takes them away; `Notice`, later, tells the server. In between the page may have
connected again, with the last event ID as its starting point. A status other
than 200 ends an EventSource for good (`GivenUp`): a session that has gone, an
error of the query. `passed` and `repeated` are history variables: the rows that
a new connection found and did not ask for, and the messages seen twice.

### Handlers and HttpServer

A handler is a list of steps: checks of what came with the request, the look at
the session, the body, the uses of the database. Each step has the answer of its
early return. `flow_controller.rs` is what makes `?` that early return: `GoTo` is
its `Value`, `ReturnEarly` its `HttpResponse`. A step that uses the database holds
a pooled connection from `Acquire` to `QueryEnds` or `QueryFails`, and none is
held between steps; a transaction is one step. What the checks and queries find
is left open: each may fail or not.

A client sends the head, then the body, and may stop or leave anywhere. The task
of its connection reads the head, runs the handler and writes the answer; a
stream of events is handed to a task of its own (`Pipeline`). An error of
`accept` is only logged and changes nothing. The writing of an answer waits for the
client when the answer is longer than what the socket buffers, and an answer has no
limit: `Respond` may be taken at any time, but has to be only once the client
reads (`TakeAnswer`, which nothing forces) or has left, or at once for a stream,
which is handed on without writing (`Writable`). `main` connects, checks the migrations, starts the task of
`graceful_shutdown`, binds and serves; the signal ends the accept loop, and the
listener goes with the connections it has not accepted; the pool closes: it gives
nobody a connection any more and waits for those that are out. Then `main`
returns and the runtime drops every task. `RequestService` says what a client and
the database may rely on: `RequestOf` maps a task's phase to the state of its
request.

### ChatQueries and ChatList

`find_users_chats` makes two temporary tables and drops them again, on one pooled
connection, outside a transaction. Each of its five statements is an action, and
messages are inserted between them. `StatementFails` is the `?` behind each: the
connection goes back to the pool with its tables, which stay until it is closed.
The names of the tables carry a fresh uuid, so they are named by their call. The
mock's queries are operators on the rows in the order of their inserts, to be
compared with those of `MessageStore`. The answer of
`fetch_last_messages_in_chat`, newest first in both stores, is read oldest first
in the modules, as `messages_json` turns it round.

The page is opened, and opened again (`OpenPage`), with the list that
`chat_page` puts into it: what the query answers for some state of the table up to
then, so that more messages may have come since. In the page,
`moveChatToTop` moves the element of a chat, or fetches it and
inserts it when it comes (`ChatArrives`), into whatever the list is by then. The
search button replaces the list. `overlapped` is a history variable: the chats
whose element was on its way while another answer with that chat was.

### FormData

One step per call of serde's visitor: `NextKey` reads up to the first `=`,
`NextValue` up to the next `&` or the end. A text is a sequence of tokens, one of
them for each percent escape. Inputs are what a browser serializes from a form
(`Serialize`, modelled from how the pages use it) and every other text up to a
length. The tables of unsupported types (`de_unsupported`) are not modelled: the
program's structs hold strings and optional strings only.

## 3. What is checked

| Run | Instance | Shows |
|---|---|---|
| `sub_shared` | two subscriptions of one user, two messages (one to oneself, equal timestamps), capacity 1 | `NoOrphanedReceiver`, `NoDuplicates`, `NothingMissed`, `CutOffOnlyWhenLagging` |
| `reconnect_other` | a page with one connection, a subscription of another user, a message to her and one to herself with equal timestamps, capacity 1 | `NothingMissed` on both sides, `OnlyOwnMessages` |
| `reconnect` | a page with two connections, one message each way, the later one with the earlier timestamp, capacity 1; fair | `NoGap`, `OnlyRowsRepeat`, `EventuallySeen`, `EventuallyReclaimed` |
| `pipeline` | three tasks, one row of history, three more messages of two kinds; fair | `NothingStranded`, `ImplementsEventStream`, `EventuallyReleased` |
| `accounts` | three requests of any kind, a name in two cases and another name, two passwords; fair | `UsernamesDiffer`, `SessionsEarned`, `AuthorsAuthentic`, `SignedUpCanLogIn`, `EventuallyAnswered` |
| `server` | two connections, a pool of one, a route without steps, one that writes, one that writes twice and a stream; fair | `StatementsFinish`, `EffectsEarned`, `ImplementsRequestService`, `EventuallyServed`, `EventuallyExits` |
| `chat_patient` | two chats, three messages in one (two at the same time) and one in the other, pages of one message, one fetch at a time | `ShownInChat`, `NoHoles`, `NoMoreMeansAll` |
| `chats` | two partners, three messages, one call of `find_users_chats`, two fetches at a time | `ChatsAsOfStart`, `LeftoversOnlyFromFailures`, `MockAgrees`, `TwiceOnlyWhenOverlapping` |
| `forms` | two structs, every form of up to two fields with values of up to two characters, signs included; every other text of up to seven tokens | `RoundTrip`, `AgreesWithStandard` |
| `sub_recipient` | *violated*: `RecipientHears` | finding 1 |
| `accounts_sigma` | *violated*: `SignedUpCanLogIn` | finding 2 |
| `chat_switch` | *violated*: `ShownInChat` with two fetches at a time | finding 3 |

Each passing run but `reconnect_other` also checks its module's type invariant, and
that carries a condition that is more than a type: no
receiver is ahead of its channel, a stream is only let go of empty, the lock is
held by a sign up at work, no request is both answered and not, a page has got no
more than was sent, a pooled connection is held by a step that uses it, no two
calls work on one connection, the parser stands behind a sign. No run uses
symmetry where it checks liveness, and none needs it.

Why the bounds are enough to be interesting. With a capacity of 1, two
messages make a receiver lag; two subscriptions of one user share a channel, or
follow each other with the cleanup job in between; messages 1 and 2 cross with
timestamps against the order of their ids, 2 and 3 are told apart by the id only.
Two connections are one that is lost and one that follows, with both on the
server at a time; two messages are one before and one after the loss, and the
second may have the earlier timestamp. A subscription of somebody else beside
them shows what the two users do to each other; a third subscription of either
puts the instance beyond twenty million states, so the whole crossing of two
users with two subscriptions each is left to the theorems. Three
requests are two sign ups of one name and a log in, or a sign up, a logout and a
message that race. Three tasks are the longest chain there is. A page
of one message makes every load a page edge, with a tie at one of them. Two
connections to the server with a pool of one make a handler wait for another's
statement, at shutdown as well; the four routes have every kind of step. One call
and one pooled connection keep what a failed call left behind; a second call
puts the instance beyond three million states, so calls beside and after each
other are left to the theorems. Two messages to
one partner with one to another between them put that partner in both groupings
and the other one on either side. Texts of seven tokens hold two pieces
with a sign too many. `MaxAccepted` bounds the messages of `Pipeline`,
`MaxPending` the fetches of `ChatPage`, `MaxFetches` those of `ChatList`, which
also has one request of the search button at a time; the other modules are
bounded by their finite sets of ids. That
each run could fail is shown by the mutants: for each of its properties one
wrong variant of a definition makes TLC find it violated. `server`, `forms` and
`chats` do not look for deadlocks: there the process has exited, the text is
read, the calls are done.

Fairness. Weak fairness of each task's steps together: the tokio runtime polls
every task that is ready, and a `select!` picks its branches in random order, so
a branch that stays ready is taken. The query of a subscription and the
statements of a request are answered or fail. The cleanup timer fires again and
again. A client that closes is noticed by the read, one that vanished by the
hourly keep-alive; hence `Notice` of `Reconnect` is fair. An EventSource connects
again and hands over what arrives: the browser's part. A connection that has been
made is accepted, since only finitely many others are. Nobody has to send,
subscribe, leave, sign up, come back, send the rest of a request, or read its
answer; a client of `HttpServer` that does not read keeps its own task, which
`AwaitsClient` names. The fairness of `StreamStep` in `Pipeline` and of `OnMessage`
in `Reconnect` does say that a connected EventSource reads what it is sent, which
is what a browser does as long as its page is open; one that stays without reading would hold its
own chain of tasks until it leaves. The signal
need not come, and a failing connection, a `Restart` or a failing query is never
required. The disjuncts of `Task` in `HttpServer` that only a client's leaving,
sending or reading makes due are fair from then on.

### Findings

1. `handle_new_message` returns at the author's unused channel
   (`subscriptions_handler.rs:39-43`): for up to five seconds after an
   author's last reader left, what the author sends is not announced to
   recipients who listen. They see it after a reload.
2. A name that Rust and Postgres lower differently, such as one ending in a
   capital sigma, can be signed up but not logged in to (`postgres-db/src/lib.rs:139`),
   and can be signed up again by another case of it.
3. `loadMessages` takes any answer for that of the current chat
   (`chat.html:66`). A user opens a chat, then another; the second answer comes
   before the first: the first chat's messages stand under the second chat. That
   is the run's trace. `loadMoreOldMessages` (`chat.html:108`) does not look at
   the chat either, and breaks the same property in more steps: a user asks for
   older messages and opens another chat, which is loaded before the answer is
   there.

Not findings, for nothing in the repository says otherwise, but worth knowing; the
properties name them as their exceptions. A page that comes back asks for what is
after its last event, so a message with an earlier timestamp that was stored later
is passed over (`NoGap`). A receiver that lags ends its subscription, where the
comment in `async_utils.rs:74` only thinks of a dropped sender
(`CutOffOnlyWhenLagging`). A message to an unknown chat that comes while the
element of that chat is being fetched puts it into the list twice
(`TwiceOnlyWhenOverlapping`). A call of `find_users_chats` that fails leaves its
tables on the pooled connection (`LeftoversOnlyFromFailures`). A query string that
ends with an empty field is refused (`RoundTrip`). An answer may be lost at
shutdown although its statements were run (`ImplementsRequestService` allows it).

## 4. What is proved

All theorems hold for any constants that satisfy the named assumptions of the
modules: `MessageAssumption` (ids are numbers, finitely many),
`SubscriptionAssumption`, `ReconnectAssumption` (a page's connections are its
user's), `PipelineAssumption`, `AccountsAssumption`, `ServerAssumption` (a pool
has a connection, there are finitely many clients), `QueriesAssumption`,
`ListAssumption` (the answer to a search names each user once: the ids are the
primary key of the table `users`), `ChatPageAssumption`, `FormAssumption` (a letter is no
sign and no escape, a form has each name once).

- `SubscriptionsHandler_proofs`: `TypeCorrect`, `RegisteredCorrect`,
  `NoDuplicatesCorrect`, `OnlyOwnCorrect`, `NothingMissedCorrect`,
  `CutOffCorrect`. The inductive invariant `IInv` is the type invariant with
  `NoOrphanedReceiver`, `ChannelInv` (a channel of the map belongs to its user, a
  channel carries a message at most once and only messages that have been sent to
  its user, a message is handled after it is stored), `ReaderInv` (nothing is sent
  before the query returns, what was forwarded stands in the part of the channel
  already read; `NoDuplicates` and `OnlyOwnMessages` are its last two conjuncts) and
  `CoverageInv` (a message that is owed and was not a row when the subscription
  started is delivered, or unread in the receiver, from before the query on; a row of then that
  comes after the starting point is in the history). `NothingMissed` alone
  is not inductive: it says nothing of a subscription that is still fetching,
  where a message is not yet in either list but sure to come by one.
- `Pipeline_proofs`: `TypeCorrect`, `NothingStrandedCorrect`, for any number of
  tasks. A task has stopped before the end only if all tasks before it have and
  their channels are empty, since a receiver is only dropped by the task behind.
  `StreamsAsPromised`: the whole safety half of `ImplementsEventStream`. `Divided`
  says that the events of the stream can be cut so that each channel holds the part between
  two cuts and the client was written what is before the last; passing on moves a cut by one, and each
  step is a step of `EventStream` or a stutter (`Simulates`).
- `Accounts_proofs`: `TypeCorrect`, `SessionsEarnedCorrect`, `AuthorsCorrect`,
  and, where `DbLower = Lower`, `UsernamesDifferCorrect` and
  `SignedUpCanLogInCorrect`. `Rows` says that rows and passwords are written once and by
  their own sign up; hence whoever has opened a session has done so for good (`OpenedForGood`);
  `Credentials` carries that from the check of the password through the session
  to the author of a message. `Locked` carries the answer of the check to the insert: only
  the holder of the lock is between them.
- `Reconnect_proofs`: `PageImplements`, `NoGapCorrect`, `OnlyRowsRepeatCorrect`.
  A step of the page and its server is a step of `SubscriptionsHandler` or none
  (`PageStep`), so that all the theorems of `SubscriptionsHandler_proofs` hold of
  every connection. `NoGap` follows from `NothingMissed` and `PassedInv`: a row that
  a connection found was passed over or comes after its starting point. For
  `OnlyRowsRepeat`, `RepeatInv` says that a message the page has seen, and that is
  no row of any query, has been sent to its user for good and is neither on its way
  nor unread in the channel; a message is sent on a channel once, so it cannot get
  there again, and a new connection reads its channel from its end.
- `HttpServer_proofs`: `TypeCorrect`, `StatementsFinishCorrect`,
  `ServerImplements`, `EffectsEarnedCorrect`, for any number of connections, any
  routes and any pool. The size of the pool is an induction over the steps that
  take or return a connection (`OneMoreHolder`, `FewerHolders`). `ProcessInv` says
  that a closed pool has no connection in use and that an exited process has no
  connection left; with it every step of the server is a step of `RequestService` or
  a stutter (`RequestNext`), which is the whole refinement, for `RequestService` promises safety
  only. `EarnedInv` follows a request through its steps: past the step that reads
  the body it was received whole, and only then come the statements.

- `ChatList_proofs`: `TypeCorrect`, `ChatsAsOfStartCorrect`, `LeftoversCorrect`,
  `TwiceCorrect`, `MockAgreesCorrect`, for any number of users, calls, connections and
  fetches. `Answers` says what
  each statement has made of the rows there were at the first, and `ChatsOf` that two
  groupings, grouped again, have each partner once, in the order of the latest message.
  `LeftoversOnlyFromFailures` needs `Dropped`: a call has no table but those of its phase.
  `OneElement` says of a chat that is not marked that it stands in the list at most once
  and not at all while it is being fetched; the count alone says nothing of the element that is still
  to come, so it is not inductive. `MockAgrees` follows from the types alone: rows that
  were inserted in the order of their timestamps are let through a filter in that order
  (`FilteredFacts`, from `ListExists`: a finite set of numbers can be listed), a message comes
  after another exactly if its row does (`PlaceOfRow`), and the last row with each partner
  stands for that partner's row in the grouped table (`ChatsAgree`).
- `ChatPage_proofs`: `TypeCorrect` and `OwnOnlyCorrect` (the page shows stored
  messages of its user only) for any number of fetches at a time; `ShownInChatCorrect`,
  `NoHolesCorrect` and `NoMoreMeansAllCorrect` where `MaxPending = 1`, for with two finding 3
  shows otherwise. `RequestInv` says that the request under way, or its answer, is about the
  chat that is open and about the message that is first on the page (`RequestFits`,
  `AnswerFits`); `ShownInv` that a chat that has been loaded
  is shown with messages of its own only, and that a message of the
  baseline is shown or comes before the first one shown (`Reached`). `OneAtATime` is where
  the bound is used: there is one request or one answer, or none.
- `FormData_proofs`: `TypeCorrect`, `AgreesWithStandardCorrect`,
  `RoundTripCorrect`, for texts and forms of any length. `Cut` says that what is left
  is the end of the text. `Parsed` says how far the parser has got with a text whose
  pieces all have their `=`: the pieces it has passed are the fields it has (`Filled`), and
  between a key and its value it is inside one piece (`Inside`). For that `KeyText` and
  `ValueText` show that the parser, which looks for the `=` first, cuts where the
  standard does. For `RoundTrip`, `SerializeLayout` says where in the text each
  pair of the form stands, `PlaceIsPiece` and `PieceIsPlace` that the pairs are the
  pieces, `EncodeFacts` that decoding undoes encoding, `LastValue` that only a last
  piece without a value stops the parser.

Induction over sequences and numbers is done with a least counterexample (`Least`,
from the well-foundedness of `<` on the naturals), since the induction theorems of the
library take an operator as their parameter.

Only model-checked: all liveness, which is out of the prover's reach, and with it the
fairness of `ImplementsEventStream`.

## 5. What is not modelled

- The text of requests, headers, cookies, JSON and templates: a head is
  a choice of route, what is in it a choice of the checks that fail.
- `de_unsupported` of the form data deserializer: no struct of the program gets there.
- Locks that are poisoned by a panic: nothing panics while holding one.
- Users and passwords of the mock database, and a server run with `--mock`: each
  operation is one atomic step, and there is no pool to close.
- Migrations: sqlx's own. `check_migrations` is one of the ways a start fails.
- The reply box: it holds one text and is emptied after the answer, whatever that
  was (`chat.html:251`).

## 6. Plan

Done, in this order: `MessageStore`, `SubscriptionsHandler` and its proofs;
`EventStream`, `Pipeline` and its invariants; `Accounts` and its proofs;
`ChatPage`; the findings as runs; `Reconnect`, `HttpServer`, `ChatList` with
`ChatQueries`, `FormData`; the proofs of `Reconnect` and `HttpServer`; the safety half of
`ImplementsEventStream`; the proofs of `ChatList`, `ChatPage` and `FormData`.

Every safety property that a passing run checks is also a theorem. Left: the
hazards without a property (a message that comes while its chat is being loaded,
`chat.html:66`; the reply box, `chat.html:251`; a committed insert that reports an error,
`messenger.rs:83`), and a theorem
that says when finding 1 cannot happen, as `SignedUpCanLogInCorrect` does for finding 2 and
`ShownInChatCorrect` for finding 3.
