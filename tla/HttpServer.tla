----------------------------- MODULE HttpServer -----------------------------
(***************************************************************************)
(* The server process: bin/server's main over a Postgres pool, the accept  *)
(* loop of lib/http-server, one task per connection that reads a request,  *)
(* runs its handler and writes the answer, and the task that closes the    *)
(* pool when the shutdown signal has come.                                 *)
(*                                                                         *)
(* A connection carries one request.  What its client sends is the head,   *)
(* then the body; it may stop anywhere, it may leave, and it may stay      *)
(* without reading its answer.                                             *)
(***************************************************************************)
EXTENDS Handlers, FiniteSets

CONSTANTS
  Connection,
  Asked,       (* the routes the clients ask for                           *)
  PoolSize,    (* max_connections of the pool                              *)
  NoRoute, NoAnswer

ASSUME ServerAssumption ==
  /\ Asked \subseteq Routes
  /\ PoolSize \in Nat \ {0}
  /\ NoRoute \notin Routes
  /\ NoAnswer \notin Answer
  /\ IsFiniteSet(Connection)

VARIABLES
  main,        (* how far main has got                                     *)
  cancelled,   (* the cancellation token                                   *)
  pool,        (* the pool of database connections                         *)
  phase,       (* how far the server has got with each connection          *)
  sent,        (* how much the client has sent                             *)
  left,        (* whether it has closed the connection                     *)
  takes,       (* whether it reads the answer that is being written        *)
  route,       (* the handler of the request                               *)
  step,        (* the next of its steps                                    *)
  answer,      (* the response it has come to                              *)
  queries      (* the uses of the database so far (history only)           *)

clientVars == <<sent, left, takes>>
handlerVars == <<route, step, answer, queries>>
processVars == <<main, cancelled, pool>>
vars == <<processVars, phase, clientVars, handlerVars>>

Phase ==
  {"none",        (* not connected                                         *)
   "backlog",     (* connected, not accepted                               *)
   "reading",     (* in try_from_stream                                    *)
   "handling",    (* in the handler, before a step                         *)
   "querying",    (* in a step that holds a pooled connection              *)
   "responding",  (* in respond                                            *)
   "streaming",   (* in the task of the event stream                       *)
   "closed",      (* the server is done with it                            *)
   "cut"}         (* it was not when the process or the listener ended     *)

AtStep(c) == Handler[route[c]].steps[step[c]]

(* Mutant: a handler takes its connection when it starts.                  *)
HoldersThroughout == {c \in Connection : phase[c] \in {"handling", "querying"}}

(* The pooled connections in use.                                          *)
Holders == {c \in Connection : phase[c] = "querying"}

(* Nobody has more than the pool, a handler is at a step it has, and only  *)
(* a step that uses the database holds a connection.                       *)
TypeOK ==
  /\ main \in {"starting", "binding", "serving", "waiting", "exited"}
  /\ cancelled \in BOOLEAN
  /\ pool \in {"open", "closing", "closed"}
  /\ phase \in [Connection -> Phase]
  /\ sent \in [Connection -> {"nothing", "head", "all"}]
  /\ left \in [Connection -> BOOLEAN]
  /\ takes \in [Connection -> BOOLEAN]
  /\ route \in [Connection -> Routes \cup {NoRoute}]
  /\ step \in [Connection -> Nat]
  /\ answer \in [Connection -> Answer \cup {NoAnswer}]
  /\ queries \in [Connection -> Nat]
  /\ \A c \in Connection :
       /\ phase[c] \in {"handling", "querying"} =>
            route[c] # NoRoute /\ step[c] \in DOMAIN Handler[route[c]].steps
       /\ phase[c] = "querying" => AtStep(c).does \in {"query", "optional"}
       /\ phase[c] = "responding" => answer[c] # NoAnswer
  /\ Cardinality(Holders) <= PoolSize

Init ==
  /\ main = "starting"
  /\ cancelled = FALSE
  /\ pool = "open"
  /\ phase = [c \in Connection |-> "none"]
  /\ sent = [c \in Connection |-> "nothing"]
  /\ left = [c \in Connection |-> FALSE]
  /\ takes = [c \in Connection |-> FALSE]
  /\ route = [c \in Connection |-> NoRoute]
  /\ step = [c \in Connection |-> 0]
  /\ answer = [c \in Connection |-> NoAnswer]
  /\ queries = [c \in Connection |-> 0]

-----------------------------------------------------------------------------
(* The clients.                                                            *)

Connect(c) ==
  /\ main = "serving"
  /\ phase[c] = "none"
  /\ phase' = [phase EXCEPT ![c] = "backlog"]
  /\ UNCHANGED <<processVars, clientVars, handlerVars>>

Connected(c) == phase[c] \notin {"none", "closed", "cut"}

SendHead(c) ==
  /\ Connected(c) /\ ~left[c]
  /\ sent[c] = "nothing"
  /\ sent' = [sent EXCEPT ![c] = "head"]
  /\ UNCHANGED <<processVars, phase, left, takes, handlerVars>>

SendBody(c) ==
  /\ Connected(c) /\ ~left[c]
  /\ sent[c] = "head"
  /\ sent' = [sent EXCEPT ![c] = "all"]
  /\ UNCHANGED <<processVars, phase, left, takes, handlerVars>>

Leave(c) ==
  /\ Connected(c) /\ ~left[c]
  /\ left' = [left EXCEPT ![c] = TRUE]
  /\ takes' = [takes EXCEPT ![c] = FALSE]
  /\ UNCHANGED <<processVars, phase, sent, handlerVars>>

(* It reads what respond writes, to the end or until it leaves.            *)
TakeAnswer(c) ==
  /\ phase[c] = "responding" /\ answer[c] # "eventSource"
  /\ ~left[c] /\ ~takes[c]
  /\ takes' = [takes EXCEPT ![c] = TRUE]
  /\ UNCHANGED <<processVars, phase, sent, left, handlerVars>>

-----------------------------------------------------------------------------
(* run_server: the accept loop and the tasks it spawns.                    *)

(* The branches of select! are tried in random order: a connection may be  *)
(* accepted although the token is cancelled.                               *)
Accept(c) ==
  /\ main = "serving"
  /\ phase[c] = "backlog"
  /\ phase' = [phase EXCEPT ![c] = "reading"]
  /\ UNCHANGED <<processVars, clientVars, handlerVars>>

(* The listener is dropped at the end of the loop.                         *)
StopAccepting ==
  /\ main = "serving"
  /\ cancelled
  /\ main' = "waiting"
  /\ phase' = [c \in Connection |-> IF phase[c] = "backlog" THEN "cut" ELSE phase[c]]
  /\ UNCHANGED <<cancelled, pool, clientVars, handlerVars>>

(* The handler of route r, before step i or past the last one.             *)
GoTo(c, r, i) ==
  /\ step' = [step EXCEPT ![c] = i]
  /\ IF i \in DOMAIN Handler[r].steps
     THEN /\ phase' = [phase EXCEPT ![c] = "handling"]
          /\ UNCHANGED answer
     ELSE /\ phase' = [phase EXCEPT ![c] = "responding"]
          /\ answer' = [answer EXCEPT ![c] = Handler[r].answer]

(* try_from_stream reads the head and route finds the handler.             *)
ReadHead(c) ==
  /\ phase[c] = "reading"
  /\ sent[c] # "nothing"
  /\ \E r \in Asked :
       /\ route' = [route EXCEPT ![c] = r]
       /\ GoTo(c, r, 1)
  /\ UNCHANGED <<processVars, clientVars, queries>>

(* Mutant: the end of the stream is taken for an empty line of the head.   *)
ReadHeadFailsUnlessEnded(c) ==
  /\ phase[c] = "reading"
  /\ sent[c] # "nothing"
  /\ phase' = [phase EXCEPT ![c] = "closed"]
  /\ UNCHANGED <<processVars, clientVars, handlerVars>>

(* The head is malformed, or the connection ends or fails before it does:  *)
(* the task returns without an answer.                                     *)
ReadHeadFails(c) ==
  /\ phase[c] = "reading"
  /\ sent[c] # "nothing" \/ left[c]
  /\ phase' = [phase EXCEPT ![c] = "closed"]
  /\ UNCHANGED <<processVars, clientVars, handlerVars>>

(* A step that fails is an early return with its answer.                   *)
ReturnEarly(c) ==
  /\ phase' = [phase EXCEPT ![c] = "responding"]
  /\ answer' = [answer EXCEPT ![c] = AtStep(c).otherwise]
  /\ UNCHANGED <<processVars, clientVars, route, step, queries>>

Check(c) ==
  /\ phase[c] = "handling"
  /\ AtStep(c).does \in {"check", "authorize"}
  /\ GoTo(c, route[c], step[c] + 1)
  /\ UNCHANGED <<processVars, clientVars, route, queries>>

CheckFails(c) ==
  /\ phase[c] = "handling"
  /\ AtStep(c).does \in {"check", "authorize"}
  /\ ReturnEarly(c)

(* read_exact waits for the whole of Content-Length.                       *)
ReadBody(c) ==
  /\ phase[c] = "handling"
  /\ AtStep(c).does = "body"
  /\ sent[c] = "all"
  /\ GoTo(c, route[c], step[c] + 1)
  /\ UNCHANGED <<processVars, clientVars, route, queries>>

(* No Content-Length or none that is a number, no UTF-8, or the stream     *)
(* ends before the body.                                                   *)
ReadBodyFails(c) ==
  /\ phase[c] = "handling"
  /\ AtStep(c).does = "body"
  /\ ReturnEarly(c)

-----------------------------------------------------------------------------
(* The pool, as sqlx's Pool keeps it.                                      *)

(* Mutant: the connection is taken before the body is read.                *)
NeedsQueryEarly(c) ==
  phase[c] = "handling" /\ AtStep(c).does \in {"query", "optional", "body"}

NeedsQuery(c) ==
  phase[c] = "handling" /\ AtStep(c).does \in {"query", "optional"}

(* subscribe_new_messages without a starting point asks nothing.           *)
SkipQuery(c) ==
  /\ NeedsQuery(c)
  /\ AtStep(c).does = "optional"
  /\ GoTo(c, route[c], step[c] + 1)
  /\ UNCHANGED <<processVars, clientVars, route, queries>>

(* Mutant: a connection is handed out whether the pool is closing or not.  *)
AcquireAnyway(c) ==
  /\ NeedsQuery(c)
  /\ Cardinality(Holders) < PoolSize
  /\ phase' = [phase EXCEPT ![c] = "querying"]
  /\ queries' = [queries EXCEPT ![c] = @ + 1]
  /\ UNCHANGED <<processVars, clientVars, route, step, answer>>

Acquire(c) ==
  /\ NeedsQuery(c)
  /\ pool = "open"
  /\ Cardinality(Holders) < PoolSize
  /\ phase' = [phase EXCEPT ![c] = "querying"]
  /\ queries' = [queries EXCEPT ![c] = @ + 1]
  /\ UNCHANGED <<processVars, clientVars, route, step, answer>>

(* The pool is closed, or all its connections have been in use for as long *)
(* as acquire waits.                                                       *)
AcquireFails(c) ==
  /\ NeedsQuery(c)
  /\ pool # "open" \/ Cardinality(Holders) >= PoolSize
  /\ ReturnEarly(c)

(* The statements return and the connection goes back to the pool.         *)
QueryEnds(c) ==
  /\ phase[c] = "querying"
  /\ GoTo(c, route[c], step[c] + 1)
  /\ UNCHANGED <<processVars, clientVars, route, queries>>

QueryFails(c) == phase[c] = "querying" /\ ReturnEarly(c)

-----------------------------------------------------------------------------
(* Request::respond.                                                       *)

(* write_all and shutdown return when the client has read what there is to *)
(* write, or with an error when it has left.  Of a client that does        *)
(* neither they may, as the socket has buffers, but an answer need not fit *)
(* into them.  An event stream is not written here: its task does that.    *)
Respond(c) ==
  /\ phase[c] = "responding"
  /\ phase' = [phase EXCEPT ![c] =
                 IF answer[c] = "eventSource" THEN "streaming" ELSE "closed"]
  /\ takes' = [takes EXCEPT ![c] = FALSE]
  /\ UNCHANGED <<processVars, sent, left, handlerVars>>

(* The client leaves, or the stream of events ends (Pipeline.tla).         *)
StreamEnds(c) ==
  /\ phase[c] = "streaming"
  /\ phase' = [phase EXCEPT ![c] = "closed"]
  /\ UNCHANGED <<processVars, clientVars, handlerVars>>

-----------------------------------------------------------------------------
(* main, make_cancellation_token and Db::graceful_shutdown.                *)

(* The signal, or an error of waiting for it.                              *)
Cancel ==
  /\ main # "exited"
  /\ ~cancelled
  /\ cancelled' = TRUE
  /\ UNCHANGED <<main, pool, phase, clientVars, handlerVars>>

(* Db::new and check_migrations; graceful_shutdown spawns its task.        *)
Start ==
  /\ main = "starting"
  /\ main' = "binding"
  /\ UNCHANGED <<cancelled, pool, phase, clientVars, handlerVars>>

Bind ==
  /\ main = "binding"
  /\ main' = "serving"
  /\ UNCHANGED <<cancelled, pool, phase, clientVars, handlerVars>>

(* The end of main drops the runtime and with it every task: a stream of   *)
(* events ends there, any other request goes without its answer.           *)
Stop ==
  /\ main' = "exited"
  /\ phase' = [c \in Connection |->
                 CASE phase[c] = "streaming" -> "closed"
                   [] Connected(c) /\ phase[c] # "streaming" -> "cut"
                   [] OTHER -> phase[c]]
  /\ UNCHANGED <<cancelled, pool, clientVars, handlerVars>>

(* No database, a schema of another version, or an address in use.         *)
StartFails == main \in {"starting", "binding"} /\ Stop

(* The task of graceful_shutdown: close lets nobody acquire any more.      *)
ClosePool ==
  /\ main \notin {"starting", "exited"}
  /\ cancelled
  /\ pool = "open"
  /\ pool' = "closing"
  /\ UNCHANGED <<main, cancelled, phase, clientVars, handlerVars>>

(* close returns when every connection has been given back.                *)
PoolClosed ==
  /\ main # "exited"
  /\ pool = "closing"
  /\ Holders = {}
  /\ pool' = "closed"
  /\ UNCHANGED <<main, cancelled, phase, clientVars, handlerVars>>

(* Mutant: main does not wait for the task of graceful_shutdown.           *)
ExitAtOnce == main = "waiting" /\ Stop

Exit == main = "waiting" /\ pool = "closed" /\ Stop

-----------------------------------------------------------------------------
Client(c) == Connect(c) \/ SendHead(c) \/ SendBody(c) \/ Leave(c) \/ TakeAnswer(c)

Database(c) ==
  SkipQuery(c) \/ Acquire(c) \/ AcquireFails(c) \/ QueryEnds(c) \/ QueryFails(c)

(* The write of respond does not wait, or no longer.                       *)
Writable(c) == answer[c] = "eventSource" \/ takes[c] \/ left[c]

(* The steps of a connection's task that are due: a body that is still to  *)
(* come may come, or be refused before it does, and an answer that nobody  *)
(* reads may be written, or not.                                           *)
Task(c) ==
  \/ ReadHead(c) \/ ReadHeadFails(c)
  \/ Check(c) \/ CheckFails(c)
  \/ ReadBody(c) \/ ((sent[c] = "all" \/ left[c]) /\ ReadBodyFails(c))
  \/ Database(c)
  \/ (Writable(c) /\ Respond(c))
  \/ (left[c] /\ StreamEnds(c))

Process == Start \/ Bind \/ StartFails \/ StopAccepting \/ ClosePool \/ PoolClosed \/ Exit

Next ==
  \/ Cancel
  \/ Process
  \/ \E c \in Connection :
       Client(c) \/ Accept(c) \/ Task(c) \/ ReadBodyFails(c) \/ Respond(c) \/ StreamEnds(c)

(* The runtime polls what is ready, the database answers or fails.  No     *)
(* client has to send anything, to read its answer or to leave, no signal  *)
(* has to come, and there are finitely many connections to accept after    *)
(* one.                                                                    *)
Fairness ==
  /\ WF_vars(Process)
  /\ \A c \in Connection : WF_vars(Accept(c)) /\ WF_vars(Task(c))

SafetySpec == Init /\ [][Next]_vars

Spec == SafetySpec /\ Fairness

-----------------------------------------------------------------------------
(* The process does not go down in the middle of a statement.  What a      *)
(* handler has come to after it may still be lost.                         *)
StatementsFinish == [][main' = "exited" => Holders = {}]_vars

(* A row is only written for a request that was received whole, and then   *)
(* the client is not told that it sent something wrong.                    *)
EffectsEarned ==
  \A c \in Connection :
    route[c] \in Writing /\ queries[c] > 0 =>
      /\ sent[c] = "all"
      /\ answer[c] \notin {"badRequest", "redirect"}

(* What a connection's request is to its client.                           *)
RequestOf(c) ==
  CASE phase[c] = "none" -> "none"
    [] phase[c] \in {"backlog", "reading", "handling", "responding"} -> "open"
    [] phase[c] = "querying" -> "acting"
    [] phase[c] = "streaming" -> "answered"
    [] phase[c] = "closed" /\ answer[c] # NoAnswer -> "answered"
    [] OTHER -> "dropped"

(* The tasks, the pool and main together keep the promise of a request     *)
(* service.                                                                *)
Service == INSTANCE RequestService WITH
  up <- main # "exited",
  request <- [c \in Connection |-> RequestOf(c)]

ImplementsRequestService == Service!Spec

(* The task waits for its client to send more, or to read.                 *)
AwaitsClient(c) ==
  /\ ~left[c]
  /\ \/ phase[c] = "reading" /\ sent[c] = "nothing"
     \/ phase[c] = "handling" /\ AtStep(c).does = "body" /\ sent[c] # "all"
     \/ phase[c] = "responding" /\ ~Writable(c)
     \/ phase[c] = "streaming"

(* In the end the server is done with every connection but those whose     *)
(* clients keep it waiting: a client that stays silent, or that does not   *)
(* read its answer, keeps its own task and holds up no other, and one that *)
(* leaves holds up nothing at all.                                         *)
EventuallyServed ==
  <>[](\A c \in Connection : Connected(c) => AwaitsClient(c))

(* Once the signal has come the process exits, whatever its clients do.    *)
EventuallyExits == cancelled ~> main = "exited"
=============================================================================
