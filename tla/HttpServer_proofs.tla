-------------------------- MODULE HttpServer_proofs --------------------------
(***************************************************************************)
(* What HttpServer guarantees for any number of connections, whichever     *)
(* routes they ask for, and a pool of any size.                            *)
(***************************************************************************)
EXTENDS HttpServer, FiniteSetTheorems, TLAPS

(* Every handler ends in an answer, and so does every early return.        *)
LEMMA HandlerAnswers ==
  ASSUME NEW r \in Routes
  PROVE  /\ Handler[r].answer \in Answer
         /\ \A i \in DOMAIN Handler[r].steps : Handler[r].steps[i].otherwise \in Answer
         /\ DOMAIN Handler[r].steps \subseteq Nat
<1> USE DEF Answer
<1>1. r \in {"main", "login", "signupPage", "chat", "signup", "authorize", "logout", "message",
             "subscribe", "chats", "chatsearch", "chatHtml", "messages", "tool", "favicon", "other"}
  BY DEF Routes, Handler
<1>2. CASE r \in {"main", "login", "signupPage", "tool", "favicon", "other"}
  BY <1>2 DEF Handler, Main, LoginPage, SignupPage, EventSourceTool, Favicon, NoSuchRoute
<1>3. CASE r = "chat"
  BY <1>3 DEF Handler, Chat, Authorized, Query, Found
<1>4. CASE r = "signup"
  BY <1>4 DEF Handler, Signup, Body, Parse, Query, Found
<1>5. CASE r = "authorize"
  BY <1>5 DEF Handler, Authorize, Body, Parse, Query, Found
<1>6. CASE r = "logout"
  BY <1>6 DEF Handler, Logout, Parse
<1>7. CASE r = "message"
  BY <1>7 DEF Handler, SendMessage, Parse, Authorized, Body, Query
<1>8. CASE r = "subscribe"
  BY <1>8 DEF Handler, SubscribeNewMessages, Authorized, Parse, QueryIfAny
<1>9. CASE r = "chats"
  BY <1>9 DEF Handler, ChatsHtml, Authorized, Query
<1>10. CASE r = "chatsearch"
  BY <1>10 DEF Handler, ChatSearch, Parse, Query
<1>11. CASE r = "chatHtml"
  BY <1>11 DEF Handler, ChatHtml, Parse, Query
<1>12. CASE r = "messages"
  BY <1>12 DEF Handler, MessagesJson, Parse, Authorized, Query
<1> QED
  BY <1>1, <1>2, <1>3, <1>4, <1>5, <1>6, <1>7, <1>8, <1>9, <1>10, <1>11, <1>12

-----------------------------------------------------------------------------
(* Types.                                                                  *)

(* TypeOK without the size of the pool.                                    *)
StateType ==
  /\ main \in {"starting", "binding", "serving", "waiting", "exited"}
  /\ cancelled \in BOOLEAN
  /\ pool \in {"open", "closing", "closed"}
  /\ phase \in [Connection -> Phase]
  /\ sent \in [Connection -> {"nothing", "head", "all"}]
  /\ left \in [Connection -> BOOLEAN]
  /\ takes \in [Connection -> BOOLEAN]
  /\ route \in [Connection -> Routes \cup {NoRoute}]
  /\ step \in [Connection -> Nat]
  /\ answer \in [Connection -> Answer \cup {NoAnswer}]
  /\ queries \in [Connection -> Nat]

HandlerType ==
  \A c \in Connection :
    /\ phase[c] \in {"handling", "querying"} =>
         route[c] # NoRoute /\ step[c] \in DOMAIN Handler[route[c]].steps
    /\ phase[c] = "querying" => AtStep(c).does \in {"query", "optional"}
    /\ phase[c] = "responding" => answer[c] # NoAnswer

LEMMA TypeParts ==
  TypeOK <=> StateType /\ HandlerType /\ Cardinality(Holders) <= PoolSize
BY DEF TypeOK, StateType, HandlerType

(* The handler goes on to a step it has, or comes to its answer.           *)
LEMMA GoToType ==
  ASSUME StateType, HandlerType, NEW c \in Connection, NEW r \in Routes, NEW i \in Nat,
         GoTo(c, r, i), route' = [route EXCEPT ![c] = r],
         UNCHANGED <<processVars, clientVars>>, queries' = queries
  PROVE  StateType' /\ HandlerType'
<1> USE ServerAssumption
<1>1. StateType'
  BY HandlerAnswers DEF StateType, GoTo, processVars, clientVars, Phase
<1>2. ASSUME NEW d \in Connection, d # c
      PROVE  /\ phase'[d] = phase[d] /\ route'[d] = route[d] /\ step'[d] = step[d]
             /\ answer'[d] = answer[d]
  BY <1>2 DEF StateType, GoTo
<1>3. /\ route'[c] = r /\ step'[c] = i
      /\ i \in DOMAIN Handler[r].steps => phase'[c] = "handling"
      /\ i \notin DOMAIN Handler[r].steps => phase'[c] = "responding" /\ answer'[c] # NoAnswer
  BY HandlerAnswers DEF StateType, GoTo
<1>4. r # NoRoute
  OBVIOUS
<1> QED BY <1>1, <1>2, <1>3, <1>4 DEF HandlerType, AtStep

(* An early return comes to an answer.                                     *)
LEMMA ReturnEarlyType ==
  ASSUME StateType, HandlerType, NEW c \in Connection,
         phase[c] \in {"handling", "querying"}, ReturnEarly(c)
  PROVE  StateType' /\ HandlerType'
<1> USE ServerAssumption
<1>1. AtStep(c).otherwise \in Answer
  <2>1. route[c] \in Routes /\ step[c] \in DOMAIN Handler[route[c]].steps
    BY DEF StateType, HandlerType
  <2> QED BY <2>1, HandlerAnswers DEF AtStep
<1>2. PICK a \in Answer : answer' = [answer EXCEPT ![c] = a]
  BY <1>1 DEF ReturnEarly
<1> QED BY <1>2 DEF StateType, HandlerType, ReturnEarly, AtStep, processVars, clientVars, Phase

(* The pooled connections in use are no more than the pool has.            *)
LEMMA FewerHolders ==
  ASSUME TypeOK, Holders' \subseteq Holders
  PROVE  Cardinality(Holders') <= PoolSize
<1>1. IsFiniteSet(Holders)
  BY FS_Subset, ServerAssumption DEF Holders
<1>2. Cardinality(Holders') <= Cardinality(Holders)
  BY <1>1, FS_Subset
<1>3. Cardinality(Holders) \in Nat /\ Cardinality(Holders') \in Nat
  BY <1>1, FS_Subset, FS_CardinalityType
<1> QED BY <1>2, <1>3, ServerAssumption DEF TypeOK

LEMMA OneMoreHolder ==
  ASSUME TypeOK, NEW c \in Connection, Holders' = Holders \cup {c},
         Cardinality(Holders) < PoolSize
  PROVE  Cardinality(Holders') <= PoolSize
<1>1. IsFiniteSet(Holders)
  BY FS_Subset, ServerAssumption DEF Holders
<1>2. /\ Cardinality(Holders) \in Nat
      /\ Cardinality(Holders \cup {c}) \in {Cardinality(Holders), Cardinality(Holders) + 1}
  BY <1>1, FS_AddElement, FS_CardinalityType
<1> QED BY <1>2, ServerAssumption

LEMMA TypeInit == Init => TypeOK
<1> SUFFICES ASSUME Init PROVE TypeOK
  OBVIOUS
<1>1. Holders = {}
  BY DEF Init, Holders
<1>2. Cardinality(Holders) = 0
  BY <1>1, FS_EmptySet
<1>3. StateType
  BY DEF Init, StateType, Phase
<1>4. HandlerType
  BY DEF Init, HandlerType
<1> QED BY <1>2, <1>3, <1>4, ServerAssumption, TypeParts

LEMMA TypeNext == TypeOK /\ [Next]_vars => TypeOK'
<1> SUFFICES ASSUME TypeOK, [Next]_vars PROVE TypeOK'
  OBVIOUS
<1> USE ServerAssumption
<1>0. StateType /\ HandlerType
  BY TypeParts
<1>1. ASSUME StateType', HandlerType', Holders' \subseteq Holders PROVE TypeOK'
  BY <1>1, FewerHolders DEF TypeOK, StateType, HandlerType
<1>2. ASSUME NEW c \in Connection, Client(c) \/ Accept(c) PROVE TypeOK'
  <2>1. CASE Connect(c) \/ Accept(c)
    BY <1>0, <1>1, <2>1 DEF Connect, Accept, StateType, HandlerType, Holders, AtStep, Phase,
       processVars, clientVars, handlerVars
  <2>2. CASE SendHead(c) \/ SendBody(c) \/ Leave(c) \/ TakeAnswer(c)
    BY <1>0, <1>1, <2>2 DEF SendHead, SendBody, Leave, TakeAnswer, StateType, HandlerType,
       Holders, AtStep, processVars, handlerVars
  <2> QED BY <1>2, <2>1, <2>2 DEF Client
<1>3. ASSUME NEW c \in Connection, ReadHead(c) PROVE TypeOK'
  <2>1. PICK r \in Asked : route' = [route EXCEPT ![c] = r] /\ GoTo(c, r, 1)
    BY <1>3 DEF ReadHead
  <2>2. StateType' /\ HandlerType'
    BY <1>0, <1>3, <2>1, GoToType DEF ReadHead
  <2>3. Holders' \subseteq Holders
    BY <1>0, <2>1 DEF GoTo, Holders, StateType
  <2> QED BY <1>1, <2>2, <2>3
<1>4. ASSUME NEW c \in Connection, phase[c] \in {"handling", "querying"},
             GoTo(c, route[c], step[c] + 1),
             UNCHANGED <<processVars, clientVars, route, queries>>
      PROVE  TypeOK'
  <2>1. route[c] \in Routes /\ step[c] + 1 \in Nat /\ route' = [route EXCEPT ![c] = route[c]]
    BY <1>0, <1>4 DEF StateType, HandlerType
  <2>2. StateType' /\ HandlerType'
    BY <1>0, <1>4, <2>1, GoToType
  <2>3. Holders' \subseteq Holders
    BY <1>0, <1>4 DEF GoTo, Holders, StateType
  <2> QED BY <1>1, <2>2, <2>3
<1>5. ASSUME NEW c \in Connection, phase[c] \in {"handling", "querying"}, ReturnEarly(c)
      PROVE  TypeOK'
  <2>1. StateType' /\ HandlerType'
    BY <1>0, <1>5, ReturnEarlyType
  <2>2. Holders' \subseteq Holders
    BY <1>0, <1>5 DEF ReturnEarly, Holders, StateType
  <2> QED BY <1>1, <2>1, <2>2
<1>6. ASSUME NEW c \in Connection, Acquire(c) PROVE TypeOK'
  <2>1. StateType' /\ HandlerType'
    BY <1>0, <1>6 DEF Acquire, NeedsQuery, StateType, HandlerType, AtStep, Phase,
       processVars, clientVars
  <2>2. Holders' = Holders \cup {c} /\ Cardinality(Holders) < PoolSize
    BY <1>0, <1>6 DEF Acquire, Holders, StateType
  <2> QED BY <2>1, <2>2, OneMoreHolder DEF TypeOK, StateType, HandlerType
<1>7. ASSUME NEW c \in Connection, ReadHeadFails(c) \/ Respond(c) \/ StreamEnds(c)
      PROVE  TypeOK'
  <2>1. /\ UNCHANGED <<main, cancelled, pool, sent, left, route, step, answer, queries>>
        /\ takes' \in [Connection -> BOOLEAN]
        /\ phase' = [phase EXCEPT ![c] = "closed"] \/ phase' = [phase EXCEPT ![c] = "streaming"]
    BY <1>0, <1>7 DEF ReadHeadFails, Respond, StreamEnds, StateType,
       processVars, clientVars, handlerVars
  <2>2. StateType'
    BY <1>0, <2>1 DEF StateType, Phase
  <2>3. \A d \in Connection : phase'[d] \in {phase[d], "closed", "streaming"}
    BY <1>0, <2>1 DEF StateType
  <2>4. HandlerType' /\ Holders' \subseteq Holders
    BY <1>0, <2>1, <2>3 DEF HandlerType, Holders, AtStep
  <2> QED BY <1>1, <2>2, <2>4
<1>8. ASSUME main' \in {"starting", "binding", "serving", "waiting", "exited"},
             cancelled' \in BOOLEAN, pool' \in {"open", "closing", "closed"},
             UNCHANGED <<phase, clientVars, handlerVars>>
      PROVE  TypeOK'
  BY <1>0, <1>1, <1>8 DEF StateType, HandlerType, Holders, AtStep, clientVars, handlerVars
<1>9. CASE Cancel \/ Start \/ Bind \/ ClosePool \/ PoolClosed
  BY <1>0, <1>8, <1>9 DEF Cancel, Start, Bind, ClosePool, PoolClosed, StateType
<1>10. CASE StopAccepting \/ Stop
  BY <1>0, <1>1, <1>10
     DEF StopAccepting, Stop, Connected, StateType, HandlerType, Holders, AtStep, Phase,
         clientVars, handlerVars
<1>11. CASE UNCHANGED vars
  BY <1>0, <1>8, <1>11 DEF vars, processVars, StateType
<1> QED
  BY <1>2, <1>3, <1>4, <1>5, <1>6, <1>7, <1>9, <1>10, <1>11
     DEF Next, Process, StartFails, Exit, Task, Database, Check, CheckFails, ReadBody,
         ReadBodyFails, SkipQuery, NeedsQuery, AcquireFails, QueryEnds, QueryFails

(* No more connections of the pool are in use than it has, and a handler   *)
(* is always at a step it has.                                             *)
THEOREM TypeCorrect == Spec => []TypeOK
<1>1. SafetySpec => []TypeOK
  BY TypeInit, TypeNext, PTL DEF SafetySpec
<1> QED BY <1>1, PTL DEF Spec

-----------------------------------------------------------------------------
(* The process and its requests.                                           *)

(* Nothing goes on before the listener is there and after the process has  *)
(* exited; a closed pool has no connection in use; a request that is still *)
(* to be read has no answer, and a stream of events is one.                *)
ProcessInv ==
  /\ main \in {"starting", "binding"} => \A c \in Connection : phase[c] = "none"
  /\ main = "exited" => \A c \in Connection : phase[c] \in {"none", "closed", "cut"}
  /\ pool = "closed" => Holders = {}
  /\ \A c \in Connection :
       /\ phase[c] \in {"none", "backlog", "reading"} =>
            answer[c] = NoAnswer /\ queries[c] = 0
       /\ phase[c] = "streaming" => answer[c] # NoAnswer

LEMMA ProcessInit == Init => ProcessInv
BY DEF Init, ProcessInv, Holders

(* A step of a connection that has been accepted.                          *)
LEMMA ProcessOf ==
  ASSUME TypeOK, ProcessInv, NEW c \in Connection,
         phase[c] \notin {"none", "closed", "cut"},
         phase'[c] \notin {"none", "backlog", "reading"},
         phase'[c] = "streaming" => answer'[c] # NoAnswer,
         phase'[c] = "querying" => pool # "closed",
         \A d \in Connection \ {c} :
           phase'[d] = phase[d] /\ answer'[d] = answer[d] /\ queries'[d] = queries[d],
         UNCHANGED processVars
  PROVE  ProcessInv'
BY DEF ProcessInv, processVars, Holders

LEMMA ProcessNext == TypeOK /\ TypeOK' /\ ProcessInv /\ [Next]_vars => ProcessInv'
<1> SUFFICES ASSUME TypeOK, TypeOK', ProcessInv, [Next]_vars PROVE ProcessInv'
  OBVIOUS
<1>1. ASSUME NEW c \in Connection, Client(c) PROVE ProcessInv'
  <2>1. CASE Connect(c)
    BY <2>1 DEF Connect, ProcessInv, TypeOK, Holders, processVars, handlerVars
  <2>2. CASE SendHead(c) \/ SendBody(c) \/ Leave(c) \/ TakeAnswer(c)
    BY <2>2 DEF SendHead, SendBody, Leave, TakeAnswer, ProcessInv, Holders,
       processVars, handlerVars
  <2> QED BY <1>1, <2>1, <2>2 DEF Client
<1>2. ASSUME NEW c \in Connection, Accept(c) PROVE ProcessInv'
  BY <1>2 DEF Accept, ProcessInv, TypeOK, Holders, processVars, clientVars, handlerVars
<1>3. ASSUME NEW c \in Connection, NEW r, NEW i, GoTo(c, r, i),
             phase[c] \in {"reading", "handling", "querying"}, UNCHANGED <<processVars, queries>>
      PROVE  ProcessInv'
  BY <1>3, ProcessOf DEF GoTo, TypeOK
<1>4. ASSUME NEW c \in Connection, ReturnEarly(c), phase[c] \in {"handling", "querying"}
      PROVE  ProcessInv'
  BY <1>4, ProcessOf DEF ReturnEarly, TypeOK
<1>5. ASSUME NEW c \in Connection, ReadHead(c) PROVE ProcessInv'
  BY <1>3, <1>5 DEF ReadHead
<1>6. ASSUME NEW c \in Connection, ReadHeadFails(c) PROVE ProcessInv'
  BY <1>6, ProcessOf DEF ReadHeadFails, handlerVars, TypeOK
<1>7. ASSUME NEW c \in Connection,
             Check(c) \/ CheckFails(c) \/ ReadBody(c) \/ ReadBodyFails(c)
               \/ SkipQuery(c) \/ AcquireFails(c) \/ QueryEnds(c) \/ QueryFails(c)
      PROVE  ProcessInv'
  BY <1>3, <1>4, <1>7 DEF Check, CheckFails, ReadBody, ReadBodyFails, SkipQuery, NeedsQuery,
     AcquireFails, QueryEnds, QueryFails
<1>8. ASSUME NEW c \in Connection, Acquire(c) PROVE ProcessInv'
  BY <1>8, ProcessOf DEF Acquire, NeedsQuery, TypeOK
<1>9. ASSUME NEW c \in Connection, Respond(c) PROVE ProcessInv'
  BY <1>9, ProcessOf DEF Respond, handlerVars, TypeOK
<1>10. ASSUME NEW c \in Connection, StreamEnds(c) PROVE ProcessInv'
  BY <1>10, ProcessOf DEF StreamEnds, handlerVars, TypeOK
<1>11. CASE Cancel \/ Start \/ Bind \/ ClosePool \/ PoolClosed
  BY <1>11 DEF Cancel, Start, Bind, ClosePool, PoolClosed, ProcessInv, TypeOK, Holders,
     clientVars, handlerVars
<1>12. CASE StopAccepting \/ Stop
  BY <1>12 DEF StopAccepting, Stop, Connected, ProcessInv, TypeOK, Phase, Holders,
     clientVars, handlerVars
<1>13. CASE UNCHANGED vars
  BY <1>13 DEF vars, processVars, handlerVars, ProcessInv, Holders
<1> QED
  BY <1>1, <1>2, <1>5, <1>6, <1>7, <1>8, <1>9, <1>10, <1>11, <1>12, <1>13
     DEF Next, Process, StartFails, Exit, Task, Database

LEMMA ProcessCorrect == SafetySpec => [](TypeOK /\ ProcessInv)
BY TypeInit, TypeNext, ProcessInit, ProcessNext, PTL DEF SafetySpec

(* The process never goes down in the middle of a statement.               *)
THEOREM StatementsFinishCorrect == Spec => StatementsFinish
<1>1. ASSUME TypeOK, ProcessInv, [Next]_vars, main' = "exited" PROVE Holders = {}
  <2>1. CASE main = "exited"
    BY <1>1, <2>1 DEF ProcessInv, Holders
  <2>2. CASE main # "exited"
    <3>1. StartFails \/ Exit
      BY <1>1, <2>2
         DEF Next, Process, Start, Bind, StopAccepting, ClosePool, PoolClosed, Cancel,
             Client, Connect, SendHead, SendBody, Leave, TakeAnswer, Accept, Task, Database,
             ReadHead, ReadHeadFails, Check, CheckFails, ReadBody, ReadBodyFails, SkipQuery,
             Acquire, AcquireFails, QueryEnds, QueryFails, ReturnEarly, Respond, StreamEnds,
             processVars, vars
    <3> QED BY <1>1, <3>1 DEF StartFails, Exit, ProcessInv, Holders
  <2> QED BY <2>1, <2>2
<1>2. TypeOK /\ ProcessInv /\ [Next]_vars => [main' = "exited" => Holders = {}]_vars
  BY <1>1
<1> QED BY <1>2, ProcessCorrect, PTL DEF Spec, SafetySpec, StatementsFinish

-----------------------------------------------------------------------------
(* The refinement of RequestService.                                       *)

Requests == [c \in Connection |-> RequestOf(c)]

(* What the phase says of the request.                                     *)
LEMMA RequestCases ==
  ASSUME TypeOK, NEW c \in Connection
  PROVE  /\ phase[c] = "none" => RequestOf(c) = "none"
         /\ phase[c] \in {"backlog", "reading", "handling", "responding"} => RequestOf(c) = "open"
         /\ phase[c] = "querying" => RequestOf(c) = "acting"
         /\ phase[c] = "streaming" => RequestOf(c) = "answered"
         /\ phase[c] = "closed" /\ answer[c] # NoAnswer => RequestOf(c) = "answered"
         /\ phase[c] = "closed" /\ answer[c] = NoAnswer => RequestOf(c) = "dropped"
         /\ phase[c] = "cut" => RequestOf(c) = "dropped"
BY DEF RequestOf

LEMMA RequestCasesNext ==
  ASSUME TypeOK', NEW c \in Connection
  PROVE  /\ phase'[c] = "none" => RequestOf(c)' = "none"
         /\ phase'[c] \in {"backlog", "reading", "handling", "responding"} => RequestOf(c)' = "open"
         /\ phase'[c] = "querying" => RequestOf(c)' = "acting"
         /\ phase'[c] = "streaming" => RequestOf(c)' = "answered"
         /\ phase'[c] = "closed" /\ answer'[c] # NoAnswer => RequestOf(c)' = "answered"
         /\ phase'[c] = "closed" /\ answer'[c] = NoAnswer => RequestOf(c)' = "dropped"
         /\ phase'[c] = "cut" => RequestOf(c)' = "dropped"
BY DEF RequestOf

(* A step of one connection in which its request goes on or stays.         *)
LEMMA RequestStep ==
  ASSUME TypeOK, TypeOK', NEW c \in Connection, main # "exited", main' = main,
         \A d \in Connection \ {c} : phase'[d] = phase[d] /\ answer'[d] = answer[d],
         \/ RequestOf(c)' = RequestOf(c)
         \/ RequestOf(c) = "none" /\ RequestOf(c)' = "open"
         \/ RequestOf(c) = "open" /\ RequestOf(c)' \in {"acting", "answered", "dropped"}
         \/ RequestOf(c) = "acting" /\ RequestOf(c)' = "open"
  PROVE  [Service!Next]_(Service!vars)
<1>1. ASSUME NEW d \in Connection, d # c PROVE RequestOf(d)' = RequestOf(d)
  BY <1>1 DEF RequestOf
<1>2. Requests' = [Requests EXCEPT ![c] = RequestOf(c)']
  BY <1>1 DEF Requests
<1>3. CASE RequestOf(c)' = RequestOf(c)
  <2>1. Requests' = Requests
    BY <1>1, <1>3 DEF Requests
  <2> QED BY <2>1 DEF Requests, Service!vars
<1>4. (main # "exited")' = (main # "exited") /\ Requests[c] = RequestOf(c)
  BY DEF Requests
<1>5. CASE RequestOf(c) = "none" /\ RequestOf(c)' = "open"
  <2>1. Service!Open(c)
    BY <1>2, <1>4, <1>5 DEF Service!Open, Service!Become, Requests
  <2> QED BY <2>1 DEF Service!Next
<1>6. CASE RequestOf(c) = "open" /\ RequestOf(c)' = "acting"
  <2>1. Service!Act(c)
    BY <1>2, <1>4, <1>6 DEF Service!Act, Service!Become, Requests
  <2> QED BY <2>1 DEF Service!Next
<1>7. CASE RequestOf(c) = "open" /\ RequestOf(c)' = "answered"
  <2>1. Service!Answer(c)
    BY <1>2, <1>4, <1>7 DEF Service!Answer, Service!Become, Requests
  <2> QED BY <2>1 DEF Service!Next
<1>8. CASE RequestOf(c) = "open" /\ RequestOf(c)' = "dropped"
  <2>1. Service!Drop(c)
    BY <1>2, <1>4, <1>8 DEF Service!Drop, Service!Become, Requests
  <2> QED BY <2>1 DEF Service!Next
<1>9. CASE RequestOf(c) = "acting" /\ RequestOf(c)' = "open"
  <2>1. Service!Acted(c)
    BY <1>2, <1>4, <1>9 DEF Service!Acted, Service!Become, Requests
  <2> QED BY <2>1 DEF Service!Next
<1> QED BY <1>3, <1>5, <1>6, <1>7, <1>8, <1>9

LEMMA RequestInit == Init => Service!Init
BY DEF Init, Service!Init, RequestOf

LEMMA RequestNext ==
  TypeOK /\ TypeOK' /\ ProcessInv /\ ProcessInv' /\ [Next]_vars => [Service!Next]_(Service!vars)
<1> SUFFICES ASSUME TypeOK, TypeOK', ProcessInv, ProcessInv', [Next]_vars
             PROVE  [Service!Next]_(Service!vars)
  OBVIOUS
<1>0. \A c \in Connection :
        phase[c] \notin {"none", "closed", "cut"} => main # "exited"
  BY DEF ProcessInv
<1>1. ASSUME main' = main, UNCHANGED <<phase, answer>> PROVE [Service!Next]_(Service!vars)
  BY <1>1 DEF Service!vars, RequestOf
<1>2. ASSUME NEW c \in Connection, Connect(c) PROVE [Service!Next]_(Service!vars)
  BY <1>2, RequestStep, RequestCases, RequestCasesNext
     DEF Connect, TypeOK, processVars, handlerVars
<1>3. ASSUME NEW c \in Connection, SendHead(c) \/ SendBody(c) \/ Leave(c) \/ TakeAnswer(c)
      PROVE  [Service!Next]_(Service!vars)
  BY <1>1, <1>3 DEF SendHead, SendBody, Leave, TakeAnswer, processVars, handlerVars
<1>4. ASSUME NEW c \in Connection, Accept(c) \/ ReadHeadFails(c) \/ Respond(c) \/ StreamEnds(c)
      PROVE  [Service!Next]_(Service!vars)
  BY <1>0, <1>4, RequestStep, RequestCases, RequestCasesNext
     DEF Accept, ReadHeadFails, Respond, StreamEnds, TypeOK, Phase, ProcessInv,
         processVars, handlerVars
<1>5. ASSUME NEW c \in Connection, NEW r, NEW i, GoTo(c, r, i),
             phase[c] \in {"reading", "handling", "querying"}, UNCHANGED processVars
      PROVE  [Service!Next]_(Service!vars)
  BY <1>0, <1>5, RequestStep, RequestCases, RequestCasesNext DEF GoTo, TypeOK, processVars
<1>6. ASSUME NEW c \in Connection, ReturnEarly(c), phase[c] \in {"handling", "querying"}
      PROVE  [Service!Next]_(Service!vars)
  BY <1>0, <1>6, RequestStep, RequestCases, RequestCasesNext DEF ReturnEarly, TypeOK, processVars
<1>7. ASSUME NEW c \in Connection, ReadHead(c) PROVE [Service!Next]_(Service!vars)
  BY <1>5, <1>7 DEF ReadHead
<1>8. ASSUME NEW c \in Connection,
             Check(c) \/ CheckFails(c) \/ ReadBody(c) \/ ReadBodyFails(c)
               \/ SkipQuery(c) \/ AcquireFails(c) \/ QueryEnds(c) \/ QueryFails(c)
      PROVE  [Service!Next]_(Service!vars)
  BY <1>5, <1>6, <1>8 DEF Check, CheckFails, ReadBody, ReadBodyFails, SkipQuery, NeedsQuery,
     AcquireFails, QueryEnds, QueryFails
<1>9. ASSUME NEW c \in Connection, Acquire(c) PROVE [Service!Next]_(Service!vars)
  BY <1>0, <1>9, RequestStep, RequestCases, RequestCasesNext
     DEF Acquire, NeedsQuery, TypeOK, processVars
<1>10. CASE Cancel \/ ClosePool \/ PoolClosed
  BY <1>1, <1>10 DEF Cancel, ClosePool, PoolClosed, handlerVars
<1>11. CASE Start \/ Bind
  <2>1. (main # "exited")' = (main # "exited")
    BY <1>11 DEF Start, Bind
  <2>2. UNCHANGED <<phase, answer>>
    BY <1>11 DEF Start, Bind, handlerVars
  <2> QED BY <2>1, <2>2 DEF Service!vars, RequestOf
<1>12. CASE StopAccepting
  <2>1. (main # "exited")' = (main # "exited") /\ main # "exited" /\ answer' = answer
    BY <1>12 DEF StopAccepting, handlerVars
  <2> DEFINE waiting == {c \in Connection : phase[c] = "backlog"}
  <2>2. waiting \in SUBSET {c \in Connection : Requests[c] = "open"}
    BY RequestCases DEF Requests
  <2>3. \A c \in Connection :
          RequestOf(c)' = IF c \in waiting THEN "dropped" ELSE RequestOf(c)
    BY <1>12, <2>1 DEF StopAccepting, RequestOf, TypeOK
  <2>4. Requests' = [c \in Connection |-> IF c \in waiting THEN "dropped" ELSE Requests[c]]
    BY <2>3 DEF Requests
  <2>5. Service!Refuse
    BY <2>1, <2>2, <2>4 DEF Service!Refuse, Requests
  <2> QED BY <2>5 DEF Service!Next
<1>13. CASE StartFails \/ Exit
  <2>1. main # "exited" /\ main' = "exited" /\ answer' = answer
    BY <1>13 DEF StartFails, Exit, Stop, handlerVars
  <2>2. \A c \in Connection : phase[c] # "querying"
    BY <1>13 DEF StartFails, Exit, ProcessInv, Holders
  <2>3. \A c \in Connection : phase[c] = "streaming" => answer[c] # NoAnswer
    BY DEF ProcessInv
  <2>4. ASSUME NEW c \in Connection
        PROVE  /\ RequestOf(c) # "acting"
               /\ RequestOf(c)' = IF RequestOf(c) = "open" THEN "dropped" ELSE RequestOf(c)
    <3>1. phase[c] \in Phase
      BY DEF TypeOK
    <3>2. phase'[c] = CASE phase[c] = "streaming" -> "closed"
                        [] Connected(c) /\ phase[c] # "streaming" -> "cut"
                        [] OTHER -> phase[c]
      BY <1>13 DEF StartFails, Exit, Stop
    <3>3. CASE phase[c] \in {"none", "closed", "cut"}
      BY <2>1, <3>2, <3>3 DEF RequestOf, Connected
    <3>4. CASE phase[c] = "streaming"
      BY <2>1, <2>3, <3>2, <3>4 DEF RequestOf
    <3>5. CASE phase[c] \in {"backlog", "reading", "handling", "responding"}
      BY <2>1, <3>2, <3>5 DEF RequestOf, Connected
    <3> QED BY <2>2, <3>1, <3>3, <3>4, <3>5 DEF Phase
  <2>5. Service!GoDown
    BY <2>1, <2>4 DEF Service!GoDown
  <2> QED BY <2>5 DEF Service!Next
<1>14. CASE UNCHANGED vars
  BY <1>1, <1>14 DEF vars, processVars, handlerVars
<1> QED
  BY <1>2, <1>3, <1>4, <1>7, <1>8, <1>9, <1>10, <1>11, <1>12, <1>13, <1>14
     DEF Next, Process, Client, Task, Database

(* Accept loop, tasks, pool and main together are a request service: one   *)
(* answer at most, no statement after the process has gone down, and none  *)
(* cut short.                                                              *)
THEOREM ServerImplements == Spec => ImplementsRequestService
<1>1. SafetySpec => Service!Spec
  BY ProcessCorrect, RequestInit, RequestNext, PTL DEF SafetySpec, Service!Spec
<1> QED BY <1>1, PTL DEF Spec, ImplementsRequestService

-----------------------------------------------------------------------------
(* What a request must have come to before a row is written for it.        *)

(* The steps of the handlers that write: the body comes before the first   *)
(* statement, and from that one on no early return blames the client.      *)
BodyStep == [r \in Writing |-> IF r = "message" THEN 3 ELSE 1]

FirstQuery == [r \in Writing |-> IF r = "message" THEN 5 ELSE 3]

LEMMA WritingSteps ==
  ASSUME NEW r \in Writing, NEW i \in DOMAIN Handler[r].steps
  PROVE  /\ i \in 1..5
         /\ i = BodyStep[r] <=> Handler[r].steps[i].does = "body"
         /\ Handler[r].steps[i].does \in {"query", "optional"} => i >= FirstQuery[r]
         /\ i >= FirstQuery[r] => Handler[r].steps[i].otherwise \notin {"badRequest", "redirect"}
         /\ Handler[r].answer \notin {"badRequest", "redirect"}
<1>1. CASE r = "message"
  <2>1. Handler[r] = SendMessage /\ BodyStep[r] = 3 /\ FirstQuery[r] = 5
    BY <1>1 DEF Handler, BodyStep, FirstQuery, Writing
  <2>2. i \in 1..5
    BY <2>1 DEF SendMessage
  <2> QED BY <2>1, <2>2 DEF SendMessage, Parse, Authorized, Body, Query
<1>2. CASE r = "signup"
  <2>1. Handler[r] = Signup /\ BodyStep[r] = 1 /\ FirstQuery[r] = 3
    BY <1>2 DEF Handler, BodyStep, FirstQuery, Writing
  <2>2. i \in 1..5
    BY <2>1 DEF Signup
  <2> QED BY <2>1, <2>2 DEF Signup, Parse, Found, Body, Query
<1> QED BY <1>1, <1>2 DEF Writing

LEMMA WritingNumbers ==
  ASSUME NEW r \in Writing
  PROVE  /\ BodyStep[r] \in Nat /\ FirstQuery[r] \in Nat
         /\ 1 <= BodyStep[r] /\ BodyStep[r] < FirstQuery[r]
BY DEF BodyStep, FirstQuery

EarnedOf(c) ==
  /\ phase[c] \in {"none", "backlog", "reading"} => route[c] = NoRoute
  /\ phase[c] \in {"handling", "querying"} => answer[c] = NoAnswer
  /\ route[c] \in Writing =>
       /\ step[c] > BodyStep[route[c]] => sent[c] = "all"
       /\ queries[c] > 0 =>
            step[c] >= FirstQuery[route[c]] /\ answer[c] \notin {"badRequest", "redirect"}

EarnedInv == \A c \in Connection : EarnedOf(c)

LEMMA EarnedInit == Init => EarnedInv
BY ServerAssumption DEF Init, EarnedInv, EarnedOf, Routes, Handler, Writing

LEMMA EarnedImplies == TypeOK /\ EarnedInv => EffectsEarned
<1> SUFFICES ASSUME TypeOK, EarnedInv, NEW c \in Connection, route[c] \in Writing, queries[c] > 0
             PROVE  sent[c] = "all" /\ answer[c] \notin {"badRequest", "redirect"}
  BY DEF EffectsEarned
<1>1. step[c] \in Nat
  BY DEF TypeOK
<1> QED BY <1>1, WritingNumbers DEF EarnedInv, EarnedOf

(* A step of one connection.                                               *)
LEMMA EarnedOthers ==
  ASSUME EarnedInv, NEW c \in Connection, EarnedOf(c)',
         \A d \in Connection \ {c} :
           /\ phase'[d] = phase[d] /\ route'[d] = route[d] /\ answer'[d] = answer[d]
           /\ step'[d] = step[d] /\ sent'[d] = sent[d] /\ queries'[d] = queries[d]
  PROVE  EarnedInv'
BY DEF EarnedInv, EarnedOf

LEMMA EarnedGoTo ==
  ASSUME TypeOK, EarnedInv, NEW c \in Connection, GoTo(c, route[c], step[c] + 1),
         phase[c] \in {"handling", "querying"},
         AtStep(c).does = "body" => sent[c] = "all",
         UNCHANGED <<sent, route, queries>>
  PROVE  EarnedInv'
<1>1. /\ step[c] \in Nat /\ step'[c] = step[c] + 1 /\ answer[c] = NoAnswer
      /\ phase'[c] \in {"handling", "responding"}
      /\ phase'[c] = "handling" => answer'[c] = NoAnswer
      /\ answer'[c] \in {NoAnswer, Handler[route[c]].answer}
      /\ step[c] \in DOMAIN Handler[route[c]].steps
  BY DEF GoTo, TypeOK, EarnedInv, EarnedOf
<1>2. ASSUME route[c] \in Writing, step[c] + 1 > BodyStep[route[c]] PROVE sent[c] = "all"
  BY <1>1, <1>2, WritingSteps, WritingNumbers DEF EarnedInv, EarnedOf, AtStep
<1>3. ASSUME route[c] \in Writing
      PROVE  answer'[c] \notin {"badRequest", "redirect"}
  BY <1>1, <1>3, WritingSteps, ServerAssumption DEF Answer
<1>4. ASSUME route[c] \in Writing, queries[c] > 0 PROVE step[c] + 1 >= FirstQuery[route[c]]
  BY <1>1, <1>4, WritingNumbers DEF EarnedInv, EarnedOf
<1>5. EarnedOf(c)'
  BY <1>1, <1>2, <1>3, <1>4 DEF EarnedOf
<1> QED BY <1>5, EarnedOthers DEF GoTo, TypeOK

LEMMA EarnedReturn ==
  ASSUME TypeOK, EarnedInv, NEW c \in Connection, ReturnEarly(c),
         phase[c] \in {"handling", "querying"}
  PROVE  EarnedInv'
<1>1. /\ phase'[c] = "responding" /\ answer'[c] = AtStep(c).otherwise
      /\ step[c] \in DOMAIN Handler[route[c]].steps
      /\ UNCHANGED <<route, step, sent, queries>>
  BY DEF ReturnEarly, TypeOK, clientVars
<1>2. ASSUME route[c] \in Writing, queries[c] > 0
      PROVE  answer'[c] \notin {"badRequest", "redirect"}
  BY <1>1, <1>2, WritingSteps DEF AtStep, EarnedInv, EarnedOf
<1>3. EarnedOf(c)'
  BY <1>1, <1>2 DEF EarnedInv, EarnedOf
<1> QED BY <1>1, <1>3, EarnedOthers DEF ReturnEarly, TypeOK

LEMMA EarnedNext ==
  TypeOK /\ TypeOK' /\ ProcessInv /\ EarnedInv /\ [Next]_vars => EarnedInv'
<1> SUFFICES ASSUME TypeOK, TypeOK', ProcessInv, EarnedInv, [Next]_vars PROVE EarnedInv'
  OBVIOUS
<1>1. ASSUME NEW c \in Connection,
             Connect(c) \/ Accept(c) \/ ReadHeadFails(c) \/ Respond(c) \/ StreamEnds(c)
      PROVE  EarnedInv'
  <2>1. EarnedOf(c)'
    BY <1>1 DEF Connect, Accept, ReadHeadFails, Respond, StreamEnds, TypeOK, EarnedInv, EarnedOf,
       clientVars, handlerVars
  <2> QED BY <1>1, <2>1, EarnedOthers DEF Connect, Accept, ReadHeadFails, Respond, StreamEnds,
       TypeOK, clientVars, handlerVars
<1>2. ASSUME NEW c \in Connection, SendHead(c) \/ SendBody(c) \/ Leave(c) \/ TakeAnswer(c)
      PROVE  EarnedInv'
  <2>1. EarnedOf(c)'
    BY <1>2 DEF SendHead, SendBody, Leave, TakeAnswer, TypeOK, EarnedInv, EarnedOf, handlerVars
  <2> QED BY <1>2, <2>1, EarnedOthers DEF SendHead, SendBody, Leave, TakeAnswer, TypeOK, handlerVars
<1>3. ASSUME NEW c \in Connection, ReadHead(c) PROVE EarnedInv'
  <2>1. PICK r \in Asked : route' = [route EXCEPT ![c] = r] /\ GoTo(c, r, 1)
    BY <1>3 DEF ReadHead
  <2>2. /\ step'[c] = 1 /\ route'[c] = r /\ queries'[c] = 0 /\ answer[c] = NoAnswer
        /\ phase'[c] \in {"handling", "responding"}
        /\ phase'[c] = "handling" => answer'[c] = NoAnswer
    BY <1>3, <2>1 DEF ReadHead, GoTo, TypeOK, ProcessInv
  <2>3. EarnedOf(c)'
    BY <2>2, WritingNumbers DEF EarnedOf
  <2> QED BY <1>3, <2>1, <2>3, EarnedOthers DEF ReadHead, GoTo, TypeOK, clientVars
<1>4. ASSUME NEW c \in Connection, Check(c) \/ ReadBody(c) \/ SkipQuery(c) \/ QueryEnds(c)
      PROVE  EarnedInv'
  <2>1. AtStep(c).does = "body" => sent[c] = "all"
    BY <1>4 DEF Check, ReadBody, SkipQuery, QueryEnds, TypeOK
  <2> QED BY <1>4, <2>1, EarnedGoTo
       DEF Check, ReadBody, SkipQuery, NeedsQuery, QueryEnds, clientVars
<1>5. ASSUME NEW c \in Connection,
             CheckFails(c) \/ ReadBodyFails(c) \/ AcquireFails(c) \/ QueryFails(c)
      PROVE  EarnedInv'
  BY <1>5, EarnedReturn DEF CheckFails, ReadBodyFails, AcquireFails, NeedsQuery, QueryFails
<1>6. ASSUME NEW c \in Connection, Acquire(c) PROVE EarnedInv'
  <2>1. /\ AtStep(c).does \in {"query", "optional"} /\ phase[c] = "handling"
        /\ UNCHANGED <<route, step, answer, sent>> /\ phase'[c] = "querying"
    BY <1>6 DEF Acquire, NeedsQuery, TypeOK, clientVars
  <2>2. step[c] \in DOMAIN Handler[route[c]].steps /\ answer[c] = NoAnswer
    BY <2>1 DEF TypeOK, EarnedInv, EarnedOf
  <2>3. route[c] \in Writing => step[c] >= FirstQuery[route[c]]
    BY <2>1, <2>2, WritingSteps DEF AtStep
  <2>4. answer[c] \notin {"badRequest", "redirect"}
    BY <2>2, ServerAssumption DEF Answer
  <2>5. EarnedOf(c)'
    BY <2>1, <2>2, <2>3, <2>4 DEF EarnedInv, EarnedOf
  <2> QED BY <1>6, <2>1, <2>5, EarnedOthers DEF Acquire, TypeOK
<1>7. ASSUME UNCHANGED <<clientVars, handlerVars>>,
             \A c \in Connection : phase'[c] \in {phase[c], "closed", "cut"}
      PROVE  EarnedInv'
  BY <1>7 DEF EarnedInv, EarnedOf, clientVars, handlerVars
<1>8. CASE Cancel \/ Process \/ UNCHANGED vars
  BY <1>7, <1>8 DEF Cancel, Process, Start, Bind, StartFails, StopAccepting, ClosePool,
     PoolClosed, Exit, Stop, vars
<1> QED
  BY <1>1, <1>2, <1>3, <1>4, <1>5, <1>6, <1>8 DEF Next, Client, Task, Database

(* A row is only written for a request that came whole and whose client is *)
(* not told that it was wrong.                                             *)
THEOREM EffectsEarnedCorrect == Spec => []EffectsEarned
<1>1. SafetySpec => []EarnedInv
  BY ProcessCorrect, EarnedInit, EarnedNext, PTL DEF SafetySpec
<1> QED BY <1>1, ProcessCorrect, EarnedImplies, PTL DEF Spec
=============================================================================
