----------------------------- MODULE Reconnect -----------------------------
(***************************************************************************)
(* templates/chat.html: the EventSource of a page, which reads one         *)
(* subscription after the other, and the handler of GET                    *)
(* /subscribe/new_messages in actions.rs, which takes the starting point   *)
(* of each from the id of the last event the browser got.                  *)
(*                                                                         *)
(* A connection is a subscription, and the events on their way to the page *)
(* are those the subscription sent on and the page has not got: EventStream*)
(* is what the tasks and sockets in between promise.  The server learns of *)
(* a lost connection later, by a failing write if by nothing else, and the *)
(* page may have its next one by then.                                     *)
(***************************************************************************)
EXTENDS SubscriptionsHandler

CONSTANTS
  Connection,    (* the subscriptions the page may make                    *)
  Page,          (* the user of the page                                   *)
  Waiting,       (* the EventSource waits to connect                       *)
  GivenUp        (* it was refused: readyState is CLOSED                   *)

ASSUME ReconnectAssumption ==
  /\ Connection \subseteq SubscriptionId
  /\ \A s \in Connection : Subscriber[s] = Page
  /\ Waiting # GivenUp /\ {Waiting, GivenUp} \cap SubscriptionId = {}

VARIABLES
  source,        (* the connection of the EventSource                      *)
  got,           (* how many of its events the page has got                *)
  lastEventId,   (* the EventSource's last event ID, NoStart if empty      *)
  seen,          (* the messages that reached onmessage                    *)
  repeated,      (* those that did so more than once (history only)        *)
  passed         (* the rows each new connection found and that were no    *)
                 (* later than the last event: all if none (history only)  *)

pageVars == <<source, got, lastEventId, seen, repeated, passed>>
allVars == <<vars, pageVars>>

Events(s) == history[s] \o live[s]

Received(s) == {Events(s)[i] : i \in 1..got}

(* Every variable has its type; the page has got no more events than were  *)
(* sent, and those it got it has seen.                                     *)
PageTypeOK ==
  /\ TypeOK
  /\ source \in Connection \cup {Waiting, GivenUp}
  /\ got \in Nat
  /\ lastEventId \in seen \cup {NoStart}
  /\ seen \subseteq stored
  /\ repeated \subseteq seen
  /\ passed \subseteq stored
  /\ source \in Connection =>
       phase[source] # "idle" /\ got <= Len(Events(source)) /\ Received(source) \subseteq seen

PageInit ==
  /\ Init
  /\ source = Waiting
  /\ got = 0
  /\ lastEventId = NoStart
  /\ seen = {}
  /\ repeated = {}
  /\ passed = {}

-----------------------------------------------------------------------------
(* Mutant: the handler looks at the parameters only.                       *)
ParamOnly == NoStart

(* last_message_id_header.or(last_message_id_params): the page sends no    *)
(* parameter, the browser sends the header unless the id is empty.         *)
StartingPoint == lastEventId

Connect(s) ==
  /\ source = Waiting
  /\ Subscribe(s, StartingPoint)
  /\ source' = s
  /\ got' = 0
  /\ passed' = passed \cup {m \in stored : lastEventId = NoStart \/ ~After(m, lastEventId)}
  /\ UNCHANGED <<lastEventId, seen, repeated>>

(* No session, or an error before the subscription: a status other than    *)
(* 200 is final for an EventSource.                                        *)
Refused ==
  /\ source = Waiting
  /\ source' = GivenUp
  /\ UNCHANGED <<vars, got, lastEventId, seen, repeated, passed>>

(* ... or an error of the query, of which a page that has gone hears       *)
(* nothing.                                                                *)
QueryFails(s) ==
  /\ FetchFails(s)
  /\ source' = IF source = s THEN GivenUp ELSE source
  /\ UNCHANGED <<got, lastEventId, seen, repeated, passed>>

(* onmessage.                                                              *)
OnMessage ==
  /\ source \in Connection
  /\ got < Len(Events(source))
  /\ LET m == Events(source)[got + 1]
     IN  /\ seen' = seen \cup {m}
         /\ repeated' = IF m \in seen THEN repeated \cup {m} ELSE repeated
         /\ lastEventId' = m
  /\ got' = got + 1
  /\ UNCHANGED <<vars, source, passed>>

(* The server has ended the stream and the page has read it to its end.    *)
StreamEnds ==
  /\ source \in Connection
  /\ phase[source] = "ended"
  /\ got = Len(Events(source))
  /\ source' = Waiting
  /\ UNCHANGED <<vars, got, lastEventId, seen, repeated, passed>>

(* The connection is lost, with the events on their way.                   *)
Lose ==
  /\ source \in Connection
  /\ source' = Waiting
  /\ UNCHANGED <<vars, got, lastEventId, seen, repeated, passed>>

(* The server notices that nobody reads a connection.                      *)
Notice(s) == s # source /\ Disconnect(s) /\ UNCHANGED pageVars

(* The subscriptions of others.                                            *)
OtherSubscribes(s) ==
  /\ s \notin Connection
  /\ \E p \in stored \cup {NoStart, UnknownId} : Subscribe(s, p)
  /\ UNCHANGED pageVars

-----------------------------------------------------------------------------
Server ==
  \/ \E m \in MessageId : SendMessage(m) \/ HandleNewMessage(m)
  \/ \E s \in SubscriptionId : Fetch(s) \/ Pipe(s)
  \/ Cleanup

PageNext ==
  \/ Server /\ UNCHANGED pageVars
  \/ \E s \in SubscriptionId : QueryFails(s) \/ Notice(s) \/ OtherSubscribes(s)
  \/ \E s \in Connection : Connect(s)
  \/ Refused \/ OnMessage \/ StreamEnds \/ Lose

(* Those of the server, where the hourly comment at the latest tells that  *)
(* a connection is lost; and the browser connects again and delivers.      *)
PageFairness ==
  /\ \A m \in MessageId : WF_allVars(HandleNewMessage(m) /\ UNCHANGED pageVars)
  /\ \A s \in SubscriptionId :
       /\ WF_allVars((Fetch(s) /\ UNCHANGED pageVars) \/ QueryFails(s))
       /\ WF_allVars(Pipe(s) /\ UNCHANGED pageVars)
       /\ WF_allVars(Notice(s))
  /\ WF_allVars(Cleanup /\ UNCHANGED pageVars)
  /\ WF_allVars(Refused \/ \E s \in Connection : Connect(s))
  /\ WF_allVars(OnMessage)
  /\ WF_allVars(StreamEnds)

PageSafetySpec == PageInit /\ [][PageNext]_allVars

PageSpec == PageSafetySpec /\ PageFairness

-----------------------------------------------------------------------------
(* What is on its way to the page.                                         *)
Coming(s) == Unread(s) \cup {Events(s)[i] : i \in got + 1 .. Len(Events(s))}

(* While the page is connected, every message that was handled for its     *)
(* user has been seen or is on its way, over however many connections,     *)
(* unless a connection made after it was stored came from an event with a  *)
(* later timestamp, or from none at all.                                   *)
NoGap ==
  source \in Connection /\ phase[source] = "piping" =>
    \A m \in MessageId : Owed(m, Page) => m \in seen \cup passed \cup Coming(source)

(* The page shows a message again only if a query has returned it: a       *)
(* channel brings none a second time, whatever connections read it.        *)
OnlyRowsRepeat ==
  \A m \in repeated : \E s \in Connection : m \in Range(history[s])

(* In the end a page that stays connected has seen everything handled for  *)
(* its user since it began, or past its starting point.                    *)
EventuallySeen ==
  <>[](source \in Connection /\ phase[source] = "piping" =>
         \A m \in MessageId : Owed(m, Page) /\ InScope(m, source) => m \in seen)

(* In the end the connections that were lost hold no receiver, and no user *)
(* without a receiver has a channel.                                       *)
EventuallyReclaimed ==
  <>[](/\ \A s \in Connection \ {source} : s \notin Receiving
       /\ \A u \in UserId : ~SendFails(u))
=============================================================================
