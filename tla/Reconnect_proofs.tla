-------------------------- MODULE Reconnect_proofs --------------------------
(***************************************************************************)
(* What Reconnect guarantees for any number of connections, messages and   *)
(* users: a page and its server are a SubscriptionsHandler, what holds of  *)
(* a subscription holds of each connection, and from that follows what the *)
(* page sees over all of them.                                             *)
(***************************************************************************)
EXTENDS Reconnect, SubscriptionsHandler_proofs

(* The events of a subscription are its rows and then its live messages.   *)
LEMMA EventsFacts ==
  ASSUME NEW h \in Seq(MessageId), NEW l \in Seq(MessageId)
  PROVE  /\ h \o l \in Seq(MessageId)
         /\ Len(h) \in Nat /\ Len(l) \in Nat
         /\ Len(h \o l) = Len(h) + Len(l)
         /\ \A i \in 1..Len(h) : (h \o l)[i] = h[i]
         /\ \A i \in Len(h) + 1 .. Len(h) + Len(l) : (h \o l)[i] = l[i - Len(h)]
         /\ \A i \in 1..Len(h \o l) : (h \o l)[i] \in Range(h) \cup Range(l)
         /\ \A m \in Range(h) \cup Range(l) : \E i \in 1..Len(h \o l) : (h \o l)[i] = m
<1>1. /\ h \o l \in Seq(MessageId)
      /\ Len(h) \in Nat /\ Len(l) \in Nat
      /\ DOMAIN h = 1..Len(h) /\ DOMAIN l = 1..Len(l)
      /\ Len(h \o l) = Len(h) + Len(l)
      /\ \A i \in 1..Len(h) : (h \o l)[i] = h[i]
      /\ \A i \in Len(h) + 1 .. Len(h) + Len(l) : (h \o l)[i] = l[i - Len(h)]
  OBVIOUS
<1>2. ASSUME NEW i \in 1..Len(h \o l) PROVE (h \o l)[i] \in Range(h) \cup Range(l)
  <2>1. CASE i <= Len(h)
    BY <1>1, <2>1 DEF Range
  <2>2. CASE i > Len(h)
    <3>1. (h \o l)[i] = l[i - Len(h)] /\ i - Len(h) \in DOMAIN l
      BY <1>1, <2>2
    <3> QED BY <3>1 DEF Range
  <2> QED BY <1>1, <2>1, <2>2
<1>3. ASSUME NEW m \in Range(h) PROVE \E i \in 1..Len(h \o l) : (h \o l)[i] = m
  <2>1. PICK i \in DOMAIN h : h[i] = m
    BY <1>3 DEF Range
  <2> QED BY <1>1, <2>1
<1>4. ASSUME NEW m \in Range(l) PROVE \E i \in 1..Len(h \o l) : (h \o l)[i] = m
  <2>1. PICK i \in DOMAIN l : l[i] = m
    BY <1>4 DEF Range
  <2>2. Len(h) + i \in Len(h) + 1 .. Len(h) + Len(l) /\ (Len(h) + i) - Len(h) = i
    BY <1>1, <2>1
  <2>3. (h \o l)[Len(h) + i] = l[i]
    BY <1>1, <2>2
  <2> QED BY <1>1, <2>1, <2>2, <2>3
<1> QED BY <1>1, <1>2, <1>3, <1>4

(* A message sent on is the last event.                                    *)
LEMMA EventsAppend ==
  ASSUME NEW h \in Seq(MessageId), NEW l \in Seq(MessageId), NEW m \in MessageId
  PROVE  h \o Append(l, m) = Append(h \o l, m)
OBVIOUS

(* A message that pipe_broadcast sends on becomes the last event.          *)
LEMMA ForwardAppends ==
  ASSUME TypeOK, NEW s \in SubscriptionId, PipeForward(s)
  PROVE  \E n \in MessageId :
           /\ n = log[rx[s]][cursor[s] + 1]
           /\ live'[s] = Append(live[s], n)
           /\ Len(Events(s)) \in Nat
           /\ Len(Events(s)') = Len(Events(s)) + 1
           /\ \A i \in 1..Len(Events(s)) : Events(s)'[i] = Events(s)[i]
           /\ Events(s)'[Len(Events(s)) + 1] = n
<1>1. log[rx[s]][cursor[s] + 1] \in MessageId
  BY DEF PipeForward, Receives, TypeOK, Receiving
<1>2. PICK n \in MessageId : n = log[rx[s]][cursor[s] + 1]
  BY <1>1
<1>3. live'[s] = Append(live[s], n) /\ history'[s] = history[s]
  <2>1. live \in [SubscriptionId -> Seq(MessageId)]
    BY DEF TypeOK
  <2> QED BY <1>2, <2>1 DEF PipeForward
<1>4. history[s] \in Seq(MessageId) /\ live[s] \in Seq(MessageId)
  BY DEF TypeOK
<1> DEFINE events == history[s] \o live[s]
<1>5. history'[s] \o live'[s] = Append(events, n)
  <2>1. history[s] \o Append(live[s], n) = Append(history[s] \o live[s], n)
    BY <1>2, <1>4, EventsAppend
  <2> QED BY <1>3, <2>1
<1>6. events \in Seq(MessageId) /\ Len(events) \in Nat
  BY <1>4, EventsFacts
<1> HIDE DEF events
<1>7. /\ Len(Append(events, n)) = Len(events) + 1
      /\ \A i \in 1..Len(events) : Append(events, n)[i] = events[i]
      /\ Append(events, n)[Len(events) + 1] = n
  BY <1>2, <1>6, AppendFacts
<1>8. Events(s) = events /\ Events(s)' = Append(events, n)
  BY <1>5 DEF Events, events
<1> QED BY <1>2, <1>3, <1>6, <1>7, <1>8

(* A subscription that is made keeps its events, in their places, its      *)
(* starting point and what it found in the table; no row is deleted.       *)
Keeps(s) ==
  /\ phase[s] # "idle" =>
       phase'[s] # "idle" /\ start'[s] = start[s] /\ baseline'[s] = baseline[s]
  /\ Len(Events(s)') >= Len(Events(s))
  /\ \A i \in 1..Len(Events(s)) : Events(s)'[i] = Events(s)[i]
  /\ stored \subseteq stored'

LEMMA StepKeeps ==
  ASSUME TypeOK, ReaderInv, [Next]_vars, NEW s \in SubscriptionId
  PROVE  Keeps(s)
<1>0. history[s] \in Seq(MessageId) /\ live[s] \in Seq(MessageId) /\ Len(Events(s)) \in Nat
  BY EventsFacts DEF TypeOK, Events
<1>1. ASSUME UNCHANGED <<history, live>>, stored \subseteq stored',
             phase[s] # "idle" =>
               phase'[s] # "idle" /\ start'[s] = start[s] /\ baseline'[s] = baseline[s]
      PROVE  Keeps(s)
  BY <1>0, <1>1 DEF Keeps, Events
<1>2. ASSUME NEW m \in MessageId, SendMessage(m) \/ HandleNewMessage(m) PROVE Keeps(s)
  BY <1>1, <1>2 DEF SendMessage, CreateMessage, CreateMessageFails, HandleNewMessage,
     HandleFromFails, HandleFrom, HandleToFails, HandleTo, subVars
<1>3. ASSUME NEW t \in SubscriptionId, NEW p, Subscribe(t, p) PROVE Keeps(s)
  BY <1>1, <1>3 DEF Subscribe, sendVars, TypeOK
<1>4. ASSUME NEW t \in SubscriptionId, Fetch(t) PROVE Keeps(s)
  <2>1. CASE t = s
    <3>1. history[s] = <<>> /\ live[s] = <<>>
      BY <1>4, <2>1 DEF Fetch, ReaderInv
    <3>2. Len(Events(s)) = 0
      BY <3>1 DEF Events
    <3>3. history'[s] \in Seq(MessageId) /\ live'[s] \in Seq(MessageId)
      <4>1. PICK rows \in ByTimestamp(UsersMessagesSince(stored, Subscriber[s], start[s])) :
              history' = [history EXCEPT ![s] = rows]
        BY <1>4, <2>1 DEF Fetch
      <4>2. rows \in Seq(MessageId)
        BY SinceType, ByTimestampRows DEF TypeOK
      <4> QED BY <1>4, <4>1, <4>2 DEF Fetch, TypeOK
    <3>4. Len(Events(s)') \in Nat
      BY <3>3, EventsFacts DEF Events
    <3> QED BY <1>4, <2>1, <3>2, <3>4 DEF Keeps, Fetch, sendVars, TypeOK
  <2>2. CASE t # s
    BY <1>0, <1>4, <2>2 DEF Keeps, Events, Fetch, sendVars, TypeOK
  <2> QED BY <2>1, <2>2
<1>5. ASSUME NEW t \in SubscriptionId, PipeForward(t) PROVE Keeps(s)
  <2>1. CASE t = s
    <3>1. /\ Len(Events(s)) \in Nat /\ Len(Events(s)') = Len(Events(s)) + 1
          /\ \A i \in 1..Len(Events(s)) : Events(s)'[i] = Events(s)[i]
      BY <1>5, <2>1, ForwardAppends
    <3> QED BY <1>5, <2>1, <3>1 DEF Keeps, PipeForward, sendVars
  <2>2. CASE t # s
    BY <1>0, <1>5, <2>2 DEF Keeps, Events, PipeForward, sendVars, TypeOK
  <2> QED BY <2>1, <2>2
<1>6. ASSUME NEW t \in SubscriptionId, PipeSkip(t) \/ Disconnect(t) PROVE Keeps(s)
  BY <1>1, <1>6 DEF PipeSkip, Disconnect, sendVars
<1>7. ASSUME NEW t \in SubscriptionId, End(t) PROVE Keeps(s)
  BY <1>1, <1>7 DEF End, sendVars, TypeOK
<1>8. CASE Cleanup
  BY <1>1, <1>8 DEF Cleanup, sendVars, subVars
<1>9. CASE UNCHANGED vars
  BY <1>1, <1>9 DEF vars, subVars
<1> QED
  BY <1>2, <1>3, <1>4, <1>5, <1>6, <1>7, <1>8, <1>9
     DEF Next, FetchFails, Pipe, PipeBroken, PipeClosed

-----------------------------------------------------------------------------
(* The page and its server are a SubscriptionsHandler.                     *)

(* Every step is one of the subscriptions handler or leaves it alone: the  *)
(* id a page comes back with is that of a row.                             *)
LEMMA PageStep == PageTypeOK /\ [PageNext]_allVars => [Next]_vars
<1> SUFFICES ASSUME PageTypeOK, [PageNext]_allVars PROVE [Next]_vars
  OBVIOUS
<1>1. CASE Server /\ UNCHANGED pageVars
  BY <1>1 DEF Server, Next
<1>2. ASSUME NEW s \in SubscriptionId, QueryFails(s) PROVE Next
  BY <1>2 DEF QueryFails, Next
<1>3. ASSUME NEW s \in SubscriptionId, Notice(s) PROVE Next
  BY <1>3 DEF Notice, Next
<1>4. ASSUME NEW s \in SubscriptionId, OtherSubscribes(s) PROVE Next
  BY <1>4 DEF OtherSubscribes, Next
<1>5. ASSUME NEW s \in Connection, Connect(s) PROVE Next
  <2>1. lastEventId \in stored \cup {NoStart, UnknownId}
    BY DEF PageTypeOK
  <2>2. s \in SubscriptionId /\ Subscribe(s, lastEventId)
    BY <1>5, ReconnectAssumption DEF Connect, StartingPoint
  <2> QED BY <2>1, <2>2 DEF Next
<1>6. CASE Refused \/ OnMessage \/ StreamEnds \/ Lose
  BY <1>6 DEF Refused, OnMessage, StreamEnds, Lose
<1>7. CASE UNCHANGED allVars
  BY <1>7 DEF allVars
<1> QED BY <1>1, <1>2, <1>3, <1>4, <1>5, <1>6, <1>7 DEF PageNext

LEMMA PageTypeInit == PageInit => PageTypeOK
BY TypeInit, ReconnectAssumption DEF PageInit, PageTypeOK

(* What the page got it has seen, whatever is sent on after that.          *)
LEMMA ReceivedKeeps ==
  ASSUME PageTypeOK, TypeOK', NEW s \in Connection, Keeps(s),
         source = s, got' = got, seen \subseteq seen'
  PROVE  /\ phase'[s] # "idle"
         /\ got' <= Len(Events(s)')
         /\ Received(s)' = Received(s)
         /\ Received(s)' \subseteq seen'
<1>1. s \in SubscriptionId
  BY ReconnectAssumption
<1>2. got \in Nat /\ got <= Len(Events(s)) /\ Received(s) \subseteq seen
  BY DEF PageTypeOK
<1>3. /\ Len(Events(s)) \in Nat /\ Len(Events(s)') \in Nat
      /\ Len(Events(s)') >= Len(Events(s))
  BY <1>1, EventsFacts DEF PageTypeOK, TypeOK, Events, Keeps
<1>4. \A i \in 1..got : Events(s)'[i] = Events(s)[i]
  BY <1>2, <1>3 DEF Keeps
<1>5. Received(s)' = Received(s)
  BY <1>4 DEF Received
<1> QED BY <1>2, <1>3, <1>5 DEF Keeps, PageTypeOK

(* What PageTypeOK says of the connection.                                 *)
LEMMA PageTypeOf ==
  ASSUME NEW s, source' = s
  PROVE  /\ Received(source)' = Received(s)'
         /\ Len(Events(source)') = Len(Events(s)')
BY DEF Received, Events

LEMMA PageTypeNext ==
  IInv /\ IInv' /\ PageTypeOK /\ [PageNext]_allVars => PageTypeOK'
<1> SUFFICES ASSUME IInv, IInv', PageTypeOK, [PageNext]_allVars PROVE PageTypeOK'
  OBVIOUS
<1> USE ReconnectAssumption
<1>1. TypeOK /\ ReaderInv /\ TypeOK' /\ [Next]_vars
  BY PageStep DEF IInv
<1>2. \A s \in SubscriptionId : Keeps(s)
  BY <1>1, StepKeeps
<1>3. ASSUME UNCHANGED <<source, got, lastEventId, seen, repeated, passed>>,
             stored \subseteq stored'
      PROVE  PageTypeOK'
  <2>1. CASE source \in Connection
    <3>1. PICK s \in Connection : source = s
      BY <2>1
    <3>2. Keeps(s)
      BY <1>2
    <3>3. phase'[s] # "idle" /\ got' <= Len(Events(s)') /\ Received(s)' \subseteq seen'
      BY <1>1, <1>3, <3>1, <3>2, ReceivedKeeps
    <3>4. source' = s
      BY <1>3, <3>1
    <3>5. phase'[source'] # "idle" /\ got' <= Len(Events(source)') /\ Received(source)' \subseteq seen'
      BY <3>3, <3>4, PageTypeOf
    <3> QED BY <1>1, <1>3, <3>5 DEF PageTypeOK
  <2>2. CASE source \notin Connection
    BY <1>1, <1>3, <2>2 DEF PageTypeOK
  <2> QED BY <2>1, <2>2
<1>5. stored \subseteq stored'
  BY <1>1 DEF Next, SendMessage, CreateMessage, CreateMessageFails, HandleNewMessage,
     HandleFromFails, HandleFrom, HandleToFails, HandleTo, Subscribe, Fetch, FetchFails, End,
     Pipe, PipeForward, PipeSkip, PipeBroken, PipeClosed, Disconnect, Cleanup, sendVars, vars
<1>6. CASE UNCHANGED pageVars
  BY <1>3, <1>5, <1>6 DEF pageVars
<1>7. ASSUME source' \notin Connection, source' \in {Waiting, GivenUp},
             UNCHANGED <<got, lastEventId, seen, repeated, passed>>
      PROVE  PageTypeOK'
  BY <1>1, <1>5, <1>7 DEF PageTypeOK
<1>8. ASSUME NEW s \in SubscriptionId, QueryFails(s) PROVE PageTypeOK'
  BY <1>3, <1>5, <1>7, <1>8 DEF QueryFails
<1>9. ASSUME NEW s \in Connection, Connect(s) PROVE PageTypeOK'
  <2>1. Subscribe(s, lastEventId) /\ s \in SubscriptionId
    BY <1>9 DEF Connect, StartingPoint
  <2>2. phase'[s] # "idle"
    BY <1>1, <2>1 DEF Subscribe, TypeOK
  <2>3. Len(Events(s)') \in Nat
    BY <1>1, <2>1, EventsFacts DEF Events, TypeOK
  <2>4. Received(s)' = {}
    BY <1>9 DEF Received, Connect
  <2>5. Len(Events(source)') = Len(Events(s)') /\ Received(source)' = Received(s)'
    BY <1>9, PageTypeOf DEF Connect
  <2> QED BY <1>1, <1>5, <1>9, <2>2, <2>3, <2>4, <2>5 DEF PageTypeOK, Connect
<1>10. CASE OnMessage
  <2>0. PICK s \in Connection : source = s
    BY <1>10 DEF OnMessage
  <2> DEFINE m == Events(s)[got + 1]
  <2>1. /\ got < Len(Events(s)) /\ got \in Nat
        /\ UNCHANGED vars /\ source' = s /\ got' = got + 1
        /\ seen' = seen \cup {m} /\ lastEventId' = m
        /\ repeated' \subseteq repeated \cup {m} /\ passed' = passed
    BY <1>10, <2>0 DEF OnMessage, PageTypeOK
  <2>2. history[s] \in Seq(MessageId) /\ live[s] \in Seq(MessageId)
    BY <1>1 DEF TypeOK
  <2>3. Len(Events(s)) \in Nat
    BY <2>2, EventsFacts DEF Events
  <2>4. m \in Delivered(s)
    <3>1. got + 1 \in 1..Len(Events(s))
      BY <2>1, <2>3
    <3>2. \A i \in 1..Len(Events(s)) : Events(s)[i] \in Range(history[s]) \cup Range(live[s])
      BY <2>2, EventsFacts DEF Events
    <3> QED BY <3>1, <3>2 DEF Delivered
  <2>5. m \in stored
    BY <2>4 DEF IInv, ReaderInv, OnlyOwnMessages
  <2> HIDE DEF m
  <2>6. Events(s)' = Events(s) /\ phase'[s] = phase[s] /\ stored' = stored
    BY <2>1 DEF Events, vars, subVars
  <2>7. Received(s)' \subseteq seen'
    <3> SUFFICES ASSUME NEW i \in 1..got + 1 PROVE Events(s)[i] \in seen'
      BY <2>1, <2>6 DEF Received
    <3>1. CASE i = got + 1
      BY <2>1, <3>1 DEF m
    <3>2. CASE i \in 1..got
      BY <2>0, <2>1, <3>2 DEF PageTypeOK, Received
    <3> QED BY <2>1, <3>1, <3>2
  <2>8. Len(Events(source)') = Len(Events(s)') /\ Received(source)' = Received(s)'
    BY <2>1, PageTypeOf
  <2> QED BY <1>1, <2>0, <2>1, <2>3, <2>5, <2>6, <2>7, <2>8 DEF PageTypeOK
<1>11. CASE Refused \/ StreamEnds \/ Lose
  BY <1>7, <1>11 DEF Refused, StreamEnds, Lose
<1> QED
  BY <1>6, <1>8, <1>9, <1>10, <1>11 DEF PageNext, Notice, OtherSubscribes, allVars

(* A page with its connections is a subscriptions handler: what is proved  *)
(* of a subscription holds of every connection.                            *)
THEOREM PageImplements == PageSafetySpec => SafetySpec /\ []PageTypeOK
<1>1. PageInit => Init /\ IInv /\ PageTypeOK
  BY PageTypeInit, TypeInit, RegisteredInit, ChannelInit, ReaderInit, CoverageInit
     DEF PageInit, IInv
<1>2. IInv /\ [Next]_vars => IInv'
  BY TypeNext, RegisteredNext, ChannelNext, ReaderNext, CoverageNext DEF IInv
<1>3. IInv /\ PageTypeOK /\ [PageNext]_allVars => [Next]_vars /\ IInv' /\ PageTypeOK'
  BY <1>2, PageStep, PageTypeNext
<1> QED BY <1>1, <1>3, PTL DEF PageSafetySpec, SafetySpec

-----------------------------------------------------------------------------
(* Nothing falls through between one connection and the next.              *)

(* What a connection found in the table and does not ask for is passed.    *)
PassedInv ==
  \A s \in Connection : source = s =>
    \A m \in baseline[s] :
      m \in passed \/ (start[s] \in stored /\ After(m, start[s]))

LEMMA PassedInit == PageInit => PassedInv
BY ReconnectAssumption DEF PageInit, PassedInv

LEMMA PassedNext ==
  IInv /\ PageTypeOK /\ PassedInv /\ [PageNext]_allVars => PassedInv'
<1> SUFFICES ASSUME IInv, PageTypeOK, PassedInv, [PageNext]_allVars,
                    NEW s \in Connection, source' = s, NEW m \in baseline'[s]
             PROVE  m \in passed' \/ (start'[s] \in stored' /\ After(m, start'[s]))
  BY DEF PassedInv, After
<1> USE ReconnectAssumption
<1>1. CASE source = s /\ passed' = passed
  <2>1. TypeOK /\ ReaderInv /\ [Next]_vars
    BY PageStep DEF IInv
  <2>2. Keeps(s)
    BY <2>1, StepKeeps
  <2>3. phase[s] # "idle"
    BY <1>1 DEF PageTypeOK
  <2> QED BY <1>1, <2>2, <2>3 DEF Keeps, PassedInv
<1>2. CASE Connect(s)
  <2>1. /\ Subscribe(s, lastEventId)
        /\ passed' = passed \cup {n \in stored : lastEventId = NoStart \/ ~After(n, lastEventId)}
    BY <1>2 DEF Connect, StartingPoint
  <2>2. baseline'[s] = stored /\ start'[s] = lastEventId /\ stored' = stored
    BY <2>1 DEF Subscribe, sendVars, IInv, TypeOK
  <2>3. lastEventId \in stored \cup {NoStart}
    BY DEF PageTypeOK
  <2> QED BY <2>1, <2>2, <2>3
<1>3. ASSUME NEW t \in Connection, Connect(t), t # s PROVE FALSE
  BY <1>3 DEF Connect
<1> QED
  BY <1>1, <1>2, <1>3
     DEF PageNext, QueryFails, Notice, OtherSubscribes, Refused, OnMessage, StreamEnds, Lose,
         pageVars, allVars

(* A connected page has seen everything handled for its user, or it is on  *)
(* its way, or it was passed by a starting point with a later timestamp.   *)
THEOREM NoGapCorrect == PageSafetySpec => []NoGap
<1>1. ASSUME IInv, PageTypeOK, PassedInv PROVE NoGap
  <2> SUFFICES ASSUME NEW s \in Connection, source = s, phase[s] = "piping",
                      NEW m \in MessageId, Owed(m, Page)
               PROVE  m \in seen \cup passed \cup Coming(s)
    BY DEF NoGap
  <2> USE ReconnectAssumption
  <2>1. CASE InScope(m, s)
    <3>1. Covered(m, s)
      BY <1>1, <2>1, CoverageImplies DEF IInv, NothingMissed
    <3>2. CASE m \in Delivered(s)
      <4>1. history[s] \in Seq(MessageId) /\ live[s] \in Seq(MessageId)
        BY <1>1 DEF IInv, TypeOK
      <4>0. \A n \in Delivered(s) : \E i \in 1..Len(Events(s)) : Events(s)[i] = n
        BY <4>1, EventsFacts DEF Delivered, Events
      <4>2. PICK i \in 1..Len(Events(s)) : Events(s)[i] = m
        BY <3>2, <4>0
      <4>3. Len(Events(s)) \in Nat /\ got \in Nat
        BY <1>1, <4>1, EventsFacts DEF Events, PageTypeOK
      <4>4. CASE i <= got
        BY <1>1, <4>2, <4>3, <4>4 DEF PageTypeOK, Received
      <4>5. CASE i > got
        BY <4>2, <4>3, <4>5 DEF Coming
      <4> QED BY <4>3, <4>4, <4>5
    <3> QED BY <3>1, <3>2 DEF Covered, Coming
  <2>2. CASE ~InScope(m, s)
    BY <1>1, <2>2 DEF InScope, PassedInv
  <2> QED BY <2>1, <2>2
<1>2. PageSafetySpec => [](IInv /\ PageTypeOK)
  BY PageImplements, Inductive, PTL
<1>3. PageSafetySpec => []PassedInv
  BY <1>2, PassedInit, PassedNext, PTL DEF PageSafetySpec
<1> QED BY <1>1, <1>2, <1>3, PTL

-----------------------------------------------------------------------------
(* What the page may see again.                                            *)

(* Message m has been sent to user u for good.                             *)
PublishedTo(m, u) ==
  \/ send[m] = "sending" /\ u = From[m]
  \/ send[m] \in {"sent", "unheard"} /\ Concerns(m, u)

(* The page may still get m from the channel of connection s.              *)
Awaited(m, s) ==
  \/ \E i \in got + 1 .. Len(Events(s)) : Events(s)[i] = m
  \/ s \in Receiving /\ m \in Unread(s)

(* A live message is one that was sent; one the page has seen and that is  *)
(* no row of a query was sent too and is not awaited again.                *)
RepeatInv ==
  /\ \A s \in Connection : \A m \in Range(live[s]) : PublishedTo(m, Page)
  /\ \A m \in seen :
       \/ \E s \in Connection : m \in Range(history[s])
       \/ PublishedTo(m, Page) /\ \A s \in Connection : source = s => ~Awaited(m, s)
  /\ OnlyRowsRepeat

LEMMA RepeatInit == PageInit => RepeatInv
BY EmptyFacts, ReconnectAssumption DEF PageInit, Init, RepeatInv, OnlyRowsRepeat

(* What has been sent stays so, and rows stay what a query returned.       *)
LEMMA SentStays ==
  ASSUME IInv, [Next]_vars
  PROVE  /\ \A m \in MessageId : \A u : PublishedTo(m, u) => PublishedTo(m, u)'
         /\ \A s \in SubscriptionId : Range(history[s]) \subseteq Range(history'[s])
<1>1. ASSUME NEW m \in MessageId, SendMessage(m) \/ HandleNewMessage(m)
      PROVE  \A n \in MessageId : \A u : PublishedTo(n, u) => PublishedTo(n, u)'
  BY <1>1 DEF SendMessage, CreateMessage, CreateMessageFails, HandleNewMessage, HandleFromFails,
     HandleFrom, HandleToFails, HandleTo, PublishedTo, Concerns, IInv, TypeOK
<1>2. send' = send => \A n \in MessageId : \A u : PublishedTo(n, u) => PublishedTo(n, u)'
  BY DEF PublishedTo, Concerns
<1>3. ASSUME NEW t \in SubscriptionId, Fetch(t), NEW s \in SubscriptionId
      PROVE  Range(history[s]) \subseteq Range(history'[s])
  <2>1. CASE s = t
    BY <1>3, <2>1, EmptyFacts DEF Fetch, IInv, ReaderInv
  <2>2. CASE s # t
    BY <1>3, <2>2 DEF Fetch, IInv, TypeOK
  <2> QED BY <2>1, <2>2
<1> QED
  BY <1>1, <1>2, <1>3
     DEF Next, SendMessage, CreateMessage, CreateMessageFails, HandleNewMessage,
         HandleFromFails, HandleFrom, HandleToFails, HandleTo, Subscribe, Fetch, FetchFails, End,
         Pipe, PipeForward, PipeSkip, PipeBroken, PipeClosed, Disconnect, Cleanup,
         sendVars, subVars, vars

(* What a receiver reads next has been sent to its user.                   *)
LEMMA ChannelPublished ==
  ASSUME IInv, NEW s \in Receiving, NEW i \in 1..Len(log[rx[s]])
  PROVE  /\ log[rx[s]][i] \in MessageId
         /\ PublishedTo(log[rx[s]][i], Subscriber[s])
<1> USE SubscriptionAssumption
<1>1. s \in SubscriptionId /\ rx[s] \in SubscriptionId /\ log[rx[s]] \in Seq(MessageId)
  BY DEF IInv, TypeOK, Receiving
<1>2. Subscriber[rx[s]] = Subscriber[s]
  BY <1>1 DEF IInv, NoOrphanedReceiver, ChannelInv
<1>3. log[rx[s]][i] \in Range(log[rx[s]])
  BY <1>1 DEF Range
<1> QED BY <1>1, <1>2, <1>3 DEF IInv, ChannelInv, Published, PublishedTo

(* Every message a subscription sends on live has been sent to its user.   *)
LEMMA LiveNext ==
  ASSUME IInv, [Next]_vars, NEW s \in Connection,
         \A m \in Range(live[s]) : PublishedTo(m, Page)
  PROVE  \A m \in Range(live'[s]) : PublishedTo(m, Page)'
<1> USE ReconnectAssumption
<1>1. \A m \in Range(live[s]) : m \in MessageId /\ PublishedTo(m, Page)'
  <2>1. live[s] \in Seq(MessageId)
    BY DEF IInv, TypeOK
  <2>2. \A m \in Range(live[s]) : m \in MessageId
    BY <2>1 DEF Range
  <2> QED BY <2>2, SentStays
<1>2. CASE PipeForward(s)
  <2>1. s \in Receiving /\ cursor[s] + 1 \in 1..Len(log[rx[s]])
    <3>1. s \in Receiving /\ cursor[s] < Len(log[rx[s]])
      BY <1>2 DEF PipeForward, Receives, Receiving
    <3>2. cursor[s] \in Nat /\ Len(log[rx[s]]) \in Nat
      BY <3>1 DEF IInv, TypeOK, Receiving
    <3> QED BY <3>1, <3>2
  <2>2. PICK n \in MessageId : n = log[rx[s]][cursor[s] + 1] /\ PublishedTo(n, Page)
    BY <2>1, ChannelPublished
  <2>3. PublishedTo(n, Page)'
    BY <2>2, SentStays
  <2>4. live'[s] = Append(live[s], n) /\ live[s] \in Seq(MessageId)
    BY <1>2, <2>2 DEF PipeForward, IInv, TypeOK
  <2>5. Range(live'[s]) = Range(live[s]) \cup {n}
    BY <2>2, <2>4, AppendFacts
  <2> QED BY <1>1, <2>3, <2>5
<1>3. ASSUME ~PipeForward(s) PROVE live'[s] = live[s]
  BY <1>3
     DEF IInv, TypeOK, Next, SendMessage, CreateMessage, CreateMessageFails, HandleNewMessage,
         HandleFromFails, HandleFrom, HandleToFails, HandleTo, Subscribe, Fetch, FetchFails, End,
         Pipe, PipeForward, PipeSkip, PipeBroken, PipeClosed, Disconnect, Cleanup, subVars, vars
<1> QED BY <1>1, <1>2, <1>3

(* A step of the server that leaves a connection alone, and its channel up *)
(* to a message at its end that is not m, does not make it await m.        *)
LEMMA AwaitedFrame ==
  ASSUME IInv, NEW s \in SubscriptionId, NEW m \in MessageId, ~Awaited(m, s),
         got' = got, history'[s] = history[s], live'[s] = live[s],
         s \in Receiving' => s \in Receiving /\ rx'[s] = rx[s] /\ cursor'[s] >= cursor[s]
                            /\ cursor'[s] \in Nat,
         s \in Receiving => \/ log'[rx[s]] = log[rx[s]]
                           \/ \E n \in MessageId \ {m} : log'[rx[s]] = Append(log[rx[s]], n)
  PROVE  ~Awaited(m, s)'
<1>1. Events(s)' = Events(s)
  BY DEF Events
<1>2. ASSUME s \in Receiving' PROVE m \notin Unread(s)'
  <2>1. /\ s \in Receiving /\ rx'[s] = rx[s] /\ cursor'[s] >= cursor[s] /\ cursor'[s] \in Nat
        /\ m \notin Unread(s)
    BY <1>2 DEF Awaited
  <2>2. log[rx[s]] \in Seq(MessageId) /\ Len(log[rx[s]]) \in Nat /\ cursor[s] \in Nat
    BY <2>1 DEF IInv, TypeOK
  <2>3. CASE log'[rx[s]] = log[rx[s]]
    BY <2>1, <2>2, <2>3 DEF Unread
  <2>4. ASSUME NEW n \in MessageId \ {m}, log'[rx[s]] = Append(log[rx[s]], n)
        PROVE  m \notin Unread(s)'
    <3>1. /\ Len(log'[rx[s]]) = Len(log[rx[s]]) + 1
          /\ \A i \in 1..Len(log[rx[s]]) : log'[rx[s]][i] = log[rx[s]][i]
          /\ log'[rx[s]][Len(log[rx[s]]) + 1] = n
      BY <2>2, <2>4, AppendFacts
    <3>2. ASSUME NEW i \in cursor'[s] + 1 .. Len(log'[rx'[s]]), log'[rx'[s]][i] = m PROVE FALSE
      <4>0. i \in Int /\ i <= Len(log[rx[s]]) + 1
        <5>1. Len(log'[rx'[s]]) = Len(log[rx[s]]) + 1
          BY <2>1, <3>1
        <5> QED BY <2>1, <2>2, <5>1
      <4>1. CASE i = Len(log[rx[s]]) + 1
        BY <2>1, <2>4, <3>1, <3>2, <4>1
      <4>2. CASE i <= Len(log[rx[s]])
        <5>1. cursor'[s] \in Nat /\ cursor[s] \in Nat /\ cursor'[s] >= cursor[s] /\ rx'[s] = rx[s]
          BY <2>1, <2>2
        <5>2. i >= cursor'[s] + 1
          BY <4>0, <5>1
        <5>3. i \in cursor[s] + 1 .. Len(log[rx[s]]) /\ i \in 1..Len(log[rx[s]])
          BY <2>2, <4>0, <4>2, <5>1, <5>2
        <5>4. log[rx[s]][i] = m
          BY <3>1, <3>2, <5>1, <5>3
        <5> QED BY <2>1, <5>3, <5>4 DEF Unread
      <4> QED BY <2>2, <4>0, <4>1, <4>2
    <3> QED BY <3>2 DEF Unread
  <2> QED BY <2>1, <2>3, <2>4
<1> QED BY <1>1, <1>2 DEF Awaited

(* What a connection does not await it will only get as a row of a query,  *)
(* when it has been sent to the page's user for good.                      *)
LEMMA AwaitedNext ==
  ASSUME IInv, IInv', [Next]_vars, NEW s \in Connection, NEW m \in MessageId,
         phase[s] # "idle", got' = got, got \in Nat,
         PublishedTo(m, Page), ~Awaited(m, s)
  PROVE  m \in Range(history'[s]) \/ ~Awaited(m, s)'
<1> USE ReconnectAssumption, MessageAssumption, SubscriptionAssumption
<1>0. s \in SubscriptionId /\ TypeOK /\ TypeOK'
  BY DEF IInv
<1>1. ASSUME NEW n \in MessageId, NEW u \in UserId, log' = Publish(n, u),
             UNCHANGED subVars, n = m => u # Page
      PROVE  ~Awaited(m, s)'
  <2>1. s \in Receiving => new_messages[Page] = rx[s] /\ rx[s] \in SubscriptionId
    BY DEF IInv, NoOrphanedReceiver, TypeOK
  <2>2. s \in Receiving /\ rx[s] = new_messages[u] => u = Page
    BY <2>1 DEF IInv, ChannelInv
  <2>3. s \in Receiving /\ rx[s] # new_messages[u] => log'[rx[s]] = log[rx[s]]
    BY <1>0, <1>1, <2>1, PublishFacts
  <2>4. s \in Receiving /\ rx[s] = new_messages[u] => log'[rx[s]] = Append(log[rx[s]], n)
    BY <1>0, <1>1, <2>1, PublishFacts
  <2>5. s \in Receiving => cursor'[s] >= cursor[s] /\ cursor'[s] \in Nat
    BY <1>0, <1>1 DEF subVars, TypeOK
  <2> QED BY <1>0, <1>1, <2>2, <2>3, <2>4, <2>5, AwaitedFrame DEF subVars, Receiving
<1>2. ASSUME NEW n \in MessageId, HandleFrom(n) PROVE ~Awaited(m, s)'
  BY <1>1, <1>2 DEF HandleFrom, PublishedTo
<1>3. ASSUME NEW n \in MessageId, HandleTo(n) PROVE ~Awaited(m, s)'
  BY <1>1, <1>3 DEF HandleTo, PublishedTo, IInv, ChannelInv
<1>4. ASSUME log' = log, history'[s] = history[s], live'[s] = live[s],
             s \in Receiving' => s \in Receiving /\ rx'[s] = rx[s] /\ cursor'[s] >= cursor[s]
      PROVE  ~Awaited(m, s)'
  BY <1>0, <1>4, AwaitedFrame DEF TypeOK
<1>5. ASSUME NEW t \in SubscriptionId, NEW p, Subscribe(t, p) PROVE ~Awaited(m, s)'
  <2>1. t # s
    BY <1>5 DEF Subscribe
  <2> QED BY <1>0, <1>4, <1>5, <2>1 DEF Subscribe, Receiving, TypeOK
<1>6. ASSUME NEW t \in SubscriptionId, Fetch(t), t # s PROVE ~Awaited(m, s)'
  BY <1>0, <1>4, <1>6 DEF Fetch, Receiving, TypeOK
<1>7. CASE Fetch(s)
  <2>1. live'[s] = <<>> /\ live[s] = <<>> /\ UNCHANGED <<log, rx, cursor>> /\ s \in Receiving
    BY <1>0, <1>7 DEF Fetch, IInv, ReaderInv, Receiving
  <2>2. m \notin Unread(s)'
    BY <2>1 DEF Unread, Awaited
  <2>3. history'[s] \in Seq(MessageId) /\ live'[s] \in Seq(MessageId)
    BY <1>0 DEF TypeOK
  <2>4. \A i \in 1..Len(Events(s)') : Events(s)'[i] \in Range(history'[s]) \cup Range(live'[s])
    BY <2>3, EventsFacts DEF Events
  <2>5. \A i \in got + 1 .. Len(Events(s)') : Events(s)'[i] \in Range(history'[s])
    BY <2>1, <2>4, EmptyFacts
  <2> QED BY <2>2, <2>5 DEF Awaited
<1>8. ASSUME NEW t \in SubscriptionId, End(t) PROVE ~Awaited(m, s)'
  BY <1>0, <1>4, <1>8 DEF End, Receiving, TypeOK
<1>9. ASSUME NEW t \in SubscriptionId, PipeForward(t), t # s PROVE ~Awaited(m, s)'
  BY <1>0, <1>4, <1>9 DEF PipeForward, Receiving, TypeOK
<1>10. CASE PipeForward(s)
  <2>1. /\ s \in Receiving /\ rx[s] \in SubscriptionId /\ cursor[s] \in Nat
        /\ Len(log[rx[s]]) \in Nat /\ cursor[s] + 1 \in 1..Len(log[rx[s]])
        /\ UNCHANGED <<log, rx, history>> /\ cursor'[s] = cursor[s] + 1
    <3>1. /\ s \in Receiving /\ cursor[s] < Len(log[rx[s]])
          /\ UNCHANGED <<log, rx, history>> /\ cursor' = [cursor EXCEPT ![s] = @ + 1]
      BY <1>10 DEF PipeForward, Receives, Receiving
    <3>2. /\ rx[s] \in SubscriptionId /\ cursor \in [SubscriptionId -> Nat]
          /\ Len(log[rx[s]]) \in Nat
      BY <1>0, <3>1 DEF TypeOK, Receiving
    <3>3. cursor'[s] = cursor[s] + 1 /\ cursor[s] \in Nat
      BY <3>1, <3>2
    <3> QED BY <3>1, <3>2, <3>3
  <2>2. PICK n \in MessageId :
          /\ n = log[rx[s]][cursor[s] + 1]
          /\ Len(Events(s)) \in Nat
          /\ Len(Events(s)') = Len(Events(s)) + 1
          /\ \A i \in 1..Len(Events(s)) : Events(s)'[i] = Events(s)[i]
          /\ Events(s)'[Len(Events(s)) + 1] = n
    BY <1>0, <1>10, ForwardAppends
  <2>3. n # m /\ m \notin Unread(s)'
    <3>1. n # m /\ m \notin Unread(s)
      BY <2>1, <2>2 DEF Awaited, Unread
    <3>2. Unread(s)' \subseteq Unread(s)
      BY <2>1 DEF Unread
    <3> QED BY <3>1, <3>2
  <2>4. ASSUME NEW i \in got + 1 .. Len(Events(s)'), Events(s)'[i] = m PROVE FALSE
    <3>1. CASE i = Len(Events(s)) + 1
      BY <2>2, <2>3, <2>4, <3>1
    <3>2. CASE i \in got + 1 .. Len(Events(s))
      BY <2>2, <2>4, <3>2 DEF Awaited
    <3> QED BY <2>2, <2>4, <3>1, <3>2
  <2> QED BY <2>3, <2>4 DEF Awaited
<1>11. ASSUME NEW t \in SubscriptionId, PipeSkip(t) \/ Disconnect(t) PROVE ~Awaited(m, s)'
  <2>0. cursor \in [SubscriptionId -> Nat]
    BY <1>0 DEF TypeOK
  <2>1. cursor'[s] \in {cursor[s], cursor[s] + 1}
    BY <1>11, <2>0 DEF PipeSkip, Disconnect
  <2>2. cursor'[s] >= cursor[s]
    <3>1. cursor[s] \in Nat
      BY <2>0
    <3> QED BY <2>1, <3>1
  <2> QED BY <1>4, <1>11, <2>2 DEF PipeSkip, Disconnect, Receiving
<1>12. ASSUME log' = log, UNCHANGED subVars PROVE ~Awaited(m, s)'
  BY <1>0, <1>4, <1>12 DEF subVars, Receiving, TypeOK
<1> QED
  BY <1>2, <1>3, <1>5, <1>6, <1>7, <1>8, <1>9, <1>10, <1>11, <1>12
     DEF Next, SendMessage, CreateMessage, CreateMessageFails, HandleNewMessage, HandleFromFails,
         HandleToFails, FetchFails, Pipe, PipeBroken, PipeClosed, Cleanup, vars

(* A subscription sends no event twice.                                    *)
LEMMA EventsInjective ==
  ASSUME IInv, NEW s \in SubscriptionId,
         NEW i \in 1..Len(Events(s)), NEW j \in 1..Len(Events(s)), Events(s)[i] = Events(s)[j]
  PROVE  i = j
<1> DEFINE h == history[s]
           l == live[s]
<1>1. h \in Seq(MessageId) /\ l \in Seq(MessageId)
  BY DEF IInv, TypeOK
<1>2. IsInjective(h) /\ IsInjective(l) /\ Range(h) \cap Range(l) = {}
  BY DEF IInv, ReaderInv, NoDuplicates
<1> HIDE DEF h, l
<1>3. /\ Len(h) \in Nat /\ Len(l) \in Nat
      /\ DOMAIN h = 1..Len(h) /\ DOMAIN l = 1..Len(l)
      /\ Len(h \o l) = Len(h) + Len(l)
      /\ \A k \in 1..Len(h) : (h \o l)[k] = h[k]
      /\ \A k \in Len(h) + 1 .. Len(h) + Len(l) : (h \o l)[k] = l[k - Len(h)]
  BY <1>1, EventsFacts
<1>4. Events(s) = h \o l
  BY DEF Events, h, l
<1>5. i \in 1..Len(h) + Len(l) /\ j \in 1..Len(h) + Len(l) /\ (h \o l)[i] = (h \o l)[j]
  BY <1>3, <1>4
<1>6. CASE i <= Len(h) /\ j <= Len(h)
  <2>1. i \in DOMAIN h /\ j \in DOMAIN h /\ h[i] = h[j]
    BY <1>3, <1>5, <1>6
  <2> QED BY <1>2, <2>1 DEF IsInjective
<1>7. CASE i > Len(h) /\ j > Len(h)
  <2>1. i - Len(h) \in DOMAIN l /\ j - Len(h) \in DOMAIN l
    BY <1>3, <1>5, <1>7
  <2>2. l[i - Len(h)] = l[j - Len(h)]
    BY <1>3, <1>5, <1>7
  <2>3. i - Len(h) = j - Len(h)
    BY <1>2, <2>1, <2>2 DEF IsInjective
  <2> QED BY <1>3, <1>5, <2>3
<1>8. ASSUME NEW a \in 1..Len(h), NEW b \in Len(h) + 1 .. Len(h) + Len(l),
             (h \o l)[a] = (h \o l)[b]
      PROVE  FALSE
  <2>1. h[a] \in Range(h)
    BY <1>3 DEF Range
  <2>2. b - Len(h) \in DOMAIN l
    BY <1>3
  <2>3. l[b - Len(h)] \in Range(l)
    BY <2>2 DEF Range
  <2>4. h[a] = l[b - Len(h)]
    BY <1>3, <1>8
  <2> QED BY <1>2, <2>1, <2>3, <2>4
<1>9. CASE i <= Len(h) /\ j > Len(h)
  BY <1>3, <1>5, <1>8, <1>9
<1>10. CASE i > Len(h) /\ j <= Len(h)
  BY <1>3, <1>5, <1>8, <1>10
<1> QED BY <1>3, <1>5, <1>6, <1>7, <1>9, <1>10

(* onmessage shows a message again only if it is a row, and one that is no *)
(* row will not come again.                                                *)
LEMMA RepeatOnMessage ==
  ASSUME IInv, PageTypeOK, RepeatInv, OnMessage
  PROVE  RepeatInv'
<1> USE ReconnectAssumption
<1>1. PICK s \in Connection : source = s
  BY DEF OnMessage
<1>2. PICK e : e = Events(s)[got + 1]
  OBVIOUS
<1>3. /\ got \in Nat /\ got + 1 \in 1..Len(Events(s)) /\ Len(Events(s)) \in Nat
      /\ UNCHANGED vars /\ source' = source /\ got' = got + 1 /\ seen' = seen \cup {e}
      /\ repeated' = IF e \in seen THEN repeated \cup {e} ELSE repeated
  <2>1. got \in Nat
    BY DEF PageTypeOK
  <2>2. history[s] \in Seq(MessageId) /\ live[s] \in Seq(MessageId)
    BY DEF IInv, TypeOK
  <2>3. Len(Events(s)) \in Nat
    BY <2>2, EventsFacts DEF Events
  <2> QED BY <1>1, <1>2, <2>1, <2>3 DEF OnMessage
<1>4. UNCHANGED <<send, phase, rx, cursor, log, history, live>> /\ Events(s)' = Events(s)
  BY <1>3 DEF vars, sendVars, subVars, Events
<1>5. \A m, u : PublishedTo(m, u)' <=> PublishedTo(m, u)
  BY <1>4 DEF PublishedTo, Concerns
<1>6. \A m : Awaited(m, s)' => Awaited(m, s)
  BY <1>3, <1>4 DEF Awaited, Unread, Receiving
<1>7. Awaited(e, s)
  BY <1>2, <1>3 DEF Awaited
<1>8. e \in Delivered(s)
  <2>1. history[s] \in Seq(MessageId) /\ live[s] \in Seq(MessageId)
    BY DEF IInv, TypeOK
  <2>2. \A i \in 1..Len(Events(s)) : Events(s)[i] \in Range(history[s]) \cup Range(live[s])
    BY <2>1, EventsFacts DEF Events
  <2> QED BY <1>2, <1>3, <2>2 DEF Delivered
<1>9. ASSUME e \notin Range(history[s]) PROVE PublishedTo(e, Page) /\ ~Awaited(e, s)'
  <2>1. e \in Range(live[s]) /\ PublishedTo(e, Page)
    BY <1>8, <1>9 DEF Delivered, RepeatInv
  <2>2. \A i \in got + 2 .. Len(Events(s)) : Events(s)[i] # e
    BY <1>2, <1>3, EventsInjective
  <2>3. ASSUME s \in Receiving PROVE e \notin Unread(s)
    <3>1. phase[s] = "piping"
      BY <2>1, <2>3, EmptyFacts DEF Receiving, IInv, ReaderInv
    <3>2. PICK i \in 1..cursor[s] : log[rx[s]][i] = e
      BY <2>1, <3>1 DEF IInv, ReaderInv
    <3>3. /\ rx[s] \in SubscriptionId /\ cursor[s] \in Nat /\ cursor[s] <= Len(log[rx[s]])
          /\ log[rx[s]] \in Seq(MessageId) /\ IsInjective(log[rx[s]])
      BY <2>3 DEF IInv, TypeOK, ChannelInv
    <3>4. DOMAIN log[rx[s]] = 1..Len(log[rx[s]]) /\ Len(log[rx[s]]) \in Nat
      BY <3>3
    <3>5. ASSUME NEW j \in cursor[s] + 1 .. Len(log[rx[s]]), log[rx[s]][j] = e PROVE FALSE
      <4>1. i \in DOMAIN log[rx[s]] /\ j \in DOMAIN log[rx[s]] /\ i # j
        BY <3>2, <3>3, <3>4
      <4> QED BY <3>2, <3>3, <3>5, <4>1 DEF IsInjective
    <3> QED BY <3>5 DEF Unread
  <2> QED BY <1>3, <1>4, <2>1, <2>2, <2>3 DEF Awaited, Unread, Receiving
<1>10. ASSUME e \in seen PROVE \E t \in Connection : e \in Range(history[t])
  BY <1>1, <1>7, <1>10 DEF RepeatInv
<1>11. OnlyRowsRepeat'
  BY <1>3, <1>4, <1>10 DEF RepeatInv, OnlyRowsRepeat
<1>12. ASSUME NEW m \in seen'
       PROVE  \/ \E t \in Connection : m \in Range(history[t])
              \/ PublishedTo(m, Page) /\ ~Awaited(m, s)'
  BY <1>1, <1>3, <1>6, <1>9, <1>12 DEF RepeatInv
<1>13. \A t \in Connection : source' = t => t = s
  BY <1>1, <1>3
<1> QED BY <1>4, <1>5, <1>11, <1>12, <1>13 DEF RepeatInv

(* A new connection awaits nothing that was sent before.                   *)
LEMMA ConnectAwaits ==
  ASSUME IInv, NEW s \in Connection, Connect(s), NEW m
  PROVE  ~Awaited(m, s)'
<1> USE ReconnectAssumption, SubscriptionAssumption
<1>1. s \in SubscriptionId /\ Subscribe(s, lastEventId)
  BY DEF Connect, StartingPoint
<1>2. history'[s] = <<>> /\ live'[s] = <<>>
  BY <1>1 DEF Subscribe, IInv, ReaderInv
<1>3. Len(Events(s)') = 0
  BY <1>2 DEF Events
<1>4. PICK c \in SubscriptionId : rx'[s] = c /\ cursor'[s] = Len(log[c]) /\ log' = log
  BY <1>1 DEF Subscribe, IInv, TypeOK
<1>5. Len(log[c]) \in Nat
  BY DEF IInv, TypeOK
<1>6. Unread(s)' = {}
  BY <1>4, <1>5 DEF Unread
<1> QED BY <1>3, <1>6 DEF Awaited, Connect

LEMMA RepeatNext ==
  IInv /\ IInv' /\ PageTypeOK /\ RepeatInv /\ [PageNext]_allVars => RepeatInv'
<1> SUFFICES ASSUME IInv, IInv', PageTypeOK, RepeatInv, [PageNext]_allVars PROVE RepeatInv'
  OBVIOUS
<1> USE ReconnectAssumption
<1>1. [Next]_vars
  BY PageStep
<1>2. \A s \in Connection : \A m \in Range(live'[s]) : PublishedTo(m, Page)'
  BY <1>1, LiveNext DEF RepeatInv
<1>3. \A s \in Connection : Range(history[s]) \subseteq Range(history'[s])
  BY <1>1, SentStays
<1>4. seen \subseteq MessageId
  BY DEF PageTypeOK, TypeOK
<1>5. \A m \in seen : PublishedTo(m, Page) => PublishedTo(m, Page)'
  BY <1>1, <1>4, SentStays
<1>6. ASSUME seen' = seen, repeated' = repeated,
             \A m \in seen : \A s \in Connection :
               source' = s /\ PublishedTo(m, Page) /\ (source = s => ~Awaited(m, s))
                 => m \in Range(history'[s]) \/ ~Awaited(m, s)'
      PROVE  RepeatInv'
  <2>1. OnlyRowsRepeat'
    BY <1>3, <1>6 DEF RepeatInv, OnlyRowsRepeat
  <2>2. ASSUME NEW m \in seen
        PROVE  \/ \E s \in Connection : m \in Range(history'[s])
               \/ PublishedTo(m, Page)' /\ \A s \in Connection : source' = s => ~Awaited(m, s)'
    <3>1. CASE \E s \in Connection : m \in Range(history[s])
      BY <1>3, <3>1
    <3>2. CASE PublishedTo(m, Page) /\ \A s \in Connection : source = s => ~Awaited(m, s)
      BY <1>5, <1>6, <3>2
    <3> QED BY <3>1, <3>2 DEF RepeatInv
  <2> QED BY <1>2, <1>6, <2>1, <2>2 DEF RepeatInv
<1>7. ASSUME UNCHANGED <<source, got, seen, repeated>> PROVE RepeatInv'
  <2>1. ASSUME NEW m \in seen, NEW s \in Connection, source = s,
               PublishedTo(m, Page), ~Awaited(m, s)
        PROVE  m \in Range(history'[s]) \/ ~Awaited(m, s)'
    <3>1. m \in MessageId /\ got \in Nat /\ got' = got /\ phase[s] # "idle"
      BY <1>4, <1>7, <2>1 DEF PageTypeOK
    <3> QED BY <1>1, <2>1, <3>1, AwaitedNext
  <2> QED BY <1>6, <1>7, <2>1
<1>8. ASSUME source' \notin Connection, UNCHANGED <<seen, repeated>> PROVE RepeatInv'
  BY <1>6, <1>8
<1>9. ASSUME NEW s \in Connection, Connect(s) PROVE RepeatInv'
  <2>1. source' = s /\ UNCHANGED <<seen, repeated>>
    BY <1>9 DEF Connect
  <2>2. \A m : ~Awaited(m, s)'
    BY <1>9, ConnectAwaits
  <2> QED BY <1>6, <2>1, <2>2
<1>10. ASSUME NEW s \in SubscriptionId, QueryFails(s) PROVE RepeatInv'
  BY <1>7, <1>8, <1>10 DEF QueryFails
<1>11. CASE OnMessage
  BY <1>11, RepeatOnMessage
<1>12. CASE Refused \/ StreamEnds \/ Lose
  BY <1>8, <1>12 DEF Refused, StreamEnds, Lose
<1>13. CASE UNCHANGED pageVars
  BY <1>7, <1>13 DEF pageVars
<1> QED
  BY <1>9, <1>10, <1>11, <1>12, <1>13 DEF PageNext, Notice, OtherSubscribes, allVars

(* A message is shown twice only when a query has returned it: no channel  *)
(* brings one a second time, over however many connections.                *)
THEOREM OnlyRowsRepeatCorrect == PageSafetySpec => []OnlyRowsRepeat
<1>1. PageSafetySpec => [](IInv /\ PageTypeOK)
  BY PageImplements, Inductive, PTL
<1>2. IInv /\ IInv' /\ PageTypeOK /\ RepeatInv /\ [PageNext]_allVars => RepeatInv'
  BY RepeatNext
<1>3. PageSafetySpec => []RepeatInv
  BY <1>1, <1>2, RepeatInit, PTL DEF PageSafetySpec
<1>4. RepeatInv => OnlyRowsRepeat
  BY DEF RepeatInv
<1> QED BY <1>3, <1>4, PTL
=============================================================================
