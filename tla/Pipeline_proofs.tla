-------------------------- MODULE Pipeline_proofs --------------------------
(***************************************************************************)
(* What Pipeline guarantees for any number of tasks.                       *)
(***************************************************************************)
EXTENDS Pipeline, TLAPS

LEMMA TypeInit == Init => TypeOK
<1> SUFFICES ASSUME Init PROVE TypeOK
  OBVIOUS
<1>1. Tasks \in Task
  BY PipelineAssumption DEF Task
<1>2. chan \in [Task -> Seq(Message)]
  BY PipelineAssumption DEF Init
<1>3. rxOpen[Tasks] = (stream = "streaming")
  BY <1>1 DEF Init
<1>4. /\ written \in Seq(Message) /\ accepted \in Seq(Message)
      /\ running \in [Task -> BOOLEAN] /\ rxOpen \in [Task -> BOOLEAN]
  BY DEF Init
<1> QED BY <1>2, <1>3, <1>4 DEF Init, TypeOK

(* What EndTask leaves behind. *)
LEMMA EndTaskFacts ==
  ASSUME TypeOK, NEW i \in Task, EndTask(i)
  PROVE  /\ running' \in [Task -> BOOLEAN] /\ ~running'[i]
         /\ \A j \in Task : j # i => running'[j] = running[j]
         /\ chan' \in [Task -> Seq(Message)]
         /\ \A j \in Task : j # i - 1 => chan'[j] = chan[j]
         /\ \A j \in Task : chan[j] = <<>> => chan'[j] = <<>>
         /\ rxOpen' \in [Task -> BOOLEAN]
         /\ \A j \in Task : rxOpen'[j] = (rxOpen[j] /\ j # i - 1)
         /\ UNCHANGED <<stream, client, written, accepted>>
BY DEF TypeOK, EndTask

LEMMA TypeNext == TypeOK /\ [Next]_vars => TypeOK'
<1> SUFFICES ASSUME TypeOK, [Next]_vars PROVE TypeOK'
  OBVIOUS
<1> USE PipelineAssumption
<1>0. Tasks \in Task
  BY DEF Task
<1>1. ASSUME NEW m \in Message, Accept(m) PROVE TypeOK'
  <2>1. chan' \in [Task -> Seq(Message)]
    <3>1. 1 \in Task
      BY DEF Task
    <3>2. Append(chan[1], m) \in Seq(Message)
      BY <3>1 DEF TypeOK
    <3> QED BY <1>1, <3>1, <3>2 DEF Accept, TypeOK
  <2>2. stream = "done" => chan'[Tasks] = <<>>
    BY <1>0, <1>1 DEF Accept, TypeOK, Task
  <2> QED BY <1>1, <2>1, <2>2 DEF Accept, TypeOK
<1>2. ASSUME NEW i \in Task, EndTask(i) PROVE TypeOK'
  <2>1. Tasks # i - 1
    BY DEF Task
  <2> QED BY <1>0, <1>2, <2>1, EndTaskFacts DEF TypeOK
<1>3. ASSUME NEW i \in Task, PassOn(i) PROVE TypeOK'
  <2>1. i - 1 \in Task /\ i - 1 # i /\ i - 1 # Tasks
    BY <1>3 DEF PassOn, Task
  <2>2. /\ Head(chan[i - 1]) \in Message
        /\ Tail(chan[i - 1]) \in Seq(Message)
    BY <1>3, <2>1 DEF PassOn, TypeOK
  <2>3. Append(chan[i], Head(chan[i - 1])) \in Seq(Message)
    BY <2>2 DEF TypeOK
  <2>4. chan' \in [Task -> Seq(Message)]
    BY <1>3, <2>1, <2>2, <2>3 DEF PassOn, TypeOK
  <2>5. stream = "done" => chan'[Tasks] = <<>>
    BY <1>0, <1>3, <2>1 DEF PassOn, TypeOK
  <2> QED BY <1>3, <2>4, <2>5 DEF PassOn, TypeOK
<1>4. ASSUME StopStreaming, written' = written PROVE TypeOK'
  BY <1>0, <1>4 DEF StopStreaming, TypeOK
<1>5. ASSUME WriteEvent PROVE TypeOK'
  <2>1. Head(chan[Tasks]) \in Message /\ Tail(chan[Tasks]) \in Seq(Message)
    BY <1>0, <1>5 DEF WriteEvent, TypeOK
  <2> QED BY <1>0, <1>5, <2>1 DEF WriteEvent, TypeOK
<1>6. ASSUME WriteIntoVoid \/ Drain PROVE TypeOK'
  <2>1. Tail(chan[Tasks]) \in Seq(Message)
    BY <1>0, <1>6 DEF WriteIntoVoid, Drain, TypeOK
  <2> QED BY <1>0, <1>6, <2>1 DEF WriteIntoVoid, Drain, TypeOK
<1>7. ASSUME Drained PROVE TypeOK'
  BY <1>7 DEF Drained, TypeOK
<1>8. ASSUME ClientLeaves PROVE TypeOK'
  BY <1>8 DEF ClientLeaves, TypeOK
<1>9. CASE UNCHANGED vars
  BY <1>9 DEF vars, TypeOK
<1>10. 1 \in Task
  BY DEF Task
<1> QED
  BY <1>1, <1>2, <1>3, <1>4, <1>5, <1>6, <1>7, <1>8, <1>9, <1>10
     DEF Next, SourceFails, TaskStep, UpstreamEnded, DownstreamGone, StreamStep,
         WriteFails, StreamEnded, ReadLine, KeepAliveFails

(* Every variable keeps its type, and respond lets go of an empty channel. *)
THEOREM TypeCorrect == Spec => []TypeOK
BY TypeInit, TypeNext, PTL DEF Spec

-----------------------------------------------------------------------------
(* While events are streamed, a channel only loses its receiver when the   *)
(* next task stops.                                                        *)
Closure ==
  stream = "streaming" =>
    \A i \in Task : ~rxOpen[i] => i + 1 \in Task /\ ~running[i + 1]

(* The step with which task i stops while events are streamed finds all    *)
(* tasks before it stopped and their channels empty.                       *)
Stops(i) == UpstreamEnded(i) \/ DownstreamGone(i) \/ (i = 1 /\ SourceFails)

LEMMA StopsLast ==
  ASSUME Closure, NothingStranded, stream = "streaming",
         NEW i \in Task, Stops(i), NEW j \in Task, j < i
  PROVE  ~running[j] /\ chan[j] = <<>>
<1> USE PipelineAssumption
<1>1. CASE UpstreamEnded(i)
  <2>1. i - 1 \in Task /\ ~running[i - 1] /\ chan[i - 1] = <<>>
    BY <1>1 DEF UpstreamEnded, Task
  <2>2. j = i - 1 \/ j < i - 1
    BY DEF Task
  <2> QED BY <2>1, <2>2 DEF NothingStranded
<1>2. CASE DownstreamGone(i)
  <2>1. i + 1 \in Task /\ ~running[i + 1]
    BY <1>2 DEF DownstreamGone, Closure
  <2>2. j < i + 1
    BY DEF Task
  <2> QED BY <2>1, <2>2 DEF NothingStranded
<1>3. CASE i = 1
  BY <1>3 DEF Task
<1> QED BY <1>1, <1>2, <1>3 DEF Stops

LEMMA ClosureInit == Init => Closure /\ NothingStranded
BY DEF Init, Closure, NothingStranded

LEMMA ClosureNext ==
  TypeOK /\ Closure /\ NothingStranded /\ [Next]_vars => Closure' /\ NothingStranded'
<1> SUFFICES ASSUME TypeOK, Closure, NothingStranded, [Next]_vars
             PROVE  Closure' /\ NothingStranded'
  OBVIOUS
<1> USE PipelineAssumption
<1>1. ASSUME NEW m \in Message, Accept(m) PROVE Closure' /\ NothingStranded'
  <2>1. 1 \in Task /\ running[1] /\ UNCHANGED <<running, rxOpen, stream>>
    BY <1>1 DEF Accept, Task
  <2>2. \A j \in Task : j # 1 => chan'[j] = chan[j]
    BY <1>1 DEF Accept, TypeOK
  <2>3. Closure'
    BY <2>1 DEF Closure
  <2>4. NothingStranded'
    BY <2>1, <2>2 DEF NothingStranded
  <2> QED BY <2>3, <2>4
<1>2. ASSUME NEW i \in Task, Stops(i) PROVE Closure' /\ NothingStranded'
  <2>1. EndTask(i) /\ running[i]
    BY <1>2 DEF Stops, UpstreamEnded, DownstreamGone, SourceFails
  <2>2. ASSUME stream = "streaming", NEW j \in Task, j < i
        PROVE  ~running[j] /\ chan[j] = <<>>
    BY <1>2, <2>2, StopsLast
  <2>3. Closure'
    <3> SUFFICES ASSUME stream' = "streaming", NEW j \in Task, ~rxOpen'[j]
                 PROVE  j + 1 \in Task /\ ~running'[j + 1]
      BY DEF Closure
    <3>1. CASE ~rxOpen[j]
      <4>1. j + 1 \in Task /\ ~running[j + 1] /\ stream = "streaming"
        BY <2>1, <3>1, EndTaskFacts DEF Closure
      <4> QED BY <2>1, <4>1, EndTaskFacts
    <3>2. CASE j = i - 1
      <4>1. j + 1 = i
        BY <3>2 DEF Task
      <4> QED BY <2>1, <4>1, EndTaskFacts
    <3> QED BY <2>1, <3>1, <3>2, EndTaskFacts
  <2>4. NothingStranded'
    <3> SUFFICES ASSUME stream' = "streaming", NEW k \in Task, ~running'[k],
                        NEW j \in Task, j < k
                 PROVE  ~running'[j] /\ chan'[j] = <<>>
      BY DEF NothingStranded
    <3>1. stream = "streaming"
      BY <2>1, EndTaskFacts
    <3>2. ~running[j] /\ chan[j] = <<>>
      <4>1. CASE k = i
        BY <2>2, <3>1, <4>1
      <4>2. CASE k # i
        BY <2>1, <3>1, <4>2, EndTaskFacts DEF NothingStranded
      <4> QED BY <4>1, <4>2
    <3> QED BY <2>1, <3>2, EndTaskFacts
  <2> QED BY <2>3, <2>4
<1>3. ASSUME NEW i \in Task, PassOn(i) PROVE Closure' /\ NothingStranded'
  <2>1. /\ i - 1 \in Task /\ i \in Nat /\ i > 1 /\ running[i] /\ chan[i - 1] # <<>>
        /\ UNCHANGED <<running, rxOpen, stream>>
    BY <1>3 DEF PassOn, Task
  <2>2. Closure'
    BY <2>1 DEF Closure
  <2>3. ASSUME stream = "streaming", NEW k \in Task, ~running[k], NEW j \in Task, j < k
        PROVE  ~running[j] /\ chan'[j] = <<>>
    <3>1. ~running[j] /\ chan[j] = <<>>
      BY <2>3 DEF NothingStranded
    <3>2. j # i /\ j # i - 1
      BY <2>1, <3>1
    <3> QED BY <1>3, <3>1, <3>2 DEF PassOn, TypeOK
  <2> QED BY <2>1, <2>2, <2>3 DEF NothingStranded
<1>4. ASSUME StopStreaming PROVE Closure' /\ NothingStranded'
  BY <1>4 DEF StopStreaming, Closure, NothingStranded
<1>5. ASSUME WriteEvent \/ WriteIntoVoid PROVE Closure' /\ NothingStranded'
  <2>1. UNCHANGED <<running, rxOpen, stream>>
    BY <1>5 DEF WriteEvent, WriteIntoVoid
  <2>2. \A j \in Task : j # Tasks => chan'[j] = chan[j]
    BY <1>5 DEF WriteEvent, WriteIntoVoid, TypeOK
  <2>3. Closure'
    BY <2>1 DEF Closure
  <2>4. \A k, j \in Task : j < k => j # Tasks
    BY DEF Task
  <2>5. NothingStranded'
    BY <2>1, <2>2, <2>4 DEF NothingStranded
  <2> QED BY <2>3, <2>5
<1>6. ASSUME Drain \/ Drained PROVE Closure' /\ NothingStranded'
  BY <1>6 DEF Drain, Drained, Closure, NothingStranded
<1>7. ASSUME ClientLeaves \/ UNCHANGED vars PROVE Closure' /\ NothingStranded'
  BY <1>7 DEF ClientLeaves, vars, Closure, NothingStranded
<1>8. 1 \in Task
  BY DEF Task
<1> QED
  BY <1>1, <1>2, <1>3, <1>4, <1>5, <1>6, <1>7, <1>8
     DEF Stops, Next, TaskStep, StreamStep, WriteFails, StreamEnded, ReadLine, KeepAliveFails

(* However many tasks the stream goes through, none of them stops with     *)
(* events left unread before it as long as the connection is served.       *)
THEOREM NothingStrandedCorrect == Spec => []NothingStranded
BY TypeInit, TypeNext, ClosureInit, ClosureNext, PTL DEF Spec

-----------------------------------------------------------------------------
(* The tasks and channels as one stream.                                   *)

(* q holds the elements of e that follow the first c.                      *)
Part(q, e, c) == \A k \in 1..Len(q) : q[k] = e[c + k]

LEMMA PartTail ==
  ASSUME NEW S, NEW q \in Seq(S), q # <<>>, NEW e, NEW c \in Nat, Part(q, e, c)
  PROVE  /\ Head(q) \in S /\ Tail(q) \in Seq(S)
         /\ Len(Tail(q)) \in Nat /\ Len(q) = Len(Tail(q)) + 1
         /\ Head(q) = e[c + 1] /\ Part(Tail(q), e, c + 1)
<1>1. /\ Len(q) \in Nat /\ Len(q) > 0 /\ Head(q) = q[1] /\ Head(q) \in S
      /\ Tail(q) \in Seq(S) /\ Len(Tail(q)) = Len(q) - 1
  OBVIOUS
<1>2. \A k \in 1..Len(Tail(q)) : Tail(q)[k] = q[k + 1]
  OBVIOUS
<1>3. ASSUME NEW k \in 1..Len(Tail(q)) PROVE Tail(q)[k] = e[c + 1 + k]
  <2>1. k + 1 \in 1..Len(q) /\ c + (k + 1) = c + 1 + k
    BY <1>1
  <2>2. q[k + 1] = e[c + (k + 1)]
    BY <2>1 DEF Part
  <2> QED BY <1>2, <2>1, <2>2
<1>4. Head(q) = e[c + 1]
  BY <1>1 DEF Part
<1> QED BY <1>1, <1>3, <1>4 DEF Part

LEMMA PartAppend ==
  ASSUME NEW S, NEW q \in Seq(S), NEW m \in S, NEW e, NEW c \in Nat,
         Part(q, e, c), m = e[c + Len(q) + 1]
  PROVE  /\ Append(q, m) \in Seq(S) /\ Append(q, m) # <<>>
         /\ Len(Append(q, m)) = Len(q) + 1
         /\ Part(Append(q, m), e, c)
<1>1. /\ Append(q, m) \in Seq(S) /\ Len(Append(q, m)) = Len(q) + 1 /\ Len(q) \in Nat
      /\ \A k \in 1..Len(q) : Append(q, m)[k] = q[k]
      /\ Append(q, m)[Len(q) + 1] = m
  OBVIOUS
<1>2. Append(q, m) # <<>>
  OBVIOUS
<1>3. ASSUME NEW k \in 1..Len(q) + 1 PROVE Append(q, m)[k] = e[c + k]
  <2>1. CASE k = Len(q) + 1
    <3>1. c + k = c + Len(q) + 1
      BY <1>1, <2>1
    <3> QED BY <1>1, <2>1, <3>1
  <2>2. CASE k # Len(q) + 1
    <3>1. k \in 1..Len(q)
      BY <1>1, <2>2
    <3> QED BY <1>1, <3>1 DEF Part
  <2> QED BY <2>1, <2>2
<1> QED BY <1>1, <1>2, <1>3 DEF Part

LEMMA PartLonger ==
  ASSUME NEW S, NEW q \in Seq(S), NEW e \in Seq(S), NEW m \in S, NEW c \in Nat,
         c + Len(q) <= Len(e), Part(q, e, c)
  PROVE  Part(q, Append(e, m), c)
<1>1. Len(q) \in Nat /\ Len(e) \in Nat /\ \A k \in 1..Len(e) : Append(e, m)[k] = e[k]
  OBVIOUS
<1>2. ASSUME NEW k \in 1..Len(q) PROVE q[k] = Append(e, m)[c + k]
  <2>1. c + k \in 1..Len(e)
    BY <1>1
  <2>2. q[k] = e[c + k]
    BY DEF Part
  <2> QED BY <1>1, <2>1, <2>2
<1> QED BY <1>2 DEF Part

LEMMA PartWhole ==
  ASSUME NEW S, NEW q \in Seq(S), NEW e \in Seq(S), Len(q) = Len(e), Part(q, e, 0)
  PROVE  q = e
<1>1. \A k \in 1..Len(q) : q[k] = e[k]
  <2> TAKE k \in 1..Len(q)
  <2>1. 0 + k = k
    OBVIOUS
  <2> QED BY <2>1 DEF Part
<1> QED BY <1>1

(* The events of the stream so far.                                        *)
Events == History \o accepted

(* cut[i] of the events have been read from the channel of task i, and     *)
(* cut[0] is all there are: each channel holds those between its cut and   *)
(* the one before it.  Empty channels up to a task leave it nothing to get.*)
Divides(cut) ==
  /\ cut \in [0..Tasks -> Nat]
  /\ cut[0] = Len(Events) /\ cut[Tasks] = Len(written)
  /\ \A i \in Task :
       /\ cut[i - 1] = cut[i] + Len(chan[i]) /\ cut[i] <= cut[0]
       /\ Part(chan[i], Events, cut[i])
       /\ (\A j \in 1..i : chan[j] = <<>>) => cut[i] = cut[0]
  /\ Part(written, Events, 0)

(* As long as the client is served, nothing is lost, doubled or out of     *)
(* order anywhere on the way.                                              *)
Served == stream = "streaming" /\ client = "connected"
Divided == Served => \E cut : Divides(cut)

LEMMA EventsType ==
  ASSUME TypeOK
  PROVE  Events \in Seq(Message) /\ Len(Events) \in Nat
BY PipelineAssumption DEF TypeOK, Events

LEMMA DividedInit == Init => Divided
<1> SUFFICES ASSUME Init PROVE \E cut : Divides(cut)
  BY DEF Divided
<1> USE PipelineAssumption
<1> DEFINE cut == [i \in 0..Tasks |-> IF i <= 1 THEN Len(History) ELSE 0]
<1>1. /\ Events = History /\ Len(History) \in Nat /\ written = <<>>
      /\ Len(<<>>) = 0
  BY DEF Init, Events
<1>2. chan = [i \in Task |-> IF i = 2 THEN History ELSE <<>>]
  BY DEF Init
<1>3. /\ cut \in [0..Tasks -> Nat] /\ cut[0] = Len(History)
      /\ \A i \in Task : cut[i] = IF i = 1 THEN Len(History) ELSE 0
      /\ \A i \in Task : cut[i - 1] = IF i <= 2 THEN Len(History) ELSE 0
  <2>1. \A i \in Task : i \in 0..Tasks /\ i - 1 \in 0..Tasks
    BY DEF Task
  <2>2. \A i \in Task : (i <= 1 <=> i = 1) /\ (i - 1 <= 1 <=> i <= 2)
    BY DEF Task
  <2> QED BY <1>1, <2>1, <2>2
<1> HIDE DEF cut
<1>4. \A e, c : Part(<<>>, e, c)
  BY <1>1 DEF Part
<1>5. Part(History, Events, 0)
  BY <1>1 DEF Part
<1>6. ASSUME NEW i \in Task
      PROVE  /\ cut[i - 1] = cut[i] + Len(chan[i]) /\ cut[i] <= cut[0]
             /\ Part(chan[i], Events, cut[i])
             /\ (\A j \in 1..i : chan[j] = <<>>) => cut[i] = cut[0]
  <2>0. i \in Nat /\ i >= 1
    BY DEF Task
  <2>1. CASE i = 1
    <3>1. chan[i] = <<>> /\ cut[i] = Len(History) /\ cut[i - 1] = Len(History)
      BY <1>2, <1>3, <2>1
    <3> QED BY <1>1, <1>3, <1>4, <3>1
  <2>2. CASE i = 2
    <3>1. chan[i] = History /\ cut[i] = 0 /\ cut[i - 1] = Len(History) /\ i \in 1..i
      BY <1>2, <1>3, <2>2
    <3> QED BY <1>1, <1>3, <1>5, <3>1
  <2>3. CASE i > 2
    <3>1. 2 \in Task /\ 2 \in 1..i
      BY <2>3 DEF Task
    <3>2. chan[2] = History
      BY <1>2, <3>1
    <3>3. cut[i - 1] = 0 /\ cut[i] = 0 /\ chan[i] = <<>>
      BY <1>2, <1>3, <2>0, <2>3
    <3>4. (\A j \in 1..i : chan[j] = <<>>) => cut[i] = cut[0]
      BY <1>1, <1>3, <3>1, <3>2, <3>3
    <3> QED BY <1>1, <1>3, <1>4, <3>3, <3>4
  <2> QED BY <2>0, <2>1, <2>2, <2>3
<1>7. cut[Tasks] = 0
  <2>1. Tasks \in Task
    BY DEF Task
  <2>2. Tasks = 1 => Len(History) = 0
    BY <1>1
  <2> QED BY <1>3, <2>1, <2>2
<1>8. Divides(cut)
  BY <1>1, <1>3, <1>4, <1>6, <1>7 DEF Divides
<1> QED BY <1>8

(* What that says of a task and the one before it.                         *)
LEMMA CutFacts ==
  ASSUME TypeOK, NEW cut, Divides(cut), NEW i \in Task
  PROVE  /\ i \in Nat /\ i >= 1 /\ i <= Tasks /\ i \in 0..Tasks /\ i - 1 \in 0..Tasks
         /\ cut[i] \in Nat /\ cut[i - 1] \in Nat
         /\ cut[i] <= cut[0] /\ cut[i - 1] <= cut[0]
         /\ cut[i - 1] = cut[i] + Len(chan[i])
         /\ chan[i] \in Seq(Message) /\ Len(chan[i]) \in Nat
         /\ Part(chan[i], Events, cut[i])
         /\ (\A j \in 1..i : chan[j] = <<>>) => cut[i] = cut[0]
<1> USE PipelineAssumption
<1>1. i \in Nat /\ i >= 1 /\ i <= Tasks /\ i \in 0..Tasks /\ i - 1 \in 0..Tasks
  BY DEF Task
<1>2. cut[i] \in Nat /\ cut[i - 1] \in Nat /\ cut[0] \in Nat
  <2>1. cut \in [0..Tasks -> Nat]
    BY DEF Divides
  <2> QED BY <1>1, <2>1
<1>3. cut[i - 1] <= cut[0]
  <2>1. CASE i = 1
    BY <1>2, <2>1
  <2>2. CASE i # 1
    <3>1. i - 1 \in Task
      BY <1>1, <2>2 DEF Task
    <3> QED BY <3>1 DEF Divides
  <2> QED BY <2>1, <2>2
<1>4. chan[i] \in Seq(Message) /\ Len(chan[i]) \in Nat
  BY DEF TypeOK
<1> QED BY <1>1, <1>2, <1>3, <1>4 DEF Divides

LEMMA WrittenFacts ==
  ASSUME TypeOK, NEW cut, Divides(cut)
  PROVE  /\ Tasks \in Task /\ cut[Tasks] = Len(written)
         /\ written \in Seq(Message) /\ Len(written) \in Nat
         /\ cut[0] = Len(Events) /\ Len(written) <= Len(Events)
         /\ Part(written, Events, 0)
<1> USE PipelineAssumption
<1>1. Tasks \in Task
  BY DEF Task
<1>2. cut[Tasks] <= cut[0]
  BY <1>1, CutFacts
<1>3. written \in Seq(Message) /\ Len(written) \in Nat
  BY DEF TypeOK
<1> QED BY <1>1, <1>2, <1>3 DEF Divides

LEMMA ConcatAppend ==
  ASSUME NEW S, NEW q \in Seq(S), NEW r \in Seq(S), NEW m \in S
  PROVE  q \o Append(r, m) = Append(q \o r, m)
OBVIOUS

LEMMA AcceptEvents ==
  ASSUME TypeOK, NEW m \in Message, Accept(m)
  PROVE  Events' = Append(Events, m)
<1>1. accepted \in Seq(Message) /\ accepted' = Append(accepted, m)
  BY DEF Accept, TypeOK
<1>2. History \o Append(accepted, m) = Append(History \o accepted, m)
  BY <1>1, PipelineAssumption, ConcatAppend
<1> QED BY <1>1, <1>2 DEF Events

LEMMA DividedAccept ==
  ASSUME TypeOK, NEW cut, Divides(cut), NEW m \in Message, Accept(m)
  PROVE  /\ Events' = Append(Events, m)
         /\ Divides([cut EXCEPT ![0] = @ + 1])'
<1> USE PipelineAssumption
<1> DEFINE new == [cut EXCEPT ![0] = @ + 1]
<1>1. Events' = Append(Events, m)
  BY AcceptEvents
<1>2. /\ 1 \in Task /\ 0 \in 0..Tasks /\ written' = written
      /\ chan'[1] = Append(chan[1], m) /\ \A i \in Task : i # 1 => chan'[i] = chan[i]
  <2>1. 1 \in Task /\ 0 \in 0..Tasks
    BY DEF Task
  <2>2. chan \in [Task -> Seq(Message)]
    BY DEF TypeOK
  <2> QED BY <2>1, <2>2 DEF Accept
<1>3. /\ new \in [0..Tasks -> Nat] /\ new[0] = cut[0] + 1
      /\ \A i \in 0..Tasks : i # 0 => new[i] = cut[i]
  <2>1. cut \in [0..Tasks -> Nat]
    BY DEF Divides
  <2> QED BY <1>2, <2>1
<1> HIDE DEF new
<1>4. /\ Events \in Seq(Message) /\ Len(Events) \in Nat
      /\ Len(Events') = Len(Events) + 1 /\ Events'[Len(Events) + 1] = m
  BY <1>1, EventsType
<1>5. cut[0] = Len(Events)
  BY DEF Divides
<1>6. /\ chan'[1] # <<>> /\ Len(chan'[1]) = Len(chan[1]) + 1
      /\ Part(chan'[1], Events', cut[1])
  <2>1. /\ cut[1] \in Nat /\ cut[0] = cut[1] + Len(chan[1]) /\ Len(chan[1]) \in Nat
        /\ chan[1] \in Seq(Message) /\ Part(chan[1], Events, cut[1])
    BY <1>2, CutFacts
  <2>2. Part(chan[1], Events', cut[1])
    BY <1>1, <1>4, <1>5, <2>1, PartLonger
  <2>3. Events'[cut[1] + Len(chan[1]) + 1] = m
    BY <1>4, <1>5, <2>1
  <2>4. /\ Append(chan[1], m) # <<>> /\ Len(Append(chan[1], m)) = Len(chan[1]) + 1
        /\ Part(Append(chan[1], m), Events', cut[1])
    BY <2>1, <2>2, <2>3, PartAppend
  <2> QED BY <1>2, <2>4
<1>7. ASSUME NEW i \in Task
      PROVE  /\ new[i - 1] = new[i] + Len(chan'[i]) /\ new[i] <= new[0]
             /\ Part(chan'[i], Events', new[i])
             /\ ~\A j \in 1..i : chan'[j] = <<>>
  <2>1. /\ i \in Nat /\ i >= 1 /\ i \in 0..Tasks /\ i - 1 \in 0..Tasks
        /\ cut[i] \in Nat /\ cut[i - 1] \in Nat /\ cut[i] <= cut[0]
        /\ cut[i - 1] <= cut[0] /\ cut[i - 1] = cut[i] + Len(chan[i])
        /\ chan[i] \in Seq(Message) /\ Len(chan[i]) \in Nat
        /\ Part(chan[i], Events, cut[i])
    BY CutFacts
  <2>2. new[i] = cut[i] /\ new[i] <= new[0]
    <3>1. i \in 0..Tasks /\ i # 0
      BY <2>1
    <3>2. new[i] = cut[i] /\ new[0] = cut[0] + 1
      BY <1>3, <3>1
    <3>3. cut[i] \in Nat /\ cut[0] \in Nat /\ cut[i] <= cut[0]
      BY <1>4, <1>5, <2>1
    <3> QED BY <3>2, <3>3
  <2>3. ~\A j \in 1..i : chan'[j] = <<>>
    BY <1>6, <2>1
  <2>4. CASE i = 1
    BY <1>3, <1>6, <2>1, <2>2, <2>3, <2>4
  <2>5. CASE i # 1
    <3>1. chan'[i] = chan[i] /\ new[i - 1] = cut[i - 1]
      BY <1>2, <1>3, <2>1, <2>5
    <3>2. Part(chan[i], Events', cut[i])
      BY <1>1, <1>4, <1>5, <2>1, PartLonger
    <3> QED BY <2>1, <2>2, <2>3, <3>1, <3>2
  <2> QED BY <2>4, <2>5
<1>8. /\ Tasks \in 0..Tasks /\ Tasks # 0
      /\ new[0] = Len(Events') /\ new[Tasks] = Len(written')
  <2>1. Tasks \in 0..Tasks /\ Tasks # 0
    OBVIOUS
  <2>2. cut[Tasks] = Len(written)
    BY DEF Divides
  <2> QED BY <1>2, <1>3, <1>4, <1>5, <2>1, <2>2
<1>9. Part(written', Events', 0)
  BY <1>1, <1>2, <1>4, WrittenFacts, PartLonger
<1>10. Divides(new)'
  BY <1>3, <1>7, <1>8, <1>9 DEF Divides
<1> QED BY <1>1, <1>10 DEF new

LEMMA DividedPassOn ==
  ASSUME TypeOK, NEW cut, Divides(cut), NEW t \in Task, PassOn(t)
  PROVE  Divides([cut EXCEPT ![t - 1] = @ + 1])'
<1> USE PipelineAssumption
<1> DEFINE s == t - 1
<1> DEFINE new == [cut EXCEPT ![t - 1] = @ + 1]
<1>1. /\ t \in Nat /\ t > 1 /\ t <= Tasks /\ s \in Task /\ s \in 0..Tasks /\ t = s + 1
      /\ s \in Nat /\ s # 0 /\ s # Tasks /\ chan[s] # <<>>
      /\ UNCHANGED <<written, accepted>>
  BY DEF PassOn, Task
<1>2. /\ chan'[t] = Append(chan[t], Head(chan[s]))
      /\ chan'[s] = Tail(chan[s])
      /\ \A i \in Task : i # t /\ i # s => chan'[i] = chan[i]
  <2>1. chan \in [Task -> Seq(Message)]
    BY DEF TypeOK
  <2> QED BY <1>1, <2>1 DEF PassOn
<1>3. /\ new \in [0..Tasks -> Nat] /\ new[s] = cut[s] + 1
      /\ \A i \in 0..Tasks : i # s => new[i] = cut[i]
  <2>1. cut \in [0..Tasks -> Nat]
    BY DEF Divides
  <2> QED BY <1>1, <2>1
<1>4. t - 1 = s
  OBVIOUS
<1>5. Events' = Events /\ new[0] = cut[0] /\ new[Tasks] = cut[Tasks]
  <2>1. 0 \in 0..Tasks /\ Tasks \in 0..Tasks
    OBVIOUS
  <2> QED BY <1>1, <1>3, <2>1 DEF Events
<1> HIDE DEF new, s
<1>6. /\ t \in 0..Tasks
      /\ cut[t] \in Nat /\ cut[s] \in Nat /\ cut[t] <= cut[0]
      /\ cut[s] = cut[t] + Len(chan[t])
      /\ chan[t] \in Seq(Message) /\ Len(chan[t]) \in Nat
      /\ Part(chan[t], Events, cut[t])
  BY <1>4, CutFacts
<1>7. /\ s - 1 \in 0..Tasks /\ cut[s - 1] \in Nat /\ cut[s - 1] <= cut[0]
      /\ cut[s - 1] = cut[s] + Len(chan[s])
      /\ chan[s] \in Seq(Message) /\ Len(chan[s]) \in Nat
      /\ Part(chan[s], Events, cut[s])
      /\ cut[0] \in Nat
  BY <1>1, CutFacts, EventsType DEF Divides
<1>8. /\ Head(chan[s]) \in Message /\ Len(chan[s]) = Len(chan'[s]) + 1 /\ Len(chan'[s]) \in Nat
      /\ Head(chan[s]) = Events[cut[s] + 1] /\ Part(chan'[s], Events, cut[s] + 1)
  <2>1. chan[s] # <<>> /\ chan'[s] = Tail(chan[s]) /\ cut[s] \in Nat
    BY <1>1, <1>2, <1>6
  <2>2. chan[s] \in Seq(Message) /\ Part(chan[s], Events, cut[s])
    BY <1>7
  <2> QED BY <2>1, <2>2, PartTail
<1>9. /\ chan'[t] # <<>> /\ Len(chan'[t]) = Len(chan[t]) + 1
      /\ Part(chan'[t], Events, cut[t])
  <2> DEFINE h == Head(chan[s])
  <2>1. h = Events[cut[t] + Len(chan[t]) + 1] /\ h \in Message
    BY <1>6, <1>8
  <2> HIDE DEF h
  <2>2. /\ Append(chan[t], h) # <<>> /\ Len(Append(chan[t], h)) = Len(chan[t]) + 1
        /\ Part(Append(chan[t], h), Events, cut[t])
    BY <1>6, <2>1, PartAppend
  <2>3. chan'[t] = Append(chan[t], h)
    BY <1>2 DEF h
  <2> QED BY <2>2, <2>3
<1>10. /\ new[s] = new[t] + Len(chan'[t]) /\ new[t] <= new[0]
       /\ Part(chan'[t], Events', new[t])
       /\ ~\A j \in 1..t : chan'[j] = <<>>
  <2>1. new[t] = cut[t]
    BY <1>1, <1>3, <1>6
  <2>2. t \in 1..t
    BY <1>1
  <2>3. new[s] = cut[s] + 1 /\ cut[s] + 1 = cut[t] + Len(chan'[t])
    <3>1. cut[s] = cut[t] + Len(chan[t]) /\ cut[t] \in Nat /\ Len(chan[t]) \in Nat
      BY <1>6
    <3>2. new[s] = cut[s] + 1
      BY <1>3
    <3>3. Len(chan'[t]) = Len(chan[t]) + 1
      BY <1>9
    <3> QED BY <3>1, <3>2, <3>3
  <2> QED BY <1>5, <1>6, <1>9, <2>1, <2>2, <2>3
<1>11. /\ new[s - 1] = new[s] + Len(chan'[s]) /\ new[s] <= new[0]
       /\ Part(chan'[s], Events', new[s])
       /\ (\A j \in 1..s : chan'[j] = <<>>) => new[s] = new[0]
  <2>1. new[s - 1] = cut[s - 1]
    <3>1. s - 1 \in 0..Tasks /\ s - 1 # s
      BY <1>1, <1>7
    <3> QED BY <1>3, <3>1
  <2>2. new[s - 1] = new[s] + Len(chan'[s]) /\ new[s] <= new[0]
    <3>1. new[s] = cut[s] + 1
      BY <1>3
    <3>2. /\ cut[s - 1] = cut[s] + Len(chan[s]) /\ cut[s - 1] <= cut[0]
          /\ cut[0] \in Nat /\ cut[s] \in Nat
      BY <1>6, <1>7
    <3>3. Len(chan[s]) = Len(chan'[s]) + 1 /\ Len(chan'[s]) \in Nat
      BY <1>8
    <3>4. cut[s - 1] = new[s] + Len(chan'[s]) /\ new[s] \in Nat
      <4>1. new[s] \in Nat
        BY <3>1, <3>2
      <4>2. cut[s - 1] = cut[s] + (Len(chan'[s]) + 1)
        BY <3>2, <3>3
      <4> HIDE PipelineAssumption
      <4> QED BY <3>1, <3>2, <3>3, <4>1, <4>2
    <3>5. new[s] <= cut[0]
      BY <3>2, <3>3, <3>4
    <3> QED BY <1>5, <2>1, <3>4, <3>5
  <2>3. ASSUME \A j \in 1..s : chan'[j] = <<>> PROVE new[s] = new[0]
    <3>1. cut[s - 1] = cut[0]
      <4>1. CASE s = 1
        BY <4>1
      <4>2. CASE s # 1
        <5>1. s - 1 \in Task
          BY <1>1, <4>2 DEF Task
        <5>2. ASSUME NEW j \in 1..s - 1 PROVE chan[j] = <<>>
          <6>1. j \in Task /\ j # s /\ j # t /\ j \in 1..s
            BY <1>1 DEF Task
          <6> QED BY <1>2, <2>3, <6>1
        <5> QED BY <5>1, <5>2, CutFacts
      <4> QED BY <4>1, <4>2
    <3>2. Len(chan'[s]) = 0
      <4>1. s \in 1..s
        BY <1>1
      <4> QED BY <2>3, <4>1
    <3>3. new[s - 1] = new[s] + 0
      BY <2>2, <3>2
    <3>4. new[s] \in Nat
      <4>1. new \in [0..Tasks -> Nat] /\ s \in 0..Tasks
        BY <1>1, <1>3
      <4> QED BY <4>1
    <3> QED BY <1>5, <2>1, <3>1, <3>3, <3>4
  <2> QED BY <1>3, <1>5, <1>8, <2>2, <2>3
<1>12. ASSUME NEW i \in Task, i # t, i # s
       PROVE  /\ new[i - 1] = new[i] + Len(chan'[i]) /\ new[i] <= new[0]
              /\ Part(chan'[i], Events', new[i])
              /\ (\A j \in 1..i : chan'[j] = <<>>) => new[i] = new[0]
  <2>1. i - 1 # s /\ i \in 0..Tasks /\ i - 1 \in 0..Tasks
    BY <1>1, <1>12 DEF Task
  <2>2. chan'[i] = chan[i] /\ new[i] = cut[i] /\ new[i - 1] = cut[i - 1]
    BY <1>2, <1>3, <1>12, <2>1
  <2>3. ASSUME \A j \in 1..i : chan'[j] = <<>> PROVE cut[i] = cut[0]
    <3>1. ~(t \in 1..i)
      BY <1>9, <2>3
    <3>2. i < s
      BY <1>1, <1>12, <3>1 DEF Task
    <3>3. ASSUME NEW j \in 1..i PROVE chan[j] = <<>>
      <4>1. j \in Task /\ j # s /\ j # t
        BY <1>1, <3>2 DEF Task
      <4> QED BY <1>2, <2>3, <4>1
    <3> QED BY <3>3, CutFacts
  <2>4. cut[i - 1] = cut[i] + Len(chan[i]) /\ cut[i] <= cut[0] /\ Part(chan[i], Events, cut[i])
    BY CutFacts
  <2> QED BY <1>5, <2>2, <2>3, <2>4
<1>13. ASSUME NEW i \in Task
       PROVE  /\ new[i - 1] = new[i] + Len(chan'[i]) /\ new[i] <= new[0]
              /\ Part(chan'[i], Events', new[i])
              /\ (\A j \in 1..i : chan'[j] = <<>>) => new[i] = new[0]
  BY <1>4, <1>10, <1>11, <1>12
<1>14. new[0] = Len(Events') /\ new[Tasks] = Len(written') /\ Part(written', Events', 0)
  BY <1>1, <1>5 DEF Divides
<1>15. Divides(new)'
  BY <1>3, <1>13, <1>14 DEF Divides
<1> QED BY <1>15 DEF new

LEMMA DividedWrite ==
  ASSUME TypeOK, NEW cut, Divides(cut), WriteEvent
  PROVE  /\ Len(written) < Len(Events)
         /\ written' = Append(written, Events[Len(written) + 1])
         /\ Divides([cut EXCEPT ![Tasks] = @ + 1])'
<1> USE PipelineAssumption
<1> DEFINE new == [cut EXCEPT ![Tasks] = @ + 1]
<1>1. /\ Tasks \in Task /\ Tasks \in Nat /\ Tasks # 0 /\ Tasks \in 0..Tasks /\ 0 \in 0..Tasks
      /\ Tasks \in 1..Tasks
      /\ accepted' = accepted
  BY DEF WriteEvent, Task
<1>2. /\ chan[Tasks] # <<>> /\ chan'[Tasks] = Tail(chan[Tasks])
      /\ written' = Append(written, Head(chan[Tasks]))
      /\ \A i \in Task : i # Tasks => chan'[i] = chan[i]
  <2>1. chan \in [Task -> Seq(Message)]
    BY DEF TypeOK
  <2> QED BY <1>1, <2>1 DEF WriteEvent
<1>3. /\ new \in [0..Tasks -> Nat] /\ new[Tasks] = cut[Tasks] + 1
      /\ \A i \in 0..Tasks : i # Tasks => new[i] = cut[i]
  <2>1. cut \in [0..Tasks -> Nat]
    BY DEF Divides
  <2> QED BY <1>1, <2>1
<1> HIDE DEF new
<1>4. Events' = Events /\ new[0] = cut[0]
  BY <1>1, <1>3 DEF Events
<1>5. /\ cut[Tasks] = Len(written) /\ cut[0] = Len(Events) /\ Len(Events) \in Nat
      /\ written \in Seq(Message) /\ Len(written) \in Nat /\ Part(written, Events, 0)
  BY WrittenFacts, EventsType
<1>6. /\ Tasks - 1 \in 0..Tasks /\ cut[Tasks - 1] \in Nat /\ cut[Tasks - 1] <= cut[0]
      /\ cut[Tasks - 1] = cut[Tasks] + Len(chan[Tasks])
      /\ chan[Tasks] \in Seq(Message) /\ Len(chan[Tasks]) \in Nat
      /\ Part(chan[Tasks], Events, cut[Tasks])
  BY <1>1, CutFacts
<1>7. /\ Head(chan[Tasks]) \in Message
      /\ Len(chan[Tasks]) = Len(chan'[Tasks]) + 1 /\ Len(chan'[Tasks]) \in Nat
      /\ Head(chan[Tasks]) = Events[Len(written) + 1]
      /\ Part(chan'[Tasks], Events, Len(written) + 1)
  BY <1>2, <1>5, <1>6, PartTail
<1>8. Len(written) < Len(Events)
  BY <1>5, <1>6, <1>7
<1>9. Len(written') = Len(written) + 1 /\ Part(written', Events, 0)
  <2>1. Events[0 + Len(written) + 1] = Head(chan[Tasks])
    BY <1>5, <1>7
  <2> QED BY <1>2, <1>5, <1>7, <2>1, PartAppend
<1>10. /\ new[Tasks - 1] = new[Tasks] + Len(chan'[Tasks]) /\ new[Tasks] <= new[0]
       /\ Part(chan'[Tasks], Events', new[Tasks])
       /\ (\A j \in 1..Tasks : chan'[j] = <<>>) => new[Tasks] = new[0]
  <2>1. new[Tasks - 1] = cut[Tasks - 1]
    BY <1>1, <1>3, <1>6
  <2>2. new[Tasks - 1] = new[Tasks] + Len(chan'[Tasks]) /\ new[Tasks] <= new[0]
    <3>1. new[Tasks] = cut[Tasks] + 1
      BY <1>3
    <3>2. /\ cut[Tasks - 1] = cut[Tasks] + Len(chan[Tasks]) /\ cut[Tasks - 1] <= cut[0]
          /\ cut[0] \in Nat /\ cut[Tasks] \in Nat
      BY <1>5, <1>6
    <3>3. Len(chan[Tasks]) = Len(chan'[Tasks]) + 1 /\ Len(chan'[Tasks]) \in Nat
      BY <1>7
    <3>4. cut[Tasks - 1] = new[Tasks] + Len(chan'[Tasks]) /\ new[Tasks] \in Nat
      <4>1. new[Tasks] \in Nat
        BY <3>1, <3>2
      <4>2. cut[Tasks - 1] = cut[Tasks] + (Len(chan'[Tasks]) + 1)
        BY <3>2, <3>3
      <4> HIDE PipelineAssumption
      <4> QED BY <3>1, <3>2, <3>3, <4>1, <4>2
    <3>5. new[Tasks] <= cut[0]
      BY <3>2, <3>3, <3>4
    <3> QED BY <1>4, <2>1, <3>4, <3>5
  <2>3. ASSUME \A j \in 1..Tasks : chan'[j] = <<>> PROVE new[Tasks] = new[0]
    <3>1. cut[Tasks - 1] = cut[0]
      <4>1. CASE Tasks = 1
        BY <4>1
      <4>2. CASE Tasks # 1
        <5>1. Tasks - 1 \in Task
          BY <1>1, <4>2 DEF Task
        <5>2. ASSUME NEW j \in 1..Tasks - 1 PROVE chan[j] = <<>>
          <6>1. j \in Task /\ j # Tasks
            BY DEF Task
          <6> QED BY <1>2, <2>3, <6>1 DEF Task
        <5> QED BY <5>1, <5>2, CutFacts
      <4> QED BY <4>1, <4>2
    <3>2. Len(chan'[Tasks]) = 0
      BY <1>1, <2>3
    <3>3. new[Tasks] \in Nat
      BY <1>3, <1>5
    <3>4. cut[0] = new[Tasks] + 0
      BY <2>1, <2>2, <3>1, <3>2
    <3> QED BY <1>4, <3>3, <3>4
  <2> QED BY <1>3, <1>4, <1>5, <1>7, <2>2, <2>3
<1>11. ASSUME NEW i \in Task, i # Tasks
       PROVE  /\ new[i - 1] = new[i] + Len(chan'[i]) /\ new[i] <= new[0]
              /\ Part(chan'[i], Events', new[i])
              /\ (\A j \in 1..i : chan'[j] = <<>>) => new[i] = new[0]
  <2>1. i - 1 # Tasks /\ i \in 0..Tasks /\ i - 1 \in 0..Tasks
    BY <1>11 DEF Task
  <2>2. chan'[i] = chan[i] /\ new[i] = cut[i] /\ new[i - 1] = cut[i - 1]
    BY <1>2, <1>3, <1>11, <2>1
  <2>3. ASSUME \A j \in 1..i : chan'[j] = <<>> PROVE cut[i] = cut[0]
    <3>1. ASSUME NEW j \in 1..i PROVE chan[j] = <<>>
      <4>1. j \in Task /\ j # Tasks
        BY <1>11 DEF Task
      <4> QED BY <1>2, <2>3, <4>1
    <3> QED BY <3>1, CutFacts
  <2>4. cut[i - 1] = cut[i] + Len(chan[i]) /\ cut[i] <= cut[0] /\ Part(chan[i], Events, cut[i])
    BY CutFacts
  <2> QED BY <1>4, <2>2, <2>3, <2>4
<1>12. ASSUME NEW i \in Task
       PROVE  /\ new[i - 1] = new[i] + Len(chan'[i]) /\ new[i] <= new[0]
              /\ Part(chan'[i], Events', new[i])
              /\ (\A j \in 1..i : chan'[j] = <<>>) => new[i] = new[0]
  BY <1>10, <1>11
<1>13. new[0] = Len(Events') /\ new[Tasks] = Len(written') /\ Part(written', Events', 0)
  BY <1>3, <1>4, <1>5, <1>9
<1>14. Divides(new)'
  BY <1>3, <1>12, <1>13 DEF Divides
<1> QED BY <1>2, <1>7, <1>8, <1>14 DEF new

(* A task that stops while events are streamed leaves every channel as it  *)
(* is.                                                                     *)
LEMMA StopsFacts ==
  ASSUME TypeOK, Closure, NothingStranded, NEW i \in Task, Stops(i)
  PROVE  /\ running[i] /\ ~running'[i]
         /\ \A j \in Task : j # i => running'[j] = running[j]
         /\ stream = "streaming" => chan' = chan
         /\ UNCHANGED <<stream, client, written, accepted>>
<1>1. EndTask(i) /\ running[i]
  BY DEF Stops, UpstreamEnded, DownstreamGone, SourceFails
<1>2. ASSUME stream = "streaming" PROVE chan' = chan
  <2>1. ASSUME NEW j \in Task PROVE chan'[j] = chan[j]
    <3>1. CASE j = i - 1
      <4>1. j < i
        BY <3>1 DEF Task
      <4>2. chan[j] = <<>>
        BY <1>2, <4>1, StopsLast
      <4> QED BY <1>1, <4>2, EndTaskFacts
    <3>2. CASE j # i - 1
      BY <1>1, <3>2, EndTaskFacts
    <3> QED BY <3>1, <3>2
  <2>2. chan \in [Task -> Seq(Message)] /\ chan' \in [Task -> Seq(Message)]
    BY <1>1, EndTaskFacts DEF TypeOK
  <2> QED BY <2>1, <2>2
<1> QED BY <1>1, <1>2, EndTaskFacts

(* Whatever else happens leaves the stream of events alone or is the end   *)
(* of it.                                                                  *)
Otherwise ==
  \/ WriteIntoVoid \/ WriteFails \/ StreamEnded \/ Drain \/ Drained
  \/ ReadLine \/ KeepAliveFails \/ ClientLeaves

LEMMA NextCases ==
  ASSUME [Next]_vars
  PROVE  \/ \E m \in Message : Accept(m)
         \/ \E i \in Task : Stops(i)
         \/ \E i \in Task : PassOn(i)
         \/ WriteEvent
         \/ Otherwise
         \/ UNCHANGED vars
<1>1. 1 \in Task
  BY PipelineAssumption DEF Task
<1> QED BY <1>1 DEF Next, TaskStep, StreamStep, Stops, Otherwise

LEMMA DividedNext ==
  TypeOK /\ Closure /\ NothingStranded /\ Divided /\ [Next]_vars => Divided'
<1> SUFFICES ASSUME TypeOK, Closure, NothingStranded, Divided, [Next]_vars, Served'
             PROVE  \E cut : Divides(cut)'
  BY DEF Divided
<1>1. ASSUME NEW m \in Message, Accept(m) PROVE \E cut : Divides(cut)'
  <2>1. Served
    BY <1>1 DEF Accept, Served
  <2>2. PICK cut : Divides(cut)
    BY <2>1 DEF Divided
  <2> QED BY <1>1, <2>2, DividedAccept
<1>2. ASSUME NEW i \in Task, Stops(i) PROVE \E cut : Divides(cut)'
  <2>1. Served
    BY <1>2, StopsFacts DEF Served
  <2>2. PICK cut : Divides(cut)
    BY <2>1 DEF Divided
  <2>3. chan' = chan /\ written' = written /\ accepted' = accepted
    BY <1>2, <2>1, StopsFacts DEF Served
  <2>4. Divides(cut)'
    BY <2>2, <2>3 DEF Divides, Events, Part
  <2> QED BY <2>4
<1>3. ASSUME NEW i \in Task, PassOn(i) PROVE \E cut : Divides(cut)'
  <2>1. Served
    BY <1>3 DEF PassOn, Served
  <2>2. PICK cut : Divides(cut)
    BY <2>1 DEF Divided
  <2> QED BY <1>3, <2>2, DividedPassOn
<1>4. ASSUME WriteEvent PROVE \E cut : Divides(cut)'
  <2>1. Served
    BY <1>4 DEF WriteEvent, Served
  <2>2. PICK cut : Divides(cut)
    BY <2>1 DEF Divided
  <2> QED BY <1>4, <2>2, DividedWrite
<1>5. ASSUME Otherwise PROVE FALSE
  BY <1>5 DEF Otherwise, Served, WriteIntoVoid, WriteFails, StreamEnded, Drain, Drained,
              ReadLine, KeepAliveFails, StopStreaming, ClientLeaves
<1>6. ASSUME UNCHANGED vars PROVE \E cut : Divides(cut)'
  <2>1. PICK cut : Divides(cut)
    BY <1>6 DEF Divided, Served, vars
  <2>2. Divides(cut)'
    BY <1>6, <2>1 DEF Divides, Events, Part, vars
  <2> QED BY <2>2
<1> QED BY <1>1, <1>2, <1>3, <1>4, <1>5, <1>6, NextCases

(* When the last task has stopped and its channel is empty, the client has *)
(* got everything.                                                         *)
LEMMA AllWritten ==
  ASSUME TypeOK, NothingStranded, Divided, Served, ~running[Tasks], chan[Tasks] = <<>>
  PROVE  ~running[1] /\ written = Events
<1> USE PipelineAssumption
<1>1. Tasks \in Task /\ 1 \in Task
  BY DEF Task
<1>2. \A j \in Task : j # Tasks => ~running[j] /\ chan[j] = <<>>
  BY <1>1 DEF NothingStranded, Served, Task
<1>3. \A j \in 1..Tasks : chan[j] = <<>>
  BY <1>2 DEF Task
<1>4. PICK cut : Divides(cut)
  BY DEF Divided
<1>5. cut[Tasks] = cut[0]
  BY <1>1, <1>3, <1>4, CutFacts
<1>6. Len(written) = Len(Events) /\ Part(written, Events, 0) /\ written \in Seq(Message)
  BY <1>4, <1>5, WrittenFacts
<1>7. written = Events
  BY <1>6, EventsType, PartWhole
<1> QED BY <1>1, <1>2, <1>7

(* Each step is a step of the promised stream, or none of its business.    *)
LEMMA Simulates ==
  ASSUME TypeOK, Closure, NothingStranded, Divided, [Next]_vars
  PROVE  [Promise!Next]_(Promise!vars)
<1> USE DEF Promise!Next, Promise!vars
<1>0. 1 \in Task
  BY PipelineAssumption DEF Task
<1>1. ASSUME NEW m \in Message, Accept(m) PROVE Promise!Send(m)
  <2>1. History \o accepted' = Append(History \o accepted, m)
    BY <1>1, AcceptEvents DEF Events
  <2> QED BY <1>1, <2>1 DEF Accept, Promise!Send
<1>2. ASSUME NEW i \in Task, Stops(i)
      PROVE  Promise!NoMore \/ UNCHANGED Promise!vars
  <2>1. UNCHANGED <<stream, client, written, accepted>>
    BY <1>2, StopsFacts
  <2>2. CASE i = 1
    <3>1. running[1] /\ running'[1] = FALSE
      <4>1. running[1] /\ ~running'[1]
        BY <1>2, <2>2, StopsFacts
      <4>2. running' \in [Task -> BOOLEAN]
        BY <1>2, EndTaskFacts DEF Stops, UpstreamEnded, DownstreamGone, SourceFails
      <4> QED BY <1>0, <4>1, <4>2
    <3> QED BY <2>1, <3>1 DEF Promise!NoMore
  <2>3. CASE i # 1
    <3>1. running'[1] = running[1]
      BY <1>0, <1>2, <2>3, StopsFacts
    <3> QED BY <2>1, <3>1
  <2> QED BY <2>2, <2>3
<1>3. ASSUME NEW i \in Task, PassOn(i) PROVE UNCHANGED Promise!vars
  BY <1>3 DEF PassOn
<1>4. ASSUME WriteEvent PROVE Promise!Receive
  <2>1. Served
    BY <1>4 DEF WriteEvent, Served
  <2>2. PICK cut : Divides(cut)
    BY <2>1 DEF Divided
  <2>3. /\ Len(written) < Len(Events)
        /\ written' = Append(written, Events[Len(written) + 1])
    BY <1>4, <2>2, DividedWrite
  <2> QED BY <1>4, <2>3 DEF WriteEvent, Events, Promise!Receive
<1>5. ASSUME StopStreaming, written' = written,
             client = "connected" => ~running[1] /\ written = Events
      PROVE  Promise!End
  BY <1>5 DEF StopStreaming, Events, Promise!End
<1>6. ASSUME Otherwise
      PROVE  Promise!End \/ Promise!Leave \/ UNCHANGED Promise!vars
  <2>1. CASE WriteIntoVoid
    BY <2>1 DEF WriteIntoVoid
  <2>2. CASE WriteFails \/ ReadLine \/ KeepAliveFails
    BY <1>5, <2>2 DEF WriteFails, ReadLine, KeepAliveFails
  <2>3. CASE StreamEnded
    <3>1. client = "connected" => ~running[1] /\ written = Events
      BY <2>3, AllWritten DEF StreamEnded, StopStreaming, Served
    <3> QED BY <1>5, <2>3, <3>1 DEF StreamEnded
  <2>4. CASE Drain \/ Drained
    BY <2>4 DEF Drain, Drained
  <2>5. CASE ClientLeaves
    BY <2>5 DEF ClientLeaves, Promise!Leave
  <2> QED BY <1>6, <2>1, <2>2, <2>3, <2>4, <2>5 DEF Otherwise
<1>7. ASSUME UNCHANGED vars PROVE UNCHANGED Promise!vars
  BY <1>7 DEF vars
<1> QED BY <1>1, <1>2, <1>3, <1>4, <1>6, <1>7, NextCases

LEMMA PromiseInit == Init => Promise!Init
<1> SUFFICES ASSUME Init PROVE Promise!Init
  OBVIOUS
<1>1. 1 \in Task
  BY PipelineAssumption DEF Task
<1>2. History \o accepted = History
  BY PipelineAssumption DEF Init
<1>3. running[1] = TRUE
  BY <1>1 DEF Init
<1> QED BY <1>2, <1>3 DEF Init, Promise!Init

(* The tasks and channels, however many, bring the client the rows of the  *)
(* query and then what the broadcast channel brought: each event once, in  *)
(* order, the end of the response only after the last of them.             *)
THEOREM StreamsAsPromised == Spec => Promise!SafetySpec
<1>1. Init => Promise!Init
  BY PromiseInit
<1>2. TypeOK /\ Closure /\ NothingStranded /\ Divided /\ [Next]_vars
        => [Promise!Next]_(Promise!vars)
  BY Simulates
<1>3. Init => TypeOK /\ Closure /\ NothingStranded /\ Divided
  BY TypeInit, ClosureInit, DividedInit
<1>4. TypeOK /\ Closure /\ NothingStranded /\ Divided /\ [Next]_vars
        => TypeOK' /\ Closure' /\ NothingStranded' /\ Divided'
  BY TypeNext, ClosureNext, DividedNext
<1> QED BY <1>1, <1>2, <1>3, <1>4, PTL DEF Spec, Promise!SafetySpec

=============================================================================
