------------------------------ MODULE Pipeline ------------------------------
(***************************************************************************)
(* The tasks between a user's broadcast channel and the TCP connection of  *)
(* a GET /subscribe/new_messages request.                                  *)
(*                                                                         *)
(* Task 1 is pipe_broadcast.  With a starting point task 2 is              *)
(* redirect_unbounded_channel; the last one is the pipe_unbounded_channel  *)
(* of actions.rs that makes events of messages.  Each task has an          *)
(* unbounded channel to the next one, and the last one's is read by the    *)
(* task of Request::respond that runs handle_event_stream.  Every task of  *)
(* async_utils is the same loop: stop when the channel it sends to has     *)
(* lost its receiver or the one it reads has ended, else pass on.          *)
(***************************************************************************)
EXTENDS Naturals, Sequences

CONSTANTS
  Message,
  Tasks,         (* 2 without a starting point, 3 with one                 *)
  History,       (* previous_messages of subscribe_new_messages            *)
  MaxAccepted    (* bound on what the broadcast channel brings             *)

ASSUME PipelineAssumption ==
  /\ Tasks \in Nat \ {0}
  /\ History \in Seq(Message)
  /\ History # <<>> => Tasks >= 2
  /\ MaxAccepted \in Nat

Task == 1..Tasks

VARIABLES
  running,    (* which tasks still run: task i holds the sender of chan[i] *)
  chan,       (* what is in the channel each task sends to                 *)
  rxOpen,     (* whether that channel has its receiver                     *)
  stream,     (* handle_event_stream: "streaming", "draining" or "done"    *)
  client,     (* "connected", "closed" or "vanished" without a FIN         *)
  written,    (* the events the client got                                 *)
  accepted    (* what task 1 has passed on (history only)                  *)

vars == <<running, chan, rxOpen, stream, client, written, accepted>>

(* Every variable has its type; the last channel is open as long as        *)
(* handle_event_stream runs, and empty when respond lets go of it.         *)
TypeOK ==
  /\ running \in [Task -> BOOLEAN]
  /\ chan \in [Task -> Seq(Message)]
  /\ rxOpen \in [Task -> BOOLEAN]
  /\ stream \in {"streaming", "draining", "done"}
  /\ client \in {"connected", "closed", "vanished"}
  /\ written \in Seq(Message)
  /\ accepted \in Seq(Message)
  /\ rxOpen[Tasks] = (stream = "streaming")
  /\ stream = "done" => chan[Tasks] = <<>>

(* subscribe_new_messages sends History on the channel redirect sends to   *)
(* before redirect starts.                                                 *)
Init ==
  /\ running = [i \in Task |-> TRUE]
  /\ chan = [i \in Task |-> IF i = 2 THEN History ELSE <<>>]
  /\ rxOpen = [i \in Task |-> TRUE]
  /\ stream = "streaming"
  /\ client = "connected"
  /\ written = <<>>
  /\ accepted = <<>>

-----------------------------------------------------------------------------
(* The tasks of async_utils.                                               *)

(* Task i breaks out of its loop: it drops its sender and its receiver,    *)
(* with whatever is left in the channel it reads.                          *)
EndTask(i) ==
  /\ running' = [running EXCEPT ![i] = FALSE]
  /\ rxOpen' = [j \in Task |-> rxOpen[j] /\ j # i - 1]
  /\ chan' = [j \in Task |-> IF j = i - 1 THEN <<>> ELSE chan[j]]
  /\ UNCHANGED <<stream, client, written, accepted>>

(* The broadcast receiver yields a message that the filter lets pass.      *)
Accept(m) ==
  /\ running[1] /\ rxOpen[1]
  /\ Len(accepted) < MaxAccepted
  /\ accepted' = Append(accepted, m)
  /\ chan' = [chan EXCEPT ![1] = Append(@, m)]
  /\ UNCHANGED <<running, rxOpen, stream, client, written>>

(* The broadcast receiver yields an error.                                 *)
SourceFails == running[1] /\ EndTask(1)

(* Mutant: the message overtakes what is already in the channel.           *)
PassOnFirst(i) ==
  /\ i > 1
  /\ running[i] /\ rxOpen[i]
  /\ chan[i - 1] # <<>>
  /\ chan' = [chan EXCEPT ![i] = <<Head(chan[i - 1])>> \o @, ![i - 1] = Tail(@)]
  /\ UNCHANGED <<running, rxOpen, stream, client, written, accepted>>

PassOn(i) ==
  /\ i > 1
  /\ running[i] /\ rxOpen[i]
  /\ chan[i - 1] # <<>>
  /\ chan' = [chan EXCEPT ![i] = Append(@, Head(chan[i - 1])), ![i - 1] = Tail(@)]
  /\ UNCHANGED <<running, rxOpen, stream, client, written, accepted>>

(* Mutant: an empty channel is taken for one that has ended.               *)
UpstreamEmpty(i) ==
  /\ i > 1
  /\ running[i]
  /\ chan[i - 1] = <<>>
  /\ EndTask(i)

(* recv returns None: the sender is gone and the channel is empty.         *)
UpstreamEnded(i) ==
  /\ i > 1
  /\ running[i]
  /\ ~running[i - 1] /\ chan[i - 1] = <<>>
  /\ EndTask(i)

(* Mutant: a task notices that its receiver is gone when it sends.         *)
DownstreamGoneOnSend(i) ==
  /\ running[i] /\ ~rxOpen[i]
  /\ i > 1 /\ chan[i - 1] # <<>>
  /\ EndTask(i)

(* sender.closed(), or the send after a recv fails.                        *)
DownstreamGone(i) == running[i] /\ ~rxOpen[i] /\ EndTask(i)

-----------------------------------------------------------------------------
(* Request::respond and handle_event_stream.                               *)

(* handle_event_stream returns, and respond closes the stream.             *)
StopStreaming ==
  /\ stream = "streaming"
  /\ stream' = "draining"
  /\ rxOpen' = [rxOpen EXCEPT ![Tasks] = FALSE]
  /\ UNCHANGED <<running, chan, client, accepted>>

WriteEvent ==
  /\ stream = "streaming"
  /\ chan[Tasks] # <<>>
  /\ client = "connected"
  /\ written' = Append(written, Head(chan[Tasks]))
  /\ chan' = [chan EXCEPT ![Tasks] = Tail(@)]
  /\ UNCHANGED <<running, rxOpen, stream, client, accepted>>

(* The kernel takes the bytes, nobody gets them.                           *)
WriteIntoVoid ==
  /\ stream = "streaming"
  /\ chan[Tasks] # <<>>
  /\ client # "connected"
  /\ chan' = [chan EXCEPT ![Tasks] = Tail(@)]
  /\ UNCHANGED <<running, rxOpen, stream, client, written, accepted>>

WriteFails ==
  /\ chan[Tasks] # <<>>
  /\ client # "connected"
  /\ StopStreaming
  /\ UNCHANGED written

(* read_line returns. Whatever it returns ends the stream, with events     *)
(* possibly unsent: the client closed the connection, or it wrote a line.  *)
(* A browser's EventSource never writes after its request; "closed" is     *)
(* also the state of a client that does, and what such a client still      *)
(* receives is not counted as written.                                     *)
ReadLine == client = "closed" /\ StopStreaming /\ UNCHANGED written

(* The hourly keep-alive does not get through to a client that vanished;   *)
(* to one that is there it is a comment.                                   *)
KeepAliveFails == client = "vanished" /\ StopStreaming /\ UNCHANGED written

StreamEnded ==
  /\ ~running[Tasks] /\ chan[Tasks] = <<>>
  /\ StopStreaming
  /\ UNCHANGED written

Drain ==
  /\ stream = "draining"
  /\ chan[Tasks] # <<>>
  /\ chan' = [chan EXCEPT ![Tasks] = Tail(@)]
  /\ UNCHANGED <<running, rxOpen, stream, client, written, accepted>>

(* Mutant: the channel is closed and dropped without the loop over recv.   *)
DrainedEarly ==
  /\ stream = "draining"
  /\ stream' = "done"
  /\ UNCHANGED <<running, chan, rxOpen, client, written, accepted>>

(* recv of a closed channel returns None as soon as it is empty.           *)
Drained ==
  /\ stream = "draining"
  /\ chan[Tasks] = <<>>
  /\ stream' = "done"
  /\ UNCHANGED <<running, chan, rxOpen, client, written, accepted>>

(* The client closes the connection, or writes into it, or vanishes        *)
(* without a word.                                                         *)
ClientLeaves ==
  /\ client = "connected"
  /\ client' \in {"closed", "vanished"}
  /\ UNCHANGED <<running, chan, rxOpen, stream, written, accepted>>

-----------------------------------------------------------------------------
TaskStep(i) == PassOn(i) \/ UpstreamEnded(i) \/ DownstreamGone(i)

StreamStep ==
  \/ WriteEvent \/ WriteIntoVoid \/ WriteFails \/ StreamEnded \/ Drain \/ Drained

Next ==
  \/ \E m \in Message : Accept(m)
  \/ SourceFails
  \/ \E i \in Task : TaskStep(i)
  \/ StreamStep
  \/ ReadLine
  \/ KeepAliveFails
  \/ ClientLeaves

(* The runtime polls every task; a select! whose branch stays ready takes  *)
(* it in the end, since it polls its branches in a random order. The       *)
(* fairness of StreamStep also says that a connected client reads: the     *)
(* write of an event waits for one that does not, as long as it stays.     *)
Fairness ==
  /\ \A i \in Task : WF_vars(TaskStep(i))
  /\ WF_vars(StreamStep)
  /\ WF_vars(ReadLine)
  /\ WF_vars(KeepAliveFails)

Spec == Init /\ [][Next]_vars /\ Fairness

-----------------------------------------------------------------------------
(* The tasks and channels together are one stream of events: the rows of   *)
(* the query and then what the channel brought, in order, none lost or     *)
(* twice, all of it before the end, and the broadcast receiver given up    *)
(* once the client has left in whatever way.                               *)
Promise ==
  INSTANCE EventStream WITH
    First <- History,
    sent <- History \o accepted,
    received <- written,
    more <- running[1],
    connected <- client = "connected",
    over <- stream # "streaming"

ImplementsEventStream == Promise!Spec

(* A task that stops early takes no event with it: unless the connection   *)
(* is over, a task that has stopped has left nothing unread behind it.     *)
NothingStranded ==
  stream = "streaming" =>
    \A i \in Task : ~running[i] => \A j \in Task : j < i => ~running[j] /\ chan[j] = <<>>

(* Everything winds up once the client has left or the source has failed.  *)
EventuallyReleased ==
  (client # "connected" \/ ~running[1])
    ~> (stream = "done" /\ \A i \in Task : ~running[i])
=============================================================================
