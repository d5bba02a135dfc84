------------------------ MODULE SubscriptionsHandler ------------------------
(***************************************************************************)
(* lib/pheidippides-messenger: Messenger::send_message storing a message   *)
(* and handing it to SubscriptionsHandler::handle_new_message, and         *)
(* SubscriptionsHandler::subscribe_new_messages combining a read of the    *)
(* messages table with a tokio broadcast channel per user.                 *)
(*                                                                         *)
(* A subscription is one call of subscribe_new_messages.  A broadcast      *)
(* channel is named by the subscription whose or_insert created it, which  *)
(* tells apart the channels a user has one after the other.  A channel     *)
(* keeps the whole list of what was sent on it and a position per          *)
(* receiver; the ring buffer shows in Lagged.                              *)
(***************************************************************************)
EXTENDS MessageStore

CONSTANTS
  SubscriptionId,
  Subscriber,    (* the user each subscription is made for                 *)
  Capacity,      (* slots of a broadcast channel: channel(100) makes 128  *)
  NoChannel,     (* no entry in the map, no receiver                       *)
  NoStart,       (* starting_point = None                                  *)
  UnknownId      (* a starting point that is no message of the table       *)

ASSUME SubscriptionAssumption ==
  /\ Subscriber \in [SubscriptionId -> UserId]
  /\ Capacity \in Nat \ {0}
  /\ NoChannel \notin SubscriptionId
  /\ NoStart # UnknownId /\ {NoStart, UnknownId} \cap MessageId = {}

VARIABLES
  stored,        (* the rows of the messages table                         *)
  send,          (* how far send_message has got with each message         *)
  new_messages,  (* the map from a user to the user's broadcast channel    *)
  log,           (* what has been sent on each broadcast channel           *)
  phase,         (* how far each subscription has got                      *)
  start,         (* its starting point                                     *)
  baseline,      (* the rows of the table when it was made (history only)  *)
  rx,            (* the channel its broadcast::Receiver reads              *)
  cursor,        (* how much of that channel the receiver has read         *)
  history,       (* previous_messages, which it sends on first             *)
  live,          (* what pipe_broadcast has sent on after that             *)
  open           (* whether the reader of its messages is still there      *)

sendVars == <<stored, send>>
subVars == <<phase, start, baseline, rx, cursor, history, live, open>>
vars == <<stored, send, new_messages, log, subVars>>

SendPhase ==
  {"unsent",     (* send_message not called, or waiting for the insert     *)
   "failed",     (* create_message returned an error                       *)
   "stored",     (* the row is there, handle_new_message not yet called    *)
   "sending",    (* in handle_new_message, between the two sends           *)
   "sent",       (* handle_new_message returned Ok                         *)
   "dropped",    (* the send to the author failed: early return            *)
   "unheard"}    (* the send to the recipient failed                       *)

(* The subscriptions that hold a broadcast::Receiver.                      *)
Receiving == {s \in SubscriptionId : phase[s] \in {"fetching", "piping"}}

(* Every variable has its type, and a receiver has not read more of its    *)
(* channel than was sent.                                                  *)
TypeOK ==
  /\ stored \subseteq MessageId
  /\ send \in [MessageId -> SendPhase]
  /\ new_messages \in [UserId -> SubscriptionId \cup {NoChannel}]
  /\ log \in [SubscriptionId -> Seq(MessageId)]
  /\ phase \in [SubscriptionId -> {"idle", "fetching", "piping", "ended"}]
  /\ start \in [SubscriptionId -> MessageId \cup {NoStart, UnknownId}]
  /\ baseline \in [SubscriptionId -> SUBSET MessageId]
  /\ rx \in [SubscriptionId -> SubscriptionId \cup {NoChannel}]
  /\ cursor \in [SubscriptionId -> Nat]
  /\ history \in [SubscriptionId -> Seq(MessageId)]
  /\ live \in [SubscriptionId -> Seq(MessageId)]
  /\ open \in [SubscriptionId -> BOOLEAN]
  /\ \A s \in Receiving :
       rx[s] \in SubscriptionId /\ cursor[s] <= Len(log[rx[s]])

Init ==
  /\ stored = {}
  /\ send = [m \in MessageId |-> "unsent"]
  /\ new_messages = [u \in UserId |-> NoChannel]
  /\ log = [c \in SubscriptionId |-> <<>>]
  /\ phase = [s \in SubscriptionId |-> "idle"]
  /\ start = [s \in SubscriptionId |-> NoStart]
  /\ baseline = [s \in SubscriptionId |-> {}]
  /\ rx = [s \in SubscriptionId |-> NoChannel]
  /\ cursor = [s \in SubscriptionId |-> 0]
  /\ history = [s \in SubscriptionId |-> <<>>]
  /\ live = [s \in SubscriptionId |-> <<>>]
  /\ open = [s \in SubscriptionId |-> TRUE]

-----------------------------------------------------------------------------
(* The broadcast channels.                                                 *)

(* Those of channel c; Sender::receiver_count is their number.             *)
Receivers(c) == {s \in Receiving : rx[s] = c}

(* A sender's send fails when the channel has no receiver.                 *)
SendFails(u) == new_messages[u] # NoChannel /\ Receivers(new_messages[u]) = {}

(* The channels after m is sent to u, who may have none.                   *)
Publish(m, u) ==
  [c \in SubscriptionId |->
     IF c = new_messages[u] THEN Append(log[c], m) ELSE log[c]]

(* What the receiver of s has still to read.                               *)
Unread(s) == {log[rx[s]][i] : i \in cursor[s] + 1 .. Len(log[rx[s]])}

(* The two errors of Receiver::recv: the slot to read was overwritten, or  *)
(* everything was read and the only Sender, the one in the map, is gone.   *)
Lagged(s) == Len(log[rx[s]]) - cursor[s] > Capacity
Closed(s) ==
  /\ cursor[s] = Len(log[rx[s]])
  /\ \A u \in UserId : new_messages[u] # rx[s]

(* handle_new_message holds the read lock of the map for both of its sends *)
(* and so keeps writers out; readers do not exclude each other.            *)
WriteLockFree == \A m \in MessageId : send[m] # "sending"

-----------------------------------------------------------------------------
(* Messenger::send_message and SubscriptionsHandler::handle_new_message.   *)

CreateMessage(m) ==
  /\ send[m] = "unsent"
  /\ stored' = stored \cup {m}
  /\ send' = [send EXCEPT ![m] = "stored"]
  /\ UNCHANGED <<new_messages, log, subVars>>

(* An error of the insert: the connection may have failed before or after  *)
(* the row was committed.                                                  *)
CreateMessageFails(m) ==
  /\ send[m] = "unsent"
  /\ stored' \in {stored, stored \cup {m}}
  /\ send' = [send EXCEPT ![m] = "failed"]
  /\ UNCHANGED <<new_messages, log, subVars>>

HandleFromFails(m) ==
  /\ send[m] = "stored"
  /\ SendFails(From[m])
  /\ send' = [send EXCEPT ![m] = "dropped"]
  /\ UNCHANGED <<stored, new_messages, log, subVars>>

HandleFrom(m) ==
  /\ send[m] = "stored"
  /\ ~SendFails(From[m])
  /\ log' = Publish(m, From[m])
  /\ send' = [send EXCEPT ![m] = IF From[m] # To[m] THEN "sending" ELSE "sent"]
  /\ UNCHANGED <<stored, new_messages, subVars>>

HandleToFails(m) ==
  /\ send[m] = "sending"
  /\ SendFails(To[m])
  /\ send' = [send EXCEPT ![m] = "unheard"]
  /\ UNCHANGED <<stored, new_messages, log, subVars>>

(* Mutant: the second send goes to the author's channel again.             *)
HandleToAuthor(m) ==
  /\ send[m] = "sending"
  /\ ~SendFails(To[m])
  /\ log' = Publish(m, From[m])
  /\ send' = [send EXCEPT ![m] = "sent"]
  /\ UNCHANGED <<stored, new_messages, subVars>>

HandleTo(m) ==
  /\ send[m] = "sending"
  /\ ~SendFails(To[m])
  /\ log' = Publish(m, To[m])
  /\ send' = [send EXCEPT ![m] = "sent"]
  /\ UNCHANGED <<stored, new_messages, subVars>>

-----------------------------------------------------------------------------
(* SubscriptionsHandler::subscribe_new_messages.                           *)

(* Mutant: the channel is read from its first message on.                  *)
SubscribeFromStart(s, p) ==
  LET u == Subscriber[s]
      c == IF new_messages[u] = NoChannel THEN s ELSE new_messages[u]
  IN
  /\ phase[s] = "idle"
  /\ WriteLockFree
  /\ new_messages' = [new_messages EXCEPT ![u] = c]
  /\ rx' = [rx EXCEPT ![s] = c]
  /\ start' = [start EXCEPT ![s] = p]
  /\ baseline' = [baseline EXCEPT ![s] = stored]
  /\ phase' = [phase EXCEPT ![s] = IF p = NoStart THEN "piping" ELSE "fetching"]
  /\ UNCHANGED <<sendVars, log, cursor, history, live, open>>

(* Under the write lock: entry(user).or_insert(channel).subscribe(), then, *)
(* with no starting point, straight to pipe_broadcast.                     *)
Subscribe(s, p) ==
  LET u == Subscriber[s]
      c == IF new_messages[u] = NoChannel THEN s ELSE new_messages[u]
  IN
  /\ phase[s] = "idle"
  /\ WriteLockFree
  /\ new_messages' = [new_messages EXCEPT ![u] = c]
  /\ rx' = [rx EXCEPT ![s] = c]
  /\ cursor' = [cursor EXCEPT ![s] = Len(log[c])]
  /\ start' = [start EXCEPT ![s] = p]
  /\ baseline' = [baseline EXCEPT ![s] = stored]
  /\ phase' = [phase EXCEPT ![s] = IF p = NoStart THEN "piping" ELSE "fetching"]
  /\ UNCHANGED <<sendVars, log, history, live, open>>

(* Mutant: the query is read before the channel is subscribed to.          *)
FetchThenSubscribe(s) ==
  /\ phase[s] = "fetching"
  /\ \E rows \in ByTimestamp(UsersMessagesSince(stored, Subscriber[s], start[s])) :
       history' = [history EXCEPT ![s] = rows]
  /\ phase' = [phase EXCEPT ![s] = "piping"]
  /\ cursor' = [cursor EXCEPT ![s] = Len(log[rx[s]])]
  /\ UNCHANGED <<sendVars, new_messages, log, start, baseline, rx, live, open>>

(* fetch_users_messages_since returns; the rows go to the reader first and *)
(* their ids into sent_messages, which is Range(history).                  *)
Fetch(s) ==
  /\ phase[s] = "fetching"
  /\ \E rows \in ByTimestamp(UsersMessagesSince(stored, Subscriber[s], start[s])) :
       history' = [history EXCEPT ![s] = rows]
  /\ phase' = [phase EXCEPT ![s] = "piping"]
  /\ UNCHANGED <<sendVars, new_messages, log, start, baseline, rx, cursor, live, open>>

(* The task of s ends, or its `?` returns early: the receiver is dropped.  *)
End(s) ==
  /\ phase' = [phase EXCEPT ![s] = "ended"]
  /\ rx' = [rx EXCEPT ![s] = NoChannel]
  /\ cursor' = [cursor EXCEPT ![s] = 0]
  /\ UNCHANGED <<sendVars, new_messages, log, start, baseline, history, live, open>>

FetchFails(s) == phase[s] = "fetching" /\ End(s)

(* Mutant: no filter over the messages of the query.                       *)
ForwardsAll(s) == TRUE

(* pipe_broadcast receives the next message and its filter lets it pass.   *)
Forwards(s) == log[rx[s]][cursor[s] + 1] \notin Range(history[s])

(* recv of pipe_broadcast is ready with a message.                         *)
Receives(s) ==
  /\ phase[s] = "piping"
  /\ ~Lagged(s)
  /\ cursor[s] < Len(log[rx[s]])

PipeForward(s) ==
  /\ Receives(s) /\ Forwards(s) /\ open[s]
  /\ live' = [live EXCEPT ![s] = Append(@, log[rx[s]][cursor[s] + 1])]
  /\ cursor' = [cursor EXCEPT ![s] = @ + 1]
  /\ UNCHANGED <<sendVars, new_messages, log, phase, start, baseline, rx, history, open>>

(* Mutant: a filtered message takes the next one with it.                  *)
PipeSkipTwo(s) ==
  /\ Receives(s) /\ ~Forwards(s)
  /\ cursor' = [cursor EXCEPT ![s] = @ + 2]
  /\ UNCHANGED <<sendVars, new_messages, log, phase, start, baseline, rx, history, live, open>>

PipeSkip(s) ==
  /\ Receives(s) /\ ~Forwards(s)
  /\ cursor' = [cursor EXCEPT ![s] = @ + 1]
  /\ UNCHANGED <<sendVars, new_messages, log, phase, start, baseline, rx, history, live, open>>

(* Mutant: a receiver that lagged goes on waiting.                         *)
PipeBrokenOnlyWhenClosed(s) ==
  /\ phase[s] = "piping"
  /\ Closed(s)
  /\ End(s)

PipeBroken(s) ==
  /\ phase[s] = "piping"
  /\ Lagged(s) \/ Closed(s)
  /\ End(s)

(* Mutant: the departure of the reader is noticed by the next send only.   *)
PipeClosedOnSend(s) == Receives(s) /\ Forwards(s) /\ ~open[s] /\ End(s)

(* The branch on sender.closed(), and the break when the send to the       *)
(* reader fails: both need the reader to be gone.                          *)
PipeClosed(s) == phase[s] = "piping" /\ ~open[s] /\ End(s)

(* The reader of the subscription drops its end.                           *)
Disconnect(s) ==
  /\ phase[s] = "piping"
  /\ open[s]
  /\ open' = [open EXCEPT ![s] = FALSE]
  /\ UNCHANGED <<sendVars, new_messages, log, phase, start, baseline, rx, cursor, history, live>>

-----------------------------------------------------------------------------
(* The cleanup job, woken every SUBSCRIPTIONS_CLEANUP_INTERVAL.            *)

(* Mutant: receiver_count() > 1.                                           *)
UnusedByOne(u) == Cardinality(Receivers(new_messages[u])) <= 1

Unused(u) == Receivers(new_messages[u]) = {}

Cleanup ==
  /\ WriteLockFree
  /\ new_messages' =
       [u \in UserId |-> IF Unused(u) THEN NoChannel ELSE new_messages[u]]
  /\ UNCHANGED <<sendVars, log, subVars>>

-----------------------------------------------------------------------------
SendMessage(m) == CreateMessage(m) \/ CreateMessageFails(m)

HandleNewMessage(m) ==
  HandleFromFails(m) \/ HandleFrom(m) \/ HandleToFails(m) \/ HandleTo(m)

Pipe(s) == PipeForward(s) \/ PipeSkip(s) \/ PipeBroken(s) \/ PipeClosed(s)

Next ==
  \/ \E m \in MessageId : SendMessage(m) \/ HandleNewMessage(m)
  \/ \E s \in SubscriptionId :
       \/ \E p \in stored \cup {NoStart, UnknownId} : Subscribe(s, p)
       \/ Fetch(s)
       \/ FetchFails(s)
       \/ Pipe(s)
       \/ Disconnect(s)
  \/ Cleanup

(* The runtime polls every task that is ready, the database answers, the   *)
(* timer fires.  Nobody has to send a message, subscribe or go away.       *)
Fairness ==
  /\ \A m \in MessageId : WF_vars(HandleNewMessage(m))
  /\ \A s \in SubscriptionId :
       WF_vars(Fetch(s) \/ FetchFails(s)) /\ WF_vars(Pipe(s))
  /\ WF_vars(Cleanup)

SafetySpec == Init /\ [][Next]_vars

Spec == SafetySpec /\ Fairness

-----------------------------------------------------------------------------
(* What a subscription is owed.                                            *)

(* send_message has sent m to user u or tried to: from then on m must      *)
(* reach every subscription of u.  A message whose handling stopped at the *)
(* author's unused channel is not owed to its recipient.                   *)
Owed(m, u) ==
  \/ send[m] \in {"sent", "unheard"} /\ Concerns(m, u)
  \/ send[m] \in {"sending", "dropped"} /\ u = From[m]

(* m came after the subscription was made or is past its starting point.   *)
InScope(m, s) ==
  \/ m \notin baseline[s]
  \/ start[s] \in stored /\ After(m, start[s])

Delivered(s) == Range(history[s]) \cup Range(live[s])

Covered(m, s) == m \in Delivered(s) \cup Unread(s)

(* A receiver always reads the channel the map holds for its user: the     *)
(* cleanup job, which runs between any two steps of a subscription, never  *)
(* takes away a channel somebody still reads.                              *)
NoOrphanedReceiver ==
  \A s \in Receiving : new_messages[Subscriber[s]] = rx[s]

(* No message reaches a reader twice, neither by both the query and the    *)
(* channel nor as author and recipient of the same message.                *)
NoDuplicates ==
  \A s \in SubscriptionId :
    /\ IsInjective(history[s])
    /\ IsInjective(live[s])
    /\ Range(history[s]) \cap Range(live[s]) = {}

(* Between the query and the channel no message falls through: whatever    *)
(* has been handled and is in the scope of a subscription was sent to its  *)
(* reader or is waiting in its receiver.                                   *)
NothingMissed ==
  \A s \in SubscriptionId : \A m \in MessageId :
    phase[s] = "piping" /\ Owed(m, Subscriber[s]) /\ InScope(m, s) => Covered(m, s)

(* A reader only sees rows of the table that belong to its user.           *)
OnlyOwnMessages ==
  \A s \in SubscriptionId : \A m \in Delivered(s) :
    m \in stored /\ Concerns(m, Subscriber[s])

(* The only reason for the server to end a subscription somebody reads is  *)
(* that the reader fell behind by more than the channel's capacity.        *)
CutOffOnlyWhenLagging ==
  [][\A s \in SubscriptionId :
       phase[s] = "piping" /\ phase'[s] = "ended" /\ open[s] => Lagged(s)]_vars

-----------------------------------------------------------------------------
(* tests/app.rs:52-58 expects a subscription to yield every later message  *)
(* addressed to its user, whoever sent it: handling a message for which    *)
(* the recipient has a reader puts it on the recipient's channel.          *)
RecipientHears ==
  \A s \in SubscriptionId : \A m \in MessageId :
    /\ phase[s] = "piping"
    /\ send[m] = "dropped"
    /\ Subscriber[s] = To[m]
    /\ m \notin baseline[s]
    => Covered(m, s)

(* async_utils.rs:74 says that recv fails when the sender is dropped.      *)
BrokenOnlyWhenSenderDropped ==
  [][\A s \in SubscriptionId :
       phase[s] = "piping" /\ phase'[s] = "ended" /\ open[s] => Closed(s)]_vars
=============================================================================
