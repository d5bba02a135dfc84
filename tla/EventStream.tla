---------------------------- MODULE EventStream ----------------------------
(***************************************************************************)
(* What GET /subscribe/new_messages promises its client, whatever tasks    *)
(* and channels lie in between: one list of events, of which the client    *)
(* receives the next one, and an end that comes after the last.            *)
(***************************************************************************)
EXTENDS Naturals, Sequences

CONSTANTS Message, First    (* First: the events there are to begin with   *)

VARIABLES
  sent,        (* the events of the stream so far                          *)
  received,    (* those the client has received                            *)
  more,        (* whether more may come                                    *)
  connected,   (* whether the client is there                              *)
  over         (* whether the server has stopped writing                   *)

vars == <<sent, received, more, connected, over>>

Init ==
  /\ sent = First
  /\ received = <<>>
  /\ more = TRUE
  /\ connected = TRUE
  /\ over = FALSE

Send(m) ==
  /\ more
  /\ sent' = Append(sent, m)
  /\ UNCHANGED <<received, more, connected, over>>

Receive ==
  /\ connected /\ ~over
  /\ Len(received) < Len(sent)
  /\ received' = Append(received, sent[Len(received) + 1])
  /\ UNCHANGED <<sent, more, connected, over>>

NoMore ==
  /\ more
  /\ more' = FALSE
  /\ UNCHANGED <<sent, received, connected, over>>

Leave ==
  /\ connected
  /\ connected' = FALSE
  /\ UNCHANGED <<sent, received, more, over>>

End ==
  /\ ~over
  /\ connected => ~more /\ received = sent
  /\ over' = TRUE
  /\ UNCHANGED <<sent, received, more, connected>>

Next == (\E m \in Message : Send(m)) \/ Receive \/ NoMore \/ Leave \/ End

(* Events reach a client that stays; the end follows the last of them; and *)
(* nothing is kept for a client that has left.                             *)
Fairness ==
  /\ WF_vars(Receive)
  /\ WF_vars(End)
  /\ WF_vars(~connected /\ NoMore)

(* What it promises of safety.                                             *)
SafetySpec == Init /\ [][Next]_vars

Spec == SafetySpec /\ Fairness
=============================================================================
