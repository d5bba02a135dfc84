--------------------------- MODULE RequestService ---------------------------
(***************************************************************************)
(* What the server process promises, whatever its tasks do: a request gets *)
(* at most one answer, which comes after the statements run for it;        *)
(* nothing is asked of the database once the process is down, and it does  *)
(* not go down in the middle of a statement.                               *)
(***************************************************************************)
CONSTANT Connection

VARIABLES
  up,        (* whether the process runs                                   *)
  request    (* how far each connection has got                            *)

vars == <<up, request>>

RequestState == {"none", "open", "acting", "answered", "dropped"}

Init ==
  /\ up = TRUE
  /\ request = [c \in Connection |-> "none"]

Become(c, from, to) ==
  /\ up
  /\ request[c] \in from
  /\ request' = [request EXCEPT ![c] = to]
  /\ UNCHANGED up

Open(c) == Become(c, {"none"}, "open")
Act(c) == Become(c, {"open"}, "acting")
Acted(c) == Become(c, {"acting"}, "open")
Answer(c) == Become(c, {"open"}, "answered")
(* No answer: the client left, or what it sent is no HTTP request.         *)
Drop(c) == Become(c, {"open"}, "dropped")

(* The process ends and with it what is still open.                        *)
GoDown ==
  /\ up
  /\ \A c \in Connection : request[c] # "acting"
  /\ up' = FALSE
  /\ request' = [c \in Connection |->
                   IF request[c] = "open" THEN "dropped" ELSE request[c]]

(* The listener goes and with it the connections it has not accepted.      *)
Refuse ==
  /\ up
  /\ \E waiting \in SUBSET {c \in Connection : request[c] = "open"} :
       request' = [c \in Connection |->
                     IF c \in waiting THEN "dropped" ELSE request[c]]
  /\ UNCHANGED up

Next ==
  \/ \E c \in Connection :
       Open(c) \/ Act(c) \/ Acted(c) \/ Answer(c) \/ Drop(c)
  \/ Refuse
  \/ GoDown

Spec == Init /\ [][Next]_vars
=============================================================================
