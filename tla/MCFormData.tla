----------------------------- MODULE MCFormData -----------------------------
(***************************************************************************)
(* The forms of the program in small: the log-in form with its two fields, *)
(* and a query string with an optional one.  The names are one letter,     *)
(* which may also stand in a value; texts are all those of a few tokens    *)
(* and all forms of two fields with short values.                          *)
(***************************************************************************)
EXTENDS FormData

login == <<"l">>
password == <<"p">>

MCTarget ==
  {[fields |-> {login, password}, required |-> {login, password}],
   [fields |-> {login}, required |-> {}]}

Texts(alphabet, max) == UNION {[1..n -> alphabet] : n \in 0..max}

Typed == Texts({"l", " ", "+", "&", "="}, 2)

MCForm ==
  {<<>>}
  \cup {<<<<login, v>>>> : v \in Typed}
  \cup {<<<<login, v>>, <<password, w>>>> : v, w \in Typed}

MCRawText == Texts({"l", "p", "=", "&"}, 7)
=============================================================================
