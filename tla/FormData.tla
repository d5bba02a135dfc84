------------------------------ MODULE FormData ------------------------------
(***************************************************************************)
(* lib/pheidippides-utils/src/serde/form_data.rs: from_str reads a form or *)
(* a query string into a struct, one key and one value at a time, as the   *)
(* visitor that serde derives asks for them.                               *)
(*                                                                         *)
(* A text is a sequence of tokens.  A token is a letter, one of the signs  *)
(* "=", "&", "+", or a percent escape, which stands for its three          *)
(* characters; each decodes to one character.                              *)
(***************************************************************************)
EXTENDS Naturals, Sequences, SequencesExt

CONSTANTS
  Letter,      (* the characters that stand for themselves in a text       *)
  Target,      (* structs to read: their fields, and which are no Option   *)
  Form,        (* forms a browser may serialize: pairs of name and value   *)
  RawText,     (* any other texts                                          *)
  NoForm,
  None         (* a field that has not been found                          *)

Token == Letter \cup {"=", "&", "+", "%2B", "%3D", "%26", "%20"}
Character == Letter \cup {" ", "+", "=", "&"}

ASSUME FormAssumption ==
  /\ Letter \cap {" ", "=", "&", "+", "%2B", "%3D", "%26", "%20"} = {}
  /\ RawText \subseteq Seq(Token)
  /\ Form \subseteq Seq(Seq(Character) \X Seq(Character))
  /\ None \notin Seq(Character)
  /\ \A t \in Target : t.required \subseteq t.fields
  /\ \A f \in Form : \A i, j \in DOMAIN f : f[i][1] = f[j][1] => i = j
  /\ NoForm \notin Form

VARIABLES
  form,        (* what the text was serialized from                        *)
  input,       (* the text                                                 *)
  target,      (* the struct                                               *)
  str,         (* KeyValuePairs::str, what is still to be read             *)
  key,         (* the key just read                                        *)
  fields,      (* the fields found                                         *)
  result       (* Ok or the variant of Error, and which call is next       *)

vars == <<form, input, target, str, key, fields, result>>

Result ==
  {"nextKey", "nextValue", "ok", "CantParseKey", "CantParseValue",
   "duplicate", "missing"}

Done == result \notin {"nextKey", "nextValue"}

-----------------------------------------------------------------------------
(* The escape the browser writes for a sign, and back.                     *)
Escape ==
  [c \in {" ", "+", "=", "&"} |->
     CASE c = " " -> "+"
       [] c = "+" -> "%2B"
       [] c = "=" -> "%3D"
       [] c = "&" -> "%26"]

Unescape(token) ==
  CASE token = "%2B" -> "+"
    [] token = "%3D" -> "="
    [] token = "%26" -> "&"
    [] token = "%20" -> " "
    [] OTHER -> token

Plus(token) == IF token = "+" THEN " " ELSE token

(* Mutant: the escapes are decoded before the pluses are replaced.         *)
DecodeEscapesFirst(text) == [i \in DOMAIN text |-> Plus(Unescape(text[i]))]

(* replace('+', " "), then the escapes.                                    *)
Decode(text) == [i \in DOMAIN text |-> Unescape(Plus(text[i]))]

(* str::split_once: where the sign first stands, 0 if nowhere.             *)
Sign(text, sign) == SelectInSeq(text, LAMBDA token : token = sign)

Upto(text, i) == SubSeq(text, 1, i - 1)
Past(text, i) == SubSeq(text, i + 1, Len(text))

(* A form as a browser sends it.                                           *)
Encode(text) ==
  [i \in DOMAIN text |->
     IF text[i] \in DOMAIN Escape THEN Escape[text[i]] ELSE text[i]]

Serialize(f) ==
  FlattenSeq([i \in DOMAIN f |->
    (IF i = 1 THEN <<>> ELSE <<"&">>) \o Encode(f[i][1]) \o <<"=">> \o Encode(f[i][2])])

-----------------------------------------------------------------------------
(* str is what is left of the input: at a key, from its start or from      *)
(* behind an "&"; at a value, from behind an "=".                          *)
TypeOK ==
  /\ target \in Target
  /\ result \in Result
  /\ DOMAIN fields = target.fields
  /\ IsSuffix(str, input)
  /\ LET read == Len(input) - Len(str)
     IN  /\ result = "nextKey" /\ str # <<>> => read = 0 \/ input[read] = "&"
         /\ result = "nextValue" => input[read] = "="

Init ==
  /\ target \in Target
  /\ \/ form \in Form /\ input = Serialize(form)
     \/ form = NoForm /\ input \in RawText
  /\ str = input
  /\ key = <<>>
  /\ fields = [f \in target.fields |-> None]
  /\ result = "nextKey"

(* next_key_seed at the end of the text: a struct lacks what it needs or   *)
(* is there.                                                               *)
EndOfText ==
  /\ result = "nextKey"
  /\ str = <<>>
  /\ result' = IF \E f \in target.required : fields[f] = None THEN "missing" ELSE "ok"
  /\ UNCHANGED <<form, input, target, str, key, fields>>

(* next_key_seed without a "=".                                            *)
CantParseKey ==
  /\ result = "nextKey"
  /\ str # <<>>
  /\ Sign(str, "=") = 0
  /\ result' = "CantParseKey"
  /\ UNCHANGED <<form, input, target, str, key, fields>>

(* Mutant: rsplit_once, the last "=" of the text.                          *)
NextKeyLast ==
  LET at == SelectLastInSeq(str, LAMBDA token : token = "=") IN
  /\ result = "nextKey"
  /\ at # 0
  /\ key' = Decode(Upto(str, at))
  /\ str' = Past(str, at)
  /\ result' = IF key' \in target.fields /\ fields[key'] # None
               THEN "duplicate" ELSE "nextValue"
  /\ UNCHANGED <<form, input, target, fields>>

(* next_key_seed up to the first "=", wherever the next "&" is; the        *)
(* visitor refuses a field it has.                                         *)
NextKey ==
  LET at == Sign(str, "=") IN
  /\ result = "nextKey"
  /\ at # 0
  /\ key' = Decode(Upto(str, at))
  /\ str' = Past(str, at)
  /\ result' = IF key' \in target.fields /\ fields[key'] # None
               THEN "duplicate" ELSE "nextValue"
  /\ UNCHANGED <<form, input, target, fields>>

(* next_value_seed at the end of the text.                                 *)
CantParseValue ==
  /\ result = "nextValue"
  /\ str = <<>>
  /\ result' = "CantParseValue"
  /\ UNCHANGED <<form, input, target, str, key, fields>>

(* Mutant: the "&" stays in front of what is left.                         *)
NextValueKeepingSign ==
  LET at == Sign(str, "&")
      value == IF at = 0 THEN str ELSE Upto(str, at)
  IN
  /\ result = "nextValue"
  /\ str # <<>>
  /\ str' = IF at = 0 THEN <<>> ELSE Past(str, at - 1)
  /\ fields' = [f \in target.fields |-> IF f = key THEN Decode(value) ELSE fields[f]]
  /\ result' = "nextKey"
  /\ UNCHANGED <<form, input, target, key>>

(* next_value_seed up to the next "&" or the end; the value of a key that  *)
(* is no field is ignored.                                                 *)
NextValue ==
  LET at == Sign(str, "&")
      value == IF at = 0 THEN str ELSE Upto(str, at)
  IN
  /\ result = "nextValue"
  /\ str # <<>>
  /\ str' = IF at = 0 THEN <<>> ELSE Past(str, at)
  /\ fields' = [f \in target.fields |-> IF f = key THEN Decode(value) ELSE fields[f]]
  /\ result' = "nextKey"
  /\ UNCHANGED <<form, input, target, key>>

Next == EndOfText \/ CantParseKey \/ NextKey \/ CantParseValue \/ NextValue

Spec == Init /\ [][Next]_vars

-----------------------------------------------------------------------------
(* What a user typed into a form is what the struct holds, spaces, pluses  *)
(* and signs included, and fields the struct does not know change nothing. *)
(* The exception is a last field left empty, for which the text ends where *)
(* a value should be.                                                      *)
RoundTrip ==
  Done /\ form # NoForm =>
    IF form # <<>> /\ Last(form)[2] = <<>>
    THEN result = "CantParseValue"
    ELSE /\ result = "ok" <=> target.required \subseteq {form[i][1] : i \in DOMAIN form}
         /\ \A i \in DOMAIN form :
              form[i][1] \in target.fields => fields[form[i][1]] = form[i][2]

(* The pieces the URL standard splits a text into, at every "&".           *)
Piece ==
  {p \in (1..Len(input)) \X (1..Len(input)) :
     /\ p[1] <= p[2]
     /\ p[1] = 1 \/ input[p[1] - 1] = "&"
     /\ p[2] = Len(input) \/ input[p[2] + 1] = "&"
     /\ \A k \in p[1]..p[2] : input[k] # "&"}

PieceText(p) == SubSeq(input, p[1], p[2])
Name(p) == Decode(Upto(PieceText(p), Sign(PieceText(p), "=")))
Value(p) == Decode(Past(PieceText(p), Sign(PieceText(p), "=")))

(* Every piece is a name, an "=" and more, none is empty.                  *)
WellFormed ==
  /\ \A i \in DOMAIN input : input[i] = "&" =>
       i > 1 /\ i < Len(input) /\ input[i - 1] # "&"
  /\ \A p \in Piece : Sign(PieceText(p), "=") # 0
  /\ input # <<>> => Last(input) # "="

(* A text whose pieces all have their "=" is split as the URL standard     *)
(* says: the parser, which looks for the "=" first and for the "&" after   *)
(* it, finds the same names with the same values.                          *)
AgreesWithStandard ==
  Done /\ WellFormed =>
    /\ result = "duplicate" <=>
         \E p, q \in Piece : p # q /\ Name(p) = Name(q) /\ Name(p) \in target.fields
    /\ result \in {"ok", "missing"} =>
         \A f \in target.fields :
           IF \E p \in Piece : Name(p) = f
           THEN \E p \in Piece : Name(p) = f /\ fields[f] = Value(p)
           ELSE fields[f] = None
    /\ result \notin {"CantParseKey", "CantParseValue"}
=============================================================================
