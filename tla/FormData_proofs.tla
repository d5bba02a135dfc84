-------------------------- MODULE FormData_proofs --------------------------
(***************************************************************************)
(* What FormData guarantees for texts and forms of any length.             *)
(***************************************************************************)
EXTENDS FormData, WellFoundedInduction, TLAPS

LEMMA Least ==
  ASSUME NEW S, S \subseteq Nat, S # {}
  PROVE  \E m \in S : \A n \in S : m <= n
<1>1. PICK m \in S : \A n \in S : <<n, m>> \notin OpToRel(<, Nat)
  BY NatLessThanWellFounded, WFMin
<1>2. \A n \in S : n \in Nat
  OBVIOUS
<1>3. \A n \in S : ~(n < m)
  BY <1>1, <1>2 DEF OpToRel
<1> QED BY <1>2, <1>3

-----------------------------------------------------------------------------
(* split_once: the first place of the sign.                                *)
LEMMA SignFacts ==
  ASSUME NEW T, NEW text \in Seq(T), NEW sign
  PROVE  /\ Sign(text, sign) \in 0..Len(text)
         /\ Sign(text, sign) = 0 => \A i \in 1..Len(text) : text[i] # sign
         /\ Sign(text, sign) # 0 =>
              /\ text[Sign(text, sign)] = sign
              /\ \A i \in 1..(Sign(text, sign) - 1) : text[i] # sign
<1> DEFINE I == {i \in 1..Len(text) : text[i] = sign}
           least(m) == m \in I /\ \A i \in I : m <= i
<1>1. Sign(text, sign) = IF I # {} THEN Min(I) ELSE 0
  BY DEF Sign, SelectInSeq
<1>2. Len(text) \in Nat
  OBVIOUS
<1>3. CASE I = {}
  BY <1>1, <1>2, <1>3
<1>4. CASE I # {}
  <2>1. \E m \in I : \A i \in I : m <= i
    <3>1. I \subseteq Nat
      BY <1>2
    <3> HIDE DEF I
    <3> QED BY <1>4, <3>1, Least
  <2>2. least(Min(I))
    BY <2>1 DEF Min
  <2>3. Sign(text, sign) = Min(I)
    BY <1>1, <1>4
  <2> HIDE DEF I
  <2>4. Sign(text, sign) \in I /\ \A i \in I : Sign(text, sign) <= i
    BY <2>2, <2>3
  <2> USE DEF I
  <2>5. Sign(text, sign) \in 1..Len(text) /\ text[Sign(text, sign)] = sign
    BY <2>4
  <2>6. ASSUME NEW i \in 1..(Sign(text, sign) - 1) PROVE text[i] # sign
    <3>1. i \in 1..Len(text) /\ ~(Sign(text, sign) <= i)
      BY <1>2, <2>5
    <3> QED BY <2>4, <3>1
  <2> QED BY <1>2, <2>5, <2>6
<1> QED BY <1>3, <1>4

(* What is before the sign and what is behind it.                          *)
LEMMA UptoFacts ==
  ASSUME NEW T, NEW text \in Seq(T), NEW at \in 1..Len(text)
  PROVE  /\ Upto(text, at) \in Seq(T) /\ Len(Upto(text, at)) = at - 1
         /\ \A i \in 1..(at - 1) : Upto(text, at)[i] = text[i]
BY DEF Upto

LEMMA PastFacts ==
  ASSUME NEW T, NEW text \in Seq(T), NEW at \in 1..Len(text)
  PROVE  /\ Past(text, at) \in Seq(T) /\ Len(Past(text, at)) = Len(text) - at
         /\ \A i \in 1..(Len(text) - at) : Past(text, at)[i] = text[at + i]
BY DEF Past

(* Decoding gives characters, one for each token.                          *)
LEMMA DecodeFacts ==
  ASSUME NEW text \in Seq(Token)
  PROVE  Decode(text) \in Seq(Character) /\ Decode(text) # None
<1>1. \A token \in Token : Plus(token) \in Token \cup {" "}
  BY DEF Plus
<1>2. \A token \in Token \cup {" "} : Unescape(token) \in Character
  BY DEF Unescape, Token, Character
<1>3. \A i \in 1..Len(text) : Unescape(Plus(text[i])) \in Character
  <2>1. \A i \in 1..Len(text) : text[i] \in Token
    OBVIOUS
  <2> QED BY <1>1, <1>2, <2>1
<1>4. Decode(text) = [i \in 1..Len(text) |-> Unescape(Plus(text[i]))]
  BY DEF Decode
<1>5. Len(text) \in Nat
  OBVIOUS
<1>6. Decode(text) \in Seq(Character)
  BY <1>3, <1>4, <1>5
<1> QED BY <1>6, FormAssumption

-----------------------------------------------------------------------------
(* g[i] is the first i sequences of s in one.                              *)
Joins(g, s, T) ==
  /\ g \in [1..Len(s) -> Seq(T)]
  /\ g[1] = s[1]
  /\ \A i \in 2..Len(s) : g[i] = g[i - 1] \o s[i]

LEMMA JoinsExists ==
  ASSUME NEW T, NEW s \in Seq(Seq(T)), s # <<>>
  PROVE  \E g : Joins(g, s, T)
<1> DEFINE n == Len(s)
           Part(k, g) == /\ g \in [1..k -> Seq(T)]
                         /\ g[1] = s[1]
                         /\ \A i \in 2..k : g[i] = g[i - 1] \o s[i]
           Has(k) == \E g : Part(k, g)
           Without == {k \in 1..n : ~Has(k)}
<1>1. n \in Nat /\ n >= 1 /\ \A i \in 1..n : s[i] \in Seq(T)
  OBVIOUS
<1>2. ASSUME NEW k \in Without, \A j \in Without : k <= j PROVE FALSE
  <2>1. k \in 1..n /\ k \in Nat /\ ~Has(k)
    <3> HIDE DEF Has
    <3> QED BY <1>1
  <2>2. CASE k = 1
    <3> DEFINE g == [i \in 1..1 |-> s[1]]
    <3>1. g \in [1..1 -> Seq(T)] /\ g[1] = s[1] /\ 2..1 = {}
      BY <1>1
    <3> QED BY <2>1, <2>2, <3>1
  <2>3. CASE k # 1
    <3>1. Has(k - 1)
      <4> HIDE DEF Has
      <4>1. k - 1 \in 1..n /\ ~(k <= k - 1)
        BY <1>1, <2>1, <2>3
      <4> QED BY <1>2, <4>1
    <3>2. PICK h : Part(k - 1, h)
      BY <3>1
    <3> DEFINE g == [i \in 1..k |-> IF i = k THEN h[k - 1] \o s[k] ELSE h[i]]
    <3>3. \A i \in 1..(k - 1) : h[i] \in Seq(T)
      BY <3>2
    <3>4. h[k - 1] \o s[k] \in Seq(T)
      <4>1. h[k - 1] \in Seq(T) /\ s[k] \in Seq(T)
        BY <1>1, <2>1, <2>3, <3>3
      <4> QED BY <4>1
    <3>5. \A i \in 1..k : i = k \/ i \in 1..(k - 1)
      BY <2>1
    <3>6. g \in [1..k -> Seq(T)]
      BY <3>3, <3>4, <3>5
    <3>7. g[1] = s[1]
      BY <2>1, <2>3, <3>2
    <3>8. ASSUME NEW i \in 2..k PROVE g[i] = g[i - 1] \o s[i]
      <4>1. i - 1 \in 1..k /\ i - 1 # k /\ i \in 1..k
        BY <2>1
      <4>2. g[i - 1] = h[i - 1]
        BY <4>1
      <4>3. CASE i = k
        BY <4>1, <4>2, <4>3
      <4>4. CASE i # k
        <5>1. i \in 2..(k - 1)
          BY <2>1, <4>4
        <5> QED BY <3>2, <4>1, <4>2, <4>4, <5>1
      <4> QED BY <4>3, <4>4
    <3> HIDE DEF g
    <3> QED BY <2>1, <3>6, <3>7, <3>8
  <2> QED BY <2>2, <2>3
<1>3. Has(n)
  <2> HIDE DEF Has
  <2> SUFFICES ASSUME ~Has(n) PROVE FALSE
    OBVIOUS
  <2>1. n \in Without /\ Without \subseteq Nat
    BY <1>1
  <2> QED BY <1>2, <2>1, Least
<1> QED BY <1>3 DEF Joins

LEMMA FlattenFacts ==
  ASSUME NEW T, NEW s \in Seq(Seq(T)), s # <<>>, NEW g, Joins(g, s, T)
  PROVE  FlattenSeq(s) = g[Len(s)]
<1> DEFINE n == Len(s)
           Rec(h) == h = [i \in 1..n |-> IF i = 1 THEN s[i] ELSE h[i - 1] \o s[i]]
<1>1. n \in Nat /\ n >= 1
  OBVIOUS
<1>2. Rec(g)
  <2>1. g = [i \in 1..n |-> g[i]]
    BY DEF Joins
  <2>2. \A i \in 1..n : g[i] = IF i = 1 THEN s[i] ELSE g[i - 1] \o s[i]
    <3>1. \A i \in 1..n : i = 1 \/ i \in 2..n
      BY <1>1
    <3> QED BY <3>1 DEF Joins
  <2> QED BY <2>1, <2>2
<1>3. ASSUME NEW h, Rec(h) PROVE h = g
  <2> DEFINE D == {i \in 1..n : h[i] # g[i]}
  <2>1. D = {}
    <3> SUFFICES ASSUME NEW i \in D, \A j \in D : i <= j PROVE FALSE
      <4>1. D \subseteq Nat
        BY <1>1
      <4> HIDE DEF D
      <4> QED BY <4>1, Least
    <3>1. i \in 1..n /\ h[i] # g[i]
      OBVIOUS
    <3>2. /\ h[i] = IF i = 1 THEN s[i] ELSE h[i - 1] \o s[i]
          /\ g[i] = IF i = 1 THEN s[i] ELSE g[i - 1] \o s[i]
      BY <1>2, <1>3, <3>1
    <3>3. i # 1 => i - 1 \in 1..n /\ i - 1 \notin D
      BY <1>1, <3>1
    <3> QED BY <3>1, <3>2, <3>3
  <2>2. \A i \in 1..n : h[i] = g[i]
    BY <2>1
  <2>3. h = [i \in 1..n |-> h[i]] /\ g = [i \in 1..n |-> g[i]]
    BY <1>2, <1>3
  <2> HIDE DEF Rec
  <2> QED BY <2>2, <2>3
<1>4. FlattenSeq(s) = (CHOOSE h : Rec(h))[n]
  BY <1>1 DEF FlattenSeq
<1> HIDE DEF Rec
<1>5. Rec(CHOOSE h : Rec(h))
  BY <1>2
<1> QED BY <1>3, <1>4, <1>5

LEMMA EncodeFacts ==
  ASSUME NEW text \in Seq(Character)
  PROVE  /\ Encode(text) \in Seq(Token) /\ Len(Encode(text)) = Len(text)
         /\ \A i \in 1..Len(text) : Encode(text)[i] \notin {"=", "&"}
         /\ Decode(Encode(text)) = text
<1> DEFINE Token1(c) == IF c \in DOMAIN Escape THEN Escape[c] ELSE c
<1>1. DOMAIN Escape = {" ", "+", "=", "&"}
  BY DEF Escape
<1>2. /\ Escape[" "] = "+" /\ Escape["+"] = "%2B"
      /\ Escape["="] = "%3D" /\ Escape["&"] = "%26"
  BY DEF Escape
<1>3. \A c \in Character : Token1(c) \in Token
  BY <1>1, <1>2 DEF Character, Token
<1>4. \A c \in Character : Token1(c) \notin {"=", "&"}
  BY <1>1, <1>2, FormAssumption DEF Character
<1>5. ASSUME NEW c \in Character PROVE Unescape(Plus(Token1(c))) = c
  <2>1. CASE c \in Letter
    <3>1. c \notin {" ", "=", "&", "+", "%2B", "%3D", "%26", "%20"}
      BY <2>1, FormAssumption
    <3> QED BY <1>1, <3>1 DEF Plus, Unescape
  <2>2. CASE c \in {" ", "+", "=", "&"}
    BY <1>1, <1>2, <2>2 DEF Plus, Unescape
  <2> QED BY <2>1, <2>2 DEF Character
<1>6. Encode(text) = [i \in 1..Len(text) |-> Token1(text[i])]
  BY DEF Encode
<1>7. \A i \in 1..Len(text) : text[i] \in Character
  OBVIOUS
<1> HIDE DEF Token1
<1>8. Encode(text) \in Seq(Token) /\ Len(Encode(text)) = Len(text)
  <2>1. Len(text) \in Nat /\ \A i \in 1..Len(text) : Token1(text[i]) \in Token
    BY <1>3, <1>7
  <2> QED BY <1>6, <2>1
<1>9. \A i \in 1..Len(text) : Encode(text)[i] \notin {"=", "&"}
  BY <1>4, <1>6, <1>7
<1>10. Decode(Encode(text)) = text
  <2>1. Decode(Encode(text)) = [i \in 1..Len(text) |-> Unescape(Plus(Token1(text[i])))]
    BY <1>6 DEF Decode
  <2>2. \A i \in 1..Len(text) : Unescape(Plus(Token1(text[i]))) = text[i]
    BY <1>5, <1>7
  <2>3. Decode(Encode(text)) = [i \in 1..Len(text) |-> text[i]]
    BY <2>1, <2>2
  <2> QED BY <2>3
<1> QED BY <1>8, <1>9, <1>10

(* What a form adds to the text for its i-th pair.                         *)
Field(f, i) ==
  (IF i = 1 THEN <<>> ELSE <<"&">>) \o Encode(f[i][1]) \o <<"=">> \o Encode(f[i][2])

FieldsOf(f) == [i \in 1..Len(f) |-> Field(f, i)]

LEMMA FieldType ==
  ASSUME NEW f \in Form, NEW i \in 1..Len(f)
  PROVE  /\ f[i][1] \in Seq(Character) /\ f[i][2] \in Seq(Character)
         /\ Field(f, i) \in Seq(Token)
<1>1. f \in Seq(Seq(Character) \X Seq(Character))
  BY FormAssumption
<1>2. f[i] \in Seq(Character) \X Seq(Character)
  BY <1>1
<1>3. f[i][1] \in Seq(Character) /\ f[i][2] \in Seq(Character)
  BY <1>2
<1>4. Encode(f[i][1]) \in Seq(Token) /\ Encode(f[i][2]) \in Seq(Token)
  BY <1>3, EncodeFacts
<1>5. "=" \in Token /\ "&" \in Token
  BY DEF Token
<1>6. <<"=">> \in Seq(Token) /\ <<"&">> \in Seq(Token) /\ <<>> \in Seq(Token)
  BY <1>5
<1>7. Field(f, i) \in Seq(Token)
  BY <1>4, <1>6 DEF Field
<1> QED BY <1>3, <1>7

LEMMA FormLen == ASSUME NEW f \in Form PROVE Len(f) \in Nat /\ DOMAIN f = 1..Len(f)
<1>1. f \in Seq(Seq(Character) \X Seq(Character))
  BY FormAssumption
<1> QED BY <1>1

LEMMA SerializeJoins ==
  ASSUME NEW f \in Form, f # <<>>
  PROVE  \E g : Joins(g, FieldsOf(f), Token) /\ Serialize(f) = g[Len(f)]
<1>1. Len(f) \in Nat /\ DOMAIN f = 1..Len(f) /\ f # <<>>
  BY FormLen
<1>2. FieldsOf(f) \in Seq(Seq(Token)) /\ Len(FieldsOf(f)) = Len(f)
  BY <1>1, FieldType DEF FieldsOf
<1>3. Len(f) # 0
  <2>1. f \in Seq(Seq(Character) \X Seq(Character))
    BY FormAssumption
  <2> QED BY <1>1, <2>1
<1>4. FieldsOf(f) # <<>>
  BY <1>2, <1>3
<1>5. Serialize(f) = FlattenSeq(FieldsOf(f))
  BY <1>1 DEF Serialize, FieldsOf, Field
<1>6. PICK g : Joins(g, FieldsOf(f), Token)
  BY <1>2, <1>4, JoinsExists
<1> QED BY <1>2, <1>4, <1>5, <1>6, FlattenFacts

LEMMA SerializeEmpty == Serialize(<<>>) = <<>>
BY DEF Serialize, FlattenSeq

(* A form is sent as a text.                                               *)
LEMMA SerializeType == ASSUME NEW f \in Form PROVE Serialize(f) \in Seq(Token)
<1>1. CASE f = <<>>
  <2>1. <<>> \in Seq(Token)
    OBVIOUS
  <2>2. Serialize(f) = <<>>
    BY <1>1, SerializeEmpty
  <2> QED BY <2>1, <2>2
<1>2. CASE f # <<>>
  <2>1. PICK g : Joins(g, FieldsOf(f), Token) /\ Serialize(f) = g[Len(f)]
    BY <1>2, SerializeJoins
  <2>2. Len(f) \in 1..Len(f) /\ Len(FieldsOf(f)) = Len(f)
    <3>1. f \in Seq(Seq(Character) \X Seq(Character))
      BY FormAssumption
    <3> QED BY <1>2, <3>1 DEF FieldsOf
  <2> QED BY <2>1, <2>2 DEF Joins
<1> QED BY <1>1, <1>2

-----------------------------------------------------------------------------
Read == Len(input) - Len(str)

(* What is left is the end of the input.                                   *)
Cut ==
  /\ input \in Seq(Token) /\ str \in Seq(Token)
  /\ Len(str) <= Len(input)
  /\ \A i \in 1..Len(str) : str[i] = input[Read + i]

(* Where the parser stands.                                                *)
Stands ==
  /\ result = "nextKey" /\ str # <<>> => Read = 0 \/ input[Read] = "&"
  /\ result = "nextValue" => Read \in 1..Len(input) /\ input[Read] = "="

Struct ==
  /\ target \in Target
  /\ result \in Result
  /\ DOMAIN fields = target.fields

LEMMA SuffixFacts ==
  ASSUME NEW T, NEW s \in Seq(T), NEW t \in Seq(T), Len(s) <= Len(t),
         \A i \in 1..Len(s) : s[i] = t[Len(t) - Len(s) + i]
  PROVE  IsSuffix(s, t)
<1> DEFINE n == Len(s)
<1>1. n \in Nat /\ Len(t) \in Nat
  OBVIOUS
<1>2. /\ Reverse(s) = [i \in 1..n |-> s[(n - i) + 1]]
      /\ Reverse(t) = [i \in 1..Len(t) |-> t[(Len(t) - i) + 1]]
  BY DEF Reverse
<1>3. ASSUME NEW i \in 1..n PROVE Reverse(s)[i] = Reverse(t)[i]
  <2>1. (n - i) + 1 \in 1..n /\ Len(t) - n + ((n - i) + 1) = (Len(t) - i) + 1 /\ i \in 1..Len(t)
    BY <1>1
  <2>2. s[(n - i) + 1] = t[Len(t) - n + ((n - i) + 1)]
    BY <2>1
  <2> QED BY <1>2, <2>1, <2>2
<1>4. /\ Reverse(s) \in Seq(T) /\ Len(Reverse(s)) = n
      /\ Reverse(t) \in Seq(T) /\ Len(Reverse(t)) = Len(t)
  <2>1. \A i \in 1..n : s[(n - i) + 1] \in T
    <3>1. \A i \in 1..n : (n - i) + 1 \in 1..n
      BY <1>1
    <3> QED BY <3>1
  <2>2. \A i \in 1..Len(t) : t[(Len(t) - i) + 1] \in T
    <3>1. \A i \in 1..Len(t) : (Len(t) - i) + 1 \in 1..Len(t)
      BY <1>1
    <3> QED BY <3>1
  <2> QED BY <1>1, <1>2, <2>1, <2>2
<1> HIDE DEF n
<1>5. SubSeq(Reverse(s), 1, n) = [i \in 1..n |-> Reverse(s)[i]]
  BY <1>1, <1>4
<1>6. SubSeq(Reverse(t), 1, n) = [i \in 1..n |-> Reverse(t)[i]]
  BY <1>1, <1>4 DEF n
<1>7. SubSeq(Reverse(s), 1, n) = SubSeq(Reverse(t), 1, n)
  BY <1>3, <1>5, <1>6
<1> QED BY <1>1, <1>4, <1>7 DEF IsSuffix, IsPrefix, n

LEMMA TypeFromParts == Cut /\ Stands /\ Struct => TypeOK
<1> SUFFICES ASSUME Cut, Stands, Struct PROVE TypeOK
  OBVIOUS
<1>1. IsSuffix(str, input)
  BY SuffixFacts DEF Cut, Read
<1> QED BY <1>1 DEF Stands, Struct, TypeOK, Read

(* The parser goes on behind the at-th token of what is left.              *)
LEMMA CutStep ==
  ASSUME Cut, NEW at \in 1..Len(str), str' = Past(str, at), input' = input
  PROVE  Cut' /\ Read' = Read + at /\ input[Read'] = str[at] /\ Read' \in 1..Len(input)
<1>1. Len(str) \in Nat /\ Len(input) \in Nat
  BY DEF Cut
<1>2. /\ str' \in Seq(Token) /\ Len(str') = Len(str) - at
      /\ \A i \in 1..(Len(str) - at) : str'[i] = str[at + i]
  <2>1. str \in Seq(Token)
    BY DEF Cut
  <2> QED BY <2>1, PastFacts
<1>3. Read' = Read + at
  BY <1>1, <1>2 DEF Read
<1>4. input[Read + at] = str[at]
  BY DEF Cut
<1>5. ASSUME NEW i \in 1..Len(str') PROVE str'[i] = input[Read' + i]
  <2>1. at + i \in 1..Len(str) /\ Read + (at + i) = Read' + i /\ i \in 1..(Len(str) - at)
    BY <1>1, <1>2, <1>3 DEF Read
  <2>2. str[at + i] = input[Read + (at + i)]
    BY <2>1 DEF Cut
  <2> QED BY <1>2, <2>1, <2>2
<1>6. Len(str') <= Len(input') /\ input' \in Seq(Token)
  BY <1>1, <1>2 DEF Cut
<1>7. Read' \in 1..Len(input)
  BY <1>1, <1>3 DEF Cut, Read
<1> QED BY <1>2, <1>3, <1>4, <1>5, <1>6, <1>7 DEF Cut

(* The parser has read everything.                                         *)
LEMMA CutEnd ==
  ASSUME Cut, str' = <<>>, input' = input
  PROVE  Cut' /\ Read' = Len(input)
BY DEF Cut, Read

LEMMA ParserInit == Init => Cut /\ Stands /\ Struct
<1> SUFFICES ASSUME Init PROVE Cut /\ Stands /\ Struct
  OBVIOUS
<1>1. input \in Seq(Token) /\ str = input
  BY SerializeType, FormAssumption DEF Init
<1>2. Read = 0
  BY <1>1 DEF Read
<1>3. Cut
  BY <1>1, <1>2 DEF Cut
<1>4. Stands
  BY <1>2 DEF Init, Stands
<1> QED BY <1>3, <1>4 DEF Init, Struct, Result

(* next_key_seed: the parser stands behind the first "=".                  *)
LEMMA KeyStep ==
  ASSUME Cut, NextKey
  PROVE  LET at == Sign(str, "=") IN
         /\ at \in 1..Len(str) /\ str[at] = "=" /\ \A i \in 1..(at - 1) : str[i] # "="
         /\ key' = Decode(Upto(str, at))
         /\ Cut' /\ Read' = Read + at /\ input[Read'] = "=" /\ Read' \in 1..Len(input)
<1> DEFINE at == Sign(str, "=")
<1>1. str \in Seq(Token) /\ Len(str) \in Nat
  BY DEF Cut
<1>2. at \in 1..Len(str) /\ str[at] = "=" /\ \A i \in 1..(at - 1) : str[i] # "="
  BY <1>1, SignFacts DEF NextKey
<1>3. str' = Past(str, at) /\ input' = input /\ key' = Decode(Upto(str, at))
  BY DEF NextKey
<1> HIDE DEF at
<1> QED BY <1>2, <1>3, CutStep DEF at

(* next_value_seed: it stands behind the first "&", or at the end.         *)
LEMMA ValueStep ==
  ASSUME Cut, NextValue
  PROVE  LET at == Sign(str, "&") IN
         /\ Cut' /\ str # <<>>
         /\ at = 0 =>
              /\ Read' = Len(input) /\ str' = <<>>
              /\ \A i \in 1..Len(str) : str[i] # "&"
         /\ at # 0 =>
              /\ at \in 1..Len(str) /\ \A i \in 1..(at - 1) : str[i] # "&"
              /\ Read' = Read + at /\ input[Read'] = "&" /\ Read' \in 1..Len(input)
<1> DEFINE at == Sign(str, "&")
<1>1. str \in Seq(Token) /\ Len(str) \in Nat
  BY DEF Cut
<1>2. input' = input /\ str # <<>> /\ str' = IF at = 0 THEN <<>> ELSE Past(str, at)
  BY DEF NextValue
<1>3. /\ at = 0 => \A i \in 1..Len(str) : str[i] # "&"
      /\ at # 0 => /\ at \in 1..Len(str) /\ str[at] = "&"
                   /\ \A i \in 1..(at - 1) : str[i] # "&"
  BY <1>1, SignFacts
<1> HIDE DEF at
<1>4. CASE at = 0
  BY <1>2, <1>3, <1>4, CutEnd DEF at
<1>5. CASE at # 0
  BY <1>2, <1>3, <1>5, CutStep DEF at
<1> QED BY <1>4, <1>5

LEMMA ParserNext ==
  ASSUME Cut, Stands, Struct, [Next]_vars
  PROVE  Cut' /\ Stands' /\ Struct'
<1> DEFINE Goal == Cut' /\ Stands' /\ Struct'
<1>1. ASSUME UNCHANGED <<input, str, target, fields>>, result' \in Result \ {"nextKey", "nextValue"}
      PROVE  Goal
  BY <1>1 DEF Cut, Stands, Struct, Read
<1>2. CASE EndOfText \/ CantParseKey \/ CantParseValue
  BY <1>1, <1>2 DEF EndOfText, CantParseKey, CantParseValue, Result
<1>3. CASE NextKey
  <2>1. Struct' /\ result' # "nextKey"
    BY <1>3 DEF NextKey, Struct, Result
  <2>2. Cut' /\ input[Read'] = "=" /\ Read' \in 1..Len(input) /\ input' = input
    BY <1>3, KeyStep DEF NextKey
  <2> QED BY <2>1, <2>2 DEF Stands
<1>4. CASE NextValue
  <2>1. Struct' /\ result' = "nextKey" /\ input' = input
    BY <1>4 DEF NextValue, Struct, Result
  <2>2. Cut' /\ (str' = <<>> \/ input[Read'] = "&")
    BY <1>4, ValueStep
  <2> QED BY <2>1, <2>2 DEF Stands
<1>5. CASE UNCHANGED vars
  BY <1>5 DEF vars, Cut, Stands, Struct, Read
<1> QED BY <1>2, <1>3, <1>4, <1>5 DEF Next

(* Of any text, the parser has read a part that ends at the text's end, or *)
(* with a sign that separates what it has read from what it reads next.    *)
THEOREM TypeCorrect == Spec => []TypeOK
<1>1. Spec => [](Cut /\ Stands /\ Struct)
  BY ParserInit, ParserNext, PTL DEF Spec
<1> QED BY <1>1, TypeFromParts, PTL

-----------------------------------------------------------------------------
(* Two sequences with the same elements.                                   *)
LEMMA SameSeq ==
  ASSUME NEW T, NEW s \in Seq(T), NEW t \in Seq(T), Len(s) = Len(t),
         \A i \in 1..Len(s) : s[i] = t[i]
  PROVE  s = t
OBVIOUS

(* Where a piece has its first "=".                                        *)
EqualsAt(p) == p[1] - 1 + Sign(PieceText(p), "=")

(* No piece is empty or without "=".                                       *)
Separated ==
  /\ \A i \in DOMAIN input : input[i] = "&" =>
       i > 1 /\ i < Len(input) /\ input[i - 1] # "&"
  /\ \A p \in Piece : Sign(PieceText(p), "=") # 0

LEMMA PieceFacts ==
  ASSUME input \in Seq(Token), NEW p \in Piece
  PROVE  /\ p[1] \in Nat /\ p[2] \in Nat /\ 1 <= p[1] /\ p[1] <= p[2] /\ p[2] <= Len(input)
         /\ p = <<p[1], p[2]>>
         /\ p[1] = 1 \/ input[p[1] - 1] = "&"
         /\ p[2] = Len(input) \/ input[p[2] + 1] = "&"
         /\ \A k \in p[1]..p[2] : input[k] # "&"
         /\ PieceText(p) \in Seq(Token) /\ Len(PieceText(p)) = p[2] - p[1] + 1
         /\ \A i \in 1..(p[2] - p[1] + 1) : PieceText(p)[i] = input[p[1] - 1 + i]
<1>1. Len(input) \in Nat /\ \A i \in 1..Len(input) : input[i] \in Token
  OBVIOUS
<1>2. /\ p \in (1..Len(input)) \X (1..Len(input)) /\ p[1] <= p[2]
      /\ p[1] = 1 \/ input[p[1] - 1] = "&"
      /\ p[2] = Len(input) \/ input[p[2] + 1] = "&"
      /\ \A k \in p[1]..p[2] : input[k] # "&"
  BY DEF Piece
<1>3. p[1] \in 1..Len(input) /\ p[2] \in 1..Len(input) /\ p = <<p[1], p[2]>>
  BY <1>2
<1>4. PieceText(p) \in Seq(Token) /\ Len(PieceText(p)) = p[2] - p[1] + 1
  BY <1>1, <1>2, <1>3 DEF PieceText
<1>5. \A i \in 1..(p[2] - p[1] + 1) : PieceText(p)[i] = input[p[1] - 1 + i]
  BY <1>1, <1>2, <1>3 DEF PieceText
<1> QED BY <1>1, <1>2, <1>3, <1>4, <1>5

(* Two pieces that overlap are one.                                        *)
LEMMA PiecesApart ==
  ASSUME input \in Seq(Token), NEW p \in Piece, NEW q \in Piece,
         p[1] <= q[2], q[1] <= p[2]
  PROVE  p = q
<1>1. ASSUME NEW a \in Piece, NEW b \in Piece, a[1] <= b[2], b[1] <= a[2] PROVE ~(a[1] < b[1])
  <2> SUFFICES ASSUME a[1] < b[1] PROVE FALSE
    OBVIOUS
  <2>1. /\ a[1] \in Nat /\ a[2] \in Nat /\ b[1] \in Nat /\ 1 <= a[1]
        /\ b[1] = 1 \/ input[b[1] - 1] = "&"
        /\ \A k \in a[1]..a[2] : input[k] # "&"
    BY PieceFacts
  <2>2. b[1] - 1 \in a[1]..a[2] /\ b[1] # 1
    BY <1>1, <2>1
  <2> QED BY <2>1, <2>2
<1>2. ASSUME NEW a \in Piece, NEW b \in Piece, a[1] <= b[2], b[1] <= a[2] PROVE ~(a[2] < b[2])
  <2> SUFFICES ASSUME a[2] < b[2] PROVE FALSE
    OBVIOUS
  <2>1. /\ a[2] \in Nat /\ b[1] \in Nat /\ b[2] \in Nat /\ b[2] <= Len(input)
        /\ a[2] = Len(input) \/ input[a[2] + 1] = "&"
        /\ \A k \in b[1]..b[2] : input[k] # "&"
    BY PieceFacts
  <2>2. Len(input) \in Nat
    OBVIOUS
  <2>3. a[2] + 1 \in b[1]..b[2] /\ a[2] # Len(input)
    BY <1>2, <2>1, <2>2
  <2> QED BY <2>1, <2>3
<1>3. p[1] = q[1] /\ p[2] = q[2]
  <2>1. p[1] \in Nat /\ p[2] \in Nat /\ q[1] \in Nat /\ q[2] \in Nat
    BY PieceFacts
  <2>2. ~(p[1] < q[1]) /\ ~(q[1] < p[1]) /\ ~(p[2] < q[2]) /\ ~(q[2] < p[2])
    BY <1>1, <1>2
  <2> QED BY <2>1, <2>2
<1>4. p = <<p[1], p[2]>> /\ q = <<q[1], q[2]>>
  BY PieceFacts
<1> QED BY <1>3, <1>4

LEMMA EqualsFacts ==
  ASSUME input \in Seq(Token), Separated, NEW p \in Piece
  PROVE  /\ Sign(PieceText(p), "=") \in 1..(p[2] - p[1] + 1)
         /\ EqualsAt(p) \in p[1]..p[2] /\ EqualsAt(p) \in Nat
         /\ input[EqualsAt(p)] = "="
         /\ \A k \in p[1]..(EqualsAt(p) - 1) : input[k] # "="
<1> DEFINE text == PieceText(p)
           at == Sign(text, "=")
<1>1. text \in Seq(Token) /\ Len(text) = p[2] - p[1] + 1
  BY PieceFacts
<1>2. at # 0
  BY DEF Separated
<1>3. at \in 1..Len(text) /\ text[at] = "=" /\ \A i \in 1..(at - 1) : text[i] # "="
  BY <1>1, <1>2, SignFacts
<1>4. EqualsAt(p) = p[1] - 1 + at
  BY DEF EqualsAt
<1>5. \A i \in 1..(p[2] - p[1] + 1) : text[i] = input[p[1] - 1 + i]
  BY PieceFacts
<1>6. p[1] \in Nat /\ p[2] \in Nat /\ 1 <= p[1] /\ p[1] <= p[2]
  BY PieceFacts
<1> HIDE DEF text, at
<1>7. at \in 1..(p[2] - p[1] + 1) /\ EqualsAt(p) \in p[1]..p[2] /\ EqualsAt(p) \in Nat
  BY <1>1, <1>3, <1>4, <1>6
<1>8. input[EqualsAt(p)] = "="
  BY <1>3, <1>4, <1>5, <1>7
<1>9. ASSUME NEW k \in p[1]..(EqualsAt(p) - 1) PROVE input[k] # "="
  <2>1. k - p[1] + 1 \in 1..(at - 1)
    <3>1. k \in p[1]..(p[1] - 1 + at - 1) /\ at \in Nat
      BY <1>4, <1>6, <1>7
    <3> QED BY <1>6, <3>1
  <2>2. k - p[1] + 1 \in 1..(p[2] - p[1] + 1)
    BY <1>6, <1>7, <2>1
  <2>3. p[1] - 1 + (k - p[1] + 1) = k
    BY <1>6
  <2>4. text[k - p[1] + 1] = input[k]
    BY <1>5, <2>2, <2>3
  <2> QED BY <1>3, <2>1, <2>4
<1> QED BY <1>7, <1>8, <1>9 DEF text, at

(* A piece begins wherever the parser asks for a key.                      *)
LEMMA PieceHere ==
  ASSUME Cut, Separated, str # <<>>, Read = 0 \/ input[Read] = "&"
  PROVE  \E p \in Piece : p[1] = Read + 1
<1> DEFINE at == Sign(str, "&")
           end == IF at = 0 THEN Len(input) ELSE Read + at - 1
           p == <<Read + 1, end>>
<1>1. input \in Seq(Token) /\ str \in Seq(Token) /\ Len(str) \in Nat /\ Len(input) \in Nat
  BY DEF Cut
<1>2. Len(str) >= 1 /\ Read \in Nat /\ Read + Len(str) = Len(input)
  BY <1>1 DEF Cut, Read
<1>3. \A i \in 1..Len(str) : str[i] = input[Read + i]
  BY DEF Cut
<1>4. str[1] # "&"
  <2>1. Read + 1 \in DOMAIN input /\ str[1] = input[Read + 1] /\ (Read + 1) - 1 = Read
    BY <1>1, <1>2, <1>3
  <2>2. input[Read + 1] = "&" => Read + 1 > 1 /\ input[Read] # "&"
    BY <2>1 DEF Separated
  <2> QED BY <1>2, <2>1, <2>2
<1>5. /\ at \in 0..Len(str)
      /\ at = 0 => \A i \in 1..Len(str) : str[i] # "&"
      /\ at # 0 => str[at] = "&" /\ \A i \in 1..(at - 1) : str[i] # "&"
  BY <1>1, SignFacts
<1> HIDE DEF at
<1>6. at # 1
  BY <1>4, <1>5
<1>7. end \in Nat /\ Read + 1 <= end /\ end <= Len(input)
  BY <1>1, <1>2, <1>5, <1>6
<1>8. end = Len(input) \/ input[end + 1] = "&"
  <2>1. CASE at = 0
    BY <2>1
  <2>2. CASE at # 0
    <3>1. end + 1 = Read + at
      BY <1>2, <1>5, <2>2
    <3> QED BY <1>3, <1>5, <2>2, <3>1
  <2> QED BY <2>1, <2>2
<1>9. ASSUME NEW k \in (Read + 1)..end PROVE input[k] # "&"
  <2>1. k - Read \in 1..Len(str) /\ Read + (k - Read) = k
    BY <1>1, <1>2, <1>7
  <2>2. at # 0 => k - Read \in 1..(at - 1)
    BY <1>2, <1>5
  <2>3. str[k - Read] # "&"
    BY <1>5, <2>1, <2>2
  <2> QED BY <1>3, <2>1, <2>3
<1> HIDE DEF end
<1>10. Read + 1 = 1 \/ input[(Read + 1) - 1] = "&"
  BY <1>2
<1>11. p \in (1..Len(input)) \X (1..Len(input)) /\ p[1] = Read + 1 /\ p[2] = end
  BY <1>1, <1>2, <1>7
<1> HIDE DEF p
<1>12. p \in Piece
  BY <1>7, <1>8, <1>9, <1>10, <1>11 DEF Piece
<1> QED BY <1>11, <1>12

(* The key that is read is the piece's name.                               *)
LEMMA KeyText ==
  ASSUME Cut, Separated, NextKey, NEW p \in Piece, p[1] = Read + 1
  PROVE  key' = Name(p) /\ Read' = EqualsAt(p) /\ input[Read'] = "="
<1> DEFINE at == Sign(str, "=")
           first == Sign(PieceText(p), "=")
           n == p[2] - p[1] + 1
<1>1. /\ input \in Seq(Token) /\ str \in Seq(Token)
      /\ Len(str) \in Nat /\ Len(input) \in Nat /\ Read + Len(str) = Len(input)
  BY DEF Cut, Read
<1>2. /\ at \in 1..Len(str) /\ str[at] = "=" /\ \A i \in 1..(at - 1) : str[i] # "="
      /\ key' = Decode(Upto(str, at)) /\ Read' = Read + at /\ input[Read'] = "="
  BY KeyStep
<1>3. /\ p[1] \in Nat /\ p[2] \in Nat /\ p[1] <= p[2] /\ p[2] <= Len(input)
      /\ PieceText(p) \in Seq(Token) /\ Len(PieceText(p)) = n
      /\ \A i \in 1..n : PieceText(p)[i] = input[p[1] - 1 + i]
  BY <1>1, PieceFacts
<1>4. first # 0
  BY DEF Separated
<1>5. first \in 1..n /\ PieceText(p)[first] = "=" /\ \A i \in 1..(first - 1) : PieceText(p)[i] # "="
  BY <1>3, <1>4, SignFacts
<1>6. /\ Len(str) \in Nat /\ Read \in Nat /\ Read + Len(str) = Len(input)
      /\ p[1] = Read + 1 /\ p[2] \in Nat /\ p[1] <= p[2] /\ p[2] <= Len(input)
  BY <1>1, <1>3 DEF Cut, Read
<1>12. n \in Nat /\ n <= Len(str)
  BY <1>6
<1>7. \A i \in 1..n : PieceText(p)[i] = str[i]
  <2>1. \A i \in 1..n : i \in 1..Len(str) /\ p[1] - 1 + i = Read + i
    BY <1>6
  <2>2. \A i \in 1..Len(str) : str[i] = input[Read + i]
    BY DEF Cut
  <2> QED BY <1>3, <2>1, <2>2
<1> HIDE DEF at, first, n
<1>8. at = first
  <2>1. ~(first < at)
    <3> SUFFICES ASSUME first < at PROVE FALSE
      OBVIOUS
    <3>1. first \in 1..(at - 1)
      BY <1>2, <1>5, <1>12
    <3> QED BY <1>2, <1>5, <1>7, <3>1
  <2>2. ~(at < first)
    <3> SUFFICES ASSUME at < first PROVE FALSE
      OBVIOUS
    <3>1. at \in 1..(first - 1) /\ at \in 1..n
      BY <1>2, <1>5, <1>12
    <3> QED BY <1>2, <1>5, <1>7, <3>1
  <2> QED BY <1>2, <1>5, <1>6, <1>12, <2>1, <2>2
<1>9. Upto(str, at) = Upto(PieceText(p), first)
  <2>1. /\ Upto(str, at) \in Seq(Token) /\ Len(Upto(str, at)) = at - 1
        /\ \A i \in 1..(at - 1) : Upto(str, at)[i] = str[i]
    BY <1>1, <1>2, UptoFacts
  <2>2. /\ Upto(PieceText(p), first) \in Seq(Token) /\ Len(Upto(PieceText(p), first)) = first - 1
        /\ \A i \in 1..(first - 1) : Upto(PieceText(p), first)[i] = PieceText(p)[i]
    BY <1>3, <1>5, UptoFacts
  <2>3. \A i \in 1..(at - 1) : i \in 1..n
    BY <1>5, <1>8, <1>12
  <2> QED BY <1>7, <1>8, <2>1, <2>2, <2>3, SameSeq
<1>10. key' = Name(p)
  BY <1>2, <1>9 DEF Name, at, first
<1>11. Read' = EqualsAt(p)
  <2>1. Read' = Read + at /\ EqualsAt(p) = p[1] - 1 + first
    BY <1>2 DEF EqualsAt, first
  <2>2. at \in Nat
    BY <1>2, <1>6
  <2> QED BY <1>6, <1>8, <2>1, <2>2
<1> QED BY <1>2, <1>10, <1>11

(* The value that is read is the piece's, and the parser stands at the     *)
(* piece's end.                                                            *)
LEMMA ValueText ==
  ASSUME Cut, Separated, NextValue, NEW p \in Piece
  PROVE  EqualsAt(p) = Read =>
           /\ Decode(IF Sign(str, "&") = 0 THEN str ELSE Upto(str, Sign(str, "&"))) = Value(p)
           /\ \/ Read' = Len(input) /\ p[2] = Len(input) /\ Read < p[2]
              \/ Read' = p[2] + 1 /\ input[Read'] = "&" /\ Read' \in 1..Len(input)
<1> DEFINE at == Sign(str, "&")
           first == Sign(PieceText(p), "=")
           n == p[2] - p[1] + 1
           value == IF at = 0 THEN str ELSE Upto(str, at)
           rest == Past(PieceText(p), first)
<1>0. SUFFICES ASSUME EqualsAt(p) = Read
      PROVE  /\ Decode(value) = Value(p)
             /\ \/ Read' = Len(input) /\ p[2] = Len(input) /\ Read < p[2]
                \/ Read' = p[2] + 1 /\ input[Read'] = "&" /\ Read' \in 1..Len(input)
  OBVIOUS
<1>1. /\ input \in Seq(Token) /\ str \in Seq(Token)
      /\ Len(str) \in Nat /\ Len(input) \in Nat /\ Read + Len(str) = Len(input)
      /\ \A i \in 1..Len(str) : str[i] = input[Read + i]
  BY DEF Cut, Read
<1>2. /\ str # <<>>
      /\ at = 0 => Read' = Len(input) /\ \A i \in 1..Len(str) : str[i] # "&"
      /\ at # 0 => /\ at \in 1..Len(str) /\ \A i \in 1..(at - 1) : str[i] # "&"
                   /\ Read' = Read + at /\ input[Read'] = "&" /\ Read' \in 1..Len(input)
  BY ValueStep
<1>3. /\ p[1] \in Nat /\ p[2] \in Nat /\ p[1] <= p[2] /\ p[2] <= Len(input)
      /\ p[2] = Len(input) \/ input[p[2] + 1] = "&"
      /\ \A k \in p[1]..p[2] : input[k] # "&"
  BY <1>1, PieceFacts
<1>4. /\ PieceText(p) \in Seq(Token) /\ Len(PieceText(p)) = n
      /\ \A i \in 1..n : PieceText(p)[i] = input[p[1] - 1 + i]
  BY <1>1, PieceFacts
<1>5. first \in 1..n /\ Read \in p[1]..p[2] /\ Read = p[1] - 1 + first
  BY <1>0, <1>1, EqualsFacts DEF EqualsAt
<1>9. /\ Len(str) \in Nat /\ Read \in Nat /\ Len(input) = Read + Len(str)
      /\ p[1] \in Nat /\ p[2] \in Nat /\ first \in Nat /\ 1 <= first
      /\ p[1] + first = Read + 1 /\ Read <= p[2] /\ p[2] <= Len(input)
  <2> HIDE DEF first
  <2>1. n \in Nat
    BY <1>3
  <2>2. Read \in Nat /\ Read <= p[2]
    BY <1>3, <1>5
  <2>3. Len(input) = Read + Len(str)
    BY <1>1, <2>2
  <2> HIDE DEF n
  <2>4. first \in Nat /\ 1 <= first /\ first <= n
    BY <1>5, <2>1
  <2>5. p[1] + first = Read + 1
    BY <1>3, <1>5, <2>4
  <2> QED BY <1>1, <1>3, <2>2, <2>3, <2>4, <2>5
<1>6. rest \in Seq(Token) /\ Len(rest) = p[2] - Read
      /\ \A i \in 1..(p[2] - Read) : rest[i] = input[Read + i]
  <2>4. PieceText(p) \in Seq(Token) /\ Len(PieceText(p)) = n
    BY <1>4
  <2>5. first \in 1..Len(PieceText(p))
    BY <1>5, <2>4
  <2>1. /\ rest \in Seq(Token) /\ Len(rest) = n - first
        /\ \A i \in 1..(n - first) : rest[i] = PieceText(p)[first + i]
    <3> HIDE DEF first
    <3> QED BY <2>4, <2>5, PastFacts
  <2>7. /\ p[1] \in Nat /\ p[2] \in Nat /\ Read \in Nat /\ first \in Nat /\ 1 <= first
        /\ p[1] + first = Read + 1 /\ p[1] <= p[2] /\ Read <= p[2]
    BY <1>3, <1>9
  <2>6. n + p[1] = p[2] + 1 /\ n \in Nat
    BY <2>7
  <2> HIDE DEF rest, first, n
  <2>2. n - first = p[2] - Read
    BY <2>6, <2>7
  <2>3. ASSUME NEW i \in 1..(n - first) PROVE first + i \in 1..n /\ p[1] - 1 + (first + i) = Read + i
    <3>1. first + i \in 1..n
      BY <2>3, <2>6, <2>7
    <3>2. p[1] - 1 + (first + i) = Read + i
      BY <2>3, <2>6, <2>7
    <3> QED BY <3>1, <3>2
  <2> QED BY <1>4, <2>1, <2>2, <2>3
<1> HIDE DEF rest, first, n, at
<1>7. CASE at = 0
  <2>1. p[2] = Len(input)
    <3> SUFFICES ASSUME p[2] # Len(input) PROVE FALSE
      OBVIOUS
    <3>1. p[2] + 1 - Read \in 1..Len(str) /\ Read + (p[2] + 1 - Read) = p[2] + 1
      <4> p[2] < Len(input)
        BY <1>9
      <4> QED BY <1>9
    <3>2. str[p[2] + 1 - Read] = "&"
      BY <1>1, <1>3, <3>1
    <3> QED BY <1>2, <1>7, <3>1, <3>2
  <2>2. value = str /\ Len(str) = p[2] - Read
    BY <1>7, <1>9, <2>1
  <2>3. value = rest
    BY <1>1, <1>6, <2>2, SameSeq
  <2>4. Len(str) # 0
    BY <1>1, <1>2
  <2>5. Read < p[2]
    BY <1>9, <2>1, <2>4
  <2> QED BY <1>2, <1>7, <2>1, <2>3, <2>5 DEF Value, rest, first, at
<1>8. CASE at # 0
  <2>8. at \in Nat /\ 1 <= at /\ at <= Len(str)
    BY <1>2, <1>8, <1>9
  <2>1. ~(Read + at <= p[2])
    <3> SUFFICES ASSUME Read + at <= p[2] PROVE FALSE
      OBVIOUS
    <3>1. Read + at \in p[1]..p[2]
      <4>1. p[1] <= Read + at
        BY <1>9, <2>8
      <4> QED BY <1>9, <2>8, <4>1
    <3> QED BY <1>2, <1>3, <1>8, <3>1
  <2>2. ~(p[2] + 1 < Read + at)
    <3> SUFFICES ASSUME p[2] + 1 < Read + at PROVE FALSE
      OBVIOUS
    <3>1. p[2] # Len(input)
      BY <1>9, <2>8
    <3>3. Read + (p[2] + 1 - Read) = p[2] + 1 /\ p[2] + 1 - Read \in Nat /\ 1 <= p[2] + 1 - Read
      BY <1>9
    <3>5. p[2] + 1 - Read < at
      BY <1>9, <2>8
    <3>2. p[2] + 1 - Read \in 1..(at - 1) /\ p[2] + 1 - Read \in 1..Len(str)
      <4> HIDE DEF Read
      <4> QED BY <2>8, <3>3, <3>5
    <3>4. str[p[2] + 1 - Read] = "&"
      BY <1>1, <1>3, <3>1, <3>2, <3>3
    <3> QED BY <1>2, <1>8, <3>2, <3>4
  <2>3. Read + at = p[2] + 1 /\ at - 1 = p[2] - Read
    <3>1. Read \in Nat /\ p[2] \in Nat /\ at \in Nat
      BY <1>9, <2>8
    <3> QED BY <2>1, <2>2, <3>1
  <2>4. /\ Upto(str, at) \in Seq(Token) /\ Len(Upto(str, at)) = at - 1
        /\ \A i \in 1..(at - 1) : Upto(str, at)[i] = str[i]
    BY <1>1, <1>2, <1>8, UptoFacts
  <2>5. \A i \in 1..(at - 1) : i \in 1..Len(str)
    BY <1>9, <2>8
  <2>6. \A i \in 1..(at - 1) : Upto(str, at)[i] = rest[i]
    BY <1>1, <1>6, <2>3, <2>4, <2>5
  <2>7. value = rest
    BY <1>6, <1>8, <2>3, <2>4, <2>6, SameSeq
  <2> QED BY <1>2, <1>8, <2>3, <2>7 DEF Value, rest, first, at
<1> QED BY <1>7, <1>8

-----------------------------------------------------------------------------
(* The pieces the parser is done with.                                     *)
Passed(p) == IF result = "nextValue" THEN p[2] < Read ELSE p[2] <= Read

(* A field holds the value of the one piece passed that has its name, if   *)
(* there is one.                                                           *)
Filled ==
  /\ \A f \in target.fields : fields[f] # None =>
       \E p \in Piece : Passed(p) /\ Name(p) = f
  /\ \A p \in Piece : Passed(p) /\ Name(p) \in target.fields => fields[Name(p)] = Value(p)
  /\ \A p, q \in Piece :
       Passed(p) /\ Passed(q) /\ Name(p) = Name(q) /\ Name(p) \in target.fields => p = q

(* The parser is inside a piece, behind its name.                          *)
Inside ==
  \E p \in Piece : EqualsAt(p) = Read /\ key = Name(p) /\ (key \in target.fields => fields[key] = None)

Twice ==
  \E p, q \in Piece : p # q /\ Name(p) = Name(q) /\ Name(p) \in target.fields

(* How far the parser has got with a text whose pieces all have their "=". *)
Parsed ==
  /\ result # "CantParseKey"
  /\ result = "CantParseValue" => input # <<>> /\ Last(input) = "="
  /\ result = "duplicate" => Twice
  /\ result = "nextValue" => Inside
  /\ result \in {"nextKey", "nextValue", "ok", "missing"} => Filled
  /\ result \in {"ok", "missing"} => Read = Len(input)
  /\ result = "ok" => \A f \in target.required : fields[f] # None
  /\ result = "missing" => \E f \in target.required : fields[f] = None

(* The input stays, and with it what is said of its pieces.                *)
LEMMA Fixed ==
  ASSUME input' = input
  PROVE  /\ Piece' = Piece /\ Separated' = Separated
         /\ \A p : Name(p)' = Name(p) /\ Value(p)' = Value(p) /\ EqualsAt(p)' = EqualsAt(p)
BY DEF Piece, PieceText, Name, Value, EqualsAt, Separated

LEMMA InputFixed == [Next]_vars => input' = input
BY DEF Next, vars, EndOfText, CantParseKey, NextKey, CantParseValue, NextValue

LEMMA ValueGiven ==
  ASSUME input \in Seq(Token), Separated, NEW p \in Piece
  PROVE  Value(p) # None
<1>1. PieceText(p) \in Seq(Token) /\ Sign(PieceText(p), "=") \in 1..Len(PieceText(p))
  BY PieceFacts, EqualsFacts
<1>2. Past(PieceText(p), Sign(PieceText(p), "=")) \in Seq(Token)
  BY <1>1, PastFacts
<1> QED BY <1>2, DecodeFacts DEF Value

(* Before and behind the name of a piece, the same others have passed.     *)
LEMMA PassedKey ==
  ASSUME Cut, Separated, NEW p \in Piece, p[1] = Read + 1, Read' = EqualsAt(p),
         result = "nextKey", result' = "nextValue", NEW q \in Piece
  PROVE  Passed(q)' <=> Passed(q)
<1>1. input \in Seq(Token) /\ Read \in Nat
  BY DEF Cut, Read
<1>2. /\ p[2] \in Nat /\ q[1] \in Nat /\ q[2] \in Nat /\ q[1] <= q[2]
      /\ EqualsAt(p) \in Nat /\ p[1] <= EqualsAt(p) /\ EqualsAt(p) <= p[2]
  BY <1>1, PieceFacts, EqualsFacts
<1>3. (Passed(q)' <=> q[2] < EqualsAt(p)) /\ (Passed(q) <=> q[2] <= Read)
  BY DEF Passed
<1>4. ASSUME q[2] < EqualsAt(p), ~(q[2] <= Read) PROVE FALSE
  <2>1. p[1] <= q[2] /\ q[1] <= p[2]
    BY <1>1, <1>2, <1>4
  <2>2. p = q
    BY <1>1, <2>1, PiecesApart
  <2> QED BY <1>2, <1>4, <2>2
<1>5. q[2] <= Read => q[2] < EqualsAt(p)
  BY <1>1, <1>2
<1> QED BY <1>3, <1>4, <1>5

(* Behind its value, the piece itself has passed as well.                  *)
LEMMA PassedValue ==
  ASSUME Cut, Separated, NEW p \in Piece, EqualsAt(p) = Read,
         \/ Read' = Len(input) /\ p[2] = Len(input) /\ Read < p[2]
         \/ Read' = p[2] + 1 /\ input[Read'] = "&" /\ Read' \in 1..Len(input),
         result = "nextValue", result' = "nextKey", NEW q \in Piece
  PROVE  Passed(q)' <=> Passed(q) \/ q = p
<1>1. input \in Seq(Token) /\ Len(input) \in Nat
  BY DEF Cut
<1>2. /\ p[1] \in Nat /\ p[2] \in Nat /\ q[1] \in Nat /\ q[2] \in Nat /\ q[1] <= q[2]
      /\ Read \in Nat /\ p[1] <= Read /\ Read <= p[2]
      /\ q[2] <= Len(input) /\ \A k \in q[1]..q[2] : input[k] # "&"
  BY <1>1, PieceFacts, EqualsFacts
<1>3. (Passed(q)' <=> q[2] <= Read') /\ (Passed(q) <=> q[2] < Read)
  BY DEF Passed
<1>4. p[2] <= Read' /\ Read' \in Nat
  BY <1>1, <1>2
<1>5. ASSUME q[2] <= Read', ~(q[2] < Read) PROVE q = p
  <2>1. p[1] <= q[2]
    BY <1>2, <1>5
  <2>2. ~(p[2] < q[1])
    <3> SUFFICES ASSUME p[2] < q[1] PROVE FALSE
      OBVIOUS
    <3>1. Read' = p[2] + 1 /\ input[Read'] = "&"
      BY <1>1, <1>2
    <3>2. Read' \in q[1]..q[2]
      BY <1>2, <1>5, <3>1
    <3> QED BY <1>2, <3>1, <3>2
  <2>3. q[1] <= p[2]
    BY <1>2, <2>2
  <2> QED BY <1>1, <2>1, <2>3, PiecesApart
<1>6. q[2] < Read => q[2] <= Read'
  BY <1>2, <1>4
<1> QED BY <1>3, <1>4, <1>5, <1>6

LEMMA ParsedInit ==
  ASSUME Init, Separated
  PROVE  Parsed
<1>1. Cut /\ Read = 0 /\ result = "nextKey"
  BY ParserInit DEF Init, Read, Cut
<1>2. \A p \in Piece : ~Passed(p)
  <2>1. \A p \in Piece : p[2] \in Nat /\ 1 <= p[1] /\ p[1] <= p[2] /\ p[1] \in Nat
    BY <1>1, PieceFacts DEF Cut
  <2>2. \A p \in Piece : ~(p[2] <= 0)
    BY <2>1
  <2> QED BY <1>1, <2>2 DEF Passed
<1>3. \A f \in target.fields : fields[f] = None
  BY DEF Init
<1> QED BY <1>1, <1>2, <1>3 DEF Parsed, Filled

LEMMA ParsedNextKey ==
  ASSUME Cut, Stands, Separated, Parsed, NextKey
  PROVE  Parsed'
<1>1. input' = input /\ result = "nextKey" /\ UNCHANGED <<target, fields>> /\ str # <<>>
  <2>1. Sign(str, "=") \in 1..Len(str)
    BY KeyStep
  <2> QED BY <2>1 DEF NextKey
<1>2. PICK p \in Piece : p[1] = Read + 1
  BY <1>1, PieceHere DEF Stands
<1>3. key' = Name(p) /\ Read' = EqualsAt(p)
  BY <1>2, KeyText
<1>4. /\ Piece' = Piece
      /\ \A q : Name(q)' = Name(q) /\ Value(q)' = Value(q) /\ EqualsAt(q)' = EqualsAt(q)
  BY <1>1, Fixed
<1>5. Filled
  BY <1>1 DEF Parsed
<1>6. CASE key' \in target.fields /\ fields[key'] # None
  <2>1. PICK q \in Piece : Passed(q) /\ Name(q) = key'
    BY <1>5, <1>6 DEF Filled
  <2>2. q # p
    <3>1. Read \in Nat /\ p[2] \in Nat /\ p[1] <= p[2] /\ input \in Seq(Token)
      BY PieceFacts DEF Cut, Read
    <3>2. q[2] <= Read
      BY <1>1, <2>1 DEF Passed
    <3>3. ~(p[2] <= Read)
      BY <1>2, <3>1
    <3> QED BY <3>2, <3>3
  <2>3. Twice'
    BY <1>1, <1>3, <1>4, <1>6, <2>1, <2>2 DEF Twice
  <2>4. result' = "duplicate"
    BY <1>6 DEF NextKey
  <2> QED BY <2>3, <2>4 DEF Parsed
<1>7. CASE ~(key' \in target.fields /\ fields[key'] # None)
  <2>1. result' = "nextValue"
    BY <1>7 DEF NextKey
  <2>2. Inside'
    BY <1>1, <1>3, <1>4, <1>7 DEF Inside
  <2>3. \A q \in Piece : Passed(q)' <=> Passed(q)
    BY <1>1, <1>2, <1>3, <2>1, PassedKey
  <2>4. Filled'
    BY <1>1, <1>4, <1>5, <2>3 DEF Filled
  <2> QED BY <2>1, <2>2, <2>4 DEF Parsed
<1> QED BY <1>6, <1>7

LEMMA ParsedNextValue ==
  ASSUME Cut, Stands, Struct, Separated, Parsed, NextValue
  PROVE  Parsed'
<1> DEFINE value == IF Sign(str, "&") = 0 THEN str ELSE Upto(str, Sign(str, "&"))
<1>1. /\ input' = input /\ target' = target /\ result = "nextValue" /\ result' = "nextKey"
      /\ fields' = [f \in target.fields |-> IF f = key THEN Decode(value) ELSE fields[f]]
  BY DEF NextValue
<1>2. PICK p \in Piece :
        EqualsAt(p) = Read /\ key = Name(p) /\ (key \in target.fields => fields[key] = None)
  BY <1>1 DEF Parsed, Inside
<1>3. /\ Decode(value) = Value(p)
      /\ \/ Read' = Len(input) /\ p[2] = Len(input) /\ Read < p[2]
         \/ Read' = p[2] + 1 /\ input[Read'] = "&" /\ Read' \in 1..Len(input)
  BY <1>2, ValueText
<1>4. /\ Piece' = Piece
      /\ \A q : Name(q)' = Name(q) /\ Value(q)' = Value(q)
  BY <1>1, Fixed
<1>5. Filled
  BY <1>1 DEF Parsed
<1>6. \A q \in Piece : Passed(q)' <=> Passed(q) \/ q = p
  BY <1>1, <1>2, <1>3, PassedValue
<1> HIDE DEF value
<1>7. \A f \in target.fields : fields'[f] = IF f = Name(p) THEN Value(p) ELSE fields[f]
  BY <1>1, <1>2, <1>3
<1>8. \A q \in Piece : Passed(q) /\ Name(q) \in target.fields => Name(q) # Name(p)
  <2>1. \A q \in Piece : Passed(q) /\ Name(q) \in target.fields => fields[Name(q)] # None
    BY <1>5, ValueGiven DEF Filled, Cut
  <2> QED BY <1>2, <2>1
<1>9. Filled'
  <2>1. ASSUME NEW f \in target.fields, fields'[f] # None
        PROVE  \E q \in Piece : Passed(q)' /\ Name(q) = f
    <3>1. CASE f = Name(p)
      BY <1>6, <3>1
    <3>2. CASE f # Name(p)
      <4>1. fields[f] # None
        BY <1>7, <2>1, <3>2
      <4> QED BY <1>5, <1>6, <4>1 DEF Filled
    <3> QED BY <3>1, <3>2
  <2>2. ASSUME NEW q \in Piece, Passed(q)', Name(q) \in target.fields
        PROVE  fields'[Name(q)] = Value(q)
    <3>1. CASE q = p
      BY <1>7, <2>2, <3>1
    <3>2. CASE q # p
      <4>1. Passed(q) /\ Name(q) # Name(p)
        BY <1>6, <1>8, <2>2, <3>2
      <4> QED BY <1>5, <1>7, <2>2, <4>1 DEF Filled
    <3> QED BY <3>1, <3>2
  <2>3. ASSUME NEW q \in Piece, NEW r \in Piece, Passed(q)', Passed(r)',
               Name(q) = Name(r), Name(q) \in target.fields
        PROVE  q = r
    <3>1. (Passed(q) \/ q = p) /\ (Passed(r) \/ r = p)
      BY <1>6, <2>3
    <3>2. CASE Passed(q) /\ Passed(r)
      BY <1>5, <2>3, <3>2 DEF Filled
    <3>3. CASE q = p \/ r = p
      BY <1>8, <2>3, <3>1, <3>3
    <3> QED BY <3>1, <3>2, <3>3
  <2> QED BY <1>1, <1>4, <2>1, <2>2, <2>3 DEF Filled
<1> QED BY <1>1, <1>9 DEF Parsed

LEMMA ParsedEnd ==
  ASSUME Cut, Stands, Separated, Parsed,
         EndOfText \/ CantParseKey \/ CantParseValue \/ UNCHANGED vars
  PROVE  Parsed'
<1>1. UNCHANGED <<input, str, target, key, fields>>
  BY DEF EndOfText, CantParseKey, CantParseValue, vars
<1>2. Piece' = Piece /\ Read' = Read
      /\ \A q : Name(q)' = Name(q) /\ Value(q)' = Value(q) /\ EqualsAt(q)' = EqualsAt(q)
  BY <1>1, Fixed DEF Read
<1>3. CASE EndOfText
  <2>1. result = "nextKey" /\ Filled /\ result' \in {"ok", "missing"}
    BY <1>3 DEF EndOfText, Parsed
  <2>2. \A q \in Piece : Passed(q)' <=> Passed(q)
    BY <1>2, <2>1 DEF Passed
  <2>3. Filled'
    BY <1>1, <1>2, <2>1, <2>2 DEF Filled
  <2>4. Read' = Len(input')
    BY <1>1, <1>3 DEF EndOfText, Read, Cut
  <2>5. /\ result' = "ok" => \A f \in target.required : fields[f] # None
        /\ result' = "missing" => \E f \in target.required : fields[f] = None
    BY <1>3 DEF EndOfText
  <2> QED BY <1>1, <2>1, <2>3, <2>4, <2>5 DEF Parsed
<1>4. CASE CantParseKey
  <2>1. PICK p \in Piece : p[1] = Read + 1
    BY <1>4, PieceHere DEF CantParseKey, Stands
  <2>2. /\ input \in Seq(Token) /\ str \in Seq(Token) /\ Len(str) \in Nat
        /\ Read \in Nat /\ Len(input) = Read + Len(str)
    BY DEF Cut, Read
  <2>3. /\ EqualsAt(p) \in Nat /\ p[1] <= EqualsAt(p) /\ EqualsAt(p) <= Len(input)
        /\ input[EqualsAt(p)] = "="
    <3>1. EqualsAt(p) \in Nat /\ p[1] <= EqualsAt(p) /\ EqualsAt(p) <= p[2] /\ input[EqualsAt(p)] = "="
      BY <2>2, PieceFacts, EqualsFacts
    <3>2. p[2] \in Nat /\ p[2] <= Len(input) /\ Len(input) \in Nat
      BY <2>2, PieceFacts
    <3> QED BY <3>1, <3>2
  <2>4. EqualsAt(p) - Read \in 1..Len(str) /\ Read + (EqualsAt(p) - Read) = EqualsAt(p)
    BY <2>1, <2>2, <2>3
  <2>5. str[EqualsAt(p) - Read] = "="
    BY <2>3, <2>4 DEF Cut
  <2>6. \A i \in 1..Len(str) : str[i] # "="
    BY <1>4, <2>2, SignFacts DEF CantParseKey
  <2> QED BY <2>4, <2>5, <2>6
<1>5. CASE CantParseValue
  <2>1. Read = Len(input) /\ Read \in 1..Len(input) /\ input[Read] = "="
    BY <1>5 DEF CantParseValue, Stands, Read, Cut
  <2>2. input' # <<>> /\ Last(input') = "="
    BY <1>1, <2>1 DEF Last
  <2>3. result' = "CantParseValue"
    BY <1>5 DEF CantParseValue
  <2> QED BY <2>2, <2>3 DEF Parsed
<1>6. CASE UNCHANGED vars
  <2>1. result' = result
    BY <1>6 DEF vars
  <2>2. \A q \in Piece : Passed(q)' <=> Passed(q)
    BY <1>2, <2>1 DEF Passed
  <2>3. Filled => Filled'
    BY <1>1, <1>2, <2>2 DEF Filled
  <2>4. (Twice => Twice') /\ (Inside => Inside')
    BY <1>1, <1>2 DEF Twice, Inside
  <2> QED BY <1>1, <1>2, <2>1, <2>3, <2>4 DEF Parsed
<1> QED BY <1>3, <1>4, <1>5, <1>6

ParserInv == Cut /\ Stands /\ Struct /\ (Separated => Parsed)

LEMMA ParserCorrect == Spec => []ParserInv
<1>1. Init => ParserInv
  BY ParserInit, ParsedInit DEF ParserInv
<1>2. ASSUME ParserInv, [Next]_vars PROVE ParserInv'
  <2>1. Separated' = Separated
    BY <1>2, InputFixed, Fixed
  <2>2. ASSUME Separated PROVE Parsed'
    BY <1>2, <2>2, ParsedNextKey, ParsedNextValue, ParsedEnd DEF ParserInv, Next
  <2> QED BY <1>2, <2>1, <2>2, ParserNext DEF ParserInv
<1> QED BY <1>1, <1>2, PTL DEF Spec

(* Whatever the text, if every piece of it has its "=" and the last one    *)
(* its value, the parser finds what the URL standard says: no name or      *)
(* value is torn, moved to another field or made up, a field given twice   *)
(* is refused and nothing else is.                                         *)
THEOREM AgreesWithStandardCorrect == Spec => []AgreesWithStandard
<1>1. ASSUME ParserInv PROVE AgreesWithStandard
  <2> SUFFICES ASSUME Done, WellFormed
               PROVE  /\ result = "duplicate" <=> Twice
                      /\ result \in {"ok", "missing"} =>
                           \A f \in target.fields :
                             IF \E p \in Piece : Name(p) = f
                             THEN \E p \in Piece : Name(p) = f /\ fields[f] = Value(p)
                             ELSE fields[f] = None
                      /\ result \notin {"CantParseKey", "CantParseValue"}
    BY DEF AgreesWithStandard, Twice
  <2>1. Parsed
    BY <1>1 DEF ParserInv, WellFormed, Separated
  <2>2. result \notin {"CantParseKey", "CantParseValue"}
    BY <2>1 DEF Parsed, WellFormed
  <2>3. result \in {"ok", "missing", "duplicate"}
    BY <1>1, <2>2 DEF Done, ParserInv, Struct, Result
  <2>4. ASSUME result # "duplicate" PROVE Filled /\ \A p \in Piece : Passed(p)
    <3>1. Filled /\ Read = Len(input) /\ result # "nextValue"
      BY <2>1, <2>3, <2>4 DEF Parsed
    <3>2. \A p \in Piece : p[2] <= Len(input)
      BY <1>1, PieceFacts DEF ParserInv, Cut
    <3> QED BY <3>1, <3>2 DEF Passed
  <2>5. result = "duplicate" <=> Twice
    <3>1. result # "duplicate" => ~Twice
      BY <2>4 DEF Filled, Twice
    <3> QED BY <2>1, <3>1 DEF Parsed
  <2>6. ASSUME result # "duplicate", NEW f \in target.fields
        PROVE  IF \E p \in Piece : Name(p) = f
               THEN \E p \in Piece : Name(p) = f /\ fields[f] = Value(p)
               ELSE fields[f] = None
    BY <2>4, <2>6 DEF Filled
  <2> QED BY <2>2, <2>3, <2>5, <2>6
<1> QED BY <1>1, ParserCorrect, PTL

-----------------------------------------------------------------------------
LEMMA ConcatFacts ==
  ASSUME NEW T, NEW s \in Seq(T), NEW t \in Seq(T)
  PROVE  /\ s \o t \in Seq(T) /\ Len(s \o t) = Len(s) + Len(t)
         /\ Len(s) \in Nat /\ Len(t) \in Nat
         /\ \A k \in 1..Len(s) : (s \o t)[k] = s[k]
         /\ \A k \in 1..Len(t) : (s \o t)[Len(s) + k] = t[k]
OBVIOUS

(* What g has joined stays in front of what it joins later.                *)
LEMMA JoinsPrefix ==
  ASSUME NEW T, NEW s \in Seq(Seq(T)), NEW g, Joins(g, s, T), NEW j \in 1..Len(s), NEW i \in 1..j
  PROVE  /\ Len(g[i]) <= Len(g[j])
         /\ \A k \in 1..Len(g[i]) : g[j][k] = g[i][k]
<1> DEFINE n == Len(s)
           Starts(a, b) == Len(g[a]) <= Len(g[b]) /\ \A k \in 1..Len(g[a]) : g[b][k] = g[a][k]
           Bad == {b \in 1..n : \E a \in 1..b : ~Starts(a, b)}
<1>1. n \in Nat /\ Bad \subseteq Nat
  OBVIOUS
<1>2. \A b \in 1..n : g[b] \in Seq(T) /\ s[b] \in Seq(T)
  <2>1. \A b \in 1..n : s[b] \in Seq(T)
    OBVIOUS
  <2>2. g \in [1..n -> Seq(T)]
    BY DEF Joins
  <2> HIDE DEF n
  <2> QED BY <2>1, <2>2
<1>3. ASSUME NEW b \in Bad, \A c \in Bad : b <= c PROVE FALSE
  <2>1. PICK a \in 1..b : ~Starts(a, b)
    OBVIOUS
  <2>2. b \in 1..n /\ b \in Nat /\ a \in Nat /\ 1 <= a /\ a <= b
    BY <1>1
  <2>3. g[b] \in Seq(T) /\ Len(g[b]) \in Nat
    BY <1>2, <2>2
  <2>4. a # b
    BY <2>1, <2>3
  <2>5. b - 1 \in 1..n /\ b - 1 \notin Bad /\ a \in 1..(b - 1) /\ b \in 2..n
    <3>1. b - 1 \in 1..n /\ a \in 1..(b - 1) /\ b \in 2..n /\ ~(b <= b - 1)
      BY <1>1, <2>2, <2>4
    <3> QED BY <1>3, <3>1
  <2>6. Starts(a, b - 1)
    BY <2>5
  <2>7. g[b] = g[b - 1] \o s[b] /\ g[b - 1] \in Seq(T) /\ s[b] \in Seq(T)
    BY <1>2, <2>2, <2>5 DEF Joins
  <2>8. Len(g[b - 1]) <= Len(g[b]) /\ \A k \in 1..Len(g[b - 1]) : g[b][k] = g[b - 1][k]
    <3> DEFINE old == g[b - 1]
               new == s[b]
    <3>1. old \in Seq(T) /\ new \in Seq(T) /\ g[b] = old \o new
      BY <2>7
    <3> HIDE DEF old, new
    <3>2. /\ Len(old \o new) = Len(old) + Len(new) /\ Len(old) \in Nat /\ Len(new) \in Nat
          /\ \A k \in 1..Len(old) : (old \o new)[k] = old[k]
      BY <3>1, ConcatFacts
    <3>3. Len(old) <= Len(g[b]) /\ \A k \in 1..Len(old) : g[b][k] = old[k]
      BY <3>1, <3>2
    <3> QED BY <3>3 DEF old
  <2>9. a \in 1..n
    BY <1>1, <2>2
  <2>10. g[a] \in Seq(T) /\ Len(g[a]) \in Nat /\ Len(g[b - 1]) \in Nat
    <3>1. \A x \in Seq(T) : Len(x) \in Nat
      OBVIOUS
    <3>2. g[a] \in Seq(T) /\ g[b - 1] \in Seq(T)
      BY <1>2, <2>7, <2>9
    <3> QED BY <3>1, <3>2
  <2>11. Len(g[a]) <= Len(g[b])
    <3>1. Len(g[a]) <= Len(g[b - 1]) /\ Len(g[b - 1]) <= Len(g[b])
      BY <2>6, <2>8
    <3>2. \A x, y, z \in Nat : x <= y /\ y <= z => x <= z
      OBVIOUS
    <3> QED BY <2>3, <2>10, <3>1, <3>2
  <2>12. \A k \in 1..Len(g[a]) : g[b][k] = g[a][k]
    <3>1. \A k \in 1..Len(g[a]) : k \in 1..Len(g[b - 1])
      BY <2>6, <2>10
    <3> QED BY <2>6, <2>8, <3>1
  <2> QED BY <2>1, <2>11, <2>12
<1>4. Bad = {}
  <2> HIDE DEF Bad
  <2> QED BY <1>1, <1>3, Least
<1> QED BY <1>4

(* A pair as it is sent.                                                   *)
Pair(f, i) == Encode(f[i][1]) \o <<"=">> \o Encode(f[i][2])

Sep(i) == IF i = 1 THEN 0 ELSE 1

LEMMA PairFacts ==
  ASSUME NEW name \in Seq(Token), NEW value \in Seq(Token),
         \A i \in 1..Len(name) : name[i] # "="
  PROVE  LET text == name \o <<"=">> \o value IN
         /\ Sign(text, "=") = Len(name) + 1
         /\ Upto(text, Len(name) + 1) = name
         /\ Past(text, Len(name) + 1) = value
<1> DEFINE text == name \o <<"=">> \o value
           n == Len(name)
<1>1. n \in Nat /\ Len(value) \in Nat
  OBVIOUS
<1>2. /\ text \in Seq(Token) /\ Len(text) = n + 1 + Len(value)
      /\ \A i \in 1..n : text[i] = name[i]
      /\ text[n + 1] = "="
      /\ \A i \in 1..Len(value) : text[n + 1 + i] = value[i]
  <2>1. "=" \in Token
    BY DEF Token
  <2> QED BY <2>1
<1> HIDE DEF text, n
<1>3. n + 1 \in 1..Len(text)
  BY <1>1, <1>2
<1>4. Sign(text, "=") = n + 1
  <2>1. /\ Sign(text, "=") \in 0..Len(text)
        /\ Sign(text, "=") = 0 => \A i \in 1..Len(text) : text[i] # "="
        /\ Sign(text, "=") # 0 =>
             /\ text[Sign(text, "=")] = "="
             /\ \A i \in 1..(Sign(text, "=") - 1) : text[i] # "="
    BY <1>2, SignFacts
  <2>2. Sign(text, "=") # 0
    BY <1>2, <1>3, <2>1
  <2>3. ~(Sign(text, "=") < n + 1)
    <3> SUFFICES ASSUME Sign(text, "=") < n + 1 PROVE FALSE
      OBVIOUS
    <3>1. Sign(text, "=") \in 1..n
      BY <1>1, <1>2, <2>1, <2>2
    <3> QED BY <1>2, <2>1, <2>2, <3>1 DEF n
  <2>4. ~(n + 1 < Sign(text, "="))
    <3> SUFFICES ASSUME n + 1 < Sign(text, "=") PROVE FALSE
      OBVIOUS
    <3>1. n + 1 \in 1..(Sign(text, "=") - 1)
      BY <1>1, <1>2, <2>1
    <3> QED BY <1>2, <2>1, <2>2, <3>1
  <2> QED BY <1>1, <1>2, <2>1, <2>3, <2>4
<1>5. Upto(text, n + 1) = name
  <2>1. /\ Upto(text, n + 1) \in Seq(Token) /\ Len(Upto(text, n + 1)) = n
        /\ \A i \in 1..n : Upto(text, n + 1)[i] = text[i]
    <3>1. (n + 1) - 1 = n
      BY <1>1
    <3> QED BY <1>2, <1>3, <3>1, UptoFacts
  <2> QED BY <1>2, <2>1, SameSeq DEF n
<1>6. Past(text, n + 1) = value
  <2>1. /\ Past(text, n + 1) \in Seq(Token) /\ Len(Past(text, n + 1)) = Len(text) - (n + 1)
        /\ \A i \in 1..(Len(text) - (n + 1)) : Past(text, n + 1)[i] = text[n + 1 + i]
    <3> DEFINE at == n + 1
    <3>1. at \in 1..Len(text) /\ text \in Seq(Token)
      BY <1>2, <1>3
    <3> HIDE DEF at
    <3>2. /\ Past(text, at) \in Seq(Token) /\ Len(Past(text, at)) = Len(text) - at
          /\ \A i \in 1..(Len(text) - at) : Past(text, at)[i] = text[at + i]
      BY <3>1, PastFacts
    <3> QED BY <3>2 DEF at
  <2>2. Len(text) - (n + 1) = Len(value)
    BY <1>1, <1>2
  <2> QED BY <1>2, <2>1, <2>2, SameSeq
<1> QED BY <1>4, <1>5, <1>6 DEF text, n

LEMMA PairType ==
  ASSUME NEW f \in Form, NEW i \in 1..Len(f)
  PROVE  /\ Pair(f, i) \in Seq(Token) /\ Len(Pair(f, i)) >= 1
         /\ \A k \in 1..Len(Pair(f, i)) : Pair(f, i)[k] # "&"
         /\ Sign(Pair(f, i), "=") \in 1..Len(Pair(f, i))
         /\ Decode(Upto(Pair(f, i), Sign(Pair(f, i), "="))) = f[i][1]
         /\ Decode(Past(Pair(f, i), Sign(Pair(f, i), "="))) = f[i][2]
         /\ Sign(Pair(f, i), "=") = Len(Pair(f, i)) <=> f[i][2] = <<>>
<1> DEFINE name == Encode(f[i][1])
           value == Encode(f[i][2])
<1>1. f[i][1] \in Seq(Character) /\ f[i][2] \in Seq(Character)
  BY FieldType
<1>2. /\ name \in Seq(Token) /\ \A k \in 1..Len(name) : name[k] \notin {"=", "&"}
      /\ value \in Seq(Token) /\ \A k \in 1..Len(value) : value[k] \notin {"=", "&"}
      /\ Decode(name) = f[i][1] /\ Decode(value) = f[i][2]
      /\ Len(value) = Len(f[i][2])
  BY <1>1, EncodeFacts
<1> HIDE DEF name, value
<1>3. Pair(f, i) = name \o <<"=">> \o value
  BY DEF Pair, name, value
<1>4. /\ Sign(Pair(f, i), "=") = Len(name) + 1
      /\ Upto(Pair(f, i), Len(name) + 1) = name
      /\ Past(Pair(f, i), Len(name) + 1) = value
  BY <1>2, <1>3, PairFacts
<1>5. /\ Pair(f, i) \in Seq(Token) /\ Len(Pair(f, i)) = Len(name) + 1 + Len(value)
      /\ \A k \in 1..Len(Pair(f, i)) : Pair(f, i)[k] # "&"
  <2>1. <<"=">> \in Seq(Token) /\ Len(<<"=">>) = 1 /\ <<"=">>[1] = "="
    BY DEF Token
  <2> DEFINE front == name \o <<"=">>
  <2>2. /\ front \in Seq(Token) /\ Len(front) = Len(name) + 1
        /\ \A k \in 1..Len(front) : front[k] # "&"
    BY <1>2, <2>1
  <2>3. Pair(f, i) = front \o value
    BY <1>3
  <2> HIDE DEF front
  <2>4. /\ front \o value \in Seq(Token) /\ Len(front \o value) = Len(front) + Len(value)
        /\ \A k \in 1..Len(front) : (front \o value)[k] = front[k]
        /\ \A k \in 1..Len(value) : (front \o value)[Len(front) + k] = value[k]
        /\ Len(front) \in Nat /\ Len(value) \in Nat
    <3>1. front \in Seq(Token) /\ value \in Seq(Token)
      BY <1>2, <2>2
    <3> HIDE DEF value
    <3> QED BY <3>1, ConcatFacts
  <2>5. ASSUME NEW k \in 1..Len(Pair(f, i)) PROVE Pair(f, i)[k] # "&"
    <3>1. CASE k \in 1..Len(front)
      BY <2>2, <2>3, <2>4, <3>1
    <3>2. CASE k \notin 1..Len(front)
      <4>1. k - Len(front) \in 1..Len(value) /\ Len(front) + (k - Len(front)) = k
        BY <2>3, <2>4, <3>2
      <4>2. (front \o value)[k] = value[k - Len(front)]
        BY <2>4, <4>1
      <4> QED BY <1>2, <2>3, <4>1, <4>2
    <3> QED BY <3>1, <3>2
  <2> QED BY <2>2, <2>3, <2>4, <2>5
<1>6. Len(name) \in Nat /\ Len(value) \in Nat
  BY <1>2
<1>7. Len(value) = 0 <=> f[i][2] = <<>>
  BY <1>1, <1>2
<1>8. /\ Len(name) + 1 \in 1..Len(Pair(f, i))
      /\ Len(Pair(f, i)) >= 1
      /\ Len(name) + 1 = Len(Pair(f, i)) <=> Len(value) = 0
  BY <1>5, <1>6
<1> QED BY <1>2, <1>4, <1>5, <1>7, <1>8

LEMMA FieldShape ==
  ASSUME NEW f \in Form, NEW i \in 1..Len(f)
  PROVE  /\ Len(Field(f, i)) = Sep(i) + Len(Pair(f, i))
         /\ i # 1 => Field(f, i)[1] = "&"
         /\ \A k \in 1..Len(Pair(f, i)) : Field(f, i)[Sep(i) + k] = Pair(f, i)[k]
<1> DEFINE name == Encode(f[i][1])
           value == Encode(f[i][2])
<1>1. name \in Seq(Token) /\ value \in Seq(Token)
  BY FieldType, EncodeFacts
<1>2. "=" \in Token /\ "&" \in Token
  BY DEF Token
<1>3. Pair(f, i) = name \o <<"=">> \o value
  BY DEF Pair
<1>4. Field(f, i) = (IF i = 1 THEN <<>> ELSE <<"&">>) \o name \o <<"=">> \o value
  BY DEF Field
<1> HIDE DEF name, value
<1>5. CASE i = 1
  BY <1>1, <1>2, <1>3, <1>4, <1>5 DEF Sep
<1>6. CASE i # 1
  BY <1>1, <1>2, <1>3, <1>4, <1>6 DEF Sep
<1> QED BY <1>5, <1>6

(* The i-th pair of f ends at the e[i]-th token of the text.               *)
Layout(e, f, text) ==
  /\ e \in [0..Len(f) -> Nat]
  /\ e[0] = 0
  /\ e[Len(f)] = Len(text)
  /\ \A i \in 1..Len(f) :
       /\ e[i] = e[i - 1] + Sep(i) + Len(Pair(f, i))
       /\ e[i] <= Len(text)
       /\ i # 1 => text[e[i - 1] + 1] = "&"
       /\ \A k \in 1..Len(Pair(f, i)) : text[e[i - 1] + Sep(i) + k] = Pair(f, i)[k]

LEMMA SerializeLayout ==
  ASSUME NEW f \in Form, f # <<>>
  PROVE  \E e : Layout(e, f, Serialize(f))
<1> DEFINE n == Len(f)
           s == FieldsOf(f)
           text == Serialize(f)
<1>1. PICK g : Joins(g, s, Token) /\ text = g[n]
  BY SerializeJoins
<1>2. n \in Nat /\ 1 <= n
  <2>1. f \in Seq(Seq(Character) \X Seq(Character))
    BY FormAssumption
  <2> QED BY <2>1
<1>3. s \in Seq(Seq(Token)) /\ Len(s) = n /\ \A i \in 1..n : s[i] = Field(f, i) /\ s[i] \in Seq(Token)
  BY <1>2, FieldType DEF FieldsOf
<1> DEFINE e == [i \in 0..n |-> IF i = 0 THEN 0 ELSE Len(g[i])]
<1> HIDE DEF s, text, n
<1>4. g \in [1..n -> Seq(Token)] /\ g[1] = s[1] /\ \A i \in 2..n : g[i] = g[i - 1] \o s[i]
  BY <1>1, <1>3 DEF Joins
<1>5. \A i \in 1..n : e[i] = Len(g[i]) /\ Len(g[i]) \in Nat /\ g[i] \in Seq(Token)
  <2>1. \A i \in 1..n : i \in 0..n /\ i # 0
    BY <1>2
  <2>2. \A i \in 1..n : g[i] \in Seq(Token)
    BY <1>4
  <2> QED BY <2>1, <2>2
<1>6. e[0] = 0 /\ e[n] = Len(text) /\ e \in [0..n -> Nat]
  <2>1. 0 \in 0..n /\ n \in 1..n /\ \A i \in 0..n : i = 0 \/ i \in 1..n
    BY <1>2
  <2> QED BY <1>1, <1>5, <2>1
<1>7. ASSUME NEW i \in 1..n
      PROVE  /\ e[i] = e[i - 1] + Len(s[i])
             /\ \A k \in 1..Len(s[i]) : g[i][e[i - 1] + k] = s[i][k]
  <2>1. CASE i = 1
    <3>1. i - 1 = 0 /\ g[i] = s[i] /\ s[i] \in Seq(Token) /\ e[i] = Len(g[i])
      BY <1>3, <1>4, <1>5, <2>1
    <3>2. e[i - 1] = 0
      BY <1>6, <3>1
    <3> HIDE DEF e
    <3>3. Len(s[i]) \in Nat /\ \A k \in 1..Len(s[i]) : 0 + k = k
      BY <3>1
    <3>4. e[i - 1] + Len(s[i]) = Len(s[i])
      BY <3>2, <3>3
    <3>5. \A k \in 1..Len(s[i]) : g[i][e[i - 1] + k] = s[i][k]
      BY <3>1, <3>2, <3>3
    <3> QED BY <3>1, <3>4, <3>5
  <2>2. CASE i # 1
    <3>1. i \in 2..n /\ i - 1 \in 1..n
      BY <1>2, <2>2
    <3>2. e[i - 1] = Len(g[i - 1]) /\ g[i - 1] \in Seq(Token) /\ e[i] = Len(g[i])
      BY <1>5, <3>1
    <3>3. s[i] \in Seq(Token) /\ g[i] = g[i - 1] \o s[i]
      BY <1>3, <1>4, <3>1
    <3> HIDE DEF e
    <3>4. /\ Len(g[i - 1] \o s[i]) = Len(g[i - 1]) + Len(s[i])
          /\ \A k \in 1..Len(s[i]) : (g[i - 1] \o s[i])[Len(g[i - 1]) + k] = s[i][k]
      <4> DEFINE old == g[i - 1]
                 new == s[i]
      <4>1. old \in Seq(Token) /\ new \in Seq(Token)
        BY <3>2, <3>3
      <4> HIDE DEF old, new
      <4>2. /\ Len(old \o new) = Len(old) + Len(new)
            /\ \A k \in 1..Len(new) : (old \o new)[Len(old) + k] = new[k]
        BY <4>1, ConcatFacts
      <4> QED BY <4>2 DEF old, new
    <3> QED BY <3>2, <3>3, <3>4
  <2> QED BY <2>1, <2>2
<1>8. ASSUME NEW i \in 1..n
      PROVE  /\ e[i] <= Len(text)
             /\ \A k \in 1..e[i] : text[k] = g[i][k]
  <2>1. n \in 1..Len(s) /\ i \in 1..n
    BY <1>2, <1>3
  <2>2. Len(g[i]) <= Len(g[n]) /\ \A k \in 1..Len(g[i]) : g[n][k] = g[i][k]
    BY <1>1, <1>3, <2>1, JoinsPrefix
  <2> HIDE DEF e
  <2> QED BY <1>1, <1>5, <2>2
<1> HIDE DEF e
<1>9. ASSUME NEW i \in 1..n
      PROVE  /\ e[i] = e[i - 1] + Sep(i) + Len(Pair(f, i))
             /\ i # 1 => text[e[i - 1] + 1] = "&"
             /\ \A k \in 1..Len(Pair(f, i)) : text[e[i - 1] + Sep(i) + k] = Pair(f, i)[k]
  <2>1. i \in 1..Len(f) /\ Len(Pair(f, i)) \in Nat /\ Len(Pair(f, i)) >= 1
    <3>1. i \in 1..Len(f)
      BY DEF n
    <3>2. Pair(f, i) \in Seq(Token) /\ Len(Pair(f, i)) >= 1
      BY <3>1, PairType
    <3>3. Len(Pair(f, i)) \in Nat
      BY <3>2
    <3> QED BY <3>1, <3>2, <3>3
  <2>2. /\ Len(s[i]) = Sep(i) + Len(Pair(f, i))
        /\ i # 1 => s[i][1] = "&"
        /\ \A k \in 1..Len(Pair(f, i)) : s[i][Sep(i) + k] = Pair(f, i)[k]
    BY <1>3, <2>1, FieldShape
  <2>3. e[i] \in Nat /\ e[i - 1] \in Nat /\ Sep(i) \in Nat /\ (i # 1 => Sep(i) = 1)
    <3>1. i \in 0..n /\ i - 1 \in 0..n
      BY <1>2
    <3> QED BY <1>6, <3>1 DEF Sep
  <2>4. ASSUME NEW k \in 1..Len(s[i]) PROVE text[e[i - 1] + k] = s[i][k]
    <3>1. e[i - 1] + k \in 1..e[i]
      <4>1. e[i] = e[i - 1] + Len(s[i]) /\ Len(s[i]) \in Nat
        BY <1>7, <2>1, <2>2, <2>3
      <4>2. \A a, b \in Nat : \A c \in 1..b : a + c \in 1..(a + b)
        OBVIOUS
      <4> QED BY <2>3, <4>1, <4>2
    <3> QED BY <1>7, <1>8, <3>1
  <2>5. e[i] = e[i - 1] + Sep(i) + Len(Pair(f, i))
    BY <1>7, <2>1, <2>2, <2>3
  <2>6. i # 1 => text[e[i - 1] + 1] = "&"
    <3>1. 1 \in 1..Len(s[i])
      BY <2>1, <2>2, <2>3
    <3> QED BY <2>2, <2>4, <3>1
  <2>7. ASSUME NEW k \in 1..Len(Pair(f, i)) PROVE text[e[i - 1] + Sep(i) + k] = Pair(f, i)[k]
    <3>1. Sep(i) + k \in 1..Len(s[i]) /\ e[i - 1] + (Sep(i) + k) = e[i - 1] + Sep(i) + k
      BY <2>1, <2>2, <2>3
    <3> QED BY <2>2, <2>4, <3>1
  <2> QED BY <2>5, <2>6, <2>7
<1>10. \A i \in 1..n :
         /\ e[i] = e[i - 1] + Sep(i) + Len(Pair(f, i))
         /\ e[i] <= Len(text)
         /\ i # 1 => text[e[i - 1] + 1] = "&"
         /\ \A k \in 1..Len(Pair(f, i)) : text[e[i - 1] + Sep(i) + k] = Pair(f, i)[k]
  BY <1>8, <1>9
<1>11. Layout(e, f, text)
  BY <1>6, <1>10 DEF Layout, n
<1> QED BY <1>11 DEF text

(* Where the i-th pair of f stands.                                        *)
From(e, i) == e[i - 1] + Sep(i) + 1

Place(e, i) == <<From(e, i), e[i]>>

LEMMA LayoutFacts ==
  ASSUME NEW f \in Form, NEW e, input \in Seq(Token), Layout(e, f, input), NEW i \in 1..Len(f)
  PROVE  /\ e[i] \in Nat /\ e[i - 1] \in Nat /\ From(e, i) \in Nat
         /\ 1 <= From(e, i) /\ From(e, i) <= e[i] /\ e[i] <= Len(input)
         /\ e[i] + 1 = From(e, i) + Len(Pair(f, i))
         /\ \A k \in 1..Len(Pair(f, i)) : input[From(e, i) - 1 + k] = Pair(f, i)[k]
         /\ \A k \in From(e, i)..e[i] : input[k] # "&"
         /\ i = 1 => From(e, i) = 1
         /\ i # 1 => From(e, i) = e[i - 1] + 2 /\ input[e[i - 1] + 1] = "&"
<1> DEFINE from == From(e, i)
           before == e[i - 1]
           n == Len(Pair(f, i))
<1>1. Len(f) \in Nat /\ Len(input) \in Nat
  BY FormLen
<1>2. /\ Pair(f, i) \in Seq(Token) /\ Len(Pair(f, i)) >= 1
      /\ \A k \in 1..Len(Pair(f, i)) : Pair(f, i)[k] # "&"
  BY PairType
<1>3. /\ e[i] = e[i - 1] + Sep(i) + Len(Pair(f, i)) /\ e[i] <= Len(input)
      /\ i # 1 => input[e[i - 1] + 1] = "&"
      /\ \A k \in 1..Len(Pair(f, i)) : input[e[i - 1] + Sep(i) + k] = Pair(f, i)[k]
  BY DEF Layout
<1>4. e[i] \in Nat /\ e[i - 1] \in Nat /\ (i = 1 => e[i - 1] = 0)
  <2>1. i \in 0..Len(f) /\ i - 1 \in 0..Len(f) /\ (i = 1 => i - 1 = 0)
    BY <1>1
  <2> QED BY <2>1 DEF Layout
<1>5. /\ Sep(i) \in Nat /\ (i = 1 => Sep(i) = 0) /\ (i # 1 => Sep(i) = 1)
      /\ Len(Pair(f, i)) \in Nat
  BY <1>2 DEF Sep
<1>11. from = before + Sep(i) + 1 /\ e[i] = before + Sep(i) + n
  BY <1>3 DEF From
<1>12. before \in Nat /\ Sep(i) \in Nat /\ n \in Nat /\ 1 <= n
  BY <1>2, <1>4, <1>5
<1> HIDE DEF from, before, n
<1>6. from \in Nat /\ 1 <= from /\ from <= e[i] /\ e[i] + 1 = from + n
  BY <1>11, <1>12
<1>7. (i = 1 => from = 1) /\ (i # 1 => from = before + 2)
  BY <1>4, <1>5, <1>11 DEF before
<1>8. \A k \in 1..n : from - 1 + k = before + Sep(i) + k
  BY <1>11, <1>12
<1> USE DEF before, n
<1>9. \A k \in 1..Len(Pair(f, i)) : input[from - 1 + k] = Pair(f, i)[k]
  BY <1>3, <1>8
<1>10. ASSUME NEW k \in from..e[i] PROVE input[k] # "&"
  <2>1. k + 1 - from \in 1..Len(Pair(f, i)) /\ from - 1 + (k + 1 - from) = k
    BY <1>4, <1>5, <1>6
  <2> QED BY <1>2, <1>9, <2>1
<1> QED BY <1>3, <1>4, <1>5, <1>6, <1>7, <1>9, <1>10 DEF from

(* Every token of the text is of a pair or its "&".                        *)
LEMMA LayoutCovers ==
  ASSUME NEW f \in Form, NEW e, input \in Seq(Token), Layout(e, f, input),
         NEW k \in 1..Len(input)
  PROVE  \E i \in 1..Len(f) : e[i - 1] < k /\ k <= e[i]
<1> DEFINE I == {i \in 1..Len(f) : k <= e[i]}
<1>1. Len(f) \in Nat /\ Len(input) \in Nat /\ k \in Nat /\ 1 <= k /\ k <= Len(input)
  BY FormLen
<1>2. e[0] = 0 /\ e[Len(f)] = Len(input) /\ \A i \in 0..Len(f) : e[i] \in Nat
  BY DEF Layout
<1>3. Len(f) \in I
  <2>1. Len(f) # 0
    BY <1>1, <1>2
  <2> QED BY <1>1, <1>2, <2>1
<1>4. I \subseteq Nat
  BY <1>1
<1>5. PICK i \in I : \A j \in I : i <= j
  <2> HIDE DEF I
  <2> QED BY <1>3, <1>4, Least
<1>6. i \in 1..Len(f) /\ k <= e[i]
  BY <1>5
<1>7. ~(k <= e[i - 1])
  <2>1. CASE i = 1
    <3>1. i - 1 = 0
      BY <2>1
    <3> QED BY <1>1, <1>2, <3>1
  <2>2. CASE i # 1
    <3>1. i - 1 \in 1..Len(f) /\ ~(i <= i - 1)
      BY <1>1, <1>6, <2>2
    <3>2. i - 1 \notin I
      <4> HIDE DEF I
      <4> QED BY <1>5, <3>1
    <3> QED BY <3>1, <3>2
  <2> QED BY <2>1, <2>2
<1>8. e[i - 1] \in Nat
  <2>1. i - 1 \in 0..Len(f)
    BY <1>1, <1>6
  <2> QED BY <1>2, <2>1
<1> QED BY <1>1, <1>6, <1>7, <1>8

(* Each pair is a piece,                                                   *)
LEMMA PlaceIsPiece ==
  ASSUME NEW f \in Form, NEW e, input \in Seq(Token), Layout(e, f, input), NEW i \in 1..Len(f)
  PROVE  /\ Place(e, i) \in Piece
         /\ PieceText(Place(e, i)) = Pair(f, i)
<1> DEFINE from == From(e, i)
           p == Place(e, i)
<1>1. /\ e[i] \in Nat /\ e[i - 1] \in Nat /\ from \in Nat
      /\ 1 <= from /\ from <= e[i] /\ e[i] <= Len(input)
      /\ e[i] + 1 = from + Len(Pair(f, i))
      /\ \A k \in 1..Len(Pair(f, i)) : input[from - 1 + k] = Pair(f, i)[k]
      /\ \A k \in from..e[i] : input[k] # "&"
      /\ i = 1 => from = 1
      /\ i # 1 => from = e[i - 1] + 2 /\ input[e[i - 1] + 1] = "&"
  <2> HIDE DEF p
  <2>1. /\ \A k \in 1..Len(Pair(f, i)) : input[from - 1 + k] = Pair(f, i)[k]
        /\ \A k \in from..e[i] : input[k] # "&"
    BY LayoutFacts
  <2>2. /\ e[i] \in Nat /\ e[i - 1] \in Nat /\ from \in Nat
        /\ 1 <= from /\ from <= e[i] /\ e[i] <= Len(input)
    BY LayoutFacts
  <2>3. e[i] + 1 = from + Len(Pair(f, i))
    BY LayoutFacts
  <2>4. /\ i = 1 => from = 1
        /\ i # 1 => from = e[i - 1] + 2 /\ input[e[i - 1] + 1] = "&"
    BY LayoutFacts
  <2> QED BY <2>1, <2>2, <2>3, <2>4
<1>2. Len(input) \in Nat /\ Len(f) \in Nat
  BY FormLen
<1>3. p[1] = from /\ p[2] = e[i] /\ p = <<from, e[i]>>
  BY DEF Place
<1> HIDE DEF from, p
<1>4. from = 1 \/ input[from - 1] = "&"
  <2>1. i # 1 => from - 1 = e[i - 1] + 1
    <3>1. e[i - 1] \in Nat /\ (i # 1 => from = e[i - 1] + 2)
      BY <1>1
    <3> QED BY <3>1
  <2> QED BY <1>1, <2>1
<1>5. e[i] = Len(input) \/ input[e[i] + 1] = "&"
  <2>1. CASE i = Len(f)
    BY <2>1 DEF Layout
  <2>2. CASE i # Len(f)
    <3>1. i + 1 \in 1..Len(f) /\ i + 1 # 1 /\ (i + 1) - 1 = i
      BY <1>2, <2>2
    <3> QED BY <3>1 DEF Layout
  <2> QED BY <2>1, <2>2
<1>6. p \in (1..Len(input)) \X (1..Len(input))
  <2>1. from \in 1..Len(input) /\ e[i] \in 1..Len(input)
    BY <1>1, <1>2
  <2> QED BY <1>3, <2>1
<1>7. p \in Piece
  BY <1>1, <1>3, <1>4, <1>5, <1>6 DEF Piece
<1>8. PieceText(p) = Pair(f, i)
  <2>1. /\ PieceText(p) \in Seq(Token) /\ Len(PieceText(p)) = p[2] - p[1] + 1
        /\ \A k \in 1..(p[2] - p[1] + 1) : PieceText(p)[k] = input[p[1] - 1 + k]
    BY <1>7, PieceFacts
  <2> DEFINE pair == Pair(f, i)
             text == PieceText(p)
  <2>2. pair \in Seq(Token)
    BY PairType
  <2> HIDE DEF pair, text
  <2>4. Len(pair) \in Nat
    BY <2>2
  <2>3. p[2] - p[1] + 1 = Len(pair)
    <3>1. e[i] + 1 = from + Len(pair) /\ e[i] \in Nat /\ from \in Nat
      BY <1>1 DEF pair
    <3>2. e[i] - from + 1 = Len(pair)
      BY <2>4, <3>1
    <3> QED BY <1>3, <3>2
  <2>5. \A k \in 1..Len(pair) : text[k] = pair[k]
    BY <1>1, <1>3, <2>1, <2>3 DEF pair, text
  <2>6. text \in Seq(Token) /\ Len(text) = Len(pair)
    BY <2>1, <2>3 DEF text
  <2>7. text = pair
    BY <2>2, <2>5, <2>6, SameSeq
  <2> QED BY <2>7 DEF pair, text
<1> QED BY <1>7, <1>8 DEF p

(* and there is no other.                                                  *)
LEMMA PieceIsPlace ==
  ASSUME NEW f \in Form, NEW e, input \in Seq(Token), Layout(e, f, input), NEW p \in Piece
  PROVE  \E i \in 1..Len(f) : p = Place(e, i)
<1>1. /\ p[1] \in Nat /\ p[2] \in Nat /\ 1 <= p[1] /\ p[1] <= p[2] /\ p[2] <= Len(input)
      /\ \A k \in p[1]..p[2] : input[k] # "&"
  BY PieceFacts
<1>2. Len(input) \in Nat
  OBVIOUS
<1>3. p[1] \in 1..Len(input) /\ p[1] \in p[1]..p[2]
  BY <1>1, <1>2
<1>4. PICK i \in 1..Len(f) : e[i - 1] < p[1] /\ p[1] <= e[i]
  BY <1>3, LayoutCovers
<1> DEFINE from == From(e, i)
           q == Place(e, i)
<1>5. /\ e[i] \in Nat /\ e[i - 1] \in Nat /\ from \in Nat
      /\ i = 1 => from = 1
      /\ i # 1 => from = e[i - 1] + 2 /\ input[e[i - 1] + 1] = "&"
  <2>1. e[i] \in Nat /\ e[i - 1] \in Nat /\ from \in Nat
    BY LayoutFacts
  <2>2. /\ i = 1 => from = 1
        /\ i # 1 => from = e[i - 1] + 2 /\ input[e[i - 1] + 1] = "&"
    BY LayoutFacts
  <2> QED BY <2>1, <2>2
<1>6. q \in Piece /\ q[1] = from /\ q[2] = e[i]
  BY PlaceIsPiece DEF Place
<1> HIDE DEF from, q
<1>7. p[1] # e[i - 1] + 1 \/ i = 1
  BY <1>1, <1>3, <1>5
<1>8. from <= p[1]
  BY <1>1, <1>4, <1>5, <1>7
<1>9. q[1] <= p[2] /\ p[1] <= q[2]
  BY <1>1, <1>4, <1>5, <1>6, <1>8
<1>10. p = q
  BY <1>6, <1>9, PiecesApart
<1> QED BY <1>10 DEF q

LEMMA PlaceNames ==
  ASSUME NEW f \in Form, NEW e, input \in Seq(Token), Layout(e, f, input), NEW i \in 1..Len(f)
  PROVE  /\ Name(Place(e, i)) = f[i][1] /\ Value(Place(e, i)) = f[i][2]
         /\ Sign(PieceText(Place(e, i)), "=") # 0
         /\ EqualsAt(Place(e, i)) = Place(e, i)[2] <=> f[i][2] = <<>>
<1>1. PieceText(Place(e, i)) = Pair(f, i) /\ Place(e, i) \in Piece
  BY PlaceIsPiece
<1>2. /\ Sign(Pair(f, i), "=") \in 1..Len(Pair(f, i))
      /\ Decode(Upto(Pair(f, i), Sign(Pair(f, i), "="))) = f[i][1]
      /\ Decode(Past(Pair(f, i), Sign(Pair(f, i), "="))) = f[i][2]
      /\ Sign(Pair(f, i), "=") = Len(Pair(f, i)) <=> f[i][2] = <<>>
      /\ Len(Pair(f, i)) >= 1 /\ Pair(f, i) \in Seq(Token)
  BY PairType
<1>3. Name(Place(e, i)) = f[i][1] /\ Value(Place(e, i)) = f[i][2]
  BY <1>1, <1>2 DEF Name, Value
<1> DEFINE at == Sign(Pair(f, i), "=")
           p == Place(e, i)
<1>4. EqualsAt(p) = p[1] - 1 + at
  BY <1>1 DEF EqualsAt
<1>5. /\ p[1] \in Nat /\ p[2] \in Nat /\ Len(Pair(f, i)) = p[2] - p[1] + 1
  BY <1>1, PieceFacts
<1> HIDE DEF at, p
<1>6. at \in Nat /\ at # 0
  <2>1. Len(Pair(f, i)) \in Nat
    BY <1>2
  <2> QED BY <1>2, <2>1 DEF at
<1>7. EqualsAt(p) = p[2] <=> at = Len(Pair(f, i))
  <2> DEFINE a == p[1]
             b == p[2]
  <2>1. a \in Nat /\ b \in Nat
    BY <1>5
  <2> HIDE DEF a, b
  <2>3. a - 1 + at = b <=> at = b - a + 1
    BY <1>6, <2>1
  <2>2. p[1] - 1 + at = p[2] <=> at = p[2] - p[1] + 1
    BY <2>3 DEF a, b
  <2> QED BY <1>4, <1>5, <2>2
<1> QED BY <1>1, <1>2, <1>3, <1>6, <1>7 DEF at, p

(* What a browser sends for a form has no empty piece and none without its *)
(* "=".                                                                    *)
LEMMA LayoutSeparated ==
  ASSUME NEW f \in Form, NEW e, input \in Seq(Token), Layout(e, f, input)
  PROVE  Separated
<1>1. \A p \in Piece : Sign(PieceText(p), "=") # 0
  BY PieceIsPlace, PlaceNames
<1>2. ASSUME NEW k \in DOMAIN input, input[k] = "&"
      PROVE  k > 1 /\ k < Len(input) /\ input[k - 1] # "&"
  <2>1. k \in 1..Len(input) /\ Len(input) \in Nat /\ Len(f) \in Nat
    BY FormLen
  <2>2. PICK i \in 1..Len(f) : e[i - 1] < k /\ k <= e[i]
    BY <2>1, LayoutCovers
  <2> DEFINE from == From(e, i)
  <2>3. /\ e[i] \in Nat /\ e[i - 1] \in Nat /\ from \in Nat
        /\ from <= e[i] /\ e[i] <= Len(input)
        /\ \A j \in from..e[i] : input[j] # "&"
        /\ i = 1 => from = 1
        /\ i # 1 => from = e[i - 1] + 2
    BY LayoutFacts
  <2> HIDE DEF from
  <2>4. ~(from <= k)
    BY <1>2, <2>1, <2>2, <2>3
  <2>5. i # 1 /\ k = e[i - 1] + 1 /\ k < Len(input)
    BY <2>1, <2>2, <2>3, <2>4
  <2>6. i - 1 \in 1..Len(f)
    BY <2>1, <2>5
  <2> DEFINE before == From(e, i - 1)
  <2>7. /\ before \in Nat /\ 1 <= before /\ before <= e[i - 1]
        /\ \A j \in before..e[i - 1] : input[j] # "&"
    BY <2>6, LayoutFacts
  <2> HIDE DEF before
  <2>8. k - 1 = e[i - 1] /\ e[i - 1] \in before..e[i - 1] /\ k > 1
    <3>1. \A a, b \in Nat : 1 <= b /\ b <= a => (a + 1) - 1 = a /\ a \in b..a /\ a + 1 > 1
      OBVIOUS
    <3> QED BY <2>3, <2>5, <2>7, <3>1
  <2> QED BY <2>5, <2>7, <2>8
<1> QED BY <1>1, <1>2 DEF Separated

-----------------------------------------------------------------------------
(* The pieces of what is sent for f are its pairs.                         *)
Pairs(q, f) ==
  /\ \A i \in 1..Len(f) :
       q[i] \in Piece /\ Name(q[i]) = f[i][1] /\ Value(q[i]) = f[i][2]
  /\ \A p \in Piece : \E i \in 1..Len(f) : p = q[i]
  /\ f # <<>> => /\ Len(f) \in 1..Len(f)
                 /\ q[Len(f)][2] = Len(input)
                 /\ EqualsAt(q[Len(f)]) = q[Len(f)][2] <=> f[Len(f)][2] = <<>>

LEMMA FormPieces ==
  ASSUME NEW f \in Form, input = Serialize(f)
  PROVE  Separated /\ \E q : Pairs(q, f)
<1>1. input \in Seq(Token) /\ f \in Seq(Seq(Character) \X Seq(Character))
  BY SerializeType, FormAssumption
<1>2. CASE f = <<>>
  <2>1. input = <<>> /\ Len(f) = 0
    BY <1>2, SerializeEmpty
  <2>2. 1..0 = {} /\ DOMAIN input = {} /\ Len(input) = 0
    BY <2>1
  <2>3. Piece = {}
    BY <2>2 DEF Piece
  <2> QED BY <1>2, <2>1, <2>2, <2>3 DEF Separated, Pairs
<1>3. CASE f # <<>>
  <2>1. PICK e : Layout(e, f, input)
    BY <1>3, SerializeLayout
  <2>2. Separated
    BY <1>1, <2>1, LayoutSeparated
  <2> DEFINE q == [i \in 1..Len(f) |-> Place(e, i)]
  <2>3. \A i \in 1..Len(f) : q[i] = Place(e, i)
    OBVIOUS
  <2> HIDE DEF q
  <2>4. Len(f) \in 1..Len(f)
    BY <1>1, <1>3
  <2>5. \A i \in 1..Len(f) :
          q[i] \in Piece /\ Name(q[i]) = f[i][1] /\ Value(q[i]) = f[i][2]
    BY <1>1, <2>1, <2>3, PlaceIsPiece, PlaceNames
  <2>6. ASSUME NEW p \in Piece PROVE \E i \in 1..Len(f) : p = q[i]
    <3>1. PICK i \in 1..Len(f) : p = Place(e, i)
      BY <1>1, <2>1, PieceIsPlace
    <3> QED BY <2>3, <3>1
  <2>7. EqualsAt(q[Len(f)]) = q[Len(f)][2] <=> f[Len(f)][2] = <<>>
    <3> DEFINE n == Len(f)
    <3> HIDE DEF n
    <3>1. n \in 1..Len(f) /\ q[n] = Place(e, n)
      BY <2>3, <2>4 DEF n
    <3>2. EqualsAt(Place(e, n)) = Place(e, n)[2] <=> f[n][2] = <<>>
      BY <1>1, <2>1, <3>1, PlaceNames
    <3> QED BY <3>1, <3>2 DEF n
  <2>8. q[Len(f)][2] = Len(input)
    BY <2>1, <2>3, <2>4 DEF Place, Layout
  <2> QED BY <2>2, <2>4, <2>5, <2>6, <2>7, <2>8 DEF Pairs
<1> QED BY <1>2, <1>3

(* A name is given once.                                                   *)
LEMMA NamesOnce ==
  ASSUME NEW f \in Form, NEW q, Pairs(q, f)
  PROVE  ~Twice
<1>1. ASSUME NEW p \in Piece, NEW r \in Piece, Name(p) = Name(r) PROVE p = r
  <2>1. PICK i \in 1..Len(f), j \in 1..Len(f) : p = q[i] /\ r = q[j]
    BY DEF Pairs
  <2>2. f[i][1] = f[j][1]
    BY <1>1, <2>1 DEF Pairs
  <2>3. i = j
    BY <2>2, FormLen, FormAssumption
  <2> QED BY <2>1, <2>3
<1> QED BY <1>1 DEF Twice

(* The parser does not get past a last piece that ends with its "=", and   *)
(* stops for no other reason.                                              *)
LastValue ==
  /\ result \in {"nextKey", "ok", "missing"} =>
       \A p \in Piece : Passed(p) /\ p[2] = Len(input) => EqualsAt(p) # p[2]
  /\ result = "CantParseValue" =>
       \E p \in Piece : p[2] = Len(input) /\ EqualsAt(p) = p[2]

LEMMA LastValueInit == ASSUME Init PROVE LastValue
<1>1. input \in Seq(Token) /\ Read = 0 /\ result = "nextKey"
  BY ParserInit DEF Init, Read, Cut
<1>2. \A p \in Piece : p[2] \in Nat /\ p[1] \in Nat /\ 1 <= p[1] /\ p[1] <= p[2]
  BY <1>1, PieceFacts
<1>3. \A p \in Piece : ~(p[2] <= 0)
  BY <1>2
<1> QED BY <1>1, <1>3 DEF LastValue, Passed

LEMMA LastValueNext ==
  ASSUME Cut, Stands, Separated, Parsed, LastValue, [Next]_vars
  PROVE  LastValue'
<1>1. input' = input /\ input \in Seq(Token) /\ Len(input) \in Nat
  BY InputFixed DEF Cut
<1>2. Piece' = Piece /\ \A p : EqualsAt(p)' = EqualsAt(p)
  BY <1>1, Fixed
<1>3. CASE NextKey
  <2>1. result' \in {"duplicate", "nextValue"}
    BY <1>3 DEF NextKey
  <2> QED BY <2>1 DEF LastValue
<1>4. CASE NextValue
  <2>1. result = "nextValue" /\ result' = "nextKey"
    BY <1>4 DEF NextValue
  <2>2. PICK p \in Piece : EqualsAt(p) = Read
    BY <2>1 DEF Parsed, Inside
  <2>3. \/ Read' = Len(input) /\ p[2] = Len(input) /\ Read < p[2]
        \/ Read' = p[2] + 1 /\ input[Read'] = "&" /\ Read' \in 1..Len(input)
    BY <1>4, <2>2, ValueText
  <2>4. ASSUME NEW q \in Piece, Passed(q)', q[2] = Len(input) PROVE EqualsAt(q) # q[2]
    <3>1. Read \in Nat /\ Read <= Len(input) /\ p[2] \in Nat
      BY PieceFacts, <1>1 DEF Read, Cut
    <3>2. CASE Passed(q)
      <4>1. q[2] < Read
        BY <2>1, <3>2 DEF Passed
      <4> QED BY <1>1, <2>4, <3>1, <4>1
    <3>3. CASE q = p
      <4>1. Read < p[2]
        BY <1>1, <2>3, <2>4, <3>1, <3>3
      <4> QED BY <2>2, <3>1, <3>3, <4>1
    <3>4. Passed(q) \/ q = p
      BY <2>1, <2>2, <2>3, <2>4, PassedValue
    <3> QED BY <3>2, <3>3, <3>4
  <2> QED BY <1>1, <1>2, <2>1, <2>4 DEF LastValue
<1>5. CASE CantParseValue
  <2>1. result = "nextValue" /\ result' = "CantParseValue" /\ Read = Len(input)
    BY <1>5 DEF CantParseValue, Read, Cut
  <2>2. PICK p \in Piece : EqualsAt(p) = Read
    BY <2>1 DEF Parsed, Inside
  <2>3. p[2] \in Nat /\ p[1] \in Nat /\ p[2] <= Len(input) /\ EqualsAt(p) \in p[1]..p[2]
    BY <1>1, PieceFacts, EqualsFacts
  <2>4. p[2] = Len(input) /\ EqualsAt(p) = p[2]
    BY <1>1, <2>1, <2>2, <2>3
  <2> QED BY <1>1, <1>2, <2>1, <2>4 DEF LastValue
<1>6. CASE EndOfText \/ CantParseKey \/ UNCHANGED vars
  <2>1. str' = str /\ Read' = Read
    BY <1>1, <1>6 DEF EndOfText, CantParseKey, vars, Read
  <2>2. CASE UNCHANGED vars
    <3>1. result' = result /\ \A p \in Piece : Passed(p)' <=> Passed(p)
      BY <2>1, <2>2 DEF vars, Passed
    <3> QED BY <1>1, <1>2, <3>1 DEF LastValue
  <2>3. CASE EndOfText
    <3>1. result = "nextKey" /\ result' \in {"ok", "missing"}
      BY <2>3 DEF EndOfText
    <3>2. \A p \in Piece : Passed(p)' <=> Passed(p)
      BY <2>1, <3>1 DEF Passed
    <3> QED BY <1>1, <1>2, <3>1, <3>2 DEF LastValue
  <2>4. CASE CantParseKey
    BY <2>4 DEF CantParseKey, LastValue
  <2> QED BY <1>6, <2>2, <2>3, <2>4
<1> QED BY <1>3, <1>4, <1>5, <1>6 DEF Next

Sent == form # NoForm => form \in Form /\ input = Serialize(form)

RoundInv == ParserInv /\ Sent /\ (Separated => LastValue)

LEMMA RoundCorrect == Spec => []RoundInv
<1>1. Init => Sent /\ (Separated => LastValue)
  BY LastValueInit DEF Init, Sent
<1>2. ASSUME ParserInv, Sent, Separated => LastValue, [Next]_vars
      PROVE  Sent' /\ (Separated => LastValue)'
  <2>1. input' = input /\ Separated' = Separated
    BY <1>2, InputFixed, Fixed
  <2>2. form' = form
    BY <1>2 DEF Next, vars, EndOfText, CantParseKey, NextKey, CantParseValue, NextValue
  <2>3. Separated => LastValue'
    BY <1>2, LastValueNext DEF ParserInv
  <2> QED BY <1>2, <2>1, <2>2, <2>3 DEF Sent
<1> QED BY <1>1, <1>2, ParserCorrect, PTL DEF Spec, RoundInv

(* What a user types into a form of any number of fields is what the       *)
(* struct holds, signs and spaces included; it lacks a field exactly when  *)
(* the form lacks one it needs, and only a last field left empty makes the *)
(* parser fail.                                                            *)
THEOREM RoundTripCorrect == Spec => []RoundTrip
<1>1. ASSUME RoundInv PROVE RoundTrip
  <2> SUFFICES ASSUME Done, form # NoForm
               PROVE  IF form # <<>> /\ Last(form)[2] = <<>>
                      THEN result = "CantParseValue"
                      ELSE /\ result = "ok" <=>
                                target.required \subseteq {form[i][1] : i \in DOMAIN form}
                           /\ \A i \in DOMAIN form :
                                form[i][1] \in target.fields => fields[form[i][1]] = form[i][2]
    BY DEF RoundTrip
  <2>1. /\ form \in Form /\ input = Serialize(form)
        /\ input \in Seq(Token) /\ target \in Target /\ result \in Result
    BY <1>1 DEF RoundInv, Sent, ParserInv, Cut, Struct
  <2>2. DOMAIN form = 1..Len(form)
    BY <2>1, FormLen
  <2>3. PICK q : Pairs(q, form)
    BY <2>1, FormPieces
  <2>4. Separated /\ Parsed /\ LastValue
    BY <1>1, <2>1, FormPieces DEF RoundInv, ParserInv
  <2>5. result \in {"ok", "missing", "CantParseValue"}
    <3>1. ~Twice
      BY <2>1, <2>3, NamesOnce
    <3> QED BY <2>1, <2>4, <3>1 DEF Parsed, Done, Result
  <2>6. ASSUME result # "CantParseValue" PROVE Filled /\ \A p \in Piece : Passed(p)
    <3>1. Filled /\ Read = Len(input) /\ result # "nextValue"
      BY <2>4, <2>5, <2>6 DEF Parsed
    <3>2. \A p \in Piece : p[2] <= Len(input)
      BY <2>1, PieceFacts
    <3> QED BY <3>1, <3>2 DEF Passed
  <2>7. result = "CantParseValue" <=> form # <<>> /\ Last(form)[2] = <<>>
    <3>1. ASSUME result = "CantParseValue" PROVE form # <<>> /\ Last(form)[2] = <<>>
      <4>1. PICK p \in Piece : p[2] = Len(input) /\ EqualsAt(p) = p[2]
        BY <2>4, <3>1 DEF LastValue
      <4>2. PICK i \in 1..Len(form) : p = q[i]
        BY <2>3 DEF Pairs
      <4>3. form # <<>>
        BY <4>2
      <4>4. q[Len(form)] \in Piece /\ q[Len(form)][2] = Len(input)
        BY <2>3, <4>3 DEF Pairs
      <4>5. p = q[Len(form)]
        <5>1. /\ p[1] <= q[Len(form)][2] /\ q[Len(form)][1] <= p[2]
          <6>1. p[1] <= p[2] /\ q[Len(form)][1] <= q[Len(form)][2]
            BY <2>1, <4>4, PieceFacts
          <6> QED BY <4>1, <4>4, <6>1
        <5> QED BY <2>1, <4>4, <5>1, PiecesApart
      <4> QED BY <2>3, <4>1, <4>3, <4>5 DEF Pairs, Last
    <3>2. ASSUME form # <<>>, Last(form)[2] = <<>>, result # "CantParseValue" PROVE FALSE
      <4>1. /\ q[Len(form)] \in Piece /\ q[Len(form)][2] = Len(input)
            /\ EqualsAt(q[Len(form)]) = q[Len(form)][2]
        BY <2>3, <3>2 DEF Pairs, Last
      <4> QED BY <2>4, <2>5, <2>6, <3>2, <4>1 DEF LastValue
    <3> QED BY <3>1, <3>2
  <2>8. ASSUME result # "CantParseValue", NEW i \in 1..Len(form), form[i][1] \in target.fields
        PROVE  fields[form[i][1]] = form[i][2] /\ fields[form[i][1]] # None
    <3>1. q[i] \in Piece /\ Name(q[i]) = form[i][1] /\ Value(q[i]) = form[i][2]
      BY <2>3 DEF Pairs
    <3>2. fields[form[i][1]] = Value(q[i])
      BY <2>6, <2>8, <3>1 DEF Filled
    <3> QED BY <2>1, <2>4, <3>1, <3>2, ValueGiven
  <2>9. ASSUME result # "CantParseValue"
        PROVE  result = "ok" <=> target.required \subseteq {form[i][1] : i \in 1..Len(form)}
    <3>1. target.required \subseteq target.fields
      BY <2>1, FormAssumption
    <3>2. ASSUME result = "ok", NEW f \in target.required
          PROVE  \E i \in 1..Len(form) : f = form[i][1]
      <4>1. f \in target.fields /\ fields[f] # None
        BY <2>4, <3>1, <3>2 DEF Parsed
      <4>2. PICK p \in Piece : Name(p) = f
        BY <2>6, <2>9, <4>1 DEF Filled
      <4> QED BY <2>3, <4>2 DEF Pairs
    <3>3. ASSUME result # "ok"
          PROVE  \E f \in target.required : \A i \in 1..Len(form) : f # form[i][1]
      <4>1. PICK f \in target.required : fields[f] = None
        BY <2>4, <2>5, <2>9, <3>3 DEF Parsed
      <4> QED BY <2>8, <2>9, <3>1, <4>1
    <3> QED BY <3>2, <3>3
  <2> QED BY <2>2, <2>7, <2>8, <2>9
<1> QED BY <1>1, RoundCorrect, PTL
=============================================================================
