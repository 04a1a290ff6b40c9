---------------------------- MODULE WindowProofs ----------------------------
(* Proofs about the parts of a window, each for any values of its own      *)
(* constants: an instance of its module, under the letters that MCClient   *)
(* gives them.  A part that keeps state has a section: what is taken for   *)
(* granted of its constants, its inductive invariant, how each action      *)
(* keeps it, and the theorems.                                             *)
EXTENDS Integers, Sequences, SequencesExt, FiniteSetsExt, FiniteSetTheorems,
        SequenceTheorems, TLAPS

-----------------------------------------------------------------------------
(* Sequences: what is left without an item, with one more, holds nothing   *)
(* new but that one.                                                       *)

LEMMA WithoutItem ==
    ASSUME NEW S, NEW s \in Seq(S), NEW i \in DOMAIN s
    PROVE  LET rest == SubSeq(s, 1, i - 1) \o SubSeq(s, i + 1, Len(s))
           IN  /\ rest \in Seq(S) /\ Len(rest) = Len(s) - 1
               /\ \A j \in 1..Len(rest) :
                     /\ j < i => rest[j] = s[j]
                     /\ j >= i => rest[j] = s[j + 1]
<1>1. i \in 1..Len(s)
  OBVIOUS
<1> DEFINE a == SubSeq(s, 1, i - 1)
           b == SubSeq(s, i + 1, Len(s))
<1>2. /\ a \in Seq(S) /\ Len(a) = i - 1
      /\ \A j \in 1..(i - 1) : a[j] = s[j]
  BY <1>1
<1>3. /\ b \in Seq(S) /\ Len(b) = Len(s) - i
      /\ \A j \in 1..(Len(s) - i) : b[j] = s[i + j]
  BY <1>1
<1> HIDE DEF a, b
<1>4. a \o b \in Seq(S) /\ Len(a \o b) = Len(s) - 1
  BY <1>1, <1>2, <1>3
<1>5. ASSUME NEW j \in 1..(Len(s) - 1)
      PROVE  /\ j < i => (a \o b)[j] = s[j]
             /\ j >= i => (a \o b)[j] = s[j + 1]
  <2>1. CASE j < i
    <3>1. (a \o b)[j] = a[j]
      BY <1>1, <1>2, <1>3, <2>1
    <3> QED
      BY <1>1, <1>2, <2>1, <3>1
  <2>2. CASE j >= i
    <3>1. (a \o b)[j] = b[j - (i - 1)]
      BY <1>1, <1>2, <1>3, <2>2
    <3>2. j - (i - 1) \in 1..(Len(s) - i) /\ i + (j - (i - 1)) = j + 1
      BY <1>1, <2>2
    <3> QED
      BY <1>3, <2>2, <3>1, <3>2
  <2>3. j < i \/ j >= i
    BY <1>1
  <2> QED
    BY <2>1, <2>2, <2>3
<1> QED
  BY <1>4, <1>5 DEF a, b

LEMMA Appended ==
    ASSUME NEW S, NEW s \in Seq(S), NEW x \in S
    PROVE  /\ Append(s, x) \in Seq(S) /\ Len(Append(s, x)) = Len(s) + 1
           /\ \A j \in 1..Len(s) : Append(s, x)[j] = s[j]
           /\ Append(s, x)[Len(s) + 1] = x
  OBVIOUS

LEMMA Single == ASSUME NEW S, NEW x \in S PROVE <<x>> \in Seq(S)
  OBVIOUS

LEMMA OnlyItem ==
    ASSUME NEW S, NEW x \in S, NEW i \in DOMAIN <<x>>
    PROVE  i = 1 /\ SubSeq(<<x>>, 1, i - 1) \o SubSeq(<<x>>, i + 1, Len(<<x>>)) = <<>>
<1>1. <<x>> \in Seq(S) /\ Len(<<x>>) = 1 /\ i = 1
  OBVIOUS
<1>2. SubSeq(<<x>>, 1, 0) = <<>> /\ SubSeq(<<x>>, 2, 1) = <<>>
  BY <1>1
<1> QED
  BY <1>1, <1>2

\* With an item put in, and without the first that is it.
LEMMA WithItem ==
    ASSUME NEW S, NEW s \in Seq(S), NEW x \in S, NEW i \in 1..(Len(s) + 1)
    PROVE  /\ InsertAt(s, i, x) \in Seq(S) /\ Len(InsertAt(s, i, x)) = Len(s) + 1
           /\ InsertAt(s, i, x)[i] = x
           /\ \A j \in 1..Len(s) : /\ j < i => InsertAt(s, i, x)[j] = s[j]
                                   /\ j >= i => InsertAt(s, i, x)[j + 1] = s[j]
<1> DEFINE a == SubSeq(s, 1, i - 1)
           m == <<x>>
           b == SubSeq(s, i, Len(s))
<1>1. /\ a \in Seq(S) /\ Len(a) = i - 1
      /\ \A j \in 1..(i - 1) : a[j] = s[j]
  OBVIOUS
<1>2. /\ b \in Seq(S) /\ Len(b) = Len(s) + 1 - i
      /\ \A j \in 1..(Len(s) + 1 - i) : b[j] = s[i + j - 1]
  OBVIOUS
<1>3. m \in Seq(S) /\ Len(m) = 1 /\ m[1] = x
  OBVIOUS
<1> HIDE DEF a, m, b
<1>4. /\ a \o m \in Seq(S) /\ Len(a \o m) = i /\ (a \o m)[i] = x
      /\ \A j \in 1..(i - 1) : (a \o m)[j] = s[j]
  <2>1. /\ a \o m \in Seq(S) /\ Len(a \o m) = Len(a) + Len(m)
        /\ \A j \in 1..Len(a) + Len(m) :
              (a \o m)[j] = IF j <= Len(a) THEN a[j] ELSE m[j - Len(a)]
    BY <1>1, <1>3, ConcatProperties
  <2> QED
    BY <1>1, <1>3, <2>1
<1> DEFINE c == a \o m
<1> HIDE DEF c
<1>5. c \in Seq(S) /\ Len(c) = i /\ c[i] = x /\ \A j \in 1..(i - 1) : c[j] = s[j]
  BY <1>4 DEF c
<1>6. c \o b \in Seq(S) /\ Len(c \o b) = Len(s) + 1
  <2>1. c \o b \in Seq(S) /\ Len(c \o b) = Len(c) + Len(b)
    BY <1>2, <1>5, ConcatProperties
  <2> QED
    BY <1>2, <1>5, <2>1
<1>7. (c \o b)[i] = x
  BY <1>2, <1>5
<1>8. ASSUME NEW j \in 1..Len(s)
      PROVE  /\ j < i => (c \o b)[j] = s[j]
             /\ j >= i => (c \o b)[j + 1] = s[j]
  <2>1. CASE j < i
    BY <1>2, <1>5, <2>1
  <2>2. CASE j >= i
    <3>1. (c \o b)[j + 1] = b[j + 1 - i]
      BY <1>2, <1>5, <2>2
    <3>2. j + 1 - i \in 1..(Len(s) + 1 - i) /\ i + (j + 1 - i) - 1 = j
      BY <2>2
    <3> QED
      BY <1>2, <2>2, <3>1, <3>2
  <2> QED
    BY <2>1, <2>2
<1>9. InsertAt(s, i, x) = c \o b
  BY DEF InsertAt, a, m, b, c
<1> QED
  BY <1>6, <1>7, <1>8, <1>9

\* A set of numbers that is not empty has its least.
LEMMA Least == ASSUME NEW S, S \subseteq Nat, S # {} PROVE Min(S) \in S /\ \A n \in S : Min(S) <= n
<1>1. PICK least \in S : \A n \in Nat : <<n, least>> \in OpToRel(<, Nat) => n \notin S
  BY WFMin, NatLessThanWellFounded, Zenon
<1>2. ASSUME NEW n \in S PROVE least <= n
  <2>1. n \in Nat /\ least \in Nat
    OBVIOUS
  <2>2. <<n, least>> \in Nat \X Nat /\ <<n, least>>[1] = n /\ <<n, least>>[2] = least
    BY <2>1
  <2>3. ~(n < least)
    BY <1>1, <2>1, <2>2, Zenon DEF OpToRel
  <2> QED
    BY <2>1, <2>3
<1> QED
  BY <1>2 DEF Min

Once(s) == \A i, j \in 1..Len(s) : s[i] = s[j] => i = j
Among(s, x) == \E i \in 1..Len(s) : s[i] = x

LEMMA Inserted ==
    ASSUME NEW S, NEW s \in Seq(S), NEW x \in S, NEW i \in 1..(Len(s) + 1),
           Once(s), ~Among(s, x)
    PROVE  /\ InsertAt(s, i, x) \in Seq(S) /\ Once(InsertAt(s, i, x))
           /\ \A y : Among(InsertAt(s, i, x), y) <=> Among(s, y) \/ y = x
<1> DEFINE t == InsertAt(s, i, x)
<1>1. /\ t \in Seq(S) /\ Len(t) = Len(s) + 1 /\ t[i] = x /\ Len(s) \in Nat
      /\ \A j \in 1..Len(s) : /\ j < i => t[j] = s[j]
                              /\ j >= i => t[j + 1] = s[j]
  BY WithItem
<1> HIDE DEF t
<1>2. ASSUME NEW j \in 1..Len(t)
      PROVE  \/ j = i
             \/ \E k \in 1..Len(s) : t[j] = s[k] /\ j = (IF k < i THEN k ELSE k + 1)
  <2>1. CASE j < i
    BY <1>1, <2>1
  <2>2. CASE j > i
    <3> DEFINE k == j - 1
    <3>1. k \in 1..Len(s) /\ k >= i /\ k + 1 = j
      BY <1>1, <2>2
    <3> HIDE DEF k
    <3>2. t[j] = s[k] /\ ~(k < i)
      BY <1>1, <3>1
    <3> QED
      BY <3>1, <3>2
  <2> QED
    BY <1>1, <2>1, <2>2
<1>3. Once(t)
  <2> SUFFICES ASSUME NEW j \in 1..Len(t), NEW k \in 1..Len(t), t[j] = t[k] PROVE j = k
    BY DEF Once
  <2>1. CASE j = i
    BY <1>1, <1>2, <2>1 DEF Among
  <2>2. CASE k = i
    BY <1>1, <1>2, <2>2 DEF Among
  <2>3. CASE j # i /\ k # i
    BY <1>2, <2>3 DEF Once
  <2> QED
    BY <2>1, <2>2, <2>3
<1>4. ASSUME NEW y PROVE Among(t, y) <=> Among(s, y) \/ y = x
  <2>1. ASSUME Among(t, y) PROVE Among(s, y) \/ y = x
    BY <1>1, <1>2, <2>1 DEF Among
  <2>2. ASSUME Among(s, y) PROVE Among(t, y)
    <3>1. PICK k \in 1..Len(s) : s[k] = y
      BY <2>2 DEF Among
    <3>2. k \in 1..Len(t) /\ k + 1 \in 1..Len(t) /\ (k < i \/ k >= i)
      BY <1>1
    <3> QED
      BY <1>1, <3>1, <3>2 DEF Among
  <2>3. ASSUME y = x PROVE Among(t, y)
    BY <1>1, <2>3 DEF Among
  <2> QED
    BY <2>1, <2>2, <2>3
<1> QED
  BY <1>1, <1>3, <1>4 DEF t

LEMMA Withdrawn ==
    ASSUME NEW S, NEW s \in Seq(S), NEW x, Once(s)
    PROVE  /\ RemoveFirst(s, x) \in Seq(S) /\ Once(RemoveFirst(s, x))
           /\ \A y : Among(RemoveFirst(s, x), y) <=> Among(s, y) /\ y # x
<1> DEFINE t == RemoveFirst(s, x)
<1>1. CASE ~Among(s, x)
  <2>1. t = s
    BY <1>1 DEF RemoveFirst, Among
  <2> QED
    BY <1>1, <2>1
<1>2. CASE Among(s, x)
  <2> DEFINE at == {i \in 1..Len(s) : s[i] = x}
  <2>1. at # {} /\ at \subseteq Nat
    BY <1>2 DEF Among
  <2>2. Min(at) \in at
    BY <2>1, Least
  <2>3. PICK i \in 1..Len(s) : i = Min(at) /\ s[i] = x
    BY <2>2
  <2>4. t = RemoveAt(s, i)
    BY <1>2, <2>1, <2>3 DEF RemoveFirst, SelectInSeq, Among
  <2>5. t = SubSeq(s, 1, i - 1) \o SubSeq(s, i + 1, Len(s))
    BY <2>4 DEF RemoveAt
  <2> HIDE DEF t
  <2>6. /\ t \in Seq(S) /\ Len(t) = Len(s) - 1 /\ Len(s) \in Nat /\ i \in DOMAIN s
        /\ \A j \in 1..Len(t) : /\ j < i => t[j] = s[j]
                                /\ j >= i => t[j] = s[j + 1]
    <3>1. i \in DOMAIN s /\ Len(s) \in Nat
      OBVIOUS
    <3> QED
      BY <2>5, <3>1, WithoutItem
  <2>7. ASSUME NEW j \in 1..Len(t)
        PROVE  \E k \in 1..Len(s) : k # i /\ t[j] = s[k] /\ k = (IF j < i THEN j ELSE j + 1)
    BY <2>6
  <2>8. Once(t)
    BY <2>6, <2>7 DEF Once
  <2>9. ASSUME NEW y PROVE Among(t, y) <=> Among(s, y) /\ y # x
    <3>1. ASSUME Among(t, y) PROVE Among(s, y) /\ y # x
      BY <2>3, <2>6, <2>7, <3>1 DEF Among, Once
    <3>2. ASSUME Among(s, y), y # x PROVE Among(t, y)
      <4>1. PICK k \in 1..Len(s) : s[k] = y
        BY <3>2 DEF Among
      <4>2. k < i \/ k > i
        BY <2>3, <3>2, <4>1
      <4>3. CASE k < i
        BY <2>6, <4>1, <4>3 DEF Among
      <4>4. CASE k > i
        <5>1. k - 1 \in 1..Len(t) /\ k - 1 >= i /\ (k - 1) + 1 = k
          BY <2>6, <4>4
        <5> QED
          BY <2>6, <4>1, <5>1 DEF Among
      <4> QED
        BY <4>2, <4>3, <4>4
    <3> QED
      BY <3>1, <3>2
  <2> QED
    BY <2>6, <2>8, <2>9 DEF t
<1> QED
  BY <1>1, <1>2
-----------------------------------------------------------------------------
(* A password field. *)

CONSTANTS Values, MaxWrites, MaxAnswers
VARIABLES template, enabled, field, shown, opening, securing, converting, writes, crossed

I == INSTANCE SecretInput

\* What can be typed is text, and no text is one of them.
TextsAreTexts == "" \in Values /\ I!Null \notin Values

FieldTypes == {"text", "encrypted"}
FieldState == [type : FieldTypes, value : Values \cup {I!Null}, obscured : BOOLEAN, error : BOOLEAN]
Conversion == [value : Values, type : FieldTypes]

FieldTyped ==
    /\ template \in I!Templates /\ enabled \in BOOLEAN /\ shown \in Values
    /\ field \in FieldState
    /\ opening \in Seq(I!Templates) /\ securing \in Seq(Values)
    /\ converting \in Seq(Conversion) /\ Len(converting) < 2
    /\ writes \in Nat /\ crossed \in BOOLEAN

\* The tag is being decrypted, and the field has nothing yet.
IsOpened ==
    /\ opening = <<template>> /\ securing = <<>> /\ converting = <<>>
    /\ template.secret /\ field = I!Unset /\ shown = ""

\* What is in the field is being encrypted.
IsClosed ==
    /\ securing = <<field.value>> /\ opening = <<>> /\ converting = <<>>
    /\ field.type = "encrypted" /\ ~field.error /\ shown = field.value

\* The tag could not be decrypted; there is no editor.
HasFailed == field.error /\ I!Quiet

\* The field has what is stored; it may be about to become of the other kind.
Rests ==
    /\ opening = <<>> /\ securing = <<>>
    /\ ~field.error /\ field.value = template.text /\ shown = template.text
    /\ field.type = "encrypted" /\ template # I!Plain("") => template.secret
    /\ converting # <<>> => /\ converting[1].value = field.value
                           /\ converting[1].type # field.type

\* Nothing crossed: a field does one thing at a time.
OneAtATime == ~crossed => IsOpened \/ IsClosed \/ HasFailed \/ Rests

FieldInv == FieldTyped /\ OneAtATime

LEMMA FieldTexts ==
    ASSUME TextsAreTexts
    PROVE  /\ \A t \in I!Templates : t.text \in Values /\ t.secret \in BOOLEAN
           /\ \A v \in Values : I!Plain(v) \in I!Templates /\ I!Secured(v) \in I!Templates
           /\ \A v \in Values : /\ I!Plain(v).text = v /\ ~I!Plain(v).secret
                                /\ I!Secured(v).text = v
                                /\ I!Secured(v).secret \/ I!Secured(v) = I!Plain("")
<1>1. \A v \in Values : I!Plain(v) \in I!Templates /\ (v # "" => I!Secret(v) \in I!Templates)
  BY DEF I!Templates
<1>2. \A v \in Values : I!Secured(v) \in I!Templates
  BY <1>1 DEF I!Secured, TextsAreTexts
<1>3. \A v \in Values : I!Plain(v).text = v /\ ~I!Plain(v).secret
  BY DEF I!Plain
<1>4. \A v \in Values : /\ I!Secured(v).text = v
                        /\ I!Secured(v).secret \/ I!Secured(v) = I!Plain("")
  BY DEF I!Secured, I!Plain, I!Secret
<1>5. ASSUME NEW t \in I!Templates PROVE t.text \in Values /\ t.secret \in BOOLEAN
  <2>1. PICK v \in Values : t = I!Plain(v) \/ t = I!Secret(v)
    BY DEF I!Templates
  <2>2. t.text = v
    BY <2>1 DEF I!Plain, I!Secret
  <2>3. t.secret = FALSE \/ t.secret = TRUE
    BY <2>1 DEF I!Plain, I!Secret
  <2> QED
    BY <2>1, <2>2, <2>3
<1> QED
  BY <1>1, <1>2, <1>3, <1>4, <1>5

LEMMA FieldStates ==
    ASSUME TextsAreTexts
    PROVE  /\ I!Unset \in FieldState
           /\ \A t \in I!Templates, on \in BOOLEAN : I!Filled(t, on) \in FieldState
           /\ \A v \in Values \cup {I!Null}, error \in BOOLEAN, obscured \in BOOLEAN,
                 type \in FieldTypes :
                 [type |-> type, value |-> v, obscured |-> obscured, error |-> error] \in FieldState
<1>1. I!Unset \in FieldState
  BY DEF FieldState, FieldTypes, I!Unset
<1>2. ASSUME NEW t \in I!Templates, NEW on \in BOOLEAN
      PROVE  I!Filled(t, on) \in FieldState
  <2>1. t.text \in Values
    BY FieldTexts
  <2>2. (on /\ t = I!Plain("")) \in BOOLEAN /\ (~on \/ t = I!Plain("")) \in BOOLEAN
    OBVIOUS
  <2> QED
    BY <2>1, <2>2 DEF I!Filled, FieldState, FieldTypes
<1>3. \A v \in Values \cup {I!Null}, error \in BOOLEAN, obscured \in BOOLEAN, type \in FieldTypes :
         [type |-> type, value |-> v, obscured |-> obscured, error |-> error] \in FieldState
  BY DEF FieldState
<1> QED
  BY <1>1, <1>2, <1>3

LEMMA FieldInit == ASSUME TextsAreTexts, I!Init PROVE FieldInv
<1>1. /\ template \in I!Templates /\ enabled \in BOOLEAN /\ template.secret \in BOOLEAN
      /\ securing = <<>> /\ converting = <<>> /\ writes = 0 /\ crossed = FALSE
  BY FieldTexts DEF I!Init
<1>2. CASE template.secret
  <2>1. field = I!Unset /\ shown = "" /\ opening = <<template>>
    BY <1>2 DEF I!Init
  <2>2. field \in FieldState /\ shown \in Values
    BY <2>1, FieldStates DEF TextsAreTexts
  <2>3. FieldTyped
    <3>1. <<template>> \in Seq(I!Templates)
      BY <1>1, Single
    <3>2. opening \in Seq(I!Templates)
      BY <2>1, <3>1, Zenon
    <3>3. securing \in Seq(Values) /\ converting \in Seq(Conversion) /\ Len(converting) < 2
      BY <1>1
    <3> QED
      BY <1>1, <2>2, <3>2, <3>3 DEF FieldTyped
  <2>4. IsOpened
    BY <1>1, <1>2, <2>1 DEF IsOpened
  <2> QED
    BY <2>3, <2>4 DEF FieldInv, OneAtATime
<1>3. CASE ~template.secret
  <2>1. field = I!Filled(template, enabled) /\ shown = template.text /\ opening = <<>>
    BY <1>3 DEF I!Init
  <2>2. field \in FieldState /\ shown \in Values
    BY <1>1, <2>1, FieldStates, FieldTexts
  <2>3. FieldTyped
    <3>1. opening \in Seq(I!Templates) /\ securing \in Seq(Values)
      BY <1>1, <2>1
    <3>2. converting \in Seq(Conversion) /\ Len(converting) < 2
      BY <1>1
    <3> QED
      BY <1>1, <2>2, <3>1, <3>2 DEF FieldTyped
  <2>4. Rests
    BY <1>1, <1>3, <2>1 DEF Rests, I!Filled
  <2> QED
    BY <2>3, <2>4 DEF FieldInv, OneAtATime
<1> QED
  BY <1>1, <1>2, <1>3

\* A new field for what is stored now.
LEMMA RefillInv ==
    ASSUME TextsAreTexts, FieldTyped, NEW t \in I!Templates, NEW on \in BOOLEAN, I!Refill(t, on)
    PROVE  /\ field' \in FieldState /\ shown' \in Values /\ opening' \in Seq(I!Templates)
           /\ t.secret => field' = I!Unset /\ shown' = "" /\ opening' = Append(opening, t)
           /\ ~t.secret => /\ ~field'.error /\ field'.value = t.text /\ shown' = t.text
                           /\ opening' = opening
                           /\ field'.type = "encrypted" => t = I!Plain("")
<1>1. CASE t.secret
  <2>1. opening' = Append(opening, t) /\ field' = I!Unset /\ shown' = ""
    BY <1>1 DEF I!Refill
  <2>2. Append(opening, t) \in Seq(I!Templates)
    BY Appended DEF FieldTyped
  <2> QED
    BY <1>1, <2>1, <2>2, FieldStates DEF TextsAreTexts
<1>2. CASE ~t.secret
  <2>1. field' = I!Filled(t, on) /\ shown' = t.text /\ opening' = opening
    BY <1>2 DEF I!Refill
  <2>2. field' \in FieldState /\ shown' \in Values
    BY <2>1, FieldStates, FieldTexts
  <2>3. field'.value = t.text /\ ~field'.error /\ (field'.type = "encrypted" => t = I!Plain(""))
    BY <2>1 DEF I!Filled
  <2> QED
    BY <1>2, <2>1, <2>2, <2>3 DEF FieldTyped
<1> QED
  BY <1>1, <1>2

LEMMA FieldOpensInv ==
    ASSUME TextsAreTexts, FieldInv, NEW k \in DOMAIN opening, NEW fails \in BOOLEAN, I!Opens(k, fails)
    PROVE  FieldInv'
<1> DEFINE value == IF fails THEN I!Null ELSE opening[k].text
           f == [type |-> "encrypted", value |-> value, obscured |-> TRUE, error |-> fails]
<1>1. opening[k] \in I!Templates
  BY DEF FieldInv, FieldTyped
<1>2. value \in Values \cup {I!Null} /\ (~fails => value \in Values)
  BY <1>1, FieldTexts
<1> HIDE DEF value
<1>3. f \in FieldState
  BY <1>2, FieldStates DEF FieldTypes
<1>4. /\ field' = f
      /\ shown' = IF f.type # field.type \/ (f.value = I!Null) # (field.value = I!Null)
                  THEN IF f.value = I!Null THEN "" ELSE f.value ELSE shown
  BY DEF I!Opens, I!SetField, value
<1>5. /\ opening' = I!Without(opening, k)
      /\ UNCHANGED <<template, enabled, securing, converting, writes, crossed>>
  BY DEF I!Opens
<1>6. FieldTyped'
  <2>1. opening' \in Seq(I!Templates)
    BY <1>5, WithoutItem DEF I!Without, FieldInv, FieldTyped
  <2>2. shown' \in Values
    BY <1>2, <1>4 DEF TextsAreTexts, FieldInv, FieldTyped
  <2> QED
    BY <1>3, <1>4, <1>5, <2>1, <2>2 DEF FieldInv, FieldTyped
<1>7. ASSUME ~crossed PROVE IsOpened' \/ IsClosed' \/ HasFailed' \/ Rests'
  <2>1. IsOpened
    <3>1. opening # <<>>
      BY DEF FieldInv, FieldTyped
    <3> QED
      BY <1>7, <3>1 DEF FieldInv, OneAtATime, IsClosed, HasFailed, Rests, I!Quiet
  <2>2. template \in I!Templates /\ opening = <<template>>
    BY <2>1 DEF IsOpened, FieldInv, FieldTyped
  <2>3. k = 1 /\ opening' = <<>>
    BY <2>2, <1>5, OnlyItem DEF I!Without
  <2>4. opening[k] = template /\ template.text \in Values
    BY <2>2, <2>3, FieldTexts
  <2>5. securing' = <<>> /\ converting' = <<>> /\ template' = template /\ template.secret
    BY <1>5, <2>1 DEF IsOpened
  <2>6. field.value = I!Null
    BY <2>1 DEF IsOpened, I!Unset
  <2>7. CASE fails
    BY <1>4, <2>3, <2>5, <2>7 DEF HasFailed, I!Quiet
  <2>8. CASE ~fails
    <3>1. f.value = template.text /\ f.value # I!Null /\ ~f.error
      BY <2>4, <2>8 DEF value, TextsAreTexts
    <3>2. shown' = template.text
      BY <1>4, <2>6, <3>1
    <3>3. ~field'.error /\ field'.value = template'.text /\ shown' = template'.text
      BY <1>4, <2>5, <3>1, <3>2
    <3> QED
      BY <2>3, <2>5, <3>3 DEF Rests
  <2> QED
    BY <2>7, <2>8
<1> QED
  BY <1>5, <1>6, <1>7 DEF FieldInv, OneAtATime

\* What is typed, or converted.
LEMMA ChangeTyped ==
    ASSUME TextsAreTexts, FieldTyped, NEW v \in Values, NEW type \in FieldTypes,
           I!HandleChange(v, type)
    PROVE  /\ template' \in I!Templates /\ securing' \in Seq(Values) /\ field' \in FieldState
           /\ field'.type = type /\ field'.value = v /\ field'.error = field.error
           /\ type = "encrypted" => securing' = Append(securing, v) /\ template' = template
           /\ type = "text" => template' = I!Plain(v) /\ securing' = securing
<1>1. /\ field' \in FieldState
      /\ field'.type = type /\ field'.value = v /\ field'.error = field.error
  BY DEF I!HandleChange, FieldTyped, FieldState
<1>2. CASE type = "encrypted"
  <2>1. securing' = Append(securing, v) /\ template' = template
    BY <1>2 DEF I!HandleChange, I!ClosesFirst
  <2>2. securing' \in Seq(Values)
    BY <2>1 DEF FieldTyped
  <2> QED
    BY <1>1, <1>2, <2>1, <2>2 DEF FieldTyped
<1>3. CASE type = "text"
  <2>1. template' = I!Plain(v) /\ securing' = securing
    BY <1>3 DEF I!HandleChange, I!ClosesFirst
  <2> QED
    BY <1>1, <1>3, <2>1, FieldTexts DEF FieldTyped
<1> QED
  BY <1>2, <1>3 DEF FieldTypes

LEMMA FieldTypeInv ==
    ASSUME TextsAreTexts, FieldInv, NEW v \in Values, I!Type(v)
    PROVE  FieldInv'
<1>1. field.type \in FieldTypes /\ I!HandleChange(v, field.type)
  BY DEF I!Type, FieldInv, FieldTyped, FieldState
<1>2. /\ ~field.error /\ shown' = v /\ crossed' = (crossed \/ ~I!Quiet)
      /\ UNCHANGED <<enabled, opening, converting, writes>>
  BY DEF I!Type
<1>3. /\ template' \in I!Templates /\ securing' \in Seq(Values) /\ field' \in FieldState
      /\ field'.type = field.type /\ field'.value = v /\ ~field'.error
      /\ field.type = "encrypted" => securing' = Append(securing, v) /\ template' = template
      /\ field.type = "text" => template' = I!Plain(v) /\ securing' = securing
  BY <1>1, <1>2, ChangeTyped DEF FieldInv
<1>4. FieldTyped'
  BY <1>2, <1>3 DEF FieldInv, FieldTyped
<1>5. ASSUME ~crossed' PROVE IsClosed' \/ Rests'
  <2>1. opening = <<>> /\ securing = <<>> /\ converting = <<>>
    BY <1>2, <1>5 DEF I!Quiet
  <2>2. CASE field.type = "encrypted"
    BY <1>2, <1>3, <2>1, <2>2 DEF IsClosed
  <2>3. CASE field.type = "text"
    <3>1. template'.text = v
      BY <1>3, <2>3, FieldTexts
    <3> QED
      BY <1>2, <1>3, <2>1, <2>3, <3>1 DEF Rests
  <2> QED
    BY <1>1, <2>2, <2>3 DEF FieldTypes
<1> QED
  BY <1>4, <1>5 DEF FieldInv, OneAtATime

LEMMA FieldClosesInv ==
    ASSUME TextsAreTexts, FieldInv, NEW k \in DOMAIN securing, NEW fails \in BOOLEAN,
           I!Closes(k, fails)
    PROVE  FieldInv'
<1>1. securing[k] \in Values
  BY DEF FieldInv, FieldTyped
<1>2. /\ securing' = I!Without(securing, k)
      /\ template' = IF fails THEN template ELSE I!Secured(securing[k])
      /\ crossed' = (crossed \/ fails) /\ UNCHANGED <<enabled, converting, writes>>
  BY DEF I!Closes
<1>3. template' \in I!Templates
  BY <1>1, <1>2, FieldTexts DEF FieldInv, FieldTyped
<1>4. \/ UNCHANGED <<field, shown, opening>>
      \/ /\ opening' = Append(opening, template') /\ UNCHANGED <<field, shown>>
         /\ field.value = I!Null
      \/ /\ I!SetField(I!Filled(template', enabled)) /\ UNCHANGED opening
         /\ field.value = I!Null
  BY DEF I!Closes
<1>5. FieldTyped'
  <2>1. securing' \in Seq(Values)
    BY <1>2, WithoutItem DEF I!Without, FieldInv, FieldTyped
  <2>2. field' \in FieldState /\ shown' \in Values /\ opening' \in Seq(I!Templates)
    <3>1. CASE UNCHANGED <<field, shown, opening>>
      BY <3>1 DEF FieldInv, FieldTyped
    <3>2. CASE opening' = Append(opening, template') /\ UNCHANGED <<field, shown>>
      BY <1>3, <3>2 DEF FieldInv, FieldTyped
    <3>3. CASE I!SetField(I!Filled(template', enabled)) /\ UNCHANGED opening
      <4>1. PICK t \in I!Templates : t = template'
        BY <1>3
      <4>2. enabled \in BOOLEAN
        BY DEF FieldInv, FieldTyped
      <4>3. I!Filled(t, enabled) \in FieldState
        BY <4>2, FieldStates
      <4>4. I!Filled(t, enabled).value \in Values
        BY FieldTexts DEF I!Filled
      <4>5. field' = I!Filled(t, enabled) /\ shown' \in {"", shown, I!Filled(t, enabled).value}
        BY <3>3, <4>1 DEF I!SetField
      <4> QED
        BY <3>3, <4>3, <4>4, <4>5 DEF FieldInv, FieldTyped, TextsAreTexts
    <3> QED
      BY <1>4, <3>1, <3>2, <3>3
  <2> QED
    BY <1>2, <1>3, <2>1, <2>2 DEF FieldInv, FieldTyped
<1>6. ASSUME ~crossed' PROVE Rests'
  <2>1. ~fails /\ ~crossed
    BY <1>2, <1>6
  <2>2. IsClosed
    <3>1. securing # <<>>
      BY DEF FieldInv, FieldTyped
    <3> QED
      BY <2>1, <3>1 DEF FieldInv, OneAtATime, IsOpened, HasFailed, Rests, I!Quiet
  <2>3. field.value \in Values /\ field.value # I!Null
    <3>1. PICK s \in Seq(Values) : s = securing
      BY DEF FieldInv, FieldTyped
    <3>2. s = <<field.value>>
      BY <2>2, <3>1 DEF IsClosed
    <3>3. Len(s) = 1 /\ s[1] = field.value
      BY <3>2
    <3>4. s[1] \in Values
      BY <3>1, <3>3
    <3> QED
      BY <3>3, <3>4 DEF TextsAreTexts
  <2>4. k = 1 /\ securing' = <<>>
    BY <1>2, <2>2, <2>3, OnlyItem DEF I!Without, IsClosed
  <2>5. template' = I!Secured(field.value)
    BY <1>2, <2>1, <2>2, <2>4 DEF IsClosed
  <2>6. template'.text = field.value /\ (template'.secret \/ template' = I!Plain(""))
    BY <2>3, <2>5, FieldTexts
  <2>7. UNCHANGED <<field, shown, opening>>
    BY <1>4, <2>3
  <2>8. I!Plain("")' = I!Plain("")
    OBVIOUS
  <2> QED
    BY <1>2, <2>2, <2>4, <2>6, <2>7, <2>8 DEF IsClosed, Rests
<1> QED
  BY <1>5, <1>6 DEF FieldInv, OneAtATime

LEMMA ChangeTypeInv ==
    ASSUME TextsAreTexts, FieldInv, NEW type \in FieldTypes, I!ChangeType(type)
    PROVE  FieldInv'
<1> DEFINE c == [value |-> field.value, type |-> type]
<1>1. /\ ~field.error /\ field.value # I!Null /\ field.type # type /\ converting' = <<c>>
      /\ crossed' = (crossed \/ ~I!Quiet)
      /\ UNCHANGED <<template, enabled, field, shown, opening, securing, writes>>
  BY DEF I!ChangeType
<1>2. c \in Conversion
  BY <1>1 DEF Conversion, FieldInv, FieldTyped, FieldState
<1>3. converting' \in Seq(Conversion) /\ Len(converting') < 2 /\ converting'[1] = c
  BY <1>1, <1>2
<1>4. FieldTyped'
  BY <1>1, <1>3 DEF FieldInv, FieldTyped
<1>5. ASSUME ~crossed' PROVE Rests'
  <2>1. Rests
    <3>1. ~crossed /\ opening = <<>> /\ securing = <<>>
      BY <1>1, <1>5 DEF I!Quiet
    <3>2. opening # <<template>> /\ securing # <<field.value>>
      BY <3>1
    <3> QED
      BY <1>1, <3>1, <3>2 DEF FieldInv, OneAtATime, IsOpened, IsClosed, HasFailed
  <2> QED
    BY <1>1, <1>3, <2>1 DEF Rests
<1> QED
  BY <1>4, <1>5 DEF FieldInv, OneAtATime

LEMMA ConvertsInv == ASSUME TextsAreTexts, FieldInv, I!Converts PROVE FieldInv'
<1>1. converting[1] \in Conversion
  BY DEF I!Converts, FieldInv, FieldTyped
<1>2. PICK v \in Values, type \in FieldTypes : v = converting[1].value /\ type = converting[1].type
  BY <1>1 DEF Conversion
<1>3. /\ converting # <<>> /\ converting' = <<>> /\ I!HandleChange(v, type)
      /\ shown' = IF type # field.type THEN v ELSE shown
      /\ UNCHANGED <<enabled, opening, writes, crossed>>
  BY <1>2 DEF I!Converts
<1>4. /\ template' \in I!Templates /\ securing' \in Seq(Values) /\ field' \in FieldState
      /\ field'.type = type /\ field'.value = v /\ field'.error = field.error
      /\ type = "encrypted" => securing' = Append(securing, v) /\ template' = template
      /\ type = "text" => template' = I!Plain(v) /\ securing' = securing
  BY <1>2, <1>3, ChangeTyped DEF FieldInv
<1>5. FieldTyped'
  BY <1>2, <1>3, <1>4 DEF FieldInv, FieldTyped
<1>6. ASSUME ~crossed PROVE IsClosed' \/ Rests'
  <2>1. Rests
    BY <1>3, <1>6 DEF FieldInv, OneAtATime, IsOpened, IsClosed, HasFailed, I!Quiet
  <2>2. type # field.type /\ shown' = v /\ ~field'.error /\ opening' = <<>> /\ securing = <<>>
    BY <1>2, <1>3, <1>4, <2>1 DEF Rests
  <2>3. CASE type = "encrypted"
    BY <1>3, <1>4, <2>2, <2>3 DEF IsClosed
  <2>4. CASE type = "text"
    <3>1. template'.text = v
      BY <1>2, <1>4, <2>4, FieldTexts
    <3> QED
      BY <1>3, <1>4, <2>2, <2>4, <3>1 DEF Rests
  <2> QED
    BY <1>2, <2>3, <2>4 DEF FieldTypes
<1> QED
  BY <1>3, <1>5, <1>6 DEF FieldInv, OneAtATime

LEMMA WrittenElsewhereInv ==
    ASSUME TextsAreTexts, FieldInv, NEW t \in I!Templates, I!WrittenElsewhere(t)
    PROVE  FieldInv'
<1>1. /\ template' = t /\ writes' = writes + 1 /\ I!Refill(t, enabled)
      /\ crossed' = (crossed \/ ~I!Quiet) /\ UNCHANGED <<enabled, securing, converting>>
  BY DEF I!WrittenElsewhere
<1>2. t.secret \in BOOLEAN /\ enabled \in BOOLEAN
  BY FieldTexts DEF FieldInv, FieldTyped
<1>3. /\ field' \in FieldState /\ shown' \in Values /\ opening' \in Seq(I!Templates)
      /\ t.secret => field' = I!Unset /\ shown' = "" /\ opening' = Append(opening, t)
      /\ ~t.secret => /\ ~field'.error /\ field'.value = t.text /\ shown' = t.text
                      /\ opening' = opening
                      /\ field'.type = "encrypted" => t = I!Plain("")
  BY <1>1, <1>2, RefillInv DEF FieldInv
<1>4. FieldTyped'
  <2>1. writes' \in Nat /\ template' \in I!Templates /\ crossed' \in BOOLEAN
    BY <1>1 DEF FieldInv, FieldTyped
  <2> QED
    BY <1>1, <1>3, <2>1 DEF FieldInv, FieldTyped
<1>5. ASSUME ~crossed' PROVE IsOpened' \/ Rests'
  <2>1. opening = <<>> /\ securing = <<>> /\ converting = <<>>
    BY <1>1, <1>5 DEF I!Quiet
  <2>2. CASE t.secret
    <3>1. opening' = <<t>> /\ template' = t /\ securing' = <<>> /\ converting' = <<>>
      <4>1. Append(<<>>, t) = <<t>>
        OBVIOUS
      <4> QED
        BY <1>1, <1>3, <2>1, <2>2, <4>1
    <3>2. field' = I!Unset /\ shown' = ""
      BY <1>3, <2>2
    <3> QED
      BY <2>2, <3>1, <3>2 DEF IsOpened, I!Unset
  <2>3. CASE ~t.secret
    BY <1>1, <1>3, <2>1, <2>3 DEF Rests
  <2> QED
    BY <2>2, <2>3
<1> QED
  BY <1>4, <1>5 DEF FieldInv, OneAtATime

LEMMA FieldStep == ASSUME TextsAreTexts, FieldInv, [I!Next]_I!vars PROVE FieldInv'
<1>1. ASSUME NEW k \in DOMAIN opening, NEW fails \in BOOLEAN, I!Opens(k, fails) PROVE FieldInv'
  BY <1>1, FieldOpensInv
<1>2. ASSUME NEW k \in DOMAIN securing, NEW fails \in BOOLEAN, I!Closes(k, fails) PROVE FieldInv'
  BY <1>2, FieldClosesInv
<1>3. ASSUME NEW v \in Values, I!Type(v) PROVE FieldInv'
  BY <1>3, FieldTypeInv
<1>4. ASSUME NEW type \in FieldTypes, I!ChangeType(type) PROVE FieldInv'
  BY <1>4, ChangeTypeInv
<1>5. ASSUME NEW t \in I!Templates, I!WrittenElsewhere(t) PROVE FieldInv'
  BY <1>5, WrittenElsewhereInv
<1>6. CASE I!Enable
  BY <1>6 DEF I!Enable, FieldInv, FieldTyped, OneAtATime, IsOpened, IsClosed, HasFailed, I!Quiet, Rests
<1>7. CASE I!Forget
  <2>1. converting # <<>> /\ converting' = <<>>
        /\ UNCHANGED <<template, enabled, field, shown, opening, securing, writes, crossed>>
    BY <1>7 DEF I!Forget
  <2>2. FieldTyped'
    BY <2>1 DEF FieldInv, FieldTyped
  <2>3. ~crossed => Rests
    BY <2>1 DEF FieldInv, OneAtATime, IsOpened, IsClosed, HasFailed, I!Quiet
  <2>4. Rests => Rests'
    BY <2>1 DEF Rests
  <2> QED
    BY <2>1, <2>2, <2>3, <2>4 DEF FieldInv, OneAtATime
<1>8. CASE I!Converts
  BY <1>8, ConvertsInv
<1>9. CASE I!ToggleObscured
  <2>1. /\ field.value # I!Null /\ field' = [field EXCEPT !.obscured = ~field.obscured]
        /\ UNCHANGED <<template, enabled, shown, opening, securing, converting, writes, crossed>>
    BY <1>9 DEF I!ToggleObscured
  <2>2. /\ field' \in FieldState /\ field'.type = field.type /\ field'.value = field.value
        /\ field'.error = field.error
    BY <2>1 DEF FieldInv, FieldTyped, FieldState
  <2>3. FieldTyped'
    BY <2>1, <2>2 DEF FieldInv, FieldTyped
  <2>4. ~IsOpened
    <3>1. I!Unset.value = I!Null
      BY DEF I!Unset
    <3> QED
      BY <2>1, <3>1 DEF IsOpened
  <2>5. (IsClosed => IsClosed') /\ (HasFailed => HasFailed') /\ (Rests => Rests')
    BY <2>1, <2>2 DEF IsClosed, HasFailed, I!Quiet, Rests
  <2> QED
    BY <2>1, <2>3, <2>4, <2>5 DEF FieldInv, OneAtATime
<1>10. CASE UNCHANGED I!vars
  BY <1>10 DEF I!vars, FieldInv, FieldTyped, OneAtATime, IsOpened, IsClosed, HasFailed, I!Quiet, Rests
<1> QED
  BY <1>1, <1>2, <1>3, <1>4, <1>5, <1>6, <1>7, <1>8, <1>9, <1>10 DEF I!Next, FieldTypes

LEMMA FieldInvariant == ASSUME TextsAreTexts PROVE I!Spec => []FieldInv
<1>1. I!Init => FieldInv
  BY FieldInit
<1>2. FieldInv /\ [I!Next]_I!vars => FieldInv'
  BY FieldStep
<1> QED
  BY <1>1, <1>2, PTL DEF I!Spec

\* The variables of the field have their types.
THEOREM FieldTypeCorrect == ASSUME TextsAreTexts PROVE I!Spec => []I!TypeOK
<1>1. FieldInv => I!TypeOK
  BY DEF FieldInv, FieldTyped, FieldState, FieldTypes, I!TypeOK
<1> QED
  BY <1>1, FieldInvariant, PTL

\* However commands and writes follow one another, a field at rest shows what is stored
\* (FieldShowsStored): what was typed, converted or written elsewhere.
THEOREM FieldShows == ASSUME TextsAreTexts PROVE I!Spec => []I!FieldShowsStored
<1>1. FieldInv => I!FieldShowsStored
  <2> SUFFICES ASSUME FieldInv, I!Quiet, ~crossed, ~field.error PROVE shown = template.text
    BY DEF I!FieldShowsStored
  <2>1. ~IsOpened /\ ~IsClosed /\ ~HasFailed
    BY DEF IsOpened, IsClosed, HasFailed, I!Quiet
  <2> QED
    BY <2>1 DEF FieldInv, OneAtATime, Rests
<1> QED
  BY <1>1, FieldInvariant, PTL

\* What is in a field that is marked as encrypted is stored encrypted.
THEOREM MarkedIsClosed == ASSUME TextsAreTexts PROVE I!Spec => []I!MarkedMeansClosed
<1>1. FieldInv => I!MarkedMeansClosed
  <2> SUFFICES ASSUME FieldInv, I!Quiet, ~crossed, ~field.error, field.type = "encrypted",
                      template # I!Plain("")
               PROVE  template.secret
    BY DEF I!MarkedMeansClosed
  <2>1. ~IsOpened /\ ~IsClosed /\ ~HasFailed
    BY DEF IsOpened, IsClosed, HasFailed, I!Quiet
  <2> QED
    BY <2>1 DEF FieldInv, OneAtATime, Rests
<1> QED
  BY <1>1, FieldInvariant, PTL

\* What is typed into a field that encrypts is never written in the clear, whatever else
\* is under way: what a window writes then is an encrypted value, or nothing at all.
THEOREM PlainIsNeverWritten == ASSUME TextsAreTexts PROVE I!Spec => [][I!NeverWrittenPlain]_I!vars
<1>1. ASSUME FieldInv, I!Next PROVE I!NeverWrittenPlain
  <2> SUFFICES ASSUME field.type = "encrypted", field'.type = "encrypted", template' # template,
                      writes' = writes
               PROVE  template'.secret \/ template' = I!Plain("")
    BY DEF I!NeverWrittenPlain
  <2>1. ASSUME NEW k \in DOMAIN opening, NEW fails \in BOOLEAN, I!Opens(k, fails) PROVE FALSE
    BY <2>1 DEF I!Opens
  <2>2. ASSUME NEW k \in DOMAIN securing, NEW fails \in BOOLEAN, I!Closes(k, fails)
        PROVE  template'.secret \/ template' = I!Plain("")
    <3>1. securing[k] \in Values
      BY <1>1 DEF FieldInv, FieldTyped
    <3>2. template' = I!Secured(securing[k])
      BY <2>2 DEF I!Closes
    <3> QED
      BY <1>1, <3>1, <3>2, FieldTexts
  <2>3. ASSUME NEW v \in Values, I!Type(v) PROVE FALSE
    BY <2>3 DEF I!Type, I!HandleChange, I!ClosesFirst
  <2>4. ASSUME NEW type \in FieldTypes, I!ChangeType(type) PROVE FALSE
    BY <2>4 DEF I!ChangeType
  <2>5. ASSUME NEW t \in I!Templates, I!WrittenElsewhere(t) PROVE FALSE
    BY <1>1, <2>5 DEF I!WrittenElsewhere, FieldInv, FieldTyped
  <2>6. CASE I!Converts
    <3>1. I!HandleChange(converting[1].value, converting[1].type)
      BY <2>6 DEF I!Converts
    <3>2. field'.type = converting[1].type
      BY <1>1, <3>1 DEF I!HandleChange, FieldInv, FieldTyped, FieldState
    <3> QED
      BY <3>1, <3>2 DEF I!HandleChange, I!ClosesFirst
  <2>7. CASE I!Enable \/ I!Forget \/ I!ToggleObscured
    BY <2>7 DEF I!Enable, I!Forget, I!ToggleObscured
  <2> QED
    BY <1>1, <2>1, <2>2, <2>3, <2>4, <2>5, <2>6, <2>7 DEF I!Next, FieldTypes
<1>2. FieldInv /\ [I!Next]_I!vars => [I!NeverWrittenPlain]_I!vars
  BY <1>1
<1> QED
  BY <1>2, FieldInvariant, PTL DEF I!Spec

-----------------------------------------------------------------------------
(* The hotkeys. *)

CONSTANTS Hotkeys, Modifiers, Names, Optional
VARIABLES held, pressed, kept, listening, fresh, fired

H == INSTANCE HotKeys WITH current <- kept, enabled <- listening

\* A hotkey is one key, with any modifiers; and no key is called like a modifier.
OneKeyEach ==
    /\ \A h \in H!Hooks : \A keys \in Hotkeys[h] : \E name : keys \ Modifiers = {name}
    /\ H!AllNames \cap Modifiers = {}
    /\ Optional \subseteq H!Hooks

HotKeysTyped ==
    /\ held \subseteq Modifiers /\ pressed \subseteq H!Keys
    /\ kept \in [H!Hooks -> SUBSET H!AllNames] /\ listening \subseteq H!Hooks
    /\ fresh \in BOOLEAN /\ fired.hooks \subseteq fired.enabled

\* No hook has a name left once all modifiers were seen to be up.
NothingLeft == fresh => \A h \in H!Hooks : kept[h] = {}

HotKeysInv == HotKeysTyped /\ NothingLeft /\ H!RunsItsOwn /\ H!FirstKeyRuns

LEMMA NamesOfKeys == \A k \in H!Keys : \A mods : H!NameOf(k, mods) \in H!AllNames
  BY DEF H!Keys, H!NameOf, H!AllNames

\* A step that is no key with a modifier runs nothing.
LEMMA Fires ==
    ASSUME fired' = H!NothingFired
    PROVE  fired'.hooks \subseteq fired'.enabled /\ H!RunsItsOwn' /\ H!FirstKeyRuns'
  BY DEF H!NothingFired, H!RunsItsOwn, H!FirstKeyRuns

LEMMA HotKeysInit == ASSUME OneKeyEach, H!Init PROVE HotKeysInv
<1>1. HotKeysTyped /\ NothingLeft
  BY DEF H!Init, HotKeysTyped, NothingLeft, H!NothingFired
<1>2. H!RunsItsOwn /\ H!FirstKeyRuns
  BY DEF H!Init, H!NothingFired, H!RunsItsOwn, H!FirstKeyRuns
<1> QED
  BY <1>1, <1>2 DEF HotKeysInv

LEMMA PressInv ==
    ASSUME OneKeyEach, HotKeysInv, NEW k \in H!Keys, NEW inField \in BOOLEAN, H!Press(k, inField)
    PROVE  HotKeysInv'
<1> DEFINE name == H!NameOf(k, held)
           names == [h \in H!Hooks |-> kept[h] \cup {name}]
           matched == {h \in listening : /\ H!Matches(h, names[h], held)
                                      /\ ~(inField /\ names[h] \cup held = {H!Erase})}
<1>1. /\ pressed' = pressed \cup {k} /\ UNCHANGED <<held, listening>>
      /\ \/ UNCHANGED <<kept, fresh, fired>>
         \/ /\ kept' = [h \in H!Hooks |-> IF h \notin listening THEN kept[h]
                                          ELSE IF h \in matched THEN {} ELSE names[h]]
            /\ fresh' = FALSE
            /\ fired' = [name |-> name, held |-> held, fresh |-> fresh /\ ~inField,
                         enabled |-> listening, hooks |-> matched]
  BY DEF H!Press
<1>2. CASE UNCHANGED <<kept, fresh, fired>>
  BY <1>1, <1>2 DEF HotKeysInv, HotKeysTyped, NothingLeft, H!RunsItsOwn, H!FirstKeyRuns, H!Keys
<1>3. CASE ~UNCHANGED <<kept, fresh, fired>>
  <2>1. /\ kept' = [h \in H!Hooks |-> IF h \notin listening THEN kept[h]
                                      ELSE IF h \in matched THEN {} ELSE names[h]]
        /\ fired' = [name |-> name, held |-> held, fresh |-> fresh /\ ~inField,
                     enabled |-> listening, hooks |-> matched]
        /\ fresh' = FALSE
    BY <1>1, <1>3
  <2>2. name \in H!AllNames
    BY NamesOfKeys
  <2> HIDE DEF name
  <2>3. names \in [H!Hooks -> SUBSET H!AllNames] /\ matched \subseteq listening
    BY <2>2 DEF HotKeysInv, HotKeysTyped
  <2>4. kept' \in [H!Hooks -> SUBSET H!AllNames]
    BY <2>1, <2>3 DEF HotKeysInv, HotKeysTyped
  <2>5. HotKeysTyped' /\ NothingLeft'
    BY <1>1, <2>1, <2>3, <2>4 DEF HotKeysInv, HotKeysTyped, NothingLeft
  <2>6. ASSUME NEW h \in matched PROVE H!Matches(h, {name}, held)
    <3>1. h \in H!Hooks /\ names[h] \cup held \in Hotkeys[h]
      BY <2>3 DEF HotKeysInv, HotKeysTyped, H!Matches
    <3>2. PICK only : (names[h] \cup held) \ Modifiers = {only}
      BY <3>1 DEF OneKeyEach
    <3>3. names[h] \subseteq H!AllNames /\ name \in names[h]
      BY <2>3, <3>1
    <3>4. names[h] \subseteq {only}
      BY <3>2, <3>3 DEF OneKeyEach
    <3>5. names[h] = {name}
      BY <3>3, <3>4
    <3> QED
      BY <3>1, <3>5 DEF H!Matches
  <2>7. H!RunsItsOwn'
    <3>1. fired'.hooks = matched /\ fired'.name = name /\ fired'.held = held
      BY <2>1
    <3> HIDE DEF matched
    <3> QED
      BY <2>6, <3>1 DEF H!RunsItsOwn, H!Matches
  <2>8. ASSUME fresh, ~inField, NEW h \in listening, H!Matches(h, {name}, held) PROVE h \in matched
    <3>1. h \in H!Hooks /\ names[h] = {name}
      BY <2>8 DEF HotKeysInv, HotKeysTyped, NothingLeft
    <3> QED
      BY <2>8, <3>1
  <2>9. H!FirstKeyRuns'
    <3>1. /\ fired'.hooks = matched /\ fired'.name = name /\ fired'.held = held
          /\ fired'.enabled = listening /\ fired'.fresh = (fresh /\ ~inField)
      BY <2>1
    <3> HIDE DEF matched
    <3> QED
      BY <2>8, <3>1 DEF H!FirstKeyRuns, H!Matches
  <2> QED
    BY <2>5, <2>7, <2>9 DEF HotKeysInv
<1> QED
  BY <1>1, <1>2, <1>3

\* What the hooks keep when something went up is not more than before, and nothing
\* when no modifier is held any more and every hook listens.
LEMMA KeptIsLess ==
    ASSUME HotKeysTyped, NEW name, NEW mods
    PROVE  /\ H!Kept(name, mods) \in [H!Hooks -> SUBSET H!AllNames]
           /\ \A h \in H!Hooks : H!Kept(name, mods)[h] \subseteq kept[h]
           /\ mods = {} /\ listening = H!Hooks => \A h \in H!Hooks : H!Kept(name, mods)[h] = {}
  BY DEF HotKeysTyped, H!Kept

LEMMA HotKeysStep == ASSUME OneKeyEach, HotKeysInv, [H!Next]_H!vars PROVE HotKeysInv'
<1>1. ASSUME NEW k \in H!Keys, NEW inField \in BOOLEAN, H!Press(k, inField) PROVE HotKeysInv'
  BY <1>1, PressInv
<1>2. ASSUME NEW k \in H!Keys, H!Release(k) PROVE HotKeysInv'
  <2>1. /\ pressed' = pressed \ {k} /\ kept' = H!Kept(H!NameOf(k, held), held)
        /\ fresh' = (fresh \/ (held = {} /\ listening = H!Hooks))
        /\ fired' = H!NothingFired /\ UNCHANGED <<held, listening>>
    BY <1>2 DEF H!Release
  <2>2. HotKeysTyped'
    BY <2>1, KeptIsLess, Fires DEF HotKeysInv, HotKeysTyped
  <2>3. NothingLeft'
    BY <2>1, KeptIsLess DEF HotKeysInv, NothingLeft
  <2> QED
    BY <2>1, <2>2, <2>3, Fires DEF HotKeysInv
<1>3. ASSUME NEW m \in Modifiers, H!PressModifier(m) PROVE HotKeysInv'
  <2>1. /\ held' = held \cup {m} /\ fired' = H!NothingFired
        /\ UNCHANGED <<pressed, kept, listening, fresh>>
    BY <1>3 DEF H!PressModifier
  <2> QED
    BY <2>1, Fires DEF HotKeysInv, HotKeysTyped, NothingLeft
<1>4. ASSUME NEW m \in Modifiers, H!ReleaseModifier(m) PROVE HotKeysInv'
  <2>1. PICK mods \in SUBSET Modifiers : mods = held \ {m}
    BY DEF HotKeysInv, HotKeysTyped
  <2>2. /\ held' = mods /\ kept' = H!Kept(m, mods)
        /\ fresh' = (fresh \/ (mods = {} /\ listening = H!Hooks))
        /\ fired' = H!NothingFired /\ UNCHANGED <<pressed, listening>>
    BY <1>4, <2>1 DEF H!ReleaseModifier, H!Kept
  <2>3. HotKeysTyped'
    BY <2>2, KeptIsLess, Fires DEF HotKeysInv, HotKeysTyped
  <2>4. NothingLeft'
    BY <2>2, KeptIsLess DEF HotKeysInv, NothingLeft
  <2> QED
    BY <2>2, <2>3, <2>4, Fires DEF HotKeysInv
<1>5. CASE H!LoseFocus
  <2>1. /\ held' = {} /\ pressed' = {} /\ fresh' = FALSE /\ fired' = H!NothingFired
        /\ UNCHANGED <<kept, listening>>
    BY <1>5 DEF H!LoseFocus
  <2> QED
    BY <2>1, Fires DEF HotKeysInv, HotKeysTyped, NothingLeft
<1>6. CASE H!Forget
  <2>1. /\ kept' = [h \in H!Hooks |-> {}] /\ fresh' = (fresh \/ held = {})
        /\ fired' = H!NothingFired /\ UNCHANGED <<held, pressed, listening>>
    BY <1>6 DEF H!Forget
  <2> QED
    BY <2>1, Fires DEF HotKeysInv, HotKeysTyped, NothingLeft
<1>7. ASSUME NEW h \in Optional, H!Switch(h) PROVE HotKeysInv'
  <2>1. /\ listening' \subseteq listening \cup {h} /\ fresh' = FALSE /\ fired' = H!NothingFired
        /\ UNCHANGED <<held, pressed, kept>>
    BY <1>7 DEF H!Switch
  <2> QED
    BY <2>1, Fires DEF OneKeyEach, HotKeysInv, HotKeysTyped, NothingLeft
<1>8. CASE UNCHANGED H!vars
  BY <1>8 DEF H!vars, HotKeysInv, HotKeysTyped, NothingLeft, H!RunsItsOwn, H!FirstKeyRuns, H!Matches
<1> QED
  BY <1>1, <1>2, <1>3, <1>4, <1>5, <1>6, <1>7, <1>8 DEF H!Next

LEMMA HotKeysInvariant == ASSUME OneKeyEach PROVE H!Spec => []HotKeysInv
<1>1. H!Init => HotKeysInv
  BY HotKeysInit
<1>2. HotKeysInv /\ [H!Next]_H!vars => HotKeysInv'
  BY HotKeysStep
<1> QED
  BY <1>1, <1>2, PTL DEF H!Spec

\* The modifiers, the keys and the names that the hooks keep are some there are.
THEOREM HotKeysTypeCorrect == ASSUME OneKeyEach PROVE H!Spec => []H!TypeOK
<1>1. HotKeysInv => H!TypeOK
  BY DEF HotKeysInv, HotKeysTyped, H!TypeOK
<1> QED
  BY <1>1, HotKeysInvariant, PTL

\* Whatever keys went down and were not seen to go up, a hotkey runs for its own keys
\* alone (RunsItsOwn); and the first one after a time without modifiers runs (FirstKeyRuns).
THEOREM HotKeysRunTheirs ==
    ASSUME OneKeyEach PROVE H!Spec => [](H!RunsItsOwn /\ H!FirstKeyRuns)
<1>1. HotKeysInv => H!RunsItsOwn /\ H!FirstKeyRuns
  BY DEF HotKeysInv
<1> QED
  BY <1>1, HotKeysInvariant, PTL

-----------------------------------------------------------------------------
(* The schema of the GraphQL editor. *)

CONSTANTS Requests, Answers, Unreadable, MaxUnderWay
VARIABLES schemaRow, cached, schemaOf, parsed, fetching, writing, reading, overtaken

N == INSTANCE Introspection WITH row <- schemaRow, current <- schemaOf

\* What a server answers is a text: neither none nor an empty one.
AnswersAreTexts == \A r \in Requests : Answers[r] \cap {N!None, N!Empty} = {}

Contents == (UNION {Answers[r] : r \in Requests}) \cup {N!None, N!Empty}
Job == [request : Requests, content : Contents]

SchemaTyped ==
    /\ schemaRow \in [Requests -> Contents] /\ cached \in [Requests -> Contents] /\ schemaOf \in Requests
    /\ fetching \in Seq(Job) /\ writing \in Seq(Job) /\ reading \in Seq(Job)
    /\ overtaken \in BOOLEAN

Items(s) == {s[k] : k \in 1..Len(s)}
Asking(s) == {j.request : j \in Items(s)}
Apart(s) == \A i, j \in 1..Len(s) : s[i].request = s[j].request => i = j

\* Every job has a content that is of its own request.
EachItsOwn ==
    /\ N!StoredIsOwn
    /\ \A j \in Items(fetching) : j.content \in {N!None, N!Empty}
    /\ \A j \in Items(writing) : j.content \in Answers[j.request] \cup {N!Empty}
    /\ \A j \in Items(reading) : j.content \in Answers[j.request] \cup {N!None, N!Empty}

\* Nothing was overtaken: a request has one job at a time.
OneEach ==
    /\ Apart(fetching) /\ Apart(writing) /\ Apart(reading)
    /\ Asking(fetching) \cap Asking(writing) = {}
    /\ Asking(fetching) \cap Asking(reading) = {}
    /\ Asking(writing) \cap Asking(reading) = {}

\* The schema of the active request was cleared, and its row is still to be.
ToBeEmpty ==
    \E j \in Items(fetching) \cup Items(writing) : j.request = schemaOf /\ j.content = N!Empty

\* ... and only a write on its way to the cache is in the row and not in the cache;
\* the editor has the schema of the cache, unless it was cleared.
KeptAndShown ==
    /\ \A r \in Requests \ Asking(writing) : cached[r] = schemaRow[r]
    /\ \A j \in Items(writing) : j.content = schemaRow[j.request]
    /\ \A j \in Items(reading) : j.content \in {N!None, schemaRow[j.request]}
    /\ N!Readable(cached[schemaOf]) => parsed = cached[schemaOf] \/ ToBeEmpty

SchemaInv == SchemaTyped /\ EachItsOwn /\ (~overtaken => OneEach /\ KeptAndShown)

\* With one more job, and without one.
LEMMA MoreJobs ==
    ASSUME NEW s \in Seq(Job), NEW x \in Job
    PROVE  /\ Append(s, x) \in Seq(Job) /\ Items(Append(s, x)) = Items(s) \cup {x}
           /\ Asking(Append(s, x)) = Asking(s) \cup {x.request}
           /\ Apart(s) /\ x.request \notin Asking(s) => Apart(Append(s, x))
<1> DEFINE t == Append(s, x)
<1>1. /\ t \in Seq(Job) /\ Len(t) = Len(s) + 1 /\ t[Len(s) + 1] = x /\ Len(s) \in Nat
      /\ \A j \in 1..Len(s) : t[j] = s[j]
  BY Appended
<1> HIDE DEF t
<1>2. Items(t) = Items(s) \cup {x}
  <2>1. ASSUME NEW y \in Items(t) PROVE y \in Items(s) \cup {x}
    <3>1. PICK k \in 1..Len(t) : y = t[k]
      BY DEF Items
    <3>2. k \in 1..Len(s) \/ k = Len(s) + 1
      BY <1>1
    <3> QED
      BY <1>1, <3>1, <3>2 DEF Items
  <2>2. ASSUME NEW y \in Items(s) PROVE y \in Items(t)
    <3>1. PICK k \in 1..Len(s) : y = s[k]
      BY DEF Items
    <3>2. k \in 1..Len(t)
      BY <1>1
    <3> QED
      BY <1>1, <3>1, <3>2 DEF Items
  <2>3. x \in Items(t)
    <3>1. Len(s) + 1 \in 1..Len(t)
      BY <1>1
    <3> QED
      BY <1>1, <3>1 DEF Items
  <2> QED
    BY <2>1, <2>2, <2>3
<1>3. Asking(t) = Asking(s) \cup {x.request}
  BY <1>2 DEF Asking
<1>4. ASSUME Apart(s), x.request \notin Asking(s) PROVE Apart(t)
  <2> SUFFICES ASSUME NEW i \in 1..Len(t), NEW j \in 1..Len(t), t[i].request = t[j].request
               PROVE  i = j
    BY DEF Apart
  <2>1. \A k \in 1..Len(s) : s[k].request # x.request
    BY <1>4 DEF Asking, Items
  <2>2. (i \in 1..Len(s) \/ i = Len(s) + 1) /\ (j \in 1..Len(s) \/ j = Len(s) + 1)
    BY <1>1
  <2> QED
    BY <1>1, <1>4, <2>1, <2>2 DEF Apart
<1> QED
  BY <1>1, <1>2, <1>3, <1>4 DEF t

LEMMA LessJobs ==
    ASSUME NEW s \in Seq(Job), NEW k \in DOMAIN s
    PROVE  /\ s[k] \in Job /\ s[k] \in Items(s) /\ s[k].request \in Asking(s)
           /\ N!Without(s, k) \in Seq(Job) /\ Items(N!Without(s, k)) \subseteq Items(s)
           /\ Asking(N!Without(s, k)) \subseteq Asking(s)
           /\ Items(s) \ {s[k]} \subseteq Items(N!Without(s, k))
           /\ Asking(s) \ {s[k].request} \subseteq Asking(N!Without(s, k))
           /\ Apart(s) => Apart(N!Without(s, k)) /\ s[k].request \notin Asking(N!Without(s, k))
<1> DEFINE t == N!Without(s, k)
<1>1. k \in 1..Len(s) /\ Len(s) \in Nat /\ s[k] \in Job
  OBVIOUS
<1>2. /\ t \in Seq(Job) /\ Len(t) = Len(s) - 1
      /\ \A j \in 1..Len(t) : (j < k => t[j] = s[j]) /\ (j >= k => t[j] = s[j + 1])
  BY WithoutItem DEF N!Without
<1> HIDE DEF t
<1>3. \A j \in 1..Len(t) : \E i \in 1..Len(s) \ {k} : t[j] = s[i] /\ i = IF j < k THEN j ELSE j + 1
  <2> TAKE j \in 1..Len(t)
  <2> DEFINE i == IF j < k THEN j ELSE j + 1
  <2>1. i \in 1..Len(s) \ {k}
    BY <1>1, <1>2
  <2>2. t[j] = s[i]
    BY <1>1, <1>2
  <2> QED
    BY <2>1, <2>2
<1>4. ASSUME NEW i \in 1..Len(s), i # k PROVE \E j \in 1..Len(t) : t[j] = s[i]
  <2>1. CASE i < k
    <3>1. i \in 1..Len(t)
      BY <1>1, <1>2, <2>1
    <3> QED
      BY <1>2, <2>1, <3>1
  <2>2. CASE i > k
    <3>1. i - 1 \in 1..Len(t) /\ i - 1 >= k /\ (i - 1) + 1 = i
      BY <1>1, <1>2, <2>2
    <3> QED
      BY <1>2, <3>1
  <2> QED
    BY <1>1, <1>4, <2>1, <2>2
<1>5. Items(t) \subseteq Items(s)
  BY <1>3 DEF Items
<1>6. Asking(t) \subseteq Asking(s)
  BY <1>5 DEF Asking
<1>7. Items(s) \ {s[k]} \subseteq Items(t)
  <2> SUFFICES ASSUME NEW y \in Items(s), y # s[k] PROVE y \in Items(t)
    OBVIOUS
  <2>1. PICK i \in 1..Len(s) : y = s[i]
    BY DEF Items
  <2>2. PICK j \in 1..Len(t) : t[j] = s[i]
    BY <1>4, <2>1
  <2> QED
    BY <2>1, <2>2 DEF Items
<1>8. Asking(s) \ {s[k].request} \subseteq Asking(t)
  BY <1>7 DEF Asking
<1>9. ASSUME Apart(s) PROVE Apart(t) /\ s[k].request \notin Asking(t)
  <2>1. s[k].request \notin Asking(t)
    <3> SUFFICES ASSUME NEW j \in 1..Len(t), t[j].request = s[k].request PROVE FALSE
      BY DEF Asking, Items
    <3>1. PICK i \in 1..Len(s) \ {k} : t[j] = s[i]
      BY <1>3
    <3> QED
      BY <1>1, <1>9, <3>1 DEF Apart
  <2>2. ASSUME NEW i \in 1..Len(t), NEW j \in 1..Len(t), t[i].request = t[j].request
        PROVE  i = j
    <3>1. PICK a \in 1..Len(s) \ {k} : t[i] = s[a] /\ a = IF i < k THEN i ELSE i + 1
      BY <1>3
    <3>2. PICK b \in 1..Len(s) \ {k} : t[j] = s[b] /\ b = IF j < k THEN j ELSE j + 1
      BY <1>3
    <3>3. a = b
      BY <1>9, <2>2, <3>1, <3>2 DEF Apart
    <3> QED
      BY <1>1, <1>2, <3>1, <3>2, <3>3
  <2> QED
    BY <2>1, <2>2 DEF Apart
<1>10. s[k] \in Items(s) /\ s[k].request \in Asking(s)
  BY <1>1 DEF Items, Asking
<1> QED
  BY <1>1, <1>2, <1>5, <1>6, <1>7, <1>8, <1>9, <1>10 DEF t

LEMMA NoJobs == Items(<<>>) = {} /\ Asking(<<>>) = {} /\ Apart(<<>>)
<1>1. Len(<<>>) = 0 /\ 1..0 = {}
  OBVIOUS
<1> QED
  BY <1>1 DEF Items, Asking, Apart

LEMMA NobodyAsks ==
    ASSUME SchemaTyped, NEW r, N!About(r) = {}
    PROVE  r \notin Asking(fetching) /\ r \notin Asking(writing) /\ r \notin Asking(reading)
<1>1. ASSUME NEW s \in {fetching, writing, reading}, r \in Asking(s) PROVE FALSE
  <2>1. PICK k \in 1..Len(s) : s[k].request = r
    BY <1>1 DEF Asking, Items
  <2>2. DOMAIN s = 1..Len(s)
    BY DEF SchemaTyped
  <2>3. s \in N!About(r)
    BY <2>1, <2>2 DEF N!About
  <2> QED
    BY <2>3
<1> QED
  BY <1>1

LEMMA SchemaInit == ASSUME N!Init PROVE SchemaInv
<1>1. /\ schemaRow = [r \in Requests |-> N!None] /\ cached = schemaRow /\ schemaOf \in Requests
      /\ parsed = N!None /\ fetching = <<>> /\ writing = <<>> /\ overtaken = FALSE
      /\ reading = <<N!Job(schemaOf, N!None)>>
  BY DEF N!Init
<1>2. N!Job(schemaOf, N!None) \in Job
  BY <1>1 DEF N!Job, Job, Contents
<1>3. SchemaTyped
  <2>1. schemaRow \in [Requests -> Contents]
    BY <1>1 DEF Contents
  <2>2. reading \in Seq(Job)
    BY <1>1, <1>2, Single
  <2>3. fetching \in Seq(Job) /\ writing \in Seq(Job)
    BY <1>1
  <2>4. cached \in [Requests -> Contents] /\ overtaken \in BOOLEAN /\ schemaOf \in Requests
    BY <1>1, <2>1
  <2> QED
    BY <2>1, <2>2, <2>3, <2>4 DEF SchemaTyped
<1>4. /\ Items(reading) = {N!Job(schemaOf, N!None)} /\ Asking(reading) = {schemaOf} /\ Apart(reading)
  <2>1. reading = Append(<<>>, N!Job(schemaOf, N!None)) /\ <<>> \in Seq(Job)
    BY <1>1
  <2>2. N!Job(schemaOf, N!None).request = schemaOf
    BY DEF N!Job
  <2>3. PICK j \in Job : j = N!Job(schemaOf, N!None)
    BY <1>2
  <2>4. /\ Items(Append(<<>>, j)) = Items(<<>>) \cup {j}
        /\ Asking(Append(<<>>, j)) = Asking(<<>>) \cup {j.request}
        /\ Apart(<<>>) /\ j.request \notin Asking(<<>>) => Apart(Append(<<>>, j))
    BY <2>1, MoreJobs
  <2> QED
    BY <2>1, <2>2, <2>3, <2>4, NoJobs
<1>5. N!StoredIsOwn
  BY <1>1 DEF N!StoredIsOwn
<1>6. EachItsOwn
  BY <1>1, <1>4, <1>5, NoJobs DEF EachItsOwn, N!Job
<1>7. OneEach
  BY <1>1, <1>4, NoJobs DEF OneEach
<1>8. KeptAndShown
  BY <1>1, <1>4, NoJobs DEF KeptAndShown, N!Job, N!Readable
<1> QED
  BY <1>3, <1>6, <1>7, <1>8 DEF SchemaInv

\* A job of the active request is one more of fetching: refetch, and clear.
LEMMA SchemaAsksInv ==
    ASSUME SchemaInv, NEW content \in {N!None, N!Empty},
           fetching' = Append(fetching, N!Job(schemaOf, content)),
           overtaken' = (overtaken \/ N!About(schemaOf) # {}),
           UNCHANGED <<schemaRow, cached, schemaOf, writing, reading>>,
           content = N!Empty \/ parsed' = parsed
    PROVE  SchemaInv'
<1> DEFINE j == N!Job(schemaOf, content)
<1>1. j \in Job /\ j.request = schemaOf /\ j.content = content
  BY DEF N!Job, Job, Contents, SchemaInv, SchemaTyped
<1> HIDE DEF j
<1>2. /\ fetching' \in Seq(Job) /\ Items(fetching') = Items(fetching) \cup {j}
      /\ Asking(fetching') = Asking(fetching) \cup {schemaOf}
      /\ Apart(fetching) /\ schemaOf \notin Asking(fetching) => Apart(fetching')
  BY <1>1, MoreJobs DEF j, SchemaInv, SchemaTyped
<1>3. SchemaTyped'
  BY <1>2 DEF SchemaInv, SchemaTyped
<1>4. EachItsOwn'
  BY <1>1, <1>2 DEF SchemaInv, EachItsOwn, N!StoredIsOwn
<1>5. ASSUME ~overtaken' PROVE OneEach' /\ KeptAndShown'
  <2>1. OneEach /\ KeptAndShown /\ N!About(schemaOf) = {}
    BY <1>5 DEF SchemaInv
  <2>2. schemaOf \notin Asking(fetching) /\ schemaOf \notin Asking(writing) /\ schemaOf \notin Asking(reading)
    BY <2>1, NobodyAsks DEF SchemaInv
  <2>3. OneEach'
    BY <1>2, <2>1, <2>2 DEF OneEach
  <2>4. N!Readable(cached[schemaOf]) => parsed' = cached[schemaOf] \/ ToBeEmpty'
    <3>1. content = N!Empty => ToBeEmpty'
      BY <1>1, <1>2 DEF ToBeEmpty
    <3>2. ToBeEmpty => ToBeEmpty'
      BY <1>2 DEF ToBeEmpty
    <3> QED
      BY <2>1, <3>1, <3>2 DEF KeptAndShown
  <2>5. KeptAndShown'
    BY <2>1, <2>4 DEF KeptAndShown, N!Readable
  <2> QED
    BY <2>3, <2>5
<1> QED
  BY <1>3, <1>4, <1>5 DEF SchemaInv

LEMMA AnsweredInv ==
    ASSUME SchemaInv, NEW k \in DOMAIN fetching, NEW content, N!Answered(k, content)
    PROVE  SchemaInv'
<1> DEFINE old == fetching[k]
           new == N!Job(old.request, content)
<1>1. /\ content \in IF old.content = N!None THEN Answers[old.request] ELSE {N!Empty}
      /\ fetching' = N!Without(fetching, k) /\ writing' = Append(writing, new)
      /\ schemaRow' = [schemaRow EXCEPT ![old.request] = content]
      /\ UNCHANGED <<cached, schemaOf, parsed, reading, overtaken>>
  BY DEF N!Answered, N!Owner
<1>2. /\ old \in Job /\ old \in Items(fetching) /\ old.request \in Asking(fetching)
      /\ fetching' \in Seq(Job) /\ Items(fetching') \subseteq Items(fetching)
      /\ Items(fetching) \ {old} \subseteq Items(fetching')
      /\ Asking(fetching') \subseteq Asking(fetching)
      /\ Apart(fetching) => Apart(fetching') /\ old.request \notin Asking(fetching')
  BY <1>1, LessJobs DEF SchemaInv, SchemaTyped
<1>3. old.request \in Requests /\ old.content \in {N!None, N!Empty}
  BY <1>2 DEF Job, SchemaInv, EachItsOwn
<1>4. content \in Answers[old.request] \cup {N!Empty} /\ content \in Contents
  BY <1>1, <1>3 DEF Contents
<1>5. new \in Job /\ new.request = old.request /\ new.content = content
  BY <1>3, <1>4 DEF N!Job, Job
<1> HIDE DEF old, new
<1>6. /\ writing' \in Seq(Job) /\ Items(writing') = Items(writing) \cup {new}
      /\ Asking(writing') = Asking(writing) \cup {old.request}
      /\ Apart(writing) /\ old.request \notin Asking(writing) => Apart(writing')
  BY <1>1, <1>5, MoreJobs DEF SchemaInv, SchemaTyped
<1>7. /\ schemaRow' \in [Requests -> Contents] /\ schemaRow'[old.request] = content
      /\ \A r \in Requests \ {old.request} : schemaRow'[r] = schemaRow[r]
  BY <1>1, <1>3, <1>4 DEF SchemaInv, SchemaTyped
<1>8. SchemaTyped'
  BY <1>1, <1>2, <1>6, <1>7 DEF SchemaInv, SchemaTyped
<1>9. EachItsOwn'
  <2>1. N!StoredIsOwn'
    <3> SUFFICES ASSUME NEW r \in Requests
                 PROVE  {schemaRow'[r], cached[r]} \subseteq Answers[r] \cup {N!None, N!Empty}
      BY <1>1 DEF N!StoredIsOwn
    <3>1. {schemaRow[r], cached[r]} \subseteq Answers[r] \cup {N!None, N!Empty}
      BY DEF SchemaInv, EachItsOwn, N!StoredIsOwn
    <3>2. CASE r = old.request
      BY <1>4, <1>7, <3>1, <3>2
    <3>3. CASE r # old.request
      BY <1>7, <3>1, <3>3
    <3> QED
      BY <3>2, <3>3
  <2> QED
    BY <1>1, <1>2, <1>4, <1>5, <1>6, <2>1 DEF SchemaInv, EachItsOwn
<1>10. ASSUME ~overtaken PROVE OneEach' /\ KeptAndShown'
  <2>1. OneEach /\ KeptAndShown
    BY <1>10 DEF SchemaInv
  <2>2. old.request \notin Asking(writing) /\ old.request \notin Asking(reading)
    BY <1>2, <2>1 DEF OneEach
  <2>3. OneEach'
    BY <1>1, <1>2, <1>6, <2>1, <2>2 DEF OneEach
  <2>4. \A r \in Requests \ Asking(writing') : cached'[r] = schemaRow'[r]
    BY <1>1, <1>6, <1>7, <2>1 DEF KeptAndShown
  <2>5. \A j \in Items(writing') : j.content = schemaRow'[j.request]
    <3>1. ASSUME NEW j \in Items(writing) PROVE j.content = schemaRow'[j.request]
      <4>1. j.request \in Asking(writing) /\ j.request \in Requests
        <5>1. j \in Job
          BY DEF Items, SchemaInv, SchemaTyped
        <5> QED
          BY <5>1 DEF Asking, Job
      <4> QED
        BY <1>7, <2>1, <2>2, <4>1 DEF KeptAndShown
    <3> QED
      BY <1>5, <1>6, <1>7, <3>1
  <2>6. \A j \in Items(reading') : j.content \in {N!None, schemaRow'[j.request]}
    <3> SUFFICES ASSUME NEW j \in Items(reading) PROVE j.content \in {N!None, schemaRow'[j.request]}
      BY <1>1
    <3>1. j.request \in Asking(reading) /\ j.request \in Requests
      <4>1. j \in Job
        BY DEF Items, SchemaInv, SchemaTyped
      <4> QED
        BY <4>1 DEF Asking, Job
    <3> QED
      BY <1>7, <2>1, <2>2, <3>1 DEF KeptAndShown
  <2>7. ToBeEmpty => ToBeEmpty'
    <3> SUFFICES ASSUME NEW j \in Items(fetching) \cup Items(writing), j.request = schemaOf,
                        j.content = N!Empty
                 PROVE  \E i \in Items(fetching') \cup Items(writing') :
                           i.request = schemaOf' /\ i.content = N!Empty
      BY DEF ToBeEmpty
    <3>1. CASE j = old
      <4>1. content = N!Empty
        BY <1>1, <3>1 DEF N!None, N!Empty
      <4> QED
        BY <1>1, <1>5, <1>6, <3>1, <4>1
    <3>2. CASE j # old
      BY <1>1, <1>2, <1>6, <3>2
    <3> QED
      BY <3>1, <3>2
  <2>8. N!Readable(cached'[schemaOf']) => parsed' = cached'[schemaOf'] \/ ToBeEmpty'
    BY <1>1, <2>1, <2>7 DEF KeptAndShown
  <2> QED
    BY <2>3, <2>4, <2>5, <2>6, <2>8 DEF KeptAndShown, N!Readable
<1> QED
  BY <1>1, <1>8, <1>9, <1>10 DEF SchemaInv

LEMMA FetchFailsInv ==
    ASSUME SchemaInv, NEW k \in DOMAIN fetching, N!FetchFails(k)
    PROVE  SchemaInv'
<1> DEFINE old == fetching[k]
<1>1. /\ old.content = N!None /\ fetching' = N!Without(fetching, k)
      /\ UNCHANGED <<schemaRow, cached, schemaOf, parsed, writing, reading, overtaken>>
  BY DEF N!FetchFails
<1>2. /\ fetching' \in Seq(Job) /\ Items(fetching') \subseteq Items(fetching)
      /\ Items(fetching) \ {old} \subseteq Items(fetching')
      /\ Asking(fetching') \subseteq Asking(fetching)
      /\ Apart(fetching) => Apart(fetching')
  BY <1>1, LessJobs DEF SchemaInv, SchemaTyped
<1> HIDE DEF old
<1>3. SchemaTyped'
  BY <1>1, <1>2 DEF SchemaInv, SchemaTyped
<1>4. EachItsOwn'
  BY <1>1, <1>2 DEF SchemaInv, EachItsOwn, N!StoredIsOwn
<1>5. ASSUME ~overtaken PROVE OneEach' /\ KeptAndShown'
  <2>1. OneEach /\ KeptAndShown
    BY <1>5 DEF SchemaInv
  <2>2. OneEach'
    BY <1>1, <1>2, <2>1 DEF OneEach
  <2>3. ToBeEmpty => ToBeEmpty'
    BY <1>1, <1>2 DEF ToBeEmpty, N!None, N!Empty
  <2> QED
    BY <1>1, <2>1, <2>2, <2>3 DEF KeptAndShown, N!Readable
<1> QED
  BY <1>1, <1>3, <1>4, <1>5 DEF SchemaInv

\* What is in the cache is what the job brought; of another request the editor hears
\* nothing.
LEMMA Caches ==
    ASSUME SchemaTyped, NEW r \in Requests, NEW content \in Contents, N!Cache(r, content),
           UNCHANGED schemaOf
    PROVE  /\ cached' \in [Requests -> Contents] /\ cached'[r] = content
           /\ \A q \in Requests \ {r} : cached'[q] = cached[q]
           /\ cached'[schemaOf] = cached[schemaOf] => parsed' = parsed
           /\ cached'[schemaOf] # cached[schemaOf] /\ N!Readable(cached'[schemaOf])
                 => parsed' = cached'[schemaOf]
<1>1. /\ cached' = [cached EXCEPT ![r] = content] /\ schemaOf \in Requests
      /\ parsed' = IF cached'[schemaOf] # cached[schemaOf] /\ N!Readable(cached'[schemaOf])
                   THEN cached'[schemaOf] ELSE parsed
  BY DEF N!Cache, N!Parse, SchemaTyped
<1>2. /\ cached' \in [Requests -> Contents] /\ cached'[r] = content
      /\ \A q \in Requests \ {r} : cached'[q] = cached[q]
  BY <1>1 DEF SchemaTyped
<1>3. PICK after : after = cached'[schemaOf]
  OBVIOUS
<1> QED
  BY <1>1, <1>2, <1>3

LEMMA SchemaWrittenInv ==
    ASSUME SchemaInv, NEW k \in DOMAIN writing, N!Written(k)
    PROVE  SchemaInv'
<1> DEFINE old == writing[k]
<1>1. /\ writing' = N!Without(writing, k) /\ N!Cache(old.request, old.content)
      /\ UNCHANGED <<schemaRow, schemaOf, fetching, reading, overtaken>>
  BY DEF N!Written
<1>2. /\ old \in Job /\ old \in Items(writing) /\ old.request \in Asking(writing)
      /\ writing' \in Seq(Job) /\ Items(writing') \subseteq Items(writing)
      /\ Items(writing) \ {old} \subseteq Items(writing')
      /\ Asking(writing') \subseteq Asking(writing)
      /\ Asking(writing) \ {old.request} \subseteq Asking(writing')
      /\ Apart(writing) => Apart(writing') /\ old.request \notin Asking(writing')
  BY <1>1, LessJobs DEF SchemaInv, SchemaTyped
<1> HIDE DEF old
<1>3. old.request \in Requests /\ old.content \in Contents
  BY <1>2 DEF Job
<1>4. /\ cached' \in [Requests -> Contents] /\ cached'[old.request] = old.content
      /\ \A q \in Requests \ {old.request} : cached'[q] = cached[q]
      /\ cached'[schemaOf] = cached[schemaOf] => parsed' = parsed
      /\ cached'[schemaOf] # cached[schemaOf] /\ N!Readable(cached'[schemaOf])
            => parsed' = cached'[schemaOf]
  BY <1>1, <1>3, Caches DEF SchemaInv
<1>5. SchemaTyped'
  BY <1>1, <1>2, <1>4 DEF SchemaInv, SchemaTyped
<1>6. EachItsOwn'
  <2>1. N!StoredIsOwn'
    <3> SUFFICES ASSUME NEW r \in Requests
                 PROVE  {schemaRow[r], cached'[r]} \subseteq Answers[r] \cup {N!None, N!Empty}
      BY <1>1 DEF N!StoredIsOwn
    <3>1. {schemaRow[r], cached[r]} \subseteq Answers[r] \cup {N!None, N!Empty}
      BY DEF SchemaInv, EachItsOwn, N!StoredIsOwn
    <3>2. old.content \in Answers[old.request] \cup {N!Empty}
      BY <1>2 DEF SchemaInv, EachItsOwn
    <3>3. CASE r = old.request
      BY <1>4, <3>1, <3>2, <3>3
    <3>4. CASE r # old.request
      BY <1>4, <3>1, <3>4
    <3> QED
      BY <3>3, <3>4
  <2> QED
    BY <1>1, <1>2, <2>1 DEF SchemaInv, EachItsOwn
<1>7. ASSUME ~overtaken PROVE OneEach' /\ KeptAndShown'
  <2>1. OneEach /\ KeptAndShown
    BY <1>7 DEF SchemaInv
  <2>2. OneEach'
    BY <1>1, <1>2, <2>1 DEF OneEach
  <2>3. old.content = schemaRow[old.request]
    BY <1>2, <2>1 DEF KeptAndShown
  <2>4. \A r \in Requests \ Asking(writing') : cached'[r] = schemaRow'[r]
    <3> SUFFICES ASSUME NEW r \in Requests \ Asking(writing') PROVE cached'[r] = schemaRow[r]
      BY <1>1
    <3>1. CASE r = old.request
      BY <1>4, <2>3, <3>1
    <3>2. CASE r # old.request
      BY <1>2, <1>4, <2>1, <3>2 DEF KeptAndShown
    <3> QED
      BY <3>1, <3>2
  <2>5. ASSUME N!Readable(cached'[schemaOf]) PROVE parsed' = cached'[schemaOf] \/ ToBeEmpty'
    <3>1. CASE cached'[schemaOf] # cached[schemaOf]
      BY <1>4, <2>5, <3>1
    <3>2. CASE cached'[schemaOf] = cached[schemaOf]
      <4>1. PICK c : c = cached[schemaOf]
        OBVIOUS
      <4>2. N!Readable(c)
        BY <2>5, <3>2, <4>1
      <4>3. parsed = c \/ ToBeEmpty
        BY <2>1, <4>1, <4>2 DEF KeptAndShown
      <4>4. CASE parsed = c
        BY <1>4, <3>2, <4>1, <4>4
      <4>5. CASE ToBeEmpty
        <5>1. PICK j \in Items(fetching) \cup Items(writing) :
                     j.request = schemaOf /\ j.content = N!Empty
          BY <4>5 DEF ToBeEmpty
        <5>2. j # old
          <6>1. ASSUME j = old PROVE FALSE
            <7>1. cached'[schemaOf] = N!Empty
              BY <1>4, <5>1, <6>1
            <7> QED
              BY <3>2, <4>1, <4>2, <7>1 DEF N!Readable
          <6> QED
            BY <6>1
        <5> QED
          BY <1>1, <1>2, <5>1, <5>2 DEF ToBeEmpty
      <4> QED
        BY <4>3, <4>4, <4>5
    <3> QED
      BY <3>1, <3>2
  <2>6. (N!Readable(cached[schemaOf]) => parsed = cached[schemaOf] \/ ToBeEmpty)'
    BY <1>1, <2>5 DEF N!Readable
  <2>7. \A j \in Items(writing') : j.content = schemaRow'[j.request]
    BY <1>1, <1>2, <2>1 DEF KeptAndShown
  <2>8. \A j \in Items(reading') : j.content \in {N!None, schemaRow'[j.request]}
    BY <1>1, <2>1 DEF KeptAndShown
  <2> QED
    BY <2>2, <2>4, <2>6, <2>7, <2>8 DEF KeptAndShown
<1> QED
  BY <1>1, <1>5, <1>6, <1>7 DEF SchemaInv

LEMMA ReadInv ==
    ASSUME SchemaInv, NEW k \in DOMAIN reading, N!Read(k)
    PROVE  SchemaInv'
<1>1. PICK new : new = [reading[k] EXCEPT !.content = schemaRow[reading[k].request]]
  OBVIOUS
<1>2. /\ reading[k] \in Job /\ k \in 1..Len(reading) /\ reading[k].request \in Requests
  <2>1. reading[k] \in Job /\ k \in 1..Len(reading)
    BY DEF SchemaInv, SchemaTyped
  <2> QED
    BY <2>1 DEF Job
<1>3. /\ new \in Job /\ new.request = reading[k].request /\ new.content = schemaRow[new.request]
  BY <1>1, <1>2 DEF SchemaInv, SchemaTyped, Job
<1>4. /\ reading' = [reading EXCEPT ![k] = new]
      /\ UNCHANGED <<schemaRow, cached, schemaOf, parsed, fetching, writing, overtaken>>
  BY <1>1 DEF N!Read
<1>5. /\ reading' \in Seq(Job) /\ Len(reading') = Len(reading)
      /\ \A i \in 1..Len(reading) : reading'[i] = IF i = k THEN new ELSE reading[i]
  BY <1>2, <1>3, <1>4 DEF SchemaInv, SchemaTyped
<1>6. \A i \in 1..Len(reading) : reading'[i].request = reading[i].request
  BY <1>3, <1>5
<1>7. Apart(reading) => Apart(reading')
  BY <1>5, <1>6 DEF Apart
<1>8. Asking(reading') \subseteq Asking(reading)
  BY <1>5, <1>6 DEF Asking, Items
<1>9. \A j \in Items(reading') : j = new \/ j \in Items(reading)
  BY <1>5 DEF Items
<1>10. SchemaTyped'
  BY <1>4, <1>5 DEF SchemaInv, SchemaTyped
<1>11. EachItsOwn'
  <2>1. N!StoredIsOwn'
    BY <1>4 DEF SchemaInv, EachItsOwn, N!StoredIsOwn
  <2>2. new.content \in Answers[new.request] \cup {N!None, N!Empty}
    BY <1>2, <1>3 DEF SchemaInv, EachItsOwn, N!StoredIsOwn
  <2> QED
    BY <1>4, <1>9, <2>1, <2>2 DEF SchemaInv, EachItsOwn
<1>12. ASSUME ~overtaken PROVE OneEach' /\ KeptAndShown'
  <2>1. OneEach /\ KeptAndShown
    BY <1>12 DEF SchemaInv
  <2>2. OneEach'
    BY <1>4, <1>7, <1>8, <2>1 DEF OneEach
  <2>3. \A j \in Items(reading') : j.content \in {N!None, schemaRow'[j.request]}
    BY <1>3, <1>4, <1>9, <2>1 DEF KeptAndShown
  <2>4. ToBeEmpty => ToBeEmpty'
    BY <1>4 DEF ToBeEmpty
  <2> QED
    BY <1>4, <2>1, <2>2, <2>3, <2>4 DEF KeptAndShown, N!Readable
<1> QED
  BY <1>4, <1>10, <1>11, <1>12 DEF SchemaInv

LEMMA ArrivesInv ==
    ASSUME SchemaInv, NEW k \in DOMAIN reading, N!Arrives(k)
    PROVE  SchemaInv'
<1> DEFINE old == reading[k]
<1>1. /\ reading' = N!Without(reading, k)
      /\ \/ old.content # N!None /\ N!Cache(old.request, old.content)
         \/ UNCHANGED <<cached, parsed>>
      /\ UNCHANGED <<schemaRow, schemaOf, fetching, writing, overtaken>>
  BY DEF N!Arrives
<1>2. /\ old \in Job /\ old \in Items(reading) /\ old.request \in Asking(reading)
      /\ reading' \in Seq(Job) /\ Items(reading') \subseteq Items(reading)
      /\ Asking(reading') \subseteq Asking(reading)
      /\ Apart(reading) => Apart(reading')
  BY <1>1, LessJobs DEF SchemaInv, SchemaTyped
<1> HIDE DEF old
<1>3. old.request \in Requests /\ old.content \in Contents
  BY <1>2 DEF Job
<1>4. CASE UNCHANGED <<cached, parsed>>
  <2>1. SchemaTyped'
    BY <1>1, <1>2, <1>4 DEF SchemaInv, SchemaTyped
  <2>2. EachItsOwn'
    BY <1>1, <1>2, <1>4 DEF SchemaInv, EachItsOwn, N!StoredIsOwn
  <2>3. ASSUME ~overtaken PROVE OneEach' /\ KeptAndShown'
    <3>1. OneEach /\ KeptAndShown
      BY <2>3 DEF SchemaInv
    <3>2. OneEach'
      BY <1>1, <1>2, <3>1 DEF OneEach
    <3>3. ToBeEmpty => ToBeEmpty'
      BY <1>1 DEF ToBeEmpty
    <3> QED
      BY <1>1, <1>2, <1>4, <3>1, <3>2, <3>3 DEF KeptAndShown, N!Readable
  <2> QED
    BY <1>1, <2>1, <2>2, <2>3 DEF SchemaInv
<1>5. CASE old.content # N!None /\ N!Cache(old.request, old.content)
  <2>1. /\ cached' \in [Requests -> Contents] /\ cached'[old.request] = old.content
        /\ \A q \in Requests \ {old.request} : cached'[q] = cached[q]
        /\ cached'[schemaOf] = cached[schemaOf] => parsed' = parsed
    BY <1>1, <1>3, <1>5, Caches DEF SchemaInv
  <2>2. SchemaTyped'
    BY <1>1, <1>2, <2>1 DEF SchemaInv, SchemaTyped
  <2>3. EachItsOwn'
    <3>1. N!StoredIsOwn'
      <4> SUFFICES ASSUME NEW r \in Requests
                   PROVE  {schemaRow[r], cached'[r]} \subseteq Answers[r] \cup {N!None, N!Empty}
        BY <1>1 DEF N!StoredIsOwn
      <4>1. {schemaRow[r], cached[r]} \subseteq Answers[r] \cup {N!None, N!Empty}
        BY DEF SchemaInv, EachItsOwn, N!StoredIsOwn
      <4>2. old.content \in Answers[old.request] \cup {N!None, N!Empty}
        BY <1>2 DEF SchemaInv, EachItsOwn
      <4>3. CASE r = old.request
        BY <2>1, <4>1, <4>2, <4>3
      <4>4. CASE r # old.request
        BY <2>1, <4>1, <4>4
      <4> QED
        BY <4>3, <4>4
    <3> QED
      BY <1>1, <1>2, <3>1 DEF SchemaInv, EachItsOwn
  <2>4. ASSUME ~overtaken PROVE OneEach' /\ KeptAndShown'
    <3>1. OneEach /\ KeptAndShown
      BY <2>4 DEF SchemaInv
    <3>2. OneEach'
      BY <1>1, <1>2, <3>1 DEF OneEach
    <3>3. old.content = schemaRow[old.request]
      BY <1>2, <1>5, <3>1 DEF KeptAndShown
    <3>4. old.request \notin Asking(writing)
      BY <1>2, <3>1 DEF OneEach
    <3>5. cached[old.request] = old.content
      BY <1>3, <3>1, <3>3, <3>4 DEF KeptAndShown
    <3>6. cached' = cached
      BY <1>3, <2>1, <3>5 DEF SchemaInv, SchemaTyped
    <3>7. parsed' = parsed
      BY <2>1, <3>6
    <3>8. ToBeEmpty => ToBeEmpty'
      BY <1>1 DEF ToBeEmpty
    <3> QED
      BY <1>1, <1>2, <3>1, <3>2, <3>6, <3>7, <3>8 DEF KeptAndShown, N!Readable
  <2> QED
    BY <1>1, <2>2, <2>3, <2>4 DEF SchemaInv
<1> QED
  BY <1>1, <1>4, <1>5

LEMMA ActivateInv ==
    ASSUME AnswersAreTexts, SchemaInv, NEW r \in Requests, NEW anew \in BOOLEAN, N!Activate(r, anew)
    PROVE  SchemaInv'
<1> DEFINE j == N!Job(r, N!None)
<1>1. /\ anew \/ r # schemaOf
      /\ schemaOf' = r
      /\ parsed' = IF N!Readable(cached[r]) /\ (anew \/ cached[r] # cached[schemaOf]) THEN cached[r]
                   ELSE IF anew THEN N!None ELSE parsed
      /\ overtaken' = (overtaken \/ N!About(r) # {} \/ (N!Clearing /\ cached[r] = cached[schemaOf]))
      /\ UNCHANGED <<schemaRow, cached, fetching, writing>>
  BY DEF N!Activate
<1>2. reading' = reading \/ reading' = Append(reading, j)
  BY DEF N!Activate
<1>3. j \in Job /\ j.request = r /\ j.content = N!None
  BY DEF N!Job, Job, Contents
<1> HIDE DEF j
<1>4. /\ reading' \in Seq(Job) /\ Items(reading') \subseteq Items(reading) \cup {j}
      /\ Asking(reading') \subseteq Asking(reading) \cup {r}
      /\ Apart(reading) /\ r \notin Asking(reading) => Apart(reading')
  <2>1. CASE reading' = reading
    BY <2>1 DEF SchemaInv, SchemaTyped
  <2>2. CASE reading' = Append(reading, j)
    BY <1>3, <2>2, MoreJobs DEF SchemaInv, SchemaTyped
  <2> QED
    BY <1>2, <2>1, <2>2
<1>5. SchemaTyped'
  BY <1>1, <1>4 DEF SchemaInv, SchemaTyped
<1>6. EachItsOwn'
  BY <1>1, <1>3, <1>4 DEF SchemaInv, EachItsOwn, N!StoredIsOwn
<1>7. ASSUME ~overtaken', N!Readable(cached[r]) PROVE parsed' = cached[r]
  <2>1. CASE anew \/ cached[r] # cached[schemaOf]
    BY <1>1, <1>7, <2>1
  <2>2. CASE ~anew /\ cached[r] = cached[schemaOf]
    <3>1. ~N!Clearing /\ ~overtaken
      BY <1>1, <1>7, <2>2
    <3>2. ~ToBeEmpty
      <4>1. SUFFICES ASSUME NEW s \in {fetching, writing}, NEW k \in 1..Len(s),
                            s[k].request = schemaOf, s[k].content = N!Empty
                     PROVE  FALSE
        BY DEF ToBeEmpty, Items
      <4>2. s \in Seq(Job)
        BY DEF SchemaInv, SchemaTyped
      <4>3. k \in DOMAIN s /\ s[k] \in Job
        BY <4>2
      <4>4. s[k] = N!Job(schemaOf, N!Empty)
        BY <4>1, <4>3 DEF Job, N!Job
      <4> QED
        BY <3>1, <4>3, <4>4 DEF N!Clearing
    <3>3. parsed = cached[schemaOf]
      BY <1>7, <2>2, <3>1, <3>2 DEF SchemaInv, KeptAndShown
    <3> QED
      BY <1>1, <2>2, <3>3
  <2> QED
    BY <2>1, <2>2
<1>8. ASSUME ~overtaken' PROVE OneEach' /\ KeptAndShown'
  <2>1. OneEach /\ KeptAndShown /\ N!About(r) = {}
    BY <1>1, <1>8 DEF SchemaInv
  <2>2. r \notin Asking(fetching) /\ r \notin Asking(writing) /\ r \notin Asking(reading)
    BY <2>1, NobodyAsks DEF SchemaInv
  <2>3. OneEach'
    BY <1>1, <1>4, <2>1, <2>2 DEF OneEach
  <2>4. (N!Readable(cached[schemaOf]) => parsed = cached[schemaOf] \/ ToBeEmpty)'
    BY <1>1, <1>7, <1>8 DEF N!Readable
  <2> QED
    BY <1>1, <1>3, <1>4, <2>1, <2>3, <2>4 DEF KeptAndShown
<1> QED
  BY <1>5, <1>6, <1>8 DEF SchemaInv

LEMMA SchemaStep == ASSUME AnswersAreTexts, SchemaInv, [N!Next]_N!vars PROVE SchemaInv'
<1>1. CASE N!Refetch
  <2>1. /\ fetching' = Append(fetching, N!Job(schemaOf, N!None))
        /\ overtaken' = (overtaken \/ N!About(schemaOf) # {})
        /\ UNCHANGED <<schemaRow, cached, schemaOf, parsed, writing, reading>>
    BY <1>1 DEF N!Refetch
  <2> QED
    BY <2>1, SchemaAsksInv
<1>2. CASE N!Clear
  <2>1. /\ fetching' = Append(fetching, N!Job(schemaOf, N!Empty))
        /\ overtaken' = (overtaken \/ N!About(schemaOf) # {})
        /\ UNCHANGED <<schemaRow, cached, schemaOf, writing, reading>>
    BY <1>2 DEF N!Clear
  <2> QED
    BY <2>1, SchemaAsksInv
<1>3. ASSUME NEW k \in DOMAIN fetching, N!FetchFails(k) PROVE SchemaInv'
  BY <1>3, FetchFailsInv
<1>4. ASSUME NEW k \in DOMAIN fetching, NEW content, N!Answered(k, content) PROVE SchemaInv'
  BY <1>4, AnsweredInv
<1>5. ASSUME NEW k \in DOMAIN writing, N!Written(k) PROVE SchemaInv'
  BY <1>5, SchemaWrittenInv
<1>6. ASSUME NEW k \in DOMAIN reading, N!Read(k) PROVE SchemaInv'
  BY <1>6, ReadInv
<1>7. ASSUME NEW k \in DOMAIN reading, N!Arrives(k) PROVE SchemaInv'
  BY <1>7, ArrivesInv
<1>8. ASSUME NEW r \in Requests, NEW anew \in BOOLEAN, N!Activate(r, anew) PROVE SchemaInv'
  BY <1>8, ActivateInv
<1>9. CASE UNCHANGED N!vars
  BY <1>9 DEF N!vars, SchemaInv, SchemaTyped, EachItsOwn, N!StoredIsOwn, OneEach, KeptAndShown,
              N!Readable, ToBeEmpty
<1> QED
  BY <1>1, <1>2, <1>3, <1>4, <1>5, <1>6, <1>7, <1>8, <1>9 DEF N!Next

LEMMA SchemaInvariant == ASSUME AnswersAreTexts PROVE N!Spec => []SchemaInv
<1>1. N!Init => SchemaInv
  BY SchemaInit
<1>2. SchemaInv /\ [N!Next]_N!vars => SchemaInv'
  BY SchemaStep
<1> QED
  BY <1>1, <1>2, PTL DEF N!Spec

\* Every job is of a request there is, and every request has a row.
THEOREM SchemaTypeCorrect == ASSUME AnswersAreTexts PROVE N!Spec => []N!TypeOK
<1>1. SchemaInv => N!TypeOK
  <2> SUFFICES ASSUME SchemaInv PROVE N!TypeOK
    OBVIOUS
  <2>1. ASSUME NEW s \in {fetching, writing, reading}, NEW k \in DOMAIN s
        PROVE  s[k].request \in Requests
    <3>1. s[k] \in Job
      BY <2>1 DEF SchemaInv, SchemaTyped
    <3> QED
      BY <3>1 DEF Job
  <2> QED
    BY <2>1 DEF SchemaInv, SchemaTyped, N!TypeOK
<1> QED
  BY <1>1, SchemaInvariant, PTL

\* Whoever is active while answers are on their way: what is stored and kept for a request
\* is what its own server said (StoredIsOwn); and at rest the cache has what is stored, and
\* the editor the schema of the active request (ShowsStored).
THEOREM SchemaIsItsOwn == ASSUME AnswersAreTexts PROVE N!Spec => []N!StoredIsOwn
<1>1. SchemaInv => N!StoredIsOwn
  BY DEF SchemaInv, EachItsOwn
<1> QED
  BY <1>1, SchemaInvariant, PTL

\* The editor shows what is stored.
THEOREM SchemaIsShown == ASSUME AnswersAreTexts PROVE N!Spec => []N!ShowsStored
<1>1. SchemaInv => N!ShowsStored
  <2> SUFFICES ASSUME SchemaInv, N!Quiet, ~overtaken
               PROVE  /\ \A r \in Requests : cached[r] = schemaRow[r]
                      /\ N!Readable(schemaRow[schemaOf]) => parsed = schemaRow[schemaOf]
    BY DEF N!ShowsStored
  <2>1. KeptAndShown /\ schemaOf \in Requests
    BY DEF SchemaInv, SchemaTyped
  <2>2. /\ Items(fetching) = {} /\ Items(writing) = {} /\ Asking(writing) = {}
    BY NoJobs DEF N!Quiet
  <2>3. \A r \in Requests : cached[r] = schemaRow[r]
    BY <2>1, <2>2 DEF KeptAndShown
  <2>4. cached[schemaOf] = schemaRow[schemaOf] /\ ~ToBeEmpty
    BY <2>1, <2>2, <2>3 DEF ToBeEmpty
  <2> QED
    BY <2>1, <2>3, <2>4 DEF KeptAndShown
<1> QED
  BY <1>1, SchemaInvariant, PTL

-----------------------------------------------------------------------------
(* The environments of a workspace. *)

CONSTANTS VariableNames, Shareable, Made
VARIABLES envs, isBase, public, variables, selected, menu, asking, encrypting, editor, apart

K == INSTANCE Environments WITH active <- menu, Names <- VariableNames

\* A workspace starts with an environment.
SomeAreMade == Made \in Nat \ {0}

\* The rows: an environment is listed once, and there is a base environment.
Workspace(es, base, values) ==
    /\ values \in Seq(K!Values) /\ Len(values) \in 1..Made
    /\ es \in Seq(1..Len(values)) /\ Once(es)
    /\ base \subseteq 1..Len(values)
    /\ \E e \in base : Among(es, e)

Editors == [of : K!Ids \cup {K!None}, vars : K!Values]
Questions ==
    [kind : {"duplicate", "delete"}, of : K!Ids, vars : K!Values,
     selected : K!Ids \cup {K!None}, base : K!Ids \cup {K!None}]

EnvironmentsTyped ==
    /\ Workspace(envs, isBase, variables)
    /\ public \subseteq 1..Len(variables)
    /\ selected \in K!Ids \cup {K!None} /\ menu \in K!Ids \cup {K!None}
    /\ asking \in Questions \cup {K!NoQuestion}
    /\ editor \in Editors /\ encrypting \in Editors /\ apart \in BOOLEAN

\* While the deletion is confirmed, the dialog shows what it showed.
AsksOfSelected == asking.kind = "delete" => selected = asking.selected

\* The editor is that of the environment that is shown, whatever its rows.
EditorIsOfShown == editor.of = K!Shown

EnvironmentsInv ==
    EnvironmentsTyped /\ AsksOfSelected /\ EditorIsOfShown /\ K!EditorShowsRow

\* What was there is there, or deleted, as it was.
Grown ==
    /\ Workspace(envs', isBase', variables')
    /\ Len(variables) <= Len(variables')
    /\ \A e \in 1..Len(variables) : variables'[e] = variables[e]

\* The library is that of this module.
LEMMA SameLibrary ==
    /\ \A S : K!Min(S) = Min(S)
    /\ \A s : K!ToSet(s) = ToSet(s)
    /\ \A s, i, x : K!InsertAt(s, i, x) = InsertAt(s, i, x)
    /\ \A s, x : K!RemoveFirst(s, x) = RemoveFirst(s, x)
<1>1. \A S : K!Min(S) = Min(S)
  BY DEF K!Min, Min
<1>2. \A s : K!ToSet(s) = ToSet(s)
  BY DEF K!ToSet, ToSet
<1>3. \A s, i, x : K!InsertAt(s, i, x) = InsertAt(s, i, x)
  BY DEF K!InsertAt, InsertAt
<1>4. \A s, x : K!RemoveFirst(s, x) = RemoveFirst(s, x)
  BY DEF K!RemoveFirst, RemoveFirst, K!RemoveAt, RemoveAt, K!SelectInSeq, SelectInSeq, K!Min, Min
<1> QED
  BY <1>1, <1>2, <1>3, <1>4

LEMMA AllSecure == K!Secure \in K!Values /\ K!NoEditor \in Editors
  BY DEF K!Secure, K!Values, K!NoEditor, Editors

LEMMA KindOfQuestion ==
    /\ K!NoQuestion.kind = "nothing"
    /\ \A q \in Questions : q # K!NoQuestion /\ q.kind \in {"duplicate", "delete"}
  BY DEF K!NoQuestion, Questions

LEMMA FirstIsBase ==
    ASSUME NEW es, NEW base, NEW values, Workspace(es, base, values), SomeAreMade
    PROVE  /\ K!Bases(es, base) # {}
           /\ K!FirstBase(es, base) \in 1..Len(values) /\ K!FirstBase(es, base) \in K!Ids
           /\ K!FirstBase(es, base) # K!None
           /\ Among(es, K!FirstBase(es, base))
<1> DEFINE at == K!Bases(es, base)
<1>1. at # {} /\ at \subseteq 1..Len(es) /\ at \subseteq Nat
  BY DEF K!Bases, Workspace, Among
<1>2. Min(at) \in at
  BY <1>1, Least
<1>3. PICK i \in 1..Len(es) : i = Min(at)
  BY <1>1, <1>2
<1>4. K!FirstBase(es, base) = es[i]
  BY <1>1, <1>3, SameLibrary DEF K!FirstBase
<1>5. es[i] \in 1..Len(values) /\ Len(values) \in 1..Made
  BY <1>3 DEF Workspace
<1> QED
  BY <1>1, <1>3, <1>4, <1>5 DEF K!Ids, K!None, Among, SomeAreMade

LEMMA ShownIs ==
    ASSUME NEW es, NEW base, NEW values, Workspace(es, base, values), SomeAreMade,
           NEW s \in K!Ids \cup {K!None}
    PROVE  /\ K!ShownOf(s, es, base) \in 0..Len(values)
           /\ K!ShownOf(s, es, base) \in K!Ids \cup {K!None}
           /\ K!ShownOf(s, es, base) = K!None <=> s # K!None /\ ~Among(es, s)
           /\ s # K!None /\ Among(es, s) => K!ShownOf(s, es, base) = s
<1>1. s \in K!ToSet(es) <=> Among(es, s)
  <2>1. DOMAIN es = 1..Len(es)
    BY DEF Workspace
  <2> QED
    BY <2>1 DEF K!ToSet, Among
<1>2. ASSUME Among(es, s) PROVE s \in 1..Len(values)
  BY <1>2 DEF Workspace, Among
<1>3. Len(values) \in Nat
  BY DEF Workspace, SomeAreMade
<1>4. CASE s = K!None
  BY <1>3, <1>4, FirstIsBase DEF K!ShownOf
<1>5. CASE s # K!None /\ Among(es, s)
  BY <1>1, <1>2, <1>5 DEF K!ShownOf
<1>6. CASE s # K!None /\ ~Among(es, s)
  BY <1>1, <1>3, <1>6 DEF K!ShownOf, K!None
<1> QED
  BY <1>4, <1>5, <1>6

LEMMA EditorsAre ==
    ASSUME NEW values \in Seq(K!Values), NEW e \in 0..Len(values), Len(values) \in 1..Made, SomeAreMade
    PROVE  /\ K!EditorOf(e, values) \in Editors /\ K!EditorOf(e, values).of = e
           /\ e # K!None => K!EditorOf(e, values).vars = values[e]
<1>1. CASE e = K!None
  BY <1>1, AllSecure DEF K!EditorOf, K!NoEditor
<1>2. CASE e # K!None
  <2>1. e \in 1..Len(values) /\ e \in K!Ids
    BY <1>2 DEF K!None, K!Ids, SomeAreMade
  <2>2. values[e] \in K!Values
    BY <2>1
  <2> QED
    BY <1>2, <2>1, <2>2 DEF K!EditorOf, Editors
<1> QED
  BY <1>1, <1>2

LEMMA EnvironmentsInit == ASSUME SomeAreMade, K!Init PROVE EnvironmentsInv
<1>1. variables = <<K!Secure>> /\ envs = <<1>> /\ isBase = {1}
  BY DEF K!Init
<1>2. variables \in Seq(K!Values) /\ Len(variables) = 1
  BY <1>1, AllSecure
<1>3. envs \in Seq(1..Len(variables)) /\ Len(envs) = 1 /\ envs[1] = 1
  BY <1>1, <1>2
<1>4. Once(envs) /\ Among(envs, 1)
  BY <1>3 DEF Once, Among
<1>5. Workspace(envs, isBase, variables)
  BY <1>1, <1>2, <1>3, <1>4 DEF Workspace, SomeAreMade
<1>6. K!Shown = 1
  <2>1. K!Shown = K!FirstBase(envs, isBase)
    BY DEF K!Init, K!Shown, K!ShownOf
  <2>2. K!FirstBase(envs, isBase) \in 1..Len(variables)
    BY <1>5, FirstIsBase
  <2> QED
    BY <1>2, <2>1, <2>2
<1>7. editor = K!EditorOf(1, variables) /\ editor \in Editors /\ editor.of = 1
  <2>1. editor = K!EditorOf(1, variables)
    BY DEF K!Init
  <2>2. 1 \in 0..Len(variables) /\ Len(variables) \in 1..Made
    BY <1>2 DEF SomeAreMade
  <2> QED
    BY <1>2, <2>1, <2>2, EditorsAre
<1>8. EnvironmentsTyped
  BY <1>5, <1>7, AllSecure DEF K!Init, EnvironmentsTyped
<1> QED
  BY <1>6, <1>7, <1>8, KindOfQuestion
  DEF EnvironmentsInv, AsksOfSelected, EditorIsOfShown, K!EditorShowsRow, K!Init

LEMMA StayGrown == ASSUME EnvironmentsTyped, K!RowsStay PROVE Grown
<1>1. Workspace(envs, isBase, variables) /\ Len(variables) \in Nat
  BY DEF EnvironmentsTyped, Workspace
<1>2. envs' = envs /\ isBase' = isBase /\ variables' = variables
  BY DEF K!RowsStay
<1> QED
  BY <1>1, <1>2 DEF Grown

\* A row more, which sorts anywhere.
LEMMA OneMore ==
    ASSUME NEW n \in Nat, NEW s \in Seq(1..n), Once(s), NEW i \in 1..(Len(s) + 1)
    PROVE  /\ InsertAt(s, i, n + 1) \in Seq(1..(n + 1)) /\ Once(InsertAt(s, i, n + 1))
           /\ \A y : Among(InsertAt(s, i, n + 1), y) <=> Among(s, y) \/ y = n + 1
<1>1. s \in Seq(1..(n + 1))
  OBVIOUS
<1>2. ~Among(s, n + 1)
  BY DEF Among
<1>3. n + 1 \in 1..(n + 1)
  OBVIOUS
<1> QED
  BY <1>1, <1>2, <1>3, Inserted

LEMMA AddedGrown ==
    ASSUME SomeAreMade, EnvironmentsTyped, NEW b \in BOOLEAN, NEW v \in K!Values, K!Added(b, v)
    PROVE  /\ Grown /\ Among(envs', K!Fresh) /\ K!Fresh \in K!Ids
           /\ K!Fresh \in 1..Len(variables') /\ K!Fresh # K!None /\ K!Fresh \notin 1..Len(variables)
<1>1. /\ variables \in Seq(K!Values) /\ Len(variables) \in 1..Made
      /\ envs \in Seq(1..Len(variables)) /\ Once(envs) /\ isBase \subseteq 1..Len(variables)
  BY DEF EnvironmentsTyped, Workspace
<1>2. K!Fresh = Len(variables) + 1 /\ K!Fresh \in 1..Made
  BY DEF K!Added, K!Ids, K!Fresh
<1>3. PICK i \in 1..(Len(envs) + 1) : envs' = InsertAt(envs, i, Len(variables) + 1)
  BY <1>2, SameLibrary DEF K!Added
<1>4. variables' = Append(variables, v)
  BY DEF K!Added
<1>5. /\ variables' \in Seq(K!Values) /\ Len(variables') = Len(variables) + 1
      /\ \A e \in 1..Len(variables) : variables'[e] = variables[e]
      /\ envs' \in Seq(1..Len(variables')) /\ Once(envs')
      /\ \A y : Among(envs', y) <=> Among(envs, y) \/ y = Len(variables) + 1
  <2>1. PICK more : more = InsertAt(envs, i, Len(variables) + 1)
    OBVIOUS
  <2>2. PICK longer : longer = Append(variables, v)
    OBVIOUS
  <2>3. /\ longer \in Seq(K!Values) /\ Len(longer) = Len(variables) + 1
        /\ \A e \in 1..Len(variables) : longer[e] = variables[e]
        /\ more \in Seq(1..(Len(variables) + 1)) /\ Once(more)
        /\ \A y : Among(more, y) <=> Among(envs, y) \/ y = Len(variables) + 1
    <3>1. Len(variables) \in Nat /\ v \in K!Values
      BY <1>1, AllSecure
    <3>2. /\ longer \in Seq(K!Values) /\ Len(longer) = Len(variables) + 1
          /\ \A e \in 1..Len(variables) : longer[e] = variables[e]
      BY <1>1, <2>2, <3>1, Appended
    <3>3. /\ more \in Seq(1..(Len(variables) + 1)) /\ Once(more)
          /\ \A y : Among(more, y) <=> Among(envs, y) \/ y = Len(variables) + 1
      BY <1>1, <1>3, <2>1, <3>1, OneMore
    <3> QED
      BY <3>2, <3>3
  <2>4. envs' = more /\ variables' = longer
    BY <1>3, <1>4, <2>1, <2>2
  <2> QED
    BY <2>3, <2>4
<1>6. isBase \subseteq isBase' /\ isBase' \subseteq 1..Len(variables')
  <2>1. isBase' = isBase \/ isBase' = isBase \cup {Len(variables) + 1}
    BY <1>2 DEF K!Added
  <2>2. isBase \subseteq 1..(Len(variables) + 1) /\ Len(variables) + 1 \in 1..(Len(variables) + 1)
    <3>1. Len(variables) \in Nat
      BY <1>1
    <3>2. PICK n \in Nat : n = Len(variables)
      BY <3>1
    <3>3. isBase \subseteq 1..n
      BY <1>1, <3>2
    <3>4. isBase \subseteq 1..(n + 1) /\ n + 1 \in 1..(n + 1)
      BY <3>3
    <3> QED
      BY <3>2, <3>4
  <2> QED
    BY <1>5, <2>1, <2>2
<1>7. \E e \in isBase' : Among(envs', e)
  BY <1>5, <1>6 DEF EnvironmentsTyped, Workspace
<1>8. Workspace(envs', isBase', variables')
  BY <1>1, <1>2, <1>5, <1>6, <1>7 DEF Workspace, SomeAreMade
<1> QED
  BY <1>1, <1>2, <1>5, <1>8 DEF Grown, K!Ids, K!None, SomeAreMade

LEMMA RemovedGrown ==
    ASSUME SomeAreMade, EnvironmentsTyped, NEW d, K!Removed(d)
    PROVE  Grown /\ \A e : Among(envs, e) /\ e # d => Among(envs', e)
<1>1. /\ variables \in Seq(K!Values) /\ Len(variables) \in 1..Made
      /\ envs \in Seq(1..Len(variables)) /\ Once(envs) /\ isBase \subseteq 1..Len(variables)
  BY DEF EnvironmentsTyped, Workspace
<1> DEFINE left == RemoveFirst(envs, d)
<1>2. /\ left \in Seq(1..Len(variables)) /\ Once(left)
      /\ \A e : Among(left, e) <=> Among(envs, e) /\ e # d
  BY <1>1, Withdrawn
<1>3. K!EnsureBase(left)
  BY SameLibrary DEF K!Removed
<1> HIDE DEF left
<1>4. CASE K!Bases(left, isBase) # {}
  <2>1. envs' = left /\ isBase' = isBase /\ variables' = variables
    BY <1>3, <1>4 DEF K!EnsureBase
  <2>2. \E e \in isBase : Among(left, e)
    BY <1>4 DEF K!Bases, Among
  <2> QED
    BY <1>1, <1>2, <2>1, <2>2 DEF Grown, Workspace
<1>5. CASE K!Bases(left, isBase) = {}
  <2>1. /\ K!Fresh \in K!Ids /\ isBase' = isBase \cup {K!Fresh}
        /\ variables' = Append(variables, K!Secure)
    BY <1>3, <1>5 DEF K!EnsureBase
  <2>2. K!Fresh = Len(variables) + 1 /\ K!Fresh \in 1..Made
    BY <2>1 DEF K!Ids, K!Fresh
  <2>3. PICK i \in 1..(Len(left) + 1) : envs' = InsertAt(left, i, Len(variables) + 1)
    BY <1>3, <1>5, <2>2, SameLibrary DEF K!EnsureBase
  <2>4. /\ variables' \in Seq(K!Values) /\ Len(variables') = Len(variables) + 1
        /\ \A e \in 1..Len(variables) : variables'[e] = variables[e]
        /\ envs' \in Seq(1..Len(variables')) /\ Once(envs')
        /\ \A y : Among(envs', y) <=> Among(left, y) \/ y = Len(variables) + 1
    <3>1. PICK more : more = InsertAt(left, i, Len(variables) + 1)
      OBVIOUS
    <3>2. PICK longer : longer = Append(variables, K!Secure)
      OBVIOUS
    <3>3. /\ longer \in Seq(K!Values) /\ Len(longer) = Len(variables) + 1
          /\ \A e \in 1..Len(variables) : longer[e] = variables[e]
          /\ more \in Seq(1..(Len(variables) + 1)) /\ Once(more)
          /\ \A y : Among(more, y) <=> Among(left, y) \/ y = Len(variables) + 1
      <4>1. Len(variables) \in Nat /\ K!Secure \in K!Values
        BY <1>1, AllSecure
      <4>2. /\ longer \in Seq(K!Values) /\ Len(longer) = Len(variables) + 1
            /\ \A e \in 1..Len(variables) : longer[e] = variables[e]
        BY <1>1, <3>2, <4>1, Appended
      <4>3. /\ more \in Seq(1..(Len(variables) + 1)) /\ Once(more)
            /\ \A y : Among(more, y) <=> Among(left, y) \/ y = Len(variables) + 1
        BY <1>1, <1>2, <2>3, <3>1, <4>1, OneMore
      <4> QED
        BY <4>2, <4>3
    <3>4. envs' = more /\ variables' = longer
      BY <2>1, <2>3, <3>1, <3>2
    <3> QED
      BY <3>3, <3>4
  <2>5. isBase' \subseteq 1..Len(variables') /\ \E e \in isBase' : Among(envs', e)
    <3>1. Len(variables) \in Nat /\ isBase' = isBase \cup {Len(variables) + 1}
      BY <1>1, <2>1, <2>2
    <3>2. isBase' \subseteq 1..Len(variables')
      <4>1. PICK n \in Nat : n = Len(variables)
        BY <3>1
      <4>2. isBase \subseteq 1..n
        BY <1>1, <4>1
      <4>3. isBase \cup {n + 1} \subseteq 1..(n + 1)
        BY <4>2
      <4> QED
        BY <2>4, <3>1, <4>1, <4>3
    <3>3. Len(variables) + 1 \in isBase' /\ Among(envs', Len(variables) + 1)
      BY <2>4, <3>1
    <3> QED
      BY <3>2, <3>3
  <2>6. Workspace(envs', isBase', variables')
    BY <1>1, <2>2, <2>4, <2>5 DEF Workspace, SomeAreMade
  <2> QED
    BY <1>1, <1>2, <2>2, <2>4, <2>6 DEF Grown, SomeAreMade
<1> QED
  BY <1>4, <1>5

\* Whatever rows there are now, the dialog shows that of its state, as it is.
LEMMA ShowInv ==
    ASSUME SomeAreMade, EnvironmentsInv, Grown, NEW s \in K!Ids \cup {K!None}, K!Show(s)
    PROVE  /\ selected' = s /\ editor' \in Editors /\ apart' \in BOOLEAN
           /\ EditorIsOfShown' /\ K!EditorShowsRow'
<1> DEFINE now == K!ShownOf(s, envs', isBase')
<1>1. /\ selected' = s
      /\ editor' = IF now = editor.of THEN editor ELSE K!EditorOf(now, variables')
      /\ apart' = (apart /\ now = editor.of)
  BY DEF K!Show
<1>2. K!Shown' = now
  BY <1>1 DEF K!Shown
<1>3. now \in 0..Len(variables')
  BY ShownIs DEF Grown
<1>4. variables' \in Seq(K!Values) /\ Len(variables') \in 1..Made
  BY DEF Grown, Workspace
<1> HIDE DEF now
<1>5. K!EditorOf(now, variables') \in Editors /\ K!EditorOf(now, variables').of = now
  BY <1>3, <1>4, EditorsAre
<1>6. editor \in Editors /\ apart \in BOOLEAN /\ editor.of = K!Shown
  BY DEF EnvironmentsInv, EnvironmentsTyped, EditorIsOfShown
<1>7. K!EditorShowsRow' <=> (~apart' => editor' = K!EditorOf(K!Shown', variables'))
  BY DEF K!EditorShowsRow
<1>8. CASE now = editor.of
  <2>1. ASSUME ~apart PROVE editor = K!EditorOf(now, variables')
    <3>1. editor = K!EditorOf(now, variables)
      BY <1>6, <1>8, <2>1 DEF EnvironmentsInv, K!EditorShowsRow
    <3>2. now = K!None \/ now \in 1..Len(variables)
      <4>1. K!Shown \in 0..Len(variables) /\ Len(variables) \in Nat
        <5>1. Workspace(envs, isBase, variables) /\ selected \in K!Ids \cup {K!None}
          BY DEF EnvironmentsInv, EnvironmentsTyped
        <5>2. K!Shown \in 0..Len(variables)
          BY <5>1, ShownIs DEF K!Shown
        <5> QED
          BY <5>1, <5>2 DEF Workspace
      <4> QED
        BY <1>6, <1>8, <4>1 DEF K!None
    <3>3. now # K!None => variables'[now] = variables[now]
      BY <3>2 DEF Grown
    <3> QED
      BY <3>1, <3>3 DEF K!EditorOf
  <2> QED
    BY <1>1, <1>2, <1>6, <1>7, <1>8, <2>1 DEF EditorIsOfShown
<1>9. CASE now # editor.of
  BY <1>1, <1>2, <1>5, <1>7, <1>9 DEF EditorIsOfShown
<1> QED
  BY <1>1, <1>8, <1>9

\* Rows that are not renewed, and rows of which only the values are.
LEMMA RestInv ==
    ASSUME EnvironmentsInv, UNCHANGED <<envs, isBase, variables, selected, editor, apart>>,
           public' \subseteq 1..Len(variables), menu' \in K!Ids \cup {K!None},
           asking' \in Questions \cup {K!NoQuestion}, encrypting' \in Editors,
           asking'.kind = "delete" => selected = asking'.selected
    PROVE  EnvironmentsInv'
<1>1. EnvironmentsTyped' /\ AsksOfSelected'
  BY DEF EnvironmentsInv, EnvironmentsTyped, AsksOfSelected
<1>2. K!Shown' = K!Shown
  BY DEF K!Shown
<1>3. EditorIsOfShown' /\ K!EditorShowsRow'
  BY <1>2 DEF EnvironmentsInv, EditorIsOfShown, K!EditorShowsRow
<1> QED
  BY <1>1, <1>3 DEF EnvironmentsInv

LEMMA ShowsInv ==
    ASSUME SomeAreMade, EnvironmentsInv, Grown, NEW s \in K!Ids \cup {K!None}, K!Show(s),
           public' \subseteq 1..Len(variables'), menu' \in K!Ids \cup {K!None},
           asking' \in Questions \cup {K!NoQuestion}, encrypting' \in Editors,
           asking'.kind = "delete" => s = asking'.selected
    PROVE  EnvironmentsInv'
<1>1. /\ selected' = s /\ editor' \in Editors /\ apart' \in BOOLEAN
      /\ EditorIsOfShown' /\ K!EditorShowsRow'
  BY ShowInv
<1>2. EnvironmentsTyped'
  BY <1>1 DEF EnvironmentsTyped, Grown
<1> QED
  BY <1>1, <1>2 DEF EnvironmentsInv, AsksOfSelected

LEMMA RowsListed ==
    ASSUME SomeAreMade, EnvironmentsTyped, NEW e, K!Exists(e)
    PROVE  Among(envs, e) /\ e \in 1..Len(variables) /\ e \in K!Ids /\ e # K!None
<1>1. envs \in Seq(1..Len(variables)) /\ Len(variables) \in 1..Made
  BY DEF EnvironmentsTyped, Workspace
<1>2. PICK i \in 1..Len(envs) : envs[i] = e
  BY <1>1 DEF K!Exists, K!ToSet
<1>3. e \in 1..Len(variables)
  BY <1>1, <1>2
<1> QED
  BY <1>1, <1>2, <1>3 DEF Among, K!Ids, K!None, SomeAreMade

LEMMA MoreRows ==
    ASSUME EnvironmentsTyped, Grown PROVE \A e \in 1..Len(variables) : e \in 1..Len(variables')
<1>1. Len(variables) \in Nat /\ Len(variables') \in Nat /\ Len(variables) <= Len(variables')
  BY DEF EnvironmentsTyped, Grown, Workspace
<1> QED
  BY <1>1

LEMMA ChangesSelection ==
    ASSUME SomeAreMade, EnvironmentsInv, K!Reopen \/ \E e \in K!ToSet(envs) : K!Select(e)
    PROVE  EnvironmentsInv'
<1>1. CASE K!Reopen
  <2>1. /\ envs' = envs /\ isBase' = isBase /\ variables' = variables /\ public' = public
        /\ menu' = menu /\ asking' = asking /\ encrypting' = encrypting
        /\ asking = K!NoQuestion /\ apart' = FALSE
        /\ selected' = IF K!Exists(menu) THEN menu ELSE K!None
        /\ editor' = K!EditorOf(K!ShownOf(selected', envs, isBase), variables)
    BY <1>1 DEF K!Reopen, K!RowsStay
  <2>2. selected' \in K!Ids \cup {K!None}
    BY <2>1 DEF EnvironmentsInv, EnvironmentsTyped
  <2>3. K!Shown' = K!ShownOf(selected', envs, isBase)
    BY <2>1 DEF K!Shown
  <2>4. PICK now : now = K!ShownOf(selected', envs, isBase)
    OBVIOUS
  <2>5. now \in 0..Len(variables) /\ variables \in Seq(K!Values) /\ Len(variables) \in 1..Made
    BY <2>2, <2>4, ShownIs DEF EnvironmentsInv, EnvironmentsTyped, Workspace
  <2>6. editor' = K!EditorOf(now, variables) /\ editor' \in Editors /\ editor'.of = now
    BY <2>1, <2>4, <2>5, EditorsAre
  <2>7. EnvironmentsTyped' /\ AsksOfSelected'
    BY <2>1, <2>2, <2>6, KindOfQuestion
    DEF EnvironmentsInv, EnvironmentsTyped, AsksOfSelected
  <2> QED
    BY <2>1, <2>3, <2>4, <2>6, <2>7 DEF EnvironmentsInv, EditorIsOfShown, K!EditorShowsRow
<1>2. ASSUME NEW e \in K!ToSet(envs), K!Select(e) PROVE EnvironmentsInv'
  <2>1. e \in K!Ids /\ EnvironmentsTyped
    BY <1>2, RowsListed DEF EnvironmentsInv, K!Exists
  <2>2. Grown
    BY <1>2, <2>1, StayGrown DEF K!Select
  <2>3. /\ K!Show(e) /\ public' = public /\ variables' = variables /\ menu' = menu
        /\ asking' = asking /\ asking = K!NoQuestion /\ encrypting' = encrypting
    BY <1>2 DEF K!Select, K!RowsStay
  <2> QED
    BY <2>1, <2>2, <2>3, ShowsInv, KindOfQuestion DEF EnvironmentsTyped
<1> QED
  BY <1>1, <1>2

LEMMA AddsEnvironment ==
    ASSUME SomeAreMade, EnvironmentsInv, K!Create \/ K!Duplicated PROVE EnvironmentsInv'
<1>1. EnvironmentsTyped /\ asking \in Questions \cup {K!NoQuestion} /\ K!Secure \in K!Values
  BY AllSecure DEF EnvironmentsInv, EnvironmentsTyped
<1>2. CASE K!Create
  <2>1. /\ K!Added(FALSE, K!Secure) /\ K!Show(K!Fresh) /\ menu' = K!Fresh
        /\ asking = K!NoQuestion /\ asking' = asking /\ encrypting' = encrypting /\ public' = public
    BY <1>2 DEF K!Create
  <2>2. Grown /\ K!Fresh \in K!Ids
    BY <1>1, <2>1, AddedGrown
  <2>3. public' \subseteq 1..Len(variables')
    BY <1>1, <2>1, <2>2, MoreRows DEF EnvironmentsTyped
  <2> QED
    BY <1>1, <2>1, <2>2, <2>3, ShowsInv, KindOfQuestion DEF EnvironmentsTyped
<1>3. CASE K!Duplicated
  <2>1. /\ K!Added(asking.of \in isBase, asking.vars) /\ K!Show(K!Fresh)
        /\ public' = public /\ asking.kind = "duplicate" /\ asking' = K!NoQuestion
        /\ menu' = menu /\ encrypting' = encrypting
    BY <1>3 DEF K!Duplicated, K!SharedWith
  <2>2. asking.vars \in K!Values
    BY <1>1, <2>1, KindOfQuestion DEF Questions
  <2>3. PICK b \in BOOLEAN : b <=> asking.of \in isBase
    <3>1. CASE asking.of \in isBase
      BY <3>1
    <3>2. CASE asking.of \notin isBase
      BY <3>2
    <3> QED
      BY <3>1, <3>2
  <2>4. K!Added(b, asking.vars)
    BY <2>1, <2>3 DEF K!Added
  <2>5. Grown /\ K!Fresh \in K!Ids
    BY <1>1, <2>2, <2>4, AddedGrown
  <2>6. public' \subseteq 1..Len(variables')
    BY <1>1, <2>1, <2>5, MoreRows DEF EnvironmentsTyped
  <2> QED
    BY <1>1, <2>1, <2>5, <2>6, ShowsInv, KindOfQuestion DEF EnvironmentsTyped
<1> QED
  BY <1>2, <1>3

LEMMA DeletesEnvironment ==
    ASSUME SomeAreMade, EnvironmentsInv,
           \/ \E e \in K!ToSet(envs) : K!OthersDelete(e)
           \/ \E confirmed \in BOOLEAN : K!Answered(confirmed)
    PROVE  EnvironmentsInv'
<1>1. EnvironmentsTyped /\ asking \in Questions \cup {K!NoQuestion}
      /\ selected \in K!Ids \cup {K!None}
  BY DEF EnvironmentsInv, EnvironmentsTyped
<1>2. ASSUME NEW e \in K!ToSet(envs), K!OthersDelete(e) PROVE EnvironmentsInv'
  <2>1. /\ K!Removed(e) /\ K!Show(selected) /\ public' = public /\ menu' = menu
        /\ asking' = asking /\ encrypting' = encrypting
    BY <1>2 DEF K!OthersDelete
  <2>2. Grown
    BY <1>1, <2>1, RemovedGrown
  <2>3. public' \subseteq 1..Len(variables')
    BY <1>1, <2>1, <2>2, MoreRows DEF EnvironmentsTyped
  <2> QED
    BY <1>1, <2>1, <2>2, <2>3, ShowsInv DEF EnvironmentsTyped, EnvironmentsInv, AsksOfSelected
<1>3. ASSUME NEW confirmed \in BOOLEAN, K!Answered(confirmed) PROVE EnvironmentsInv'
  <2> DEFINE s == K!SelectedAfter(asking.of, asking.selected, asking.base)
  <2>1. /\ asking.kind = "delete" /\ asking' = K!NoQuestion /\ K!Show(s)
        /\ public' = public /\ menu' = menu /\ encrypting' = encrypting
        /\ K!Removed(asking.of) \/ UNCHANGED <<envs, isBase, variables>>
    BY <1>3 DEF K!Answered
  <2>2. asking \in Questions
    BY <1>1, <2>1, KindOfQuestion
  <2>3. s \in K!Ids \cup {K!None}
    BY <1>1, <2>2 DEF K!SelectedAfter, Questions
  <2>4. Grown
    BY <1>1, <2>1, RemovedGrown, StayGrown DEF K!RowsStay
  <2>5. public' \subseteq 1..Len(variables')
    BY <1>1, <2>1, <2>4, MoreRows DEF EnvironmentsTyped
  <2> HIDE DEF s
  <2> QED
    BY <1>1, <2>1, <2>3, <2>4, <2>5, ShowsInv, KindOfQuestion DEF EnvironmentsTyped
<1> QED
  BY <1>2, <1>3

LEMMA ChangesValues ==
    ASSUME SomeAreMade, EnvironmentsInv,
           (\E n \in VariableNames : K!Edit(n)) \/ K!Encrypted
    PROVE  EnvironmentsInv'
<1>1. /\ EnvironmentsTyped /\ Workspace(envs, isBase, variables)
      /\ variables \in Seq(K!Values) /\ Len(variables) \in 1..Made
      /\ editor \in Editors /\ editor.of = K!Shown /\ asking \in Questions \cup {K!NoQuestion}
  BY DEF EnvironmentsInv, EnvironmentsTyped, Workspace, EditorIsOfShown
<1>2. K!Shown \in 0..Len(variables)
  BY <1>1, ShownIs DEF EnvironmentsTyped, K!Shown
\* with the values of one environment written anew
<1>3. ASSUME NEW e \in 1..Len(variables), NEW v \in K!Values,
             variables' = [variables EXCEPT ![e] = v],
             UNCHANGED <<envs, isBase, public, selected, menu, asking>>,
             encrypting' \in Editors, editor' \in Editors, apart' \in BOOLEAN,
             editor'.of = K!Shown, K!EditorShowsRow'
      PROVE  EnvironmentsInv'
  <2>1. variables' \in Seq(K!Values) /\ Len(variables') = Len(variables)
    BY <1>1, <1>3
  <2>2. Workspace(envs', isBase', variables')
    BY <1>1, <1>3, <2>1 DEF Workspace
  <2>3. K!Shown' = K!Shown
    BY <1>3 DEF K!Shown
  <2>4. EnvironmentsTyped'
    BY <1>1, <1>3, <2>1, <2>2 DEF EnvironmentsTyped
  <2> QED
    BY <1>3, <2>3, <2>4 DEF EnvironmentsInv, AsksOfSelected, EditorIsOfShown
<1>4. ASSUME NEW n \in VariableNames, K!Edit(n) PROVE EnvironmentsInv'
  <2>1. /\ editor.of # K!None /\ editor' = [editor EXCEPT !.vars[n] = "plain"]
        /\ variables' = [variables EXCEPT ![editor.of] = editor'.vars] /\ apart' = FALSE
        /\ UNCHANGED <<envs, isBase, public, selected, menu, asking, encrypting>>
    BY <1>4 DEF K!Edit
  <2>2. editor.vars \in K!Values
    BY <1>1 DEF Editors
  <2>3. [editor.vars EXCEPT ![n] = "plain"] \in K!Values
    BY <2>2 DEF K!Values
  <2>4. /\ editor' \in Editors /\ editor'.of = editor.of
        /\ editor'.vars = [editor.vars EXCEPT ![n] = "plain"] /\ editor'.vars \in K!Values
    BY <1>1, <2>1, <2>3 DEF Editors
  <2>5. PICK e : e = editor.of
    OBVIOUS
  <2>6. PICK v : v = editor'.vars
    OBVIOUS
  <2>7. e \in 1..Len(variables) /\ e # K!None /\ K!Shown = e
    BY <1>1, <1>2, <2>1, <2>5 DEF K!None
  <2>8. variables' = [variables EXCEPT ![e] = v]
    BY <2>1, <2>5, <2>6
  <2>9. variables'[e] = v
    BY <1>1, <2>7, <2>8
  <2>10. editor' = [of |-> e, vars |-> v]
    BY <2>4, <2>5, <2>6 DEF Editors
  <2>11. K!Shown' = e
    BY <2>1, <2>7 DEF K!Shown
  <2>12. K!EditorShowsRow'
    BY <2>7, <2>9, <2>10, <2>11 DEF K!EditorShowsRow, K!EditorOf
  <2>13. encrypting' \in Editors
    BY <1>1, <2>1 DEF EnvironmentsTyped
  <2>14. v \in K!Values
    BY <2>4, <2>6
  <2> QED
    BY <1>1, <1>3, <2>1, <2>4, <2>7, <2>8, <2>12, <2>13, <2>14
<1>5. CASE K!Encrypted
  <2>1. encrypting' = K!NoEditor /\ encrypting' \in Editors
    BY <1>5, AllSecure DEF K!Encrypted
  <2>2. CASE ~K!Exists(encrypting.of)
    <3>1. UNCHANGED <<envs, isBase, public, variables, selected, menu, asking, editor, apart>>
      BY <1>5, <2>2 DEF K!Encrypted
    <3> QED
      BY <1>1, <2>1, <3>1, RestInv DEF EnvironmentsTyped, EnvironmentsInv, AsksOfSelected
  <2>3. CASE K!Exists(encrypting.of)
    <3>1. PICK seen \in {variables, variables'} :
              /\ editor' = K!EditorOf(K!Shown, seen)
              /\ apart' = (K!EditorOf(K!Shown, seen) # K!EditorOf(K!Shown, variables'))
      BY <1>5, <2>3 DEF K!Encrypted
    <3>2. PICK e : e = encrypting.of
      OBVIOUS
    <3>3. /\ variables' = [variables EXCEPT ![e] = K!Secure]
          /\ UNCHANGED <<envs, isBase, public, selected, menu, asking>>
      BY <1>5, <2>3, <3>2 DEF K!Encrypted
    <3>4. e \in 1..Len(variables)
      BY <1>1, <2>3, <3>2, RowsListed
    <3>5. variables' \in Seq(K!Values) /\ Len(variables') = Len(variables)
      BY <1>1, <3>3, <3>4, AllSecure
    <3>6. seen \in Seq(K!Values) /\ Len(seen) = Len(variables)
      BY <1>1, <3>1, <3>5
    <3>7. editor' \in Editors /\ editor'.of = K!Shown
      BY <1>1, <1>2, <3>1, <3>6, EditorsAre
    <3>8. K!Shown' = K!Shown
      BY <3>3 DEF K!Shown
    <3>9. K!EditorShowsRow'
      <4>1. ASSUME ~apart' PROVE editor' = K!EditorOf(K!Shown, variables')
        BY <3>1, <4>1
      <4>2. K!EditorShowsRow' <=> (~apart' => editor' = K!EditorOf(K!Shown', variables'))
        BY DEF K!EditorShowsRow
      <4> QED
        BY <3>8, <4>1, <4>2
    <3>10. apart' \in BOOLEAN
      BY <3>1
    <3> QED
      BY <1>3, <2>1, <3>3, <3>4, <3>7, <3>9, <3>10, AllSecure
  <2> QED
    BY <2>2, <2>3
<1> QED
  BY <1>4, <1>5

LEMMA EnvironmentsStep ==
    ASSUME SomeAreMade, EnvironmentsInv, [K!Next]_K!vars PROVE EnvironmentsInv'
<1>1. /\ EnvironmentsTyped /\ public \subseteq 1..Len(variables) /\ menu \in K!Ids \cup {K!None}
      /\ asking \in Questions \cup {K!NoQuestion} /\ encrypting \in Editors
      /\ asking.kind = "delete" => selected = asking.selected
  BY DEF EnvironmentsInv, EnvironmentsTyped, AsksOfSelected
<1>2. ASSUME NEW e \in K!ToSet(envs), K!Activate(e) PROVE EnvironmentsInv'
  <2>1. e \in K!Ids
    BY <1>1, <1>2, RowsListed DEF K!Exists
  <2>2. /\ UNCHANGED <<envs, isBase, variables, selected, editor, apart>>
        /\ public' = public /\ asking' = asking /\ encrypting' = encrypting
        /\ menu' \in {K!None, e}
    BY <1>2 DEF K!Activate, K!RowsStay
  <2> QED
    BY <1>1, <2>1, <2>2, RestInv
<1>3. ASSUME NEW e \in K!ToSet(envs), K!TogglePublic(e) PROVE EnvironmentsInv'
  <2>1. e \in 1..Len(variables)
    BY <1>1, <1>3, RowsListed DEF K!Exists
  <2>2. /\ UNCHANGED <<envs, isBase, variables, selected, editor, apart>>
        /\ menu' = menu /\ asking' = asking /\ encrypting' = encrypting
        /\ public' \subseteq public \cup {e}
    BY <1>3 DEF K!TogglePublic
  <2>3. public' \subseteq 1..Len(variables)
    BY <1>1, <2>1, <2>2
  <2> QED
    BY <1>1, <2>2, <2>3, RestInv
<1>4. ASSUME NEW e \in K!ToSet(envs), NEW kind \in {"duplicate", "delete"}, K!Ask(kind, e)
      PROVE  EnvironmentsInv'
  <2>1. /\ UNCHANGED <<envs, isBase, variables, selected, editor, apart>>
        /\ public' = public /\ menu' = menu /\ encrypting' = encrypting
        /\ asking' = [kind |-> kind, of |-> e, vars |-> variables[e], selected |-> selected,
                      base |-> K!FirstBase(envs, isBase)]
    BY <1>4 DEF K!Ask, K!RowsStay
  <2>2. e \in 1..Len(variables) /\ e \in K!Ids
    BY <1>1, <1>4, RowsListed DEF K!Exists
  <2>3. variables[e] \in K!Values /\ selected \in K!Ids \cup {K!None}
    BY <1>1, <2>2 DEF EnvironmentsTyped, Workspace
  <2>4. K!FirstBase(envs, isBase) \in K!Ids
    BY FirstIsBase DEF EnvironmentsInv, EnvironmentsTyped
  <2>5. asking' \in Questions
    BY <2>1, <2>2, <2>3, <2>4 DEF Questions
  <2>6. asking'.selected = selected
    BY <2>1
  <2> QED
    BY <1>1, <2>1, <2>5, <2>6, RestInv
<1>5. CASE K!CalledOff
  <2>1. /\ UNCHANGED <<envs, isBase, variables, selected, editor, apart>>
        /\ public' = public /\ menu' = menu /\ encrypting' = encrypting
        /\ asking' = K!NoQuestion
    BY <1>5 DEF K!CalledOff, K!RowsStay
  <2> QED
    BY <1>1, <2>1, KindOfQuestion, RestInv
<1>6. CASE K!Encrypt
  <2>1. /\ UNCHANGED <<envs, isBase, variables, selected, editor, apart>>
        /\ public' = public /\ menu' = menu /\ asking' = asking
        /\ encrypting' = K!EditorOf(K!Shown, variables)
    BY <1>6 DEF K!Encrypt, K!RowsStay
  <2>2. /\ K!Shown \in 0..Len(variables) /\ variables \in Seq(K!Values)
        /\ Len(variables) \in 1..Made
    <3>1. Workspace(envs, isBase, variables) /\ selected \in K!Ids \cup {K!None}
      BY <1>1 DEF EnvironmentsTyped
    <3> QED
      BY <3>1, ShownIs DEF K!Shown, Workspace
  <2>3. encrypting' \in Editors
    BY <2>1, <2>2, EditorsAre
  <2> QED
    BY <1>1, <2>1, <2>3, RestInv
<1>7. CASE K!NotEncrypted
  <2>1. /\ UNCHANGED <<envs, isBase, variables, selected, editor, apart>>
        /\ public' = public /\ menu' = menu /\ asking' = asking
        /\ encrypting' = K!NoEditor
    BY <1>7 DEF K!NotEncrypted, K!RowsStay
  <2> QED
    BY <1>1, <2>1, AllSecure, RestInv
<1>8. CASE UNCHANGED K!vars
  BY <1>1, <1>8, RestInv DEF K!vars
<1>9. CASE K!Reopen \/ \E e \in K!ToSet(envs) : K!Select(e)
  BY <1>9, ChangesSelection
<1>10. CASE K!Create \/ K!Duplicated
  BY <1>10, AddsEnvironment
<1>11. CASE \/ \E e \in K!ToSet(envs) : K!OthersDelete(e)
            \/ \E confirmed \in BOOLEAN : K!Answered(confirmed)
  BY <1>11, DeletesEnvironment
<1>12. CASE (\E n \in VariableNames : K!Edit(n)) \/ K!Encrypted
  BY <1>12, ChangesValues
<1> QED
  BY <1>2, <1>3, <1>4, <1>5, <1>6, <1>7, <1>8, <1>9, <1>10, <1>11, <1>12 DEF K!Next

LEMMA EnvironmentsInvariant == ASSUME SomeAreMade PROVE K!Spec => []EnvironmentsInv
<1>1. K!Init => EnvironmentsInv
  BY EnvironmentsInit
<1>2. EnvironmentsInv /\ [K!Next]_K!vars => EnvironmentsInv'
  BY EnvironmentsStep
<1> QED
  BY <1>1, <1>2, PTL DEF K!Spec

\* The rows and the dialog's state have their types, and no environment is listed twice.
THEOREM EnvironmentsTypeCorrect == ASSUME SomeAreMade PROVE K!Spec => []K!TypeOK
<1>1. EnvironmentsInv => K!TypeOK
  <2> SUFFICES ASSUME EnvironmentsInv PROVE K!TypeOK
    OBVIOUS
  <2>1. /\ Workspace(envs, isBase, variables) /\ public \subseteq 1..Len(variables)
        /\ editor \in Editors /\ encrypting \in Editors
        /\ selected \in K!Ids \cup {K!None} /\ menu \in K!Ids \cup {K!None}
    BY DEF EnvironmentsInv, EnvironmentsTyped
  <2>2. /\ variables \in Seq(K!Values) /\ Len(variables) \in 1..Made
        /\ envs \in Seq(1..Len(variables)) /\ isBase \subseteq 1..Len(variables)
    BY <2>1 DEF Workspace
  <2>3. K!IsInjective(envs)
    BY <2>1, <2>2 DEF Workspace, Once, K!IsInjective
  <2>4. K!ToSet(envs) \subseteq DOMAIN variables
    BY <2>2 DEF K!ToSet
  <2>5. isBase \cup public \subseteq DOMAIN variables
    BY <2>1, <2>2
  <2>6. Len(variables) <= Made
    BY <2>2 DEF SomeAreMade
  <2> QED
    BY <2>1, <2>2, <2>3, <2>4, <2>5, <2>6 DEF K!TypeOK, Editors
<1> QED
  BY <1>1, EnvironmentsInvariant, PTL

\* However environments are deleted, by whichever window, while whatever is asked or is being
\* encrypted: a base environment is listed (AlwaysABase).
THEOREM ABaseIsKept == ASSUME SomeAreMade PROVE K!Spec => []K!AlwaysABase
<1>1. EnvironmentsInv => K!AlwaysABase
  BY FirstIsBase DEF EnvironmentsInv, EnvironmentsTyped, K!AlwaysABase
<1> QED
  BY <1>1, EnvironmentsInvariant, PTL

\* The rows that a keystroke saves, all of them, are those of the environment that is shown,
\* unless the editor was renewed before the news of the encryption came (EditorShowsRow).
THEOREM EditorHasItsRows == ASSUME SomeAreMade PROVE K!Spec => []K!EditorShowsRow
<1>1. EnvironmentsInv => K!EditorShowsRow
  BY DEF EnvironmentsInv
<1> QED
  BY <1>1, EnvironmentsInvariant, PTL

LEMMA SameCount == \A S : K!Cardinality(S) = Cardinality(S)
  BY DEF K!Cardinality, Cardinality

\* At most one is one of one.
LEMMA AtMostOne == ASSUME NEW S, NEW x, S \subseteq {x} PROVE K!Cardinality(S) <= 1
<1>1. IsFiniteSet({x}) /\ Cardinality({x}) = 1
  BY FS_Singleton
<1>2. Cardinality(S) <= Cardinality({x}) /\ Cardinality(S) \in Nat
  BY <1>1, FS_Subset, FS_CardinalityType
<1> QED
  BY <1>1, <1>2, SameCount

\* A copy of a public environment, and the base environment that is made for a deleted one,
\* are not public (NewIsPrivate).
THEOREM MadePrivate == K!Spec => [][K!NewIsPrivate]_K!vars
<1>1. [K!Next]_K!vars => [K!NewIsPrivate]_K!vars
  <2> SUFFICES ASSUME K!Next PROVE K!NewIsPrivate
    OBVIOUS
  <2>1. ASSUME NEW e \in K!ToSet(envs), K!TogglePublic(e) PROVE K!NewIsPrivate
    BY <2>1 DEF K!TogglePublic, K!NewIsPrivate
  <2>2. CASE public' = public
    BY <2>2 DEF K!NewIsPrivate
  <2>3. public' = public \/ \E e \in K!ToSet(envs) : K!TogglePublic(e)
    BY DEF K!Next, K!Select, K!Activate, K!OthersDelete, K!Ask, K!Reopen, K!Create, K!Duplicated,
           K!CalledOff, K!Answered, K!Edit, K!Encrypt, K!Encrypted, K!NotEncrypted, K!RowsStay,
           K!SharedWith
  <2> QED
    BY <2>1, <2>2, <2>3
<1> QED
  BY <1>1, PTL DEF K!Spec

Opened(e) == {n \in VariableNames : variables[e][n] = "secure" /\ variables'[e][n] = "plain"}

LEMMA NoneOpened ==
    ASSUME SomeAreMade, EnvironmentsInv, NEW e \in K!ToSet(envs),
           variables'[e] = variables[e] \/ variables'[e] = K!Secure
    PROVE  K!Cardinality(Opened(e)) <= 1
<1>1. Opened(e) = {}
  BY DEF Opened, K!Secure
<1> QED
  BY <1>1, AtMostOne

LEMMA EditOpensOne ==
    ASSUME SomeAreMade, EnvironmentsInv, ~apart, NEW n \in VariableNames, K!Edit(n),
           NEW e \in K!ToSet(envs)
    PROVE  K!Cardinality(Opened(e)) <= 1
<1>1. /\ variables \in Seq(K!Values) /\ e \in 1..Len(variables)
      /\ editor \in Editors /\ editor = K!EditorOf(K!Shown, variables)
  BY RowsListed DEF EnvironmentsInv, EnvironmentsTyped, Workspace, K!Exists, K!EditorShowsRow
<1>2. PICK d : d = editor.of
  OBVIOUS
<1>3. PICK v : v = editor'.vars
  OBVIOUS
<1>4. /\ d # K!None /\ editor' = [editor EXCEPT !.vars[n] = "plain"]
      /\ variables' = [variables EXCEPT ![d] = v]
  BY <1>2, <1>3 DEF K!Edit
<1>5. d = K!Shown /\ d # K!None /\ editor.vars = variables[d]
  <2>1. editor.of = K!Shown
    BY DEF EnvironmentsInv, EditorIsOfShown
  <2> QED
    BY <1>1, <1>2, <1>4, <2>1 DEF K!EditorOf
<1>6. CASE e # d
  <2>1. variables'[e] = variables[e]
    BY <1>1, <1>4, <1>6
  <2> QED
    BY <2>1, NoneOpened
<1>7. CASE e = d
  <2>1. variables'[e] = v
    BY <1>1, <1>4, <1>7
  <2>2. variables[e] \in K!Values
    BY <1>1
  <2>3. v = [variables[e] EXCEPT ![n] = "plain"]
    BY <1>1, <1>3, <1>4, <1>5, <1>7 DEF Editors
  <2>4. \A m \in VariableNames \ {n} : variables'[e][m] = variables[e][m]
    BY <2>1, <2>2, <2>3 DEF K!Values
  <2>5. Opened(e) \subseteq {n}
    BY <2>4 DEF Opened
  <2> QED
    BY <2>5, AtMostOne
<1> QED
  BY <1>6, <1>7

\* While the editor has the rows, a keystroke, which saves them all, opens no secret but that
\* of its own row; nothing else opens any (OthersStayClosed).
THEOREM SecretsStayWithin == ASSUME SomeAreMade PROVE K!Spec => [][K!OthersStayClosed]_K!vars
<1>1. ASSUME EnvironmentsInv, K!Next PROVE K!OthersStayClosed
  <2> SUFFICES ASSUME ~apart, NEW e \in K!ToSet(envs) PROVE K!Cardinality(Opened(e)) <= 1
    BY DEF K!OthersStayClosed, Opened
  <2>1. EnvironmentsTyped /\ variables \in Seq(K!Values) /\ e \in 1..Len(variables)
    BY <1>1, RowsListed DEF EnvironmentsInv, EnvironmentsTyped, Workspace, K!Exists
  <2>2. CASE Grown
    BY <1>1, <2>1, <2>2, NoneOpened DEF Grown
  <2>3. ASSUME NEW n \in VariableNames, K!Edit(n) PROVE K!Cardinality(Opened(e)) <= 1
    BY <1>1, <2>3, EditOpensOne
  <2>4. CASE K!Encrypted
    <3>1. PICK d : d = encrypting.of
      OBVIOUS
    <3>2. variables' = variables \/ variables' = [variables EXCEPT ![d] = K!Secure]
      BY <2>4, <3>1 DEF K!Encrypted
    <3>3. variables'[e] = variables[e] \/ variables'[e] = K!Secure
      BY <2>1, <3>2
    <3> QED
      BY <1>1, <3>3, NoneOpened
  <2>5. CASE K!RowsStay \/ UNCHANGED <<envs, isBase, variables>>
    BY <1>1, <2>5, NoneOpened DEF K!RowsStay
  <2>6. CASE K!Create
    BY <2>1, <2>2, <2>6, AddedGrown, AllSecure DEF K!Create
  <2>7. CASE K!Duplicated
    <3>1. asking.vars \in K!Values
      BY <2>1, <2>7, KindOfQuestion DEF EnvironmentsTyped, K!Duplicated, Questions
    <3>2. variables' = Append(variables, asking.vars)
      BY <2>7 DEF K!Duplicated, K!Added
    <3>3. variables'[e] = variables[e]
      BY <2>1, <3>1, <3>2
    <3> QED
      BY <1>1, <3>3, NoneOpened
  <2>8. ASSUME NEW d, K!Removed(d) PROVE K!Cardinality(Opened(e)) <= 1
    BY <2>1, <2>2, <2>8, RemovedGrown
  <2>9. \/ K!RowsStay \/ UNCHANGED <<envs, isBase, variables>>
        \/ (\E n \in VariableNames : K!Edit(n)) \/ K!Encrypted \/ K!Create \/ K!Duplicated
        \/ \E d : K!Removed(d)
    BY <1>1 DEF K!Next, K!Select, K!Activate, K!TogglePublic, K!OthersDelete, K!Ask, K!Reopen,
                K!CalledOff, K!Answered, K!Encrypt, K!NotEncrypted
  <2> QED
    BY <2>3, <2>4, <2>5, <2>6, <2>7, <2>8, <2>9
<1>2. EnvironmentsInv /\ [K!Next]_K!vars => [K!OthersStayClosed]_K!vars
  BY <1>1
<1> QED
  BY <1>2, EnvironmentsInvariant, PTL DEF K!Spec

\* After a deletion that was asked for the selected environment the dialog does not show one
\* that is gone, though the list can have changed while it was confirmed (ShowsAnother).
THEOREM DialogShowsAnother == ASSUME SomeAreMade PROVE K!Spec => [][K!ShowsAnother]_K!vars
<1>1. ASSUME EnvironmentsInv, K!Next PROVE K!ShowsAnother
  <2> SUFFICES ASSUME asking.kind = "delete", asking' = K!NoQuestion, asking.of # asking.base,
                      K!Exists(asking.base), K!ShownOf(selected, envs, isBase) # K!None
               PROVE  K!Shown' # K!None
    BY DEF K!ShowsAnother
  <2>1. /\ EnvironmentsTyped /\ Workspace(envs, isBase, variables) /\ asking \in Questions
        /\ selected \in K!Ids \cup {K!None} /\ selected = asking.selected
        /\ asking # K!NoQuestion
    BY <1>1, KindOfQuestion DEF EnvironmentsInv, EnvironmentsTyped, AsksOfSelected
  <2>2. PICK confirmed \in BOOLEAN : K!Answered(confirmed)
    <3>1. asking' # asking /\ asking.kind # "duplicate"
      BY <2>1
    <3> QED
      BY <1>1, <3>1 DEF K!Next, K!Select, K!Activate, K!TogglePublic, K!OthersDelete, K!Ask,
         K!Reopen, K!Create, K!Duplicated, K!CalledOff, K!Edit, K!Encrypt, K!Encrypted,
         K!NotEncrypted
  <2>3. PICK s : s = K!SelectedAfter(asking.of, asking.selected, asking.base)
    OBVIOUS
  <2>4. K!Show(s) /\ selected' = s
    BY <2>2, <2>3 DEF K!Answered, K!Show
  <2>5. Among(envs, asking.base) /\ asking.base \in K!Ids /\ asking.base # K!None
    BY <2>1, RowsListed
  <2>6. s \in K!Ids \cup {K!None} /\ s # asking.of /\ (s = K!None \/ Among(envs, s))
    <3>1. selected = K!None \/ Among(envs, selected)
      BY <2>1, ShownIs
    <3>2. asking.of # K!None
      BY <2>1 DEF Questions, K!Ids, K!None
    <3> QED
      BY <2>1, <2>3, <2>5, <3>1, <3>2 DEF K!SelectedAfter
  <2>7. Grown /\ (s = K!None \/ Among(envs', s))
    <3>1. CASE K!Removed(asking.of)
      BY <2>1, <2>6, <3>1, RemovedGrown
    <3>2. CASE UNCHANGED <<envs, isBase, variables>>
      BY <2>1, <2>6, <3>2, StayGrown DEF Grown, Workspace
    <3> QED
      BY <2>2, <3>1, <3>2 DEF K!Answered
  <2>8. Workspace(envs', isBase', variables')
    BY <2>7 DEF Grown
  <2>9. K!ShownOf(s, envs', isBase') # K!None
    BY <2>6, <2>7, <2>8, ShownIs
  <2> QED
    BY <2>4, <2>9 DEF K!Shown
<1>2. EnvironmentsInv /\ [K!Next]_K!vars => [K!ShowsAnother]_K!vars
  BY <1>1
<1> QED
  BY <1>2, EnvironmentsInvariant, PTL DEF K!Spec

-----------------------------------------------------------------------------
(* The settings, and the proxy. *)

CONSTANTS SettingTexts, MaxNews
VARIABLES settings, known, news, filled, behind

J == INSTANCE Settings WITH
    row <- settings, shown <- known, typed <- filled, apart <- behind, Texts <- SettingTexts

\* What is typed is text; no user and no text are none.
TypedIsText == {J!NoAuth, J!Untouched} \cap J!AllTexts = {} /\ MaxNews \in Nat

SettingsTyped ==
    /\ settings \in J!Rows /\ known \in J!Rows /\ news \in Seq(J!Rows) /\ Len(news) <= MaxNews
    /\ filled \in [J!Fields -> J!AllTexts \cup {J!Untouched}] /\ behind \subseteq J!Fields

\* A proxy is configured only while it is a custom one.
Tidy(s) == s.type # "enabled" => s.http = "" /\ s.bypass = ""

\* The row is what was written last, and all that comes was written.
LastWritten ==
    /\ settings = IF news = <<>> THEN known ELSE news[Len(news)]
    /\ Tidy(settings) /\ Tidy(known) /\ \A i \in 1..Len(news) : Tidy(news[i])

\* What was typed in a field that is there is in the row, unless other news was under way.
FilledIsWritten ==
    \A f \in J!Fields : filled[f] # J!Untouched =>
        /\ f \in J!Visible(known)
        /\ f \notin behind /\ f \in J!Visible(settings) => filled[f] = settings[f]

SettingsInv == SettingsTyped /\ LastWritten /\ FilledIsWritten

LEMMA RowsAre ==
    ASSUME NEW s \in J!Rows
    PROVE  /\ DOMAIN s = {"type", "disabled", "http", "user", "bypass", "wrap"}
           /\ s = [type |-> s.type, disabled |-> s.disabled, http |-> s.http, user |-> s.user,
                   bypass |-> s.bypass, wrap |-> s.wrap]
  BY DEF J!Rows

LEMMA SettingsInit == ASSUME TypedIsText, J!Init PROVE SettingsInv
<1>1. /\ settings = J!Off("automatic", FALSE) /\ known = settings /\ news = <<>>
      /\ filled = [f \in J!Fields |-> J!Untouched] /\ behind = {}
  BY DEF J!Init
<1>2. settings \in J!Rows /\ settings.http = "" /\ settings.bypass = ""
  BY <1>1 DEF J!Off, J!Rows, J!AllTexts
<1>3. news \in Seq(J!Rows) /\ Len(news) = 0
  BY <1>1
<1>4. SettingsTyped
  <2>1. settings \in J!Rows /\ known \in J!Rows
    BY <1>1, <1>2
  <2>2. filled \in [J!Fields -> J!AllTexts \cup {J!Untouched}]
    BY <1>1
  <2>3. Len(news) <= MaxNews /\ behind \subseteq J!Fields
    BY <1>1, <1>3 DEF TypedIsText
  <2> QED
    BY <1>3, <2>1, <2>2, <2>3 DEF SettingsTyped
<1>5. LastWritten
  <2>1. Tidy(settings) /\ Tidy(known)
    BY <1>1, <1>2 DEF Tidy
  <2>2. \A i \in 1..Len(news) : Tidy(news[i])
    BY <1>3
  <2>3. settings = IF news = <<>> THEN known ELSE news[Len(news)]
    BY <1>1
  <2> QED
    BY <2>1, <2>2, <2>3 DEF LastWritten
<1>6. FilledIsWritten
  BY <1>1 DEF FilledIsWritten
<1> QED
  BY <1>4, <1>5, <1>6 DEF SettingsInv

\* A row is written; the window does not know of it yet.
LEMMA WritesRow ==
    ASSUME TypedIsText, SettingsInv, NEW s \in J!Rows, settings' = s, Tidy(s), Len(news) < MaxNews,
           news' = Append(news, s), known' = known, behind' \subseteq J!Fields
    PROVE  /\ news' \in Seq(J!Rows) /\ Len(news') <= MaxNews /\ LastWritten'
           /\ filled' = filled => SettingsTyped'
<1>1. news \in Seq(J!Rows) /\ Len(news) \in Nat /\ MaxNews \in Nat
  BY DEF SettingsInv, SettingsTyped, TypedIsText
<1>2. PICK more : more = Append(news, s)
  OBVIOUS
<1>3. /\ more \in Seq(J!Rows) /\ Len(more) = Len(news) + 1 /\ more[Len(news) + 1] = s
      /\ \A i \in 1..Len(news) : more[i] = news[i]
  BY <1>1, <1>2, Appended
<1>4. news' = more /\ more # <<>> /\ Len(more) <= MaxNews
  BY <1>1, <1>2, <1>3
<1>5. \A i \in 1..Len(more) : Tidy(more[i])
  <2> SUFFICES ASSUME NEW i \in 1..Len(more) PROVE Tidy(more[i])
    OBVIOUS
  <2>1. i \in 1..Len(news) \/ i = Len(news) + 1
    BY <1>1, <1>3
  <2> QED
    BY <1>3, <2>1 DEF SettingsInv, LastWritten
<1>6. settings' = IF news' = <<>> THEN known' ELSE news'[Len(news')]
  BY <1>3, <1>4
<1>7. LastWritten'
  BY <1>4, <1>5, <1>6 DEF SettingsInv, LastWritten
<1> QED
  BY <1>3, <1>4, <1>7 DEF SettingsInv, SettingsTyped

\* A control other than a field writes what the window knows, with its own change.
LEMMA WritesInv ==
    ASSUME TypedIsText, SettingsInv, NEW s \in J!Rows, Tidy(s), J!Written(s, {}), filled' = filled,
           s.http = known.http, s.bypass = known.bypass,
           s.user \in {known.user, J!NoAuth} \/ known.user = J!NoAuth
    PROVE  SettingsInv'
<1>1. /\ Len(news) < MaxNews /\ settings' = s /\ news' = Append(news, s) /\ known' = known
      /\ behind' = (behind \ {}) \cup IF news = <<>> THEN {} ELSE J!Visible(known)
  BY DEF J!Written
<1>2. J!Visible(known) \subseteq J!Fields
  BY DEF J!Visible, J!Fields
<1>3. behind' \subseteq J!Fields
  BY <1>1, <1>2 DEF SettingsInv, SettingsTyped
<1>4. SettingsTyped' /\ LastWritten'
  BY <1>1, <1>3, WritesRow
<1>5. ASSUME NEW f \in J!Fields, filled[f] # J!Untouched
      PROVE  /\ f \in J!Visible(known)
             /\ f \notin behind' /\ f \in J!Visible(s) => filled[f] = s[f]
  <2>1. f \in J!Visible(known) /\ (f \notin behind /\ f \in J!Visible(settings) => filled[f] = settings[f])
    BY <1>5 DEF SettingsInv, FilledIsWritten
  <2>2. CASE news # <<>>
    BY <1>1, <2>1, <2>2
  <2>3. CASE news = <<>>
    <3>1. settings = known
      BY <2>3 DEF SettingsInv, LastWritten
    <3>2. ASSUME f \in J!Visible(s) PROVE s[f] = known[f]
      BY <2>1, <3>2 DEF J!Visible, J!Fields
    <3> QED
      BY <1>1, <2>1, <2>3, <3>1, <3>2
  <2> QED
    BY <2>1, <2>2, <2>3
<1>6. FilledIsWritten'
  <2>1. J!Visible(known)' = J!Visible(known) /\ J!Visible(settings)' = J!Visible(s)
    BY <1>1
  <2> QED
    BY <1>1, <1>5, <2>1 DEF FilledIsWritten
<1> QED
  BY <1>4, <1>6 DEF SettingsInv

LEMMA SelectTypeInv ==
    ASSUME TypedIsText, SettingsInv, NEW type \in {"automatic", "enabled", "disabled"},
           J!SelectType(type)
    PROVE  SettingsInv'
<1>1. PICK s : s = J!Chosen(type)
  OBVIOUS
<1>2. s \in J!Rows /\ Tidy(s)
  BY <1>1 DEF J!Chosen, J!Off, J!Rows, J!AllTexts, Tidy, SettingsInv, SettingsTyped
<1>3. /\ Len(news) < MaxNews /\ settings' = s /\ news' = Append(news, s)
      /\ behind' = J!Visible(known) /\ known' = known /\ filled' = filled
  BY <1>1 DEF J!SelectType
<1>4. behind' \subseteq J!Fields
  BY <1>3 DEF J!Visible, J!Fields
<1>5. SettingsTyped' /\ LastWritten'
  BY <1>2, <1>3, <1>4, WritesRow
<1>6. J!Visible(known)' = J!Visible(known)
  BY <1>3
<1>7. FilledIsWritten'
  BY <1>3, <1>6 DEF FilledIsWritten, SettingsInv
<1> QED
  BY <1>5, <1>7 DEF SettingsInv

LEMMA TogglesInv ==
    ASSUME TypedIsText, SettingsInv, J!EnableProxy \/ J!EnableAuth \/ J!ToggleWrap
    PROVE  SettingsInv'
<1>1. known \in J!Rows /\ Tidy(known)
  BY DEF SettingsInv, SettingsTyped, LastWritten
<1>2. CASE J!EnableProxy
  <2>1. PICK s : s = [known EXCEPT !.disabled = ~@]
    OBVIOUS
  <2>2. /\ s \in J!Rows /\ s.http = known.http /\ s.bypass = known.bypass
        /\ s.user = known.user /\ s.type = known.type
    BY <1>1, <2>1 DEF J!Rows
  <2>3. J!Written(s, {}) /\ filled' = filled
    BY <1>2, <2>1 DEF J!EnableProxy, J!Current
  <2> QED
    BY <1>1, <2>2, <2>3, WritesInv DEF Tidy
<1>3. CASE J!EnableAuth
  <2>1. PICK s : s = [known EXCEPT !.user = IF @ = J!NoAuth THEN "" ELSE J!NoAuth]
    OBVIOUS
  <2>2. /\ s \in J!Rows /\ s.http = known.http /\ s.bypass = known.bypass
        /\ s.user = IF known.user = J!NoAuth THEN "" ELSE J!NoAuth
        /\ s.type = known.type
    BY <1>1, <2>1 DEF J!Rows, J!AllTexts
  <2>3. J!Written(s, {}) /\ filled' = filled
    BY <1>3, <2>1 DEF J!EnableAuth, J!Current
  <2>4. Tidy(s)
    BY <1>1, <2>2 DEF Tidy
  <2>5. s.user \in {known.user, J!NoAuth} \/ known.user = J!NoAuth
    BY <2>2
  <2> QED
    BY <2>2, <2>3, <2>4, <2>5, WritesInv
<1>4. CASE J!ToggleWrap
  <2>1. PICK s : s = [known EXCEPT !.wrap = ~@]
    OBVIOUS
  <2>2. /\ s \in J!Rows /\ s.http = known.http /\ s.bypass = known.bypass
        /\ s.user = known.user /\ s.type = known.type
    BY <1>1, <2>1 DEF J!Rows
  <2>3. J!Written(s, {}) /\ filled' = filled
    BY <1>4, <2>1 DEF J!ToggleWrap, J!Current
  <2> QED
    BY <1>1, <2>2, <2>3, WritesInv DEF Tidy
<1> QED
  BY <1>2, <1>3, <1>4

LEMMA ServerTypeInv ==
    ASSUME TypedIsText, SettingsInv, NEW f \in J!Fields, NEW text \in SettingTexts, J!Type(f, text)
    PROVE  SettingsInv'
<1>1. known \in J!Rows /\ Tidy(known) /\ f \in J!Visible(known) /\ text \in J!AllTexts
  BY DEF SettingsInv, SettingsTyped, LastWritten, J!Type, J!AllTexts
<1>2. f \in {"http", "user", "bypass"} /\ known.type = "enabled"
  BY <1>1 DEF J!Visible, J!Fields
<1>3. PICK typed : typed = [known EXCEPT ![f] = text]
  OBVIOUS
<1>4. /\ typed \in J!Rows /\ typed[f] = text /\ typed.type = "enabled"
      /\ \A g \in J!Fields \ {f} : typed[g] = known[g]
  BY <1>1, <1>2, <1>3 DEF J!Rows, J!Fields
<1>5. PICK s : s = IF f = "bypass" /\ typed.user = J!NoAuth
                   THEN [typed EXCEPT !.user = ""] ELSE typed
  OBVIOUS
<1>6. /\ s \in J!Rows /\ s[f] = text /\ s.type = "enabled"
      /\ \A g \in J!Fields \ {f} : (g = "user" /\ known.user = J!NoAuth) \/ s[g] = known[g]
  BY <1>2, <1>4, <1>5 DEF J!Rows, J!Fields, J!AllTexts
<1>7. /\ Len(news) < MaxNews /\ settings' = s /\ news' = Append(news, s) /\ known' = known
      /\ behind' = (behind \ {f}) \cup IF news = <<>> THEN {} ELSE J!Visible(known)
      /\ filled' = [filled EXCEPT ![f] = text]
  BY <1>3, <1>5 DEF J!Type, J!Written, J!Current
<1>8. behind' \subseteq J!Fields /\ Tidy(s)
  BY <1>6, <1>7 DEF SettingsInv, SettingsTyped, J!Visible, J!Fields, Tidy
<1>9. /\ news' \in Seq(J!Rows) /\ Len(news') <= MaxNews /\ LastWritten'
  BY <1>6, <1>7, <1>8, WritesRow
<1>10. /\ filled \in [J!Fields -> J!AllTexts \cup {J!Untouched}]
       /\ filled' \in [J!Fields -> J!AllTexts \cup {J!Untouched}]
       /\ filled'[f] = text /\ \A g \in J!Fields \ {f} : filled'[g] = filled[g]
  BY <1>1, <1>7 DEF SettingsInv, SettingsTyped
<1>11. SettingsTyped'
  BY <1>1, <1>6, <1>7, <1>8, <1>9, <1>10 DEF SettingsTyped
<1>12. ASSUME NEW g \in J!Fields, filled'[g] # J!Untouched
       PROVE  /\ g \in J!Visible(known)
              /\ g \notin behind' /\ g \in J!Visible(s) => filled'[g] = s[g]
  <2>1. CASE g = f
    BY <1>1, <1>6, <1>10, <2>1
  <2>2. CASE g # f
    <3>1. filled'[g] = filled[g] /\ g \in J!Visible(known)
      BY <1>10, <1>12, <2>2 DEF SettingsInv, FilledIsWritten
    <3>2. CASE news # <<>>
      BY <1>7, <3>1, <3>2
    <3>3. CASE news = <<>>
      <4>1. settings = known
        BY <3>3 DEF SettingsInv, LastWritten
      <4>2. s[g] = known[g]
        BY <1>6, <2>2, <3>1 DEF J!Visible
      <4>3. g \notin behind' => filled[g] = settings[g]
        BY <1>7, <1>12, <2>2, <3>1, <4>1 DEF SettingsInv, FilledIsWritten
      <4> QED
        BY <3>1, <4>1, <4>2, <4>3
    <3> QED
      BY <3>2, <3>3
  <2> QED
    BY <2>1, <2>2
<1>13. FilledIsWritten'
  <2>1. J!Visible(known)' = J!Visible(known) /\ J!Visible(settings)' = J!Visible(s)
    BY <1>7
  <2> QED
    BY <1>7, <1>12, <2>1 DEF FilledIsWritten
<1> QED
  BY <1>9, <1>11, <1>13 DEF SettingsInv

LEMMA OthersToggleInv == ASSUME TypedIsText, SettingsInv, J!OthersToggle PROVE SettingsInv'
<1>1. settings \in J!Rows /\ Tidy(settings)
  BY DEF SettingsInv, SettingsTyped, LastWritten
<1>2. PICK s : s = [settings EXCEPT !.wrap = ~@]
  OBVIOUS
<1>3. /\ s \in J!Rows /\ s.type = settings.type /\ s.user = settings.user
      /\ \A f \in J!Fields : s[f] = settings[f]
      /\ s.http = settings.http /\ s.bypass = settings.bypass
  BY <1>1, <1>2 DEF J!Rows, J!Fields
<1>4. /\ Len(news) < MaxNews /\ settings' = s /\ news' = Append(news, s)
      /\ known' = known /\ filled' = filled /\ behind' = behind
  BY <1>2 DEF J!OthersToggle
<1>5. Tidy(s) /\ behind' \subseteq J!Fields
  BY <1>1, <1>3, <1>4 DEF Tidy, SettingsInv, SettingsTyped
<1>6. SettingsTyped' /\ LastWritten'
  BY <1>3, <1>4, <1>5, WritesRow
<1>7. J!Visible(s) = J!Visible(settings)
  BY <1>3 DEF J!Visible
<1>8. J!Visible(known)' = J!Visible(known) /\ J!Visible(settings)' = J!Visible(s)
  BY <1>4
<1>9. FilledIsWritten'
  BY <1>3, <1>4, <1>7, <1>8 DEF SettingsInv, FilledIsWritten
<1> QED
  BY <1>6, <1>9 DEF SettingsInv

LEMMA NewsInv == ASSUME TypedIsText, SettingsInv, J!News PROVE SettingsInv'
<1>1. /\ news \in Seq(J!Rows) /\ news # <<>> /\ Len(news) \in Nat \ {0}
      /\ Len(news) <= MaxNews /\ MaxNews \in Nat
  BY DEF SettingsInv, SettingsTyped, J!News, TypedIsText
<1>2. PICK s, left : s = Head(news) /\ left = Tail(news)
  OBVIOUS
<1>3. /\ s \in J!Rows /\ s = news[1] /\ left \in Seq(J!Rows) /\ Len(left) = Len(news) - 1
      /\ \A i \in 1..Len(left) : left[i] = news[i + 1]
  BY <1>1, <1>2
<1>4. /\ known' = s /\ news' = left /\ settings' = settings /\ behind' = behind \cap J!Visible(known')
      /\ filled' = [f \in J!Fields |-> IF f \in J!Visible(known') THEN filled[f] ELSE J!Untouched]
  BY <1>2 DEF J!News
<1>5. Tidy(s) /\ \A i \in 1..Len(left) : Tidy(left[i])
  BY <1>1, <1>3 DEF SettingsInv, LastWritten
<1>6. settings = IF left = <<>> THEN s ELSE left[Len(left)]
  <2>1. settings = news[Len(news)]
    BY <1>1 DEF SettingsInv, LastWritten
  <2>2. CASE left = <<>>
    <3>1. Len(news) = 1
      BY <1>1, <1>3, <2>2
    <3> QED
      BY <1>3, <2>1, <2>2, <3>1
  <2>3. CASE left # <<>>
    <3>1. Len(left) \in 1..Len(left) /\ Len(left) + 1 = Len(news)
      BY <1>1, <1>3, <2>3
    <3> QED
      BY <1>3, <2>1, <2>3, <3>1
  <2> QED
    BY <2>2, <2>3
<1>7. LastWritten'
  BY <1>4, <1>5, <1>6 DEF SettingsInv, LastWritten
<1>8. SettingsTyped'
  <2>1. /\ settings' \in J!Rows /\ known' \in J!Rows /\ news' \in Seq(J!Rows)
        /\ behind' \subseteq J!Fields
    BY <1>3, <1>4 DEF SettingsInv, SettingsTyped
  <2>2. Len(news') <= MaxNews
    BY <1>1, <1>3, <1>4
  <2>3. filled' \in [J!Fields -> J!AllTexts \cup {J!Untouched}]
    BY <1>4 DEF SettingsInv, SettingsTyped
  <2> QED
    BY <2>1, <2>2, <2>3 DEF SettingsTyped
<1>9. FilledIsWritten'
  <2>1. PICK there : there = J!Visible(s)
    OBVIOUS
  <2>2. J!Visible(known') = there /\ J!Visible(known)' = there /\ J!Visible(settings)' = J!Visible(settings)
    BY <1>4, <2>1
  <2>3. ASSUME NEW f \in J!Fields, filled'[f] # J!Untouched
        PROVE  f \in there /\ (f \notin behind' /\ f \in J!Visible(settings) => filled'[f] = settings[f])
    BY <1>4, <2>2, <2>3 DEF SettingsInv, FilledIsWritten
  <2> QED
    BY <1>4, <2>2, <2>3 DEF FilledIsWritten
<1> QED
  BY <1>7, <1>8, <1>9 DEF SettingsInv

LEMMA SettingsSafe == ASSUME TypedIsText PROVE J!Spec => []SettingsInv
<1>1. J!Init => SettingsInv
  BY SettingsInit
<1>2. SettingsInv /\ [J!Next]_J!vars => SettingsInv'
  <2> SUFFICES ASSUME SettingsInv, [J!Next]_J!vars PROVE SettingsInv'
    OBVIOUS
  <2>1. CASE J!Next
    BY <2>1, SelectTypeInv, TogglesInv, ServerTypeInv, OthersToggleInv, NewsInv DEF J!Next
  <2>2. CASE UNCHANGED J!vars
    <3>1. /\ settings' = settings /\ known' = known /\ news' = news
          /\ filled' = filled /\ behind' = behind
      BY <2>2 DEF J!vars
    <3>2. J!Visible(known)' = J!Visible(known) /\ J!Visible(settings)' = J!Visible(settings)
      BY <3>1
    <3> QED
      BY <3>1, <3>2 DEF SettingsInv, SettingsTyped, LastWritten, FilledIsWritten
  <2> QED
    BY <2>1, <2>2
<1> QED
  BY <1>1, <1>2, PTL DEF J!Spec

\* The settings and their form keep their types (the Settings of yaak-models).
THEOREM SettingsTypeCorrect == ASSUME TypedIsText PROVE J!Spec => []J!TypeOK
<1>1. SettingsInv => J!TypeOK
  <2> SUFFICES ASSUME SettingsInv PROVE J!TypeOK
    OBVIOUS
  <2>1. \A i \in DOMAIN news : news[i] \in J!Rows
    BY DEF SettingsInv, SettingsTyped
  <2> QED
    BY <2>1 DEF SettingsInv, SettingsTyped, J!TypeOK
<1> QED
  BY <1>1, SettingsSafe, PTL

\* With no news under way, and no change behind another, the form is the row.
LEMMA FormIsRow ==
    ASSUME SettingsInv, news = <<>>, behind = {}
    PROVE  /\ settings = known /\ DOMAIN J!Form = DOMAIN known
           /\ \A f \in DOMAIN known : J!Form[f] = known[f]
           /\ DOMAIN known = {"type", "disabled", "http", "user", "bypass", "wrap"}
<1>1. settings = known /\ known \in J!Rows
  BY DEF SettingsInv, SettingsTyped, LastWritten
<1>2. DOMAIN known = {"type", "disabled", "http", "user", "bypass", "wrap"}
  BY <1>1, RowsAre
<1>3. ASSUME NEW f \in DOMAIN known PROVE J!Form[f] = known[f]
  <2>1. CASE f \in J!Visible(known)
    <3>1. f \in J!Fields
      BY <2>1 DEF J!Visible, J!Fields
    <3>2. J!FieldText(f) = known[f]
      BY <1>1, <2>1, <3>1 DEF J!FieldText, SettingsInv, FilledIsWritten
    <3> QED
      BY <2>1, <3>2 DEF J!Form
  <2>2. CASE f \notin J!Visible(known)
    BY <2>2 DEF J!Form
  <2> QED
    BY <2>1, <2>2
<1> QED
  BY <1>1, <1>2, <1>3 DEF J!Form

\* A request goes through the proxy that the form says, unless a field was changed while an
\* earlier change was on its way (SettingsProxy.tsx).
THEOREM SettingsSentAsShown == ASSUME TypedIsText PROVE J!Spec => []J!SentAsShown
<1>1. SettingsInv => J!SentAsShown
  <2> SUFFICES ASSUME SettingsInv, news = <<>>, behind = {}
               PROVE  J!ProxyOf(settings) = J!ProxyOf(J!Form)
    BY DEF J!SentAsShown
  <2>1. /\ J!Form.type = settings.type /\ J!Form.disabled = settings.disabled
        /\ J!Form.http = settings.http /\ J!Form.user = settings.user
        /\ J!Form.bypass = settings.bypass
    BY FormIsRow
  <2> QED
    BY <2>1 DEF J!ProxyOf
<1> QED
  BY <1>1, SettingsSafe, PTL

\* A checkbox loses nothing: switching the proxy off and on, authentication, or a field of
\* another tab leaves the texts that the form has (SettingsProxy.tsx).
THEOREM SettingsKeepConfiguration ==
    ASSUME TypedIsText PROVE J!Spec => [][J!KeepsConfiguration]_J!vars
<1>1. SettingsInv /\ [J!Next]_J!vars => [J!KeepsConfiguration]_J!vars
  <2> SUFFICES ASSUME SettingsInv, J!Next, news = <<>>, behind = {}, filled' = filled,
                      settings' # settings, settings'.type = settings.type, behind' = {}
               PROVE  settings'.http = J!Form.http /\ settings'.bypass = J!Form.bypass
    BY DEF J!KeepsConfiguration
  <2>1. /\ J!Form.http = known.http /\ J!Form.bypass = known.bypass
        /\ settings = known /\ known \in J!Rows /\ Tidy(known)
    BY FormIsRow DEF SettingsInv, SettingsTyped, LastWritten
  <2>2. ASSUME NEW type \in {"automatic", "enabled", "disabled"}, J!SelectType(type)
        PROVE  settings'.http = known.http /\ settings'.bypass = known.bypass
    <3>1. J!Visible(known) = {} /\ settings' = J!Chosen(type)
      BY <2>2 DEF J!SelectType
    <3>2. known.http = "" /\ known.bypass = ""
      BY <2>1, <3>1 DEF J!Visible, Tidy
    <3> QED
      BY <3>1, <3>2 DEF J!Chosen, J!Off
  <2>3. ASSUME J!EnableProxy \/ J!EnableAuth \/ J!ToggleWrap
        PROVE  settings'.http = known.http /\ settings'.bypass = known.bypass
    BY <2>1, <2>3 DEF J!EnableProxy, J!EnableAuth, J!ToggleWrap, J!Written, J!Current, J!Rows
  <2>4. ASSUME J!OthersToggle
        PROVE  settings'.http = known.http /\ settings'.bypass = known.bypass
    BY <2>1, <2>4 DEF J!OthersToggle, J!Rows
  <2>5. ASSUME NEW f \in J!Fields, NEW text \in SettingTexts, J!Type(f, text) PROVE FALSE
    <3>1. filled \in [J!Fields -> J!AllTexts \cup {J!Untouched}]
      BY DEF SettingsInv, SettingsTyped
    <3>2. filled[f] = text /\ text # J!Untouched
      BY <2>5, <3>1 DEF J!Type, TypedIsText, J!AllTexts
    <3> QED
      BY <2>5, <3>2 DEF J!Type, J!FieldText
  <2>6. ~J!News
    BY DEF J!News
  <2> QED
    BY <2>1, <2>2, <2>3, <2>4, <2>5, <2>6 DEF J!Next
<1> QED
  BY <1>1, SettingsSafe, PTL DEF J!Spec

-----------------------------------------------------------------------------
(* The theme. *)

CONSTANT MaxRuns
VARIABLES chosen, preferred, plugin, runs, document, removed, preview

M == INSTANCE Theme WITH settings <- chosen

SomeRuns == MaxRuns \in Nat \ {0}

Themes == {M!Light, M!Dark, M!Own}
RunsOf == [wants : Themes \cup {"asked"}, old : BOOLEAN]
Wants == M!Wanted(preferred, chosen)

ThemeTyped ==
    /\ chosen \in [appearance : M!Appearances \cup {"system"}, themeDark : {M!Dark, M!Own}]
    /\ preferred \in M!Appearances /\ plugin \in BOOLEAN
    /\ runs \in Seq(RunsOf) /\ Len(runs) <= MaxRuns
    /\ document \in [theme : Themes \cup {"none"}, old : BOOLEAN]
    /\ preview \in Themes \cup {"asked"}

\* The last run, unless a later one has ended, has read the settings as they are, if any.
LastRunIsOfNow ==
    runs # <<>> /\ ~runs[Len(runs)].old => runs[Len(runs)].wants \in {"asked", Wants}

DocumentIsOfNow ==
    runs = <<>> /\ ~document.old /\ ~removed => document.theme = M!Resolved(Wants, plugin)

PreviewIsOfNow == preview \in {"asked", M!Resolved(Wants, plugin)}

ThemeInv == ThemeTyped /\ LastRunIsOfNow /\ DocumentIsOfNow /\ PreviewIsOfNow

LEMMA RunIsRun == M!Run \in RunsOf /\ M!Run.wants = "asked" /\ M!Run.old = FALSE
  BY DEF M!Run, RunsOf

LEMMA WantedIsATheme ==
    ASSUME NEW pref, NEW there,
           NEW s \in [appearance : M!Appearances \cup {"system"}, themeDark : {M!Dark, M!Own}]
    PROVE  /\ M!Wanted(pref, s) \in Themes /\ M!Wanted(pref, s) # "asked"
           /\ \A t \in Themes : M!Resolved(t, there) \in Themes /\ t # "asked"
  BY DEF M!Wanted, M!Resolved, Themes, M!Light, M!Dark, M!Own

LEMMA ThemeInit == ASSUME SomeRuns, M!Init PROVE ThemeInv
<1>1. /\ chosen = [appearance |-> "system", themeDark |-> M!Dark]
      /\ preferred \in M!Appearances /\ plugin \in BOOLEAN
      /\ runs = <<M!Run>> /\ document = [theme |-> "none", old |-> FALSE]
      /\ preview = "asked"
  BY DEF M!Init
<1>2. runs \in Seq(RunsOf) /\ Len(runs) = 1 /\ runs[1] = M!Run /\ runs # <<>>
  BY <1>1, RunIsRun, Single
<1>3. ThemeTyped
  BY <1>1, <1>2 DEF ThemeTyped, SomeRuns
<1>4. LastRunIsOfNow
  BY <1>2, RunIsRun DEF LastRunIsOfNow
<1>5. DocumentIsOfNow /\ PreviewIsOfNow
  BY <1>1, <1>2 DEF DocumentIsOfNow, PreviewIsOfNow
<1> QED
  BY <1>3, <1>4, <1>5 DEF ThemeInv

\* A run that starts is the last, and has read nothing.
LEMMA ConfigureInv ==
    ASSUME SomeRuns, ThemeInv, M!Configure,
           chosen' \in [appearance : M!Appearances \cup {"system"}, themeDark : {M!Dark, M!Own}],
           preferred' \in M!Appearances, plugin' \in BOOLEAN
    PROVE  ThemeInv'
<1>1. runs \in Seq(RunsOf) /\ Len(runs) \in Nat /\ MaxRuns \in Nat /\ Len(runs) < MaxRuns
  BY DEF ThemeInv, ThemeTyped, SomeRuns, M!Configure
<1>2. PICK more : more = Append(runs, M!Run)
  OBVIOUS
<1>3. /\ more \in Seq(RunsOf) /\ Len(more) = Len(runs) + 1 /\ more[Len(runs) + 1] = M!Run
  BY <1>1, <1>2, RunIsRun, Appended
<1>4. /\ runs' = more /\ more # <<>> /\ Len(more) <= MaxRuns /\ preview' = "asked"
      /\ document' = document
  BY <1>1, <1>2, <1>3 DEF M!Configure
<1>5. ThemeTyped'
  BY <1>3, <1>4 DEF ThemeInv, ThemeTyped
<1>6. runs'[Len(runs')].wants = "asked" /\ runs' # <<>>
  BY <1>3, <1>4, RunIsRun
<1>7. LastRunIsOfNow' /\ DocumentIsOfNow' /\ PreviewIsOfNow'
  BY <1>4, <1>6 DEF LastRunIsOfNow, DocumentIsOfNow, PreviewIsOfNow
<1> QED
  BY <1>5, <1>7 DEF ThemeInv

LEMMA ChooseInv ==
    ASSUME SomeRuns, ThemeInv, NEW a \in M!Appearances \cup {"system"}, NEW d \in {M!Dark, M!Own},
           M!Choose(a, d)
    PROVE  ThemeInv'
<1>1. /\ chosen' = [appearance |-> a, themeDark |-> d] /\ preferred' = preferred
      /\ plugin' = plugin /\ M!Configure
  BY DEF M!Choose
<1> QED
  BY <1>1, ConfigureInv DEF ThemeInv, ThemeTyped

LEMMA ChangesInv ==
    ASSUME SomeRuns, ThemeInv, M!Installed \/ \E a \in M!Appearances : M!Prefers(a)
    PROVE  ThemeInv'
<1>1. M!Configure /\ chosen' = chosen /\ preferred' \in M!Appearances /\ plugin' \in BOOLEAN
  BY DEF M!Installed, M!Prefers, ThemeInv, ThemeTyped
<1> QED
  BY <1>1, ConfigureInv DEF ThemeInv, ThemeTyped

LEMMA UninstalledInv == ASSUME SomeRuns, ThemeInv, M!Uninstalled PROVE ThemeInv'
<1>1. /\ chosen' = chosen /\ preferred' = preferred /\ plugin' = FALSE /\ runs' = runs
      /\ document' = document /\ removed' = TRUE /\ preview' = "asked"
  BY DEF M!Uninstalled
<1>2. Wants' = Wants
  BY <1>1 DEF Wants
<1> QED
  BY <1>1, <1>2
     DEF ThemeInv, ThemeTyped, LastRunIsOfNow, DocumentIsOfNow, PreviewIsOfNow

LEMMA PreviewedInv == ASSUME SomeRuns, ThemeInv, M!Previewed PROVE ThemeInv'
<1>1. /\ chosen' = chosen /\ preferred' = preferred /\ plugin' = plugin /\ runs' = runs
      /\ document' = document /\ removed' = removed /\ preview' = M!Resolved(Wants, plugin)
  BY DEF M!Previewed, Wants
<1>2. Wants' = Wants /\ Wants \in Themes /\ M!Resolved(Wants, plugin)' = M!Resolved(Wants, plugin)
      /\ M!Resolved(Wants, plugin) \in Themes
  BY <1>1, WantedIsATheme DEF Wants, ThemeInv, ThemeTyped
<1> QED
  BY <1>1, <1>2
     DEF ThemeInv, ThemeTyped, LastRunIsOfNow, DocumentIsOfNow, PreviewIsOfNow

LEMMA HasSettingsInv ==
    ASSUME SomeRuns, ThemeInv, NEW i \in DOMAIN runs, M!HasSettings(i) PROVE ThemeInv'
<1>1. /\ chosen' = chosen /\ preferred' = preferred /\ plugin' = plugin
      /\ document' = document /\ removed' = removed /\ preview' = preview
      /\ runs' = [runs EXCEPT ![i].wants = Wants]
  BY DEF M!HasSettings, Wants
<1>2. /\ runs \in Seq(RunsOf) /\ Len(runs) \in Nat /\ i \in 1..Len(runs)
  BY DEF ThemeInv, ThemeTyped
<1>3. Wants \in Themes /\ Wants' = Wants /\ M!Resolved(Wants, plugin)' = M!Resolved(Wants, plugin)
  BY <1>1, WantedIsATheme DEF Wants, ThemeInv, ThemeTyped
<1>4. PICK e : e = [runs[i] EXCEPT !.wants = Wants]
  OBVIOUS
<1>5. e \in RunsOf /\ e.wants = Wants /\ e.old = runs[i].old
  <2>1. PICK r \in RunsOf : r = runs[i]
    BY <1>2
  <2>2. PICK w \in Themes : w = Wants
    BY <1>3
  <2>3. e = [r EXCEPT !.wants = w]
    BY <1>4, <2>1, <2>2
  <2> QED
    BY <2>1, <2>2, <2>3 DEF RunsOf
<1>6. PICK now : now = [runs EXCEPT ![i] = e]
  OBVIOUS
<1>7. /\ now \in Seq(RunsOf) /\ Len(now) = Len(runs)
      /\ \A j \in 1..Len(runs) : now[j] = IF j = i THEN e ELSE runs[j]
  BY <1>2, <1>5, <1>6
<1>8. runs' = now /\ runs # <<>> /\ now # <<>>
  BY <1>1, <1>2, <1>4, <1>6, <1>7
<1>9. ThemeTyped'
  BY <1>1, <1>7, <1>8 DEF ThemeInv, ThemeTyped
<1>10. LastRunIsOfNow'
  <2>1. Len(now) \in 1..Len(runs)
    BY <1>2, <1>7
  <2> QED
    BY <1>3, <1>5, <1>7, <1>8, <2>1 DEF ThemeInv, LastRunIsOfNow
<1>11. DocumentIsOfNow' /\ PreviewIsOfNow'
  BY <1>1, <1>3, <1>8 DEF ThemeInv, DocumentIsOfNow, PreviewIsOfNow
<1> QED
  BY <1>9, <1>10, <1>11 DEF ThemeInv

LEMMA EndsInv ==
    ASSUME SomeRuns, ThemeInv, NEW i \in DOMAIN runs, M!Ends(i) PROVE ThemeInv'
<1>1. /\ chosen' = chosen /\ preferred' = preferred /\ plugin' = plugin
      /\ removed' = removed /\ preview' = preview /\ runs[i].wants # "asked"
      /\ document' = [theme |-> M!Resolved(runs[i].wants, plugin), old |-> runs[i].old]
  BY DEF M!Ends
<1>2. /\ runs \in Seq(RunsOf) /\ Len(runs) \in Nat /\ i \in 1..Len(runs) /\ Len(runs) <= MaxRuns
      /\ MaxRuns \in Nat
  BY DEF ThemeInv, ThemeTyped, SomeRuns
<1>3. Wants' = Wants /\ M!Resolved(Wants, plugin)' = M!Resolved(Wants, plugin)
  BY <1>1 DEF Wants
<1>4. PICK aged : aged = [j \in DOMAIN runs |->
                            IF j < i THEN [runs[j] EXCEPT !.old = TRUE] ELSE runs[j]]
  OBVIOUS
<1>5. /\ aged \in Seq(RunsOf) /\ Len(aged) = Len(runs) /\ i \in DOMAIN aged
      /\ \A j \in 1..Len(runs) : (j < i => aged[j].old) /\ (j >= i => aged[j] = runs[j])
  <2>1. ASSUME NEW j \in 1..Len(runs) PROVE aged[j] \in RunsOf
    <3>1. PICK r \in RunsOf : r = runs[j]
      BY <1>2
    <3>2. j \in DOMAIN runs
      BY <1>2
    <3>3. aged[j] = IF j < i THEN [r EXCEPT !.old = TRUE] ELSE r
      BY <1>4, <3>1, <3>2
    <3> QED
      BY <3>1, <3>3 DEF RunsOf
  <2>2. aged = [j \in 1..Len(runs) |-> aged[j]]
    BY <1>2, <1>4
  <2>3. aged \in Seq(RunsOf) /\ Len(aged) = Len(runs)
    BY <1>2, <2>1, <2>2
  <2>4. \A j \in 1..Len(runs) : (j < i => aged[j].old) /\ (j >= i => aged[j] = runs[j])
    BY <1>2, <1>4 DEF RunsOf
  <2> QED
    BY <1>2, <2>3, <2>4
<1>6. PICK left : left = SubSeq(aged, 1, i - 1) \o SubSeq(aged, i + 1, Len(aged))
  OBVIOUS
<1>7. /\ left \in Seq(RunsOf) /\ Len(left) = Len(runs) - 1
      /\ \A j \in 1..Len(left) : /\ j < i => left[j] = aged[j]
                                 /\ j >= i => left[j] = aged[j + 1]
  BY <1>5, <1>6, WithoutItem
<1>8. runs' = left
  BY <1>4, <1>6 DEF M!Ends, M!RemoveAt
<1>9. document' \in [theme : Themes \cup {"none"}, old : BOOLEAN]
  <2>1. runs[i] \in RunsOf /\ runs[i].wants \in Themes
    <3>1. PICK r \in RunsOf : r = runs[i]
      BY <1>2
    <3> QED
      BY <1>1, <3>1 DEF RunsOf
  <2>2. M!Resolved(runs[i].wants, plugin) \in Themes
    BY <2>1, WantedIsATheme DEF ThemeInv, ThemeTyped
  <2> QED
    BY <1>1, <2>1, <2>2 DEF RunsOf
<1>10. ThemeTyped'
  <2>1. Len(left) <= MaxRuns
    BY <1>2, <1>7
  <2> QED
    BY <1>1, <1>7, <1>8, <1>9, <2>1 DEF ThemeInv, ThemeTyped
<1>11. LastRunIsOfNow'
  <2>1. CASE i = Len(runs)
    <3>1. ASSUME left # <<>> PROVE left[Len(left)].old
      <4>1. Len(left) \in 1..Len(left) /\ Len(left) < i /\ Len(left) \in 1..Len(runs)
        BY <1>2, <1>7, <2>1, <3>1
      <4> QED
        BY <1>5, <1>7, <4>1
    <3> QED
      BY <1>8, <3>1 DEF LastRunIsOfNow
  <2>2. CASE i < Len(runs)
    <3>1. Len(left) \in 1..Len(left) /\ Len(left) >= i /\ Len(left) + 1 = Len(runs)
      BY <1>2, <1>7, <2>2
    <3>2. left[Len(left)] = runs[Len(runs)] /\ runs # <<>>
      BY <1>2, <1>5, <1>7, <3>1
    <3> QED
      BY <1>3, <1>8, <3>2 DEF ThemeInv, LastRunIsOfNow
  <2> QED
    BY <1>2, <2>1, <2>2
<1>12. DocumentIsOfNow'
  <2>1. ASSUME left = <<>>, ~runs[i].old PROVE runs[i].wants = Wants
    <3>1. i = Len(runs) /\ runs # <<>>
      BY <1>2, <1>7, <2>1
    <3> QED
      BY <1>1, <2>1, <3>1 DEF ThemeInv, LastRunIsOfNow
  <2> QED
    BY <1>1, <1>3, <1>8, <2>1 DEF DocumentIsOfNow
<1>13. PreviewIsOfNow'
  BY <1>1, <1>3 DEF ThemeInv, PreviewIsOfNow
<1> QED
  BY <1>10, <1>11, <1>12, <1>13 DEF ThemeInv

LEMMA ThemeSafe == ASSUME SomeRuns PROVE M!Spec => []ThemeInv
<1>1. M!Init => ThemeInv
  BY ThemeInit
<1>2. ThemeInv /\ [M!Next]_M!vars => ThemeInv'
  <2> SUFFICES ASSUME ThemeInv, [M!Next]_M!vars PROVE ThemeInv'
    OBVIOUS
  <2>1. CASE M!Next
    BY <2>1, ChooseInv, ChangesInv, UninstalledInv, PreviewedInv, HasSettingsInv, EndsInv
       DEF M!Next
  <2>2. CASE UNCHANGED M!vars
    <3>1. /\ chosen' = chosen /\ preferred' = preferred /\ plugin' = plugin /\ runs' = runs
          /\ document' = document /\ removed' = removed /\ preview' = preview
      BY <2>2 DEF M!vars
    <3>2. Wants' = Wants /\ M!Resolved(Wants, plugin)' = M!Resolved(Wants, plugin)
      BY <3>1 DEF Wants
    <3> QED
      BY <3>1, <3>2
         DEF ThemeInv, ThemeTyped, LastRunIsOfNow, DocumentIsOfNow, PreviewIsOfNow
  <2> QED
    BY <2>1, <2>2
<1> QED
  BY <1>1, <1>2, PTL DEF M!Spec

\* The settings, the runs and the document keep their types (useSyncThemes and themes.ts).
THEOREM ThemeTypeCorrect == ASSUME SomeRuns PROVE M!Spec => []M!TypeOK
<1>1. ThemeInv => M!TypeOK
  <2> SUFFICES ASSUME ThemeInv PROVE M!TypeOK
    OBVIOUS
  <2>1. RunsOf = [wants : {"asked", M!Light, M!Dark, M!Own}, old : BOOLEAN]
    <3>1. Themes \cup {"asked"} = {"asked", M!Light, M!Dark, M!Own}
      BY DEF Themes
    <3> QED
      BY <3>1 DEF RunsOf
  <2>2. \A i \in DOMAIN runs : runs[i] \in RunsOf
    BY DEF ThemeInv, ThemeTyped
  <2> QED
    BY <2>1, <2>2 DEF ThemeInv, ThemeTyped, Themes, M!TypeOK
<1> QED
  BY <1>1, ThemeSafe, PTL

\* When all runs have ended, the last one last, the document has the theme of the settings,
\* and the settings' page shows it, unless a plugin was removed since.
THEOREM DocumentHasItsTheme == ASSUME SomeRuns PROVE M!Spec => []M!DocumentHasTheme
<1>1. ThemeInv => M!DocumentHasTheme
  BY DEF ThemeInv, DocumentIsOfNow, PreviewIsOfNow, Wants, M!DocumentHasTheme
<1> QED
  BY <1>1, ThemeSafe, PTL

\* Whatever colours a plugin's theme leaves out, the document has every variable
\* (completeTheme and getThemeCSS): in any state.
THEOREM StyleHasAll == M!Spec => []M!StyleIsComplete
<1>1. ASSUME NEW names \in SUBSET M!Given PROVE M!getThemeCSS(names) = M!Names
  <2>1. PICK base : base = names \cup {"primary", "surface", "text"}
    OBVIOUS
  <2>2. PICK with : with = base \cup M!From(base, "surfaceHighlight", "surface")
                                \cup M!From(base, "surfaceActive", "primary")
                                \cup M!From(base, "border", "surface")
    OBVIOUS
  <2>3. with \subseteq M!Given
    BY <2>1, <2>2 DEF M!From, M!Given
  <2>4. {"primary", "surface", "text", "surfaceHighlight", "surfaceActive", "border"} \subseteq with
    BY <2>1, <2>2 DEF M!From
  <2>5. M!completeTheme(names) = M!Given
    BY <2>1, <2>2, <2>3, <2>4 DEF M!completeTheme, M!From, M!Given
  <2>6. M!themeVariables(M!Given) = M!Names
    BY DEF M!themeVariables, M!From, M!Given, M!Names
  <2> QED
    BY <2>5, <2>6 DEF M!getThemeCSS
<1>2. M!StyleIsComplete
  BY <1>1 DEF M!StyleIsComplete
<1> QED
  BY <1>2, PTL

-----------------------------------------------------------------------------
(* The sidebar's width, and whether it is hidden. *)

CONSTANTS Widths, MaxLayoutCalls
VARIABLES keyRows, keyCalls, width, dragging, floating, floats, wanted, disordered

O == INSTANCE Layout WITH rows <- keyRows, calls <- keyCalls, MaxCalls <- MaxLayoutCalls

\* The handle is moved to numbers, also beyond the window.
WidthsAreNumbers == Widths \subseteq Int

AllWidths == Widths \cup {O!Default}
CallsOf == [value : BOOLEAN, row : {0, 1}, then : {w \in AllWidths : w >= O!Narrow} \cup {O!None}]

\* A write that found a row will find it, and none leaves a narrow sidebar.
LayoutTyped ==
    /\ keyRows \in Seq(BOOLEAN) /\ keyCalls \in Seq(CallsOf)
    /\ width \in AllWidths /\ width >= O!Narrow
    /\ dragging \in BOOLEAN /\ floating \in BOOLEAN /\ floats \in BOOLEAN
    /\ wanted \in [hidden : BOOLEAN, width : AllWidths]
    /\ \A i \in 1..Len(keyCalls) : keyCalls[i].row = 1 => Len(keyRows) >= 1

\* The last write under way, or the row, hides the sidebar as was asked last.
HiddenFollows ==
    ~disordered => IF keyCalls = <<>> THEN Len(keyRows) <= 1 => O!Hidden = wanted.hidden
                   ELSE keyCalls[Len(keyCalls)].value = wanted.hidden

\* The last width that is to follow, or the present one, is what was asked last.
NoneFollows(i) == \A j \in 1..Len(keyCalls) : j > i => keyCalls[j].then = O!None
WidthFollows ==
    ~disordered =>
        \/ NoneFollows(0) /\ width = wanted.width
        \/ \E i \in 1..Len(keyCalls) : /\ NoneFollows(i) /\ keyCalls[i].then # O!None
                                       /\ keyCalls[i].then = wanted.width

LayoutInv == LayoutTyped /\ HiddenFollows /\ WidthFollows

LEMMA LayoutInit == ASSUME WidthsAreNumbers, O!Init PROVE LayoutInv
<1>1. /\ keyRows \in {<<>>, <<FALSE>>, <<TRUE>>} /\ keyCalls = <<>> /\ width = O!Default
      /\ dragging = FALSE /\ floating = FALSE /\ floats = TRUE
      /\ wanted = [hidden |-> O!Hidden, width |-> O!Default]
  BY DEF O!Init
<1>2. keyRows \in Seq(BOOLEAN)
  <2>1. <<FALSE>> \in Seq(BOOLEAN) /\ <<TRUE>> \in Seq(BOOLEAN) /\ <<>> \in Seq(BOOLEAN)
    BY Single
  <2> QED
    BY <1>1, <2>1
<1>3. O!Hidden \in BOOLEAN
  <2>1. CASE keyRows = <<>>
    BY <2>1 DEF O!Hidden
  <2>2. CASE keyRows # <<>>
    <3>1. 1 \in 1..Len(keyRows)
      BY <1>2, <2>2
    <3> QED
      BY <1>2, <2>2, <3>1 DEF O!Hidden
  <2> QED
    BY <2>1, <2>2
<1>4. Len(keyCalls) = 0 /\ keyCalls \in Seq(CallsOf)
  BY <1>1
<1>5. LayoutTyped
  <2>1. wanted \in [hidden : BOOLEAN, width : AllWidths]
    BY <1>1, <1>3 DEF AllWidths
  <2>2. width \in AllWidths /\ width >= O!Narrow
    BY <1>1 DEF AllWidths, O!Default, O!Narrow
  <2>3. \A i \in 1..Len(keyCalls) : keyCalls[i].row = 1 => Len(keyRows) >= 1
    BY <1>4
  <2>4. dragging \in BOOLEAN /\ floating \in BOOLEAN /\ floats \in BOOLEAN
    BY <1>1
  <2> QED
    BY <1>2, <1>4, <2>1, <2>2, <2>3, <2>4 DEF LayoutTyped
<1>6. HiddenFollows
  BY <1>1 DEF HiddenFollows
<1>7. WidthFollows
  BY <1>1, <1>4 DEF WidthFollows, NoneFollows
<1> QED
  BY <1>5, <1>6, <1>7 DEF LayoutInv

\* A write starts, of what was asked.
LEMMA CallInv ==
    ASSUME WidthsAreNumbers, LayoutInv, NEW value \in BOOLEAN,
           NEW then \in {w \in AllWidths : w >= O!Narrow} \cup {O!None},
           O!setKeyValue(value, then), keyRows' = keyRows, width' = width, dragging' = dragging,
           floating' = floating, floats' = floats, disordered' = disordered,
           wanted' \in [hidden : BOOLEAN, width : AllWidths], wanted'.hidden = value,
           wanted'.width = IF then = O!None THEN wanted.width ELSE then
    PROVE  LayoutInv'
<1>1. PICK c : c = [value |-> value, row |-> O!Target, then |-> then]
  OBVIOUS
<1>2. c \in CallsOf /\ c.value = value /\ c.then = then /\ c.row = O!Target
  BY <1>1 DEF CallsOf, O!Target
<1>3. PICK more : more = Append(keyCalls, c)
  OBVIOUS
<1>4. keyRows \in Seq(BOOLEAN) /\ keyCalls \in Seq(CallsOf) /\ Len(keyCalls) \in Nat /\ Len(keyRows) \in Nat
  BY DEF LayoutInv, LayoutTyped
<1>5. /\ more \in Seq(CallsOf) /\ Len(more) = Len(keyCalls) + 1 /\ more[Len(keyCalls) + 1] = c
      /\ \A j \in 1..Len(keyCalls) : more[j] = keyCalls[j]
  BY <1>2, <1>3, <1>4, Appended
<1>6. keyCalls' = more /\ more # <<>>
  BY <1>1, <1>3, <1>5 DEF O!setKeyValue
<1>7. ASSUME NEW i \in 1..Len(more), more[i].row = 1 PROVE Len(keyRows) >= 1
  <2>1. CASE i = Len(keyCalls) + 1
    <3>1. O!Target = 1
      BY <1>2, <1>5, <1>7, <2>1
    <3>2. keyRows # <<>>
      BY <3>1 DEF O!Target
    <3> QED
      BY <1>4, <3>2
  <2>2. CASE i # Len(keyCalls) + 1
    <3>1. i \in 1..Len(keyCalls)
      BY <1>4, <1>5, <2>2
    <3> QED
      BY <1>5, <1>7, <3>1 DEF LayoutInv, LayoutTyped
  <2> QED
    BY <2>1, <2>2
<1>8. LayoutTyped'
  BY <1>5, <1>6, <1>7 DEF LayoutInv, LayoutTyped
<1>9. HiddenFollows'
  BY <1>2, <1>5, <1>6 DEF HiddenFollows
<1>10. WidthFollows'
  <2> SUFFICES ASSUME ~disordered PROVE WidthFollows'
    BY DEF WidthFollows
  <2>1. CASE then # O!None
    <3>1. PICK n \in Nat : n = Len(keyCalls) + 1
      BY <1>4
    <3>2. n \in 1..Len(more) /\ more[n] = c
      BY <1>4, <1>5, <3>1
    <3>3. NoneFollows(n)'
      BY <1>4, <1>5, <1>6, <3>1 DEF NoneFollows
    <3> QED
      BY <1>2, <1>6, <2>1, <3>2, <3>3 DEF WidthFollows
  <2>2. CASE then = O!None
    <3>1. ASSUME NEW i \in Nat, NoneFollows(i) PROVE NoneFollows(i)'
      BY <1>2, <1>4, <1>5, <1>6, <2>2, <3>1 DEF NoneFollows
    <3>2. CASE NoneFollows(0) /\ width = wanted.width
      BY <2>2, <3>1, <3>2 DEF WidthFollows
    <3>3. CASE \E i \in 1..Len(keyCalls) : /\ NoneFollows(i) /\ keyCalls[i].then # O!None
                                            /\ keyCalls[i].then = wanted.width
      <4>1. PICK i \in 1..Len(keyCalls) : /\ NoneFollows(i) /\ keyCalls[i].then # O!None
                                          /\ keyCalls[i].then = wanted.width
        BY <3>3
      <4>2. i \in Nat /\ i \in 1..Len(more)
        BY <1>4, <1>5
      <4> QED
        BY <1>5, <1>6, <2>2, <3>1, <4>1, <4>2 DEF WidthFollows
    <3> QED
      BY <3>2, <3>3 DEF LayoutInv, WidthFollows
  <2> QED
    BY <2>1, <2>2
<1> QED
  BY <1>8, <1>9, <1>10 DEF LayoutInv

LEMMA MoveInv ==
    ASSUME WidthsAreNumbers, LayoutInv, NEW w \in Widths, O!Move(w) PROVE LayoutInv'
<1>1. w \in Int
  BY DEF WidthsAreNumbers
<1>2. /\ O!setKeyValue(w < O!Narrow, O!WidthAfter(w)) /\ keyRows' = keyRows
      /\ width' = width /\ dragging' = dragging /\ floating' = floating /\ floats' = floats
      /\ disordered' = disordered
      /\ wanted' = [hidden |-> w < O!Narrow, width |-> IF w < O!Narrow THEN O!Default ELSE w]
  BY DEF O!Move
<1>3. PICK value \in BOOLEAN : value <=> w < O!Narrow
  OBVIOUS
<1>4. value = (w < O!Narrow)
  BY <1>3
<1>5. PICK then : then = O!WidthAfter(w)
  OBVIOUS
<1>6. /\ then \in AllWidths /\ then >= O!Narrow /\ then # O!None
      /\ then = IF w < O!Narrow THEN O!Default ELSE w
  BY <1>1, <1>5 DEF O!WidthAfter, AllWidths, O!Narrow, O!None, O!Default
<1>7. O!setKeyValue(value, then) /\ wanted' = [hidden |-> value, width |-> then]
  BY <1>2, <1>4, <1>5, <1>6
<1>8. /\ wanted' \in [hidden : BOOLEAN, width : AllWidths] /\ wanted'.hidden = value
      /\ wanted'.width = then
  BY <1>6, <1>7
<1> QED
  BY <1>2, <1>6, <1>7, <1>8, CallInv

LEMMA ToggleInv == ASSUME WidthsAreNumbers, LayoutInv, O!Toggle PROVE LayoutInv'
<1>1. /\ keyRows' = keyRows /\ width' = width /\ dragging' = dragging /\ floating' = floating
      /\ disordered' = disordered
  BY DEF O!Toggle
<1>2. CASE floating
  <2>1. keyCalls' = keyCalls /\ wanted' = wanted /\ floats' \in BOOLEAN
    BY <1>2 DEF O!Toggle
  <2>2. O!Hidden' = O!Hidden
    BY <1>1 DEF O!Hidden
  <2> QED
    BY <1>1, <2>1, <2>2
       DEF LayoutInv, LayoutTyped, HiddenFollows, WidthFollows, NoneFollows
<1>3. CASE ~floating
  <2>1. PICK value \in BOOLEAN : value = ~O!Hidden
    OBVIOUS
  <2>2. /\ O!setKeyValue(value, O!None) /\ floats' = floats
        /\ wanted' = [wanted EXCEPT !.hidden = value]
    BY <1>3, <2>1 DEF O!Toggle
  <2>3. /\ wanted' \in [hidden : BOOLEAN, width : AllWidths] /\ wanted'.hidden = value
        /\ wanted'.width = wanted.width
    BY <2>2 DEF LayoutInv, LayoutTyped
  <2> QED
    BY <1>1, <2>2, <2>3, CallInv
<1> QED
  BY <1>2, <1>3

LEMMA MouseInv ==
    ASSUME LayoutInv, O!ResizeStart \/ O!Up \/ O!Close \/ O!Resized
    PROVE  LayoutInv'
<1>1. /\ keyRows' = keyRows /\ keyCalls' = keyCalls /\ width' = width /\ wanted' = wanted
      /\ disordered' = disordered
  BY DEF O!ResizeStart, O!Up, O!Close, O!Resized
<1>2. dragging' \in BOOLEAN /\ floating' \in BOOLEAN /\ floats' \in BOOLEAN
  BY DEF O!ResizeStart, O!Up, O!Close, O!Resized, LayoutInv, LayoutTyped
<1>3. O!Hidden' = O!Hidden
  BY <1>1 DEF O!Hidden
<1> QED
  BY <1>1, <1>2, <1>3 DEF LayoutInv, LayoutTyped, HiddenFollows, WidthFollows, NoneFollows

LEMMA ResetInv == ASSUME LayoutInv, O!Reset PROVE LayoutInv'
<1>1. /\ keyRows' = keyRows /\ keyCalls' = keyCalls /\ width' = O!Default
      /\ dragging' = dragging /\ floating' = floating /\ floats' = floats
      /\ wanted' = [wanted EXCEPT !.width = O!Default]
      /\ disordered' = (disordered \/ keyCalls # <<>>)
  BY DEF O!Reset
<1>2. /\ wanted' \in [hidden : BOOLEAN, width : AllWidths] /\ wanted'.hidden = wanted.hidden
      /\ wanted'.width = O!Default
  BY <1>1 DEF LayoutInv, LayoutTyped, AllWidths
<1>3. O!Hidden' = O!Hidden /\ O!Default \in AllWidths /\ O!Default >= O!Narrow
  BY <1>1 DEF O!Hidden, AllWidths, O!Default, O!Narrow
<1>4. LayoutTyped'
  BY <1>1, <1>2, <1>3 DEF LayoutInv, LayoutTyped
<1>5. HiddenFollows'
  BY <1>1, <1>2, <1>3 DEF LayoutInv, HiddenFollows
<1>6. WidthFollows'
  <2>1. ASSUME keyCalls = <<>> PROVE NoneFollows(0)'
    <3>1. Len(keyCalls) = 0
      BY <2>1
    <3> QED
      BY <1>1, <3>1 DEF NoneFollows
  <2> QED
    BY <1>1, <1>2, <2>1 DEF WidthFollows
<1> QED
  BY <1>4, <1>5, <1>6 DEF LayoutInv

\* Another window writes.
LEMMA OthersInv == ASSUME LayoutInv, O!Others PROVE LayoutInv'
<1>1. /\ keyRows # <<>> /\ keyCalls' = keyCalls /\ width' = width
      /\ dragging' = dragging /\ floating' = floating /\ floats' = floats
      /\ keyRows' = [keyRows EXCEPT ![1] = ~@]
      /\ wanted' = [wanted EXCEPT !.hidden = keyRows'[1]]
      /\ disordered' = (disordered \/ keyCalls # <<>>)
  BY DEF O!Others
<1>2. keyRows \in Seq(BOOLEAN) /\ Len(keyRows) \in Nat /\ 1 \in 1..Len(keyRows)
  BY <1>1 DEF LayoutInv, LayoutTyped
<1>3. PICK value \in BOOLEAN : value = ~keyRows[1]
  OBVIOUS
<1>4. PICK now : now = [keyRows EXCEPT ![1] = value]
  OBVIOUS
<1>5. now \in Seq(BOOLEAN) /\ Len(now) = Len(keyRows) /\ now[1] = value /\ now # <<>>
  BY <1>2, <1>4
<1>6. keyRows' = now
  BY <1>1, <1>3, <1>4
<1>7. /\ wanted' \in [hidden : BOOLEAN, width : AllWidths] /\ wanted'.hidden = value
      /\ wanted'.width = wanted.width
  BY <1>1, <1>5, <1>6 DEF LayoutInv, LayoutTyped
<1>8. LayoutTyped'
  BY <1>1, <1>5, <1>6, <1>7 DEF LayoutInv, LayoutTyped
<1>9. O!Hidden' = value
  BY <1>5, <1>6 DEF O!Hidden
<1>10. HiddenFollows'
  BY <1>1, <1>7, <1>9 DEF HiddenFollows
<1>11. WidthFollows'
  BY <1>1, <1>7 DEF LayoutInv, WidthFollows, NoneFollows
<1> QED
  BY <1>8, <1>10, <1>11 DEF LayoutInv

LEMMA RowWrittenInv ==
    ASSUME WidthsAreNumbers, LayoutInv, NEW i \in DOMAIN keyCalls, O!Written(i)
    PROVE  LayoutInv'
<1>1. /\ keyRows' = (IF keyCalls[i].row = 0 THEN Append(keyRows, keyCalls[i].value)
                     ELSE [keyRows EXCEPT ![1] = keyCalls[i].value])
      /\ width' = (IF keyCalls[i].then = O!None THEN width ELSE keyCalls[i].then)
      /\ keyCalls' = SubSeq(keyCalls, 1, i - 1) \o SubSeq(keyCalls, i + 1, Len(keyCalls))
      /\ disordered' = (disordered \/ i > 1)
      /\ dragging' = dragging /\ floating' = floating /\ floats' = floats /\ wanted' = wanted
  BY DEF O!Written, O!RemoveAt
<1>2. /\ keyRows \in Seq(BOOLEAN) /\ Len(keyRows) \in Nat
      /\ keyCalls \in Seq(CallsOf) /\ Len(keyCalls) \in Nat /\ i \in 1..Len(keyCalls)
  BY DEF LayoutInv, LayoutTyped
<1>3. PICK c \in CallsOf : c = keyCalls[i]
  BY <1>2
<1>4. PICK value \in BOOLEAN : value = c.value
  BY DEF CallsOf
<1>5. PICK left : left = SubSeq(keyCalls, 1, i - 1) \o SubSeq(keyCalls, i + 1, Len(keyCalls))
  OBVIOUS
<1>6. /\ left \in Seq(CallsOf) /\ Len(left) = Len(keyCalls) - 1
      /\ \A j \in 1..Len(left) : /\ j < i => left[j] = keyCalls[j]
                                 /\ j >= i => left[j] = keyCalls[j + 1]
  BY <1>2, <1>5, WithoutItem
<1>7. keyCalls' = left
  BY <1>1, <1>5
<1>8. PICK now : now = IF c.row = 0 THEN Append(keyRows, value)
                       ELSE [keyRows EXCEPT ![1] = value]
  OBVIOUS
<1>9. keyRows' = now
  BY <1>1, <1>3, <1>4, <1>8
<1>10. /\ now \in Seq(BOOLEAN) /\ Len(now) \in Nat /\ Len(now) >= 1 /\ Len(now) >= Len(keyRows)
       /\ Len(now) = 1 => now[1] = value
  <2>1. CASE c.row = 0
    <3>1. now = Append(keyRows, value)
      BY <1>8, <2>1
    <3>2. now \in Seq(BOOLEAN) /\ Len(now) = Len(keyRows) + 1 /\ now[Len(keyRows) + 1] = value
      BY <1>2, <3>1, Appended
    <3> QED
      BY <1>2, <3>2
  <2>2. CASE c.row # 0
    <3>1. Len(keyRows) >= 1
      BY <1>2, <1>3, <2>2 DEF LayoutInv, LayoutTyped, CallsOf
    <3>2. now = [keyRows EXCEPT ![1] = value]
      BY <1>8, <2>2
    <3>3. now \in Seq(BOOLEAN) /\ Len(now) = Len(keyRows) /\ now[1] = value
      BY <1>2, <3>1, <3>2
    <3> QED
      BY <1>2, <3>1, <3>3
  <2> QED
    BY <2>1, <2>2
<1>11. width' \in AllWidths /\ width' >= O!Narrow
  BY <1>1, <1>3 DEF LayoutInv, LayoutTyped, CallsOf
<1>12. LayoutTyped'
  BY <1>1, <1>6, <1>7, <1>9, <1>10, <1>11 DEF LayoutInv, LayoutTyped
<1>13. HiddenFollows'
  <2> SUFFICES ASSUME ~disordered', ~disordered, i = 1 PROVE HiddenFollows'
    <3>1. i = 1 \/ i > 1
      BY <1>2
    <3>2. ~disordered' => ~disordered /\ i = 1
      BY <1>1, <3>1
    <3> QED
      BY <3>2 DEF HiddenFollows
  <2>1. CASE left = <<>>
    <3>1. Len(keyCalls) = 1 /\ keyCalls # <<>>
      BY <1>2, <1>6, <2>1
    <3>2. value = wanted.hidden
      BY <1>3, <1>4, <3>1 DEF LayoutInv, HiddenFollows
    <3>3. ASSUME Len(now) <= 1 PROVE O!Hidden' = value
      <4>1. PICK n \in Nat : n = Len(now) /\ n >= 1
        BY <1>10
      <4>2. n <= 1
        BY <3>3, <4>1
      <4>4. n = 1
        BY <4>1, <4>2
      <4>5. Len(now) = 1
        BY <4>1, <4>4
      <4>6. now # <<>>
        BY <4>5
      <4>7. now[1] = value
        BY <1>10, <4>5
      <4> QED
        BY <1>9, <4>6, <4>7 DEF O!Hidden
    <3> QED
      BY <1>1, <1>7, <1>9, <2>1, <3>2, <3>3 DEF HiddenFollows
  <2>2. CASE left # <<>>
    <3>1. Len(left) \in 1..Len(left) /\ Len(left) >= i /\ Len(left) + 1 = Len(keyCalls)
      BY <1>2, <1>6, <2>2
    <3>2. left[Len(left)] = keyCalls[Len(keyCalls)] /\ keyCalls # <<>>
      BY <1>2, <1>6, <3>1
    <3> QED
      BY <1>1, <1>7, <2>2, <3>2 DEF LayoutInv, HiddenFollows
  <2> QED
    BY <2>1, <2>2
<1>14. WidthFollows'
  <2> SUFFICES ASSUME ~disordered', ~disordered, i = 1 PROVE WidthFollows'
    <3>1. i = 1 \/ i > 1
      BY <1>2
    <3>2. ~disordered' => ~disordered /\ i = 1
      BY <1>1, <3>1
    <3> QED
      BY <3>2 DEF WidthFollows
  <2>1. \A j \in 1..Len(left) : left[j] = keyCalls[j + 1] /\ j + 1 \in 1..Len(keyCalls)
    BY <1>2, <1>6
  <2>2. ASSUME NEW k \in Nat, NoneFollows(k) PROVE NoneFollows(IF k = 0 THEN 0 ELSE k - 1)'
    BY <1>2, <1>7, <2>1, <2>2 DEF NoneFollows
  <2>3. CASE NoneFollows(0) /\ width = wanted.width
    <3>1. NoneFollows(0)'
      BY <2>2, <2>3
    <3>2. width' = width
      BY <1>1, <1>2, <2>3 DEF NoneFollows
    <3> QED
      BY <1>1, <2>3, <3>1, <3>2 DEF WidthFollows
  <2>4. CASE \E k \in 1..Len(keyCalls) : /\ NoneFollows(k) /\ keyCalls[k].then # O!None
                                          /\ keyCalls[k].then = wanted.width
    <3>1. PICK k \in 1..Len(keyCalls) : /\ NoneFollows(k) /\ keyCalls[k].then # O!None
                                        /\ keyCalls[k].then = wanted.width
      BY <2>4
    <3>2. CASE k = 1
      <4>1. NoneFollows(0)'
        BY <2>2, <3>1, <3>2
      <4> QED
        BY <1>1, <3>1, <3>2, <4>1 DEF WidthFollows
    <3>3. CASE k # 1
      <4>1. PICK m \in Nat : m = k - 1
        BY <1>2
      <4>2. NoneFollows(m)' /\ m \in 1..Len(left)
        BY <1>2, <1>6, <2>2, <3>1, <3>3, <4>1
      <4>3. left[m] = keyCalls[k]
        BY <2>1, <4>1, <4>2
      <4> QED
        BY <1>1, <1>7, <3>1, <4>2, <4>3 DEF WidthFollows
    <3> QED
      BY <3>2, <3>3
  <2> QED
    BY <2>3, <2>4 DEF LayoutInv, WidthFollows
<1> QED
  BY <1>12, <1>13, <1>14 DEF LayoutInv

LEMMA LayoutSafe == ASSUME WidthsAreNumbers PROVE O!Spec => []LayoutInv
<1>1. O!Init => LayoutInv
  BY LayoutInit
<1>2. LayoutInv /\ [O!Next]_O!vars => LayoutInv'
  <2> SUFFICES ASSUME LayoutInv, [O!Next]_O!vars PROVE LayoutInv'
    OBVIOUS
  <2>1. CASE O!Next
    BY <2>1, MoveInv, ToggleInv, MouseInv, ResetInv, OthersInv, RowWrittenInv DEF O!Next
  <2>2. CASE UNCHANGED O!vars
    <3>1. /\ keyRows' = keyRows /\ keyCalls' = keyCalls /\ width' = width /\ wanted' = wanted
          /\ dragging' = dragging /\ floating' = floating /\ floats' = floats
          /\ disordered' = disordered
      BY <2>2 DEF O!vars
    <3>2. O!Hidden' = O!Hidden
      BY <3>1 DEF O!Hidden
    <3> QED
      BY <3>1, <3>2 DEF LayoutInv, LayoutTyped, HiddenFollows, WidthFollows, NoneFollows
  <2> QED
    BY <2>1, <2>2
<1> QED
  BY <1>1, <1>2, PTL DEF O!Spec

\* The rows, the writes and the widths keep their types (useKeyValue and Workspace.tsx).
THEOREM LayoutTypeCorrect == ASSUME WidthsAreNumbers PROVE O!Spec => []O!TypeOK
<1>1. LayoutInv => O!TypeOK
  <2> SUFFICES ASSUME LayoutInv PROVE O!TypeOK
    OBVIOUS
  <2>1. ASSUME NEW i \in DOMAIN keyCalls
        PROVE  /\ keyCalls[i].value \in BOOLEAN /\ keyCalls[i].row \in {0, 1}
               /\ keyCalls[i].then \in Widths \cup {O!Default, O!None}
    <3>1. PICK c \in CallsOf : c = keyCalls[i]
      BY DEF LayoutInv, LayoutTyped
    <3> QED
      BY <3>1 DEF CallsOf, AllWidths
  <2> QED
    BY <2>1 DEF LayoutInv, LayoutTyped, AllWidths, O!TypeOK
<1> QED
  BY <1>1, LayoutSafe, PTL

\* A sidebar that is shown again can be seen (Workspace.tsx).
THEOREM SidebarIsNeverNarrow == ASSUME WidthsAreNumbers PROVE O!Spec => []O!NeverNarrow
<1>1. LayoutInv => O!NeverNarrow
  BY DEF LayoutInv, LayoutTyped, O!NeverNarrow
<1> QED
  BY <1>1, LayoutSafe, PTL

\* When the writes are done, in their order, the sidebar is as the last move of the handle,
\* or the button, left it; a key written twice before its row is there has two rows.
THEOREM SidebarIsWherePut == ASSUME WidthsAreNumbers PROVE O!Spec => []O!IsWherePut
<1>1. LayoutInv => O!IsWherePut
  <2> SUFFICES ASSUME LayoutInv, keyCalls = <<>>, ~disordered, Len(keyRows) <= 1
               PROVE  O!Hidden = wanted.hidden /\ width = wanted.width
    BY DEF O!IsWherePut
  <2>1. Len(keyCalls) = 0
    OBVIOUS
  <2> QED
    BY <2>1 DEF LayoutInv, HiddenFollows, WidthFollows
<1> QED
  BY <1>1, LayoutSafe, PTL

-----------------------------------------------------------------------------
(* The two panes of a workspace, and the handle between them. *)

CONSTANTS Containers, ContainerHeight, PointedAt, Workspaces
VARIABLES shares, share, space, size, second, drag, strayed

Q == INSTANCE SplitLayout WITH
    stored <- shares, shown <- share, crossed <- strayed, Widths <- Containers,
    Height <- ContainerHeight, Asked <- PointedAt, Spaces <- Workspaces

\* A container has place for both panes, and none is ten times as wide as another; a
\* workspace is open.
PlaceForBoth ==
    /\ \A w \in Containers \cup {ContainerHeight} : w \in Nat /\ w >= 2 * Q!MinPx
    /\ \A v, w \in Containers : v <= 10 * w
    /\ PointedAt \subseteq Int /\ Workspaces # {}

Wholes(way) == IF way = "height" THEN {ContainerHeight} ELSE Containers

\* A share that was dragged to leaves both panes their least size.
IsShare(way, r) ==
    r \in {Q!Unset, Q!DefaultRatio} \/
    \E a \in Nat, b \in Wholes(way) : r = <<a, b>> /\ Q!MinPx <= a /\ a <= b - Q!MinPx

SplitTyped ==
    /\ space \in Workspaces /\ size \in Containers /\ second \in BOOLEAN /\ strayed \in BOOLEAN
    /\ drag \in [on : BOOLEAN, way : Q!Ways, of : Workspaces]
    /\ DOMAIN shares = Q!Ways /\ DOMAIN share = Q!Ways
    /\ \A way \in Q!Ways :
          /\ IsShare(way, share[way]) /\ DOMAIN shares[way] = Workspaces
          /\ \A w \in Workspaces : IsShare(way, shares[way][w])

\* The hook shows the value of its key, under which a drag writes.
ShowsItsKey ==
    ~strayed => /\ \A way \in Q!Ways : share[way] = shares[way][space]
                /\ drag.on => drag.of = space

SplitInv == SplitTyped /\ ShowsItsKey

LEMMA SplitInit == ASSUME PlaceForBoth, Q!Init PROVE SplitInv
<1>1. /\ shares = [way \in Q!Ways |-> [w \in Workspaces |-> Q!Unset]]
      /\ share = [way \in Q!Ways |-> Q!Unset]
      /\ space \in Workspaces /\ size \in Containers /\ second \in BOOLEAN
      /\ drag = Q!NoDrag /\ strayed = FALSE
  BY DEF Q!Init
<1>2. drag \in [on : BOOLEAN, way : Q!Ways, of : Workspaces] /\ ~drag.on
  BY <1>1 DEF Q!NoDrag, Q!Ways, PlaceForBoth
<1>3. \A way \in Q!Ways : IsShare(way, Q!Unset)
  BY DEF IsShare
<1> QED
  BY <1>1, <1>2, <1>3 DEF SplitInv, SplitTyped, ShowsItsKey

\* A share is written under the key of a drag, or of now.
LEMMA SetInv ==
    ASSUME PlaceForBoth, SplitInv, NEW way \in Q!Ways, NEW of \in Workspaces, NEW r,
           IsShare(way, r), Q!set(way, of, r), ~strayed => of = space,
           space' = space, size' = size, second' = second, drag' = drag, strayed' = strayed
    PROVE  SplitInv'
<1>1. shares' = [shares EXCEPT ![way][of] = r] /\ share' = [share EXCEPT ![way] = r]
  BY DEF Q!set
<1>2. DOMAIN shares = Q!Ways /\ DOMAIN share = Q!Ways
      /\ \A y \in Q!Ways : DOMAIN shares[y] = Workspaces
  BY DEF SplitInv, SplitTyped
<1>3. DOMAIN shares' = Q!Ways /\ DOMAIN share' = Q!Ways
  BY <1>1, <1>2
<1>4. ASSUME NEW y \in Q!Ways
      PROVE  /\ share'[y] = IF y = way THEN r ELSE share[y]
             /\ DOMAIN shares'[y] = Workspaces
             /\ \A w \in Workspaces :
                   shares'[y][w] = IF y = way /\ w = of THEN r ELSE shares[y][w]
  BY <1>1, <1>2
<1>5. SplitTyped'
  BY <1>3, <1>4 DEF SplitInv, SplitTyped, IsShare, Wholes
<1>6. ShowsItsKey'
  BY <1>4 DEF SplitInv, SplitTyped, ShowsItsKey
<1> QED
  BY <1>5, <1>6 DEF SplitInv

LEMMA DragInv ==
    ASSUME PlaceForBoth, SplitInv, NEW px \in PointedAt, Q!Move(px) PROVE SplitInv'
<1>1. PICK way, of, whole : way = drag.way /\ of = drag.of /\ whole = Q!Whole(way)
  OBVIOUS
<1>2. way \in Q!Ways /\ of \in Workspaces /\ size \in Containers /\ drag.on
  BY <1>1 DEF SplitInv, SplitTyped, Q!Move
<1>3. whole \in Wholes(way) /\ whole \in Nat /\ whole >= 2 * Q!MinPx /\ px \in Int
  BY <1>1, <1>2 DEF Q!Whole, Wholes, PlaceForBoth
<1>4. PICK a : a = Q!Clamped(px, whole)
  OBVIOUS
<1>5. a \in Nat /\ Q!MinPx <= a /\ a <= whole - Q!MinPx
  BY <1>3, <1>4 DEF Q!Clamped, Q!clamp, Q!Lesser, Q!Greater, Q!MinPx
<1>6. IsShare(way, <<a, whole>>)
  BY <1>3, <1>5 DEF IsShare
<1>7. /\ Q!set(way, of, <<a, whole>>) /\ space' = space /\ size' = size /\ second' = second
      /\ drag' = drag /\ strayed' = strayed
  BY <1>1, <1>4 DEF Q!Move
<1>8. ~strayed => of = space
  BY <1>1, <1>2 DEF SplitInv, ShowsItsKey
<1> QED
  BY <1>2, <1>6, <1>7, <1>8, SetInv

LEMMA SplitResetInv == ASSUME PlaceForBoth, SplitInv, Q!Reset PROVE SplitInv'
<1>1. /\ Q!set(Q!Way, space, Q!DefaultRatio) /\ space' = space /\ size' = size
      /\ second' = second /\ drag' = drag /\ strayed' = strayed
  BY DEF Q!Reset
<1>2. Q!Way \in Q!Ways /\ space \in Workspaces /\ IsShare(Q!Way, Q!DefaultRatio)
  BY DEF Q!Way, Q!Ways, IsShare, SplitInv, SplitTyped
<1> QED
  BY <1>1, <1>2, SetInv

LEMMA HandleInv ==
    ASSUME PlaceForBoth, SplitInv, Q!ResizeStart \/ Q!Up \/ Q!Resized \/ Q!Responded
    PROVE  SplitInv'
<1>1. shares' = shares /\ share' = share /\ space' = space /\ strayed' = strayed
  BY DEF Q!ResizeStart, Q!Up, Q!Resized, Q!Responded
<1>2. size' \in Containers /\ second' \in BOOLEAN
  BY DEF Q!ResizeStart, Q!Up, Q!Resized, Q!Responded, SplitInv, SplitTyped
<1>3. drag' \in [on : BOOLEAN, way : Q!Ways, of : Workspaces]
  <2>1. drag' \in {drag, Q!NoDrag, [on |-> TRUE, way |-> Q!Way, of |-> space]}
    BY DEF Q!ResizeStart, Q!Up, Q!Resized, Q!Responded
  <2>2. Q!NoDrag \in [on : BOOLEAN, way : Q!Ways, of : Workspaces]
    BY DEF Q!NoDrag, Q!Ways, PlaceForBoth
  <2>3. [on |-> TRUE, way |-> Q!Way, of |-> space] \in [on : BOOLEAN, way : Q!Ways, of : Workspaces]
    BY DEF Q!Way, Q!Ways, SplitInv, SplitTyped
  <2> QED
    BY <2>1, <2>2, <2>3 DEF SplitInv, SplitTyped
<1>4. ~strayed /\ drag'.on => drag'.of = space
  BY DEF Q!ResizeStart, Q!Up, Q!Resized, Q!Responded, Q!NoDrag, SplitInv, ShowsItsKey
<1> QED
  BY <1>1, <1>2, <1>3, <1>4 DEF SplitInv, SplitTyped, ShowsItsKey, IsShare, Wholes

\* Another workspace: the hook reads the value of its new key.
LEMMA SwitchInv == ASSUME PlaceForBoth, SplitInv, Q!Switch PROVE SplitInv'
<1>1. PICK w \in Workspaces :
        /\ space' = w /\ share' = [way \in Q!Ways |-> shares[way][w]]
        /\ strayed' = (strayed \/ drag.on)
        /\ shares' = shares /\ size' = size /\ second' = second /\ drag' = drag
  BY DEF Q!Switch, Q!Read
<1>2. SplitTyped'
  BY <1>1 DEF SplitInv, SplitTyped, IsShare, Wholes
<1>3. ShowsItsKey'
  BY <1>1 DEF ShowsItsKey
<1> QED
  BY <1>2, <1>3 DEF SplitInv

LEMMA SplitSafe == ASSUME PlaceForBoth PROVE Q!Spec => []SplitInv
<1>1. Q!Init => SplitInv
  BY SplitInit
<1>2. SplitInv /\ [Q!Next]_Q!vars => SplitInv'
  <2> SUFFICES ASSUME SplitInv, [Q!Next]_Q!vars PROVE SplitInv'
    OBVIOUS
  <2>1. CASE Q!Next
    BY <2>1, DragInv, SplitResetInv, HandleInv, SwitchInv DEF Q!Next
  <2>2. CASE UNCHANGED Q!vars
    BY <2>2 DEF Q!vars, SplitInv, SplitTyped, ShowsItsKey, IsShare, Wholes
  <2> QED
    BY <2>1, <2>2
<1> QED
  BY <1>1, <1>2, PTL DEF Q!Spec

\* A share is no more than the whole (SplitLayout.tsx).
THEOREM SplitTypeCorrect == ASSUME PlaceForBoth PROVE Q!Spec => []Q!TypeOK
<1>1. SplitInv => Q!TypeOK
  <2> SUFFICES ASSUME SplitInv PROVE Q!TypeOK
    OBVIOUS
  <2>1. ASSUME NEW way \in Q!Ways, NEW r, IsShare(way, r) PROVE r[1] <= r[2]
    <3>1. CASE r \in {Q!Unset, Q!DefaultRatio}
      BY <3>1 DEF Q!Unset, Q!DefaultRatio
    <3>2. CASE r \notin {Q!Unset, Q!DefaultRatio}
      <4>1. PICK a \in Nat, b \in Wholes(way) : r = <<a, b>> /\ Q!MinPx <= a /\ a <= b - Q!MinPx
        BY <2>1, <3>2 DEF IsShare
      <4>2. b \in Nat
        BY DEF Wholes, PlaceForBoth
      <4> QED
        BY <4>1, <4>2 DEF Q!MinPx
    <3> QED
      BY <3>1, <3>2
  <2> QED
    BY <2>1 DEF SplitInv, SplitTyped, Q!TypeOK
<1> QED
  BY <1>1, SplitSafe, PTL

\* The panes are divided as they were when this workspace was left; a workspace that became
\* active in the middle of a drag gets the other's.
THEOREM SplitAsLeft == ASSUME PlaceForBoth PROVE Q!Spec => []Q!DividedAsLeft
<1>1. SplitInv => Q!DividedAsLeft
  BY DEF SplitInv, ShowsItsKey, Q!DividedAsLeft
<1> QED
  BY <1>1, SplitSafe, PTL

\* A part of a whole, of another whole that is not ten times as large.
LEMMA PartIsSeen ==
    ASSUME NEW a \in Nat, NEW b \in Nat, NEW w \in Nat, 10 <= a, a < b, b <= 10 * w
    PROVE  (a * w) \div b > 0 /\ (a * w) \div b < w
<1>1. w > 0 /\ b > 0
  OBVIOUS
<1>2. a * w >= 10 * w
  BY <1>1
<1>3. a * w < b * w
  BY <1>1
<1>4. PICK p \in Nat : p = a * w
  OBVIOUS
<1>5. p >= b /\ p < b * w
  BY <1>2, <1>3, <1>4
<1>6. PICK q, m \in Int : q = p \div b /\ p = b * q + m /\ 0 <= m /\ m < b
  BY <1>1, <1>4
<1>7. q > 0
  BY <1>1, <1>5, <1>6
<1>8. q < w
  BY <1>1, <1>5, <1>6
<1> QED
  BY <1>4, <1>6, <1>7, <1>8

\* Wherever the handle was dragged, both panes can be seen, and the handle between them,
\* also when the window was made smaller after it.
THEOREM BothPanesAreSeen == ASSUME PlaceForBoth PROVE Q!Spec => []Q!BothAreSeen
<1>1. SplitInv => Q!BothAreSeen
  <2> SUFFICES ASSUME SplitInv, NEW way \in Q!Ways, second,
                      NEW r, r = Q!Ratio(way), NEW w, w = Q!Whole(way)
               PROVE  (r[1] * w) \div r[2] > 0 /\ (r[1] * w) \div r[2] < w
    BY DEF Q!BothAreSeen
  <2>1. w \in Wholes(way) /\ w \in Nat /\ w >= 2 * Q!MinPx
    BY DEF SplitInv, SplitTyped, Q!Whole, Wholes, PlaceForBoth
  <2>2. CASE r = Q!DefaultRatio
    <3>1. r[1] = 1 /\ r[2] = 2
      BY <2>2 DEF Q!DefaultRatio
    <3>2. w \div 2 > 0 /\ w \div 2 < w
      BY <2>1 DEF Q!MinPx
    <3> QED
      BY <2>1, <3>1, <3>2
  <2>3. CASE r # Q!DefaultRatio
    <3>1. r = share[way] /\ r # Q!Unset
      BY <2>3 DEF Q!Ratio
    <3>2. PICK a \in Nat, b \in Wholes(way) : r = <<a, b>> /\ Q!MinPx <= a /\ a <= b - Q!MinPx
      BY <2>3, <3>1 DEF SplitInv, SplitTyped, IsShare
    <3>3. b \in Nat /\ b <= 10 * w
      BY <2>1 DEF Wholes, PlaceForBoth, Q!MinPx
    <3>4. 10 <= a /\ a < b
      BY <3>2, <3>3 DEF Q!MinPx
    <3>5. r[1] = a /\ r[2] = b
      BY <3>2
    <3> QED
      BY <2>1, <3>3, <3>4, <3>5, PartIsSeen
  <2> QED
    BY <2>2, <2>3
<1> QED
  BY <1>1, SplitSafe, PTL

-----------------------------------------------------------------------------
(* A menu, and the switcher that runs what is highlighted in it. *)

CONSTANT Lists
VARIABLES opened, items, menuItems, handleItems, keyItems, filter, highlighted, waiting, changed,
          ran

D == INSTANCE Dropdown WITH selected <- highlighted

\* The menu's functions are of the present items; those that the switcher has too, while
\* the menu is open with the items that it was opened with.
HandleIsOfShown ==
    /\ menuItems = items
    /\ opened = "this" /\ ~changed => handleItems = items

MenuInv == HandleIsOfShown /\ D!RunsTheHighlighted

\* The items are rendered: the switcher's functions are of the render before.
LEMMA RendersThem ==
    ASSUME MenuInv, NEW list, D!Render(list)
    PROVE  /\ items' = list /\ menuItems' = items'
           /\ list = items => handleItems' = items'
  BY DEF D!Render, D!Handle, MenuInv, HandleIsOfShown

LEMMA OpensInv ==
    ASSUME MenuInv, NEW index, D!OpenAt(index) PROVE MenuInv'
<1>1. D!Render(items) /\ ran' = ran
  BY DEF D!OpenAt
<1>2. items' = items /\ menuItems' = items' /\ handleItems' = items'
  BY <1>1, RendersThem
<1> QED
  BY <1>1, <1>2 DEF MenuInv, HandleIsOfShown, D!RunsTheHighlighted

LEMMA ClosesInv ==
    ASSUME MenuInv, D!Close, ran' = ran PROVE MenuInv'
<1>1. D!Render(items) /\ opened' = "none"
  BY DEF D!Close
<1>2. items' = items /\ menuItems' = items'
  BY <1>1, RendersThem
<1> QED
  BY <1>1, <1>2 DEF MenuInv, HandleIsOfShown, D!RunsTheHighlighted

LEMMA MovesInv ==
    ASSUME MenuInv, opened' = opened, items' = items, menuItems' = menuItems,
           handleItems' = handleItems, changed' = changed, ran' = ran
    PROVE  MenuInv'
  BY DEF MenuInv, HandleIsOfShown, D!RunsTheHighlighted

LEMMA ReleaseInv == ASSUME MenuInv, D!Release PROVE MenuInv'
<1>1. /\ opened = "this" /\ D!Close
      /\ ran' = [item |-> D!Item(handleItems, highlighted),
                 highlighted |-> D!Item(D!Shown, highlighted), plain |-> ~filter /\ ~changed]
  BY DEF D!Release
<1>2. items' = items /\ menuItems' = items' /\ opened' = "none"
  BY <1>1, RendersThem DEF D!Close
<1>3. ASSUME ~filter, ~changed PROVE D!Item(handleItems, highlighted) = D!Item(D!Shown, highlighted)
  <2>1. D!Shown = items
    BY <1>3 DEF D!Shown
  <2>2. handleItems = items
    BY <1>1, <1>3 DEF MenuInv, HandleIsOfShown
  <2> QED
    BY <2>1, <2>2
<1>4. D!RunsTheHighlighted'
  <2>1. ran'.plain = (~filter /\ ~changed) /\ ran'.item = D!Item(handleItems, highlighted)
        /\ ran'.highlighted = D!Item(D!Shown, highlighted)
    BY <1>1
  <2> QED
    BY <1>3, <2>1 DEF D!RunsTheHighlighted
<1> QED
  BY <1>2, <1>4 DEF MenuInv, HandleIsOfShown

LEMMA ItemsChangeInv == ASSUME MenuInv, NEW list, D!ItemsChange(list) PROVE MenuInv'
<1>1. /\ D!Render(list) /\ changed' = (changed \/ opened = "this") /\ opened' = opened /\ ran' = ran
  BY DEF D!ItemsChange
<1>2. menuItems' = items'
  BY <1>1, RendersThem
<1> QED
  BY <1>1, <1>2 DEF MenuInv, HandleIsOfShown, D!RunsTheHighlighted

LEMMA MenuNext == ASSUME MenuInv, D!Next PROVE MenuInv'
<1>1. CASE D!Open
  BY <1>1, OpensInv DEF D!Open
<1>2. CASE D!Switch
  BY <1>2, OpensInv, MovesInv DEF D!Switch
<1>3. CASE D!Dismiss
  BY <1>3, ClosesInv DEF D!Dismiss
<1>4. CASE D!Escape
  <2>1. ran' = ran /\ changed' = changed
    BY <1>4 DEF D!Escape
  <2>2. CASE filter
    BY <1>4, <2>1, <2>2, MovesInv DEF D!Escape
  <2>3. CASE ~filter
    BY <1>4, <2>1, <2>3, ClosesInv DEF D!Escape
  <2> QED
    BY <2>2, <2>3
<1>5. CASE D!OpenOther
  <2>1. opened' = "other" /\ ran' = ran
    BY <1>5 DEF D!OpenOther
  <2>2. menuItems' = items'
    <3>1. CASE opened = "this"
      BY <1>5, <3>1, RendersThem DEF D!OpenOther
    <3>2. CASE opened # "this"
      BY <1>5, <3>2 DEF D!OpenOther, MenuInv, HandleIsOfShown
    <3> QED
      BY <3>1, <3>2
  <2> QED
    BY <2>1, <2>2 DEF MenuInv, HandleIsOfShown, D!RunsTheHighlighted
<1>6. CASE D!Arrow
  BY <1>6, MovesInv DEF D!Arrow
<1>7. CASE D!Type
  BY <1>7, MovesInv DEF D!Type
<1>8. CASE D!Click
  <2>1. ran' = ran /\ changed' = changed
    BY <1>8 DEF D!Click
  <2>2. CASE D!Close
    BY <2>1, <2>2, ClosesInv
  <2>3. CASE ~D!Close
    BY <1>8, <2>1, <2>3, MovesInv DEF D!Click
  <2> QED
    BY <2>2, <2>3
<1>9. CASE D!WaitEnds
  BY <1>9, ClosesInv DEF D!WaitEnds
<1>10. ASSUME NEW list, D!ItemsChange(list) PROVE MenuInv'
  BY <1>10, ItemsChangeInv
<1>11. ASSUME NEW index, D!Hover(index) PROVE MenuInv'
  BY <1>11, MovesInv DEF D!Hover
<1>12. ASSUME NEW index, D!ClickContent(index) PROVE MenuInv'
  <2>1. D!Render(items) /\ opened' = "none" /\ ran' = ran
    BY <1>12 DEF D!ClickContent
  <2>2. menuItems' = items'
    BY <2>1, RendersThem
  <2> QED
    BY <2>1, <2>2 DEF MenuInv, HandleIsOfShown, D!RunsTheHighlighted
<1> QED
  BY <1>1, <1>2, <1>3, <1>4, <1>5, <1>6, <1>7, <1>8, <1>9, <1>10, <1>11, <1>12, ReleaseInv
     DEF D!Next

\* What the switcher runs is what is highlighted, though the functions it calls are a
\* render old; unless the items changed while the menu was open, or a filter is typed
\* (RecentRequestsDropdown.tsx).
THEOREM SwitcherRunsTheHighlighted == D!Spec => []D!RunsTheHighlighted
<1>1. D!Init => MenuInv
  BY DEF D!Init, MenuInv, HandleIsOfShown, D!RunsTheHighlighted
<1>2. MenuInv /\ [D!Next]_D!vars => MenuInv'
  BY MenuNext, MovesInv DEF D!vars
<1>3. MenuInv => D!RunsTheHighlighted
  BY DEF MenuInv
<1> QED
  BY <1>1, <1>2, <1>3, PTL DEF D!Spec

-----------------------------------------------------------------------------
(* The sidebar under the keyboard. *)

CONSTANTS Listed, MaxSteps
VARIABLES sidebarList, activeRequest, hidden, hasFocus, chosenItem, focus, editing, asked, sidebarCalls, stray

BB == INSTANCE SidebarKeys WITH
    list <- sidebarList, calls <- sidebarCalls,
    active <- activeRequest, selected <- chosenItem, Requests <- Listed, MaxAsked <- MaxSteps

\* A request is no place beside the sidebar.
RequestsAreInside == Listed \cap {"dialog", "away"} = {}

FocusInv == hasFocus \in BOOLEAN /\ stray \in BOOLEAN /\ BB!KeysAreIts

\* The document's focus moves.
LEMMA FocusMoves ==
    ASSUME FocusInv, NEW place, BB!FocusTo(place) PROVE FocusInv'
  BY DEF BB!FocusTo, BB!Blurred, FocusInv, BB!KeysAreIts, BB!Inside

LEMMA FocusStays ==
    ASSUME FocusInv, hasFocus' = hasFocus, stray' = stray, focus' = focus PROVE FocusInv'
  BY DEF FocusInv, BB!KeysAreIts

LEMMA FocusNext == ASSUME RequestsAreInside, FocusInv, BB!Next PROVE FocusInv'
<1>1. CASE BB!Tab
  BY <1>1, FocusMoves DEF BB!Tab
<1>2. CASE BB!FocusKey
  BY <1>2 DEF BB!FocusKey, FocusInv, BB!KeysAreIts, BB!Inside
<1>3. CASE BB!Enter
  BY <1>3, FocusStays DEF BB!Enter
<1>4. CASE BB!Backspace
  BY <1>4, FocusMoves DEF BB!Backspace, BB!Ask
<1>5. CASE BB!EscapeName
  BY <1>5 DEF BB!EscapeName, FocusInv, BB!KeysAreIts
<1>6. CASE BB!Done
  <2> DEFINE c == Head(sidebarCalls)
  <2>1. CASE c.does = "go"
    BY <1>6, <2>1 DEF BB!Done, FocusInv, BB!KeysAreIts
  <2>2. CASE c.does # "go"
    <3>1. hasFocus' = hasFocus /\ stray' = (stray \/ focus' # focus)
      BY <1>6, <2>2 DEF BB!Done
    <3> QED
      BY <3>1 DEF FocusInv, BB!KeysAreIts, BB!Inside
  <2> QED
    BY <2>1, <2>2
<1>7. ASSUME NEW r \in Listed,
             BB!Click(r) \/ BB!Ask(r) \/ BB!Duplicate(r) \/ BB!DeletedElsewhere(r) \/ BB!StartEditing(r)
      PROVE  FocusInv'
  <2>1. CASE BB!Click(r)
    BY <2>1, FocusMoves DEF BB!Click
  <2>2. CASE BB!Ask(r)
    BY <2>2, FocusMoves DEF BB!Ask
  <2>3. CASE BB!Duplicate(r)
    BY <2>3, FocusStays DEF BB!Duplicate
  <2>4. CASE BB!DeletedElsewhere(r)
    <3>1. hasFocus' = hasFocus /\ stray' \in BOOLEAN
      BY <2>4 DEF BB!DeletedElsewhere, FocusInv
    <3>2. CASE focus = IF editing = r THEN "field" ELSE r
      <4>1. stray'
        BY <2>4, <3>2 DEF BB!DeletedElsewhere
      <4> QED
        BY <3>1, <4>1 DEF FocusInv, BB!KeysAreIts
    <3>3. CASE focus # IF editing = r THEN "field" ELSE r
      <4>1. stray' = stray /\ focus' = focus
        BY <2>4, <3>3 DEF BB!DeletedElsewhere, FocusInv
      <4> QED
        BY <3>1, <4>1, FocusStays
    <3> QED
      BY <3>2, <3>3
  <2>5. CASE BB!StartEditing(r)
    BY <2>5, FocusMoves DEF BB!StartEditing
  <2> QED
    BY <1>7, <2>1, <2>2, <2>3, <2>4, <2>5
<1>8. ASSUME NEW step \in {-1, 1}, BB!Arrow(step) PROVE FocusInv'
  BY <1>8, FocusStays DEF BB!Arrow
<1>9. ASSUME NEW yes \in BOOLEAN, BB!Answer(yes) PROVE FocusInv'
  BY <1>9 DEF BB!Answer, FocusInv, BB!KeysAreIts, BB!Inside
<1>10. ASSUME NEW goes \in BOOLEAN, BB!Submit(goes) PROVE FocusInv'
  BY <1>10, FocusMoves, FocusStays DEF BB!Submit
<1> QED
  BY <1>1, <1>2, <1>3, <1>4, <1>5, <1>6, <1>7, <1>8, <1>9, <1>10 DEF BB!Next

\* The keys act on the sidebar only while the focus is in it: Backspace in an editor deletes
\* no request.  Not after an element went away with the focus (Sidebar.tsx).
THEOREM SidebarKeysAreIts == ASSUME RequestsAreInside PROVE BB!Spec => []BB!KeysAreIts
<1>1. BB!Init => FocusInv
  BY DEF BB!Init, FocusInv, BB!KeysAreIts
<1>2. FocusInv /\ [BB!Next]_BB!vars => FocusInv'
  BY FocusNext, FocusStays DEF BB!vars
<1>3. FocusInv => BB!KeysAreIts
  BY DEF FocusInv
<1> QED
  BY <1>1, <1>2, <1>3, PTL DEF BB!Spec

\* When the focus comes to the sidebar, also back from a dialog or by its key, the active
\* request is selected, whatever was: the keys begin there (focusActiveRequest).
THEOREM SidebarComesToTheActive ==
    ASSUME RequestsAreInside PROVE BB!Spec => [][BB!ComesToTheActive]_BB!vars
<1>1. [BB!Next]_BB!vars => [BB!ComesToTheActive]_BB!vars
  <2> SUFFICES ASSUME BB!Next, focus \notin BB!Inside, ~hasFocus, focus' \in {"sidebar"} \cup Listed
               PROVE  chosenItem' = IF BB!There(activeRequest) THEN activeRequest ELSE BB!None
    BY DEF BB!ComesToTheActive
  <2>1. focus' \in BB!Inside /\ focus' # focus /\ focus # "field" /\ focus # "sidebar"
    BY DEF BB!Inside
  <2>2. ASSUME NEW place, BB!FocusTo(place) PROVE chosenItem' = BB!ActiveItem
    BY <2>1, <2>2 DEF BB!FocusTo
  <2>3. CASE BB!FocusKey
    <3>1. focus' # focus
      BY <2>1
    <3> QED
      BY <2>1, <2>3 DEF BB!FocusKey, BB!ActiveItem
  <2>4. CASE BB!Tab
    BY <2>2, <2>4 DEF BB!Tab, BB!ActiveItem
  <2>5. ASSUME NEW r, BB!Click(r) \/ BB!Ask(r) \/ BB!StartEditing(r)
        PROVE  chosenItem' = BB!ActiveItem
    BY <2>2, <2>5 DEF BB!Click, BB!Ask, BB!StartEditing
  <2>6. CASE BB!Backspace
    BY <2>6 DEF BB!Backspace
  <2>7. CASE BB!Enter
    BY <2>1, <2>7 DEF BB!Enter
  <2>8. CASE BB!EscapeName
    BY <2>1, <2>8 DEF BB!EscapeName
  <2>9. CASE BB!Done
    <3>1. focus' = focus \/ focus' = "away"
      BY <2>9 DEF BB!Done
    <3> QED
      BY <2>1, <3>1 DEF RequestsAreInside
  <2>10. ASSUME NEW r, BB!Duplicate(r) PROVE FALSE
    BY <2>1, <2>10 DEF BB!Duplicate
  <2>11. ASSUME NEW r, BB!DeletedElsewhere(r) PROVE FALSE
    <3>1. focus' = focus \/ focus' = "away"
      BY <2>11 DEF BB!DeletedElsewhere
    <3> QED
      BY <2>1, <3>1 DEF RequestsAreInside
  <2>12. ASSUME NEW step, BB!Arrow(step) PROVE FALSE
    BY <2>12 DEF BB!Arrow
  <2>13. ASSUME NEW yes, BB!Answer(yes) PROVE chosenItem' = BB!ActiveItem
    <3>1. focus' = "sidebar"
      BY <2>1, <2>13 DEF BB!Answer, RequestsAreInside
    <3> QED
      BY <2>13, <3>1 DEF BB!Answer
  <2>14. ASSUME NEW goes, BB!Submit(goes) PROVE FALSE
    BY <2>1, <2>14 DEF BB!Submit
  <2> QED
    BY <2>3, <2>4, <2>5, <2>6, <2>7, <2>8, <2>9, <2>10, <2>11, <2>12, <2>13, <2>14
       DEF BB!Next, BB!ActiveItem
<1> QED
  BY <1>1, PTL DEF BB!Spec

-----------------------------------------------------------------------------
(* The pane of a gRPC request: its services, and the method that is chosen. *)

CONSTANTS PaneRequests, GrpcUrls, Served, FromFiles, Rows, Worked, MaxPatches, MaxReads,
          ServiceNames, MethodNames
VARIABLES grpcRequest, grpcRows, files, patches, debounced, services, grpcReads, doubtful, checked

Z == INSTANCE GrpcPane WITH
    request <- grpcRequest, rows <- grpcRows, cache <- services, reading <- grpcReads,
    Requests <- PaneRequests, Urls <- GrpcUrls

ServiceOf == [name : ServiceNames, methods : Seq(MethodNames)]
Services == Seq(ServiceOf)
RowOf == [url : GrpcUrls, service : ServiceNames \cup {Z!None}, method : MethodNames \cup {Z!None}]

\* Services and methods have names; what is served is no mark.
ServicesAreNamed ==
    /\ FromFiles \in Services
    /\ \A u \in GrpcUrls : Served[u] \in Services \cup {Z!Failed}
    /\ ServiceNames \cap {Z!None, "?", "!"} = {}
    /\ Rows \subseteq [PaneRequests -> RowOf]

PatchOf == [of : PaneRequests, row : RowOf]

GrpcTyped ==
    /\ grpcRequest \in PaneRequests /\ grpcRows \in [PaneRequests -> RowOf]
    /\ files \subseteq PaneRequests /\ debounced \in GrpcUrls
    /\ patches \in Seq(PatchOf)
    /\ services \in [Z!Keys -> Services \cup {Z!Unknown, Z!Failed}]
    /\ grpcReads \subseteq Z!Keys

\* What a key asks for.
Expected(k) == IF k[3] = "files" THEN FromFiles ELSE Served[k[2]]

\* What is known under a key is what it asks for, unless it was an answer of another URL.
KnownIsExpected ==
    \A k \in Z!Keys : k \notin doubtful /\ services[k] # Z!Unknown =>
        services[k] = Expected(k) \/ (Expected(k) = Z!Failed /\ Z!Known(services[k]))

\* The pane's key was asked for.
KeyIsAsked == Z!Key \in grpcReads \/ services[Z!Key] # Z!Unknown

\* The effect has seen the row with the services, or will see another one.
RowIsSeen(svs) ==
    Z!Known(svs) =>
        /\ Z!Chosen(grpcRows[grpcRequest], svs) = grpcRows[grpcRequest]
        /\ Z!HasMethod(svs, grpcRows[grpcRequest]) /\ grpcRows[grpcRequest].service # Z!None
           /\ grpcRows[grpcRequest].method # Z!None =>
              checked = <<grpcRows[grpcRequest].service, grpcRows[grpcRequest].method>>
PatchIsComing == \E i \in 1..Len(patches) : patches[i].of = grpcRequest
MethodIsSeen == PatchIsComing \/ RowIsSeen(services[Z!Key])

GrpcInv == GrpcTyped /\ KnownIsExpected /\ KeyIsAsked /\ MethodIsSeen

LEMMA KeysAre ==
    ASSUME NEW r \in PaneRequests, NEW u \in GrpcUrls, NEW with
    PROVE  /\ Z!KeyOf(r, u, with) \in Z!Keys
           /\ Z!KeyOf(r, u, with)[1] = r /\ Z!KeyOf(r, u, with)[2] = u
           /\ Z!KeyOf(r, u, with)[3] = "files" <=> r \in with
  BY DEF Z!KeyOf, Z!Keys

LEMMA ServicesHave ==
    ASSUME NEW svs \in Services
    PROVE  /\ \A s \in Z!ToSet(svs) : s \in ServiceOf
           /\ svs # <<>> => 1 \in DOMAIN svs /\ Head(svs) = svs[1] /\ svs[1] \in Z!ToSet(svs)
<1>1. svs \in Seq(ServiceOf)
  BY DEF Services
<1>2. \A i \in DOMAIN svs : svs[i] \in ServiceOf
  BY <1>1
<1>3. svs # <<>> => 1 \in DOMAIN svs /\ Head(svs) = svs[1]
  BY <1>1
<1> QED
  BY <1>2, <1>3 DEF Z!ToSet

\* What is chosen of services is a row.
LEMMA ChosenIsRow ==
    ASSUME NEW svs \in Services, NEW row \in RowOf
    PROVE  Z!Chosen(row, svs) \in RowOf
<1>1. CASE Z!HasMethod(svs, row)
  BY <1>1 DEF Z!Chosen
<1>2. CASE ~Z!HasMethod(svs, row) /\ Z!HasService(svs, row.service)
  <2>1. \E s \in Z!ToSet(svs) : s.name = row.service
    BY <1>2 DEF Z!HasService
  <2>2. PICK s \in Z!ToSet(svs) : Z!Methods(svs, row.service) = s.methods
    BY <2>1 DEF Z!Methods
  <2>3. s \in ServiceOf
    BY <2>2, ServicesHave
  <2>4. s.methods \in Seq(MethodNames)
    BY <2>3 DEF ServiceOf
  <2>5. Z!FirstOr(s.methods, Z!None) \in MethodNames \cup {Z!None}
    BY <2>4 DEF Z!FirstOr
  <2>6. Z!Chosen(row, svs) = [row EXCEPT !.method = Z!FirstOr(s.methods, Z!None)]
    BY <1>2, <2>2 DEF Z!Chosen
  <2> QED
    BY <2>5, <2>6 DEF RowOf
<1>3. CASE ~Z!HasMethod(svs, row) /\ ~Z!HasService(svs, row.service)
  <2>1. PICK first : first = Z!FirstOr(svs, [name |-> Z!None, methods |-> <<>>])
    OBVIOUS
  <2>2. first.name \in ServiceNames \cup {Z!None} /\ first.methods \in Seq(MethodNames)
    <3>1. CASE svs = <<>>
      <4>1. first = [name |-> Z!None, methods |-> <<>>]
        BY <2>1, <3>1 DEF Z!FirstOr
      <4> QED
        BY <4>1
    <3>2. CASE svs # <<>>
      <4>1. first \in ServiceOf
        BY <2>1, <3>2, ServicesHave DEF Z!FirstOr
      <4> QED
        BY <4>1 DEF ServiceOf
    <3> QED
      BY <3>1, <3>2
  <2>3. PICK m : m = Z!FirstOr(first.methods, Z!None)
    OBVIOUS
  <2>4. m \in MethodNames \cup {Z!None}
    BY <2>2, <2>3 DEF Z!FirstOr
  <2>5. Z!Chosen(row, svs) = [row EXCEPT !.service = first.name, !.method = m]
    BY <1>3, <2>1, <2>3 DEF Z!Chosen
  <2> QED
    BY <2>2, <2>4, <2>5 DEF RowOf
<1> QED
  BY <1>1, <1>2, <1>3

\* A row that the effect leaves as it is has a method that exists, or none.
LEMMA ChosenExists ==
    ASSUME ServicesAreNamed, NEW svs \in Services, NEW row \in RowOf, Z!Chosen(row, svs) = row,
           row.method # Z!None
    PROVE  Z!HasMethod(svs, row) /\ row.service # Z!None
<1>1. Z!HasMethod(svs, row)
  <2> SUFFICES ASSUME ~Z!HasMethod(svs, row) PROVE FALSE
    OBVIOUS
  <2>1. CASE Z!HasService(svs, row.service)
    <3>1. PICK ms : ms = Z!Methods(svs, row.service)
      OBVIOUS
    <3>2. Z!Chosen(row, svs) = [row EXCEPT !.method = Z!FirstOr(ms, Z!None)]
      BY <2>1, <3>1 DEF Z!Chosen
    <3>3. row.method = Z!FirstOr(ms, Z!None)
      BY <3>2 DEF RowOf
    <3>4. ms # <<>> /\ row.method = Head(ms)
      BY <3>3 DEF Z!FirstOr
    <3>5. PICK s \in Z!ToSet(svs) : s.methods = ms
      BY <2>1, <3>1 DEF Z!HasService, Z!Methods
    <3>6. s \in ServiceOf
      BY <3>5, ServicesHave
    <3>7. ms \in Seq(MethodNames)
      BY <3>5, <3>6 DEF ServiceOf
    <3>8. Head(ms) \in Z!ToSet(ms)
      <4>1. 1 \in DOMAIN ms /\ Head(ms) = ms[1]
        BY <3>4, <3>7
      <4> QED
        BY <4>1 DEF Z!ToSet
    <3> QED
      BY <2>1, <3>1, <3>4, <3>8 DEF Z!HasMethod
  <2>2. CASE ~Z!HasService(svs, row.service)
    <3>1. PICK first : first = Z!FirstOr(svs, [name |-> Z!None, methods |-> <<>>])
      OBVIOUS
    <3>2. PICK m : m = Z!FirstOr(first.methods, Z!None)
      OBVIOUS
    <3>3. Z!Chosen(row, svs) = [row EXCEPT !.service = first.name, !.method = m]
      BY <2>2, <3>1, <3>2 DEF Z!Chosen
    <3>4. row.service = first.name /\ row.method = m
      BY <3>3 DEF RowOf
    <3>5. CASE svs = <<>>
      <4>1. first.methods = <<>>
        BY <3>1, <3>5 DEF Z!FirstOr
      <4> QED
        BY <3>2, <3>4, <4>1 DEF Z!FirstOr
    <3>6. CASE svs # <<>>
      <4>1. first = Head(svs)
        BY <3>1, <3>6 DEF Z!FirstOr
      <4>2. first \in Z!ToSet(svs)
        BY <3>6, <4>1, ServicesHave
      <4> QED
        BY <2>2, <3>4, <4>2 DEF Z!HasService
    <3> QED
      BY <3>5, <3>6
  <2> QED
    BY <2>1, <2>2
<1>2. row.service \in ServiceNames
  <2>1. PICK s \in Z!ToSet(svs) : s.name = row.service
    BY <1>1 DEF Z!HasMethod, Z!HasService
  <2>2. s \in ServiceOf
    BY <2>1, ServicesHave
  <2> QED
    BY <2>1, <2>2 DEF ServiceOf
<1> QED
  BY <1>1, <1>2 DEF ServicesAreNamed

\* What is known is services.
LEMMA KnownAre ==
    ASSUME NEW svs \in Services \cup {Z!Unknown, Z!Failed}, Z!Known(svs) PROVE svs \in Services
  BY DEF Z!Known

LEMMA MarksAre ==
    ASSUME ServicesAreNamed
    PROVE  /\ Z!Unknown \notin Services \cup {Z!Failed} /\ Z!Failed \notin Services
           /\ \A svs \in Services : Z!Known(svs)
<1>1. Z!Unknown[1] = [name |-> "?", methods |-> <<>>] /\ Z!Failed[1] = [name |-> "!", methods |-> <<>>]
  BY DEF Z!Unknown, Z!Failed
<1>2. DOMAIN Z!Unknown = {1} /\ DOMAIN Z!Failed = {1}
  BY DEF Z!Unknown, Z!Failed
<1>3. ASSUME NEW svs \in Services, 1 \in DOMAIN svs PROVE svs[1].name \in ServiceNames
  <2>1. svs[1] \in ServiceOf
    BY <1>3, ServicesHave DEF Z!ToSet
  <2> QED
    BY <2>1 DEF ServiceOf
<1>4. Z!Unknown # Z!Failed
  <2>1. Z!Unknown[1].name = "?" /\ Z!Failed[1].name = "!"
    BY <1>1
  <2> QED
    BY <2>1
<1>5. Z!Unknown \notin Services /\ Z!Failed \notin Services
  BY <1>1, <1>2, <1>3 DEF ServicesAreNamed
<1> QED
  BY <1>4, <1>5 DEF Z!Known

\* The pane sees a row with services: a patch follows, or the row is as it would be.
LEMMA Sees ==
    ASSUME ServicesAreNamed, NEW r \in PaneRequests, NEW row \in RowOf, NEW key, NEW knowns,
           knowns[key] \in Services \cup {Z!Unknown, Z!Failed},
           NEW sent \in Seq(PatchOf), Z!See(r, row, key, knowns, sent)
    PROVE  /\ patches' \in Seq(PatchOf)
           /\ \/ \E i \in 1..Len(patches') : patches'[i].of = r
              \/ Z!Known(knowns[key]) =>
                    /\ Z!Chosen(row, knowns[key]) = row
                    /\ Z!HasMethod(knowns[key], row) /\ row.service # Z!None
                       /\ row.method # Z!None => checked' = <<row.service, row.method>>
<1>1. PICK svs \in Services \cup {Z!Unknown, Z!Failed} : svs = knowns[key]
  OBVIOUS
<1>2. patches' = sent \o Z!Patches(r, row, svs) /\ checked' = Z!Checks(row, svs)
  BY <1>1 DEF Z!See
<1>3. CASE Z!Known(svs) /\ Z!Chosen(row, svs) # row
  <2>1. PICK p : p = [of |-> r, row |-> Z!Chosen(row, svs)]
    OBVIOUS
  <2>2. p \in PatchOf /\ p.of = r
    BY <1>3, <2>1, KnownAre, ChosenIsRow DEF PatchOf
  <2>3. patches' = sent \o <<p>>
    BY <1>2, <1>3, <2>1 DEF Z!Patches
  <2>4. PICK one : one = <<p>>
    OBVIOUS
  <2>5. one \in Seq(PatchOf) /\ Len(one) = 1 /\ one[1] = p
    BY <2>2, <2>4
  <2>6. PICK more : more = sent \o one
    OBVIOUS
  <2>7. more \in Seq(PatchOf) /\ Len(more) = Len(sent) + 1 /\ more[Len(sent) + 1] = p
    <3>1. /\ more \in Seq(PatchOf) /\ Len(more) = Len(sent) + Len(one)
          /\ \A j \in 1..Len(sent) + Len(one) :
                more[j] = IF j <= Len(sent) THEN sent[j] ELSE one[j - Len(sent)]
      BY <2>5, <2>6, ConcatProperties
    <3> QED
      BY <2>5, <3>1
  <2>8. patches' = more
    BY <2>3, <2>4, <2>6
  <2>9. PICK n \in Nat : n = Len(sent) + 1
    OBVIOUS
  <2>10. n \in 1..Len(more) /\ more[n].of = r
    BY <2>2, <2>7, <2>9
  <2> QED
    BY <2>7, <2>8, <2>10
<1>4. CASE ~(Z!Known(svs) /\ Z!Chosen(row, svs) # row)
  <2>1. patches' = sent \o <<>>
    BY <1>2, <1>4 DEF Z!Patches
  <2>2. patches' = sent
    BY <2>1
  <2>3. ASSUME Z!Known(svs), Z!HasMethod(svs, row), row.service # Z!None, row.method # Z!None
        PROVE  checked' = <<row.service, row.method>>
    BY <1>2, <2>3 DEF Z!Checks
  <2> QED
    BY <1>1, <1>4, <2>2, <2>3
<1> QED
  BY <1>3, <1>4

\* The pane comes to see its request as the row, with the services of its key.
LEMMA SeesInv ==
    ASSUME ServicesAreNamed, NEW r \in PaneRequests, NEW row \in RowOf, NEW key, NEW knowns,
           knowns[key] \in Services \cup {Z!Unknown, Z!Failed},
           NEW sent \in Seq(PatchOf), Z!See(r, row, key, knowns, sent),
           grpcRequest' = r, grpcRows'[r] = row, services' = knowns, Z!Key' = key
    PROVE  patches' \in Seq(PatchOf) /\ MethodIsSeen'
<1>1. services'[Z!Key'] = knowns[key] /\ grpcRows'[grpcRequest'] = row
  OBVIOUS
<1>2. /\ patches' \in Seq(PatchOf)
      /\ \/ \E i \in 1..Len(patches') : patches'[i].of = r
         \/ Z!Known(knowns[key]) =>
               /\ Z!Chosen(row, knowns[key]) = row
               /\ Z!HasMethod(knowns[key], row) /\ row.service # Z!None
                  /\ row.method # Z!None => checked' = <<row.service, row.method>>
  BY Sees
<1>3. CASE \E i \in 1..Len(patches') : patches'[i].of = r
  BY <1>2, <1>3 DEF MethodIsSeen, PatchIsComing
<1>4. CASE ~\E i \in 1..Len(patches') : patches'[i].of = r
  <2>1. PICK svs : svs = knowns[key]
    OBVIOUS
  <2>2. Z!Known(svs) =>
               /\ Z!Chosen(row, svs) = row
               /\ Z!HasMethod(svs, row) /\ row.service # Z!None
                  /\ row.method # Z!None => checked' = <<row.service, row.method>>
    BY <1>2, <1>4, <2>1
  <2>3. RowIsSeen(svs)'
    BY <1>1, <2>2 DEF RowIsSeen
  <2>4. RowIsSeen(services[Z!Key])'
    BY <1>1, <2>1, <2>3
  <2> QED
    BY <1>2, <2>4 DEF MethodIsSeen
<1> QED
  BY <1>2, <1>3, <1>4

\* What the pane sees is the same.
LEMMA SeesTheSame ==
    ASSUME MethodIsSeen, grpcRequest' = grpcRequest, checked' = checked,
           grpcRows'[grpcRequest] = grpcRows[grpcRequest], services'[Z!Key'] = services[Z!Key],
           PatchIsComing => PatchIsComing'
    PROVE  MethodIsSeen'
<1>1. CASE PatchIsComing
  BY <1>1 DEF MethodIsSeen
<1>2. CASE ~PatchIsComing
  <2>1. PICK svs : svs = services[Z!Key]
    OBVIOUS
  <2>2. RowIsSeen(svs)
    BY <1>2, <2>1 DEF MethodIsSeen
  <2>3. RowIsSeen(svs)'
    BY <2>2 DEF RowIsSeen
  <2>4. services'[Z!Key'] = svs
    BY <2>1
  <2> QED
    BY <2>3, <2>4 DEF MethodIsSeen
<1> QED
  BY <1>1, <1>2

LEMMA GrpcInit == ASSUME ServicesAreNamed, Z!Init PROVE GrpcInv
<1>1. /\ grpcRequest \in PaneRequests /\ grpcRows \in Rows /\ files = {} /\ patches = <<>>
      /\ debounced = grpcRows[grpcRequest].url /\ services = [k \in Z!Keys |-> Z!Unknown]
      /\ grpcReads = {Z!Key}
  BY DEF Z!Init
<1>2. grpcRows \in [PaneRequests -> RowOf] /\ debounced \in GrpcUrls
  BY <1>1 DEF ServicesAreNamed, RowOf
<1>3. Z!Key \in Z!Keys
  BY <1>1, <1>2, KeysAre DEF Z!Key
<1>4. GrpcTyped
  <2>1. grpcReads \subseteq Z!Keys /\ patches \in Seq(PatchOf)
    BY <1>1, <1>3
  <2>2. services \in [Z!Keys -> Services \cup {Z!Unknown, Z!Failed}]
    BY <1>1
  <2> QED
    BY <1>1, <1>2, <2>1, <2>2 DEF GrpcTyped
<1>5. KnownIsExpected
  BY <1>1 DEF KnownIsExpected
<1>6. KeyIsAsked
  BY <1>1, <1>3 DEF KeyIsAsked
<1>7. MethodIsSeen
  <2>1. services[Z!Key] = Z!Unknown
    BY <1>1, <1>3
  <2>2. ~Z!Known(Z!Unknown)
    BY DEF Z!Known
  <2> QED
    BY <2>1, <2>2 DEF MethodIsSeen, RowIsSeen
<1> QED
  BY <1>4, <1>5, <1>6, <1>7 DEF GrpcInv

\* The pane has its key.
LEMMA KeyIsAKey ==
    ASSUME GrpcTyped
    PROVE  Z!Key \in Z!Keys /\ services[Z!Key] \in Services \cup {Z!Unknown, Z!Failed}
<1>1. Z!Key \in Z!Keys
  BY KeysAre DEF Z!Key, GrpcTyped
<1> QED
  BY <1>1 DEF GrpcTyped

\* Nothing is learned.
LEMMA LearnsNothing ==
    ASSUME GrpcInv, services' = services, doubtful' = doubtful PROVE KnownIsExpected'
  BY DEF GrpcInv, KnownIsExpected, Expected

\* A patch is written.
LEMMA SavedInv ==
    ASSUME ServicesAreNamed, GrpcInv, NEW i \in DOMAIN patches, Z!Saved(i) PROVE GrpcInv'
<1>1. GrpcTyped /\ patches \in Seq(PatchOf) /\ i \in 1..Len(patches) /\ Len(patches) \in Nat
  BY DEF GrpcInv, GrpcTyped
<1>2. PICK p \in PatchOf : p = patches[i]
  BY <1>1
<1>3. p.of \in PaneRequests /\ p.row \in RowOf
  BY DEF PatchOf
<1>4. /\ grpcRows' = [grpcRows EXCEPT ![p.of] = p.row] /\ grpcRequest' = grpcRequest
      /\ files' = files /\ debounced' = debounced /\ services' = services /\ grpcReads' = grpcReads
      /\ doubtful' = doubtful
  BY <1>2 DEF Z!Saved
<1>5. PICK left : left = SubSeq(patches, 1, i - 1) \o SubSeq(patches, i + 1, Len(patches))
  OBVIOUS
<1>6. /\ left \in Seq(PatchOf) /\ Len(left) = Len(patches) - 1
      /\ \A j \in 1..Len(left) : /\ j < i => left[j] = patches[j]
                                 /\ j >= i => left[j] = patches[j + 1]
  BY <1>1, <1>5, WithoutItem
<1>7. Z!Key' = Z!Key /\ Z!Key \in Z!Keys /\ services[Z!Key] \in Services \cup {Z!Unknown, Z!Failed}
  BY <1>1, <1>4, KeyIsAKey DEF Z!Key
<1>8. /\ grpcRows' \in [PaneRequests -> RowOf]
      /\ \A r \in PaneRequests : grpcRows'[r] = IF r = p.of THEN p.row ELSE grpcRows[r]
  BY <1>1, <1>3, <1>4 DEF GrpcTyped
<1>9. patches' \in Seq(PatchOf) /\ MethodIsSeen'
  <2>1. CASE p.of = grpcRequest
    <3>1. Z!See(grpcRequest, p.row, Z!Key, services, left)
      BY <1>2, <1>5, <2>1 DEF Z!Saved, Z!RemoveAt
    <3> QED
      BY <1>3, <1>4, <1>6, <1>7, <1>8, <2>1, <3>1, SeesInv
  <2>2. CASE p.of # grpcRequest
    <3>1. patches' = left /\ checked' = checked
      BY <1>2, <1>5, <2>2 DEF Z!Saved, Z!RemoveAt
    <3>2. ASSUME PatchIsComing PROVE PatchIsComing'
      <4>1. PICK j \in 1..Len(patches) : patches[j].of = grpcRequest
        BY <3>2 DEF PatchIsComing
      <4>2. j # i
        BY <1>2, <2>2, <4>1
      <4>3. PICK k \in Nat : k = IF j < i THEN j ELSE j - 1
        BY <1>1
      <4>4. k \in 1..Len(left) /\ left[k] = patches[j]
        BY <1>1, <1>6, <4>2, <4>3
      <4> QED
        BY <1>4, <3>1, <4>1, <4>4 DEF PatchIsComing
    <3>3. grpcRows'[grpcRequest] = grpcRows[grpcRequest] /\ MethodIsSeen
      BY <1>1, <1>8, <2>2 DEF GrpcInv, GrpcTyped
    <3> QED
      BY <1>4, <1>6, <1>7, <3>1, <3>2, <3>3, SeesTheSame
  <2> QED
    BY <2>1, <2>2
<1>10. GrpcTyped'
  BY <1>1, <1>4, <1>8, <1>9 DEF GrpcTyped
<1>11. KeyIsAsked'
  BY <1>4, <1>7 DEF GrpcInv, KeyIsAsked
<1> QED
  BY <1>4, <1>9, <1>10, <1>11, LearnsNothing DEF GrpcInv

\* The URL is typed, or a method is picked: a patch is sent.
LEMMA SendInv ==
    ASSUME ServicesAreNamed, GrpcInv, NEW row \in RowOf, Z!Send(row) PROVE GrpcInv'
<1>1. /\ grpcRequest \in PaneRequests /\ patches \in Seq(PatchOf) /\ Len(patches) \in Nat
  BY DEF GrpcInv, GrpcTyped
<1>2. PICK p : p = [of |-> grpcRequest, row |-> row]
  OBVIOUS
<1>3. p \in PatchOf
  BY <1>1, <1>2 DEF PatchOf
<1>4. PICK more : more = Append(patches, p)
  OBVIOUS
<1>5. /\ more \in Seq(PatchOf) /\ Len(more) = Len(patches) + 1
      /\ \A j \in 1..Len(patches) : more[j] = patches[j]
  BY <1>1, <1>3, <1>4, Appended
<1>6. /\ patches' = more /\ grpcRequest' = grpcRequest /\ grpcRows' = grpcRows
      /\ files' = files /\ debounced' = debounced /\ services' = services /\ grpcReads' = grpcReads
      /\ doubtful' = doubtful /\ checked' = checked
  BY <1>2, <1>4 DEF Z!Send
<1>7. Z!Key' = Z!Key
  BY <1>6 DEF Z!Key
<1>8. PatchIsComing => PatchIsComing'
  BY <1>1, <1>5, <1>6 DEF PatchIsComing
<1>9. MethodIsSeen'
  BY <1>6, <1>7, <1>8, SeesTheSame DEF GrpcInv
<1>10. GrpcTyped'
  BY <1>5, <1>6 DEF GrpcInv, GrpcTyped
<1>11. KeyIsAsked'
  BY <1>6, <1>7 DEF GrpcInv, KeyIsAsked
<1> QED
  BY <1>6, <1>9, <1>10, <1>11, LearnsNothing DEF GrpcInv

LEMMA TypesInv ==
    ASSUME ServicesAreNamed, GrpcInv, NEW url \in GrpcUrls, Z!Type(url) PROVE GrpcInv'
<1>1. PICK row \in RowOf : row = grpcRows[grpcRequest]
  BY DEF GrpcInv, GrpcTyped
<1>2. PICK new : new = [row EXCEPT !.url = url]
  OBVIOUS
<1>3. new \in RowOf /\ Z!Send(new)
  BY <1>1, <1>2 DEF RowOf, Z!Type
<1> QED
  BY <1>3, SendInv

LEMMA PicksInv ==
    ASSUME ServicesAreNamed, GrpcInv, Z!Known(services[Z!Key]),
           NEW s \in Z!ToSet(services[Z!Key]), NEW m \in Z!ToSet(s.methods), Z!Pick(s.name, m)
    PROVE  GrpcInv'
<1>1. PICK row \in RowOf : row = grpcRows[grpcRequest]
  BY DEF GrpcInv, GrpcTyped
<1>2. PICK svs \in Services : svs = services[Z!Key]
  BY KeyIsAKey, KnownAre DEF GrpcInv
<1>3. s \in ServiceOf
  BY <1>2, ServicesHave
<1>4. s.name \in ServiceNames /\ s.methods \in Seq(MethodNames)
  BY <1>3 DEF ServiceOf
<1>5. m \in MethodNames
  BY <1>4 DEF Z!ToSet
<1>6. PICK new : new = [row EXCEPT !.service = s.name, !.method = m]
  OBVIOUS
<1>7. new \in RowOf
  BY <1>4, <1>5, <1>6 DEF RowOf
<1>8. Z!Send(new)
  BY <1>1, <1>6 DEF Z!Pick
<1> QED
  BY <1>7, <1>8, SendInv

\* Another key is asked for: after the URL, by another request, or for files.
LEMMA GrpcAsksInv ==
    ASSUME ServicesAreNamed, GrpcInv, NEW r \in PaneRequests, NEW url \in GrpcUrls,
           NEW with \in SUBSET PaneRequests, NEW key, key = Z!KeyOf(r, url, with),
           grpcRequest' = r, grpcRows' = grpcRows, files' = with, debounced' = url,
           services' = services, doubtful' = doubtful,
           grpcReads' \in {grpcReads \cup {key}, grpcReads \cup {Z!Key, key}},
           Z!See(r, grpcRows[r], key, services, patches)
    PROVE  GrpcInv'
<1>1. Z!Key' = key /\ key \in Z!Keys /\ Z!Key \in Z!Keys /\ key \in grpcReads'
  BY KeysAre, KeyIsAKey DEF Z!Key, GrpcInv
<1>2. /\ grpcRows[r] \in RowOf /\ patches \in Seq(PatchOf) /\ grpcRows'[r] = grpcRows[r]
      /\ services[key] \in Services \cup {Z!Unknown, Z!Failed}
  BY <1>1 DEF GrpcInv, GrpcTyped
<1>3. patches' \in Seq(PatchOf) /\ MethodIsSeen'
  BY <1>1, <1>2, SeesInv
<1>4. GrpcTyped'
  BY <1>1, <1>3 DEF GrpcInv, GrpcTyped
<1>5. KeyIsAsked'
  BY <1>1 DEF KeyIsAsked
<1> QED
  BY <1>3, <1>4, <1>5, LearnsNothing DEF GrpcInv

LEMMA KeysInv ==
    ASSUME ServicesAreNamed, GrpcInv,
           Z!Debounce \/ Z!Configure \/ \E r \in PaneRequests : Z!Go(r)
    PROVE  GrpcInv'
<1>1. /\ grpcRequest \in PaneRequests /\ grpcRows[grpcRequest] \in RowOf /\ debounced \in GrpcUrls
      /\ files \subseteq PaneRequests
  BY DEF GrpcInv, GrpcTyped
<1>2. CASE Z!Debounce
  <2>1. PICK url : url = grpcRows[grpcRequest].url
    OBVIOUS
  <2>2. url \in GrpcUrls
    BY <1>1, <2>1 DEF RowOf
  <2>3. PICK key : key = Z!KeyOf(grpcRequest, url, files)
    OBVIOUS
  <2>4. /\ debounced' = url /\ grpcReads' = grpcReads \cup {key}
        /\ Z!See(grpcRequest, grpcRows[grpcRequest], key, services, patches)
        /\ grpcRequest' = grpcRequest /\ grpcRows' = grpcRows /\ files' = files
        /\ services' = services /\ doubtful' = doubtful
    BY <1>2, <2>1, <2>3 DEF Z!Debounce
  <2> QED
    BY <1>1, <2>2, <2>3, <2>4, GrpcAsksInv
<1>3. CASE Z!Configure
  <2>1. PICK with : with = IF grpcRequest \in files THEN files \ {grpcRequest}
                           ELSE files \cup {grpcRequest}
    OBVIOUS
  <2>2. with \in SUBSET PaneRequests
    BY <1>1, <2>1
  <2>3. PICK key : key = Z!KeyOf(grpcRequest, debounced, with)
    OBVIOUS
  <2>4. /\ files' = with
        /\ grpcReads' = grpcReads \cup (IF grpcRequest \in with THEN {Z!Key, key} ELSE {key})
        /\ Z!See(grpcRequest, grpcRows[grpcRequest], key, services, patches)
        /\ grpcRequest' = grpcRequest /\ grpcRows' = grpcRows /\ debounced' = debounced
        /\ services' = services /\ doubtful' = doubtful
    BY <1>3, <2>1, <2>3 DEF Z!Configure
  <2>5. grpcReads' \in {grpcReads \cup {key}, grpcReads \cup {Z!Key, key}}
    BY <2>4
  <2> QED
    BY <1>1, <2>2, <2>3, <2>4, <2>5, GrpcAsksInv
<1>4. ASSUME NEW r \in PaneRequests, Z!Go(r) PROVE GrpcInv'
  <2>1. PICK key : key = Z!KeyOf(r, debounced, files)
    OBVIOUS
  <2>2. /\ grpcReads' = grpcReads \cup {key} /\ Z!See(r, grpcRows[r], key, services, patches)
        /\ grpcRequest' = r /\ grpcRows' = grpcRows /\ files' = files /\ debounced' = debounced
        /\ services' = services /\ doubtful' = doubtful
    BY <1>4, <2>1 DEF Z!Go
  <2> QED
    BY <1>1, <2>1, <2>2, GrpcAsksInv
<1> QED
  BY <1>2, <1>3, <1>4

LEMMA RefreshInv == ASSUME ServicesAreNamed, GrpcInv, Z!Refresh PROVE GrpcInv'
<1>1. /\ grpcReads' = grpcReads \cup {Z!Key} /\ grpcRequest' = grpcRequest /\ grpcRows' = grpcRows
      /\ files' = files /\ patches' = patches /\ debounced' = debounced /\ services' = services
      /\ doubtful' = doubtful /\ checked' = checked
  BY DEF Z!Refresh
<1>2. Z!Key' = Z!Key /\ Z!Key \in Z!Keys
  BY <1>1, KeyIsAKey DEF Z!Key, GrpcInv
<1>3. GrpcTyped'
  BY <1>1, <1>2 DEF GrpcInv, GrpcTyped
<1>4. KeyIsAsked'
  BY <1>1, <1>2 DEF KeyIsAsked
<1>5. MethodIsSeen'
  <2>1. PatchIsComing => PatchIsComing'
    BY <1>1 DEF PatchIsComing
  <2> QED
    BY <1>1, <1>2, <2>1, SeesTheSame DEF GrpcInv
<1> QED
  BY <1>1, <1>3, <1>4, <1>5, LearnsNothing DEF GrpcInv

\* An answer comes: of the URL in the database, and the files of its key.
LEMMA GrpcAnswerInv ==
    ASSUME ServicesAreNamed, GrpcInv, NEW key \in grpcReads, Z!Answer(key) PROVE GrpcInv'
<1>1. /\ GrpcTyped /\ key \in Z!Keys /\ services[key] \in Services \cup {Z!Unknown, Z!Failed}
      /\ services \in [Z!Keys -> Services \cup {Z!Unknown, Z!Failed}]
  BY DEF GrpcInv, GrpcTyped
<1>2. key[1] \in PaneRequests /\ key[2] \in GrpcUrls
  BY <1>1 DEF Z!Keys
<1>3. PICK got : got = IF key[3] = "files" THEN FromFiles ELSE Served[grpcRows[key[1]].url]
  OBVIOUS
<1>4. got \in Services \cup {Z!Failed} /\ got # Z!Unknown
  <2>1. grpcRows[key[1]] \in RowOf
    BY <1>1, <1>2 DEF GrpcTyped
  <2>2. grpcRows[key[1]].url \in GrpcUrls
    BY <2>1 DEF RowOf
  <2>3. got \in Services \cup {Z!Failed}
    BY <1>3, <2>2 DEF ServicesAreNamed
  <2> QED
    BY <2>3, MarksAre
<1>5. PICK now : now = IF got = Z!Failed /\ Z!Known(services[key]) THEN services
                       ELSE [services EXCEPT ![key] = got]
  OBVIOUS
<1>6. /\ now \in [Z!Keys -> Services \cup {Z!Unknown, Z!Failed}]
      /\ \A k \in Z!Keys : k # key => now[k] = services[k]
      /\ now[key] = IF got = Z!Failed /\ Z!Known(services[key]) THEN services[key] ELSE got
  BY <1>1, <1>4, <1>5
<1>7. now[key] # Z!Unknown
  BY <1>4, <1>6 DEF Z!Known
<1>8. /\ services' = now /\ grpcReads' = grpcReads \ {key} /\ grpcRequest' = grpcRequest
      /\ grpcRows' = grpcRows /\ files' = files /\ debounced' = debounced
      /\ doubtful' = IF key[2] = grpcRows[key[1]].url THEN doubtful \ {key}
                     ELSE doubtful \cup {key}
  BY <1>3, <1>5 DEF Z!Answer, Z!ForKey
<1>9. Z!Key' = Z!Key /\ Z!Key \in Z!Keys
  BY <1>1, <1>8, KeyIsAKey DEF Z!Key
<1>10. patches' \in Seq(PatchOf) /\ MethodIsSeen'
  <2>1. CASE key = Z!Key
    <3>1. Z!See(grpcRequest, grpcRows[grpcRequest], Z!Key, now, patches)
      BY <1>3, <1>5, <2>1 DEF Z!Answer, Z!ForKey
    <3>2. /\ grpcRequest \in PaneRequests /\ grpcRows[grpcRequest] \in RowOf
          /\ patches \in Seq(PatchOf) /\ grpcRows'[grpcRequest] = grpcRows[grpcRequest]
          /\ now[Z!Key] \in Services \cup {Z!Unknown, Z!Failed}
      BY <1>1, <1>6, <1>8, <1>9 DEF GrpcTyped
    <3> QED
      BY <1>8, <1>9, <3>1, <3>2, SeesInv
  <2>2. CASE key # Z!Key
    <3>1. patches' = patches /\ checked' = checked
      BY <1>3, <1>5, <2>2 DEF Z!Answer, Z!ForKey
    <3>2. services'[Z!Key'] = services[Z!Key]
      BY <1>6, <1>8, <1>9, <2>2
    <3>3. PatchIsComing => PatchIsComing'
      BY <1>8, <3>1 DEF PatchIsComing
    <3>4. MethodIsSeen'
      BY <1>8, <3>1, <3>2, <3>3, SeesTheSame DEF GrpcInv
    <3> QED
      BY <1>1, <3>1, <3>4 DEF GrpcTyped
  <2> QED
    BY <2>1, <2>2
<1>11. GrpcTyped'
  BY <1>1, <1>6, <1>8, <1>10 DEF GrpcTyped
<1>12. KeyIsAsked'
  <2>1. CASE key = Z!Key
    BY <1>7, <1>8, <1>9, <2>1 DEF KeyIsAsked
  <2>2. CASE key # Z!Key
    <3>1. services'[Z!Key'] = services[Z!Key]
      BY <1>6, <1>8, <1>9, <2>2
    <3> QED
      BY <1>8, <1>9, <2>2, <3>1 DEF GrpcInv, KeyIsAsked
  <2> QED
    BY <2>1, <2>2
<1>13. KnownIsExpected'
  <2> SUFFICES ASSUME NEW k \in Z!Keys, k \notin doubtful', now[k] # Z!Unknown
               PROVE  now[k] = Expected(k) \/ (Expected(k) = Z!Failed /\ Z!Known(now[k]))
    BY <1>8 DEF KnownIsExpected, Expected
  <2>1. CASE k # key
    <3>1. k \notin doubtful /\ now[k] = services[k]
      BY <1>6, <1>8, <2>1
    <3> QED
      BY <3>1 DEF GrpcInv, KnownIsExpected
  <2>2. CASE k = key
    <3>1. key[2] = grpcRows[key[1]].url
      BY <1>8, <2>2
    <3>2. got = Expected(key)
      BY <1>3, <3>1 DEF Expected
    <3> QED
      BY <1>6, <2>2, <3>2
  <2> QED
    BY <2>1, <2>2
<1> QED
  BY <1>10, <1>11, <1>12, <1>13 DEF GrpcInv

LEMMA GrpcSafe == ASSUME ServicesAreNamed PROVE Z!Spec => []GrpcInv
<1>1. Z!Init => GrpcInv
  BY GrpcInit
<1>2. GrpcInv /\ [Z!Next]_Z!vars => GrpcInv'
  <2> SUFFICES ASSUME GrpcInv, [Z!Next]_Z!vars PROVE GrpcInv'
    OBVIOUS
  <2>1. CASE Z!Next
    <3>1. ASSUME NEW s \in (IF Z!Known(services[Z!Key]) THEN Z!ToSet(services[Z!Key]) ELSE {}),
                 NEW m \in Z!ToSet(s.methods), Z!Pick(s.name, m)
          PROVE  GrpcInv'
      <4>1. Z!Known(services[Z!Key]) /\ s \in Z!ToSet(services[Z!Key])
        BY <3>1 DEF Z!Pick
      <4> QED
        BY <3>1, <4>1, PicksInv
    <3> QED
      BY <2>1, <3>1, SavedInv, TypesInv, KeysInv, RefreshInv, GrpcAnswerInv DEF Z!Next
  <2>2. CASE UNCHANGED Z!vars
    <3>1. /\ grpcRequest' = grpcRequest /\ grpcRows' = grpcRows /\ files' = files
          /\ patches' = patches /\ debounced' = debounced /\ services' = services
          /\ grpcReads' = grpcReads /\ doubtful' = doubtful /\ checked' = checked
      BY <2>2 DEF Z!vars
    <3>2. Z!Key' = Z!Key
      BY <3>1 DEF Z!Key
    <3>3. PatchIsComing => PatchIsComing'
      BY <3>1 DEF PatchIsComing
    <3>4. MethodIsSeen'
      BY <3>1, <3>2, <3>3, SeesTheSame DEF GrpcInv
    <3> QED
      BY <3>1, <3>2, <3>4, LearnsNothing DEF GrpcInv, GrpcTyped, KeyIsAsked
  <2> QED
    BY <2>1, <2>2
<1> QED
  BY <1>1, <1>2, PTL DEF Z!Spec

\* When nothing is being typed or asked, the services are those of the request's URL or
\* files, unless the answer is of the URL the request had then (useGrpc.ts).
THEOREM ServicesAreItsOwn == ASSUME ServicesAreNamed PROVE Z!Spec => []Z!ServicesAreOwn
<1>1. GrpcInv => Z!ServicesAreOwn
  <2> SUFFICES ASSUME GrpcInv, debounced = grpcRows[grpcRequest].url, Z!Key \notin grpcReads,
                      Z!Key \notin doubtful
               PROVE  \/ services[Z!Key] = Z!ServicesOf(grpcRequest)
                      \/ Z!ServicesOf(grpcRequest) = Z!Failed /\ Z!Known(services[Z!Key])
    BY DEF Z!ServicesAreOwn, Z!Settled
  <2>1. Z!Key \in Z!Keys /\ services[Z!Key] # Z!Unknown
    BY KeyIsAKey DEF GrpcInv, KeyIsAsked
  <2>2. Expected(Z!Key) = Z!ServicesOf(grpcRequest)
    BY KeysAre DEF Expected, Z!ServicesOf, Z!Key, GrpcInv, GrpcTyped
  <2> QED
    BY <2>1, <2>2 DEF GrpcInv, KnownIsExpected
<1> QED
  BY <1>1, GrpcSafe, PTL

\* When no write is on its way, the method that a call goes to, and the editor checks the
\* message for, is one of the services that are shown (GrpcConnectionLayout.tsx).
THEOREM ChosenMethodExists == ASSUME ServicesAreNamed PROVE Z!Spec => []Z!MethodExists
<1>1. GrpcInv => Z!MethodExists
  <2> SUFFICES ASSUME GrpcInv, patches = <<>>, Z!Known(services[Z!Key]),
                      NEW row, row = grpcRows[grpcRequest], row.method # Z!None
               PROVE  /\ Z!HasMethod(services[Z!Key], row)
                      /\ checked = <<row.service, row.method>>
    BY DEF Z!MethodExists
  <2>1. row \in RowOf /\ services[Z!Key] \in Services
    BY KeyIsAKey, KnownAre DEF GrpcInv, GrpcTyped
  <2>2. ~PatchIsComing
    <3>1. Len(patches) = 0
      OBVIOUS
    <3> QED
      BY <3>1 DEF PatchIsComing
  <2>3. RowIsSeen(services[Z!Key])
    BY <2>2 DEF GrpcInv, MethodIsSeen
  <2>4. Z!Chosen(row, services[Z!Key]) = row
    BY <2>3 DEF RowIsSeen
  <2>5. Z!HasMethod(services[Z!Key], row) /\ row.service # Z!None
    BY <2>1, <2>4, ChosenExists
  <2> QED
    BY <2>3, <2>5 DEF RowIsSeen
<1> QED
  BY <1>1, GrpcSafe, PTL

-----------------------------------------------------------------------------
(* The responses of a request, and the pane that shows one. *)

CONSTANTS Sent, Cancelled, MaxResponses, MaxChunks
VARIABLES httpRequest, responses, phase, taken, cancels, copies, file, pins, bodies,
          bodyReads, text, hurried

Y == INSTANCE ResponsePane WITH
    counts <- taken,
    request <- httpRequest, cache <- bodies, reading <- bodyReads, Requests <- PaneRequests

\* A request is active, and the bounds are numbers.
SomeIsActive == PaneRequests # {} /\ MaxResponses \in Nat /\ MaxChunks \in Nat

ResponseOf == [request : PaneRequests, state : Y!States, size : 0..MaxChunks]
TextOf == [of : Y!Ids \cup {0}, chunks : 0..MaxChunks]

ResponsesTyped ==
    /\ httpRequest \in PaneRequests
    /\ responses \in Seq(ResponseOf) /\ Len(responses) <= MaxResponses
    /\ phase \in Seq(Y!Phases) /\ Len(phase) = Len(responses)
    /\ file \in [Y!Ids -> -1..MaxChunks] /\ pins \in [Y!Ids -> Y!Ids \cup {0}]
    /\ bodies \in [Y!Ids -> -1..MaxChunks] /\ bodyReads \subseteq Y!Ids
    /\ text \in TextOf /\ hurried \subseteq Y!Ids
    /\ taken \in [Y!Ids -> 0..MaxChunks] /\ cancels \in [Y!Ids -> Y!Cancels]
    /\ copies \in [Y!Ids -> -1..MaxChunks]

\* The task counts the chunks of its file, but for one that is being written, and a row,
\* or what a cancel has read of it, has no more.  Only a cancel closes a row under its
\* task, and one that comes before a write of it is remembered.
Coming(i) == IF phase[i] = "chunk" THEN 1 ELSE 0
RowIs(i) ==
    /\ responses[i].size <= taken[i] /\ taken[i] + Coming(i) <= MaxChunks
    /\ file[i] # -1 => file[i] = taken[i] + Coming(i)
    /\ phase[i] \in {"sending", "head"} => taken[i] = 0
    /\ phase[i] = "sending" => cancels[i] \in {"no", "asked"}
    /\ cancels[i] = "read" => copies[i] <= taken[i]
    /\ responses[i].state = "closed" /\ phase[i] # "over" => cancels[i] = "done"
    /\ cancels[i] = "done" /\ phase[i] \in {"head", "chunk"} => i \in hurried
    /\ cancels[i] = "done" /\ phase[i] = "body" /\ i \notin hurried =>
          responses[i].state \in {"closed", "deleted"}
    /\ phase[i] = "over" /\ i \notin hurried =>
          \/ cancels[i] \in {"asked", "read"}
          \/ responses[i].state \in {"closed", "deleted"}

\* What the query knows of a row is what its file has, or had before this chunk.
BodyIs(i) ==
    bodies[i] # -1 /\ file[i] # -1 =>
        responses[i].size <= bodies[i] /\ (phase[i] # "chunk" => bodies[i] = file[i])

\* Nothing is there of responses to come, nor a pin.
NoneOfLater ==
    \A i \in Y!Ids : i > Len(responses) =>
        /\ file[i] = 0 /\ bodies[i] = -1 /\ i \notin bodyReads /\ pins[i] = 0
        /\ taken[i] = 0 /\ cancels[i] = "no"

\* The text is the one that is known of the response that is shown.
TextIsOf(s) ==
    s # 0 /\ s \notin bodyReads /\ file[s] # -1 =>
        bodies[s] # -1 /\ text = [of |-> s, chunks |-> bodies[s]]

RowsAreIt == \A i \in 1..Len(responses) : RowIs(i) /\ BodyIs(i)
ResponsesInv == ResponsesTyped /\ RowsAreIt /\ NoneOfLater /\ TextIsOf(Y!Shown)

LEMMA Highest ==
    ASSUME NEW n \in Nat, NEW S, S \subseteq 0..n, S # {}
    PROVE  Y!Max(S) \in S /\ \A y \in S : y <= Y!Max(S)
<1> DEFINE T == {n - y : y \in S}
<1>1. T \subseteq Nat /\ T # {}
  <2>1. \A y \in S : n - y \in Nat
    OBVIOUS
  <2>2. PICK y \in S : TRUE
    OBVIOUS
  <2>3. n - y \in T
    OBVIOUS
  <2> QED
    BY <2>1, <2>3
<1>2. Min(T) \in T /\ \A z \in T : Min(T) <= z
  BY <1>1, Least
<1>3. PICK x \in S : Min(T) = n - x
  BY <1>2
<1>4. \A y \in S : y <= x
  <2>1. SUFFICES ASSUME NEW y \in S PROVE y <= x
    OBVIOUS
  <2>2. n - y \in T
    OBVIOUS
  <2>3. n - x <= n - y
    BY <1>2, <1>3, <2>2
  <2> QED
    BY <2>3
<1>5. \A y \in S : x >= y
  BY <1>4
<1> HIDE DEF T
<1>6. Y!Max(S) \in S /\ \A y \in S : Y!Max(S) >= y
  BY <1>5 DEF Y!Max
<1> QED
  BY <1>6

\* The response that a pane shows is one of its request, or none; the latest is the last.
LEMMA LatestIs ==
    ASSUME NEW r, NEW rs \in Seq(ResponseOf)
    PROVE  /\ Y!Of(r, rs) \subseteq 1..Len(rs)
           /\ Y!LatestOf(r, rs) \in Y!Of(r, rs) \cup {0}
           /\ \A i \in Y!Of(r, rs) : i <= Y!LatestOf(r, rs)
<1> DEFINE S == Y!Of(r, rs) \cup {Y!None}
<1>1. Y!Of(r, rs) \subseteq 1..Len(rs)
  BY DEF Y!Of
<1>2. S \subseteq 0..Len(rs) /\ S # {} /\ Len(rs) \in Nat
  BY <1>1 DEF Y!None
<1>3. Y!Max(S) \in S /\ \A y \in S : y <= Y!Max(S)
  BY <1>2, Highest
<1> QED
  BY <1>1, <1>3 DEF Y!LatestOf, Y!None

LEMMA ShownIsOne ==
    ASSUME NEW r, NEW rs \in Seq(ResponseOf), NEW pinned
    PROVE  /\ Y!ShownOf(r, rs, pinned) \in Y!Of(r, rs) \cup {0}
           /\ Y!ShownOf(r, rs, pinned) \in 0..Len(rs)
<1>1. /\ Y!Of(r, rs) \subseteq 1..Len(rs) /\ Y!LatestOf(r, rs) \in Y!Of(r, rs) \cup {0}
  BY LatestIs
<1>2. Y!ShownOf(r, rs, pinned) \in Y!Of(r, rs) \cup {0}
  BY <1>1 DEF Y!ShownOf
<1> QED
  BY <1>1, <1>2

LEMMA IdsAre ==
    ASSUME SomeIsActive, ResponsesTyped
    PROVE  /\ Y!Ids = 1..MaxResponses /\ 1..Len(responses) \subseteq Y!Ids
           /\ DOMAIN responses = 1..Len(responses) /\ Len(responses) \in Nat
           /\ Y!Shown \in 0..Len(responses)
<1>1. Y!Shown \in 0..Len(responses)
  BY ShownIsOne DEF Y!Shown, ResponsesTyped
<1> QED
  BY <1>1 DEF SomeIsActive, ResponsesTyped, Y!Ids

\* The pane moves to another response, or stays: what is known stays, and is shown.
LEMMA MovesText ==
    ASSUME SomeIsActive, ResponsesTyped, TextIsOf(Y!Shown), NEW to \in Y!Ids \cup {0}, Y!Moves(to),
           file' \in [Y!Ids -> -1..MaxChunks], \A i \in Y!Ids : file'[i] # -1 => file[i] # -1
    PROVE  /\ bodies' = bodies /\ bodyReads' \subseteq bodyReads \cup ({to} \ {0})
           /\ text' \in TextOf /\ TextIsOf(to)'
<1> USE DEF ResponsesTyped, Y!None, Y!Unread
<1>1. CASE to = Y!Shown
  <2>1. UNCHANGED <<text, bodyReads, bodies>>
    BY <1>1 DEF Y!Moves
  <2> QED
    BY <1>1, <2>1 DEF TextIsOf
<1>2. CASE to # Y!Shown
  <2>1. Y!Follow(to, bodies, bodyReads)
    BY <1>2 DEF Y!Moves
  <2>2. bodies' = bodies /\ bodyReads' \subseteq bodyReads \cup ({to} \ {0})
    BY <2>1 DEF Y!Follow
  <2>3. text' \in TextOf
    <3>1. Y!NoText \in TextOf
      BY DEF Y!NoText, TextOf, SomeIsActive
    <3>2. to # 0 /\ bodies[to] # -1 => [of |-> to, chunks |-> bodies[to]] \in TextOf
      BY DEF TextOf, SomeIsActive
    <3> QED
      BY <2>1, <3>1, <3>2 DEF Y!Follow
  <2>4. to = 0 \/ to \in bodyReads'
    BY <2>1 DEF Y!Follow
  <2> QED
    BY <2>2, <2>3, <2>4 DEF TextIsOf
<1> QED
  BY <1>1, <1>2

\* A row has changed: nothing is known of it, and if it is shown it is read again.
LEMMA RenewedText ==
    ASSUME SomeIsActive, ResponsesTyped, TextIsOf(Y!Shown), NEW to \in Y!Ids \cup {0},
           NEW i \in Y!Ids, Y!Renewed(i, to), file' = file
    PROVE  /\ bodies' = [bodies EXCEPT ![i] = -1]
           /\ bodyReads' \subseteq (bodyReads \ {i}) \cup ({to} \ {0})
           /\ text' \in TextOf /\ TextIsOf(to)'
<1> USE DEF ResponsesTyped, Y!None, Y!Unread
<1>1. PICK bodiesKnown \in [Y!Ids -> -1..MaxChunks] : bodiesKnown = [bodies EXCEPT ![i] = -1]
  <2>1. -1 \in -1..MaxChunks
    BY DEF SomeIsActive
  <2>2. [bodies EXCEPT ![i] = -1] \in [Y!Ids -> -1..MaxChunks]
    BY <2>1
  <2> QED
    BY <2>2
<1>2. CASE i = to \/ to # Y!Shown
  <2>1. Y!Follow(to, bodiesKnown, bodyReads \ {i})
    BY <1>1, <1>2 DEF Y!Renewed
  <2>2. bodies' = bodiesKnown /\ bodyReads' \subseteq (bodyReads \ {i}) \cup ({to} \ {0})
    BY <2>1 DEF Y!Follow
  <2>3. text' \in TextOf
    <3>1. Y!NoText \in TextOf
      BY DEF Y!NoText, TextOf, SomeIsActive
    <3>2. to # 0 /\ bodiesKnown[to] # -1 => [of |-> to, chunks |-> bodiesKnown[to]] \in TextOf
      BY DEF TextOf, SomeIsActive
    <3> QED
      BY <2>1, <3>1, <3>2 DEF Y!Follow
  <2>4. to = 0 \/ to \in bodyReads'
    BY <2>1 DEF Y!Follow
  <2> QED
    BY <1>1, <2>2, <2>3, <2>4 DEF TextIsOf
<1>3. CASE i # to /\ to = Y!Shown
  <2>1. bodies' = bodiesKnown /\ bodyReads' = bodyReads \ {i} /\ text' = text
    BY <1>1, <1>3 DEF Y!Renewed
  <2>2. bodies'[to] = bodies[to] \/ to = 0
    BY <1>1, <1>3, <2>1
  <2> QED
    BY <1>1, <1>3, <2>1, <2>2 DEF TextIsOf
<1> QED
  BY <1>2, <1>3

\* What is done with response i leaves what is done with the others.
OthersGoOn(i) ==
    /\ taken' \in [Y!Ids -> 0..MaxChunks] /\ cancels' \in [Y!Ids -> Y!Cancels]
    /\ copies' \in [Y!Ids -> -1..MaxChunks]
    /\ \A j \in Y!Ids \ {i} :
          taken'[j] = taken[j] /\ cancels'[j] = cancels[j] /\ copies'[j] = copies[j]

\* A row is written.
LEMMA RowIsWritten ==
    ASSUME SomeIsActive, ResponsesTyped, RowsAreIt, NoneOfLater, TextIsOf(Y!Shown),
           NEW i \in 1..Len(responses), NEW state \in Y!States, NEW count \in 0..MaxChunks,
           Y!Writes(i, state, count), phase' \in Seq(Y!Phases), Len(phase') = Len(phase),
           \A j \in 1..Len(phase) : j # i => phase'[j] = phase[j],
           hurried' \subseteq Y!Ids, hurried \subseteq hurried', OthersGoOn(i),
           UNCHANGED <<httpRequest, file, pins>>
    PROVE  /\ ResponsesTyped' /\ NoneOfLater' /\ TextIsOf(Y!Shown)'
           /\ responses'[i].state = state /\ responses'[i].size = count
           /\ RowIs(i)' => RowsAreIt'
<1>0. /\ Y!Ids = 1..MaxResponses /\ 1..Len(responses) \subseteq Y!Ids
      /\ Len(responses) \in Nat /\ i \in Y!Ids
  BY IdsAre
<1>1. PICK row \in ResponseOf : row = [responses[i] EXCEPT !.state = state, !.size = count]
  <2>1. responses[i] \in ResponseOf
    BY DEF ResponsesTyped
  <2> QED
    BY <2>1 DEF ResponseOf
<1>2. row.state = state /\ row.size = count
  BY <1>1 DEF ResponsesTyped, ResponseOf
<1>3. responses' = [responses EXCEPT ![i] = row]
  BY <1>1 DEF Y!Writes, ResponsesTyped
<1>4. /\ responses' \in Seq(ResponseOf) /\ Len(responses') = Len(responses) /\ responses'[i] = row
      /\ \A j \in 1..Len(responses) : j # i => responses'[j] = responses[j]
  BY <1>3 DEF ResponsesTyped
<1>5. PICK to : to = Y!ShownOf(httpRequest, responses', pins)
  OBVIOUS
<1>6. Y!Shown' = to /\ to \in 0..Len(responses) /\ to \in Y!Ids \cup {0}
  <2>1. Y!Shown' = to
    BY <1>5 DEF Y!Shown
  <2>2. PICK rs \in Seq(ResponseOf) : rs = responses'
    BY <1>4
  <2>3. to \in 0..Len(rs)
    BY <1>5, <2>2, ShownIsOne
  <2> QED
    BY <1>0, <1>4, <2>1, <2>2, <2>3
<1>7. Y!Renewed(i, to)
  BY <1>5 DEF Y!Writes
<1>8. /\ bodies' = [bodies EXCEPT ![i] = -1]
      /\ bodyReads' \subseteq (bodyReads \ {i}) \cup ({to} \ {0})
      /\ text' \in TextOf /\ TextIsOf(to)'
  BY <1>0, <1>6, <1>7, RenewedText
<1>9. ResponsesTyped'
  <2>1. -1 \in -1..MaxChunks
    BY DEF SomeIsActive
  <2>2. bodies' \in [Y!Ids -> -1..MaxChunks]
    BY <1>8, <2>1 DEF ResponsesTyped
  <2>3. bodyReads' \subseteq Y!Ids
    BY <1>6, <1>8 DEF ResponsesTyped
  <2> QED
    BY <1>4, <1>8, <2>2, <2>3 DEF ResponsesTyped, OthersGoOn
<1>10. NoneOfLater'
  <2>1. SUFFICES ASSUME NEW j \in Y!Ids, j > Len(responses)
                 PROVE  /\ file[j] = 0 /\ bodies'[j] = -1 /\ j \notin bodyReads' /\ pins[j] = 0
                        /\ taken'[j] = 0 /\ cancels'[j] = "no"
    BY <1>4 DEF NoneOfLater
  <2>2. j # i /\ j # to
    BY <1>0, <1>6, <2>1
  <2>3. /\ file[j] = 0 /\ bodies[j] = -1 /\ j \notin bodyReads /\ pins[j] = 0
        /\ taken[j] = 0 /\ cancels[j] = "no"
    BY <2>1 DEF NoneOfLater
  <2> QED
    BY <1>8, <2>2, <2>3 DEF OthersGoOn, ResponsesTyped
<1>11. TextIsOf(Y!Shown)'
  BY <1>6, <1>8 DEF TextIsOf
<1>12. ASSUME RowIs(i)', NEW j \in 1..Len(responses) PROVE RowIs(j)' /\ BodyIs(j)'
  <2>1. CASE j = i
    BY <1>0, <1>8, <1>12, <2>1 DEF BodyIs, ResponsesTyped
  <2>2. CASE j # i
    <3>1. RowIs(j) /\ BodyIs(j) /\ responses'[j] = responses[j] /\ phase'[j] = phase[j]
      BY <1>4, <2>2 DEF RowsAreIt, ResponsesTyped
    <3>2. bodies'[j] = bodies[j]
      BY <1>0, <1>8, <2>2 DEF ResponsesTyped
    <3>3. taken'[j] = taken[j] /\ cancels'[j] = cancels[j] /\ copies'[j] = copies[j]
      BY <1>0, <2>2 DEF OthersGoOn
    <3> QED
      BY <3>1, <3>2, <3>3 DEF RowIs, BodyIs, Coming
  <2> QED
    BY <2>1, <2>2
<1>13. RowIs(i)' => RowsAreIt'
  BY <1>4, <1>12 DEF RowsAreIt
<1> QED
  BY <1>2, <1>4, <1>9, <1>10, <1>11, <1>13

\* The task or the command goes on, and leaves the row as it is.
LEMMA RowIsLeft ==
    ASSUME SomeIsActive, ResponsesInv, NEW i \in 1..Len(responses),
           phase' \in Seq(Y!Phases), Len(phase') = Len(phase),
           \A j \in 1..Len(phase) : j # i => phase'[j] = phase[j],
           phase[i] = "chunk" => phase'[i] = "chunk", OthersGoOn(i), RowIs(i)',
           UNCHANGED <<httpRequest, responses, file, pins, bodies, bodyReads, text, hurried>>
    PROVE  ResponsesInv'
<1>0. 1..Len(responses) \subseteq Y!Ids /\ Len(responses) \in Nat
  BY IdsAre DEF ResponsesInv
<1>1. ResponsesTyped'
  BY DEF ResponsesInv, ResponsesTyped, OthersGoOn
<1>2. NoneOfLater'
  <2>1. SUFFICES ASSUME NEW j \in Y!Ids, j > Len(responses)
                 PROVE  /\ file[j] = 0 /\ bodies[j] = -1 /\ j \notin bodyReads /\ pins[j] = 0
                        /\ taken'[j] = 0 /\ cancels'[j] = "no"
    BY DEF NoneOfLater
  <2>2. /\ file[j] = 0 /\ bodies[j] = -1 /\ j \notin bodyReads /\ pins[j] = 0
        /\ taken[j] = 0 /\ cancels[j] = "no" /\ j # i
    BY <1>0, <2>1 DEF ResponsesInv, NoneOfLater
  <2> QED
    BY <2>2 DEF OthersGoOn
<1>3. TextIsOf(Y!Shown)'
  <2>1. Y!Shown' = Y!Shown
    BY DEF Y!Shown
  <2> QED
    BY <2>1 DEF ResponsesInv, TextIsOf
<1>4. ASSUME NEW j \in 1..Len(responses) PROVE RowIs(j)' /\ BodyIs(j)'
  <2>1. RowIs(j) /\ BodyIs(j)
    BY DEF ResponsesInv, RowsAreIt
  <2>2. CASE j = i
    BY <2>1, <2>2 DEF BodyIs
  <2>3. CASE j # i
    <3>1. /\ phase'[j] = phase[j] /\ taken'[j] = taken[j]
          /\ cancels'[j] = cancels[j] /\ copies'[j] = copies[j]
      BY <1>0, <2>3 DEF OthersGoOn, ResponsesInv, ResponsesTyped
    <3> QED
      BY <2>1, <3>1 DEF RowIs, BodyIs, Coming
  <2> QED
    BY <2>2, <2>3
<1>5. RowsAreIt'
  BY <1>4 DEF RowsAreIt
<1> QED
  BY <1>1, <1>2, <1>3, <1>5 DEF ResponsesInv

LEMMA ItsRow ==
    ASSUME SomeIsActive, ResponsesInv, NEW i \in 1..Len(responses)
    PROVE  /\ i \in Y!Ids /\ RowIs(i) /\ BodyIs(i)
           /\ responses[i].size \in 0..MaxChunks /\ responses[i].state \in Y!States
           /\ phase[i] \in Y!Phases /\ bodies[i] \in -1..MaxChunks /\ file[i] \in -1..MaxChunks
<1>1. i \in Y!Ids /\ RowIs(i) /\ BodyIs(i)
  BY IdsAre DEF ResponsesInv, RowsAreIt
<1>2. responses[i] \in ResponseOf
  BY DEF ResponsesInv, ResponsesTyped
<1> QED
  BY <1>1, <1>2 DEF ResponsesInv, ResponsesTyped, ResponseOf

\* The task starts, or stops at a cancel; the command reads the row; the button is pressed.
LEMMA HeadArrivesInv ==
    ASSUME SomeIsActive, ResponsesInv, NEW i \in 1..Len(responses), Y!Arrives(i)
    PROVE  ResponsesInv'
<1> USE DEF ResponsesInv
<1>1. /\ phase[i] = "sending" /\ phase' = [phase EXCEPT ![i] = "head"]
      /\ UNCHANGED <<httpRequest, responses, file, pins, bodies, bodyReads, text>>
      /\ UNCHANGED <<taken, cancels, copies, hurried>>
  BY DEF Y!Arrives
<1>2. /\ phase' \in Seq(Y!Phases) /\ Len(phase') = Len(phase) /\ phase'[i] = "head"
      /\ \A j \in 1..Len(phase) : j # i => phase'[j] = phase[j]
  BY <1>1 DEF ResponsesTyped, Y!Phases
<1>3. OthersGoOn(i)
  BY <1>1 DEF OthersGoOn, ResponsesTyped
<1>4. RowIs(i)'
  BY <1>1, <1>2, ItsRow DEF RowIs, Coming
<1> QED
  BY <1>1, <1>2, <1>3, <1>4, RowIsLeft

LEMMA StopsInv ==
    ASSUME SomeIsActive, ResponsesInv, NEW i \in 1..Len(responses), Y!Stops(i)
    PROVE  ResponsesInv'
<1> USE DEF ResponsesInv
<1>1. /\ phase[i] = "body" /\ cancels[i] # "no" /\ phase' = [phase EXCEPT ![i] = "over"]
      /\ UNCHANGED <<httpRequest, responses, file, pins, bodies, bodyReads, text>>
      /\ UNCHANGED <<taken, cancels, copies, hurried>>
  BY DEF Y!Stops
<1>2. /\ phase' \in Seq(Y!Phases) /\ Len(phase') = Len(phase) /\ phase'[i] = "over"
      /\ \A j \in 1..Len(phase) : j # i => phase'[j] = phase[j]
  BY <1>1 DEF ResponsesTyped, Y!Phases
<1>3. OthersGoOn(i)
  BY <1>1 DEF OthersGoOn, ResponsesTyped
<1>4. RowIs(i) /\ cancels[i] \in {"asked", "read", "done"}
  BY <1>1, ItsRow DEF ResponsesTyped, Y!Cancels
<1>5. RowIs(i)'
  BY <1>1, <1>2, <1>4 DEF RowIs, Coming
<1> QED
  BY <1>1, <1>2, <1>3, <1>5, RowIsLeft

LEMMA CancelInv == ASSUME SomeIsActive, ResponsesInv, Y!Cancel PROVE ResponsesInv'
<1> USE DEF ResponsesInv
<1>1. PICK i \in 1..Len(responses) : i = Y!Shown
  BY IdsAre DEF Y!Cancel, Y!None
<1>2. /\ cancels[i] = "no" /\ phase[i] # "over" /\ cancels' = [cancels EXCEPT ![i] = "asked"]
      /\ UNCHANGED <<httpRequest, responses, file, pins, bodies, bodyReads, text>>
      /\ UNCHANGED <<phase, taken, copies, hurried>>
  BY <1>1 DEF Y!Cancel
<1>3. RowIs(i) /\ i \in Y!Ids
  BY ItsRow
<1>4. OthersGoOn(i) /\ cancels'[i] = "asked"
  BY <1>2, <1>3 DEF OthersGoOn, ResponsesTyped, Y!Cancels
<1>5. RowIs(i)'
  BY <1>2, <1>3, <1>4 DEF RowIs, Coming
<1>6. phase' \in Seq(Y!Phases)
  BY <1>2 DEF ResponsesTyped
<1> QED
  BY <1>2, <1>4, <1>5, <1>6, RowIsLeft

LEMMA CancelReadsInv ==
    ASSUME SomeIsActive, ResponsesInv, NEW i \in 1..Len(responses), Y!CancelReads(i)
    PROVE  ResponsesInv'
<1> USE DEF ResponsesInv
<1>1. PICK n : n = IF responses[i].state = "deleted" THEN -1 ELSE responses[i].size
  OBVIOUS
<1>2. /\ phase[i] # "sending" /\ cancels[i] = "asked" /\ cancels' = [cancels EXCEPT ![i] = "read"]
      /\ copies' = [copies EXCEPT ![i] = n]
      /\ UNCHANGED <<httpRequest, responses, file, pins, bodies, bodyReads, text>>
      /\ UNCHANGED <<phase, taken, hurried>>
  BY <1>1 DEF Y!CancelReads, Y!Gone
<1>3. RowIs(i) /\ i \in Y!Ids /\ responses[i].size \in 0..MaxChunks
  BY ItsRow
<1>4. taken[i] \in 0..MaxChunks
  BY <1>3 DEF ResponsesTyped
<1>5. n \in -1..MaxChunks /\ n <= taken[i]
  BY <1>1, <1>3, <1>4 DEF RowIs, SomeIsActive
<1>6. /\ cancels' \in [Y!Ids -> Y!Cancels] /\ copies' \in [Y!Ids -> -1..MaxChunks]
      /\ cancels'[i] = "read" /\ copies'[i] = n
      /\ \A j \in Y!Ids \ {i} : cancels'[j] = cancels[j] /\ copies'[j] = copies[j]
  BY <1>2, <1>3, <1>5 DEF ResponsesTyped, Y!Cancels
<1>7. OthersGoOn(i)
  BY <1>2, <1>6 DEF OthersGoOn, ResponsesTyped
<1>8. RowIs(i)'
  BY <1>2, <1>3, <1>5, <1>6 DEF RowIs, Coming
<1>9. phase' \in Seq(Y!Phases)
  BY <1>2 DEF ResponsesTyped
<1> QED
  BY <1>2, <1>7, <1>8, <1>9, RowIsLeft

\* The task writes the row, or the command closes it.
LEMMA ConnectedInv ==
    ASSUME SomeIsActive, ResponsesInv, NEW i \in 1..Len(responses), Y!Connected(i)
    PROVE  ResponsesInv'
<1> USE DEF ResponsesInv
<1>1. /\ phase[i] = "head" /\ phase' = [phase EXCEPT ![i] = "body"]
      /\ Y!Writes(i, "connected", taken[i])
      /\ UNCHANGED <<httpRequest, file, pins, taken, cancels, copies, hurried>>
  BY DEF Y!Connected
<1>2. /\ phase' \in Seq(Y!Phases) /\ Len(phase') = Len(phase) /\ phase'[i] = "body"
      /\ \A j \in 1..Len(phase) : j # i => phase'[j] = phase[j]
  BY <1>1 DEF ResponsesTyped, Y!Phases
<1>3. RowIs(i) /\ i \in Y!Ids /\ taken[i] \in 0..MaxChunks
  BY ItsRow DEF ResponsesTyped
<1>4. "connected" \in Y!States /\ hurried' \subseteq Y!Ids /\ hurried \subseteq hurried'
  BY <1>1 DEF Y!States, ResponsesTyped
<1>5. OthersGoOn(i)
  BY <1>1 DEF OthersGoOn, ResponsesTyped
<1>6. /\ ResponsesTyped' /\ NoneOfLater' /\ TextIsOf(Y!Shown)' /\ (RowIs(i)' => RowsAreIt')
      /\ responses'[i].state = "connected" /\ responses'[i].size = taken[i]
  BY <1>1, <1>2, <1>3, <1>4, <1>5, RowIsWritten
<1>7. RowIs(i)'
  BY <1>1, <1>2, <1>3, <1>6 DEF RowIs, Coming, SomeIsActive
<1> QED
  BY <1>6, <1>7

LEMMA ToldInv ==
    ASSUME SomeIsActive, ResponsesInv, NEW i \in 1..Len(responses), Y!Told(i)
    PROVE  ResponsesInv'
<1> USE DEF ResponsesInv
<1>1. PICK n : n = taken[i] + 1
  OBVIOUS
<1>2. /\ phase[i] = "chunk" /\ phase' = [phase EXCEPT ![i] = "body"]
      /\ taken' = [taken EXCEPT ![i] = n] /\ Y!Writes(i, "connected", n)
      /\ UNCHANGED <<httpRequest, file, pins, cancels, copies, hurried>>
  BY <1>1, ItsRow DEF Y!Told, ResponsesTyped
<1>3. /\ phase' \in Seq(Y!Phases) /\ Len(phase') = Len(phase) /\ phase'[i] = "body"
      /\ \A j \in 1..Len(phase) : j # i => phase'[j] = phase[j]
  BY <1>2 DEF ResponsesTyped, Y!Phases
<1>4. /\ RowIs(i) /\ i \in Y!Ids /\ taken[i] \in 0..MaxChunks
      /\ copies[i] \in -1..MaxChunks
  BY ItsRow DEF ResponsesTyped
<1>5. n \in 0..MaxChunks
  BY <1>1, <1>2, <1>4 DEF RowIs, Coming, SomeIsActive
<1>6. "connected" \in Y!States /\ hurried' \subseteq Y!Ids /\ hurried \subseteq hurried'
  BY <1>2 DEF Y!States, ResponsesTyped
<1>7. /\ taken' \in [Y!Ids -> 0..MaxChunks] /\ taken'[i] = n
      /\ \A j \in Y!Ids \ {i} : taken'[j] = taken[j]
  BY <1>2, <1>4, <1>5 DEF ResponsesTyped
<1>8. OthersGoOn(i)
  BY <1>2, <1>7 DEF OthersGoOn, ResponsesTyped
<1>9. /\ ResponsesTyped' /\ NoneOfLater' /\ TextIsOf(Y!Shown)' /\ (RowIs(i)' => RowsAreIt')
      /\ responses'[i].state = "connected" /\ responses'[i].size = n
  BY <1>2, <1>3, <1>5, <1>6, <1>8, RowIsWritten
<1>10. RowIs(i)'
  <2>1. Coming(i) = 1 /\ Coming(i)' = 0 /\ file' = file /\ cancels' = cancels /\ copies' = copies
    BY <1>2, <1>3 DEF Coming
  <2> QED
    BY <1>1, <1>2, <1>3, <1>4, <1>5, <1>7, <1>9, <2>1 DEF RowIs
<1> QED
  BY <1>9, <1>10

LEMMA ArrivedInv ==
    ASSUME SomeIsActive, ResponsesInv, NEW i \in 1..Len(responses), Y!Ends(i)
    PROVE  ResponsesInv'
<1> USE DEF ResponsesInv
<1>1. PICK left : /\ left \in {cancels[i]} \cup IF cancels[i] = "asked" THEN {"done"} ELSE {}
                  /\ cancels' = [cancels EXCEPT ![i] = left]
  BY DEF Y!Ends
<1>2. /\ phase[i] \in {"head", "body"} /\ phase' = [phase EXCEPT ![i] = "over"]
      /\ Y!Writes(i, "closed", taken[i])
      /\ UNCHANGED <<httpRequest, file, pins, taken, copies, hurried>>
  BY DEF Y!Ends
<1>3. /\ phase' \in Seq(Y!Phases) /\ Len(phase') = Len(phase) /\ phase'[i] = "over"
      /\ \A j \in 1..Len(phase) : j # i => phase'[j] = phase[j]
  BY <1>2 DEF ResponsesTyped, Y!Phases
<1>4. RowIs(i) /\ i \in Y!Ids /\ taken[i] \in 0..MaxChunks
  BY ItsRow DEF ResponsesTyped
<1>5. "closed" \in Y!States /\ hurried' \subseteq Y!Ids /\ hurried \subseteq hurried'
  BY <1>2 DEF Y!States, ResponsesTyped
<1>6. left \in Y!Cancels
  BY <1>1, <1>4 DEF ResponsesTyped, Y!Cancels
<1>7. OthersGoOn(i) /\ cancels'[i] = left
  BY <1>1, <1>2, <1>4, <1>6 DEF OthersGoOn, ResponsesTyped
<1>8. /\ ResponsesTyped' /\ NoneOfLater' /\ TextIsOf(Y!Shown)' /\ (RowIs(i)' => RowsAreIt')
      /\ responses'[i].state = "closed" /\ responses'[i].size = taken[i]
  BY <1>2, <1>3, <1>4, <1>5, <1>7, RowIsWritten
<1>9. cancels'[i] = "read" => cancels[i] = "read"
  BY <1>1, <1>7
<1>10. RowIs(i)'
  BY <1>2, <1>3, <1>4, <1>8, <1>9 DEF RowIs, Coming
<1> QED
  BY <1>8, <1>10

LEMMA CancelSendingInv ==
    ASSUME SomeIsActive, ResponsesInv, NEW i \in 1..Len(responses), Y!CancelSending(i)
    PROVE  ResponsesInv'
<1> USE DEF ResponsesInv
<1>1. /\ phase[i] = "sending" /\ phase' = [phase EXCEPT ![i] = "over"]
      /\ cancels' = [cancels EXCEPT ![i] = "done"] /\ Y!Writes(i, "closed", taken[i])
      /\ UNCHANGED <<httpRequest, file, pins, taken, copies, hurried>>
  BY DEF Y!CancelSending, Y!CancelledState
<1>2. /\ phase' \in Seq(Y!Phases) /\ Len(phase') = Len(phase) /\ phase'[i] = "over"
      /\ \A j \in 1..Len(phase) : j # i => phase'[j] = phase[j]
  BY <1>1 DEF ResponsesTyped, Y!Phases
<1>3. RowIs(i) /\ i \in Y!Ids /\ taken[i] \in 0..MaxChunks
  BY ItsRow DEF ResponsesTyped
<1>4. "closed" \in Y!States /\ hurried' \subseteq Y!Ids /\ hurried \subseteq hurried'
  BY <1>1 DEF Y!States, ResponsesTyped
<1>5. OthersGoOn(i) /\ cancels'[i] = "done"
  BY <1>1, <1>3 DEF OthersGoOn, ResponsesTyped, Y!Cancels
<1>6. /\ ResponsesTyped' /\ NoneOfLater' /\ TextIsOf(Y!Shown)' /\ (RowIs(i)' => RowsAreIt')
      /\ responses'[i].state = "closed" /\ responses'[i].size = taken[i]
  BY <1>1, <1>2, <1>3, <1>4, <1>5, RowIsWritten
<1>7. RowIs(i)'
  BY <1>1, <1>2, <1>3, <1>5, <1>6 DEF RowIs, Coming
<1> QED
  BY <1>6, <1>7

LEMMA CancelWritesInv ==
    ASSUME SomeIsActive, ResponsesInv, NEW i \in 1..Len(responses), Y!CancelWrites(i)
    PROVE  ResponsesInv'
<1> USE DEF ResponsesInv
<1>1. PICK n : n = IF copies[i] = -1 THEN taken[i] ELSE copies[i]
  OBVIOUS
<1>2. /\ cancels[i] = "read" /\ cancels' = [cancels EXCEPT ![i] = "done"]
      /\ copies' = [copies EXCEPT ![i] = 0] /\ Y!Writes(i, "closed", n)
      /\ hurried' = IF phase[i] \in {"head", "chunk"} THEN hurried \cup {i} ELSE hurried
      /\ UNCHANGED <<httpRequest, file, pins, phase, taken>>
  BY <1>1 DEF Y!CancelWrites, Y!CancelledState, Y!Gone
<1>3. /\ RowIs(i) /\ i \in Y!Ids /\ taken[i] \in 0..MaxChunks
      /\ copies[i] \in -1..MaxChunks /\ phase \in Seq(Y!Phases)
  BY ItsRow DEF ResponsesTyped
<1>4. n \in 0..MaxChunks /\ n <= taken[i]
  BY <1>1, <1>2, <1>3 DEF RowIs, SomeIsActive
<1>5. "closed" \in Y!States /\ hurried' \subseteq Y!Ids /\ hurried \subseteq hurried'
  BY <1>2, <1>3 DEF Y!States, ResponsesTyped
<1>6. 0 \in -1..MaxChunks /\ "done" \in Y!Cancels
  BY DEF SomeIsActive, Y!Cancels
<1>7. OthersGoOn(i) /\ cancels'[i] = "done"
  BY <1>2, <1>3, <1>6 DEF OthersGoOn, ResponsesTyped
<1>8. /\ ResponsesTyped' /\ NoneOfLater' /\ TextIsOf(Y!Shown)' /\ (RowIs(i)' => RowsAreIt')
      /\ responses'[i].state = "closed" /\ responses'[i].size = n
  BY <1>2, <1>3, <1>4, <1>5, <1>7, RowIsWritten
<1>9. RowIs(i)'
  BY <1>2, <1>3, <1>4, <1>7, <1>8 DEF RowIs, Coming
<1> QED
  BY <1>8, <1>9

\* Its file has the chunk before its row counts it.
LEMMA ChunkInv ==
    ASSUME SomeIsActive, ResponsesInv, NEW i \in 1..Len(responses), Y!Chunk(i)
    PROVE  ResponsesInv'
<1> USE DEF ResponsesInv
<1>0. i \in Y!Ids /\ Y!Ids = 1..MaxResponses /\ Y!Shown \in 0..Len(responses)
      /\ 1..Len(responses) \subseteq Y!Ids
  BY IdsAre
<1>1. /\ phase[i] = "body" /\ cancels[i] = "no" /\ taken[i] < MaxChunks
      /\ phase' = [phase EXCEPT ![i] = "chunk"]
      /\ file' = [file EXCEPT ![i] = IF file[i] = -1 THEN -1 ELSE file[i] + 1]
      /\ UNCHANGED <<httpRequest, responses, pins, bodies, bodyReads, text>>
      /\ UNCHANGED <<taken, cancels, copies, hurried>>
  BY <1>0 DEF Y!Chunk, Y!Gone, ResponsesTyped
<1>2. phase' \in Seq(Y!Phases) /\ Len(phase') = Len(phase) /\ phase'[i] = "chunk"
  BY <1>1 DEF ResponsesTyped, Y!Phases
<1>3. \A j \in 1..Len(phase) : j # i => phase'[j] = phase[j]
  BY <1>1 DEF ResponsesTyped
<1>4. /\ RowIs(i) /\ BodyIs(i) /\ responses[i].size \in 0..MaxChunks /\ bodies[i] \in -1..MaxChunks
      /\ taken[i] \in 0..MaxChunks
  BY <1>0, ItsRow DEF ResponsesTyped
<1>5. PICK n \in -1..MaxChunks : n = IF file[i] = -1 THEN -1 ELSE file[i] + 1
  BY <1>1, <1>4 DEF RowIs, Coming, SomeIsActive
<1>6. /\ file' \in [Y!Ids -> -1..MaxChunks] /\ file'[i] = n
      /\ \A j \in Y!Ids : j # i => file'[j] = file[j]
  <2>1. file' = [file EXCEPT ![i] = n]
    BY <1>1, <1>5
  <2> QED
    BY <1>0, <2>1 DEF ResponsesTyped
<1>7. ResponsesTyped'
  BY <1>1, <1>2, <1>6 DEF ResponsesTyped
<1>8. RowIs(i)' /\ BodyIs(i)'
  <2>1. responses' = responses /\ bodies' = bodies /\ Coming(i) = 0 /\ Coming(i)' = 1
    BY <1>1, <1>2 DEF Coming
  <2>2. n # -1 => file[i] # -1 /\ n = file[i] + 1
    BY <1>5
  <2>3. RowIs(i)'
    BY <1>1, <1>2, <1>4, <1>6, <2>1, <2>2 DEF RowIs, SomeIsActive
  <2>4. BodyIs(i)'
    BY <1>2, <1>4, <1>6, <2>1, <2>2 DEF BodyIs
  <2> QED
    BY <2>3, <2>4
<1>9. ASSUME NEW j \in 1..Len(responses), j # i PROVE RowIs(j)' /\ BodyIs(j)'
  <2>1. RowIs(j) /\ BodyIs(j) /\ phase'[j] = phase[j] /\ file'[j] = file[j]
    BY <1>0, <1>3, <1>6, <1>9 DEF RowsAreIt, ResponsesTyped
  <2> QED
    BY <1>1, <2>1 DEF RowIs, BodyIs, Coming
<1>10. NoneOfLater'
  BY <1>0, <1>1, <1>6 DEF NoneOfLater
<1>11. TextIsOf(Y!Shown)'
  <2>1. Y!Shown' = Y!Shown
    BY <1>1 DEF Y!Shown
  <2>2. \A j \in Y!Ids : file'[j] # -1 => file[j] # -1
    BY <1>5, <1>6
  <2>3. PICK s : s = Y!Shown
    OBVIOUS
  <2>4. TextIsOf(s)'
    BY <1>0, <1>1, <2>2, <2>3 DEF TextIsOf
  <2> QED
    BY <2>1, <2>3, <2>4 DEF TextIsOf
<1>12. RowsAreIt'
  <2>1. responses' = responses
    BY <1>1
  <2> QED
    BY <1>8, <1>9, <2>1 DEF RowsAreIt
<1> QED
  BY <1>7, <1>10, <1>11, <1>12

\* The file is read, or is not there.
LEMMA AnswerInv ==
    ASSUME SomeIsActive, ResponsesInv, NEW i \in bodyReads, Y!Answer(i) \/ Y!NoAnswer(i)
    PROVE  ResponsesInv'
<1> USE DEF ResponsesInv
<1>0. i \in Y!Ids /\ Y!Ids = 1..MaxResponses /\ 1..Len(responses) \subseteq Y!Ids
  BY IdsAre DEF ResponsesTyped
<1>1. /\ bodyReads' = bodyReads \ {i} /\ UNCHANGED <<httpRequest, responses, file, pins>>
      /\ UNCHANGED <<phase, taken, cancels, copies, hurried>> /\ Y!Shown' = Y!Shown
  BY DEF Y!Answer, Y!NoAnswer, Y!Shown, Y!sending
<1>2. PICK s : s = Y!Shown
  OBVIOUS
<1>3. CASE Y!Answer(i)
  <2>1. /\ file[i] # -1 /\ bodies' = [bodies EXCEPT ![i] = file[i]]
        /\ text' = IF i = s THEN [of |-> i, chunks |-> file[i]] ELSE text
    BY <1>2, <1>3 DEF Y!Answer, Y!Gone
  <2>2. file[i] \in 0..MaxChunks
    BY <1>0, <2>1 DEF ResponsesTyped
  <2>3. /\ bodies' \in [Y!Ids -> -1..MaxChunks] /\ bodies'[i] = file[i]
        /\ \A j \in Y!Ids : j # i => bodies'[j] = bodies[j]
    BY <1>0, <2>1, <2>2 DEF ResponsesTyped
  <2>4. text' \in TextOf
    BY <1>0, <2>1, <2>2 DEF ResponsesTyped, TextOf
  <2>5. ResponsesTyped'
    BY <1>1, <2>3, <2>4 DEF ResponsesTyped
  <2>6. i \in 1..Len(responses)
    BY <1>0 DEF NoneOfLater, ResponsesTyped
  <2>7. ASSUME NEW j \in 1..Len(responses) PROVE RowIs(j)' /\ BodyIs(j)'
    <3>1. /\ RowIs(j) /\ BodyIs(j) /\ responses[j].size \in 0..MaxChunks /\ j \in Y!Ids
          /\ taken[j] \in 0..MaxChunks
      BY ItsRow DEF ResponsesTyped
    <3>2. RowIs(j)'
      BY <1>1, <3>1 DEF RowIs, Coming
    <3>3. BodyIs(j)'
      BY <1>1, <2>2, <2>3, <3>1 DEF RowIs, BodyIs, Coming
    <3> QED
      BY <3>2, <3>3
  <2>8. NoneOfLater'
    BY <1>0, <1>1, <2>3, <2>6 DEF NoneOfLater
  <2>9. TextIsOf(s)'
    <3>1. TextIsOf(s) /\ s \in Y!Ids \cup {0}
      BY <1>0, <1>2, IdsAre
    <3> QED
      BY <1>1, <2>1, <2>3, <3>1 DEF TextIsOf
  <2>10. TextIsOf(Y!Shown)'
    BY <1>1, <1>2, <2>9 DEF TextIsOf
  <2> QED
    BY <1>1, <2>5, <2>7, <2>8, <2>10 DEF RowsAreIt
<1>4. CASE Y!NoAnswer(i)
  <2>1. /\ file[i] = -1 /\ bodies' = bodies
        /\ text' = IF i = s /\ bodies[i] = -1 THEN Y!NoText ELSE text
    BY <1>2, <1>4 DEF Y!NoAnswer, Y!Gone, Y!Unread
  <2>2. text' \in TextOf
    BY <2>1 DEF ResponsesTyped, TextOf, Y!NoText, Y!None, SomeIsActive
  <2>3. ResponsesTyped'
    BY <1>1, <2>1, <2>2 DEF ResponsesTyped
  <2>4. RowsAreIt' /\ NoneOfLater'
    <3>1. \A j : (RowIs(j) <=> RowIs(j)') /\ (BodyIs(j) <=> BodyIs(j)')
      BY <1>1, <2>1 DEF RowIs, BodyIs, Coming
    <3> QED
      BY <1>1, <2>1, <3>1 DEF RowsAreIt, NoneOfLater
  <2>5. TextIsOf(s)'
    BY <1>1, <1>2, <2>1 DEF TextIsOf
  <2>6. TextIsOf(Y!Shown)'
    BY <1>1, <1>2, <2>5 DEF TextIsOf
  <2> QED
    BY <2>3, <2>4, <2>6
<1> QED
  BY <1>3, <1>4

\* The news of the rows and the pins move the pane; no row that stays is changed.
LEMMA PaneMovesInv ==
    ASSUME SomeIsActive, ResponsesInv,
           NEW to, to = Y!Shown', Y!Moves(to), httpRequest' \in PaneRequests,
           responses' \in Seq(ResponseOf), Len(responses') = Len(responses),
           pins' \in [Y!Ids -> Y!Ids \cup {0}],
           \A i \in Y!Ids : i > Len(responses) => pins'[i] = 0,
           file' \in [Y!Ids -> -1..MaxChunks],
           \A i \in Y!Ids : file'[i] \in {file[i], -1},
           \A i \in Y!Ids : i > Len(responses) => file'[i] = file[i],
           \A i \in 1..Len(responses) :
              /\ responses'[i].size = responses[i].size
              /\ responses'[i].state \in {responses[i].state, "deleted"},
           UNCHANGED <<phase, taken, cancels, copies, hurried>>
    PROVE  ResponsesInv'
<1>1. PICK rs \in Seq(ResponseOf) : rs = responses'
  OBVIOUS
<1>2. /\ to \in 0..Len(rs) /\ Len(rs) = Len(responses)
      /\ Y!Ids = 1..MaxResponses /\ 1..Len(responses) \subseteq Y!Ids /\ Len(responses) \in Nat
  <2>1. to = Y!ShownOf(httpRequest', rs, pins')
    BY <1>1 DEF Y!Shown
  <2>2. to \in 0..Len(rs)
    BY <2>1, ShownIsOne
  <2> QED
    BY <1>1, <2>2, IdsAre DEF ResponsesInv
<1>3. /\ bodies' = bodies /\ bodyReads' \subseteq bodyReads \cup ({to} \ {0})
      /\ text' \in TextOf /\ TextIsOf(to)'
  <2>1. \A i \in Y!Ids : file'[i] # -1 => file[i] # -1
    OBVIOUS
  <2>2. to \in Y!Ids \cup {0}
    BY <1>2
  <2> QED
    BY <2>1, <2>2, MovesText DEF ResponsesInv
<1>4. ResponsesTyped'
  BY <1>2, <1>3 DEF ResponsesInv, ResponsesTyped
<1>5. NoneOfLater'
  BY <1>2, <1>3 DEF ResponsesInv, NoneOfLater
<1>6. TextIsOf(Y!Shown)'
  BY <1>3 DEF TextIsOf
<1>7. ASSUME NEW i \in 1..Len(responses) PROVE RowIs(i)' /\ BodyIs(i)'
  <2>1. /\ RowIs(i) /\ BodyIs(i) /\ responses'[i].size = responses[i].size
        /\ responses'[i].state \in {responses[i].state, "deleted"}
        /\ bodies' = bodies /\ file'[i] \in {file[i], -1}
    BY <1>2, <1>3 DEF ResponsesInv, RowsAreIt
  <2>2. Coming(i)' = Coming(i)
    BY DEF Coming
  <2>3. RowIs(i)'
    BY <2>1, <2>2 DEF RowIs
  <2>4. BodyIs(i)'
    BY <2>1 DEF BodyIs
  <2> QED
    BY <2>3, <2>4
<1>8. RowsAreIt'
  BY <1>7 DEF RowsAreIt
<1> QED
  BY <1>4, <1>5, <1>6, <1>8 DEF ResponsesInv

LEMMA GoInv ==
    ASSUME SomeIsActive, ResponsesInv, NEW r \in PaneRequests, Y!Go(r)
    PROVE  ResponsesInv'
<1>1. /\ httpRequest' = r /\ UNCHANGED <<responses, file, pins>>
      /\ UNCHANGED <<phase, taken, cancels, copies, hurried>>
      /\ Y!Moves(Y!ShownOf(r, responses, pins))
  BY DEF Y!Go, Y!sending
<1>2. PICK to : to = Y!ShownOf(r, responses, pins)
  OBVIOUS
<1>3. to = Y!Shown'
  BY <1>1, <1>2 DEF Y!Shown
<1>4. Y!Moves(to)
  BY <1>1, <1>2
<1>5. \A i \in Y!Ids : i > Len(responses) => pins'[i] = 0
  BY <1>1 DEF ResponsesInv, NoneOfLater
<1>6. ResponsesTyped
  BY DEF ResponsesInv
<1> QED
  BY <1>1, <1>3, <1>4, <1>5, <1>6, PaneMovesInv DEF ResponsesTyped

\* A pin is kept for the latest response.
LEMMA PinInv ==
    ASSUME SomeIsActive, ResponsesInv, NEW i \in 1..Len(responses), Y!Pin(i)
    PROVE  ResponsesInv'
<1>0. /\ Y!Ids = 1..MaxResponses /\ 1..Len(responses) \subseteq Y!Ids /\ ResponsesTyped
  BY IdsAre DEF ResponsesInv
<1>1. PICK k : k = Y!LatestOf(httpRequest, responses)
  OBVIOUS
<1>2. k \in 1..Len(responses)
  <2>1. i \in Y!Of(httpRequest, responses)
    BY DEF Y!Pin
  <2> QED
    BY <1>0, <1>1, <2>1, LatestIs DEF ResponsesTyped
<1>3. PICK n \in Y!Ids \cup {0} : n = Y!Toggle(pins[k], i)
  BY <1>0 DEF Y!Toggle, Y!None
<1>4. pins' = [pins EXCEPT ![k] = n]
  BY <1>0, <1>1, <1>2, <1>3 DEF Y!Pin, Y!PinKey, ResponsesTyped
<1>5. UNCHANGED <<httpRequest, responses, file, phase, taken, cancels, copies, hurried>>
  BY DEF Y!Pin, Y!sending
<1>6. PICK to : to = Y!ShownOf(httpRequest, responses, pins')
  OBVIOUS
<1>7. to = Y!Shown' /\ Y!Moves(to)
  BY <1>5, <1>6 DEF Y!Shown, Y!Pin
<1>8. pins' \in [Y!Ids -> Y!Ids \cup {0}]
  BY <1>0, <1>2, <1>3, <1>4 DEF ResponsesTyped
<1>9. \A j \in Y!Ids : j > Len(responses) => pins'[j] = 0
  BY <1>0, <1>2, <1>4 DEF ResponsesInv, NoneOfLater, ResponsesTyped
<1> QED
  BY <1>0, <1>5, <1>7, <1>8, <1>9, PaneMovesInv DEF ResponsesTyped

LEMMA UnpinInv == ASSUME SomeIsActive, ResponsesInv, Y!Unpin PROVE ResponsesInv'
<1>1. PICK i : i = Y!Shown
  OBVIOUS
<1>2. i \in 1..Len(responses) /\ Y!Pin(i)
  BY <1>1, IdsAre DEF Y!Unpin, Y!None, ResponsesInv
<1> QED
  BY <1>2, PinInv

LEMMA DeleteInv ==
    ASSUME SomeIsActive, ResponsesInv, NEW is, Y!Delete(is)
    PROVE  ResponsesInv'
<1>0. /\ Y!Ids = 1..MaxResponses /\ 1..Len(responses) \subseteq Y!Ids /\ ResponsesTyped
      /\ DOMAIN responses = 1..Len(responses) /\ Len(responses) \in Nat
  BY IdsAre DEF ResponsesInv
<1>1. /\ responses' = [i \in 1..Len(responses) |-> IF i \in is THEN [responses[i] EXCEPT !.state = "deleted"]
                                                  ELSE responses[i]]
      /\ file' = [i \in Y!Ids |-> IF i \in is /\ responses[i].state # "initialized" THEN -1 ELSE file[i]]
      /\ UNCHANGED <<httpRequest, pins, phase, taken, cancels, copies, hurried>>
  BY <1>0 DEF Y!Delete, Y!Gone, Y!sending
<1>2. \A i \in is : i \in 1..Len(responses)
  <2>1. Y!Of(httpRequest, responses) \subseteq 1..Len(responses)
    BY DEF Y!Of
  <2>2. is \in {{Y!Shown}, Y!Of(httpRequest, responses)} /\ is # {0}
    BY DEF Y!Delete, Y!None
  <2>3. Y!Shown \in 0..Len(responses)
    BY IdsAre DEF ResponsesInv
  <2> QED
    BY <2>1, <2>2, <2>3
<1>3. ASSUME NEW i \in 1..Len(responses)
      PROVE  /\ responses'[i] \in ResponseOf /\ responses'[i].size = responses[i].size
             /\ responses'[i].state \in {responses[i].state, "deleted"}
  <2>1. responses[i] \in ResponseOf
    BY <1>0 DEF ResponsesTyped
  <2>2. PICK row \in ResponseOf : row = [responses[i] EXCEPT !.state = "deleted"]
    BY <2>1 DEF ResponseOf, Y!States
  <2>3. row.size = responses[i].size /\ row.state = "deleted"
    BY <2>1, <2>2 DEF ResponseOf
  <2>4. responses'[i] = row \/ responses'[i] = responses[i]
    BY <1>1, <2>2
  <2> QED
    BY <2>1, <2>3, <2>4
<1>4. responses' \in Seq(ResponseOf) /\ Len(responses') = Len(responses)
  <2>1. responses' \in [1..Len(responses) -> ResponseOf]
    BY <1>1, <1>3
  <2> QED
    BY <1>0, <2>1
<1>5. ASSUME NEW i \in Y!Ids
      PROVE  file'[i] \in -1..MaxChunks /\ file'[i] \in {file[i], -1}
  <2>1. -1 \in -1..MaxChunks /\ file[i] \in -1..MaxChunks
    BY <1>0 DEF SomeIsActive, ResponsesTyped
  <2> QED
    BY <1>1, <2>1
<1>6. \A i \in Y!Ids : i > Len(responses) => file'[i] = file[i]
  BY <1>0, <1>1, <1>2
<1>7. file' \in [Y!Ids -> -1..MaxChunks]
  BY <1>1, <1>5
<1>8. PICK to : to = Y!ShownOf(httpRequest, responses', pins)
  OBVIOUS
<1>9. to = Y!Shown' /\ Y!Moves(to)
  BY <1>1, <1>8 DEF Y!Shown, Y!Delete
<1>10. \A i \in Y!Ids : i > Len(responses) => pins'[i] = 0
  BY <1>1 DEF ResponsesInv, NoneOfLater
<1>11. pins' \in [Y!Ids -> Y!Ids \cup {0}] /\ httpRequest' \in PaneRequests
  BY <1>0, <1>1 DEF ResponsesTyped
<1> QED
  BY <1>1, <1>3, <1>4, <1>5, <1>6, <1>7, <1>9, <1>10, <1>11, PaneMovesInv

\* A new response has nothing yet.
LEMMA SentInv == ASSUME SomeIsActive, ResponsesInv, Y!Send PROVE ResponsesInv'
<1> DEFINE row == [request |-> httpRequest, state |-> "initialized", size |-> 0]
<1>a. PICK n : n = Len(responses) + 1
  OBVIOUS
<1>0. /\ Y!Ids = 1..MaxResponses /\ 1..Len(responses) \subseteq Y!Ids /\ ResponsesTyped
      /\ Len(responses) \in Nat /\ n \in Nat
  BY <1>a, IdsAre DEF ResponsesInv
<1>1. /\ responses' = Append(responses, row) /\ phase' = Append(phase, "sending")
      /\ Len(responses) < MaxResponses /\ UNCHANGED <<httpRequest, file, pins, taken, cancels, copies, hurried>>
  BY DEF Y!Send
<1>2. row \in ResponseOf /\ row.size = 0 /\ row.state = "initialized" /\ "sending" \in Y!Phases
  BY <1>a, <1>0 DEF ResponseOf, ResponsesTyped, Y!States, Y!Phases, SomeIsActive
<1> HIDE DEF row
<1>3. /\ responses' \in Seq(ResponseOf) /\ Len(responses') = n /\ responses'[n] = row
      /\ \A i \in 1..Len(responses) : responses'[i] = responses[i]
  BY <1>a, <1>0, <1>1, <1>2, Appended DEF ResponsesTyped
<1>4. /\ phase' \in Seq(Y!Phases) /\ Len(phase') = n /\ phase'[n] = "sending"
      /\ \A i \in 1..Len(responses) : phase'[i] = phase[i]
  BY <1>a, <1>0, <1>1, <1>2, Appended DEF ResponsesTyped
<1>5. n \in Y!Ids
  BY <1>a, <1>0, <1>1 DEF SomeIsActive
<1>6. PICK to : to = Y!ShownOf(httpRequest, responses', pins)
  OBVIOUS
<1>7. to = Y!Shown' /\ Y!Moves(to)
  BY <1>1, <1>6 DEF Y!Shown, Y!Send, row
<1>8. to \in 0..n
  <2>1. PICK rs \in Seq(ResponseOf) : rs = responses'
    BY <1>3
  <2>2. to \in 0..Len(rs)
    BY <1>6, <2>1, ShownIsOne
  <2> QED
    BY <1>3, <2>1, <2>2
<1>9. to \in Y!Ids \cup {0}
  BY <1>a, <1>0, <1>5, <1>8
<1>10. /\ bodies' = bodies /\ bodyReads' \subseteq bodyReads \cup ({to} \ {0})
       /\ text' \in TextOf /\ TextIsOf(to)'
  <2>1. file' = file /\ file \in [Y!Ids -> -1..MaxChunks] /\ TextIsOf(Y!Shown)
    BY <1>a, <1>0, <1>1 DEF ResponsesTyped, ResponsesInv
  <2> QED
    BY <1>a, <1>0, <1>7, <1>9, <2>1, MovesText
<1>11. ResponsesTyped'
  <2>1. bodyReads \subseteq Y!Ids /\ MaxResponses \in Nat
    BY <1>0 DEF ResponsesTyped, SomeIsActive
  <2>2. bodyReads' \subseteq Y!Ids
    BY <1>9, <1>10, <2>1
  <2>3. n <= MaxResponses
    BY <1>a, <1>0, <1>1, <2>1
  <2> QED
    BY <1>0, <1>1, <1>3, <1>4, <1>10, <2>2, <2>3 DEF ResponsesTyped
<1>12. NoneOfLater'
  <2>1. SUFFICES ASSUME NEW i \in Y!Ids, i > n
                 PROVE  /\ file[i] = 0 /\ bodies[i] = -1 /\ i \notin bodyReads' /\ pins[i] = 0
                        /\ taken[i] = 0 /\ cancels[i] = "no"
    BY <1>1, <1>3, <1>10 DEF NoneOfLater
  <2>2. i > Len(responses) /\ i # to
    BY <1>a, <1>0, <1>8, <2>1
  <2> QED
    BY <1>a, <1>10, <2>2 DEF ResponsesInv, NoneOfLater
<1>13. TextIsOf(Y!Shown)'
  BY <1>7, <1>10 DEF TextIsOf
<1>14. ASSUME NEW i \in 1..Len(responses) PROVE RowIs(i)' /\ BodyIs(i)'
  <2>1. RowIs(i) /\ BodyIs(i) /\ responses'[i] = responses[i] /\ phase'[i] = phase[i]
    BY <1>3, <1>4 DEF ResponsesInv, RowsAreIt
  <2> QED
    BY <1>1, <1>10, <2>1 DEF RowIs, BodyIs, Coming
<1>15. RowIs(n)' /\ BodyIs(n)'
  <2>1. file[n] = 0 /\ bodies[n] = -1 /\ taken[n] = 0 /\ cancels[n] = "no"
    BY <1>a, <1>0, <1>5 DEF ResponsesInv, NoneOfLater
  <2>2. phase'[n] = "sending" /\ responses'[n].size = 0 /\ responses'[n].state = "initialized"
    BY <1>2, <1>3, <1>4
  <2>3. Coming(n)' = 0
    BY <2>2 DEF Coming
  <2>4. file' = file /\ taken' = taken /\ cancels' = cancels /\ MaxChunks \in Nat
    BY <1>1 DEF SomeIsActive
  <2>5. RowIs(n)'
    BY <2>1, <2>2, <2>3, <2>4 DEF RowIs
  <2> QED
    BY <1>10, <2>1, <2>5 DEF BodyIs
<1>16. \A i \in 1..n : i = n \/ i \in 1..Len(responses)
  BY <1>a, <1>0
<1>17. RowsAreIt'
  BY <1>a, <1>3, <1>14, <1>15, <1>16 DEF RowsAreIt
<1> QED
  BY <1>11, <1>12, <1>13, <1>17 DEF ResponsesInv

LEMMA ResponsesNext == ASSUME SomeIsActive, ResponsesInv, Y!Next PROVE ResponsesInv'
<1>1. DOMAIN responses = 1..Len(responses)
  BY IdsAre DEF ResponsesInv
<1>2. CASE Y!Send \/ Y!Cancel \/ Y!Unpin
  BY <1>2, SentInv, CancelInv, UnpinInv
<1>3. ASSUME NEW i \in DOMAIN responses,
             Y!Arrives(i) \/ Y!Connected(i) \/ Y!Chunk(i) \/ Y!Told(i) \/ Y!Stops(i) \/ Y!Ends(i)
      PROVE  ResponsesInv'
  BY <1>1, <1>3, HeadArrivesInv, ConnectedInv, ChunkInv, ToldInv, StopsInv, ArrivedInv
<1>7. ASSUME NEW i \in DOMAIN responses,
             Y!CancelSending(i) \/ Y!CancelReads(i) \/ Y!CancelWrites(i) \/ Y!Pin(i)
      PROVE  ResponsesInv'
  BY <1>1, <1>7, CancelSendingInv, CancelReadsInv, CancelWritesInv, PinInv
<1>4. CASE \E r \in PaneRequests : Y!Go(r)
  BY <1>4, GoInv
<1>5. CASE \E is \in SUBSET DOMAIN responses : Y!Delete(is)
  BY <1>5, DeleteInv
<1>6. CASE \E i \in bodyReads : Y!Answer(i) \/ Y!NoAnswer(i)
  BY <1>6, AnswerInv
<1> QED
  BY <1>2, <1>3, <1>4, <1>5, <1>6, <1>7 DEF Y!Next

LEMMA ResponsesInit == ASSUME SomeIsActive, Y!Init PROVE ResponsesInv
<1>1. /\ responses = <<>> /\ phase = <<>> /\ file = [i \in Y!Ids |-> 0]
      /\ pins = [i \in Y!Ids |-> 0] /\ bodies = [i \in Y!Ids |-> -1] /\ bodyReads = {}
      /\ text = Y!NoText /\ hurried = {} /\ httpRequest \in PaneRequests
      /\ taken = [i \in Y!Ids |-> 0] /\ copies = [i \in Y!Ids |-> 0]
      /\ cancels = [i \in Y!Ids |-> "no"]
  BY DEF Y!Init, Y!None, Y!Unread, SomeIsActive
<1>2. /\ responses \in Seq(ResponseOf) /\ phase \in Seq(Y!Phases)
      /\ Len(responses) = 0 /\ Len(phase) = 0
  BY <1>1
<1>3. text \in TextOf
  BY <1>1 DEF Y!NoText, TextOf, Y!None, SomeIsActive
<1>4. -1 \in -1..MaxChunks /\ 0 \in -1..MaxChunks
  BY DEF SomeIsActive
<1>5. file \in [Y!Ids -> -1..MaxChunks] /\ bodies \in [Y!Ids -> -1..MaxChunks]
  BY <1>1, <1>4
<1>6. /\ pins \in [Y!Ids -> Y!Ids \cup {0}] /\ taken \in [Y!Ids -> 0..MaxChunks]
      /\ copies \in [Y!Ids -> -1..MaxChunks] /\ cancels \in [Y!Ids -> Y!Cancels]
  BY <1>1, <1>4 DEF SomeIsActive, Y!Cancels
<1>7. ResponsesTyped
  BY <1>1, <1>2, <1>3, <1>5, <1>6 DEF ResponsesTyped, SomeIsActive
<1>8. NoneOfLater /\ RowsAreIt
  BY <1>1, <1>2 DEF NoneOfLater, RowsAreIt
<1>9. Y!Shown = 0
  BY <1>2, <1>7, IdsAre
<1>10. TextIsOf(Y!Shown)
  BY <1>9 DEF TextIsOf
<1> QED
  BY <1>7, <1>8, <1>10 DEF ResponsesInv

LEMMA ResponsesSafe == ASSUME SomeIsActive PROVE Y!Spec => []ResponsesInv
<1>1. Y!Init => ResponsesInv
  BY ResponsesInit
<1>2. ASSUME ResponsesInv, UNCHANGED Y!vars PROVE ResponsesInv'
  <2>1. /\ UNCHANGED <<httpRequest, responses, file, pins, bodies, bodyReads, text>>
        /\ UNCHANGED <<phase, taken, cancels, copies, hurried>>
    BY <1>2 DEF Y!vars, Y!sending
  <2>2. ResponsesTyped' /\ NoneOfLater'
    BY <1>2, <2>1 DEF ResponsesInv, ResponsesTyped, NoneOfLater
  <2>3. \A i : (RowIs(i) <=> RowIs(i)') /\ (BodyIs(i) <=> BodyIs(i)') /\ (TextIsOf(i) <=> TextIsOf(i)')
    BY <2>1 DEF RowIs, BodyIs, TextIsOf, Coming
  <2>4. Y!Shown' = Y!Shown
    BY <2>1 DEF Y!Shown
  <2>5. TextIsOf(Y!Shown)'
    BY <1>2, <2>1, <2>4 DEF ResponsesInv, TextIsOf
  <2>6. RowsAreIt'
    BY <1>2, <2>1, <2>3 DEF ResponsesInv, RowsAreIt
  <2> QED
    BY <2>2, <2>5, <2>6 DEF ResponsesInv
<1>3. ResponsesInv /\ [Y!Next]_Y!vars => ResponsesInv'
  BY <1>2, ResponsesNext
<1> QED
  BY <1>1, <1>3, PTL DEF Y!Spec

\* The rows, their files and what is read of them keep their types.
THEOREM ResponsesTypeCorrect == ASSUME SomeIsActive PROVE Y!Spec => []Y!TypeOK
<1>1. ASSUME ResponsesInv PROVE Y!TypeOK
  <2>1. ResponsesTyped
    BY <1>1 DEF ResponsesInv
  <2>2. \A i \in DOMAIN responses : responses[i] \in ResponseOf
    BY <2>1 DEF ResponsesTyped
  <2>3. DOMAIN phase = DOMAIN responses /\ \A i \in DOMAIN phase : phase[i] \in Y!Phases
    BY <2>1 DEF ResponsesTyped
  <2> QED
    BY <2>1, <2>2, <2>3 DEF ResponsesTyped, ResponseOf, TextOf, Y!TypeOK, Y!Gone, Y!None, Y!Unread
<1>2. ResponsesInv => Y!TypeOK
  BY <1>1
<1> QED
  BY <1>2, ResponsesSafe, PTL

\* A response that neither its task nor a cancel works on any more is closed, whoever
\* cancelled or deleted it while it arrived (http_request.rs); unless a cancel closed it
\* while its task had yet to write it connected, or was in the middle of a chunk.
THEOREM EndedIsClosed == ASSUME SomeIsActive PROVE Y!Spec => []Y!EndedIsClosed
<1>1. ResponsesInv => Y!EndedIsClosed
  BY ItsRow, IdsAre DEF ResponsesInv, RowIs, Y!EndedIsClosed, Y!Worked
<1> QED
  BY <1>1, ResponsesSafe, PTL

\* Once it is read, the text is that of the response that is shown, no shorter than its row
\* says, and all of it when it has ended; what is said to be empty is (HttpResponsePane.tsx).
THEOREM TextIsOfShown == ASSUME SomeIsActive PROVE Y!Spec => []Y!ShowsItsBody
<1>1. ASSUME ResponsesInv PROVE Y!ShowsItsBody
  <2>1. PICK s : s = Y!Shown
    OBVIOUS
  <2>2. s \in 0..Len(responses) /\ Len(responses) \in Nat
    BY <1>1, <2>1, IdsAre DEF ResponsesInv
  <2>3. CASE s = 0
    <3>1. Y!View = "keys"
      BY <2>1, <2>3 DEF Y!View, Y!None
    <3> QED
      BY <3>1 DEF Y!ShowsItsBody
  <2>4. CASE s # 0
    <3>1. s \in 1..Len(responses)
      BY <2>2, <2>4
    <3>2. /\ RowIs(s) /\ BodyIs(s) /\ TextIsOf(s)
          /\ responses[s].size \in 0..MaxChunks /\ phase[s] \in Y!Phases
      BY <1>1, <2>1, <3>1, ItsRow DEF ResponsesInv
    <3>3. s \notin bodyReads /\ file[s] # -1 =>
             /\ text.of = s /\ text.chunks >= responses[s].size
             /\ phase[s] = "over" => text.chunks = file[s]
      <4>1. SUFFICES ASSUME s \notin bodyReads, file[s] # -1
                     PROVE  /\ text.of = s /\ text.chunks >= responses[s].size
                            /\ phase[s] = "over" => text.chunks = file[s]
        OBVIOUS
      <4>2. bodies[s] # -1 /\ text = [of |-> s, chunks |-> bodies[s]]
        BY <2>4, <3>2, <4>1 DEF TextIsOf
      <4>3. text.of = s /\ text.chunks = bodies[s]
        BY <4>2
      <4>4. responses[s].size <= bodies[s] /\ (phase[s] # "chunk" => bodies[s] = file[s])
        BY <3>2, <4>1, <4>2 DEF BodyIs
      <4>5. bodies[s] \in -1..MaxChunks
        BY <1>1, <3>1, ItsRow
      <4> QED
        BY <3>2, <4>3, <4>4, <4>5 DEF SomeIsActive
    <3>4. ASSUME Y!View = "empty", s \notin hurried, responses[s].size = taken[s]
          PROVE  file[s] \in {0, -1}
      <4>1. responses[s].state = "closed" /\ responses[s].size = 0
        BY <2>1, <3>4 DEF Y!View
      <4>2. phase[s] # "chunk" /\ taken[s] = 0
        BY <3>2, <3>4, <4>1 DEF RowIs
      <4> QED
        BY <3>2, <4>1, <4>2 DEF RowIs, Coming
    <3> QED
      BY <2>1, <3>3, <3>4 DEF Y!ShowsItsBody, Y!Gone
  <2> QED
    BY <2>3, <2>4
<1>2. ResponsesInv => Y!ShowsItsBody
  BY <1>1
<1> QED
  BY <1>2, ResponsesSafe, PTL

\* What is shown depends on which rows there are, and on the pin of the latest.
LEMMA ShowsTheSame ==
    ASSUME NEW r, NEW rs, NEW ss, NEW pinned, Y!Of(r, rs) = Y!Of(r, ss)
    PROVE  Y!ShownOf(r, rs, pinned) = Y!ShownOf(r, ss, pinned)
  BY DEF Y!ShownOf, Y!LatestOf, Y!PinKey

LEMMA WriteStays ==
    ASSUME SomeIsActive, ResponsesInv, NEW i \in 1..Len(responses), NEW state, NEW count,
           Y!Writes(i, state, count), state # "deleted", ResponsesInv', UNCHANGED <<httpRequest, pins>>
    PROVE  Y!StaysWithIts
<1>1. PICK rs : rs = responses'
  OBVIOUS
<1>2. /\ Len(rs) = Len(responses) /\ DOMAIN rs = 1..Len(responses)
      /\ \A j \in 1..Len(responses) : j # i => rs[j] = responses[j]
      /\ rs[i].state = state /\ rs[i].request = responses[i].request
  <2>1. responses \in Seq(ResponseOf) /\ responses[i] \in ResponseOf /\ rs \in Seq(ResponseOf)
    BY <1>1 DEF ResponsesInv, ResponsesTyped
  <2>2. PICK row : row = [responses[i] EXCEPT !.state = state, !.size = count]
    OBVIOUS
  <2>3. rs = [responses EXCEPT ![i] = row]
    BY <1>1, <2>2 DEF Y!Writes, ResponsesInv, ResponsesTyped
  <2>4. DOMAIN rs = DOMAIN responses
    BY <2>3
  <2>5. Len(rs) = Len(responses) /\ DOMAIN rs = 1..Len(responses)
    BY <2>1, <2>4
  <2>6. rs[i] = row /\ \A j \in 1..Len(responses) : j # i => rs[j] = responses[j]
    BY <2>1, <2>3
  <2>7. row.state = state /\ row.request = responses[i].request
    BY <2>1, <2>2 DEF ResponseOf
  <2> QED
    BY <2>5, <2>6, <2>7
<1>3. Len(responses) \in Nat /\ DOMAIN responses = 1..Len(responses) /\ pins' = pins
  BY IdsAre DEF ResponsesInv
<1>4. CASE responses[i].state = "deleted"
  <2>1. \E j \in DOMAIN responses : responses[j].state = "deleted" /\ rs[j].state # "deleted"
    BY <1>2, <1>3, <1>4
  <2> QED
    BY <1>1, <1>2, <1>3, <2>1 DEF Y!StaysWithIts
<1>5. CASE responses[i].state # "deleted"
  <2>1. \A j \in 1..Len(responses) :
           /\ rs[j].request = responses[j].request
           /\ rs[j].state = "deleted" <=> responses[j].state = "deleted"
    BY <1>2, <1>5
  <2>2. Y!Of(httpRequest, rs) = Y!Of(httpRequest, responses)
    BY <1>2, <1>3, <2>1 DEF Y!Of
  <2>3. Y!ShownOf(httpRequest, rs, pins) = Y!Shown
    BY <2>2, ShowsTheSame DEF Y!Shown
  <2>4. Y!Shown' = Y!Shown
    BY <1>1, <1>3, <2>3 DEF Y!Shown
  <2> QED
    BY <1>1, <1>2, <1>3, <2>4 DEF Y!StaysWithIts
<1> QED
  BY <1>4, <1>5

LEMMA RestStays ==
    ASSUME SomeIsActive, ResponsesInv, UNCHANGED <<httpRequest, responses, pins>>
    PROVE  Y!StaysWithIts
<1>1. Y!Shown' = Y!Shown
  BY DEF Y!Shown
<1>2. Len(responses) \in Nat
  BY IdsAre DEF ResponsesInv
<1> QED
  BY <1>1, <1>2 DEF Y!StaysWithIts

\* The pin of a response to come is none.
LEMMA SendStays == ASSUME SomeIsActive, ResponsesInv, Y!Send PROVE Y!StaysWithIts
<1>0. /\ Len(responses) \in Nat /\ responses \in Seq(ResponseOf) /\ Len(responses) < MaxResponses
      /\ Y!Ids = 1..MaxResponses
  BY IdsAre DEF ResponsesInv, ResponsesTyped, Y!Send
<1>1. PICK n : n = Len(responses) + 1
  OBVIOUS
<1>2. PICK row \in ResponseOf : row = [request |-> httpRequest, state |-> "initialized", size |-> 0]
  <2>1. httpRequest \in PaneRequests /\ "initialized" \in Y!States /\ 0 \in 0..MaxChunks
    BY DEF ResponsesInv, ResponsesTyped, Y!States, SomeIsActive
  <2> QED
    BY <2>1 DEF ResponseOf
<1>3. PICK rs \in Seq(ResponseOf) : rs = Append(responses, row)
  <2>1. Append(responses, row) \in Seq(ResponseOf)
    BY <1>0, <1>2, Appended
  <2> QED
    BY <2>1
<1>4. rs = responses' /\ pins' = pins /\ httpRequest' = httpRequest
  BY <1>2, <1>3 DEF Y!Send
<1>5. Len(rs) = n /\ rs[n] = row
  BY <1>0, <1>1, <1>3
<1>6. n \in Y!Of(httpRequest, rs)
  BY <1>0, <1>1, <1>2, <1>5 DEF Y!Of
<1>7. Y!LatestOf(httpRequest, rs) = n
  <2>1. Y!LatestOf(httpRequest, rs) \in 0..n /\ n <= Y!LatestOf(httpRequest, rs)
    BY <1>5, <1>6, LatestIs
  <2> QED
    BY <1>0, <1>1, <2>1
<1>8. pins[n] = 0
  <2>1. n \in Y!Ids /\ n > Len(responses)
    BY <1>0, <1>1 DEF SomeIsActive
  <2> QED
    BY <2>1 DEF ResponsesInv, NoneOfLater
<1>9. 0 \notin Y!Of(httpRequest, rs)
  BY LatestIs
<1>10. Y!ShownOf(httpRequest, rs, pins) = n
  BY <1>7, <1>8, <1>9 DEF Y!ShownOf, Y!PinKey, Y!None
<1>11. Y!Shown' = n
  BY <1>4, <1>10 DEF Y!Shown
<1> QED
  BY <1>0, <1>1, <1>4, <1>5, <1>11 DEF Y!StaysWithIts

\* A pin that is taken away leaves the latest response; any other one is shown.
LEMMA PinStays ==
    ASSUME SomeIsActive, ResponsesInv, NEW i \in 1..Len(responses), Y!Pin(i)
    PROVE  Y!StaysWithIts
<1>0. /\ Len(responses) \in Nat /\ responses \in Seq(ResponseOf) /\ ResponsesTyped
      /\ 1..Len(responses) \subseteq Y!Ids
  BY IdsAre DEF ResponsesInv, ResponsesTyped
<1>1. PICK k : k = Y!LatestOf(httpRequest, responses)
  OBVIOUS
<1>2. i \in Y!Of(httpRequest, responses) /\ UNCHANGED <<httpRequest, responses>>
  BY DEF Y!Pin
<1>3. k \in 1..Len(responses) /\ 0 \notin Y!Of(httpRequest, responses)
  BY <1>0, <1>1, <1>2, LatestIs
<1>4. PICK n : n = IF pins[k] = i THEN 0 ELSE i
  OBVIOUS
<1>5. pins' = [pins EXCEPT ![k] = n] /\ pins'[k] = n
  BY <1>0, <1>1, <1>3, <1>4 DEF Y!Pin, Y!PinKey, Y!Toggle, Y!None, ResponsesTyped
<1>6. Y!Shown = IF pins[k] \in Y!Of(httpRequest, responses) THEN pins[k] ELSE k
  BY <1>1, <1>3 DEF Y!Shown, Y!ShownOf, Y!PinKey, Y!None
<1>7. Y!Shown' = IF n \in Y!Of(httpRequest, responses) THEN n ELSE k
  BY <1>1, <1>2, <1>3, <1>5 DEF Y!Shown, Y!ShownOf, Y!PinKey, Y!None
<1>8. Y!Shown' = Y!Shown => Y!Shown = k
  BY <1>2, <1>3, <1>4, <1>6, <1>7
<1>9. pins' = pins => Y!Shown' = Y!Shown
  BY <1>2 DEF Y!Shown
<1> QED
  BY <1>0, <1>1, <1>2, <1>8, <1>9 DEF Y!StaysWithIts

LEMMA DeleteStays ==
    ASSUME SomeIsActive, ResponsesInv, NEW is, Y!Delete(is)
    PROVE  Y!StaysWithIts
<1>0. /\ Len(responses) \in Nat /\ responses \in Seq(ResponseOf)
      /\ DOMAIN responses = 1..Len(responses)
  BY IdsAre DEF ResponsesInv, ResponsesTyped
<1>1. PICK rs : rs = responses'
  OBVIOUS
<1>2. rs = [i \in 1..Len(responses) |-> IF i \in is THEN [responses[i] EXCEPT !.state = "deleted"]
                                        ELSE responses[i]]
  BY <1>0, <1>1 DEF Y!Delete
<1>3. Len(rs) = Len(responses)
  <2>1. ResponsesInv'
    BY DeleteInv
  <2>2. rs \in Seq(ResponseOf) /\ DOMAIN rs = 1..Len(responses)
    BY <1>1, <1>2, <2>1 DEF ResponsesInv, ResponsesTyped
  <2> QED
    BY <1>0, <2>2
<1>4. UNCHANGED <<httpRequest, pins>>
  BY DEF Y!Delete
<1>5. PICK s : s = Y!Shown
  OBVIOUS
<1>6. s = 0 \/ (s \in 1..Len(responses) /\ s \in is)
  <2>1. s \in Y!Of(httpRequest, responses) \cup {0} /\ s \in 0..Len(responses)
    BY <1>0, <1>5, ShownIsOne DEF Y!Shown
  <2>2. is \in {{s}, Y!Of(httpRequest, responses)}
    BY <1>5 DEF Y!Delete
  <2> QED
    BY <1>0, <2>1, <2>2
<1>7. s = 0 \/ rs[s].state = "deleted"
  <2>1. ASSUME s \in 1..Len(responses), s \in is PROVE rs[s].state = "deleted"
    <3>1. responses[s] \in ResponseOf
      BY <1>0, <2>1
    <3>2. rs[s] = [responses[s] EXCEPT !.state = "deleted"]
      BY <1>2, <2>1
    <3> QED
      BY <3>1, <3>2 DEF ResponseOf
  <2> QED
    BY <1>6, <2>1
<1> QED
  BY <1>0, <1>1, <1>3, <1>4, <1>5, <1>7 DEF Y!StaysWithIts, Y!None

LEMMA PaneNextStays == ASSUME SomeIsActive, ResponsesInv, Y!Next PROVE Y!StaysWithIts
<1>0. /\ DOMAIN responses = 1..Len(responses) /\ 1..Len(responses) \subseteq Y!Ids
      /\ Y!Shown \in 0..Len(responses) /\ Len(responses) \in Nat
  BY IdsAre DEF ResponsesInv
<1>a. ResponsesInv'
  BY ResponsesNext
<1>1. CASE Y!Send
  BY <1>1, SendStays
<1>2. CASE Y!Cancel
  BY <1>2, RestStays DEF Y!Cancel
<1>3. CASE Y!Unpin
  BY <1>0, <1>3, PinStays DEF Y!Unpin, Y!None
<1>4. ASSUME NEW i \in 1..Len(responses),
             Y!Connected(i) \/ Y!Told(i) \/ Y!Ends(i) \/ Y!CancelSending(i) \/ Y!CancelWrites(i)
      PROVE  Y!StaysWithIts
  <2>1. /\ \E state \in {"connected", "closed"} : \E c : Y!Writes(i, state, c)
        /\ UNCHANGED <<httpRequest, pins>>
    BY <1>4 DEF Y!Connected, Y!Told, Y!Ends, Y!CancelSending, Y!CancelWrites, Y!CancelledState
  <2> QED
    BY <1>a, <2>1, WriteStays
<1>5. ASSUME NEW i,
             \/ Y!Arrives(i) \/ Y!Chunk(i) \/ Y!Stops(i) \/ Y!CancelReads(i)
             \/ Y!Answer(i) \/ Y!NoAnswer(i)
      PROVE  Y!StaysWithIts
  BY <1>5, RestStays DEF Y!Arrives, Y!Chunk, Y!Stops, Y!CancelReads, Y!Answer, Y!NoAnswer
<1>6. ASSUME NEW i \in 1..Len(responses), Y!Pin(i) PROVE Y!StaysWithIts
  BY <1>6, PinStays
<1>7. ASSUME NEW r, Y!Go(r) PROVE Y!StaysWithIts
  BY <1>7 DEF Y!Go, Y!StaysWithIts
<1>8. ASSUME NEW is, Y!Delete(is) PROVE Y!StaysWithIts
  BY <1>8, DeleteStays
<1> QED
  BY <1>0, <1>1, <1>2, <1>3, <1>4, <1>5, <1>6, <1>7, <1>8 DEF Y!Next

\* A new response is shown at once, and the pane of a request goes to another one only when
\* one is pinned, new, deleted or back (usePinnedHttpResponse.ts).
THEOREM PaneStaysWithIts == ASSUME SomeIsActive PROVE Y!Spec => [][Y!StaysWithIts]_Y!vars
<1>1. ResponsesInv /\ [Y!Next]_Y!vars => [Y!StaysWithIts]_Y!vars
  BY PaneNextStays
<1> QED
  BY <1>1, ResponsesSafe, PTL DEF Y!Spec

-----------------------------------------------------------------------------
(* The connections of a request, and the list of the events of one. *)

CONSTANTS MaxConnections, MaxEvents, MaxLoads
VARIABLES kind, callRequest, connections, connectionPins, counts, eventRows, eventLoads,
          openEvent, calling, paneHidden, mixed, closedByHand

X == INSTANCE ConnectionPane WITH
    request <- callRequest, pins <- connectionPins, count <- counts, events <- eventRows,
    loads <- eventLoads, selected <- openEvent, hidden <- paneHidden, closed <- closedByHand,
    Requests <- PaneRequests

\* A request is active, and the bound is a number.
SomeCalls == PaneRequests # {} /\ MaxConnections \in Nat

ConnectionOf == [request : PaneRequests, state : {"open", "closed", "deleted"}]
LoadOf == [of : X!Ids, from : Nat]

ConnectionsTyped ==
    /\ callRequest \in PaneRequests
    /\ connections \in Seq(ConnectionOf)
    /\ calling \in Nat /\ Len(connections) + calling <= MaxConnections
    /\ connectionPins \in [X!Keys -> X!Ids \cup {0}]
    /\ counts \in [X!Ids -> Nat]
    /\ eventLoads \in Seq(LoadOf)

\* Nothing is pinned for a connection to come.
NoPinOfLater == \A k \in X!Keys : k[2] > Len(connections) => connectionPins[k] = 0

\* Unless events were mixed up, the reads under way are of connection s with all it has,
\* and when there is none the list has its events.
ListsEvents(s) ==
    ~mixed =>
        /\ \A i \in 1..Len(eventLoads) :
              eventLoads[i].of = s /\ eventLoads[i].from = counts[eventLoads[i].of]
        /\ eventLoads = <<>> => eventRows = X!EventsOf(s, counts)

ConnectionsInv == ConnectionsTyped /\ NoPinOfLater /\ ListsEvents(X!Shown)

\* The connection that the panes show is one of the request, or none.
LEMMA LatestConnection ==
    ASSUME NEW r, NEW cs \in Seq(ConnectionOf)
    PROVE  /\ X!ActiveOf(r, cs) \subseteq 1..Len(cs)
           /\ X!LatestOf(r, cs) \in X!ActiveOf(r, cs) \cup {0}
           /\ \A i \in X!ActiveOf(r, cs) : i <= X!LatestOf(r, cs)
<1> DEFINE S == X!ActiveOf(r, cs) \cup {X!None}
<1>1. X!ActiveOf(r, cs) \subseteq 1..Len(cs)
  BY DEF X!ActiveOf
<1>2. S \subseteq 0..Len(cs) /\ S # {} /\ Len(cs) \in Nat
  BY <1>1 DEF X!None
<1>3. Y!Max(S) \in S /\ \A y \in S : y <= Y!Max(S)
  BY <1>2, Highest
<1>4. X!Max(S) = Y!Max(S)
  BY DEF X!Max, Y!Max
<1> QED
  BY <1>1, <1>3, <1>4 DEF X!LatestOf, X!None

LEMMA ShownConnection ==
    ASSUME NEW r, NEW cs \in Seq(ConnectionOf), NEW pinned
    PROVE  /\ X!ShownOf(r, cs, pinned) \in X!ActiveOf(r, cs) \cup {0}
           /\ X!ShownOf(r, cs, pinned) \in 0..Len(cs)
           /\ X!ShownOf(r, cs, pinned) = 0 => X!ActiveOf(r, cs) = {}
<1>1. /\ X!ActiveOf(r, cs) \subseteq 1..Len(cs) /\ X!LatestOf(r, cs) \in X!ActiveOf(r, cs) \cup {0}
      /\ \A i \in X!ActiveOf(r, cs) : i <= X!LatestOf(r, cs)
  BY LatestConnection
<1>2. X!ShownOf(r, cs, pinned) \in X!ActiveOf(r, cs) \cup {0}
  BY <1>1 DEF X!ShownOf
<1>3. X!ShownOf(r, cs, pinned) = 0 => X!LatestOf(r, cs) = 0
  BY <1>1 DEF X!ShownOf
<1>4. Len(cs) \in Nat
  OBVIOUS
<1> QED
  BY <1>1, <1>2, <1>3, <1>4

LEMMA ConnectionsAre ==
    ASSUME SomeCalls, ConnectionsTyped
    PROVE  /\ DOMAIN connections = 1..Len(connections) /\ Len(connections) \in Nat
           /\ X!Ids = 1..MaxConnections /\ 1..Len(connections) \subseteq X!Ids
           /\ X!Shown \in 0..Len(connections)
           /\ X!Shown \in X!ActiveOf(callRequest, connections) \cup {0}
<1>1. /\ X!Shown \in 0..Len(connections)
      /\ X!Shown \in X!ActiveOf(callRequest, connections) \cup {0}
  BY ShownConnection DEF X!Shown, ConnectionsTyped
<1> QED
  BY <1>1 DEF SomeCalls, ConnectionsTyped, X!Ids

\* The panes go to another connection: its events are read, or the list is emptied.
LEMMA FollowLists ==
    ASSUME ConnectionsTyped, ListsEvents(X!Shown), NEW to \in X!Ids \cup {0}, X!Follow(to),
           counts' \in [X!Ids -> Nat], to # 0 => counts'[to] = counts[to]
    PROVE  eventLoads' \in Seq(LoadOf) /\ ListsEvents(to)'
<1>1. eventLoads \in Seq(LoadOf) /\ counts \in [X!Ids -> Nat]
  BY DEF ConnectionsTyped
<1>2. CASE to = X!Shown
  <2>1. UNCHANGED <<eventRows, eventLoads, mixed>>
    BY <1>2 DEF X!Follow
  <2>2. X!EventsOf(to, counts') = X!EventsOf(to, counts)
    BY DEF X!EventsOf, X!None
  <2>3. ASSUME NEW i \in 1..Len(eventLoads), eventLoads[i].of = to
        PROVE  counts'[eventLoads[i].of] = counts[eventLoads[i].of]
    <3>1. eventLoads[i] \in LoadOf
      BY <1>1
    <3>2. to \in X!Ids /\ (0 \notin X!Ids)
      BY <2>3, <3>1 DEF LoadOf, X!Ids
    <3> QED
      BY <2>3, <3>2
  <2> QED
    BY <1>1, <1>2, <2>1, <2>2, <2>3 DEF ListsEvents
<1>3. CASE to # X!Shown /\ to = 0
  <2>1. eventLoads' = eventLoads /\ eventRows' = {} /\ mixed' = (eventLoads # <<>>)
    BY <1>3 DEF X!Follow, X!None
  <2>2. X!EventsOf(to, counts') = {}
    BY <1>3 DEF X!EventsOf, X!None
  <2>3. ASSUME ~mixed' PROVE eventLoads = <<>>
    BY <2>1, <2>3, Zenon
  <2>4. ASSUME ~mixed' PROVE Len(eventLoads') = 0
    BY <2>1, <2>3, <2>4
  <2>5. ASSUME ~mixed', NEW i \in 1..Len(eventLoads') PROVE FALSE
    BY <2>4, <2>5
  <2>6. eventRows' = X!EventsOf(to, counts')
    BY <2>1, <2>2
  <2>7. ListsEvents(to)'
    BY <2>5, <2>6 DEF ListsEvents
  <2> QED
    BY <1>1, <2>1, <2>7
<1>4. CASE to # X!Shown /\ to # 0
  <2>1. PICK reads : reads = X!Reads(to)
    OBVIOUS
  <2>2. PICK n \in {1, 2} : n = X!Readers
    BY DEF X!Readers
  <2>3. eventLoads' = eventLoads \o reads /\ mixed' = (eventLoads # <<>>)
    BY <1>4, <2>1 DEF X!Follow, X!None
  <2>4. PICK read \in LoadOf : read = [of |-> to, from |-> counts[to]]
    BY <1>1, <1>4 DEF LoadOf
  <2>5. reads = [i \in 1..n |-> read]
    BY <2>1, <2>2, <2>4 DEF X!Reads
  <2>6. reads \in Seq(LoadOf) /\ Len(reads) = n
    BY <2>2, <2>4, <2>5
  <2>7. ASSUME ~mixed' PROVE eventLoads' = reads
    <3>1. eventLoads = <<>>
      BY <2>3, <2>7, Zenon
    <3> QED
      BY <2>3, <2>6, <3>1
  <2>8. \A i \in 1..n : reads[i].of = to /\ reads[i].from = counts'[reads[i].of]
    BY <1>4, <2>4, <2>5
  <2>9. reads # <<>>
    BY <2>2, <2>6
  <2> QED
    BY <1>1, <2>3, <2>6, <2>7, <2>8, <2>9 DEF ListsEvents
<1> QED
  BY <1>2, <1>3, <1>4

LEMMA GoLists ==
    ASSUME SomeCalls, ConnectionsInv, NEW r \in PaneRequests, X!Go(r)
    PROVE  ConnectionsInv'
<1>1. /\ UNCHANGED <<connections, connectionPins, counts, calling>> /\ callRequest' = r
  BY DEF X!Go
<1>2. PICK to : to = X!ShownOf(r, connections, connectionPins)
  OBVIOUS
<1>3. to \in X!Ids \cup {0} /\ X!Shown' = to /\ X!Follow(to)
  <2>1. to \in 0..Len(connections)
    BY <1>2, ShownConnection DEF ConnectionsInv, ConnectionsTyped
  <2>2. X!Shown' = to /\ X!Follow(to)
    BY <1>1, <1>2 DEF X!Shown, X!Go
  <2> QED
    BY <2>1, <2>2, ConnectionsAre DEF ConnectionsInv
<1>4. eventLoads' \in Seq(LoadOf) /\ ListsEvents(to)'
  BY <1>1, <1>3, FollowLists DEF ConnectionsInv, ConnectionsTyped
<1>5. ListsEvents(X!Shown)'
  BY <1>3, <1>4 DEF ListsEvents
<1>6. ConnectionsTyped' /\ NoPinOfLater'
  BY <1>1, <1>4 DEF ConnectionsInv, ConnectionsTyped, NoPinOfLater
<1> QED
  BY <1>5, <1>6 DEF ConnectionsInv

\* The row of a new connection: what is shown is followed.
LEMMA MadeLists == ASSUME SomeCalls, ConnectionsInv, X!Made PROVE ConnectionsInv'
<1>1. PICK r \in PaneRequests : /\ connections' = Append(connections, [request |-> r, state |-> "open"])
                                /\ X!Follow(X!ShownOf(callRequest, connections', connectionPins))
  BY DEF X!Made
<1>2. calling > 0 /\ calling' = calling - 1 /\ UNCHANGED <<callRequest, connectionPins, counts>>
  BY DEF X!Made
<1>3. PICK row \in ConnectionOf : row = [request |-> r, state |-> "open"]
  BY DEF ConnectionOf
<1>4. /\ connections' \in Seq(ConnectionOf) /\ Len(connections') = Len(connections) + 1
  BY <1>1, <1>3, Appended DEF ConnectionsInv, ConnectionsTyped
<1>5. PICK cs \in Seq(ConnectionOf) : cs = connections'
  BY <1>4
<1>6. PICK to : to = X!ShownOf(callRequest, cs, connectionPins)
  OBVIOUS
<1>7. X!Shown' = to /\ X!Follow(to)
  BY <1>1, <1>2, <1>5, <1>6 DEF X!Shown
<1>8. to \in X!Ids \cup {0}
  <2>1. to \in 0..Len(cs)
    BY <1>6, ShownConnection
  <2>2. Len(cs) <= MaxConnections
    BY <1>2, <1>4, <1>5 DEF SomeCalls, ConnectionsInv, ConnectionsTyped
  <2> QED
    BY <2>1, <2>2 DEF SomeCalls, X!Ids
<1>9. eventLoads' \in Seq(LoadOf) /\ ListsEvents(to)'
  BY <1>2, <1>7, <1>8, FollowLists DEF ConnectionsInv, ConnectionsTyped
<1>10. ListsEvents(X!Shown)'
  BY <1>7, <1>9 DEF ListsEvents
<1>11. ConnectionsTyped'
  BY <1>2, <1>4, <1>9 DEF ConnectionsInv, ConnectionsTyped
<1>12. NoPinOfLater'
  <2>1. \A k \in X!Keys : k[2] > Len(connections') => k[2] > Len(connections)
    BY <1>4, ConnectionsAre DEF SomeCalls, ConnectionsInv, X!Keys, X!Ids, X!None
  <2> QED
    BY <1>2, <2>1 DEF ConnectionsInv, NoPinOfLater
<1> QED
  BY <1>10, <1>11, <1>12 DEF ConnectionsInv

\* An event of the connection that is shown is listed; of another, or while the list is
\* read, it is mixed up with its events.
LEMMA ArrivesLists ==
    ASSUME SomeCalls, ConnectionsInv, NEW c \in 1..Len(connections), X!Arrives(c)
    PROVE  ConnectionsInv'
<1>1. /\ UNCHANGED <<callRequest, connections, connectionPins, eventLoads, calling>>
      /\ counts' = [counts EXCEPT ![c] = counts[c] + 1]
      /\ eventRows' = eventRows \cup {<<c, counts'[c]>>}
      /\ mixed' = (mixed \/ c # X!Shown \/ eventLoads # <<>>)
  BY DEF X!Arrives
<1>2. c \in X!Ids /\ 0 \notin X!Ids
  BY ConnectionsAre DEF ConnectionsInv, X!Ids
<1>3. ConnectionsTyped' /\ NoPinOfLater'
  BY <1>1, <1>2 DEF ConnectionsInv, ConnectionsTyped, NoPinOfLater
<1>4. X!Shown' = X!Shown
  BY <1>1 DEF X!Shown
<1>5. ASSUME ~mixed' PROVE ListsEvents(X!Shown)'
  <2>1. ~mixed /\ c = X!Shown /\ eventLoads = <<>>
    BY <1>1, <1>5, Zenon
  <2>2. PICK n \in Nat : n = counts[c]
    BY <1>2 DEF ConnectionsInv, ConnectionsTyped
  <2>3. counts'[c] = n + 1
    BY <1>1, <1>2, <2>2 DEF ConnectionsInv, ConnectionsTyped
  <2>4. eventRows = {c} \X (1..n)
    BY <1>2, <2>1, <2>2 DEF ConnectionsInv, ListsEvents, X!EventsOf, X!None
  <2>5. eventRows' = {c} \X (1..(n + 1))
    <3>1. 1..(n + 1) = (1..n) \cup {n + 1}
      OBVIOUS
    <3>2. eventRows' = {c} \X ((1..n) \cup {n + 1})
      BY <1>1, <2>3, <2>4
    <3> QED
      BY <3>1, <3>2
  <2>6. eventRows' = X!EventsOf(c, counts')
    BY <1>2, <2>3, <2>5 DEF X!EventsOf, X!None
  <2>7. Len(eventLoads') = 0
    BY <1>1, <2>1
  <2> QED
    BY <1>4, <2>1, <2>6, <2>7 DEF ListsEvents, X!EventsOf
<1>6. ASSUME mixed' PROVE ListsEvents(X!Shown)'
  BY <1>6, Zenon DEF ListsEvents
<1> QED
  BY <1>3, <1>5, <1>6 DEF ConnectionsInv

\* What is shown depends on the request and state of the rows.
LEMMA ShowsTheSameCall ==
    ASSUME NEW r, NEW cs, NEW ds, NEW pinned, X!ActiveOf(r, cs) = X!ActiveOf(r, ds)
    PROVE  X!ShownOf(r, cs, pinned) = X!ShownOf(r, ds, pinned)
  BY DEF X!ShownOf, X!LatestOf, X!KeyOf

LEMMA ClosesSame ==
    ASSUME SomeCalls, ConnectionsTyped, NEW c \in 1..Len(connections), X!Closes(c)
    PROVE  /\ connections' \in Seq(ConnectionOf) /\ Len(connections') = Len(connections)
           /\ X!Shown' = X!Shown
<1>1. connections \in Seq(ConnectionOf) /\ connections[c] \in ConnectionOf
  BY DEF ConnectionsTyped
<1>2. PICK row \in ConnectionOf : row = [connections[c] EXCEPT !.state = "closed"]
  BY <1>1 DEF ConnectionOf
<1>3. connections' = [connections EXCEPT ![c] = row]
  BY <1>2 DEF X!Closes, ConnectionsTyped
<1>4. PICK cs \in Seq(ConnectionOf) : cs = connections'
  BY <1>1, <1>3
<1>5. /\ Len(cs) = Len(connections) /\ cs[c] = row
      /\ \A d \in 1..Len(connections) : d # c => cs[d] = connections[d]
  BY <1>1, <1>3, <1>4
<1>6. row.state = "closed" /\ row.request = connections[c].request
  BY <1>1, <1>2 DEF ConnectionOf
<1>7. connections[c].state = "open"
  BY DEF X!Closes, X!IsOpen
<1>8. \A d \in 1..Len(connections) : /\ cs[d].request = connections[d].request
                                     /\ cs[d].state = "deleted" <=> connections[d].state = "deleted"
  BY <1>5, <1>6, <1>7
<1>9. X!ActiveOf(callRequest, cs) = X!ActiveOf(callRequest, connections)
  BY <1>1, <1>5, <1>8 DEF X!ActiveOf
<1>10. X!ShownOf(callRequest, cs, connectionPins) = X!Shown
  BY <1>9, ShowsTheSameCall DEF X!Shown
<1>11. UNCHANGED <<callRequest, connectionPins>>
  BY DEF X!Closes
<1>12. X!Shown' = X!Shown
  BY <1>4, <1>10, <1>11 DEF X!Shown
<1> QED
  BY <1>4, <1>5, <1>12

LEMMA ClosesLists ==
    ASSUME SomeCalls, ConnectionsInv, NEW c \in 1..Len(connections), X!Closes(c)
    PROVE  ConnectionsInv'
<1>1. UNCHANGED <<callRequest, connectionPins, counts, eventRows, eventLoads, calling, mixed>>
  BY DEF X!Closes
<1>2. /\ connections' \in Seq(ConnectionOf) /\ Len(connections') = Len(connections)
      /\ X!Shown' = X!Shown
  BY ClosesSame DEF ConnectionsInv
<1>3. ConnectionsTyped' /\ NoPinOfLater'
  BY <1>1, <1>2 DEF ConnectionsInv, ConnectionsTyped, NoPinOfLater
<1>4. ListsEvents(X!Shown)'
  BY <1>1, <1>2 DEF ConnectionsInv, ListsEvents
<1> QED
  BY <1>3, <1>4 DEF ConnectionsInv

\* A pin is kept for the latest connection, which there is.
LEMMA PinLists ==
    ASSUME SomeCalls, ConnectionsInv, NEW c \in 1..Len(connections), X!Pin(c)
    PROVE  ConnectionsInv'
<1>1. /\ UNCHANGED <<callRequest, connections, counts, calling>>
      /\ c \in X!ActiveOf(callRequest, connections)
      /\ X!Follow(X!ShownOf(callRequest, connections, connectionPins'))
  BY DEF X!Pin
<1>2. PICK latest : latest = X!LatestOf(callRequest, connections)
  OBVIOUS
<1>3. latest \in 1..Len(connections)
  <2>1. /\ latest \in X!ActiveOf(callRequest, connections) \cup {0} /\ c <= latest
        /\ X!ActiveOf(callRequest, connections) \subseteq 1..Len(connections)
    BY <1>1, <1>2, LatestConnection DEF ConnectionsInv, ConnectionsTyped
  <2>2. latest # 0
    BY <2>1, ConnectionsAre DEF ConnectionsInv
  <2> QED
    BY <2>1, <2>2
<1>4. PICK key \in X!Keys : key = <<callRequest, latest>>
  BY <1>3, ConnectionsAre DEF ConnectionsInv, ConnectionsTyped, X!Keys
<1>5. connectionPins' = [connectionPins EXCEPT ![key] = c]
  BY <1>2, <1>4 DEF X!Pin, X!KeyOf
<1>6. c \in X!Ids /\ key[2] = latest /\ latest <= Len(connections)
  BY <1>3, <1>4, ConnectionsAre DEF ConnectionsInv
<1>7. connectionPins' \in [X!Keys -> X!Ids \cup {0}]
  BY <1>5, <1>6 DEF ConnectionsInv, ConnectionsTyped
<1>8. NoPinOfLater'
  <2>1. ASSUME NEW k \in X!Keys, k[2] > Len(connections) PROVE connectionPins'[k] = 0
    <3>1. k # key
      BY <1>3, <1>6, <2>1, ConnectionsAre DEF ConnectionsInv
    <3> QED
      BY <1>5, <2>1, <3>1 DEF ConnectionsInv, ConnectionsTyped, NoPinOfLater
  <2> QED
    BY <1>1, <2>1 DEF NoPinOfLater
<1>9. PICK to : to = X!ShownOf(callRequest, connections, connectionPins')
  OBVIOUS
<1>10. to \in X!Ids \cup {0} /\ X!Shown' = to /\ X!Follow(to)
  <2>1. to \in 0..Len(connections)
    BY <1>9, ShownConnection DEF ConnectionsInv, ConnectionsTyped
  <2>2. X!Shown' = to /\ X!Follow(to)
    BY <1>1, <1>9 DEF X!Shown
  <2> QED
    BY <2>1, <2>2, ConnectionsAre DEF ConnectionsInv
<1>11. eventLoads' \in Seq(LoadOf) /\ ListsEvents(to)'
  BY <1>1, <1>10, FollowLists DEF ConnectionsInv, ConnectionsTyped
<1>12. ListsEvents(X!Shown)'
  BY <1>10, <1>11 DEF ListsEvents
<1>13. ConnectionsTyped'
  BY <1>1, <1>7, <1>11 DEF ConnectionsInv, ConnectionsTyped
<1> QED
  BY <1>8, <1>12, <1>13 DEF ConnectionsInv

\* Those that are deleted have the one that is shown among them.
LEMMA DeletedAre ==
    ASSUME SomeCalls, ConnectionsInv, NEW cs \in SUBSET DOMAIN connections, X!Delete(cs)
    PROVE  /\ X!Shown \in cs
           /\ connections' \in Seq(ConnectionOf) /\ Len(connections') = Len(connections)
           /\ \A c \in cs : connections'[c].state = "deleted"
<1>1. /\ DOMAIN connections = 1..Len(connections) /\ Len(connections) \in Nat
      /\ connections \in Seq(ConnectionOf)
  BY ConnectionsAre DEF ConnectionsInv, ConnectionsTyped
<1>2. X!Shown \in cs
  <2>1. /\ X!Shown \in X!ActiveOf(callRequest, connections) \cup {0}
        /\ X!Shown = 0 => X!ActiveOf(callRequest, connections) = {}
    BY <1>1, ShownConnection DEF X!Shown
  <2>2. cs \in {{X!Shown}, X!ActiveOf(callRequest, connections)} /\ cs # {} /\ cs # {0}
    BY DEF X!Delete, X!None
  <2> QED
    BY <2>1, <2>2
<1>3. connections' = [c \in 1..Len(connections) |->
                         IF c \in cs THEN [connections[c] EXCEPT !.state = "deleted"]
                         ELSE connections[c]]
  BY <1>1 DEF X!Delete
<1>4. \A c \in 1..Len(connections) :
         /\ connections'[c] \in ConnectionOf
         /\ c \in cs => connections'[c].state = "deleted"
  <2>1. SUFFICES ASSUME NEW c \in 1..Len(connections)
                 PROVE  /\ connections'[c] \in ConnectionOf
                        /\ c \in cs => connections'[c].state = "deleted"
    OBVIOUS
  <2>2. connections[c] \in ConnectionOf
    BY <1>1
  <2>3. /\ [connections[c] EXCEPT !.state = "deleted"] \in ConnectionOf
        /\ [connections[c] EXCEPT !.state = "deleted"].state = "deleted"
    BY <2>2 DEF ConnectionOf
  <2>4. connections'[c] = IF c \in cs THEN [connections[c] EXCEPT !.state = "deleted"]
                          ELSE connections[c]
    BY <1>3
  <2> QED
    BY <2>2, <2>3, <2>4
<1>5. connections' \in [1..Len(connections) -> ConnectionOf]
  BY <1>3, <1>4
<1>6. connections' \in Seq(ConnectionOf) /\ DOMAIN connections' = 1..Len(connections)
  BY <1>1, <1>5
<1>7. Len(connections') = Len(connections)
  BY <1>1, <1>6
<1> QED
  BY <1>1, <1>2, <1>4, <1>6, <1>7

LEMMA DeleteLists ==
    ASSUME SomeCalls, ConnectionsInv, NEW cs \in SUBSET DOMAIN connections, X!Delete(cs)
    PROVE  ConnectionsInv'
<1>1. /\ UNCHANGED <<callRequest, connectionPins, calling>>
      /\ counts' = [c \in X!Ids |-> IF c \in cs THEN 0 ELSE counts[c]]
      /\ X!Follow(X!ShownOf(callRequest, connections', connectionPins))
  BY DEF X!Delete
<1>2. /\ connections' \in Seq(ConnectionOf) /\ Len(connections') = Len(connections)
      /\ \A c \in cs : connections'[c].state = "deleted"
  BY DeletedAre
<1>3. PICK rows \in Seq(ConnectionOf) : rows = connections'
  BY <1>2
<1>4. PICK to : to = X!ShownOf(callRequest, rows, connectionPins)
  OBVIOUS
<1>5. to \in X!Ids \cup {0} /\ to \notin cs
  <2>1. to \in 0..Len(connections) /\ to \in X!ActiveOf(callRequest, rows) \cup {0}
    BY <1>2, <1>3, <1>4, ShownConnection
  <2>2. 0 \notin cs
    BY ConnectionsAre DEF ConnectionsInv
  <2>3. \A c \in X!ActiveOf(callRequest, rows) : rows[c].state # "deleted"
    BY DEF X!ActiveOf
  <2> QED
    BY <1>2, <1>3, <2>1, <2>2, <2>3, ConnectionsAre DEF ConnectionsInv
<1>6. X!Shown' = to /\ X!Follow(to)
  BY <1>1, <1>3, <1>4 DEF X!Shown
<1>7. counts' \in [X!Ids -> Nat] /\ (to # 0 => counts'[to] = counts[to])
  BY <1>1, <1>5 DEF ConnectionsInv, ConnectionsTyped
<1>8. eventLoads' \in Seq(LoadOf) /\ ListsEvents(to)'
  BY <1>5, <1>6, <1>7, FollowLists DEF ConnectionsInv
<1>9. ListsEvents(X!Shown)'
  BY <1>6, <1>8 DEF ListsEvents
<1>10. ConnectionsTyped' /\ NoPinOfLater'
  BY <1>1, <1>2, <1>7, <1>8 DEF ConnectionsInv, ConnectionsTyped, NoPinOfLater
<1> QED
  BY <1>9, <1>10 DEF ConnectionsInv

\* An answer has what there is, if nothing came since it was asked for.
LEMMA AnswerLists ==
    ASSUME SomeCalls, ConnectionsInv, NEW i \in DOMAIN eventLoads, X!Answer(i)
    PROVE  ConnectionsInv'
<1>1. /\ UNCHANGED <<callRequest, connections, connectionPins, counts, calling, mixed>>
      /\ eventLoads' = SubSeq(eventLoads, 1, i - 1) \o SubSeq(eventLoads, i + 1, Len(eventLoads))
  BY DEF X!Answer, X!RemoveAt
<1>2. X!Shown' = X!Shown
  BY <1>1 DEF X!Shown
<1>3. eventLoads \in Seq(LoadOf) /\ i \in 1..Len(eventLoads)
  BY DEF ConnectionsInv, ConnectionsTyped
<1>4. /\ eventLoads' \in Seq(LoadOf) /\ Len(eventLoads') = Len(eventLoads) - 1
      /\ \A j \in 1..Len(eventLoads') :
            /\ j < i => eventLoads'[j] = eventLoads[j]
            /\ j >= i => eventLoads'[j] = eventLoads[j + 1]
  BY <1>1, <1>3, WithoutItem
<1>5. ASSUME ~mixed, NEW s, s = X!Shown
      PROVE  /\ \A j \in 1..Len(eventLoads') :
                   eventLoads'[j].of = s /\ eventLoads'[j].from = counts[eventLoads'[j].of]
             /\ eventRows' = X!EventsOf(s, counts)
  <2>1. \A j \in 1..Len(eventLoads) :
           eventLoads[j].of = s /\ eventLoads[j].from = counts[eventLoads[j].of]
    BY <1>5 DEF ConnectionsInv, ListsEvents
  <2>2. \A j \in 1..Len(eventLoads') : \E k \in 1..Len(eventLoads) : eventLoads'[j] = eventLoads[k]
    BY <1>3, <1>4
  <2>3. s \in X!Ids /\ counts \in [X!Ids -> Nat] /\ eventLoads[i].of = s /\ eventLoads[i].from = counts[s]
    <3>1. eventLoads[i] \in LoadOf
      BY <1>3
    <3> QED
      BY <1>3, <2>1, <3>1 DEF LoadOf, ConnectionsInv, ConnectionsTyped
  <2>4. PICK n \in {counts[s]} \cup (counts[s]..counts[s]) :
           eventRows' = X!EventsOf(s, [counts EXCEPT ![s] = n])
    BY <2>3 DEF X!Answer, X!Held
  <2>5. n = counts[s] /\ [counts EXCEPT ![s] = n] = counts
    BY <2>3
  <2> QED
    BY <2>1, <2>2, <2>4, <2>5
<1>6. ListsEvents(X!Shown)'
  BY <1>1, <1>2, <1>5 DEF ListsEvents
<1>7. ConnectionsTyped' /\ NoPinOfLater'
  BY <1>1, <1>4 DEF ConnectionsInv, ConnectionsTyped, NoPinOfLater
<1> QED
  BY <1>6, <1>7 DEF ConnectionsInv

LEMMA ConnectionsRest ==
    ASSUME ConnectionsInv, eventRows' = eventRows, Len(connections') + calling' <= MaxConnections,
           calling' \in Nat,
           UNCHANGED <<callRequest, connections, connectionPins, counts, eventLoads, mixed>>
    PROVE  ConnectionsInv'
<1>1. X!Shown' = X!Shown
  BY DEF X!Shown
<1>2. ListsEvents(X!Shown)'
  BY <1>1 DEF ConnectionsInv, ListsEvents
<1> QED
  BY <1>2 DEF ConnectionsInv, ConnectionsTyped, NoPinOfLater

LEMMA ConnectionsNext == ASSUME SomeCalls, ConnectionsInv, X!Next PROVE ConnectionsInv'
<1>0. DOMAIN connections = 1..Len(connections) /\ Len(connections) \in Nat /\ calling \in Nat
      /\ Len(connections) + calling <= MaxConnections /\ MaxConnections \in Nat
  BY ConnectionsAre DEF ConnectionsInv, ConnectionsTyped, SomeCalls
<1>1. ASSUME NEW r \in PaneRequests, X!Go(r) PROVE ConnectionsInv'
  BY <1>1, GoLists
<1>2. CASE X!Connect
  <2>1. /\ UNCHANGED <<callRequest, connections, connectionPins, counts, eventRows, eventLoads, mixed>>
        /\ calling' = calling + 1 /\ Len(connections) + calling < MaxConnections
    BY <1>2 DEF X!Connect
  <2>2. Len(connections') + calling' <= MaxConnections /\ calling' \in Nat
    BY <1>0, <2>1
  <2> QED
    BY <2>1, <2>2, ConnectionsRest
<1>3. CASE X!Failed
  <2>1. /\ UNCHANGED <<callRequest, connections, connectionPins, counts, eventRows, eventLoads, mixed>>
        /\ calling' = calling - 1 /\ calling > 0
    BY <1>3 DEF X!Failed
  <2>2. Len(connections') + calling' <= MaxConnections /\ calling' \in Nat
    BY <1>0, <2>1
  <2> QED
    BY <2>1, <2>2, ConnectionsRest
<1>4. ASSUME NEW c \in 1..Len(connections), X!Arrives(c) \/ X!Closes(c) \/ X!Pin(c)
      PROVE  ConnectionsInv'
  BY <1>4, ArrivesLists, ClosesLists, PinLists
<1>5. ASSUME NEW cs \in SUBSET DOMAIN connections, X!Delete(cs) PROVE ConnectionsInv'
  BY <1>5, DeleteLists
<1>6. ASSUME NEW i \in DOMAIN eventLoads, X!Answer(i) PROVE ConnectionsInv'
  BY <1>6, AnswerLists
<1>7. ASSUME NEW e, X!Click(e) PROVE ConnectionsInv'
  <2>1. UNCHANGED <<callRequest, connections, connectionPins, counts, eventRows, eventLoads, calling, mixed>>
    BY <1>7 DEF X!Click
  <2>2. Len(connections') + calling' <= MaxConnections /\ calling' \in Nat
    BY <1>0, <2>1
  <2> QED
    BY <2>1, <2>2, ConnectionsRest
<1> QED
  BY <1>0, <1>1, <1>2, <1>3, <1>4, <1>5, <1>6, <1>7, MadeLists DEF X!Next

LEMMA ConnectionsInit == ASSUME SomeCalls, X!Init PROVE ConnectionsInv
<1>1. /\ connections = <<>> /\ calling = 0 /\ eventLoads = <<>> /\ eventRows = {}
      /\ counts = [c \in X!Ids |-> 0] /\ connectionPins = [k \in X!Keys |-> 0]
  BY DEF X!Init, X!None
<1>2. callRequest \in PaneRequests
  BY DEF X!Init, SomeCalls
<1>3. ConnectionsTyped
  <2>1. connections \in Seq(ConnectionOf) /\ Len(connections) = 0 /\ eventLoads \in Seq(LoadOf)
    BY <1>1
  <2> QED
    BY <1>1, <1>2, <2>1 DEF ConnectionsTyped, SomeCalls
<1>4. NoPinOfLater
  BY <1>1 DEF NoPinOfLater
<1>5. X!Shown = 0
  BY <1>1, <1>3, ConnectionsAre
<1>6. ListsEvents(X!Shown)
  BY <1>1, <1>5 DEF ListsEvents, X!EventsOf, X!None
<1> QED
  BY <1>3, <1>4, <1>6 DEF ConnectionsInv

LEMMA ConnectionsSafe == ASSUME SomeCalls PROVE X!Spec => []ConnectionsInv
<1>1. X!Init => ConnectionsInv
  BY ConnectionsInit
<1>2. ASSUME ConnectionsInv, UNCHANGED X!vars PROVE ConnectionsInv'
  <2>1. UNCHANGED <<callRequest, connections, connectionPins, counts, eventRows, eventLoads, calling, mixed>>
    BY <1>2 DEF X!vars
  <2>2. Len(connections') + calling' <= MaxConnections /\ calling' \in Nat
    BY <1>2, <2>1 DEF ConnectionsInv, ConnectionsTyped
  <2> QED
    BY <1>2, <2>1, <2>2, ConnectionsRest
<1>3. ConnectionsInv /\ [X!Next]_X!vars => ConnectionsInv'
  BY <1>2, ConnectionsNext
<1> QED
  BY <1>1, <1>3, PTL DEF X!Spec

\* When the reads are done, the list has the events of the connection that is shown, unless
\* one came while they were under way or from another (useGrpcEvents and
\* useWebsocketEvents, in usePinnedGrpcConnection.ts and usePinnedWebsocketConnection.ts).
THEOREM ListIsOfShown == ASSUME SomeCalls PROVE X!Spec => []X!ListsTheEvents
<1>1. ConnectionsInv => X!ListsTheEvents
  BY DEF ConnectionsInv, ListsEvents, X!ListsTheEvents
<1> QED
  BY <1>1, ConnectionsSafe, PTL

LEMMA MadeStays == ASSUME SomeCalls, ConnectionsInv, X!Made PROVE X!StaysWithIts
<1>1. /\ Len(connections) \in Nat /\ connections \in Seq(ConnectionOf)
      /\ callRequest \in PaneRequests /\ UNCHANGED <<callRequest, connectionPins>>
  BY ConnectionsAre DEF ConnectionsInv, ConnectionsTyped, X!Made
<1>2. PICK r \in PaneRequests : connections' = Append(connections, [request |-> r, state |-> "open"])
  BY DEF X!Made
<1>3. PICK row \in ConnectionOf : row = [request |-> r, state |-> "open"]
  BY DEF ConnectionOf
<1>4. PICK n \in Nat : n = Len(connections) + 1
  BY <1>1
<1>5. PICK cs \in Seq(ConnectionOf) : cs = connections' /\ Len(cs) = n /\ cs[n] = row
  BY <1>1, <1>2, <1>3, <1>4, Appended
<1>6. n \in X!Ids
  <2>1. calling > 0 /\ calling \in Nat /\ Len(connections) + calling <= MaxConnections
    BY DEF X!Made, ConnectionsInv, ConnectionsTyped
  <2> QED
    BY <1>1, <1>4, <2>1 DEF SomeCalls, X!Ids
<1>7. ASSUME r = callRequest PROVE X!Shown' = n
  <2>1. n \in X!ActiveOf(callRequest, cs)
    BY <1>3, <1>4, <1>1, <1>5, <1>7 DEF X!ActiveOf
  <2>2. X!LatestOf(callRequest, cs) = n
    <3>1. /\ X!LatestOf(callRequest, cs) \in X!ActiveOf(callRequest, cs) \cup {0}
          /\ X!ActiveOf(callRequest, cs) \subseteq 1..n
          /\ n <= X!LatestOf(callRequest, cs)
      BY <1>5, <2>1, LatestConnection
    <3> QED
      BY <1>4, <3>1
  <2>3. PICK key \in X!Keys : key = <<callRequest, n>>
    BY <1>1, <1>6 DEF X!Keys
  <2>4. connectionPins[key] = 0
    <3>1. key[2] > Len(connections)
      BY <1>1, <1>4, <2>3
    <3> QED
      BY <3>1 DEF ConnectionsInv, NoPinOfLater
  <2>5. 0 \notin X!ActiveOf(callRequest, cs)
    BY <1>5, LatestConnection
  <2>6. X!KeyOf(callRequest, cs) = key
    BY <2>2, <2>3 DEF X!KeyOf
  <2>7. X!ShownOf(callRequest, cs, connectionPins) = n
    BY <2>2, <2>4, <2>5, <2>6 DEF X!ShownOf
  <2> QED
    BY <1>1, <1>5, <2>7 DEF X!Shown
<1>8. connections'[n].request = r /\ Len(connections') = n /\ n > Len(connections)
  BY <1>1, <1>3, <1>4, <1>5
<1> QED
  BY <1>7, <1>8 DEF X!StaysWithIts

LEMMA SameStays ==
    ASSUME SomeCalls, ConnectionsInv, Len(connections') = Len(connections),
           X!Shown' = X!Shown \/ connectionPins' # connectionPins
           \/ connections'[X!Shown].state = "deleted"
    PROVE  X!StaysWithIts
<1>1. Len(connections) \in Nat
  BY ConnectionsAre DEF ConnectionsInv
<1> QED
  BY <1>1 DEF X!StaysWithIts

LEMMA ConnectionsStay == ASSUME SomeCalls, ConnectionsInv, X!Next PROVE X!StaysWithIts
<1>0. DOMAIN connections = 1..Len(connections)
  BY ConnectionsAre DEF ConnectionsInv
<1>1. ASSUME NEW r, X!Go(r) PROVE X!StaysWithIts
  BY <1>1 DEF X!Go, X!StaysWithIts
<1>2. ASSUME UNCHANGED <<callRequest, connections, connectionPins>> PROVE X!StaysWithIts
  BY <1>2, SameStays DEF X!Shown
<1>3. X!Connect \/ X!Failed => X!StaysWithIts
  BY <1>2 DEF X!Connect, X!Failed
<1>4. ASSUME NEW c, X!Arrives(c) \/ X!Answer(c) \/ X!Click(c) PROVE X!StaysWithIts
  BY <1>2, <1>4 DEF X!Arrives, X!Answer, X!Click
<1>5. ASSUME NEW c \in 1..Len(connections), X!Closes(c) PROVE X!StaysWithIts
  BY <1>5, ClosesSame, SameStays DEF ConnectionsInv
<1>6. ASSUME NEW c, X!Pin(c) PROVE X!StaysWithIts
  <2>1. UNCHANGED <<callRequest, connections>>
    BY <1>6 DEF X!Pin
  <2>2. connectionPins' = connectionPins => X!Shown' = X!Shown
    BY <2>1 DEF X!Shown
  <2> QED
    BY <2>1, <2>2, SameStays
<1>7. ASSUME NEW cs \in SUBSET DOMAIN connections, X!Delete(cs) PROVE X!StaysWithIts
  BY <1>7, DeletedAre, SameStays
<1> QED
  BY <1>0, <1>1, <1>3, <1>4, <1>5, <1>6, <1>7, MadeStays DEF X!Next

\* A new connection is shown at once, and without going to another request the panes go to
\* another only when one is pinned, made or deleted (usePinnedGrpcConnection.ts,
\* usePinnedWebsocketConnection.ts).
THEOREM PanesStayWithTheirs == ASSUME SomeCalls PROVE X!Spec => [][X!StaysWithIts]_X!vars
<1>1. ConnectionsInv /\ [X!Next]_X!vars => [X!StaysWithIts]_X!vars
  BY ConnectionsStay
<1> QED
  BY <1>1, ConnectionsSafe, PTL DEF X!Spec

\* The answer of a unary call that is shown is open, unless it was closed by hand.
AnswerIsOpen ==
    kind = "unary" /\ ~paneHidden /\ ~closedByHand /\ eventLoads = <<>> /\ X!Shown # 0
    /\ X!Answers(eventRows) # {} => openEvent \in eventRows

DetailTyped ==
    /\ kind \in X!Kinds /\ paneHidden \in BOOLEAN /\ closedByHand \in BOOLEAN
    /\ IsFiniteSet(eventRows) /\ <<>> \notin eventRows

DetailInv == DetailTyped /\ AnswerIsOpen

LEMMA SameCountOfEvents == \A S : X!Cardinality(S) = Cardinality(S)
  BY DEF X!Cardinality, Cardinality

LEMMA OpensAnAnswer ==
    ASSUME kind = "unary", NEW open, NEW es, X!Answers(es) # {}, NEW anew,
           anew \/ (~paneHidden /\ X!Cardinality(es) # X!Cardinality(eventRows))
    PROVE  X!Opened(open, es, anew) \in es
<1>1. es # {}
  BY DEF X!Answers
<1>2. (CHOOSE e \in X!Answers(es) : TRUE) \in X!Answers(es)
  OBVIOUS
<1>3. (CHOOSE e \in X!Answers(es) : TRUE) \in es
  BY <1>2 DEF X!Answers
<1>4. CASE open \in es
  BY <1>4 DEF X!Opened
<1>5. CASE open \notin es
  <2>1. X!Opened(open, es, anew) = CHOOSE e \in X!Answers(es) : TRUE
    BY <1>1, <1>5 DEF X!Opened
  <2> QED
    BY <1>3, <2>1
<1> QED
  BY <1>4, <1>5

\* The events of a connection are finitely many, and each is an event.
LEMMA EventsAreFinite ==
    ASSUME NEW c, NEW ns, c # 0 => ns[c] \in Nat
    PROVE  IsFiniteSet(X!EventsOf(c, ns)) /\ <<>> \notin X!EventsOf(c, ns)
<1>1. CASE c = 0
  BY <1>1, FS_EmptySet DEF X!EventsOf, X!None
<1>2. CASE c # 0
  <2>1. PICK S : S = 1..ns[c]
    OBVIOUS
  <2>2. IsFiniteSet(S)
    BY <1>2, <2>1, FS_Interval
  <2>3. IsFiniteSet({c}) /\ X!EventsOf(c, ns) = {c} \X S
    BY <1>2, <2>1, FS_Singleton DEF X!EventsOf, X!None
  <2>4. IsFiniteSet({c} \X S)
    BY <2>2, <2>3, FS_Product
  <2>5. <<>> \notin {c} \X S
    OBVIOUS
  <2> QED
    BY <2>3, <2>4, <2>5
<1> QED
  BY <1>1, <1>2

\* The panes go to another connection: its answer is opened when it is read.
LEMMA FollowDetail ==
    ASSUME ConnectionsInv, DetailInv, NEW to \in X!Ids \cup {0}, X!Follow(to), X!Shown' = to,
           kind' = kind
    PROVE  DetailInv'
<1>1. CASE to = X!Shown
  <2>1. UNCHANGED <<eventRows, eventLoads, openEvent, paneHidden, closedByHand>>
    BY <1>1 DEF X!Follow
  <2>2. DetailTyped'
    BY <2>1 DEF DetailInv, DetailTyped
  <2>3. AnswerIsOpen'
    BY <1>1, <2>1 DEF DetailInv, AnswerIsOpen, X!Answers
  <2> QED
    BY <2>2, <2>3 DEF DetailInv
<1>2. CASE to # X!Shown
  <2>1. /\ eventLoads' = IF to = 0 THEN eventLoads ELSE eventLoads \o X!Reads(to)
        /\ eventRows' = IF to = 0 THEN {} ELSE eventRows
        /\ paneHidden' = FALSE /\ closedByHand' = FALSE
    BY <1>2 DEF X!Follow, X!None
  <2>2. DetailTyped'
    BY <2>1, FS_EmptySet DEF DetailInv, DetailTyped
  <2>3. ASSUME to # 0 PROVE eventLoads' # <<>>
    <3>1. PICK reads : reads = X!Reads(to)
      OBVIOUS
    <3>2. PICK n \in {1, 2} : n = X!Readers
      BY DEF X!Readers
    <3>3. PICK read \in LoadOf : read = [of |-> to, from |-> counts[to]]
      BY <2>3 DEF LoadOf, ConnectionsInv, ConnectionsTyped
    <3>4. reads = [i \in 1..n |-> read]
      BY <3>1, <3>2, <3>3 DEF X!Reads
    <3>5. reads \in Seq(LoadOf) /\ Len(reads) = n /\ eventLoads \in Seq(LoadOf)
      BY <3>2, <3>4 DEF ConnectionsInv, ConnectionsTyped
    <3>6. Len(eventLoads \o reads) # 0
      BY <3>2, <3>5
    <3> QED
      BY <2>1, <2>3, <3>1, <3>6
  <2>4. AnswerIsOpen'
    BY <2>3 DEF AnswerIsOpen
  <2> QED
    BY <2>2, <2>4 DEF DetailInv
<1> QED
  BY <1>1, <1>2

LEMMA ArrivesDetail ==
    ASSUME SomeCalls, ConnectionsInv, DetailInv, NEW c \in 1..Len(connections), X!Arrives(c)
    PROVE  DetailInv'
<1>1. PICK e : e = <<c, counts'[c]>>
  OBVIOUS
<1>2. /\ eventRows' = eventRows \cup {e} /\ e # <<>>
      /\ openEvent' = X!Opened(openEvent, eventRows', FALSE)
      /\ closedByHand' = (closedByHand /\ openEvent' = openEvent)
      /\ UNCHANGED <<kind, callRequest, connections, connectionPins, eventLoads, paneHidden>>
  BY <1>1 DEF X!Arrives
<1>3. DetailTyped'
  <2>1. IsFiniteSet(eventRows')
    BY <1>2, FS_AddElement DEF DetailInv, DetailTyped
  <2>2. <<>> \notin eventRows' /\ closedByHand' \in BOOLEAN
    BY <1>2 DEF DetailInv, DetailTyped
  <2> QED
    BY <1>2, <2>1, <2>2 DEF DetailInv, DetailTyped
<1>4. X!Shown' = X!Shown
  BY <1>2 DEF X!Shown
<1>5. ASSUME kind = "unary", ~paneHidden, ~closedByHand', eventLoads = <<>>, X!Shown # 0,
             X!Answers(eventRows') # {}
      PROVE  openEvent' \in eventRows'
  <2>1. CASE X!Cardinality(eventRows') # X!Cardinality(eventRows)
    BY <1>2, <1>5, <2>1, OpensAnAnswer
  <2>2. CASE X!Cardinality(eventRows') = X!Cardinality(eventRows)
    <3>1. e \in eventRows
      <4>1. IsFiniteSet(eventRows) /\ Cardinality(eventRows') = Cardinality(eventRows)
        BY <2>2, SameCountOfEvents DEF DetailInv, DetailTyped
      <4>2. Cardinality(eventRows) \in Nat
        BY <4>1, FS_CardinalityType
      <4>3. e \notin eventRows => Cardinality(eventRows \cup {e}) = Cardinality(eventRows) + 1
        BY <4>1, FS_AddElement
      <4> QED
        BY <1>2, <4>1, <4>2, <4>3
    <3>2. eventRows' = eventRows
      BY <1>2, <3>1
    <3>3. openEvent' = openEvent
      BY <1>2, <2>2 DEF X!Opened
    <3>4. ~closedByHand
      BY <1>2, <1>5, <3>3, Zenon
    <3> QED
      BY <1>5, <3>2, <3>3, <3>4 DEF DetailInv, AnswerIsOpen
  <2> QED
    BY <2>1, <2>2
<1>6. AnswerIsOpen'
  BY <1>2, <1>4, <1>5 DEF AnswerIsOpen, X!Answers
<1> QED
  BY <1>3, <1>6 DEF DetailInv

LEMMA AnswerDetail ==
    ASSUME SomeCalls, ConnectionsInv, DetailInv, NEW i \in DOMAIN eventLoads, X!Answer(i)
    PROVE  DetailInv'
<1>1. /\ openEvent' = X!Opened(openEvent, eventRows', FALSE)
      /\ closedByHand' = (X!Cardinality(eventRows') = X!Cardinality(eventRows))
      /\ UNCHANGED <<kind, callRequest, connections, connectionPins, paneHidden>>
  BY DEF X!Answer
<1>2. PICK c \in X!Ids : c = eventLoads[i].of /\ counts[c] \in Nat /\ eventLoads[i].from \in Nat
  <2>1. eventLoads[i] \in LoadOf
    BY DEF ConnectionsInv, ConnectionsTyped
  <2> QED
    BY <2>1 DEF LoadOf, ConnectionsInv, ConnectionsTyped
<1>3. PICK n \in Nat : eventRows' = X!EventsOf(c, [counts EXCEPT ![c] = n])
  BY <1>2 DEF X!Answer, X!Held
<1>4. DetailTyped'
  <2>1. PICK ns : ns = [counts EXCEPT ![c] = n]
    OBVIOUS
  <2>2. ns[c] \in Nat
    BY <1>2, <2>1 DEF ConnectionsInv, ConnectionsTyped
  <2>3. IsFiniteSet(eventRows') /\ <<>> \notin eventRows'
    BY <1>3, <2>1, <2>2, EventsAreFinite
  <2> QED
    BY <1>1, <2>3 DEF DetailInv, DetailTyped
<1>5. ASSUME kind = "unary", ~paneHidden, ~closedByHand', X!Answers(eventRows') # {}
      PROVE  openEvent' \in eventRows'
  <2>1. X!Cardinality(eventRows') # X!Cardinality(eventRows)
    BY <1>1, <1>5, Zenon
  <2> QED
    BY <1>1, <1>5, <2>1, OpensAnAnswer
<1>6. AnswerIsOpen'
  BY <1>1, <1>5 DEF AnswerIsOpen, X!Answers
<1> QED
  BY <1>4, <1>6 DEF DetailInv

LEMMA DetailNext ==
    ASSUME SomeCalls, ConnectionsInv, DetailInv, X!Next PROVE DetailInv'
<1>0. DOMAIN connections = 1..Len(connections) /\ X!Shown' \in X!Ids \cup {0}
  <2>1. ConnectionsInv'
    BY ConnectionsNext
  <2>2. X!Shown' \in 0..Len(connections') /\ Len(connections') <= MaxConnections
    <3>1. PICK cs \in Seq(ConnectionOf) : cs = connections' /\ Len(cs) <= MaxConnections
      BY <2>1 DEF ConnectionsInv, ConnectionsTyped, SomeCalls
    <3>2. X!Shown' = X!ShownOf(callRequest', cs, connectionPins')
      BY <3>1 DEF X!Shown
    <3> QED
      BY <3>1, <3>2, ShownConnection
  <2>3. Len(connections') \in Nat
    BY <2>1 DEF ConnectionsInv, ConnectionsTyped
  <2> QED
    BY <2>2, <2>3, ConnectionsAre DEF ConnectionsInv, SomeCalls, X!Ids
<1>1. ASSUME X!Follow(X!Shown'), kind' = kind PROVE DetailInv'
  BY <1>0, <1>1, FollowDetail
<1>2. ASSUME NEW r \in PaneRequests, X!Go(r) PROVE DetailInv'
  <2>1. X!Follow(X!Shown') /\ kind' = kind
    BY <1>2 DEF X!Go, X!Shown
  <2> QED
    BY <1>1, <2>1
<1>3. CASE X!Made
  <2>1. X!Follow(X!Shown') /\ kind' = kind
    BY <1>3 DEF X!Made, X!Shown
  <2> QED
    BY <1>1, <2>1
<1>4. ASSUME NEW c, X!Pin(c) PROVE DetailInv'
  <2>1. X!Follow(X!Shown') /\ kind' = kind
    BY <1>4 DEF X!Pin, X!Shown
  <2> QED
    BY <1>1, <2>1
<1>5. ASSUME NEW cs, X!Delete(cs) PROVE DetailInv'
  <2>1. X!Follow(X!Shown') /\ kind' = kind
    BY <1>5 DEF X!Delete, X!Shown
  <2> QED
    BY <1>1, <2>1
<1>6. CASE X!Connect
  <2>1. /\ paneHidden' = (kind # "websocket") /\ UNCHANGED <<kind, eventRows, closedByHand>>
    BY <1>6 DEF X!Connect
  <2>2. DetailTyped'
    BY <2>1 DEF DetailInv, DetailTyped
  <2>3. AnswerIsOpen'
    BY <2>1 DEF AnswerIsOpen
  <2> QED
    BY <2>2, <2>3 DEF DetailInv
<1>7. CASE X!Failed
  <2>1. /\ paneHidden' = FALSE
        /\ openEvent' = IF paneHidden THEN X!Opened(openEvent, eventRows, TRUE) ELSE openEvent
        /\ UNCHANGED <<kind, callRequest, connections, connectionPins, eventRows, eventLoads,
                       closedByHand>>
    BY <1>7 DEF X!Failed
  <2>2. DetailTyped'
    BY <2>1 DEF DetailInv, DetailTyped
  <2>3. X!Shown' = X!Shown
    BY <2>1 DEF X!Shown
  <2>4. CASE paneHidden
    <3>1. kind = "unary" /\ X!Answers(eventRows) # {} => openEvent' \in eventRows
      BY <2>1, <2>4, OpensAnAnswer
    <3> QED
      BY <2>1, <2>2, <3>1 DEF DetailInv, AnswerIsOpen, X!Answers
  <2>5. CASE ~paneHidden
    BY <2>1, <2>2, <2>3, <2>5 DEF DetailInv, AnswerIsOpen, X!Answers
  <2> QED
    BY <2>4, <2>5
<1>8. ASSUME NEW c \in 1..Len(connections), X!Arrives(c) PROVE DetailInv'
  BY <1>8, ArrivesDetail
<1>9. ASSUME NEW c \in 1..Len(connections), X!Closes(c) PROVE DetailInv'
  <2>1. UNCHANGED <<kind, eventRows, eventLoads, openEvent, paneHidden, closedByHand>>
    BY <1>9 DEF X!Closes
  <2>2. X!Shown' = X!Shown
    BY <1>9, ClosesSame DEF ConnectionsInv
  <2> QED
    BY <2>1, <2>2 DEF DetailInv, DetailTyped, AnswerIsOpen, X!Answers
<1>10. ASSUME NEW i \in DOMAIN eventLoads, X!Answer(i) PROVE DetailInv'
  BY <1>10, AnswerDetail
<1>11. ASSUME NEW e, X!Click(e) PROVE DetailInv'
  <2>1. /\ e \in eventRows /\ openEvent' = IF e = openEvent THEN <<>> ELSE e
        /\ closedByHand' = (closedByHand \/ openEvent' = <<>>)
        /\ UNCHANGED <<kind, eventRows, paneHidden>>
    BY <1>11 DEF X!Click
  <2>2. DetailTyped'
    BY <2>1 DEF DetailInv, DetailTyped
  <2>3. ~closedByHand' => openEvent' \in eventRows'
    <3>1. ASSUME ~closedByHand' PROVE openEvent' # <<>>
      BY <2>1, <3>1, Zenon
    <3> QED
      BY <2>1, <3>1
  <2>4. AnswerIsOpen'
    BY <2>3 DEF AnswerIsOpen
  <2> QED
    BY <2>2, <2>4 DEF DetailInv
<1> QED
  BY <1>0, <1>2, <1>3, <1>4, <1>5, <1>6, <1>7, <1>8, <1>9, <1>10, <1>11 DEF X!Next

\* The answer of a unary call is opened without a click (GrpcResponsePane.tsx).
THEOREM AnswerOpens == ASSUME SomeCalls PROVE X!Spec => []X!OpensTheAnswer
<1>1. X!Init => DetailInv
  <2>1. ASSUME X!Init PROVE DetailInv
    <3>1. /\ kind \in X!Kinds /\ eventRows = {} /\ paneHidden = FALSE /\ closedByHand = FALSE
      BY <2>1 DEF X!Init
    <3>2. X!Answers(eventRows) = {}
      BY <3>1 DEF X!Answers
    <3> QED
      BY <3>1, <3>2, FS_EmptySet DEF DetailInv, DetailTyped, AnswerIsOpen
  <2> QED
    BY <2>1
<1>2. ConnectionsInv /\ DetailInv /\ [X!Next]_X!vars => DetailInv'
  <2>1. ASSUME DetailInv, UNCHANGED X!vars PROVE DetailInv'
    <3>1. UNCHANGED <<kind, callRequest, connections, connectionPins, eventRows, eventLoads,
                      openEvent, paneHidden, closedByHand>>
      BY <2>1 DEF X!vars
    <3>2. X!Shown' = X!Shown
      BY <3>1 DEF X!Shown
    <3> QED
      BY <2>1, <3>1, <3>2 DEF DetailInv, DetailTyped, AnswerIsOpen, X!Answers
  <2> QED
    BY <2>1, DetailNext
<1>3. DetailInv => X!OpensTheAnswer
  <2>1. ASSUME DetailInv, kind = "unary", ~paneHidden, ~closedByHand, eventLoads = <<>>,
               X!Answers(eventRows) # {}, X!Shown # 0
        PROVE  X!Detail # <<>>
    <3>1. openEvent \in eventRows /\ openEvent # <<>>
      BY <2>1 DEF DetailInv, DetailTyped, AnswerIsOpen
    <3> QED
      BY <2>1, <3>1 DEF X!Detail, X!None
  <2> QED
    BY <2>1 DEF X!OpensTheAnswer, X!None
<1> QED
  BY <1>1, <1>2, <1>3, ConnectionsSafe, PTL DEF X!Spec

-----------------------------------------------------------------------------
(* The key of a workspace: Encryption, for any keys made here and by       *)
(* others, and any number of commands and reads under way at once.         *)

CONSTANTS Own, Theirs, MaxKeyCalls, MaxReveals
VARIABLES challenge, storedKey, cachedKey, commands, madeKeys, used, settingKey, reveals,
          expanded, dialog, raced, foreign

L == INSTANCE Encryption WITH
    stored <- storedKey, cache <- cachedKey, calls <- commands, made <- madeKeys,
    key <- settingKey, MaxCalls <- MaxKeyCalls

\* What the proofs take for granted of the constants: keys are a kind of their own.
KeysAreKeys ==
    /\ Own \in Seq(L!Keys)
    /\ L!Keys \cap {L!None, L!Broken, "loading", "asked"} = {}

KeyCommand == [key : L!Keys, entered : BOOLEAN, phase : {"write", "cache"}]
KeyState == [key : L!Keys \cup {L!None, "loading"}, error : BOOLEAN]
KeyRead == L!Keys \cup {L!None, L!Broken, "asked"}

KeyTyped ==
    /\ L!TypeOK
    /\ commands \in Seq(KeyCommand) /\ reveals \in Seq(KeyRead)
    /\ raced \in BOOLEAN /\ foreign \in BOOLEAN

\* Whoever has a key, the cache, a command that has written, the setting or a read
\* on its way to it, has it because there is one in the meta row; and the challenge
\* of a workspace without one is somebody else's.
RowFirst ==
    /\ cachedKey # L!None => storedKey \in L!Keys
    /\ \A i \in 1..Len(commands) : commands[i].phase = "cache" => storedKey \in L!Keys
    /\ settingKey.key \in L!Keys => storedKey \in L!Keys
    /\ \A i \in 1..Len(reveals) : reveals[i] \in L!Keys => storedKey \in L!Keys
    /\ storedKey = L!None => challenge \in {L!None, Theirs}

\* ... and it is that one.  A command that has still to write its key over none, or
\* over one that cannot be opened, has the key of all the values there are.
OneKey ==
    ~raced /\ ~foreign =>
        /\ L!ValuesReadable
        /\ \A i \in 1..Len(commands) : commands[i].phase = "cache" => commands[i].key = storedKey
        /\ \A i \in 1..Len(commands) :
              commands[i].phase = "write" /\ storedKey \notin L!Keys => used \subseteq {commands[i].key}
        /\ settingKey.key \in L!Keys => settingKey.key = storedKey
        /\ \A i \in 1..Len(reveals) : reveals[i] \in L!Keys => reveals[i] = storedKey

KeyInv == KeyTyped /\ RowFirst /\ OneKey

-----------------------------------------------------------------------------
(* What is left of a sequence without an item was in it.                   *)

LEMMA LeftOver ==
    ASSUME NEW S, NEW s \in Seq(S), NEW i \in DOMAIN s
    PROVE  /\ L!RemoveAt(s, i) \in Seq(S)
           /\ \A j \in 1..Len(L!RemoveAt(s, i)) :
                 \E k \in 1..Len(s) : L!RemoveAt(s, i)[j] = s[k]
<1>1. PICK rest : rest = SubSeq(s, 1, i - 1) \o SubSeq(s, i + 1, Len(s))
  OBVIOUS
<1>2. L!RemoveAt(s, i) = rest
  BY <1>1 DEF L!RemoveAt
<1>3. /\ rest \in Seq(S) /\ Len(rest) = Len(s) - 1
      /\ \A j \in 1..Len(rest) :
            /\ j < i => rest[j] = s[j]
            /\ j >= i => rest[j] = s[j + 1]
  BY <1>1, WithoutItem
<1>4. i \in 1..Len(s)
  OBVIOUS
<1>5. \A j \in 1..Len(rest) : \E k \in 1..Len(s) : rest[j] = s[k]
  <2>1. SUFFICES ASSUME NEW j \in 1..Len(rest) PROVE \E k \in 1..Len(s) : rest[j] = s[k]
    OBVIOUS
  <2>2. j \in 1..Len(s) /\ j + 1 \in 1..Len(s)
    BY <1>3, <1>4
  <2> QED
    BY <1>3, <1>4, <2>2
<1> QED
  BY <1>2, <1>3, <1>5

-----------------------------------------------------------------------------
(* Types. *)

LEMMA KeyStates ==
    /\ L!Unread \in KeyState /\ L!Loading \in KeyState
    /\ \A k \in L!Keys : [key |-> k, error |-> FALSE] \in KeyState
    /\ [key |-> L!None, error |-> TRUE] \in KeyState
    /\ "asked" \in KeyRead /\ <<"asked">> \in Seq(KeyRead)
<1>1. L!Unread \in KeyState
  BY DEF L!Unread, KeyState
<1>2. L!Loading \in KeyState
  BY DEF L!Loading, KeyState
<1>3. "asked" \in KeyRead
  BY DEF KeyRead
<1>4. \A x \in KeyRead : <<x>> \in Seq(KeyRead)
  OBVIOUS
<1> QED
  BY <1>1, <1>2, <1>3, <1>4 DEF KeyState

LEMMA WhoseKey == ASSUME KeyTyped PROVE L!Got \in L!Keys \cup {L!None, L!Broken}
  BY DEF KeyTyped, L!TypeOK, L!Got

\* A command of the setting is one more.
LEMMA CallsTyped ==
    ASSUME KeyTyped, NEW k \in L!Keys, NEW entered \in BOOLEAN, L!Calls(k, entered),
           madeKeys' \in 0..Len(Own)
    PROVE  KeyTyped'
<1> DEFINE call == [key |-> k, entered |-> entered, phase |-> "write"]
<1>1. call \in KeyCommand
  BY DEF KeyCommand
<1>2. commands' = Append(commands, call)
  BY DEF L!Calls
<1>3. commands' \in Seq(KeyCommand)
  BY <1>1, <1>2, Appended DEF KeyTyped
<1>4. \A i \in DOMAIN commands' : commands'[i] \in KeyCommand
  BY <1>3
<1> QED
  BY <1>3, <1>4 DEF KeyTyped, L!TypeOK, L!Calls, KeyCommand

LEMMA EnableTyped ==
    ASSUME KeysAreKeys, KeyTyped, L!EnableEncryption
    PROVE  KeyTyped' /\ Own[madeKeys'] \in L!Keys
<1>1. madeKeys' \in 1..Len(Own)
  BY DEF L!EnableEncryption, KeyTyped, L!TypeOK, KeysAreKeys
<1>2. Own[madeKeys'] \in L!Keys
  BY <1>1 DEF KeysAreKeys
<1>3. PICK k \in L!Keys : k = Own[madeKeys']
  BY <1>2
<1>4. L!Calls(k, FALSE)
  BY <1>3 DEF L!EnableEncryption, L!Calls
<1>5. madeKeys' \in 0..Len(Own)
  BY <1>1
<1>6. KeyTyped'
  BY <1>4, <1>5, CallsTyped
<1> QED
  BY <1>2, <1>6

LEMMA WritesTyped ==
    ASSUME KeysAreKeys, KeyTyped, NEW i \in DOMAIN commands, L!Writes(i)
    PROVE  KeyTyped'
<1> USE DEF KeyTyped, L!TypeOK
<1>1. commands[i] \in KeyCommand
  OBVIOUS
<1>2. commands' \in Seq(KeyCommand)
  <2>1. PICK call \in KeyCommand : call = [commands[i] EXCEPT !.phase = "cache"]
    BY <1>1 DEF KeyCommand
  <2>2. commands' = [commands EXCEPT ![i] = call]
    BY <2>1 DEF L!Writes
  <2> QED
    BY <2>2
<1>3. challenge' \in L!Keys /\ storedKey' \in L!Keys
  BY <1>1 DEF L!Writes, KeyCommand
<1>4. settingKey' \in KeyState
  BY KeyStates DEF L!Writes, L!Asks, KeyState
<1>5. reveals' \in Seq(KeyRead)
  <2>1. "asked" \in KeyRead
    BY KeyStates
  <2>2. reveals' = reveals \/ reveals' = Append(reveals, "asked")
    BY DEF L!Writes, L!Asks
  <2> QED
    BY <2>1, <2>2, Appended
<1>6. \A j \in DOMAIN commands' : commands'[j] \in KeyCommand
  BY <1>2
<1>7. \A j \in DOMAIN reveals' : reveals'[j] \in KeyRead
  BY <1>5
<1> QED
  BY <1>2, <1>3, <1>4, <1>5, <1>6, <1>7 DEF L!Writes, KeyCommand, KeyRead, KeyState

LEMMA CachesTyped ==
    ASSUME KeysAreKeys, KeyTyped, NEW i \in DOMAIN commands, L!Caches(i)
    PROVE  KeyTyped'
<1> USE DEF KeyTyped, L!TypeOK
<1>1. commands[i] \in KeyCommand
  OBVIOUS
<1>2. commands' \in Seq(KeyCommand)
  BY LeftOver DEF L!Caches
<1>3. \A j \in DOMAIN commands' : commands'[j] \in KeyCommand
  BY <1>2
<1> QED
  BY <1>1, <1>2, <1>3 DEF L!Caches, KeyCommand

LEMMA RevealedTyped ==
    ASSUME KeysAreKeys, KeyTyped, NEW i \in DOMAIN reveals, L!Revealed(i)
    PROVE  KeyTyped'
<1> USE DEF KeyTyped, L!TypeOK
<1>1. reveals' \in Seq(KeyRead)
  BY LeftOver DEF L!Revealed
<1>2. \A j \in DOMAIN reveals' : reveals'[j] \in KeyRead
  BY <1>1
<1>3. settingKey' \in KeyState
  BY KeyStates DEF L!Revealed
<1> QED
  BY <1>1, <1>2, <1>3 DEF L!Revealed, KeyRead, KeyState

LEMMA ReadsTyped ==
    ASSUME KeysAreKeys, KeyTyped, NEW i \in DOMAIN reveals, L!Reads(i)
    PROVE  KeyTyped'
<1> USE DEF KeyTyped, L!TypeOK
<1>1. reveals' \in Seq(KeyRead)
  BY WhoseKey DEF L!Reads, KeyRead
<1>2. \A j \in DOMAIN reveals' : reveals'[j] \in KeyRead
  BY <1>1
<1> QED
  BY <1>1, <1>2 DEF L!Reads, KeyRead

LEMMA OthersTyped ==
    ASSUME KeysAreKeys, KeyTyped, L!Done \/ L!Open \/ L!Encrypts \/ L!Restart \/ L!Synced
    PROVE  KeyTyped'
<1> USE DEF KeyTyped, L!TypeOK
<1>1. CASE L!Done
  BY <1>1 DEF L!Done
<1>2. CASE L!Open
  <2>1. settingKey' \in KeyState
    BY <1>2, KeyStates DEF L!Open
  <2>3. reveals' = reveals \/ reveals' = <<"asked">>
    BY <1>2 DEF L!Open
  <2>5. reveals' \in Seq(KeyRead)
    BY <2>3, KeyStates
  <2>2. \A j \in DOMAIN reveals' : reveals'[j] \in KeyRead
    BY <2>5
  <2> QED
    BY <1>2, <2>1, <2>2, <2>5 DEF L!Open, KeyRead, KeyState
<1>3. CASE L!Encrypts
  BY <1>3 DEF L!Encrypts
<1>4. CASE L!Restart
  BY <1>4, KeyStates DEF L!Restart, KeyState
<1>5. CASE L!Synced
  BY <1>5 DEF L!Synced, L!Keys
<1> QED
  BY <1>1, <1>2, <1>3, <1>4, <1>5

LEMMA TypedNext == ASSUME KeysAreKeys, KeyTyped, [L!Next]_L!vars PROVE KeyTyped'
<1>1. CASE UNCHANGED L!vars
  BY <1>1 DEF L!vars, KeyTyped, L!TypeOK
<1>2. ASSUME NEW k \in L!Keys, L!SetWorkspaceKey(k) PROVE KeyTyped'
  BY <1>2, CallsTyped DEF L!SetWorkspaceKey, KeyTyped, L!TypeOK
<1> QED
  BY <1>1, <1>2, EnableTyped, WritesTyped, CachesTyped, RevealedTyped, ReadsTyped,
     OthersTyped DEF L!Next

LEMMA TypedInit == ASSUME KeysAreKeys, L!Init PROVE KeyTyped
<1>1. 0 \in 0..Len(Own)
  BY DEF KeysAreKeys
<1>2. commands \in Seq(KeyCommand) /\ reveals \in Seq(KeyRead)
  BY DEF L!Init
<1>3. challenge \in L!Keys \cup {L!None} /\ used \subseteq L!Keys
  BY DEF L!Init, L!Keys
<1>4. settingKey \in KeyState
  BY KeyStates DEF L!Init
<1>5. L!TypeOK
  BY <1>1, <1>3, <1>4 DEF L!Init, L!TypeOK, KeyState
<1> QED
  BY <1>2, <1>5 DEF L!Init, KeyTyped

-----------------------------------------------------------------------------
(* Who has a key has it from the row. *)

\* What commands and reads that end leave behind was there before.
LEMMA CallsLeft ==
    ASSUME KeyTyped, NEW i \in DOMAIN commands, L!Caches(i)
    PROVE  \A j \in 1..Len(commands') : \E k \in 1..Len(commands) : commands'[j] = commands[k]
  BY LeftOver DEF L!Caches, KeyTyped

LEMMA RevealsLeft ==
    ASSUME KeyTyped, NEW i \in DOMAIN reveals, L!Revealed(i)
    PROVE  \A j \in 1..Len(reveals') : \E k \in 1..Len(reveals) : reveals'[j] = reveals[k]
  BY LeftOver DEF L!Revealed, KeyTyped

\* A new command is one that has not written.
LEMMA CallsMore ==
    ASSUME KeyTyped, NEW k \in L!Keys, NEW entered \in BOOLEAN, L!Calls(k, entered)
    PROVE  \A j \in 1..Len(commands') :
              \/ commands'[j].phase = "write" /\ commands'[j].key = k
              \/ j \in 1..Len(commands) /\ commands'[j] = commands[j]
<1> DEFINE call == [key |-> k, entered |-> entered, phase |-> "write"]
<1>1. call \in KeyCommand
  BY DEF KeyCommand
<1>2. commands' = Append(commands, call)
  BY DEF L!Calls
<1>3. call.phase = "write" /\ call.key = k
  OBVIOUS
<1> HIDE DEF call
<1> QED
  BY <1>1, <1>2, <1>3 DEF KeyTyped

LEMMA CallsRowFirst ==
    ASSUME KeyTyped, RowFirst, NEW k \in L!Keys, NEW entered \in BOOLEAN, L!Calls(k, entered)
    PROVE  RowFirst'
  BY CallsMore DEF RowFirst, L!Calls

LEMMA WritesRowFirst ==
    ASSUME KeysAreKeys, KeyTyped, RowFirst, NEW i \in DOMAIN commands, L!Writes(i)
    PROVE  storedKey' \in L!Keys /\ RowFirst'
<1>0. commands[i] \in KeyCommand
  BY DEF KeyTyped
<1>1. storedKey' \in L!Keys
  BY <1>0 DEF L!Writes, KeyCommand
<1> QED
  BY <1>1 DEF RowFirst, KeysAreKeys

LEMMA CachesRowFirst ==
    ASSUME KeysAreKeys, KeyTyped, RowFirst, NEW i \in DOMAIN commands, L!Caches(i)
    PROVE  storedKey' \in L!Keys /\ RowFirst'
<1>1. i \in 1..Len(commands)
  BY DEF KeyTyped
<1>2. storedKey' \in L!Keys
  BY <1>1 DEF L!Caches, RowFirst
<1> QED
  BY <1>2 DEF RowFirst, KeysAreKeys

\* A key that is found is one that is stored.
LEMMA GotStored ==
    ASSUME KeysAreKeys, KeyTyped, RowFirst
    PROVE  L!Got \in L!Keys => storedKey \in L!Keys
  BY DEF L!Got, RowFirst

LEMMA ReadsRowFirst ==
    ASSUME KeysAreKeys, KeyTyped, RowFirst, NEW i \in DOMAIN reveals, L!Reads(i)
    PROVE  RowFirst'
<1>1. \A j \in 1..Len(reveals') : reveals'[j] \in L!Keys => storedKey \in L!Keys
  BY GotStored DEF L!Reads, RowFirst, KeyTyped
<1> QED
  BY <1>1 DEF L!Reads, RowFirst

LEMMA RevealedRowFirst ==
    ASSUME KeysAreKeys, KeyTyped, RowFirst, NEW i \in DOMAIN reveals, L!Revealed(i)
    PROVE  RowFirst'
<1>1. \A j \in 1..Len(reveals') : reveals'[j] \in L!Keys => storedKey \in L!Keys
  BY RevealsLeft DEF RowFirst
<1>2. settingKey'.key \in L!Keys => storedKey \in L!Keys
  <2>1. i \in 1..Len(reveals)
    BY DEF KeyTyped
  <2>2. (settingKey'.key = reveals[i] /\ reveals[i] \in L!Keys) \/ settingKey'.key = L!None
    BY DEF L!Revealed
  <2> QED
    BY <2>1, <2>2 DEF RowFirst, KeysAreKeys
<1> QED
  BY <1>1, <1>2 DEF L!Revealed, RowFirst

\* The setting has no key yet when it is opened, nor a manager that starts.
LEMMA OpenBlank ==
    ASSUME KeysAreKeys, KeyTyped, L!Open
    PROVE  settingKey'.key \notin L!Keys /\ \A j \in 1..Len(reveals') : reveals'[j] \notin L!Keys
<1>1. settingKey' = L!Unread \/ settingKey' = L!Loading
  BY DEF L!Open
<1>2. settingKey'.key \notin L!Keys
  BY <1>1 DEF L!Unread, L!Loading, KeysAreKeys
<1>3. \A j \in 1..Len(reveals') : reveals'[j] = "asked"
  <2>1. reveals' = <<>> \/ reveals' = <<"asked">>
    BY DEF L!Open
  <2> QED
    BY <2>1
<1> QED
  BY <1>2, <1>3 DEF KeysAreKeys

LEMMA RestartBlank ==
    ASSUME KeysAreKeys, L!Restart
    PROVE  /\ settingKey'.key \notin L!Keys /\ reveals' = <<>> /\ commands' = <<>> /\ cachedKey' = L!None
           /\ storedKey' \in {storedKey, L!Broken} /\ (storedKey' = L!None => storedKey = L!None)
  BY DEF L!Restart, L!Unread, KeysAreKeys, L!None, L!Broken

LEMMA OthersRowFirst ==
    ASSUME KeysAreKeys, KeyTyped, RowFirst, L!Done \/ L!Open \/ L!Encrypts \/ L!Restart \/ L!Synced
    PROVE  RowFirst'
<1>1. CASE L!Done
  BY <1>1 DEF L!Done, RowFirst
<1>2. CASE L!Open
  BY <1>2, OpenBlank DEF L!Open, RowFirst
<1>3. CASE L!Encrypts
  BY <1>3 DEF L!Encrypts, RowFirst
<1>4. CASE L!Restart
  <2>1. challenge' = challenge
    BY <1>4 DEF L!Restart
  <2> QED
    BY <1>4, <2>1, RestartBlank DEF RowFirst
<1>5. CASE L!Synced
  BY <1>5 DEF L!Synced, RowFirst
<1> QED
  BY <1>1, <1>2, <1>3, <1>4, <1>5

LEMMA RowFirstNext ==
    ASSUME KeysAreKeys, KeyTyped, RowFirst, [L!Next]_L!vars
    PROVE  RowFirst'
<1>1. CASE UNCHANGED L!vars
  BY <1>1 DEF L!vars, RowFirst
<1>2. ASSUME NEW k \in L!Keys, L!SetWorkspaceKey(k) PROVE RowFirst'
  BY <1>2, CallsRowFirst DEF L!SetWorkspaceKey
<1>3. ASSUME L!EnableEncryption PROVE RowFirst'
  <2>1. PICK k \in L!Keys : k = Own[madeKeys']
    BY <1>3, EnableTyped
  <2>2. L!Calls(k, FALSE)
    BY <1>3, <2>1 DEF L!EnableEncryption, L!Calls
  <2> QED
    BY <2>2, CallsRowFirst
<1> QED
  BY <1>1, <1>2, <1>3, WritesRowFirst, CachesRowFirst, ReadsRowFirst, RevealedRowFirst,
     OthersRowFirst DEF L!Next

LEMMA RowFirstInit == ASSUME KeysAreKeys, L!Init PROVE RowFirst
  BY DEF L!Init, RowFirst, L!Unread, KeysAreKeys

-----------------------------------------------------------------------------
(* ... and it is the one of the row. *)

\* A new command has a key that fits all the values there are.
LEMMA CallsOneKey ==
    ASSUME KeysAreKeys, KeyTyped, OneKey, NEW k \in L!Keys, NEW entered \in BOOLEAN,
           L!Calls(k, entered), challenge \in {L!None, k}
    PROVE  OneKey'
<1> SUFFICES ASSUME ~raced, ~foreign PROVE OneKey'
  BY DEF OneKey, L!Calls
<1>1. used \subseteq {k}
  BY DEF OneKey, L!ValuesReadable, KeyTyped, L!TypeOK, KeysAreKeys
<1>2. \A i \in 1..Len(commands') : commands'[i].phase = "cache" => commands'[i].key = storedKey'
  BY CallsMore DEF OneKey, L!Calls
<1>3. \A i \in 1..Len(commands') :
         commands'[i].phase = "write" /\ storedKey' \notin L!Keys => used' \subseteq {commands'[i].key}
  BY <1>1, CallsMore DEF OneKey, L!Calls
<1> QED
  BY <1>2, <1>3 DEF OneKey, L!ValuesReadable, L!Calls

\* A command that races none writes the key of all the values, over none, over one
\* that cannot be opened, or over itself.
LEMMA WritesOneKey ==
    ASSUME KeysAreKeys, KeyTyped, RowFirst, OneKey, NEW i \in DOMAIN commands, L!Writes(i)
    PROVE  OneKey'
<1> SUFFICES ASSUME ~raced', ~foreign' PROVE OneKey'
  BY DEF OneKey
<1>1. i \in 1..Len(commands) /\ commands[i] \in KeyCommand
  BY DEF KeyTyped
<1>2. PICK k \in L!Keys : k = commands[i].key
  BY <1>1 DEF KeyCommand
<1>3. storedKey' = k /\ challenge' = k /\ cachedKey' = cachedKey /\ used' = used
  BY <1>2 DEF L!Writes
<1>4. ~raced /\ ~foreign /\ storedKey \in {L!None, L!Broken, k}
  BY <1>2 DEF L!Writes, KeyTyped
<1>5. storedKey \in L!Keys => storedKey = k
  BY <1>4 DEF KeysAreKeys
<1>6. used \subseteq {k}
  BY <1>1, <1>2, <1>4, <1>5 DEF OneKey, L!ValuesReadable, L!Writes
<1>7. cachedKey # L!None => cachedKey = k
  BY <1>4, <1>5 DEF OneKey, L!ValuesReadable, RowFirst
<1>8. \A j \in 1..Len(commands') : commands'[j].phase = "cache" => commands'[j].key = k
  <2>0. PICK call \in KeyCommand : call = [commands[i] EXCEPT !.phase = "cache"]
    BY <1>1 DEF KeyCommand
  <2>1. call.key = k
    BY <1>1, <1>2, <2>0 DEF KeyCommand
  <2>2. commands' = [commands EXCEPT ![i] = call]
    BY <2>0 DEF L!Writes
  <2>3. \A j \in 1..Len(commands') : commands'[j] = call \/ (j \in 1..Len(commands) /\ commands'[j] = commands[j])
    <3>1. Len(commands') = Len(commands)
      BY <2>2 DEF KeyTyped
    <3>2. \A j \in 1..Len(commands) : commands'[j] = IF j = i THEN call ELSE commands[j]
      BY <2>2 DEF KeyTyped
    <3> QED
      BY <3>1, <3>2
  <2> QED
    BY <1>4, <1>5, <2>1, <2>3 DEF OneKey, RowFirst
<1>9. settingKey'.key \in L!Keys => settingKey'.key = k
  <2>1. settingKey' = settingKey \/ settingKey' = L!Unread
    BY DEF L!Writes, L!Asks
  <2>2. L!Unread.key \notin L!Keys
    BY DEF L!Unread, KeysAreKeys
  <2> QED
    BY <1>4, <1>5, <2>1, <2>2 DEF OneKey, RowFirst
<1>10. \A j \in 1..Len(reveals') : reveals'[j] \in L!Keys => reveals'[j] = k
  <2>1. reveals' = reveals \/ reveals' = Append(reveals, "asked")
    BY DEF L!Writes, L!Asks
  <2>2. CASE reveals' = reveals
    BY <1>4, <1>5, <2>2 DEF OneKey, RowFirst
  <2>3. CASE reveals' = Append(reveals, "asked")
    <3>1. "asked" \in KeyRead /\ "asked" \notin L!Keys
      BY DEF KeyRead, KeysAreKeys
    <3>2. \A j \in 1..Len(reveals') :
             reveals'[j] = "asked" \/ (j \in 1..Len(reveals) /\ reveals'[j] = reveals[j])
      <4>1. /\ Len(reveals') = Len(reveals) + 1
            /\ \A j \in 1..Len(reveals) : reveals'[j] = reveals[j]
            /\ reveals'[Len(reveals) + 1] = "asked"
        BY <2>3, <3>1, Appended DEF KeyTyped
      <4>2. Len(reveals) \in Nat
        BY DEF KeyTyped
      <4> QED
        BY <4>1, <4>2
    <3> QED
      BY <1>4, <1>5, <3>1, <3>2 DEF OneKey, RowFirst
  <2> QED
    BY <2>1, <2>2, <2>3
<1> QED
  BY <1>2, <1>3, <1>6, <1>7, <1>8, <1>9, <1>10 DEF OneKey, L!ValuesReadable

LEMMA CachesOneKey ==
    ASSUME KeysAreKeys, KeyTyped, OneKey, NEW i \in DOMAIN commands, L!Caches(i)
    PROVE  OneKey'
<1> SUFFICES ASSUME ~raced, ~foreign PROVE OneKey'
  BY DEF OneKey, L!Caches
<1>1. i \in 1..Len(commands)
  BY DEF KeyTyped
<1>2. cachedKey' = storedKey
  BY <1>1 DEF L!Caches, OneKey
<1>3. \A j \in 1..Len(commands') : commands'[j].phase = "cache" => commands'[j].key = storedKey
  BY CallsLeft DEF OneKey
<1>4. \A j \in 1..Len(commands') :
         commands'[j].phase = "write" /\ storedKey \notin L!Keys => used \subseteq {commands'[j].key}
  BY CallsLeft DEF OneKey
<1> QED
  BY <1>2, <1>3, <1>4 DEF OneKey, L!ValuesReadable, L!Caches

\* A key that is found is the one that is stored.
LEMMA GotIt ==
    ASSUME KeysAreKeys, KeyTyped, RowFirst, OneKey, ~raced, ~foreign
    PROVE  L!Got \in L!Keys => L!Got = storedKey /\ L!Got = challenge
  BY GotStored DEF L!Got, OneKey, L!ValuesReadable

LEMMA ReadsOneKey ==
    ASSUME KeysAreKeys, KeyTyped, RowFirst, OneKey, NEW i \in DOMAIN reveals, L!Reads(i)
    PROVE  OneKey'
<1> SUFFICES ASSUME ~raced, ~foreign PROVE OneKey'
  BY DEF OneKey, L!Reads
<1>1. \A j \in 1..Len(reveals') : reveals'[j] \in L!Keys => reveals'[j] = storedKey
  BY GotIt DEF L!Reads, OneKey, KeyTyped
<1> QED
  BY <1>1 DEF OneKey, L!ValuesReadable, L!Reads

LEMMA RevealedOneKey ==
    ASSUME KeysAreKeys, KeyTyped, OneKey, NEW i \in DOMAIN reveals, L!Revealed(i)
    PROVE  OneKey'
<1> SUFFICES ASSUME ~raced, ~foreign PROVE OneKey'
  BY DEF OneKey, L!Revealed
<1>1. i \in 1..Len(reveals)
  BY DEF KeyTyped
<1>2. \A j \in 1..Len(reveals') : reveals'[j] \in L!Keys => reveals'[j] = storedKey
  BY RevealsLeft DEF OneKey
<1>3. settingKey'.key \in L!Keys => settingKey'.key = storedKey
  <2>1. (settingKey'.key = reveals[i] /\ reveals[i] \in L!Keys) \/ settingKey'.key = L!None
    BY DEF L!Revealed
  <2> QED
    BY <1>1, <2>1 DEF OneKey, KeysAreKeys
<1> QED
  BY <1>2, <1>3 DEF OneKey, L!ValuesReadable, L!Revealed

LEMMA EncryptsOneKey ==
    ASSUME KeysAreKeys, KeyTyped, RowFirst, OneKey, L!Encrypts
    PROVE  OneKey'
<1> SUFFICES ASSUME ~raced, ~foreign PROVE OneKey'
  BY DEF OneKey, L!Encrypts
<1>1. L!Got \in L!Keys /\ L!Got = storedKey /\ L!Got = challenge /\ storedKey \in L!Keys
  BY GotIt, GotStored DEF L!Encrypts
<1> QED
  BY <1>1 DEF OneKey, L!ValuesReadable, L!Encrypts

\* A key that cannot be opened any more is none.
LEMMA RestartOneKey ==
    ASSUME KeysAreKeys, KeyTyped, OneKey, L!Restart
    PROVE  OneKey'
<1> SUFFICES ASSUME ~raced, ~foreign PROVE OneKey'
  BY DEF OneKey, L!Restart
<1>1. storedKey' \in L!Keys => storedKey' = storedKey
  BY RestartBlank DEF KeysAreKeys
<1>2. used' = used /\ challenge' = challenge
  BY DEF L!Restart
<1>3. Len(commands') = 0 /\ Len(reveals') = 0
  BY RestartBlank
<1> QED
  BY <1>1, <1>2, <1>3, RestartBlank DEF OneKey, L!ValuesReadable

\* The values of others come where there are none.
LEMMA SyncedOneKey ==
    ASSUME KeysAreKeys, KeyTyped, RowFirst, OneKey, L!Synced
    PROVE  OneKey'
<1> SUFFICES ASSUME ~raced, ~foreign' PROVE OneKey'
  BY DEF OneKey, L!Synced
<1>1. ~foreign /\ storedKey = L!None /\ commands = <<>>
  BY DEF L!Synced, KeyTyped
<1>2. challenge = L!None
  BY <1>1 DEF RowFirst, L!Synced
<1>3. used = {}
  BY <1>1, <1>2 DEF OneKey, L!ValuesReadable, KeyTyped, L!TypeOK, KeysAreKeys
<1>4. used' \subseteq {challenge'} /\ storedKey' = storedKey /\ cachedKey' = cachedKey /\ commands' = commands
  BY <1>3 DEF L!Synced
<1>5. settingKey' = settingKey /\ reveals' = reveals
  BY DEF L!Synced
<1>6. Len(commands') = 0 /\ storedKey' \notin L!Keys
  BY <1>1, <1>4 DEF KeysAreKeys
<1> QED
  BY <1>1, <1>4, <1>5, <1>6 DEF OneKey, L!ValuesReadable

LEMMA OpenOneKey ==
    ASSUME KeysAreKeys, KeyTyped, OneKey, L!Open
    PROVE  OneKey'
<1>1. UNCHANGED <<challenge, storedKey, cachedKey, commands, used, raced, foreign>>
  BY DEF L!Open
<1> QED
  BY <1>1, OpenBlank DEF OneKey, L!ValuesReadable

LEMMA OneKeyNext ==
    ASSUME KeysAreKeys, KeyTyped, RowFirst, OneKey, [L!Next]_L!vars
    PROVE  OneKey'
<1>1. CASE UNCHANGED L!vars
  BY <1>1 DEF L!vars, OneKey, L!ValuesReadable
<1>2. ASSUME NEW k \in L!Keys, L!SetWorkspaceKey(k) PROVE OneKey'
  BY <1>2, CallsOneKey DEF L!SetWorkspaceKey, L!Fits
<1>3. ASSUME L!EnableEncryption PROVE OneKey'
  <2>1. PICK k \in L!Keys : k = Own[madeKeys']
    BY <1>3, EnableTyped
  <2>2. L!Calls(k, FALSE)
    BY <1>3, <2>1 DEF L!EnableEncryption, L!Calls
  <2>3. challenge = L!None
    BY <1>3 DEF L!EnableEncryption, L!Seen, L!View
  <2> QED
    BY <2>2, <2>3, CallsOneKey
<1>4. ASSUME L!Done PROVE OneKey'
  BY <1>4 DEF L!Done, OneKey, L!ValuesReadable
<1> QED
  BY <1>1, <1>2, <1>3, <1>4, WritesOneKey, CachesOneKey, ReadsOneKey, RevealedOneKey,
     EncryptsOneKey, RestartOneKey, SyncedOneKey, OpenOneKey DEF L!Next

LEMMA OneKeyInit == ASSUME KeysAreKeys, L!Init PROVE OneKey
<1>1. Len(commands) = 0 /\ Len(reveals) = 0
  BY DEF L!Init
<1>2. used \subseteq {challenge} /\ storedKey \notin L!Keys /\ cachedKey = L!None /\ settingKey.key \notin L!Keys
  BY DEF L!Init, L!Unread, KeysAreKeys
<1> QED
  BY <1>1, <1>2 DEF OneKey, L!ValuesReadable

-----------------------------------------------------------------------------
(* The theorems. *)

LEMMA KeySafe == ASSUME KeysAreKeys PROVE L!Spec => []KeyInv
<1>1. L!Init => KeyInv
  BY TypedInit, RowFirstInit, OneKeyInit DEF KeyInv
<1>2. KeyInv /\ [L!Next]_L!vars => KeyInv'
  BY TypedNext, RowFirstNext, OneKeyNext DEF KeyInv
<1> QED
  BY <1>1, <1>2, PTL DEF L!Spec

\* The manager and the setting keep to their types.
THEOREM KeyTypeCorrect == ASSUME KeysAreKeys PROVE L!Spec => []L!TypeOK
<1>1. KeyInv => L!TypeOK
  BY DEF KeyInv, KeyTyped
<1> QED
  BY <1>1, KeySafe, PTL

\* Unless two commands wrote different keys, or a sync brought another's workspace over a
\* key, all values are encrypted with the key of the challenge, the one in the meta row
\* and the one in the cache (set_human_key, set_workspace_key).
THEOREM ValuesStayReadable == ASSUME KeysAreKeys PROVE L!Spec => []L!ValuesReadable
<1>1. KeyInv => L!ValuesReadable
  BY DEF KeyInv, OneKey, L!ValuesReadable
<1> QED
  BY <1>1, KeySafe, PTL

\* In the same cases the key that is shown to be copied, read whenever, is the one that
\* encrypts and decrypts (WorkspaceEncryptionSetting).
THEOREM ShownKeyIsIt == ASSUME KeysAreKeys PROVE L!Spec => []L!ShowsTheKey
<1>1. ASSUME KeyInv, ~raced, ~foreign, L!View = "key" PROVE settingKey.key = L!Got
  <2>1. settingKey.key \in L!Keys
    BY <1>1 DEF KeyInv, KeyTyped, L!TypeOK, L!View
  <2>2. storedKey \in L!Keys /\ settingKey.key = storedKey
    BY <1>1, <2>1 DEF KeyInv, OneKey, RowFirst
  <2>3. L!Got = storedKey
    BY <1>1 DEF KeyInv, OneKey, L!ValuesReadable, L!Got
  <2> QED
    BY <2>2, <2>3
<1>2. KeyInv => L!ShowsTheKey
  BY <1>1 DEF L!ShowsTheKey
<1> QED
  BY <1>2, KeySafe, PTL

\* Whatever races, what waits for the setting's dialog goes on only when there is a key
\* to encrypt with (withEncryptionEnabled).
THEOREM GoesOnOnlyWithKey == ASSUME KeysAreKeys PROVE L!Spec => [][L!GoesOnWithKey]_L!vars
<1>1. ASSUME KeyInv, L!Next, dialog' = "done", dialog = "open" PROVE L!Got' \in L!Keys
  <2>1. CASE L!Done
    <3>1. settingKey.key \in L!Keys
      BY <1>1, <2>1 DEF KeyInv, KeyTyped, L!TypeOK, L!Done, L!Seen, L!View
    <3>2. storedKey \in L!Keys /\ cachedKey \in L!Keys \cup {L!None}
      BY <1>1, <3>1 DEF KeyInv, RowFirst, KeyTyped, L!TypeOK
    <3> QED
      BY <2>1, <3>2 DEF L!Got, L!Done
  <2>2. CASE \E i \in DOMAIN commands : L!Caches(i)
    <3>1. PICK i \in DOMAIN commands : L!Caches(i)
      BY <2>2
    <3>2. cachedKey' \in L!Keys
      <4>1. commands[i] \in KeyCommand
        BY <1>1 DEF KeyInv, KeyTyped
      <4> QED
        BY <3>1, <4>1 DEF L!Caches, KeyCommand
    <3> QED
      BY <1>1, <3>2 DEF L!Got, KeysAreKeys
  <2>3. L!Done \/ \E i \in DOMAIN commands : L!Caches(i)
    BY <1>1 DEF L!Next, L!EnableEncryption, L!SetWorkspaceKey, L!Calls, L!Open, L!Encrypts, L!Restart,
       L!Synced, L!Writes, L!Reads, L!Revealed
  <2> QED
    BY <2>1, <2>2, <2>3
<1>2. KeyInv /\ [L!Next]_L!vars => [L!GoesOnWithKey]_L!vars
  BY <1>1 DEF L!GoesOnWithKey
<1> QED
  BY <1>2, KeySafe, PTL DEF L!Spec


=============================================================================
