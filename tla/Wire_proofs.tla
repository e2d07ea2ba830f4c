----------------------------- MODULE Wire_proofs -----------------------------
(***************************************************************************)
(* Proofs about Wire, for every set of names, every bound of the replies   *)
(* and every width of a float64 (MaxExact is 2^53 in the code).            *)
(***************************************************************************)
EXTENDS Wire, SequenceTheorems, WellFoundedInduction, TLAPS

-----------------------------------------------------------------------------
(* Induction up to a bound, with a set for the predicate: the library's    *)
(* induction theorems take an operator, its minimal elements a set.        *)

LEMMA LeastNumber ==
    ASSUME NEW T \in SUBSET Nat, T # {}
    PROVE  \E n \in T : \A m \in T : n <= m
<1> DEFINE R == OpToRel(<, Nat)
<1>1. IsWellFoundedOn(R, Nat)
  BY NatLessThanWellFounded
<1>2. \A x, y \in Nat : x < y => <<x, y>> \in R
  BY DEF OpToRel
<1> HIDE DEF R
<1>3. PICK n \in T : \A m \in T : ~(<<m, n>> \in R)
  BY <1>1, WFMin
<1>4. \A m \in T : m \in Nat /\ n \in Nat /\ ~(m < n)
  BY <1>2, <1>3
<1>5. \A m \in T : n <= m
  BY <1>4
<1> QED
  BY <1>5

LEMMA BoundedInduction ==
    ASSUME NEW S, NEW N \in Nat, 0 \in S,
           \A n \in 0 .. N : n \in S /\ n < N => n + 1 \in S
    PROVE  0 .. N \subseteq S
<1> SUFFICES ASSUME ~(0 .. N \subseteq S)  PROVE FALSE
  OBVIOUS
<1> DEFINE T == {n \in 0 .. N : n \notin S}
<1>1. T \in SUBSET Nat /\ T # {}
  OBVIOUS
<1>2. PICK n \in T : \A m \in T : n <= m
  <2> HIDE DEF T
  <2> QED  BY <1>1, LeastNumber
<1>3. n \in 1 .. N /\ n - 1 \in 0 .. N /\ n - 1 < N /\ n - 1 + 1 = n
  OBVIOUS
<1>4. n - 1 \in S
  BY <1>2, <1>3
<1>5. n \in S
  BY <1>3, <1>4
<1> QED
  BY <1>5

-----------------------------------------------------------------------------
(* The loop over a JSON array.                                             *)

(* f holds the list after each of the first n rounds.                      *)
Rounds(array, f, n) ==
    /\ f = [i \in 0 .. n |-> f[i]]
    /\ f[0] = << >>
    /\ \A i \in 1 .. n : f[i] = AppendWord(f[i - 1], array[i])

LEMMA OneRound ==
    ASSUME NEW array, NEW f, NEW N \in Nat, Rounds(array, f, N), NEW n \in Nat, n + 1 \in 1 .. N
    PROVE  f[n + 1] = AppendWord(f[n], array[n + 1])
<1> DEFINE m == n + 1
<1>1. \A i \in 1 .. N : f[i] = AppendWord(f[i - 1], array[i])
  BY Zenon DEF Rounds
<1>2. m \in 1 .. N
  OBVIOUS
<1>3. f[m] = AppendWord(f[m - 1], array[m])
  <2> HIDE DEF m
  <2> QED  BY <1>1, <1>2, Zenon
<1>4. m - 1 = n
  OBVIOUS
<1> QED
  BY <1>3, <1>4, Zenon

(* The loop can be gone through to its end.                                *)
LEMMA RoundsExist ==
    ASSUME NEW array, NEW N \in Nat
    PROVE  \E f : Rounds(array, f, N)
<1> DEFINE S == {n \in 0 .. N : \E f : Rounds(array, f, n)}
<1>1. 0 \in S
  <2> DEFINE f == [i \in 0 .. 0 |-> << >>]
  <2>1. Rounds(array, f, 0)
    BY DEF Rounds
  <2> HIDE DEF f
  <2> QED  BY <2>1
<1>2. ASSUME NEW n \in 0 .. N, n \in S, n < N
      PROVE  n + 1 \in S
  <2>1. PICK f : Rounds(array, f, n)
    BY <1>2
  <2> DEFINE g == [i \in 0 .. n + 1 |->
                     IF i <= n THEN f[i] ELSE AppendWord(f[n], array[n + 1])]
  <2>2. g[0] = << >> /\ g = [i \in 0 .. n + 1 |-> g[i]]
    BY <2>1 DEF Rounds
  <2>3. \A i \in 0 .. n : g[i] = f[i]
    OBVIOUS
  <2>4. g[n + 1] = AppendWord(f[n], array[n + 1])
    OBVIOUS
  <2> HIDE DEF g
  <2>5. ASSUME NEW i \in 1 .. n + 1
        PROVE  g[i] = AppendWord(g[i - 1], array[i])
    <3>1. CASE i <= n
      <4>1. i \in 0 .. n /\ i - 1 \in 0 .. n /\ i \in 1 .. n
        BY <3>1
      <4>2. f[i] = AppendWord(f[i - 1], array[i])
        BY <2>1, <4>1 DEF Rounds
      <4> QED  BY <2>3, <4>1, <4>2
    <3>2. CASE i = n + 1
      <4>1. i - 1 = n /\ n \in 0 .. n
        BY <3>2
      <4> QED  BY <2>3, <2>4, <3>2, <4>1
    <3> QED  BY <3>1, <3>2
  <2>6. Rounds(array, g, n + 1)
    BY <2>2, <2>5 DEF Rounds
  <2> QED  BY <1>2, <2>6
<1> HIDE DEF S
<1>3. 0 .. N \subseteq S
  BY <1>1, <1>2, BoundedInduction
<1>4. N \in S
  BY <1>3
<1> QED
  BY <1>4 DEF S

(* Words is what the loop ends with.                                       *)
LEMMA WordsOfLoop ==
    ASSUME NEW array \in Seq(Nat)
    PROVE  \E f : Rounds(array, f, Len(array)) /\ Words(array) = f[Len(array)]
<1> DEFINE Loop(g) == [i \in 0 .. Len(array) |->
                         IF i = 0 THEN << >> ELSE AppendWord(g[i - 1], array[i])]
           f == CHOOSE g : g = Loop(g)
<1>0. Len(array) \in Nat
  OBVIOUS
<1>1. PICK w : Rounds(array, w, Len(array))
  BY <1>0, RoundsExist
<1>2. \A i \in 0 .. Len(array) : w[i] = Loop(w)[i]
  <2> TAKE i \in 0 .. Len(array)
  <2>1. CASE i = 0
    BY <1>1, <2>1 DEF Rounds
  <2>2. CASE i # 0
    <3>1. i \in 1 .. Len(array)
      BY <2>2
    <3>2. w[i] = AppendWord(w[i - 1], array[i])
      BY <1>1, <3>1 DEF Rounds
    <3> QED  BY <2>2, <3>2
  <2> QED  BY <2>1, <2>2
<1>3. w = Loop(w)
  BY <1>1, <1>2 DEF Rounds
<1>4. Words(array) = f[Len(array)]
  BY DEF Words
<1>5. f = Loop(f)
  <2> HIDE DEF Loop
  <2> QED  BY <1>3
<1> HIDE DEF f
<1>6. Rounds(array, f, Len(array))
  BY <1>5 DEF Rounds
<1> QED
  BY <1>4, <1>6

(* The list holds words only, whatever the array.                          *)
LEMMA WordsAreWords ==
    ASSUME NEW array \in Seq(Nat)
    PROVE  Words(array) \in Seq(Nat \ {NotAWord})
<1>1. PICK f : Rounds(array, f, Len(array)) /\ Words(array) = f[Len(array)]
  BY WordsOfLoop
<1> DEFINE W == Nat \ {NotAWord}
           S == {i \in 0 .. Len(array) : f[i] \in Seq(W)}
<1>2. 0 \in S
  BY <1>1 DEF Rounds
<1>3. ASSUME NEW n \in 0 .. Len(array), n \in S, n < Len(array)
      PROVE  n + 1 \in S
  <2>1. n + 1 \in 1 .. Len(array) /\ n + 1 - 1 = n
    BY <1>3
  <2>2. f[n + 1] = AppendWord(f[n], array[n + 1])
    BY <1>1, <2>1, OneRound
  <2>3. array[n + 1] \in Nat /\ f[n] \in Seq(W)
    BY <1>3, <2>1
  <2>4. f[n + 1] \in Seq(W)
    <3> HIDE DEF S
    <3>1. CASE IsWord(array[n + 1])
      <4>1. array[n + 1] \in W
        BY <2>3, <3>1 DEF IsWord
      <4> HIDE DEF W
      <4>2. Append(f[n], array[n + 1]) \in Seq(W)
        BY <2>3, <4>1, AppendProperties
      <4> QED  BY <2>2, <3>1, <4>2 DEF AppendWord
    <3>2. CASE ~IsWord(array[n + 1])
      BY <2>2, <2>3, <3>2 DEF AppendWord
    <3> QED  BY <3>1, <3>2
  <2> QED  BY <2>1, <2>4
<1>4. Len(array) \in 0 .. Len(array) /\ Len(array) \in Nat
  OBVIOUS
<1> HIDE DEF S
<1>5. 0 .. Len(array) \subseteq S
  BY <1>2, <1>3, <1>4, BoundedInduction
<1> QED
  BY <1>1, <1>4, <1>5 DEF S

(* A list of words is kept as it is.                                       *)
LEMMA WordsOfWords ==
    ASSUME NEW array \in Seq(Nat), \A i \in 1 .. Len(array) : IsWord(array[i])
    PROVE  Words(array) = array
<1>1. PICK f : Rounds(array, f, Len(array)) /\ Words(array) = f[Len(array)]
  BY WordsOfLoop
<1> DEFINE S == {i \in 0 .. Len(array) : f[i] = SubSeq(array, 1, i)}
<1>2. 0 \in S
  <2>1. SubSeq(array, 1, 0) = << >>
    OBVIOUS
  <2>2. f[0] = SubSeq(array, 1, 0)
    BY <1>1, <2>1 DEF Rounds
  <2>3. 0 \in 0 .. Len(array)
    OBVIOUS
  <2> QED  BY <2>2, <2>3
<1>3. ASSUME NEW n \in 0 .. Len(array), n \in S, n < Len(array)
      PROVE  n + 1 \in S
  <2>1. n + 1 \in 1 .. Len(array) /\ n + 1 - 1 = n /\ n + 1 \in 0 .. Len(array)
    BY <1>3
  <2>2. f[n + 1] = Append(f[n], array[n + 1])
    <3>1. f[n + 1] = AppendWord(f[n], array[n + 1])
      BY <1>1, <2>1, OneRound
    <3>2. IsWord(array[n + 1])
      BY <2>1
    <3> QED  BY <3>1, <3>2 DEF AppendWord
  <2>3. f[n] = SubSeq(array, 1, n)
    BY <1>3
  <2>4. Append(SubSeq(array, 1, n), array[n + 1]) = SubSeq(array, 1, n + 1)
    BY <1>3, <2>1
  <2> QED  BY <2>1, <2>2, <2>3, <2>4
<1>4. Len(array) \in 0 .. Len(array) /\ Len(array) \in Nat
  OBVIOUS
<1>5. SubSeq(array, 1, Len(array)) = array
  OBVIOUS
<1> HIDE DEF S
<1>6. 0 .. Len(array) \subseteq S
  BY <1>2, <1>3, <1>4, BoundedInduction
<1> QED
  BY <1>1, <1>4, <1>5, <1>6 DEF S

-----------------------------------------------------------------------------
(* What the two conversions do to one attribute.                           *)

(* An int64 as a float64 is a number, and the same one up to MaxExact.     *)
LEMMA DoubleOf ==
    ASSUME NEW n \in Nat
    PROVE  Double(n) \in Nat /\ (n <= MaxExact => Double(n) = n)
<1>1. n % 4 = 1 => n # 0
  OBVIOUS
<1> QED
  BY <1>1, MaxExactAssumption DEF Double

(* The integer a JSON number written for an int64 is read as.              *)
LEMMA HalfOf == \A n \in Nat : (2 * n) \div 2 = n /\ n \div 2 \in Nat
  OBVIOUS

(* An attribute is told as an entry JSON can carry, with the null value    *)
(* only if it is a nil list or absent.                                     *)
LEMMA ToldIsCarried ==
    ASSUME NEW a, Shaped(a), a.type \in ValueTypes \cup {"none"}
    PROVE  /\ Carried(ToEntry(a))
           /\ ToEntry(a).type = a.type
           /\ a.type # "none" /\ a # NilList => ToEntry(a).value.kind # "null"
<1>0. a.type # "keyword_list" => a # NilList
  BY DEF NilList, Attr
<1>1. CASE a.type = "none"
  BY <1>1 DEF Shaped, ToEntry, Carried, NoEntry, Entry, Null, Json, Absent, NilList, Attr
<1>2. CASE a.type = "bool"
  BY <1>2, <1>0 DEF ToEntry, Carried, Entry, Json
<1>3. CASE a.type = "int64"
  <2>1. a.value[1] \in Nat
    BY <1>3 DEF Shaped
  <2>2. <<2 * a.value[1]>> \in Seq(Nat) /\ Len(<<2 * a.value[1]>>) = 1
    BY <2>1
  <2>3. ToEntry(a) = Entry("int64", NoOp, Json("number", <<2 * a.value[1]>>))
    BY <1>3, <1>0 DEF ToEntry
  <2> DEFINE v == <<2 * a.value[1]>>
  <2>4. v \in Seq(Nat) /\ Len(v) = 1 /\ ToEntry(a) = Entry("int64", NoOp, Json("number", v))
    BY <2>2, <2>3
  <2> HIDE DEF v
  <2> QED  BY <1>3, <2>4 DEF Carried, Entry, Json
<1>4. CASE a.type = "float64"
  BY <1>4, <1>0 DEF Shaped, ToEntry, Carried, Entry, Json
<1>5. CASE a.type \in {"string", "keyword"}
  BY <1>5, <1>0 DEF Shaped, ToEntry, Carried, Entry, Json
<1>6. CASE a.type = "datetime"
  <2>1. a.value[1] \in Nat
    BY <1>6 DEF Shaped
  <2>2. FormatTime(a.value) \in Seq(Nat) /\ Len(FormatTime(a.value)) = 3
    BY <2>1 DEF FormatTime, RFC3339
  <2>3. ToEntry(a) = Entry("datetime", NoOp, Json("string", FormatTime(a.value)))
    BY <1>6, <1>0 DEF ToEntry
  <2> QED  BY <1>6, <2>2, <2>3 DEF Carried, Entry, Json
<1>7. CASE a.type = "keyword_list" /\ a = NilList
  BY <1>7 DEF ToEntry, Carried, Entry, Null, Json, NilList, Attr
<1>8. CASE a.type = "keyword_list" /\ a # NilList
  <2>1. a.value \in Seq(Nat)
    BY <1>8 DEF Shaped, NilList, Attr
  <2>2. ToEntry(a) = Entry("keyword_list", NoOp, Json("array", a.value))
    BY <1>8 DEF ToEntry
  <2> QED  BY <1>8, <2>1, <2>2 DEF Carried, Entry, Json
<1> QED
  BY <1>1, <1>2, <1>3, <1>4, <1>5, <1>6, <1>7, <1>8 DEF ValueTypes

(* An entry sets an attribute the server can hold, or none.                *)
LEMMA SetIsShaped ==
    ASSUME NEW e, Carried(e), FromEntry(e).do = "set"
    PROVE  Shaped(FromEntry(e).attr) /\ FromEntry(e).attr.type \in ValueTypes
<1>1. e.type \in ValueTypes /\ e.op # "unset" /\ e.value.kind # "null"
  BY DEF FromEntry, Skip, Unset
<1>2. CASE e.type = "int64"
  <2>1. FromEntry(e) = FromInt(e.value)
    BY <1>1, <1>2 DEF FromEntry
  <2>2. CASE e.value.kind = "number"
    <3> DEFINE n == Double(e.value.v[1] \div 2)
    <3>1. n \in Nat
      <4>1. e.value.v[1] \in Nat
        BY <2>2 DEF Carried
      <4>2. e.value.v[1] \div 2 \in Nat
        BY <4>1, HalfOf
      <4> QED  BY <4>2, DoubleOf
    <3>2. FromInt(e.value) = Set("int64", <<n>>)
      BY <2>2 DEF FromInt
    <3>3. <<n>> \in Seq(Nat) /\ Len(<<n>>) = 1
      BY <3>1
    <3> DEFINE v == <<n>>
    <3>4. v \in Seq(Nat) /\ Len(v) = 1 /\ FromEntry(e) = Set("int64", v)
      BY <2>1, <3>2, <3>3
    <3> HIDE DEF v
    <3> QED  BY <3>4 DEF Set, Attr, Shaped, ValueTypes
  <2>3. CASE e.value.kind = "string" /\ e.value.v[1] = Numeral
    <3>1. e.value.v[2] \in Nat
      BY <2>3 DEF Carried
    <3>2. FromInt(e.value) = Set("int64", <<e.value.v[2]>>)
      BY <2>3 DEF FromInt
    <3> DEFINE v == <<e.value.v[2]>>
    <3>3. v \in Seq(Nat) /\ Len(v) = 1 /\ FromEntry(e) = Set("int64", v)
      BY <2>1, <3>1, <3>2
    <3> HIDE DEF v
    <3> QED  BY <3>3 DEF Set, Attr, Shaped, ValueTypes
  <2> QED  BY <2>1, <2>2, <2>3 DEF FromInt, Skip
<1>3. CASE e.type = "datetime"
  <2>1. FromEntry(e) = FromTime(e.value)
    BY <1>1, <1>3 DEF FromEntry
  <2>2. e.value.kind = "string" /\ e.value.v[1] = RFC3339
    BY <2>1 DEF FromTime, Skip, Fail
  <2>3. ParseTime(e.value.v) \in Seq(Nat) /\ Len(ParseTime(e.value.v)) = 2
    BY <2>2 DEF Carried, ParseTime
  <2> QED  BY <2>1, <2>2, <2>3 DEF FromTime, Set, Attr, Shaped, ValueTypes
<1>4. CASE e.type = "keyword_list"
  <2>1. FromEntry(e) = FromList(e.value)
    BY <1>1, <1>4 DEF FromEntry
  <2>2. e.value.kind = "array"
    BY <2>1 DEF FromList, Skip
  <2>3. Words(e.value.v) \in Seq(Nat \ {NotAWord})
    BY <2>2, WordsAreWords DEF Carried
  <2> QED  BY <2>1, <2>2, <2>3 DEF FromList, Set, NilList, Attr, Shaped, ValueTypes
<1>5. CASE e.type \in {"bool", "float64", "string", "keyword"}
  <2>1. FromEntry(e) = Set(e.type, e.value.v) /\ e.value.kind = ValueKind[e.type]
    BY <1>1, <1>5 DEF FromEntry, Skip
  <2> QED  BY <1>5, <2>1 DEF Set, Attr, Shaped, Carried, ValueKind, ValueTypes
<1> QED
  BY <1>1, <1>2, <1>3, <1>4, <1>5 DEF ValueTypes

(* There and back: the property of one attribute that RoundTrips states.   *)
LEMMA BackAgain ==
    ASSUME NEW a, Shaped(a), a.type \in ValueTypes \cup {"none"}, a \notin {Absent, NilList}
    PROVE  LET u == FromEntry(ToEntry(a))
           IN  /\ u.do = "set" /\ u.attr.type = a.type
               /\ Portable(a) => u.attr = a
<1> DEFINE u == FromEntry(ToEntry(a))
<1>0. a.type # "none" /\ a = Attr(a.type, a.value)
  BY DEF Shaped
<1>1. CASE a.type \in {"bool", "float64", "string", "keyword"}
  <2>1. u = Set(a.type, a.value)
    BY <1>1 DEF ToEntry, Entry, Json, FromEntry, ValueKind, ValueTypes, NoOp
  <2> QED  BY <1>0, <2>1 DEF Set, Attr
<1>2. CASE a.type = "int64"
  <2>1. a.value[1] \in Nat /\ a.value = <<a.value[1]>>
    BY <1>2 DEF Shaped
  <2>2. ToEntry(a) = Entry("int64", NoOp, Json("number", <<2 * a.value[1]>>))
    BY <1>2 DEF ToEntry
  <2>3. u = FromInt(Json("number", <<2 * a.value[1]>>))
    BY <2>2 DEF Entry, Json, FromEntry, ValueTypes, NoOp
  <2>4. (2 * a.value[1]) \div 2 = a.value[1]
    BY <2>1, HalfOf
  <2>5. u = Set("int64", <<Double(a.value[1])>>)
    BY <2>3, <2>4 DEF FromInt, Json
  <2>6. a.value[1] <= MaxExact => Double(a.value[1]) = a.value[1]
    BY <2>1, DoubleOf
  <2> QED  BY <1>0, <1>2, <2>1, <2>5, <2>6 DEF Set, Attr, Portable
<1>3. CASE a.type = "datetime"
  <2>1. a.value = <<a.value[1], a.value[2]>>
    BY <1>3 DEF Shaped
  <2>2. ToEntry(a) = Entry("datetime", NoOp, Json("string", FormatTime(a.value)))
    BY <1>3 DEF ToEntry
  <2>3. u = FromTime(Json("string", FormatTime(a.value)))
    BY <2>2 DEF Entry, Json, FromEntry, ValueTypes, NoOp
  <2>4. u = Set("datetime", <<a.value[1], 0>>)
    BY <2>3 DEF FromTime, Json, FormatTime, ParseTime, RFC3339
  <2> QED  BY <1>0, <1>3, <2>1, <2>4 DEF Set, Attr, Portable
<1>4. CASE a.type = "keyword_list"
  <2>1. a.value \in Seq(Nat \ {NotAWord})
    BY <1>0, <1>4 DEF Shaped, NilList
  <2>2. ToEntry(a) = Entry("keyword_list", NoOp, Json("array", a.value))
    BY <1>4 DEF ToEntry
  <2>3. u = FromList(Json("array", a.value))
    BY <2>2 DEF Entry, Json, FromEntry, ValueTypes, NoOp
  <2>4. Words(a.value) = a.value
    <3>1. a.value \in Seq(Nat) /\ \A i \in 1 .. Len(a.value) : IsWord(a.value[i])
      BY <2>1 DEF IsWord
    <3> QED  BY <3>1, WordsOfWords
  <2>5. CASE a.value = << >>
    BY <1>4, <2>3, <2>4, <2>5 DEF FromList, Json, NilList, Attr, Portable
  <2>6. CASE a.value # << >>
    BY <1>0, <1>4, <2>3, <2>4, <2>6 DEF FromList, Json, Set, Attr
  <2> QED  BY <2>5, <2>6
<1> QED
  BY <1>0, <1>1, <1>2, <1>3, <1>4 DEF ValueTypes

-----------------------------------------------------------------------------
(* What Decode does to a batch, of whatever length.                        *)

(* Decode stops at the first message that does not parse.                  *)
LEMMA LeadingOf ==
    ASSUME NEW M, NEW messages \in Seq(M)
    PROVE  LET n == Leading(messages)
           IN  /\ n \in 0 .. Len(messages)
               /\ \A i \in 1 .. n : parseable(messages[i])
               /\ n < Len(messages) => ~parseable(messages[n + 1])
<1> DEFINE P(n) == /\ \A i \in 1 .. n : parseable(messages[i])
                   /\ n < Len(messages) => ~parseable(messages[n + 1])
<1>0. Len(messages) \in Nat
  OBVIOUS
<1>1. \E n \in 0 .. Len(messages) : P(n)
  <2> DEFINE T == {i \in 1 .. Len(messages) : ~parseable(messages[i])}
  <2>1. CASE T = {}
    <3>1. P(Len(messages)) /\ Len(messages) \in 0 .. Len(messages)
      BY <1>0, <2>1
    <3> QED  BY <3>1
  <2>2. CASE T # {}
    <3>1. T \in SUBSET Nat
      BY <1>0
    <3>2. PICK b \in T : \A m \in T : b <= m
      <4> HIDE DEF T
      <4> QED  BY <2>2, <3>1, LeastNumber
    <3>3. b \in 1 .. Len(messages) /\ ~parseable(messages[b])
      OBVIOUS
    <3>4. b - 1 \in 0 .. Len(messages) /\ b - 1 + 1 = b
      BY <1>0, <3>3
    <3>5. \A i \in 1 .. b - 1 : parseable(messages[i])
      <4> TAKE i \in 1 .. b - 1
      <4>1. i \in 1 .. Len(messages) /\ ~(b <= i)
        BY <1>0, <3>3
      <4> QED  BY <3>2, <4>1
    <3> QED  BY <3>3, <3>4, <3>5
  <2> QED  BY <2>1, <2>2
<1>2. Leading(messages) = CHOOSE n \in 0 .. Len(messages) : P(n)
  BY DEF Leading
<1> HIDE DEF P
<1>3. Leading(messages) \in 0 .. Len(messages) /\ P(Leading(messages))
  BY <1>1, <1>2
<1> QED
  BY <1>3 DEF P

(* A batch is decoded as a whole when every message of it parses.          *)
LEMMA DecodesWhole ==
    ASSUME NEW M, NEW messages \in Seq(M),
           \A i \in 1 .. Len(messages) : parseable(messages[i])
    PROVE  ~Decode(Body(messages)).err /\ Decode(Body(messages)).messages = messages
<1> DEFINE n == Leading(messages)
<1>1. n = Len(messages)
  <2>1. n \in 0 .. Len(messages) /\ (n < Len(messages) => ~parseable(messages[n + 1]))
    BY LeadingOf
  <2> HIDE DEF n
  <2> QED  BY <2>1
<1>2. SubSeq(messages, 1, Len(messages)) = messages
  OBVIOUS
<1> HIDE DEF n
<1>3. Decode(Body(messages)).messages = SubSeq(messages, 1, n)
  BY DEF Decode, Body, n
<1>4. ~Decode(Body(messages)).err
  <2>1. ~(n < Len(messages))
    BY <1>1
  <2> QED  BY <2>1, Zenon DEF Decode, Body, n
<1> QED
  BY <1>1, <1>2, <1>3, <1>4

(* And refused when one of them does not, wherever it stands.              *)
LEMMA DecodeRefuses ==
    ASSUME NEW M, NEW messages \in Seq(M),
           NEW i \in 1 .. Len(messages), ~parseable(messages[i])
    PROVE  Decode(Body(messages)).err
<1> DEFINE n == Leading(messages)
<1>1. n < Len(messages)
  <2>1. n \in 0 .. Len(messages) /\ \A j \in 1 .. n : parseable(messages[j])
    BY LeadingOf
  <2> HIDE DEF n
  <2> QED  BY <2>1
<1> HIDE DEF n
<1> QED
  BY <1>1, Zenon DEF Decode, Body, n

(* The replies of the model: an upsert alone is decoded, one with a tail   *)
(* is not.                                                                 *)
LEMMA ReplyDecoded ==
    ASSUME NEW entries
    PROVE  LET out == Decode(Body(<<Upsert(entries)>> \o Tails["ok"]))
           IN  ~out.err /\ out.messages[1].options = entries
<1> DEFINE m == Upsert(entries)
<1>1. parseable(m) /\ m.options = entries
  BY DEF Upsert, Msg, parseable, KnownNames, Named, NoCommand
<1>2. Tails["ok"] = << >>
  BY DEF Tails
<1> HIDE DEF m
<1>3. <<m>> \o << >> = <<m>> /\ <<m>> \in Seq({m}) /\ Len(<<m>>) = 1 /\ <<m>>[1] = m
  OBVIOUS
<1>4. \A i \in 1 .. Len(<<m>>) : parseable(<<m>>[i])
  <2> TAKE i \in 1 .. Len(<<m>>)
  <2>1. i = 1
    BY <1>3
  <2> QED  BY <1>1, <1>3, <2>1
<1>5. ~Decode(Body(<<m>>)).err /\ Decode(Body(<<m>>)).messages = <<m>>
  BY <1>3, <1>4, DecodesWhole
<1> QED
  BY <1>1, <1>2, <1>3, <1>5 DEF m

LEMMA TailRefused ==
    ASSUME NEW entries, NEW tail \in DOMAIN Tails, tail # "ok"
    PROVE  Decode(Body(<<Upsert(entries)>> \o Tails[tail])).err
<1> DEFINE m == Upsert(entries)
<1>1. PICK b : Tails[tail] = <<b>> /\ ~parseable(b)
  BY DEF Tails, Msg, parseable, KnownNames, Named, NoCommand
<1> HIDE DEF m
<1> DEFINE s == <<m>> \o <<b>>
<1>2. s \in Seq({m, b}) /\ Len(s) = 2 /\ s[2] = b
  OBVIOUS
<1> HIDE DEF s
<1>3. 2 \in 1 .. Len(s) /\ ~parseable(s[2])
  BY <1>1, <1>2
<1>4. Decode(Body(s)).err
  BY <1>2, <1>3, DecodeRefuses
<1> QED
  BY <1>1, <1>4 DEF s, m

-----------------------------------------------------------------------------
(* What a reply does.                                                      *)

LEMMA TailNames == DOMAIN Tails = {"ok", "unknown", "unread"}
  BY DEF Tails

(* A time that cannot be parsed fails the command.                         *)
LEMMA BadTimeFails ==
    ASSUME NEW e, BadTime(e)
    PROVE  FromEntry(e).do = "fail"
  BY DEF BadTime, FromEntry, FromTime, Fail, ValueTypes

(* The workflow fails and its attributes are untouched, or all the entries *)
(* of an upsert that stands alone are applied.                             *)
LEMMA ReplyEffect ==
    ASSUME NEW entries, NEW tail \in DOMAIN Tails, Reply(entries, tail)
    PROVE  \/ stage' = "failed" /\ attrs' = attrs
           \/ /\ stage' = stage /\ attrs' = Upserted(attrs, entries)
              /\ tail = "ok" /\ ~CommandFails(entries)
<1>1. Handle(<<Upsert(entries)>> \o Tails[tail])
  BY DEF Reply
<1>2. CASE tail = "ok"
  <2> DEFINE out == Decode(Body(<<Upsert(entries)>> \o Tails[tail]))
  <2>1. ~out.err /\ out.messages[1].options = entries
    BY <1>2, ReplyDecoded
  <2>2. \/ /\ ~CommandFails(out.messages[1].options)
           /\ attrs' = Upserted(attrs, out.messages[1].options) /\ UNCHANGED stage
        \/ stage' = "failed" /\ UNCHANGED attrs
    BY <1>1 DEF Handle
  <2> HIDE DEF out
  <2> QED  BY <1>2, <2>1, <2>2
<1>3. CASE tail # "ok"
  <2>1. Decode(Body(<<Upsert(entries)>> \o Tails[tail])).err
    BY <1>3, TailRefused
  <2> QED  BY <1>1, <2>1, Zenon DEF Handle
<1> QED
  BY <1>2, <1>3

(* A reply with a flaw changes no attribute.                               *)
LEMMA FlawedReply ==
    ASSUME NEW entries, NEW tail \in DOMAIN Tails, Reply(entries, tail), batch' # "ok"
    PROVE  attrs' = attrs
<1>1. batch' = IF \E k \in Keys : BadTime(entries[k]) THEN "badtime" ELSE tail
  BY DEF Reply
<1>2. CASE \E k \in Keys : BadTime(entries[k])
  <2>1. CommandFails(entries)
    BY <1>2, BadTimeFails DEF CommandFails
  <2> QED  BY <2>1, ReplyEffect
<1>3. CASE ~\E k \in Keys : BadTime(entries[k])
  <2>1. tail # "ok"
    BY <1>1, <1>3
  <2> QED  BY <2>1, ReplyEffect
<1> QED
  BY <1>2, <1>3

(* Nothing of a reply that cannot be handled as a whole takes effect       *)
(* (Decode, handleMessage): an unknown or unreadable message behind the    *)
(* upsert, or one bad time among its entries, in whatever order the map is *)
(* walked.                                                                 *)
THEOREM RepliesAllOrNothing == Spec => AllOrNothing
<1>1. ASSUME [Next]_vars
      PROVE  [batch' # "ok" => attrs' = attrs]_vars
  <2> SUFFICES ASSUME batch' # "ok"  PROVE attrs' = attrs \/ UNCHANGED vars
    OBVIOUS
  <2>1. CASE FetchWorkerInfo \/ StartWorkflow
    BY <2>1 DEF FetchWorkerInfo, StartWorkflow
  <2>2. CASE AnyReply
    <3>1. PICK k \in Keys, e \in EntrySet, f \in Few, tail \in DOMAIN Tails :
                 Reply([j \in Keys |-> IF j = k THEN e ELSE f], tail)
      BY <2>2 DEF AnyReply
    <3> QED  BY <3>1, FlawedReply
  <2>3. CASE Echo
    <3>1. Reply([k \in Keys |-> [told[k] EXCEPT !.op = "set"]], "ok") /\ "ok" \in DOMAIN Tails
      BY <2>3, TailNames DEF Echo
    <3> QED  BY <3>1, FlawedReply
  <2>4. CASE Done \/ UNCHANGED vars
    BY <2>4 DEF Done
  <2> QED  BY <1>1, <2>1, <2>2, <2>3, <2>4 DEF Next
<1> QED
  BY <1>1, PTL DEF Spec, AllOrNothing

-----------------------------------------------------------------------------
(* The inputs of the model have the shapes that are kept.                  *)

LEMMA TextsShaped ==
    ASSUME NEW text \in Texts
    PROVE  text \in Seq(Nat) /\ Len(text) = 3
<1>1. ASSUME NEW x \in Nat, NEW y \in Nat, NEW z \in Nat
      PROVE  <<x, y, z>> \in Seq(Nat) /\ Len(<<x, y, z>>) = 3
  OBVIOUS
<1>2. Plain \in Nat /\ Numeral \in Nat /\ RFC3339 \in Nat /\ MaxExact + 1 \in Nat
  BY MaxExactAssumption DEF Plain, Numeral, RFC3339
<1>3. CASE text = <<Plain, 1, 0>>
  BY <1>1, <1>2, <1>3
<1>4. CASE text = <<Numeral, MaxExact + 1, 0>>
  BY <1>1, <1>2, <1>4
<1>5. CASE text = <<RFC3339, 1, 1>>
  BY <1>1, <1>2, <1>5
<1> QED
  BY <1>3, <1>4, <1>5 DEF Texts

LEMMA AttrsShaped ==
    ASSUME NEW a \in AttrSet \cup {Absent}
    PROVE  Shaped(a) /\ a.type \in ValueTypes \cup {"none"} /\ a # NilList
<1>1. CASE a = Absent
  BY <1>1 DEF Absent, Shaped, Attr, NilList
<1>2. ASSUME NEW b \in {0, 1}, a = Attr("bool", <<b>>)
      PROVE  Shaped(a) /\ a.type \in ValueTypes /\ a # NilList
  BY <1>2 DEF Shaped, Attr, NilList, ValueTypes
<1>3. ASSUME NEW n \in Nat, NEW t \in {"int64", "float64"}, a = Attr(t, <<n>>)
      PROVE  Shaped(a) /\ a.type \in ValueTypes /\ a # NilList
  <2> DEFINE v == <<n>>
  <2>1. v \in Seq(Nat) /\ Len(v) = 1
    OBVIOUS
  <2> HIDE DEF v
  <2>2. a = Attr(t, v)
    BY <1>3 DEF v
  <2> QED  BY <2>1, <2>2 DEF Shaped, Attr, NilList, ValueTypes
<1>4. ASSUME NEW t \in {"string", "keyword"}, NEW text \in Texts, a = Attr(t, text)
      PROVE  Shaped(a) /\ a.type \in ValueTypes /\ a # NilList
  <2>1. text \in Seq(Nat) /\ Len(text) = 3
    BY TextsShaped
  <2> QED  BY <1>4, <2>1 DEF Shaped, Attr, NilList, ValueTypes
<1>5. ASSUME NEW f \in {0, 1}, a = Attr("datetime", <<1, f>>)
      PROVE  Shaped(a) /\ a.type \in ValueTypes /\ a # NilList
  <2> DEFINE v == <<1, f>>
  <2>1. v \in Seq(Nat) /\ Len(v) = 2
    OBVIOUS
  <2> HIDE DEF v
  <2>2. a = Attr("datetime", v)
    BY <1>5 DEF v
  <2> QED  BY <2>1, <2>2 DEF Shaped, Attr, NilList, ValueTypes
<1>6. ASSUME NEW l \in {<< >>, <<1, 2>>}, a = Attr("keyword_list", l)
      PROVE  Shaped(a) /\ a.type \in ValueTypes /\ a # NilList
  <2>1. l \in Seq(Nat \ {NotAWord}) /\ l # <<NotAWord>>
    <3>1. CASE l = << >>
      BY <3>1
    <3>2. CASE l = <<1, 2>>
      <4>1. <<1, 2>> \in Seq(Nat \ {NotAWord}) /\ Len(<<1, 2>>) = 2 /\ Len(<<NotAWord>>) = 1
        BY DEF NotAWord
      <4> QED  BY <3>2, <4>1
    <3> QED  BY <3>1, <3>2
  <2> QED  BY <1>6, <2>1 DEF Shaped, Attr, NilList, ValueTypes
<1>7. Ints \subseteq Nat
  BY MaxExactAssumption DEF Ints
<1>8. CASE a \in AttrSet
  <2>1. CASE \E b \in {0, 1} : a = Attr("bool", <<b>>)
    BY <1>2, <2>1
  <2>2. CASE \E n \in Ints : a = Attr("int64", <<n>>)
    BY <1>3, <1>7, <2>2
  <2>6. CASE \E h \in {1, 2} : a = Attr("float64", <<h>>)
    BY <1>3, <2>6
  <2>3. CASE \E t \in {"string", "keyword"}, text \in Texts : a = Attr(t, text)
    BY <1>4, <2>3
  <2>4. CASE \E f \in {0, 1} : a = Attr("datetime", <<1, f>>)
    BY <1>5, <2>4
  <2>5. CASE \E l \in {<< >>, <<1, 2>>} : a = Attr("keyword_list", l)
    BY <1>6, <2>5
  <2>7. \/ a \in {Attr("bool", <<b>>) : b \in {0, 1}}
        \/ a \in {Attr("int64", <<n>>) : n \in Ints}
        \/ a \in {Attr("float64", <<h>>) : h \in {1, 2}}
        \/ a \in {Attr(t, text) : t \in {"string", "keyword"}, text \in Texts}
        \/ a \in {Attr("datetime", <<1, f>>) : f \in {0, 1}}
        \/ a \in {Attr("keyword_list", l) : l \in {<< >>, <<1, 2>>}}
    BY <1>8 DEF AttrSet
  <2> QED  BY <2>1, <2>2, <2>3, <2>4, <2>5, <2>6, <2>7
<1> QED
  BY <1>1, <1>8

LEMMA EntriesCarried ==
    ASSUME NEW e \in EntrySet \cup Few
    PROVE  Carried(e)
<1>1. ASSUME NEW j \in JsonSet
      PROVE  /\ j.kind = "number" => j.v \in Seq(Nat) /\ Len(j.v) = 1
             /\ j.kind = "string" => j.v \in Seq(Nat) /\ Len(j.v) = 3
             /\ j.kind = "array" => j.v \in Seq(Nat)
  <2>1. CASE j \in {Null, Json("bool", <<1>>)}
    BY <2>1 DEF Null, Json
  <2>2. CASE j \in {Json("array", <<1, NotAWord, 2>>), Json("array", << >>)}
    <3>1. <<1, NotAWord, 2>> \in Seq(Nat) /\ << >> \in Seq(Nat)
      BY DEF NotAWord
    <3>2. j.kind = "array" /\ j.v \in {<<1, NotAWord, 2>>, << >>}
      BY <2>2 DEF Json
    <3> QED  BY <3>1, <3>2
  <2>3. ASSUME NEW h \in Nat, j = Json("number", <<h>>)
        PROVE  j.v \in Seq(Nat) /\ Len(j.v) = 1 /\ j.kind = "number"
    BY <2>3 DEF Json
  <2>4. ASSUME NEW text \in Texts, j = Json("string", text)
        PROVE  j.v \in Seq(Nat) /\ Len(j.v) = 3 /\ j.kind = "string"
    <3>1. text \in Seq(Nat) /\ Len(text) = 3
      BY TextsShaped
    <3> QED  BY <2>4, <3>1 DEF Json
  <2>5. {1} \cup {2 * n : n \in Ints} \subseteq Nat
    BY MaxExactAssumption DEF Ints
  <2> QED  BY <2>1, <2>2, <2>3, <2>4, <2>5 DEF JsonSet
<1>2. Null \in JsonSet /\ Json("bool", <<1>>) \in JsonSet /\ Json("string", <<Plain, 1, 0>>) \in JsonSet
  BY DEF JsonSet, Texts
<1>3. \E j \in JsonSet : \E t, op : e = Entry(t, op, j)
  <2>1. CASE e \in EntrySet
    BY <1>2, <2>1 DEF EntrySet
  <2>2. CASE e \in Few
    BY <1>2, <2>2 DEF Few, NoEntry
  <2> QED  BY <2>1, <2>2
<1> QED
  BY <1>1, <1>3 DEF Carried, Entry

-----------------------------------------------------------------------------
(* The invariants.                                                         *)

(* An upsert keeps the shapes.                                             *)
LEMMA UpsertKeeps ==
    ASSUME AttrInvariant, \A k \in Keys : attrs[k].type \in ValueTypes \cup {"none"},
           NEW entries, \A k \in Keys : Carried(entries[k])
    PROVE  LET sa == Upserted(attrs, entries)
           IN  /\ sa = [k \in Keys |-> sa[k]]
               /\ \A k \in Keys : Shaped(sa[k]) /\ sa[k].type \in ValueTypes \cup {"none"}
<1> DEFINE sa == Upserted(attrs, entries)
<1>1. sa = [k \in Keys |-> sa[k]]
  BY DEF Upserted
<1>2. ASSUME NEW k \in Keys
      PROVE  Shaped(sa[k]) /\ sa[k].type \in ValueTypes \cup {"none"}
  <2> DEFINE u == FromEntry(entries[k])
  <2>1. sa[k] = CASE u.do = "set" -> u.attr [] u.do = "unset" -> Absent [] OTHER -> attrs[k]
    BY DEF Upserted
  <2>2. u.do = "set" => Shaped(u.attr) /\ u.attr.type \in ValueTypes
    BY SetIsShaped
  <2>3. Shaped(Absent) /\ Absent.type = "none"
    BY DEF Shaped, Absent, Attr
  <2>4. Shaped(attrs[k]) /\ attrs[k].type \in ValueTypes \cup {"none"}
    BY DEF AttrInvariant
  <2> HIDE DEF sa, u
  <2> QED  BY <2>1, <2>2, <2>3, <2>4
<1> QED
  BY <1>1, <1>2

LEMMA ReplyKeeps ==
    ASSUME TypeOK, AttrInvariant,
           NEW entries, NEW tail \in DOMAIN Tails, Reply(entries, tail),
           \A k \in Keys : Carried(entries[k])
    PROVE  TypeOK' /\ AttrInvariant'
<1>1. /\ stage = "running" /\ upserts < MaxUpserts /\ upserts' = upserts + 1
      /\ batch' \in {"badtime", tail} /\ told' = told
  BY DEF Reply
<1>2. /\ batch' \in {"ok", "unknown", "unread", "badtime"}
      /\ upserts' \in 0 .. MaxUpserts
  BY <1>1, TailNames, UpsertsAssumption DEF TypeOK
<1>3. stage' \in {"running", "failed"}
  BY <1>1, ReplyEffect
<1>4. /\ attrs' = [k \in Keys |-> attrs'[k]]
      /\ \A k \in Keys : Shaped(attrs'[k]) /\ attrs'[k].type \in ValueTypes \cup {"none"}
  <2>1. CASE attrs' = attrs
    BY <2>1 DEF TypeOK, AttrInvariant
  <2>2. CASE attrs' = Upserted(attrs, entries)
    BY <2>2, UpsertKeeps DEF TypeOK
  <2> QED  BY <2>1, <2>2, ReplyEffect
<1> QED
  BY <1>1, <1>2, <1>3, <1>4 DEF TypeOK, AttrInvariant

LEMMA InitShapes == Init => TypeOK /\ AttrInvariant
<1> SUFFICES ASSUME Init  PROVE TypeOK /\ AttrInvariant
  OBVIOUS
<1>1. PICK k \in Keys, a \in AttrSet \cup {Absent} :
             attrs = [j \in Keys |-> IF j = k THEN a ELSE Absent]
  BY DEF Init
<1>2. Absent \in AttrSet \cup {Absent}
  OBVIOUS
<1>3. \A j \in Keys : attrs[j] \in AttrSet \cup {Absent}
  BY <1>1, <1>2
<1>4. \A j \in Keys : /\ Shaped(attrs[j]) /\ attrs[j] # NilList
                      /\ attrs[j].type \in ValueTypes \cup {"none"}
  BY <1>3, AttrsShaped
<1>5. told = [j \in Keys |-> NoEntry] /\ stage = "boot" /\ batch = "ok" /\ upserts = 0
  BY DEF Init
<1>6. NoEntry.type = "none" /\ Carried(NoEntry)
  <2>1. NoEntry \in Few
    BY DEF Few
  <2> QED  BY <2>1, EntriesCarried DEF NoEntry, Entry
<1>7. TypeOK
  BY <1>4, <1>5, <1>6, UpsertsAssumption DEF TypeOK
<1>8. attrs = [j \in Keys |-> attrs[j]] /\ told = [j \in Keys |-> told[j]]
  BY <1>1, <1>5
<1>9. AttrInvariant
  BY <1>4, <1>5, <1>6, <1>8 DEF AttrInvariant
<1> QED
  BY <1>7, <1>9

(* The worker is told every attribute, each with its value.                *)
LEMMA StartTells ==
    ASSUME TypeOK, AttrInvariant, StartWorkflow
    PROVE  TypeOK' /\ AttrInvariant'
<1> DEFINE entries == [k \in Keys |-> ToEntry(attrs[k])]
           m == Msg(1, "StartWorkflow", entries, TRUE, NoFailure, << >>)
<1>1. /\ stage = "ready" /\ stage' \in {"failed", "running"}
      /\ told' \in {told, entries}
      /\ attrs' = attrs /\ batch' = batch /\ upserts' = upserts
  <2>1. m.options = entries /\ packable(m)
    BY DEF Msg, packable, Named, NoCommand
  <2>2. told' \in {told, Encode(<<m>>).body.messages[1].options}
    BY Zenon DEF StartWorkflow
  <2>3. /\ stage = "ready" /\ stage' \in {"failed", "running"}
        /\ attrs' = attrs /\ batch' = batch /\ upserts' = upserts
    BY Zenon DEF StartWorkflow
  <2> HIDE DEF m
  <2>4. <<m>>[1] = m /\ DOMAIN <<m>> = {1}
    OBVIOUS
  <2>5. \A i \in DOMAIN <<m>> : packable(<<m>>[i])
    BY <2>1, <2>4
  <2>6. Encode(<<m>>) = [err |-> FALSE, body |-> Body(<<m>>)]
    BY <2>5, Zenon DEF Encode
  <2>7. Encode(<<m>>).body.messages = <<m>>
    BY <2>6 DEF Body
  <2> QED  BY <2>1, <2>2, <2>3, <2>4, <2>7
<1>2. \A k \in Keys : /\ Carried(entries[k])
                      /\ entries[k].type = "none" \/ entries[k].value.kind # "null"
  BY <1>1, ToldIsCarried DEF TypeOK, AttrInvariant
<1>3. entries = [k \in Keys |-> entries[k]]
  OBVIOUS
<1> HIDE DEF entries
<1>4. CASE told' = told
  BY <1>1, <1>4 DEF TypeOK, AttrInvariant
<1>5. CASE told' = entries
  <2>1. TypeOK'
    BY <1>1, <1>2, <1>5 DEF TypeOK
  <2>2. told' = [k \in Keys |-> told'[k]]
    BY <1>3, <1>5, Zenon
  <2>4. \A k \in Keys : Carried(told'[k])
    <3> TAKE k \in Keys
    <3>1. told'[k] = entries[k]
      BY <1>5
    <3>2. Carried(entries[k])
      BY <1>2
    <3> QED  BY <3>1, <3>2
  <2>3. AttrInvariant'
    BY <1>1, <2>2, <2>4 DEF AttrInvariant
  <2> QED  BY <2>1, <2>3
<1> QED
  BY <1>1, <1>4, <1>5

LEMMA NextKeepsShapes ==
    ASSUME TypeOK, AttrInvariant, [Next]_vars
    PROVE  TypeOK' /\ AttrInvariant'
<1>1. CASE FetchWorkerInfo
  <2>1. /\ stage = "boot" /\ stage' \in {"failed", "ready"}
        /\ attrs' = attrs /\ told' = told /\ batch' = batch /\ upserts' = upserts
    BY <1>1 DEF FetchWorkerInfo
  <2> QED  BY <2>1 DEF TypeOK, AttrInvariant
<1>2. CASE StartWorkflow
  BY <1>2, StartTells
<1>3. CASE AnyReply
  <2>1. PICK k \in Keys, e \in EntrySet, f \in Few, tail \in DOMAIN Tails :
               Reply([j \in Keys |-> IF j = k THEN e ELSE f], tail)
    BY <1>3 DEF AnyReply
  <2> DEFINE entries == [j \in Keys |-> IF j = k THEN e ELSE f]
  <2>2. Carried(e) /\ Carried(f)
    BY EntriesCarried
  <2>3. \A j \in Keys : Carried(entries[j])
    BY <2>2
  <2> HIDE DEF entries
  <2>4. Reply(entries, tail)
    BY <2>1 DEF entries
  <2> QED  BY <2>3, <2>4, ReplyKeeps
<1>4. CASE Echo
  <2> DEFINE entries == [k \in Keys |-> [told[k] EXCEPT !.op = "set"]]
  <2>1. Reply(entries, "ok") /\ "ok" \in DOMAIN Tails
    BY <1>4, TailNames DEF Echo
  <2>2. ASSUME NEW k \in Keys
        PROVE  Carried(entries[k])
    <3>1. told[k] = Entry(told[k].type, told[k].op, told[k].value) /\ Carried(told[k])
      BY DEF AttrInvariant, Carried
    <3>2. entries[k] = Entry(told[k].type, "set", told[k].value)
      BY <3>1 DEF Entry
    <3> QED  BY <3>1, <3>2 DEF Carried, Entry
  <2> HIDE DEF entries
  <2> QED  BY <2>1, <2>2, ReplyKeeps
<1>5. CASE Done \/ UNCHANGED vars
  BY <1>5 DEF Done, vars, TypeOK, AttrInvariant
<1> QED
  BY <1>1, <1>2, <1>3, <1>4, <1>5 DEF Next

(* Every value is well formed on both sides of the wire, and the worker is *)
(* never told an attribute without its value (Execute), whatever replies   *)
(* it has upserted from.                                                   *)
THEOREM WireTypes == Spec => []TypeOK
<1>1. Init => TypeOK /\ AttrInvariant
  BY InitShapes
<1>2. TypeOK /\ AttrInvariant /\ [Next]_vars => (TypeOK /\ AttrInvariant)'
  BY NextKeepsShapes
<1> QED
  BY <1>1, <1>2, PTL DEF Spec

(* A worker that echoes an attribute sets it to the value it has, unless   *)
(* it is an int64 beyond 2^53, a time with a fraction or an empty list,    *)
(* and always with its type: the switches of Execute and of handleMessage  *)
(* agree, for every attribute a reply of the worker can have upserted.     *)
THEOREM AttributesRoundTrip == Spec => []RoundTrips
<1>1. Init => TypeOK /\ AttrInvariant
  BY InitShapes
<1>2. TypeOK /\ AttrInvariant /\ [Next]_vars => (TypeOK /\ AttrInvariant)'
  BY NextKeepsShapes
<1>3. TypeOK /\ AttrInvariant => RoundTrips
  BY BackAgain DEF TypeOK, AttrInvariant, RoundTrips
<1> QED
  BY <1>1, <1>2, <1>3, PTL DEF Spec
=============================================================================
