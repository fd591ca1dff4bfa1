----------------------------- MODULE WireProofs -----------------------------
(***************************************************************************)
(* Theorems about module Wire, for every message, every ceiling and any    *)
(* number of differences.                                                  *)
(***************************************************************************)
EXTENDS Wire, Foundations, FiniteSetTheorems, TLAPS

\* What the encoding is made of.
Token == {Nil} \cup ({"str", "bin"} \X Texts) \cup ({"map", "array"} \X Nat)
         \cup ({"int"} \X Int) \cup ({"bool"} \X BOOLEAN)
Tokens == Seq(Token)

\* A result with what follows the value.
Onto(res, rest) == IF res.ok THEN Got(res.value, rest) ELSE Refused

\* The parts of a result.
LEMMA GotFacts ==
  ASSUME NEW value, NEW rest
  PROVE  /\ Got(value, rest).ok /\ Got(value, rest).value = value
         /\ Got(value, rest).rest = rest /\ ~Refused.ok
         /\ Onto(Got(value, rest), rest) = Got(value, rest)
BY DEF Got, Refused, Onto

\* Two sequences put together.
LEMMA ConcatFacts ==
  ASSUME NEW S, NEW s \in Seq(S), NEW t \in Seq(S)
  PROVE  /\ s \o t \in Seq(S) /\ Len(s \o t) = Len(s) + Len(t)
         /\ Len(s) \in Nat /\ Len(t) \in Nat
         /\ \A i \in 1..Len(s) : (s \o t)[i] = s[i]
         /\ \A i \in 1..Len(t) : (s \o t)[Len(s) + i] = t[i]
OBVIOUS

\* What is left of them.
LEMMA SliceOfConcat ==
  ASSUME NEW S, NEW s \in Seq(S), NEW t \in Seq(S), NEW a \in 0..Len(s)
  PROVE  /\ SubSeq(s, a + 1, Len(s)) \in Seq(S)
         /\ SubSeq(s \o t, a + 1, Len(s \o t)) = SubSeq(s, a + 1, Len(s)) \o t
<1>. DEFINE l == SubSeq(s \o t, a + 1, Len(s \o t))
            r == SubSeq(s, a + 1, Len(s)) \o t
            n == Len(s) - a + Len(t)
<1>1. SubSeq(s, a + 1, Len(s)) \in Seq(S) /\ Len(SubSeq(s, a + 1, Len(s))) = Len(s) - a
  OBVIOUS
<1>2. l \in Seq(S) /\ Len(l) = n /\ \A i \in 1..n : l[i] = (s \o t)[a + i]
  OBVIOUS
<1>3. r \in Seq(S) /\ Len(r) = n
      /\ \A i \in 1..n : r[i] = IF i <= Len(s) - a THEN s[a + i] ELSE t[i - (Len(s) - a)]
  OBVIOUS
<1>4. \A i \in 1..n : l[i] = r[i]
  <2>1. \A i \in 1..n : (s \o t)[a + i] = IF i <= Len(s) - a THEN s[a + i]
                                                         ELSE t[i - (Len(s) - a)]
    OBVIOUS
  <2>. HIDE DEF l, r, n
  <2>. QED  BY <1>2, <1>3, <2>1
<1>. HIDE DEF l, r, n
<1>5. l = r
  BY <1>2, <1>3, <1>4
<1>. QED  BY <1>1, <1>5 DEF l, r

-----------------------------------------------------------------------------
(***************************************************************************)
(* One token.                                                              *)
(***************************************************************************)

\* A token is read and the rest is left.
LEMMA TokenReads ==
  ASSUME NEW t \in Token, NEW rest \in Tokens, NEW type
  PROVE  /\ <<t>> \o rest \in Tokens /\ <<t>> \o rest # <<>>
         /\ Head(<<t>> \o rest) = t /\ Tail(<<t>> \o rest) = rest
         /\ ReadToken(<<t>> \o rest, type) =
               IF t[1] = type THEN Got(t[2], rest) ELSE Refused
<1>. DEFINE r == <<t>> \o rest
<1>1. r \in Tokens /\ r # <<>> /\ Head(r) = t /\ Tail(r) = rest
  BY DEF Tokens
<1>. HIDE DEF r
<1>2. ReadToken(r, type) = IF t[1] = type THEN Got(t[2], rest) ELSE Refused
  BY <1>1 DEF ReadToken
<1>. QED  BY <1>1, <1>2 DEF r

\* The tokens there are.
LEMMA TokenTypes ==
  /\ Nil \in Token /\ Nil[1] = "nil"
  /\ \A s \in Texts : <<"str", s>> \in Token /\ <<"bin", s>> \in Token
  /\ \A n \in Nat : <<"map", n>> \in Token /\ <<"array", n>> \in Token
  /\ \A n \in Int : <<"int", n>> \in Token
  /\ \A b \in BOOLEAN : <<"bool", b>> \in Token
BY DEF Token, Nil

\* The protocol's own strings are strings.
LEMMA VocabularyFacts ==
  /\ RequestFields \subseteq Texts /\ ReplyFields \subseteq Texts
  /\ RootFields \subseteq Texts
  /\ {"subscribe", "status", "reload", "degraded", "future", "inner", "x"} \subseteq Texts
BY WireAssumption DEF Vocabulary

\* A token that is there, and what follows it.
LEMMA TokenTaken ==
  ASSUME NEW r \in Tokens, NEW type, ReadToken(r, type).ok
  PROVE  /\ r # <<>> /\ Head(r) \in Token /\ Tail(r) \in Tokens
         /\ Head(r)[1] = type
         /\ ReadToken(r, type) = Got(Head(r)[2], Tail(r))
         /\ r = <<Head(r)>> \o Tail(r)
<1>1. r # <<>> /\ Head(r)[1] = type
  BY DEF ReadToken, Refused
<1>2. Head(r) \in Token /\ Tail(r) \in Tokens /\ r = <<Head(r)>> \o Tail(r)
  BY <1>1 DEF Tokens
<1>. QED  BY <1>1, <1>2 DEF ReadToken

\* More at the end does not change what is read.
LEMMA TokenExtends ==
  ASSUME NEW r \in Tokens, NEW q \in Tokens, NEW type, ReadToken(r, type).ok
  PROVE  /\ ReadToken(r \o q, type) = Got(ReadToken(r, type).value, ReadToken(r, type).rest \o q)
         /\ ReadToken(r, type).rest \in Tokens
<1>. DEFINE t == Head(r)
            s == Tail(r)
<1>1. /\ r = <<t>> \o s /\ t \in Token /\ s \in Tokens /\ t[1] = type
      /\ ReadToken(r, type) = Got(t[2], s)
  BY TokenTaken
<1>. HIDE DEF t, s
<1>2. r \o q = <<t>> \o (s \o q) /\ s \o q \in Tokens
  <2>1. <<t>> \in Tokens
    BY <1>1 DEF Tokens
  <2>. QED  BY <1>1, <2>1, ConcatAssoc, ConcatType DEF Tokens
<1>3. ReadToken(<<t>> \o (s \o q), type) = Got(t[2], s \o q)
  BY <1>1, <1>2, TokenReads
<1>4. Got(t[2], s).value = t[2] /\ Got(t[2], s).rest = s
  BY DEF Got
<1>5. ReadToken(r \o q, type) = Got(t[2], s \o q)
  BY <1>2, <1>3
<1>. QED  BY <1>1, <1>4, <1>5

-----------------------------------------------------------------------------
(***************************************************************************)
(* Values of one kind.                                                     *)
(***************************************************************************)

\* The bytes of tokens: at least one each.
LEMMA SizePass ==
  ASSUME NEW r \in Tokens
  PROVE  \E f \in [0..Len(r) -> Nat] :
            /\ f[0] = 0
            /\ \A i \in 1..Len(r) : f[i] = f[i - 1] + Bytes(r[i]) /\ Bytes(r[i]) \in Nat \ {0}
            /\ Size(r) = f[Len(r)]
<1>. DEFINE n == Len(r)
            step == [i \in 1..n |-> [x \in Nat |-> x + Bytes(r[i])]]
            sum[i \in 0..Len(r)] == IF i = 0 THEN 0 ELSE sum[i - 1] + Bytes(r[i])
<1>1. n \in Nat
  BY DEF Tokens
<1>2. ASSUME NEW i \in 1..n  PROVE Bytes(r[i]) \in Nat \ {0}
  <2>. DEFINE t == r[i]
  <2>1. t \in Token
    BY DEF Tokens
  <2>. HIDE DEF t
  <2>2. t[1] \in {"str", "bin"} => t[2] \in Texts
    BY <2>1 DEF Token, Nil
  <2>. QED  BY <2>2, WireAssumption DEF Bytes, t
<1>3. step \in StepsOf(n, Nat)
  BY <1>1, <1>2 DEF StepsOf
<1>4. PICK f \in [0..n -> Nat] :
        f[0] = 0 /\ \A i \in 1..n : f[i] = step[i][f[i - 1]]
  <2>. HIDE DEF step, n
  <2>1. \E f : IsPass(f, n, Nat, 0, step)
    BY <1>1, <1>3, PassExists
  <2>. QED  BY <2>1 DEF IsPass
<1>5. \A i \in 1..n : f[i] = f[i - 1] + Bytes(r[i])
  <2>1. \A i \in 1..n : i - 1 \in 0..n
    BY <1>1
  <2>2. \A i \in 1..n, x \in Nat : step[i][x] = x + Bytes(r[i])
    OBVIOUS
  <2>. HIDE DEF step, n
  <2>. QED  BY <1>4, <2>1, <2>2
<1>6. f = [i \in 0..n |-> IF i = 0 THEN 0 ELSE f[i - 1] + Bytes(r[i])]
  <2>1. \A i \in 0..n : i # 0 => i \in 1..n
    BY <1>1
  <2>. HIDE DEF step, n
  <2>2. f = [i \in 0..n |-> f[i]]
    BY <1>4
  <2>. QED  BY <1>4, <1>5, <2>1, <2>2
<1>7. sum = [i \in 0..n |-> IF i = 0 THEN 0 ELSE sum[i - 1] + Bytes(r[i])]
  BY <1>6
<1>8. Size(r) = sum[n]
  BY DEF Size
<1>. HIDE DEF sum, step
<1>9. sum[n] = f[n]
  <2>. DEFINE T == {k \in 0..n : sum[k] = f[k]}
  <2>1. 0 \in T
    BY <1>1, <1>4, <1>7
  <2>2. ASSUME NEW i \in 1..n, i - 1 \in T PROVE i \in T
    <3>1. i \in 0..n /\ i # 0
      BY <1>1
    <3>2. sum[i] = sum[i - 1] + Bytes(r[i])
      BY <1>7, <3>1
    <3>. QED  BY <1>5, <2>2, <3>1, <3>2
  <2>3. \A i \in 0..n : i \in T
    <3>. HIDE DEF T
    <3>. QED  BY <1>1, <2>1, <2>2, CountUp
  <2>4. n \in 0..n
    BY <1>1
  <2>. QED  BY <2>3, <2>4
<1>. QED  BY <1>2, <1>4, <1>5, <1>8, <1>9

\* A message is not shorter in bytes than in tokens, and the beginning of one
\* is no longer than the whole.
LEMMA SizeFacts ==
  ASSUME NEW r \in Tokens, NEW q \in Tokens
  PROVE  /\ Size(r) \in Nat /\ Len(r) <= Size(r)
         /\ Size(r) <= Size(r \o q)
<1>. DEFINE n == Len(r)
            w == r \o q
            m == Len(w)
<1>1. /\ n \in Nat /\ m \in Nat /\ n <= m /\ w \in Tokens
      /\ \A i \in 1..n : w[i] = r[i]
  BY DEF Tokens
<1>2. PICK f \in [0..n -> Nat] :
         /\ f[0] = 0
         /\ \A i \in 1..n : f[i] = f[i - 1] + Bytes(r[i]) /\ Bytes(r[i]) \in Nat \ {0}
         /\ Size(r) = f[n]
  BY SizePass
<1>. HIDE DEF w
<1>3. PICK g \in [0..m -> Nat] :
         /\ g[0] = 0
         /\ \A i \in 1..m : g[i] = g[i - 1] + Bytes(w[i]) /\ Bytes(w[i]) \in Nat \ {0}
         /\ Size(w) = g[m]
  BY <1>1, SizePass
<1>. HIDE DEF n, m, w
<1>4. n \in {i \in 0..n : i <= f[i] /\ f[i] = g[i]}
  <2>. DEFINE T == {i \in 0..n : i <= f[i] /\ f[i] = g[i]}
  <2>1. 0 \in T
    BY <1>1, <1>2, <1>3
  <2>2. ASSUME NEW i \in 1..n, i - 1 \in T PROVE i \in T
    <3>1. i \in 0..n /\ i - 1 \in 0..n /\ i \in 1..m
      BY <1>1
    <3>2. f[i] = f[i - 1] + Bytes(r[i]) /\ g[i] = g[i - 1] + Bytes(r[i]) /\ Bytes(r[i]) \in Nat \ {0}
      BY <1>1, <1>2, <1>3, <3>1
    <3>3. i - 1 <= f[i - 1] /\ f[i - 1] = g[i - 1] /\ f[i - 1] \in Nat
      BY <1>2, <2>2, <3>1
    <3>4. i <= f[i] /\ f[i] = g[i]
      BY <3>2, <3>3
    <3>. QED  BY <3>1, <3>4
  <2>3. \A i \in 0..n : i \in T
    <3>. HIDE DEF T
    <3>. QED  BY <1>1, <2>1, <2>2, CountUp
  <2>4. n \in 0..n
    BY <1>1
  <2>. QED  BY <2>3, <2>4
<1>5. \A i \in 0..m : i \in {k \in 0..m : k >= n => g[n] <= g[k]}
  <2>. DEFINE T == {k \in 0..m : k >= n => g[n] <= g[k]}
  <2>1. 0 \in T
    BY <1>1, <1>3
  <2>2. ASSUME NEW i \in 1..m, i - 1 \in T PROVE i \in T
    <3>1. i \in 0..m /\ i - 1 \in 0..m /\ n \in 0..m
      BY <1>1
    <3>2. g[i] = g[i - 1] + Bytes(w[i]) /\ Bytes(w[i]) \in Nat
          /\ g[i] \in Nat /\ g[i - 1] \in Nat /\ g[n] \in Nat
      BY <1>3, <3>1
    <3>3. g[i - 1] <= g[i]
      BY <3>2
    <3>4. CASE i <= n
      <4>1. i >= n => i = n
        BY <1>1, <3>1, <3>4
      <4>. QED  BY <3>1, <3>2, <4>1
    <3>5. CASE ~(i <= n)
      <4>1. i - 1 >= n
        BY <1>1, <3>1, <3>5
      <4>2. g[n] <= g[i - 1]
        BY <2>2, <4>1
      <4>3. g[n] <= g[i]
        BY <3>2, <3>3, <4>2
      <4>. QED  BY <3>1, <4>3
    <3>. QED  BY <3>4, <3>5
  <2>. HIDE DEF T
  <2>3. \A i \in 0..m : i \in T
    BY <1>1, <2>1, <2>2, CountUp
  <2>. QED  BY <2>3 DEF T
<1>6. m \in 0..m /\ n \in 0..n
  BY <1>1
<1>7. n <= f[n] /\ f[n] = g[n] /\ g[n] <= g[m] /\ f[n] \in Nat
  BY <1>1, <1>2, <1>4, <1>5, <1>6
<1>. QED  BY <1>2, <1>3, <1>7 DEF n, m, w

\* Strings are read as they were written.
LEMMA StringsRead ==
  ASSUME NEW list \in Seq(Texts), NEW rest \in Tokens
  PROVE  /\ Strings(list) \in Tokens /\ Len(Strings(list)) = Len(list)
         /\ ReadStrings(Strings(list) \o rest, Len(list)) = Got(list, rest)
<1>. DEFINE n == Len(list)
            s == Strings(list)
            r == s \o rest
<1>1. n \in Nat /\ DOMAIN list = 1..n /\ \A i \in 1..n : list[i] \in Texts
  OBVIOUS
<1>2. s = [i \in 1..n |-> <<"str", list[i]>>]
  BY <1>1 DEF Strings
<1>3. s \in [1..n -> Token]
  BY <1>1, <1>2, TokenTypes
<1>4. s \in Tokens /\ Len(s) = n
  <2>. HIDE DEF s, n
  <2>. QED  BY <1>1, <1>3, FunctionIsSeq DEF Tokens
<1>5. \A i \in 1..n : s[i][1] = "str" /\ s[i][2] = list[i]
  <2>. HIDE DEF n, s
  <2>. QED  BY <1>2
<1>. HIDE DEF s
<1>6. n <= Len(r) /\ \A i \in 1..n : r[i] = s[i]
  BY <1>4 DEF Tokens
<1>7. SubSeq(r, n + 1, Len(r)) = rest
  BY <1>4 DEF Tokens
<1>8. [i \in 1..n |-> r[i][2]] = list
  <2>1. list = [i \in 1..n |-> list[i]]
    OBVIOUS
  <2>. HIDE DEF n, r
  <2>. QED  BY <1>5, <1>6, <2>1
<1>9. ReadStrings(r, n) = Got(list, rest)
  <2>. HIDE DEF n, r
  <2>. QED  BY <1>5, <1>6, <1>7, <1>8 DEF ReadStrings
<1>. QED  BY <1>4, <1>9 DEF s

\* So is their count, and it is not past what is left.
LEMMA ListReads ==
  ASSUME NEW list \in Seq(Texts), NEW rest \in Tokens
  PROVE  LET w == <<<<"array", Len(list)>>>> \o Strings(list)
         IN  w \in Tokens /\ ReadList(w \o rest) = Got(list, rest)
<1>. DEFINE n == Len(list)
            s == Strings(list)
            t == <<"array", n>>
<1>1. n \in Nat /\ t \in Token /\ t[1] = "array" /\ t[2] = n
  <2>1. n \in Nat
    OBVIOUS
  <2>. HIDE DEF n
  <2>. QED  BY <2>1, TokenTypes
<1>2. s \in Tokens /\ Len(s) = n /\ ReadStrings(s \o rest, n) = Got(list, rest)
  BY StringsRead
<1>. HIDE DEF n, s, t
<1>3. s \o rest \in Tokens /\ <<t>> \in Tokens
  BY <1>1, <1>2 DEF Tokens
<1>4. n <= Size(s \o rest)
  <2>1. Size(s) \in Nat /\ n <= Size(s) /\ Size(s) <= Size(s \o rest) /\ Size(s \o rest) \in Nat
    BY <1>2, <1>3, SizeFacts
  <2>. QED  BY <1>1, <2>1
<1>5. ReadToken(<<t>> \o (s \o rest), "array") = Got(n, s \o rest)
  BY <1>1, <1>3, TokenReads
<1>6. ReadList(<<t>> \o (s \o rest)) = Got(list, rest)
  BY <1>2, <1>4, <1>5, GotFacts DEF ReadList
<1>7. (<<t>> \o s) \o rest = <<t>> \o (s \o rest)
  <2>1. <<t>> \in Tokens /\ s \in Tokens /\ rest \in Tokens
    BY <1>2, <1>3
  <2>. DEFINE h == <<t>>
  <2>. HIDE DEF h, s, t
  <2>2. Associate(h, s, rest)
    BY <2>1, Associative DEF Tokens, h
  <2>. QED  BY <2>2, Zenon DEF Associate, h
<1>8. <<t>> \o s \in Tokens
  BY <1>2, <1>3, ConcatType DEF Tokens
<1>. QED  BY <1>6, <1>7, <1>8 DEF n, s, t

\* More at the end does not change the strings that are read.
LEMMA StringsExtend ==
  ASSUME NEW r \in Tokens, NEW q \in Tokens, NEW n \in Nat, ReadStrings(r, n).ok
  PROVE  /\ ReadStrings(r \o q, n) = Got(ReadStrings(r, n).value, ReadStrings(r, n).rest \o q)
         /\ ReadStrings(r, n).rest \in Tokens
<1>. DEFINE w == r \o q
            rest == SubSeq(r, n + 1, Len(r))
            value == [i \in 1..n |-> r[i][2]]
<1>1. n <= Len(r) /\ \A i \in 1..n : r[i][1] = "str"
  BY DEF ReadStrings, Refused
<1>2. ReadStrings(r, n) = Got(value, rest)
  BY <1>1 DEF ReadStrings
<1>3. Len(w) \in Nat /\ n <= Len(w) /\ \A i \in 1..n : w[i] = r[i]
  BY <1>1 DEF Tokens
<1>4. rest \in Tokens /\ SubSeq(w, n + 1, Len(w)) = rest \o q
  <2>1. n \in 0..Len(r)
    BY <1>1 DEF Tokens
  <2>. QED  BY <2>1, SliceOfConcat DEF Tokens
<1>5. [i \in 1..n |-> w[i][2]] = value
  <2>. HIDE DEF w
  <2>. QED  BY <1>3
<1>. HIDE DEF w, rest, value
<1>6. ReadStrings(w, n) = Got(value, rest \o q)
  BY <1>1, <1>3, <1>4, <1>5 DEF ReadStrings
<1>7. Got(value, rest).value = value /\ Got(value, rest).rest = rest
  BY DEF Got
<1>. QED  BY <1>2, <1>4, <1>6, <1>7 DEF w

\* The count of a list is one.
LEMMA HeadNumber ==
  ASSUME NEW r \in Tokens, NEW type \in {"map", "array"}, ReadToken(r, type).ok
  PROVE  ReadToken(r, type).value \in Nat
<1>1. Head(r) \in Token /\ Head(r)[1] = type /\ ReadToken(r, type) = Got(Head(r)[2], Tail(r))
  BY TokenTaken
<1>2. Head(r)[2] \in Nat
  BY <1>1 DEF Token, Nil
<1>. QED  BY <1>1, <1>2 DEF Got

\* A list, with more at the end.
LEMMA ListExtends ==
  ASSUME NEW r \in Tokens, NEW q \in Tokens, ReadList(r).ok
  PROVE  /\ ReadList(r \o q) = Got(ReadList(r).value, ReadList(r).rest \o q)
         /\ ReadList(r).rest \in Tokens
<1>. DEFINE head == ReadToken(r, "array")
            n == head.value
            rest == head.rest
<1>1. head.ok /\ n <= Size(rest) /\ ReadList(r) = ReadStrings(rest, n)
  BY DEF ReadList, Refused
<1>2. ReadToken(r \o q, "array") = Got(n, rest \o q) /\ rest \in Tokens /\ n \in Nat
  BY <1>1, TokenExtends, HeadNumber
<1>. HIDE DEF n, rest
<1>3. n <= Size(rest \o q)
  <2>1. rest \o q \in Tokens
    BY <1>2, ConcatType DEF Tokens
  <2>2. Size(rest) \in Nat /\ Size(rest) <= Size(rest \o q) /\ Size(rest \o q) \in Nat
    BY <1>2, <2>1, SizeFacts
  <2>. QED  BY <1>1, <1>2, <2>2
<1>4. ReadList(r \o q) = ReadStrings(rest \o q, n)
  BY <1>2, <1>3, GotFacts DEF ReadList
<1>. QED  BY <1>1, <1>2, <1>4, StringsExtend

-----------------------------------------------------------------------------
(***************************************************************************)
(* Values that are skipped.                                                *)
(***************************************************************************)

\* How many values are still to come after each token, and where none is for
\* the first time.
Coming(r, f) ==
    /\ f \in [0..Len(r) -> Int] /\ f[0] = 1
    /\ \A i \in 1..Len(r) : f[i] = f[i - 1] - 1 + Inside(r[i])
EndsAt(f, n, e) == e \in 0..n /\ f[e] = 0 /\ \A j \in 0..n : f[j] = 0 => e <= j

\* A value holds a number of others.
LEMMA InsideType ==
  ASSUME NEW t \in Token
  PROVE  Inside(t) \in Nat
<1>1. t[1] \in {"map", "array"} => t[2] \in Nat
  BY DEF Token, Nil
<1>2. CASE t[1] = "map"
  <2>1. t[2] \in Nat /\ Inside(t) = 2 * t[2]
    BY <1>1, <1>2 DEF Inside
  <2>. QED  BY <2>1
<1>3. CASE t[1] = "array"
  BY <1>1, <1>3 DEF Inside
<1>4. CASE t[1] \notin {"map", "array"}
  BY <1>4 DEF Inside
<1>. QED  BY <1>2, <1>3, <1>4

\* Skip ends where its count does.
LEMMA SkipPass ==
  ASSUME NEW r \in Tokens
  PROVE  \E f : /\ Coming(r, f)
                /\ \A e : EndsAt(f, Len(r), e) => Skip(r) = Got("skipped", SubSeq(r, e + 1, Len(r)))
                /\ Skip(r).ok => \E e : EndsAt(f, Len(r), e)
<1>. DEFINE n == Len(r)
            step == [i \in 1..n |-> [x \in Int |-> x - 1 + Inside(r[i])]]
            left[i \in 0..Len(r)] == IF i = 0 THEN 1 ELSE left[i - 1] - 1 + Inside(r[i])
<1>1. n \in Nat /\ \A i \in 1..n : r[i] \in Token
  BY DEF Tokens
<1>2. \A i \in 1..n : Inside(r[i]) \in Nat
  BY <1>1, InsideType
<1>3. step \in StepsOf(n, Int) /\ 1 \in Int
  <2>1. \A i \in 1..n, x \in Int : x - 1 + Inside(r[i]) \in Int
    BY <1>2
  <2>. HIDE DEF n
  <2>. QED  BY <2>1 DEF StepsOf
<1>4. PICK f \in [0..n -> Int] :
        f[0] = 1 /\ \A i \in 1..n : f[i] = step[i][f[i - 1]]
  <2>. HIDE DEF step, n
  <2>1. \E f : IsPass(f, n, Int, 1, step)
    BY <1>1, <1>3, PassExists
  <2>. QED  BY <2>1 DEF IsPass
<1>5. \A i \in 1..n : f[i] = f[i - 1] - 1 + Inside(r[i])
  <2>1. \A i \in 1..n : i - 1 \in 0..n
    BY <1>1
  <2>2. \A i \in 1..n, x \in Int : step[i][x] = x - 1 + Inside(r[i])
    OBVIOUS
  <2>. HIDE DEF step, n
  <2>. QED  BY <1>4, <2>1, <2>2
<1>6. f = [i \in 0..n |-> IF i = 0 THEN 1 ELSE f[i - 1] - 1 + Inside(r[i])]
  <2>1. \A i \in 0..n : i # 0 => i \in 1..n
    BY <1>1
  <2>. HIDE DEF step, n
  <2>2. f = [i \in 0..n |-> f[i]]
    BY <1>4
  <2>. QED  BY <1>4, <1>5, <2>1, <2>2
<1>7. left = [i \in 0..n |-> IF i = 0 THEN 1 ELSE left[i - 1] - 1 + Inside(r[i])]
  BY <1>6
<1>. DEFINE ends == {i \in 0..n : left[i] = 0}
            end == CHOOSE i \in ends : \A j \in ends : i <= j
<1>8. Skip(r) = IF ends = {} THEN Refused ELSE Got("skipped", SubSeq(r, end + 1, n))
  BY DEF Skip
<1>. HIDE DEF left, step
<1>9. \A i \in 0..n : left[i] = f[i]
  <2>. DEFINE T == {k \in 0..n : left[k] = f[k]}
  <2>1. 0 \in T
    BY <1>1, <1>4, <1>7
  <2>2. ASSUME NEW i \in 1..n, i - 1 \in T PROVE i \in T
    <3>1. i \in 0..n /\ i # 0
      BY <1>1
    <3>2. left[i] = left[i - 1] - 1 + Inside(r[i])
      BY <1>7, <3>1
    <3>. QED  BY <1>5, <2>2, <3>1, <3>2
  <2>. HIDE DEF T
  <2>3. \A i \in 0..n : i \in T
    BY <1>1, <2>1, <2>2, CountUp
  <2>. QED  BY <2>3 DEF T
<1>10. Coming(r, f)
  BY <1>4, <1>5 DEF Coming
<1>11. ASSUME NEW e, EndsAt(f, n, e)
       PROVE  Skip(r) = Got("skipped", SubSeq(r, e + 1, n))
  <2>1. e \in ends /\ \A j \in ends : e <= j
    BY <1>9, <1>11 DEF EndsAt
  <2>2. ends \subseteq Nat
    BY <1>1
  <2>. HIDE DEF ends
  <2>3. end \in ends /\ \A j \in ends : end <= j
    BY <2>1
  <2>. HIDE DEF end
  <2>4. end = e
    <3>1. end \in Nat /\ e \in Nat /\ end <= e /\ e <= end
      BY <2>1, <2>2, <2>3
    <3>. QED  BY <3>1
  <2>. QED  BY <1>8, <2>1, <2>4
<1>12. ASSUME Skip(r).ok
       PROVE  \E e : EndsAt(f, n, e)
  <2>1. ends # {} /\ ends \subseteq Nat
    BY <1>1, <1>8, <1>12, GotFacts
  <2>. HIDE DEF ends
  <2>2. PICK e \in ends : \A j \in ends : e <= j
    BY <2>1, LeastNat
  <2>3. EndsAt(f, n, e)
    BY <1>9, <2>2 DEF EndsAt, ends
  <2>. QED  BY <2>3
<1>. QED  BY <1>10, <1>11, <1>12

\* A later version's value is skipped whole.
LEMMA SkipStructure ==
  ASSUME NEW rest \in Tokens
  PROVE  Structure \in Tokens /\ Skip(Structure \o rest) = Got("skipped", rest)
<1>. DEFINE s == Structure
            r == s \o rest
            n == Len(r)
            k == Len(s)
<1>1. s \in Tokens /\ k = 5
  <2>1. ASSUME NEW a \in Token, NEW b \in Token, NEW c \in Token, NEW d \in Token,
               NEW e \in Token
        PROVE  <<a, b, c, d, e>> \in Seq(Token) /\ Len(<<a, b, c, d, e>>) = 5
    OBVIOUS
  <2>2. <<"str", "inner">> \in Token /\ <<"str", "x">> \in Token
    <3>1. "inner" \in Texts /\ "x" \in Texts
      BY VocabularyFacts
    <3>. QED  BY <3>1 DEF Token
  <2>3. <<"map", 1>> \in Token /\ <<"array", 2>> \in Token /\ Nil \in Token
    BY DEF Token
  <2>. HIDE DEF Token
  <2>4. /\ <<<<"map", 1>>, <<"str", "inner">>, <<"array", 2>>, Nil, <<"str", "x">>>> \in Seq(Token)
        /\ Len(<<<<"map", 1>>, <<"str", "inner">>, <<"array", 2>>, Nil, <<"str", "x">>>>) = 5
    BY <2>1, <2>2, <2>3
  <2>. QED  BY <2>4 DEF Structure, Tokens
<1>2. /\ Inside(s[1]) = 2 /\ Inside(s[2]) = 0 /\ Inside(s[3]) = 2
      /\ Inside(s[4]) = 0 /\ Inside(s[5]) = 0
  BY DEF Structure, Inside, Nil
<1>. HIDE DEF s
<1>3. r \in Tokens /\ n \in Nat /\ k \in Nat /\ k <= n /\ \A i \in 1..k : r[i] = s[i]
  <2>1. s \in Tokens
    BY <1>1
  <2>2. /\ r \in Tokens /\ n = k + Len(rest) /\ k \in Nat /\ Len(rest) \in Nat
        /\ \A i \in 1..k : r[i] = s[i]
    BY <2>1, ConcatFacts DEF Tokens
  <2>. HIDE DEF r, n, k
  <2>. QED  BY <2>2
<1>4. SubSeq(r, k + 1, n) = rest
  <2>1. s \in Tokens
    BY <1>1
  <2>. QED  BY <2>1 DEF Tokens
<1>. HIDE DEF r, n, k
<1>5. PICK f : /\ Coming(r, f)
               /\ \A e : EndsAt(f, Len(r), e) => Skip(r) = Got("skipped", SubSeq(r, e + 1, Len(r)))
  BY <1>3, SkipPass
<1>6. f[0] = 1 /\ \A i \in 1..n : f[i] = f[i - 1] - 1 + Inside(r[i])
  BY <1>5 DEF Coming, n
<1>7. \A i \in 1..5 : i \in 1..n /\ f[i] = f[i - 1] - 1 + Inside(s[i])
  BY <1>1, <1>3, <1>6
<1>8. f[1] = 2 /\ f[2] = 1 /\ f[3] = 2 /\ f[4] = 1 /\ f[5] = 0
  <2>1. f[1] = f[0] - 1 + Inside(s[1])
    BY <1>7
  <2>2. f[2] = f[1] - 1 + Inside(s[2])
    BY <1>7
  <2>3. f[3] = f[2] - 1 + Inside(s[3])
    BY <1>7
  <2>4. f[4] = f[3] - 1 + Inside(s[4])
    BY <1>7
  <2>5. f[5] = f[4] - 1 + Inside(s[5])
    BY <1>7
  <2>. QED  BY <1>2, <1>6, <2>1, <2>2, <2>3, <2>4, <2>5
<1>9. EndsAt(f, n, k)
  <2>1. \A j \in 0..n : j < 5 => j \in {0, 1, 2, 3, 4}
    OBVIOUS
  <2>2. \A j \in 0..n : f[j] = 0 => 5 <= j
    BY <1>3, <1>6, <1>8, <2>1
  <2>. QED  BY <1>1, <1>3, <1>8, <2>2 DEF EndsAt
<1>10. Skip(r) = Got("skipped", SubSeq(r, k + 1, n))
  BY <1>5, <1>9 DEF n
<1>. QED  BY <1>1, <1>4, <1>10 DEF r, s

\* More at the end does not change what is skipped.
LEMMA SkipExtends ==
  ASSUME NEW r \in Tokens, NEW q \in Tokens, Skip(r).ok
  PROVE  /\ Skip(r \o q) = Got(Skip(r).value, Skip(r).rest \o q)
         /\ Skip(r).rest \in Tokens
<1>. DEFINE w == r \o q
            n == Len(r)
            m == Len(w)
<1>1. /\ w \in Tokens /\ n \in Nat /\ m \in Nat /\ n <= m /\ \A i \in 1..n : w[i] = r[i]
  BY DEF Tokens
<1>2. PICK f, e :
        Coming(r, f) /\ EndsAt(f, n, e) /\ Skip(r) = Got("skipped", SubSeq(r, e + 1, n))
  BY SkipPass
<1>. HIDE DEF w
<1>3. PICK g : /\ Coming(w, g)
               /\ \A d : EndsAt(g, m, d) => Skip(w) = Got("skipped", SubSeq(w, d + 1, m))
  BY <1>1, SkipPass
<1>4. e \in 0..n
  BY <1>2 DEF EndsAt
<1>. HIDE DEF n, m
<1>5. \A i \in 0..n : g[i] = f[i]
  <2>. DEFINE T == {k \in 0..n : g[k] = f[k]}
  <2>1. 0 \in T
    BY <1>1, <1>2, <1>3 DEF Coming
  <2>2. ASSUME NEW i \in 1..n, i - 1 \in T PROVE i \in T
    <3>1. i \in 0..n /\ i \in 1..m
      BY <1>1
    <3>2. f[i] = f[i - 1] - 1 + Inside(r[i])
      BY <1>2 DEF Coming, n
    <3>3. g[i] = g[i - 1] - 1 + Inside(w[i])
      BY <1>3, <3>1 DEF Coming, m
    <3>. QED  BY <1>1, <2>2, <3>1, <3>2, <3>3
  <2>. HIDE DEF T
  <2>3. \A i \in 0..n : i \in T
    BY <1>1, <2>1, <2>2, CountUp
  <2>. QED  BY <2>3 DEF T
<1>6. EndsAt(g, m, e)
  <2>1. e \in 0..m /\ g[e] = 0
    BY <1>1, <1>2, <1>4, <1>5 DEF EndsAt
  <2>2. ASSUME NEW j \in 0..m, g[j] = 0  PROVE e <= j
    <3>1. CASE j \in 0..n
      BY <1>2, <1>5, <2>2, <3>1 DEF EndsAt
    <3>2. CASE j \notin 0..n
      BY <1>1, <1>4, <3>2
    <3>. QED  BY <3>1, <3>2
  <2>. QED  BY <2>1, <2>2 DEF EndsAt
<1>7. Skip(w) = Got("skipped", SubSeq(w, e + 1, m))
  BY <1>3, <1>6
<1>8. SubSeq(r, e + 1, n) \in Tokens /\ SubSeq(w, e + 1, m) = SubSeq(r, e + 1, n) \o q
  BY <1>4, SliceOfConcat DEF Tokens, w, n, m
<1>9. Skip(r).value = "skipped" /\ Skip(r).rest = SubSeq(r, e + 1, n)
  <2>. DEFINE s == SubSeq(r, e + 1, n)
  <2>1. Skip(r) = Got("skipped", s)
    BY <1>2
  <2>2. Got("skipped", s).value = "skipped" /\ Got("skipped", s).rest = s
    BY DEF Got
  <2>. HIDE DEF s
  <2>. QED  BY <2>1, <2>2 DEF s
<1>10. Skip(w) = Got(Skip(r).value, Skip(r).rest \o q)
  BY <1>7, <1>8, <1>9
<1>. QED  BY <1>8, <1>9, <1>10 DEF w

-----------------------------------------------------------------------------
(***************************************************************************)
(* Every value but an array of roots.                                      *)
(***************************************************************************)
StrNames == {"query", "error", "kind", "health", "fingerprint", "subject", "source"}
BoolNames == {"with_der", "ok", "more"}
NumberNames == {"generation", "compat_mode"} \cup Counters
OptionalNames == {"purpose", "message", "name"}
ListNames == {"purposes", "rendered"}
ScalarNames == StrNames \cup BoolNames \cup NumberNames \cup OptionalNames \cup ListNames
               \cup {"not_after", "der"}

\* A value a field can hold.
Holds(name, value) ==
    /\ name \in StrNames \cup {"der"} => value \in Texts
    /\ name \in BoolNames => value \in BOOLEAN
    /\ name \in NumberNames => value \in Nat
    /\ name = "compat_mode" => value < U32
    /\ name = "not_after" => value \in Int
    /\ name \in OptionalNames => value \in Optional
    /\ name \in ListNames => value \in Seq(Texts)

\* What is read of it: an unknown word is the default.
ReadAs(name, value) ==
    IF name \in StrNames /\ ~Known(name, value) THEN Default(name) ELSE value

\* The type of each field.
LEMMA TypeFacts ==
  /\ \A name \in StrNames : TypeOf(name) = "str"
  /\ \A name \in BoolNames : TypeOf(name) = "bool"
  /\ \A name \in NumberNames : TypeOf(name) = "uint"
  /\ \A name \in OptionalNames : TypeOf(name) = "optional"
  /\ \A name \in ListNames : TypeOf(name) = "list"
  /\ TypeOf("not_after") = "int" /\ TypeOf("der") = "bin" /\ TypeOf("roots") = "roots"
<1>1. \A name \in StrNames : TypeOf(name) = "str"
  BY DEF StrNames, TypeOf, Counters
<1>2. \A name \in BoolNames : TypeOf(name) = "bool"
  BY DEF BoolNames, TypeOf, Counters
<1>3. \A name \in NumberNames : TypeOf(name) = "uint"
  BY DEF NumberNames, TypeOf, Counters
<1>4. \A name \in OptionalNames : TypeOf(name) = "optional"
  BY DEF OptionalNames, TypeOf, Counters
<1>5. \A name \in ListNames : TypeOf(name) = "list"
  BY DEF ListNames, TypeOf, Counters
<1>6. TypeOf("not_after") = "int" /\ TypeOf("der") = "bin" /\ TypeOf("roots") = "roots"
  BY DEF TypeOf, Counters
<1>. QED  BY <1>1, <1>2, <1>3, <1>4, <1>5, <1>6

\* How each type is written and read.
LEMMA ScalarForms ==
  ASSUME NEW name, NEW value, NEW r
  PROVE  /\ TypeOf(name) \in {"str", "bool", "bin"} =>
               Scalar(name, value) = <<<<TypeOf(name), value>>>>
         /\ TypeOf(name) \in {"uint", "int"} =>
               /\ Scalar(name, value) = <<<<"int", value>>>>
               /\ ReadScalar(name, r) = ReadNumber(name, r)
         /\ TypeOf(name) = "optional" =>
               /\ Scalar(name, value) = IF value = <<>> THEN <<Nil>> ELSE Strings(value)
               /\ ReadScalar(name, r) = ReadOptional(r)
         /\ TypeOf(name) = "list" =>
               /\ Scalar(name, value) = <<<<"array", Len(value)>>>> \o Strings(value)
               /\ ReadScalar(name, r) = ReadList(r)
         /\ TypeOf(name) \in {"bool", "bin"} => ReadScalar(name, r) = ReadToken(r, TypeOf(name))
         /\ TypeOf(name) = "str" =>
               ReadScalar(name, r) =
                  LET s == ReadToken(r, "str")
                  IN  IF s.ok /\ ~Known(name, s.value) THEN Got(Default(name), s.rest) ELSE s
<1>. DEFINE type == TypeOf(name)
<1>1. CASE type \in {"str", "bool", "bin"}
  BY <1>1 DEF Scalar, ReadScalar
<1>2. CASE type \in {"uint", "int"}
  BY <1>2 DEF Scalar, ReadScalar
<1>3. CASE type = "optional"
  BY <1>3 DEF Scalar, ReadScalar
<1>4. CASE type = "list"
  BY <1>4 DEF Scalar, ReadScalar
<1>. QED  BY <1>1, <1>2, <1>3, <1>4

\* One token by itself.
LEMMA OneToken ==
  ASSUME NEW t \in Token
  PROVE  <<t>> \in Tokens
BY DEF Tokens

\* An absent string, and one that is there.
LEMMA OptionalReads ==
  ASSUME NEW value \in Optional, NEW rest \in Tokens
  PROVE  LET w == IF value = <<>> THEN <<Nil>> ELSE Strings(value)
         IN  w \in Tokens /\ ReadOptional(w \o rest) = Got(value, rest)
<1>1. CASE value = <<>>
  <2>1. Nil \in Token /\ <<Nil>> \in Tokens
    BY TokenTypes, OneToken
  <2>. DEFINE r == <<Nil>> \o rest
  <2>2. r # <<>> /\ Head(r) = Nil /\ Tail(r) = rest
    BY <2>1, TokenReads
  <2>. HIDE DEF r
  <2>3. ReadOptional(r) = Got(<<>>, rest)
    BY <2>2 DEF ReadOptional
  <2>. QED  BY <1>1, <2>1, <2>3 DEF r
<1>2. CASE value # <<>>
  <2>1. value \in Seq(Texts) /\ Len(value) = 1
    <3>1. value \in Seq(Texts) /\ Len(value) <= 1
      BY DEF Optional
    <3>. DEFINE n == Len(value)
    <3>2. n \in Nat /\ DOMAIN value = 1..n
      BY <3>1
    <3>3. n # 0
      <4>1. SUFFICES ASSUME n = 0 PROVE value = <<>>
        BY <1>2
      <4>2. value \in Seq(Texts) /\ <<>> \in Seq(Texts) /\ Len(value) = Len(<<>>)
        BY <3>1, <4>1
      <4>. QED  BY <4>2
    <3>. HIDE DEF n
    <3>4. n = 1
      BY <3>1, <3>2, <3>3 DEF n
    <3>. QED  BY <3>1, <3>4 DEF n
  <2>2. value[1] \in Texts /\ value = <<value[1]>> /\ DOMAIN value = 1..1
    BY <2>1
  <2>. DEFINE s == value[1]
              t == <<"str", s>>
              r == <<t>> \o rest
  <2>3. Strings(value) = <<t>>
    BY <2>2 DEF Strings
  <2>4. t \in Token /\ t[1] = "str" /\ t[2] = s
    BY <2>2 DEF Token
  <2>. HIDE DEF t, s
  <2>5. /\ r # <<>> /\ Head(r) = t /\ ReadToken(r, "str") = Got(s, rest)
        /\ <<t>> \in Tokens
    BY <2>4, TokenReads, OneToken
  <2>6. t # Nil
    BY <2>4, TokenTypes
  <2>. HIDE DEF r
  <2>7. ReadOptional(r) = Got(<<s>>, rest)
    BY <2>5, <2>6, GotFacts DEF ReadOptional
  <2>8. <<s>> = value
    BY <2>2 DEF s
  <2>. QED  BY <1>2, <2>3, <2>5, <2>7, <2>8 DEF r
<1>. QED  BY <1>1, <1>2

\* A number that fits is read as it was written.
LEMMA NumberReads ==
  ASSUME NEW name, NEW value \in Int, NEW rest \in Tokens,
         TypeOf(name) = "uint" => value \in Nat,
         name = "compat_mode" => value \in Nat /\ value < U32
  PROVE  ReadNumber(name, <<<<"int", value>>>> \o rest) = Got(value, rest)
<1>. DEFINE t == <<"int", value>>
            r == <<t>> \o rest
<1>1. t \in Token /\ t[1] = "int" /\ t[2] = value
  BY DEF Token
<1>. HIDE DEF t
<1>2. ReadToken(r, "int") = Got(value, rest)
  BY <1>1, TokenReads
<1>. HIDE DEF r
<1>3. TypeOf(name) = "uint" => ~(value < 0)
  OBVIOUS
<1>4. name = "compat_mode" => value % U32 = value
  BY WireAssumption
<1>5. ReadNumber(name, r) = IF name = "compat_mode" THEN Got(value % U32, rest) ELSE Got(value, rest)
  BY <1>2, <1>3, GotFacts DEF ReadNumber
<1>6. ReadNumber(name, r) = Got(value, rest)
  BY <1>4, <1>5
<1>. QED  BY <1>6 DEF r, t

\* Every value is read as it was written, but for a word that is not known.
LEMMA ScalarReads ==
  ASSUME NEW name \in ScalarNames, NEW value, Holds(name, value), NEW rest \in Tokens
  PROVE  /\ Scalar(name, value) \in Tokens
         /\ ReadScalar(name, Scalar(name, value) \o rest) = Got(ReadAs(name, value), rest)
<1>. DEFINE w == Scalar(name, value)
            r == w \o rest
            type == TypeOf(name)
<1>1. CASE name \in StrNames
  <2>. DEFINE t == <<"str", value>>
  <2>1. type = "str" /\ value \in Texts
    BY <1>1, TypeFacts DEF Holds
  <2>2. w = <<t>> /\ t \in Token /\ t[1] = "str" /\ t[2] = value
    BY <2>1, ScalarForms DEF Token
  <2>. HIDE DEF t
  <2>3. w \in Tokens /\ ReadToken(r, "str") = Got(value, rest)
    BY <2>2, TokenReads, OneToken
  <2>. HIDE DEF w, r
  <2>4. ReadScalar(name, r) = IF ~Known(name, value) THEN Got(Default(name), rest)
                                                     ELSE Got(value, rest)
    <3>. DEFINE s == ReadToken(r, "str")
    <3>1. ReadScalar(name, r) = IF s.ok /\ ~Known(name, s.value) THEN Got(Default(name), s.rest)
                                                                ELSE s
      BY <2>1, ScalarForms
    <3>2. s = Got(value, rest) /\ s.ok /\ s.value = value /\ s.rest = rest
      BY <2>3, GotFacts
    <3>. HIDE DEF s
    <3>. QED  BY <3>1, <3>2
  <2>. QED  BY <1>1, <2>3, <2>4 DEF ReadAs, r, w
<1>2. CASE name \in BoolNames \cup {"der"}
  <2>. DEFINE t == <<type, value>>
  <2>1. type \in {"bool", "bin"} /\ t \in Token /\ name \notin StrNames
    <3>1. CASE name \in BoolNames
      <4>1. type = "bool" /\ value \in BOOLEAN /\ name \notin StrNames
        BY <3>1, TypeFacts DEF Holds, StrNames, BoolNames
      <4>. QED  BY <4>1, TokenTypes
    <3>2. CASE name = "der"
      <4>1. type = "bin" /\ value \in Texts /\ name \notin StrNames
        BY <3>2, TypeFacts DEF Holds, StrNames
      <4>. QED  BY <4>1, TokenTypes
    <3>. QED  BY <1>2, <3>1, <3>2
  <2>2. w = <<t>> /\ t[1] = type /\ t[2] = value
    BY <2>1, ScalarForms
  <2>. HIDE DEF t, type
  <2>3. w \in Tokens /\ ReadToken(r, type) = Got(value, rest)
    BY <2>1, <2>2, TokenReads, OneToken
  <2>. HIDE DEF w, r
  <2>4. ReadScalar(name, r) = Got(value, rest)
    BY <2>1, <2>3, ScalarForms DEF type
  <2>. QED  BY <2>1, <2>3, <2>4 DEF ReadAs, r, w
<1>3. CASE name \in NumberNames \cup {"not_after"}
  <2>. DEFINE t == <<"int", value>>
  <2>1. type \in {"uint", "int"} /\ value \in Int /\ name \notin StrNames
        /\ (type = "uint" => value \in Nat)
        /\ (name = "compat_mode" => value \in Nat /\ value < U32)
    <3>1. CASE name \in NumberNames
      BY <3>1, TypeFacts DEF Holds, StrNames, NumberNames, Counters
    <3>2. CASE name = "not_after"
      BY <3>2, TypeFacts DEF Holds, StrNames
    <3>. QED  BY <1>3, <3>1, <3>2
  <2>2. w = <<t>> /\ t \in Token
    BY <2>1, ScalarForms, TokenTypes
  <2>3. ReadNumber(name, r) = Got(value, rest)
    BY <2>1, <2>2, NumberReads
  <2>4. w \in Tokens
    BY <2>2, OneToken
  <2>. HIDE DEF w, r
  <2>5. ReadScalar(name, r) = Got(value, rest)
    BY <2>1, <2>3, ScalarForms
  <2>. QED  BY <2>1, <2>4, <2>5 DEF ReadAs, r, w
<1>4. CASE name \in OptionalNames
  <2>1. type = "optional" /\ value \in Optional /\ name \notin StrNames
    BY <1>4, TypeFacts DEF Holds, StrNames, OptionalNames
  <2>2. w = (IF value = <<>> THEN <<Nil>> ELSE Strings(value))
        /\ ReadScalar(name, r) = ReadOptional(r)
    BY <2>1, ScalarForms
  <2>3. w \in Tokens /\ ReadOptional(r) = Got(value, rest)
    BY <2>1, <2>2, OptionalReads
  <2>. QED  BY <2>1, <2>2, <2>3 DEF ReadAs
<1>5. CASE name \in ListNames
  <2>1. type = "list" /\ value \in Seq(Texts) /\ name \notin StrNames
    BY <1>5, TypeFacts DEF Holds, StrNames, ListNames
  <2>2. w = <<<<"array", Len(value)>>>> \o Strings(value) /\ ReadScalar(name, r) = ReadList(r)
    BY <2>1, ScalarForms
  <2>3. w \in Tokens /\ ReadList(r) = Got(value, rest)
    BY <2>1, <2>2, ListReads
  <2>. QED  BY <2>1, <2>2, <2>3 DEF ReadAs
<1>. QED  BY <1>1, <1>2, <1>3, <1>4, <1>5 DEF ScalarNames

\* A map where another value belongs is refused.
LEMMA RetypedRefused ==
  ASSUME NEW name \in ScalarNames, NEW rest \in Tokens
  PROVE  ReadScalar(name, <<<<"map", 0>>>> \o rest) = Refused
<1>. DEFINE t == <<"map", 0>>
            r == <<t>> \o rest
<1>1. t \in Token /\ t[1] = "map" /\ t # Nil
  BY DEF Token, Nil
<1>. HIDE DEF t
<1>2. r # <<>> /\ Head(r) = t /\ \A type : type # "map" => ReadToken(r, type) = Refused
  BY <1>1, TokenReads
<1>3. /\ ReadToken(r, "str") = Refused /\ ReadToken(r, "bool") = Refused
      /\ ReadToken(r, "bin") = Refused /\ ReadToken(r, "int") = Refused
      /\ ReadToken(r, "array") = Refused
  BY <1>2
<1>. HIDE DEF r
<1>4. /\ ReadNumber(name, r) = Refused /\ ReadOptional(r) = Refused /\ ReadList(r) = Refused
  BY <1>1, <1>2, <1>3, GotFacts DEF ReadNumber, ReadOptional, ReadList
<1>5. TypeOf(name) \in {"str", "bool", "bin", "uint", "int", "optional", "list"}
  BY TypeFacts DEF ScalarNames
<1>6. ReadScalar(name, r) = Refused
  <2>1. CASE TypeOf(name) = "str"
    <3>. DEFINE s == ReadToken(r, "str")
    <3>1. ReadScalar(name, r) = IF s.ok /\ ~Known(name, s.value) THEN Got(Default(name), s.rest)
                                                                ELSE s
      BY <2>1, ScalarForms
    <3>2. s = Refused /\ ~s.ok
      BY <1>3, GotFacts
    <3>. HIDE DEF s
    <3>. QED  BY <3>1, <3>2
  <2>2. CASE TypeOf(name) \in {"bool", "bin"}
    <3>1. ReadScalar(name, r) = ReadToken(r, TypeOf(name))
      BY <2>2, ScalarForms
    <3>. QED  BY <1>3, <2>2, <3>1
  <2>3. CASE TypeOf(name) \in {"uint", "int", "optional", "list"}
    <3>1. ReadScalar(name, r) \in {ReadNumber(name, r), ReadOptional(r), ReadList(r)}
      BY <2>3, ScalarForms
    <3>. QED  BY <1>4, <3>1
  <2>. QED  BY <1>5, <2>1, <2>2, <2>3
<1>. QED  BY <1>6 DEF r, t

\* What a reader gives of a value and more after it.
Further(res, q) == Got(res.value, res.rest \o q)

\* More at the end does not change a token that is not there for good.
LEMMA HeadExtends ==
  ASSUME NEW r \in Tokens, NEW q \in Tokens, r # <<>>
  PROVE  /\ r \o q # <<>> /\ Head(r \o q) = Head(r) /\ Tail(r \o q) = Tail(r) \o q
         /\ Tail(r) \in Tokens
<1>. DEFINE t == Head(r)
            s == Tail(r)
<1>1. r = <<t>> \o s /\ t \in Token /\ s \in Tokens
  BY DEF Tokens
<1>. HIDE DEF t, s
<1>2. r \o q = <<t>> \o (s \o q) /\ s \o q \in Tokens
  <2>1. <<t>> \in Tokens
    BY <1>1, OneToken
  <2>. QED  BY <1>1, <2>1, ConcatAssoc, ConcatType DEF Tokens
<1>3. <<t>> \o (s \o q) # <<>> /\ Head(<<t>> \o (s \o q)) = t /\ Tail(<<t>> \o (s \o q)) = s \o q
  BY <1>1, <1>2, TokenReads
<1>. QED  BY <1>1, <1>2, <1>3 DEF t, s

\* More at the end does not change an optional string.
LEMMA OptionalExtends ==
  ASSUME NEW r \in Tokens, NEW q \in Tokens, ReadOptional(r).ok
  PROVE  /\ ReadOptional(r \o q) = Further(ReadOptional(r), q)
         /\ ReadOptional(r).rest \in Tokens
<1>1. CASE r # <<>> /\ Head(r) = Nil
  <2>1. ReadOptional(r) = Got(<<>>, Tail(r))
    BY <1>1 DEF ReadOptional
  <2>2. /\ r \o q # <<>> /\ Head(r \o q) = Nil /\ Tail(r \o q) = Tail(r) \o q
        /\ Tail(r) \in Tokens
    BY <1>1, HeadExtends
  <2>3. ReadOptional(r \o q) = Got(<<>>, Tail(r) \o q)
    BY <2>2 DEF ReadOptional
  <2>. QED  BY <2>1, <2>2, <2>3 DEF Further, Got
<1>2. CASE ~(r # <<>> /\ Head(r) = Nil)
  <2>. DEFINE s == ReadToken(r, "str")
              v == s.value
              rest == s.rest
  <2>1. s.ok /\ ReadOptional(r) = Got(<<v>>, rest)
    BY <1>2, GotFacts DEF ReadOptional
  <2>2. ReadToken(r \o q, "str") = Got(v, rest \o q) /\ rest \in Tokens /\ r # <<>>
    <3>1. r # <<>>
      BY <2>1, GotFacts DEF ReadToken
    <3>. QED  BY <2>1, <3>1, TokenExtends
  <2>3. Head(r \o q) # Nil
    BY <1>2, <2>2, HeadExtends
  <2>. HIDE DEF v, rest
  <2>4. ReadOptional(r \o q) = Got(<<v>>, rest \o q)
    BY <2>2, <2>3, GotFacts DEF ReadOptional
  <2>. QED  BY <2>1, <2>2, <2>4 DEF Further, Got
<1>. QED  BY <1>1, <1>2

\* More at the end does not change a number.
LEMMA NumberExtends ==
  ASSUME NEW r \in Tokens, NEW q \in Tokens, NEW name, ReadNumber(name, r).ok
  PROVE  /\ ReadNumber(name, r \o q) = Further(ReadNumber(name, r), q)
         /\ ReadNumber(name, r).rest \in Tokens
<1>. DEFINE n == ReadToken(r, "int")
            v == n.value
            rest == n.rest
            x == IF name = "compat_mode" THEN v % U32 ELSE v
<1>1. n.ok /\ ~(v < 0 /\ TypeOf(name) = "uint")
  BY GotFacts DEF ReadNumber
<1>2. ReadToken(r \o q, "int") = Got(v, rest \o q) /\ rest \in Tokens
  BY <1>1, TokenExtends
<1>3. n = Got(v, rest)
  <2>1. n = Got(Head(r)[2], Tail(r))
    BY <1>1, TokenTaken
  <2>. HIDE DEF n
  <2>. QED  BY <2>1, GotFacts
<1>. HIDE DEF n, v, rest
<1>4. ReadNumber(name, r \o q) = Got(x, rest \o q)
  BY <1>1, <1>2, GotFacts DEF ReadNumber
<1>5. ReadNumber(name, r) = Got(x, rest)
  BY <1>1, <1>3, GotFacts DEF ReadNumber, n
<1>. HIDE DEF x
<1>. QED  BY <1>2, <1>4, <1>5 DEF Further, Got

\* More at the end does not change a value.
LEMMA ScalarExtends ==
  ASSUME NEW r \in Tokens, NEW q \in Tokens, NEW name \in ScalarNames, ReadScalar(name, r).ok
  PROVE  /\ ReadScalar(name, r \o q) = Further(ReadScalar(name, r), q)
         /\ ReadScalar(name, r).rest \in Tokens
<1>. DEFINE type == TypeOf(name)
            w == r \o q
<1>1. type \in {"str", "bool", "bin", "uint", "int", "optional", "list"}
  BY TypeFacts DEF ScalarNames
<1>2. CASE type = "str"
  <2>. DEFINE s == ReadToken(r, "str")
              u == ReadToken(w, "str")
  <2>1. ReadScalar(name, r) = IF s.ok /\ ~Known(name, s.value) THEN Got(Default(name), s.rest)
                                                                ELSE s
    BY <1>2, ScalarForms
  <2>2. ReadScalar(name, w) = IF u.ok /\ ~Known(name, u.value) THEN Got(Default(name), u.rest)
                                                                ELSE u
    BY <1>2, ScalarForms
  <2>3. s.ok
    <3>. HIDE DEF s, u
    <3>. QED  BY <2>1
  <2>4. u = Got(s.value, s.rest \o q) /\ s.rest \in Tokens
    BY <2>3, TokenExtends
  <2>5. u.ok /\ u.value = s.value /\ u.rest = s.rest \o q
    BY <2>4 DEF Got
  <2>. HIDE DEF s, u
  <2>6. CASE Known(name, s.value)
    BY <2>1, <2>2, <2>4, <2>5, <2>6 DEF Further
  <2>7. CASE ~Known(name, s.value)
    <3>1. ReadScalar(name, r) = Got(Default(name), s.rest)
      BY <2>1, <2>3, <2>7
    <3>2. ReadScalar(name, w) = Got(Default(name), s.rest \o q)
      BY <2>2, <2>5, <2>7
    <3>3. Got(Default(name), s.rest).value = Default(name) /\ Got(Default(name), s.rest).rest = s.rest
      BY DEF Got
    <3>. QED  BY <2>4, <3>1, <3>2, <3>3 DEF Further
  <2>. QED  BY <2>6, <2>7
<1>3. CASE type \in {"bool", "bin"}
  <2>1. ReadScalar(name, r) = ReadToken(r, type) /\ ReadScalar(name, w) = ReadToken(w, type)
    BY <1>3, ScalarForms
  <2>. QED  BY <2>1, TokenExtends DEF Further
<1>4. CASE type \in {"uint", "int"}
  <2>1. ReadScalar(name, r) = ReadNumber(name, r) /\ ReadScalar(name, w) = ReadNumber(name, w)
    BY <1>4, ScalarForms
  <2>. QED  BY <2>1, NumberExtends
<1>5. CASE type = "optional"
  <2>1. ReadScalar(name, r) = ReadOptional(r) /\ ReadScalar(name, w) = ReadOptional(w)
    BY <1>5, ScalarForms
  <2>. QED  BY <2>1, OptionalExtends
<1>6. CASE type = "list"
  <2>1. ReadScalar(name, r) = ReadList(r) /\ ReadScalar(name, w) = ReadList(w)
    BY <1>6, ScalarForms
  <2>. QED  BY <2>1, ListExtends DEF Further
<1>. QED  BY <1>1, <1>2, <1>3, <1>4, <1>5, <1>6

-----------------------------------------------------------------------------
(***************************************************************************)
(* The readers' loops: the fields of a map of some kind, and the array of  *)
(* roots.                                                                  *)
(***************************************************************************)
MapKinds == {"root", "request", "reply"}
FieldValue(kind, name, r) ==
    CASE kind = "root" -> RootValue(name, r)
      [] kind = "request" -> RequestValue(name, r)
      [] kind = "reply" -> ReplyValue(name, r)
Step(kind, p) ==
    IF kind = "roots" THEN NextRoot(p)
    ELSE LET key == ReadToken(p.rest, "str")
         IN  NextField(p, key, FieldValue(kind, key.value, key.rest))
IsLoop(kind, base, n, f) ==
    f = [i \in 0..n |-> IF i = 0 THEN base ELSE Step(kind, f[i - 1])]
Loop(kind, base, n) ==
    LET pass[i \in 0..n] == IF i = 0 THEN base ELSE Step(kind, pass[i - 1])
    IN  pass[n]

\* A loop of any length can be run.
LEMMA LoopExists ==
  ASSUME NEW kind, NEW base, NEW n \in Nat
  PROVE  \E f : IsLoop(kind, base, n, f)
<1>. DEFINE T == {m \in 0..n : \E f : IsLoop(kind, base, m, f)}
<1>1. 0 \in T
  <2>. DEFINE f == [i \in 0..0 |-> base]
  <2>1. \A i \in 0..0 : i = 0
    OBVIOUS
  <2>2. f = [i \in 0..0 |-> IF i = 0 THEN base ELSE Step(kind, f[i - 1])]
    BY <2>1
  <2>3. IsLoop(kind, base, 0, f)
    BY <2>2 DEF IsLoop
  <2>4. 0 \in 0..n
    OBVIOUS
  <2>. HIDE DEF f
  <2>. QED  BY <2>3, <2>4
<1>2. ASSUME NEW m \in 1..n, m - 1 \in T
      PROVE  m \in T
  <2>1. PICK f : IsLoop(kind, base, m - 1, f)
    BY <1>2
  <2>. DEFINE g == [i \in 0..m |-> IF i = m THEN Step(kind, f[m - 1]) ELSE f[i]]
  <2>2. /\ m # 0 /\ m - 1 \in 0..m /\ m - 1 # m
        /\ \A i \in 0..m : i # m => i \in 0..(m - 1)
        /\ \A i \in 0..m : i # 0 => i - 1 \in 0..m /\ i - 1 # m
    OBVIOUS
  <2>3. \A i \in 0..(m - 1) : f[i] = IF i = 0 THEN base ELSE Step(kind, f[i - 1])
    BY <2>1 DEF IsLoop
  <2>4. \A i \in 0..m : g[i] = IF i = m THEN Step(kind, f[m - 1]) ELSE f[i]
    OBVIOUS
  <2>5. g = [i \in 0..m |-> g[i]]
    OBVIOUS
  <2>. HIDE DEF g
  <2>6. \A i \in 0..m : g[i] = IF i = 0 THEN base ELSE Step(kind, g[i - 1])
    <3>1. ASSUME NEW i \in 0..m, i # 0  PROVE g[i] = Step(kind, g[i - 1])
      <4>1. g[i - 1] = f[i - 1]
        BY <2>2, <2>4, <3>1
      <4>. QED  BY <2>2, <2>3, <2>4, <3>1, <4>1
    <3>2. g[0] = base
      BY <2>2, <2>3, <2>4
    <3>. QED  BY <3>1, <3>2
  <2>7. IsLoop(kind, base, m, g)
    BY <2>5, <2>6 DEF IsLoop
  <2>. QED  BY <2>7
<1>. HIDE DEF T
<1>3. \A i \in 0..n : i \in T
  BY <1>1, <1>2, CountUp
<1>4. n \in T
  BY <1>3
<1>. QED  BY <1>4 DEF T

\* Loops from the same start agree.
LEMMA LoopsAgree ==
  ASSUME NEW kind, NEW base, NEW n \in Nat, NEW m \in Nat, n <= m,
         NEW f, IsLoop(kind, base, n, f), NEW g, IsLoop(kind, base, m, g)
  PROVE  f[n] = g[n]
<1>. DEFINE T == {k \in 0..n : f[k] = g[k]}
<1>1. \A i \in 0..n : f[i] = IF i = 0 THEN base ELSE Step(kind, f[i - 1])
  BY DEF IsLoop
<1>2. \A i \in 0..m : g[i] = IF i = 0 THEN base ELSE Step(kind, g[i - 1])
  BY DEF IsLoop
<1>3. \A i \in 0..n : i \in 0..m
  OBVIOUS
<1>4. 0 \in T
  BY <1>1, <1>2
<1>5. ASSUME NEW i \in 1..n, i - 1 \in T PROVE i \in T
  BY <1>1, <1>2, <1>3, <1>5
<1>. HIDE DEF T
<1>6. \A i \in 0..n : i \in T
  BY <1>4, <1>5, CountUp
<1>7. n \in T
  BY <1>6
<1>. QED  BY <1>7 DEF T

\* Any such function gives what the loop does.
LEMMA LoopIs ==
  ASSUME NEW kind, NEW base, NEW n \in Nat, NEW f, IsLoop(kind, base, n, f)
  PROVE  Loop(kind, base, n) = f[n]
<1>. DEFINE pass[i \in 0..n] == IF i = 0 THEN base ELSE Step(kind, pass[i - 1])
<1>1. pass = [i \in 0..n |-> IF i = 0 THEN base ELSE Step(kind, pass[i - 1])]
  BY DEF IsLoop
<1>2. Loop(kind, base, n) = pass[n]
  BY DEF Loop
<1>. HIDE DEF pass
<1>3. IsLoop(kind, base, n, pass)
  BY <1>1 DEF IsLoop
<1>. QED  BY <1>2, <1>3, LoopsAgree

\* A loop one step at a time.
LEMMA LoopSteps ==
  ASSUME NEW kind, NEW base
  PROVE  /\ Loop(kind, base, 0) = base
         /\ \A n \in Nat : Loop(kind, base, n + 1) = Step(kind, Loop(kind, base, n))
<1>1. Loop(kind, base, 0) = base
  <2>1. PICK f : IsLoop(kind, base, 0, f)
    BY LoopExists
  <2>2. f[0] = base
    BY <2>1 DEF IsLoop
  <2>. QED  BY <2>1, <2>2, LoopIs
<1>2. ASSUME NEW n \in Nat
      PROVE  Loop(kind, base, n + 1) = Step(kind, Loop(kind, base, n))
  <2>1. PICK f : IsLoop(kind, base, n, f)
    BY LoopExists
  <2>2. PICK g : IsLoop(kind, base, n + 1, g)
    BY LoopExists
  <2>3. g[n + 1] = Step(kind, g[n])
    <3>1. n + 1 \in 0..(n + 1) /\ n + 1 # 0 /\ (n + 1) - 1 = n
      OBVIOUS
    <3>2. g[n + 1] = Step(kind, g[(n + 1) - 1])
      BY <2>2, <3>1 DEF IsLoop
    <3>. QED  BY <3>1, <3>2
  <2>4. f[n] = g[n]
    BY <2>1, <2>2, LoopsAgree
  <2>5. Loop(kind, base, n) = f[n] /\ Loop(kind, base, n + 1) = g[n + 1]
    BY <2>1, <2>2, LoopIs
  <2>. QED  BY <2>3, <2>4, <2>5
<1>. QED  BY <1>1, <1>2

\* The fields of a map, and the roots of an array, by their loops.
MapOf(kind, r) ==
    LET n == ReadToken(r, "map")
    IN  IF n.ok THEN Loop(kind, Got(Nothing, n.rest), n.value) ELSE Refused
RootsOf(r) ==
    LET n == ReadToken(r, "array")
    IN  IF n.ok THEN Loop("roots", Got(<<>>, n.rest), n.value) ELSE Refused

\* A map of each kind is read by its loop.
LEMMA MapIsLoop ==
  ASSUME NEW r \in Tokens
  PROVE  /\ EachField(r, RootValue) = MapOf("root", r)
         /\ EachField(r, RequestValue) = MapOf("request", r)
         /\ EachField(r, ReplyValue) = MapOf("reply", r)
<1>. DEFINE n == ReadToken(r, "map")
            base == Got(Nothing, n.rest)
<1>1. CASE ~n.ok
  BY <1>1 DEF EachField, MapOf
<1>2. CASE n.ok
  <2>1. n.value \in Nat
    BY <1>2, HeadNumber
  <2>2. EachField(r, RootValue) = Loop("root", base, n.value)
    <3>. DEFINE pass[i \in 0..n.value] ==
                    IF i = 0 THEN Got(Nothing, n.rest)
                    ELSE LET p == pass[i - 1]
                             key == ReadToken(p.rest, "str")
                         IN  NextField(p, key, RootValue(key.value, key.rest))
    <3>1. EachField(r, RootValue) = pass[n.value]
      BY <1>2 DEF EachField
    <3>2. \A p : Step("root", p) = LET key == ReadToken(p.rest, "str")
                                   IN  NextField(p, key, RootValue(key.value, key.rest))
      BY DEF Step, FieldValue
    <3>3. PICK f : IsLoop("root", base, n.value, f)
      BY <2>1, LoopExists
    <3>4. f = [i \in 0..n.value |->
                  IF i = 0 THEN Got(Nothing, n.rest)
                  ELSE LET p == f[i - 1]
                           key == ReadToken(p.rest, "str")
                       IN  NextField(p, key, RootValue(key.value, key.rest))]
      BY <3>2, <3>3 DEF IsLoop
    <3>5. pass = [i \in 0..n.value |->
                  IF i = 0 THEN Got(Nothing, n.rest)
                  ELSE LET p == pass[i - 1]
                           key == ReadToken(p.rest, "str")
                       IN  NextField(p, key, RootValue(key.value, key.rest))]
      BY <3>4
    <3>. HIDE DEF pass
    <3>6. IsLoop("root", base, n.value, pass)
      BY <3>2, <3>5 DEF IsLoop
    <3>. HIDE DEF base, n
    <3>. QED  BY <2>1, <3>1, <3>6, LoopIs
  <2>3. EachField(r, RequestValue) = Loop("request", base, n.value)
    <3>. DEFINE pass[i \in 0..n.value] ==
                    IF i = 0 THEN Got(Nothing, n.rest)
                    ELSE LET p == pass[i - 1]
                             key == ReadToken(p.rest, "str")
                         IN  NextField(p, key, RequestValue(key.value, key.rest))
    <3>1. EachField(r, RequestValue) = pass[n.value]
      BY <1>2 DEF EachField
    <3>2. \A p : Step("request", p) = LET key == ReadToken(p.rest, "str")
                                   IN  NextField(p, key, RequestValue(key.value, key.rest))
      BY DEF Step, FieldValue
    <3>3. PICK f : IsLoop("request", base, n.value, f)
      BY <2>1, LoopExists
    <3>4. f = [i \in 0..n.value |->
                  IF i = 0 THEN Got(Nothing, n.rest)
                  ELSE LET p == f[i - 1]
                           key == ReadToken(p.rest, "str")
                       IN  NextField(p, key, RequestValue(key.value, key.rest))]
      BY <3>2, <3>3 DEF IsLoop
    <3>5. pass = [i \in 0..n.value |->
                  IF i = 0 THEN Got(Nothing, n.rest)
                  ELSE LET p == pass[i - 1]
                           key == ReadToken(p.rest, "str")
                       IN  NextField(p, key, RequestValue(key.value, key.rest))]
      BY <3>4
    <3>. HIDE DEF pass
    <3>6. IsLoop("request", base, n.value, pass)
      BY <3>2, <3>5 DEF IsLoop
    <3>. HIDE DEF base, n
    <3>. QED  BY <2>1, <3>1, <3>6, LoopIs
  <2>4. EachField(r, ReplyValue) = Loop("reply", base, n.value)
    <3>. DEFINE pass[i \in 0..n.value] ==
                    IF i = 0 THEN Got(Nothing, n.rest)
                    ELSE LET p == pass[i - 1]
                             key == ReadToken(p.rest, "str")
                         IN  NextField(p, key, ReplyValue(key.value, key.rest))
    <3>1. EachField(r, ReplyValue) = pass[n.value]
      BY <1>2 DEF EachField
    <3>2. \A p : Step("reply", p) = LET key == ReadToken(p.rest, "str")
                                   IN  NextField(p, key, ReplyValue(key.value, key.rest))
      BY DEF Step, FieldValue
    <3>3. PICK f : IsLoop("reply", base, n.value, f)
      BY <2>1, LoopExists
    <3>4. f = [i \in 0..n.value |->
                  IF i = 0 THEN Got(Nothing, n.rest)
                  ELSE LET p == f[i - 1]
                           key == ReadToken(p.rest, "str")
                       IN  NextField(p, key, ReplyValue(key.value, key.rest))]
      BY <3>2, <3>3 DEF IsLoop
    <3>5. pass = [i \in 0..n.value |->
                  IF i = 0 THEN Got(Nothing, n.rest)
                  ELSE LET p == pass[i - 1]
                           key == ReadToken(p.rest, "str")
                       IN  NextField(p, key, ReplyValue(key.value, key.rest))]
      BY <3>4
    <3>. HIDE DEF pass
    <3>6. IsLoop("reply", base, n.value, pass)
      BY <3>2, <3>5 DEF IsLoop
    <3>. HIDE DEF base, n
    <3>. QED  BY <2>1, <3>1, <3>6, LoopIs
  <2>. QED  BY <1>2, <2>2, <2>3, <2>4 DEF MapOf
<1>. QED  BY <1>1, <1>2

\* So is the array of roots.
LEMMA RootsAreLoop ==
  ASSUME NEW r \in Tokens
  PROVE  ReadRootArray(r) = RootsOf(r)
<1>. DEFINE n == ReadToken(r, "array")
            base == Got(<<>>, n.rest)
<1>1. CASE ~n.ok
  BY <1>1 DEF ReadRootArray, RootsOf
<1>2. CASE n.ok
  <2>1. n.value \in Nat
    BY <1>2, HeadNumber
  <2>. DEFINE pass[i \in 0..n.value] ==
                  IF i = 0 THEN Got(<<>>, n.rest) ELSE LET p == pass[i - 1] IN NextRoot(p)
  <2>2. ReadRootArray(r) = pass[n.value]
    BY <1>2 DEF ReadRootArray
  <2>3. \A p : Step("roots", p) = NextRoot(p)
    BY DEF Step
  <2>4. PICK f : IsLoop("roots", base, n.value, f)
    BY <2>1, LoopExists
  <2>5. f = [i \in 0..n.value |->
                IF i = 0 THEN Got(<<>>, n.rest) ELSE LET p == f[i - 1] IN NextRoot(p)]
    BY <2>3, <2>4 DEF IsLoop
  <2>6. pass = [i \in 0..n.value |->
                IF i = 0 THEN Got(<<>>, n.rest) ELSE LET p == pass[i - 1] IN NextRoot(p)]
    BY <2>5
  <2>. HIDE DEF pass
  <2>7. IsLoop("roots", base, n.value, pass)
    BY <2>3, <2>6 DEF IsLoop
  <2>8. ReadRootArray(r) = Loop("roots", base, n.value)
    <3>. HIDE DEF base, n
    <3>. QED  BY <2>1, <2>2, <2>7, LoopIs
  <2>. QED  BY <1>2, <2>8 DEF RootsOf
<1>. QED  BY <1>1, <1>2

\* More at the end does not change what a reader gives.
Extends(res, more, q) ==
    res.ok => more = Further(res, q) /\ res.rest \in Tokens
ValueExtends(kind) ==
    \A name : \A r \in Tokens, q \in Tokens :
        Extends(FieldValue(kind, name, r), FieldValue(kind, name, r \o q), q)
StepExtends(kind) ==
    \A value : \A r \in Tokens, q \in Tokens :
        Extends(Step(kind, Got(value, r)), Step(kind, Got(value, r \o q)), q)

\* A step gives nothing after nothing, and otherwise a value and a rest.
LEMMA StepFacts ==
  ASSUME NEW kind, NEW p
  PROVE  /\ ~p.ok => Step(kind, p) = Refused
         /\ Step(kind, p).ok => Step(kind, p) = Got(Step(kind, p).value, Step(kind, p).rest)
<1>1. CASE kind = "roots"
  <2>. DEFINE s == Step(kind, p)
              root == ReadRoot(p.rest)
              x == Append(p.value, root.value)
              y == root.rest
  <2>1. s = IF p.ok /\ root.ok THEN Got(x, y) ELSE Refused
    BY <1>1 DEF Step, NextRoot
  <2>2. Got(x, y) = Got(Got(x, y).value, Got(x, y).rest) /\ ~Refused.ok
    BY DEF Got, Refused
  <2>. HIDE DEF s, x, y, root
  <2>3. (~p.ok => s = Refused) /\ (s.ok => s = Got(s.value, s.rest))
    BY <2>1, <2>2
  <2>. QED  BY <2>3 DEF s
<1>2. CASE kind # "roots"
  <2>. DEFINE s == Step(kind, p)
              key == ReadToken(p.rest, "str")
              v == FieldValue(kind, key.value, key.rest)
              x == With(p.value, key.value, v.value)
              y == v.rest
  <2>1. s = IF p.ok /\ key.ok /\ ~Repeated(p.value, key.value) /\ v.ok THEN Got(x, y) ELSE Refused
    BY <1>2 DEF Step, NextField
  <2>2. Got(x, y) = Got(Got(x, y).value, Got(x, y).rest) /\ ~Refused.ok
    BY DEF Got, Refused
  <2>. HIDE DEF s, x, y, v, key
  <2>3. (~p.ok => s = Refused) /\ (s.ok => s = Got(s.value, s.rest))
    BY <2>1, <2>2
  <2>. QED  BY <2>3 DEF s
<1>. QED  BY <1>1, <1>2

\* A field extends when its value does.
LEMMA FieldExtends ==
  ASSUME NEW kind \in MapKinds, ValueExtends(kind)
  PROVE  StepExtends(kind)
<1>1. SUFFICES ASSUME NEW value, NEW r \in Tokens, NEW q \in Tokens,
                      Step(kind, Got(value, r)).ok
               PROVE  /\ Step(kind, Got(value, r \o q)) = Further(Step(kind, Got(value, r)), q)
                      /\ Step(kind, Got(value, r)).rest \in Tokens
  BY DEF StepExtends, Extends
<1>. DEFINE w == r \o q
            key == ReadToken(r, "str")
            name == key.value
            after == key.rest
            v == FieldValue(kind, name, after)
            x == v.value
            y == v.rest
<1>2. \A rr : Step(kind, Got(value, rr)) =
                 LET k == ReadToken(rr, "str")
                 IN  NextField(Got(value, rr), k, FieldValue(kind, k.value, k.rest))
  <2>1. kind # "roots"
    BY DEF MapKinds
  <2>. QED  BY <2>1, GotFacts DEF Step
<1>3. Step(kind, Got(value, r)) = NextField(Got(value, r), key, v)
  BY <1>2
<1>4. key.ok /\ ~Repeated(value, name) /\ v.ok
      /\ Step(kind, Got(value, r)) = Got(With(value, name, x), y)
  <2>. DEFINE p == Got(value, r)
              s == Step(kind, p)
              k == key
              u == v
  <2>1. p.value = value
    BY DEF Got
  <2>2. s.ok /\ s = NextField(p, k, u) /\ ~Refused.ok
    BY <1>1, <1>3, GotFacts
  <2>. HIDE DEF p, s, k, u
  <2>3. s = Got(With(p.value, k.value, u.value), u.rest) /\ k.ok /\ ~Repeated(p.value, k.value) /\ u.ok
    BY <2>2 DEF NextField
  <2>. QED  BY <2>1, <2>3 DEF k, u, s, p
<1>5. ReadToken(w, "str") = Got(name, after \o q) /\ after \in Tokens
  BY <1>4, TokenExtends
<1>6. FieldValue(kind, name, after \o q) = Got(x, y \o q) /\ y \in Tokens
  BY <1>4, <1>5 DEF ValueExtends, Extends, Further
<1>. HIDE DEF name, after, x, y, w
<1>7. Step(kind, Got(value, w)) =
         NextField(Got(value, w), Got(name, after \o q), FieldValue(kind, name, after \o q))
  BY <1>2, <1>5, GotFacts
<1>8. Step(kind, Got(value, w)) = Got(With(value, name, x), y \o q)
  BY <1>4, <1>6, <1>7, GotFacts DEF NextField
<1>. QED  BY <1>4, <1>6, <1>8, GotFacts DEF Further, w

\* So does a loop.
LEMMA LoopExtends ==
  ASSUME NEW kind, StepExtends(kind), NEW value, NEW r \in Tokens, NEW q \in Tokens, NEW n \in Nat
  PROVE  Extends(Loop(kind, Got(value, r), n), Loop(kind, Got(value, r \o q), n), q)
<1>. DEFINE f(i) == Loop(kind, Got(value, r), i)
            g(i) == Loop(kind, Got(value, r \o q), i)
            T == {i \in 0..n : f(i).ok => /\ g(i) = Further(f(i), q) /\ f(i).rest \in Tokens
                                          /\ f(i) = Got(f(i).value, f(i).rest)}
<1>1. 0 \in T
  <2>1. f(0) = Got(value, r) /\ g(0) = Got(value, r \o q)
    BY LoopSteps
  <2>2. Got(value, r).value = value /\ Got(value, r).rest = r
    BY DEF Got
  <2>. QED  BY <2>1, <2>2 DEF Further
<1>2. ASSUME NEW i \in 1..n, i - 1 \in T PROVE i \in T
  <2>1. i - 1 \in Nat /\ i = (i - 1) + 1 /\ i \in 0..n
    OBVIOUS
  <2>2. f(i) = Step(kind, f(i - 1)) /\ g(i) = Step(kind, g(i - 1))
    <3>1. \A m \in Nat : f(m + 1) = Step(kind, f(m)) /\ g(m + 1) = Step(kind, g(m))
      BY LoopSteps
    <3>. HIDE DEF f, g
    <3>. QED  BY <2>1, <3>1
  <2>3. SUFFICES ASSUME f(i).ok
                 PROVE  /\ g(i) = Further(f(i), q) /\ f(i).rest \in Tokens
                        /\ f(i) = Got(f(i).value, f(i).rest)
    BY <2>1
  <2>. DEFINE p == f(i - 1)
              v == p.value
              y == p.rest
  <2>4. p.ok
    BY <2>2, <2>3, StepFacts, GotFacts
  <2>5. g(i - 1) = Got(v, y \o q) /\ y \in Tokens /\ p = Got(v, y)
    BY <1>2, <2>4 DEF Further
  <2>6. f(i) = Got(f(i).value, f(i).rest)
    BY <2>2, <2>3, StepFacts
  <2>. HIDE DEF f, g, v, y
  <2>7. f(i) = Step(kind, Got(v, y)) /\ g(i) = Step(kind, Got(v, y \o q))
    BY <2>2, <2>5
  <2>8. g(i) = Further(f(i), q) /\ f(i).rest \in Tokens
    BY <2>3, <2>5, <2>7 DEF StepExtends, Extends
  <2>. QED  BY <2>6, <2>8
<1>. HIDE DEF T
<1>3. \A i \in 0..n : i \in T
  BY <1>1, <1>2, CountUp
<1>4. n \in T
  BY <1>3
<1>. QED  BY <1>4 DEF T, Extends

\* A map and an array extend when their steps do.
LEMMA MapExtends ==
  ASSUME NEW kind, StepExtends(kind), NEW r \in Tokens, NEW q \in Tokens
  PROVE  Extends(MapOf(kind, r), MapOf(kind, r \o q), q)
<1>. DEFINE n == ReadToken(r, "map")
            rest == n.rest
            k == n.value
<1>1. SUFFICES ASSUME MapOf(kind, r).ok PROVE Extends(MapOf(kind, r), MapOf(kind, r \o q), q)
  BY DEF Extends
<1>2. n.ok /\ MapOf(kind, r) = Loop(kind, Got(Nothing, rest), k)
  BY <1>1, GotFacts DEF MapOf
<1>3. ReadToken(r \o q, "map") = Got(k, rest \o q) /\ rest \in Tokens /\ k \in Nat
  BY <1>2, TokenExtends, HeadNumber
<1>. HIDE DEF rest, k
<1>4. MapOf(kind, r \o q) = Loop(kind, Got(Nothing, rest \o q), k)
  BY <1>3, GotFacts DEF MapOf
<1>. QED  BY <1>2, <1>3, <1>4, LoopExtends

\* The array of roots, likewise.
LEMMA RootsExtend ==
  ASSUME StepExtends("roots"), NEW r \in Tokens, NEW q \in Tokens
  PROVE  Extends(RootsOf(r), RootsOf(r \o q), q)
<1>. DEFINE n == ReadToken(r, "array")
            rest == n.rest
            k == n.value
<1>1. SUFFICES ASSUME RootsOf(r).ok PROVE Extends(RootsOf(r), RootsOf(r \o q), q)
  BY DEF Extends
<1>2. n.ok /\ RootsOf(r) = Loop("roots", Got(<<>>, rest), k)
  BY <1>1, GotFacts DEF RootsOf
<1>3. ReadToken(r \o q, "array") = Got(k, rest \o q) /\ rest \in Tokens /\ k \in Nat
  BY <1>2, TokenExtends, HeadNumber
<1>. HIDE DEF rest, k
<1>4. RootsOf(r \o q) = Loop("roots", Got(<<>>, rest \o q), k)
  BY <1>3, GotFacts DEF RootsOf
<1>. QED  BY <1>2, <1>3, <1>4, LoopExtends

\* The names that are read as a value of their own.
LEMMA NameFacts ==
  /\ RequestFields \subseteq ScalarNames /\ RootFields \subseteq ScalarNames
  /\ ReplyFields \subseteq ScalarNames \cup {"roots"}
  /\ "roots" \notin ScalarNames /\ "future" \notin ScalarNames
BY DEF RequestFields, RootFields, ReplyFields, ScalarNames, StrNames, BoolNames,
       NumberNames, OptionalNames, ListNames, Counters

\* Nothing that is read changes when more is added at the end.
LEMMA ReadersExtend ==
  StepExtends("root") /\ StepExtends("roots") /\ StepExtends("request") /\ StepExtends("reply")
<1>1. ValueExtends("root")
  <2>1. ASSUME NEW name, NEW r \in Tokens, NEW q \in Tokens
        PROVE  Extends(RootValue(name, r), RootValue(name, r \o q), q)
    <3>1. CASE name \in RootFields
      BY <3>1, NameFacts, ScalarExtends DEF RootValue, Extends
    <3>2. CASE name \notin RootFields
      BY <3>2, SkipExtends DEF RootValue, Extends, Further
    <3>. QED  BY <3>1, <3>2
  <2>. QED  BY <2>1 DEF ValueExtends, FieldValue
<1>2. ValueExtends("request")
  <2>1. ASSUME NEW name, NEW r \in Tokens, NEW q \in Tokens
        PROVE  Extends(RequestValue(name, r), RequestValue(name, r \o q), q)
    <3>1. CASE name \in RequestFields
      BY <3>1, NameFacts, ScalarExtends DEF RequestValue, Extends
    <3>2. CASE name \notin RequestFields
      BY <3>2, SkipExtends DEF RequestValue, Extends, Further
    <3>. QED  BY <3>1, <3>2
  <2>. QED  BY <2>1 DEF ValueExtends, FieldValue
<1>3. StepExtends("root") /\ StepExtends("request")
  BY <1>1, <1>2, FieldExtends DEF MapKinds
<1>4. StepExtends("roots")
  <2>1. SUFFICES ASSUME NEW value, NEW r \in Tokens, NEW q \in Tokens,
                        Step("roots", Got(value, r)).ok
                 PROVE  /\ Step("roots", Got(value, r \o q)) = Further(Step("roots", Got(value, r)), q)
                        /\ Step("roots", Got(value, r)).rest \in Tokens
    BY DEF StepExtends, Extends
  <2>. DEFINE got == MapOf("root", r)
              x == [k \in RootFields |-> Field(got.value, k)]
              y == got.rest
              w == r \o q
  <2>2. w \in Tokens
    BY ConcatType DEF Tokens
  <2>3. /\ ReadRoot(r) = IF got.ok THEN Got(x, y) ELSE Refused
        /\ ReadRoot(w) = LET more == MapOf("root", w)
                         IN  IF more.ok THEN Got([k \in RootFields |-> Field(more.value, k)], more.rest)
                             ELSE Refused
    BY <2>2, MapIsLoop DEF ReadRoot
  <2>4. \A rr : Step("roots", Got(value, rr)) =
                   IF ReadRoot(rr).ok THEN Got(Append(value, ReadRoot(rr).value), ReadRoot(rr).rest)
                   ELSE Refused
    BY GotFacts DEF Step, NextRoot
  <2>5. ReadRoot(r).ok
    BY <2>1, <2>4, GotFacts
  <2>6. got.ok
    <3>. HIDE DEF got, x, y
    <3>. QED  BY <2>3, <2>5, GotFacts
  <2>7. MapOf("root", w) = Got(got.value, y \o q) /\ y \in Tokens
    BY <1>3, <2>6, MapExtends DEF Extends, Further
  <2>8. ReadRoot(r) = Got(x, y)
    BY <2>3, <2>6
  <2>9. ReadRoot(w) = Got(x, y \o q)
    <3>. HIDE DEF got, y, w
    <3>. QED  BY <2>3, <2>7, GotFacts
  <2>. HIDE DEF x, y, w
  <2>10. Step("roots", Got(value, r)) = Got(Append(value, x), y)
    BY <2>4, <2>8, GotFacts
  <2>11. Step("roots", Got(value, w)) = Got(Append(value, x), y \o q)
    BY <2>4, <2>9, GotFacts
  <2>. QED  BY <2>7, <2>10, <2>11, GotFacts DEF Further, w
<1>5. ValueExtends("reply")
  <2>1. ASSUME NEW name, NEW r \in Tokens, NEW q \in Tokens
        PROVE  Extends(ReplyValue(name, r), ReplyValue(name, r \o q), q)
    <3>1. CASE name = "roots"
      <4>1. r \o q \in Tokens /\ "roots" \in ReplyFields
        BY ConcatType DEF Tokens, ReplyFields
      <4>2. ReplyValue(name, r) = RootsOf(r) /\ ReplyValue(name, r \o q) = RootsOf(r \o q)
        BY <3>1, <4>1, RootsAreLoop DEF ReplyValue
      <4>. QED  BY <1>4, <4>2, RootsExtend
    <3>2. CASE name \in ReplyFields /\ name # "roots"
      <4>1. name \in ScalarNames
        BY <3>2, NameFacts
      <4>2. ReplyValue(name, r) = ReadScalar(name, r)
            /\ ReplyValue(name, r \o q) = ReadScalar(name, r \o q)
        BY <3>2 DEF ReplyValue
      <4>. QED  BY <4>1, <4>2, ScalarExtends DEF Extends
    <3>3. CASE name \notin ReplyFields
      <4>1. ReplyValue(name, r) = Skip(r) /\ ReplyValue(name, r \o q) = Skip(r \o q)
        BY <3>3 DEF ReplyValue, ReplyFields
      <4>. QED  BY <4>1, SkipExtends DEF Extends, Further
    <3>. QED  BY <3>1, <3>2, <3>3
  <2>. QED  BY <2>1 DEF ValueExtends, FieldValue
<1>6. StepExtends("reply")
  BY <1>5, FieldExtends DEF MapKinds
<1>. QED  BY <1>3, <1>4, <1>6

-----------------------------------------------------------------------------
(***************************************************************************)
(* What is read of fields that were written one after the other.           *)
(***************************************************************************)
Entry == Texts \X Tokens
Reads(kind, f, res) ==
    \A rest \in Tokens : FieldValue(kind, f[1], f[2] \o rest) = Onto(res, rest)

\* The first k fields: whether each is read and none twice, and their values.
Good(fs, res, k) ==
    /\ \A i \in 1..k : res[i].ok
    /\ \A i, j \in 1..k : i < j => fs[i][1] # fs[j][1]
Names(fs, k) == {fs[i][1] : i \in 1..k}
Values(fs, res, k) ==
    [name \in Names(fs, k) |-> res[CHOOSE i \in 1..k : fs[i][1] = name].value]

Piece(f) == <<<<"str", f[1]>>>> \o f[2]
Joined(ps, k) == FlattenSeq(SubSeq(ps, 1, k))

\* The first pieces of several, joined.
LEMMA JoinedFacts ==
  ASSUME NEW ps \in Seq(Tokens), NEW rest \in Tokens
  PROVE  /\ Joined(ps, 0) \o rest = rest
         /\ Joined(ps, Len(ps)) = FlattenSeq(ps)
         /\ \A k \in 0..Len(ps) : Joined(ps, k) \in Tokens
         /\ \A k \in 1..Len(ps) : /\ ps[k] \o rest \in Tokens
                                  /\ Joined(ps, k) \o rest = Joined(ps, k - 1) \o (ps[k] \o rest)
<1>. DEFINE n == Len(ps)
<1>1. n \in Nat
  OBVIOUS
<1>2. /\ SubSeq(ps, 1, 0) = <<>> /\ SubSeq(ps, 1, n) = ps
      /\ \A i \in 0..n : SubSeq(ps, 1, i) \in Seq(Tokens)
      /\ \A i \in 1..n : SubSeq(ps, 1, i) = Append(SubSeq(ps, 1, i - 1), ps[i])
  BY PrefixFacts
<1>3. Joined(ps, 0) \o rest = rest
  <2>1. Joined(ps, 0) = <<>>
    BY <1>2, FlattenEmpty DEF Joined
  <2>2. <<>> \o rest = rest
    BY DEF Tokens
  <2>. QED  BY <2>1, <2>2
<1>4. \A k \in 0..n : Joined(ps, k) \in Tokens
  BY <1>2, FlattenType DEF Joined, Tokens
<1>5. ASSUME NEW k \in 1..n
      PROVE  /\ ps[k] \o rest \in Tokens
             /\ Joined(ps, k) \o rest = Joined(ps, k - 1) \o (ps[k] \o rest)
  <2>. DEFINE p == ps[k]
              a == SubSeq(ps, 1, k - 1)
  <2>1. p \in Tokens
    <3>. HIDE DEF Tokens
    <3>. QED  BY ElementType
  <2>2. k - 1 \in 0..n
    BY <1>1
  <2>3. a \in Seq(Tokens) /\ SubSeq(ps, 1, k) = Append(a, p)
    BY <1>2, <2>2
  <2>4. Joined(ps, k - 1) \in Tokens
    BY <1>4, <2>2
  <2>. HIDE DEF p, a
  <2>5. FlattenSeq(Append(a, p)) = FlattenSeq(a) \o p
    BY <2>1, <2>3, FlattenAppend DEF Tokens
  <2>6. Joined(ps, k) = Joined(ps, k - 1) \o p
    BY <2>3, <2>5 DEF Joined, a
  <2>7. (Joined(ps, k - 1) \o p) \o rest = Joined(ps, k - 1) \o (p \o rest)
    <3>. DEFINE c == Joined(ps, k - 1)
    <3>1. Associate(c, p, rest)
      <4>. HIDE DEF c
      <4>. QED  BY <2>1, <2>4, Associative DEF Tokens, c
    <3>. HIDE DEF c
    <3>2. (c \o p) \o rest = c \o (p \o rest)
      BY <3>1, Zenon DEF Associate
    <3>. QED  BY <3>2 DEF c
  <2>8. p \o rest \in Tokens
    BY <2>1, ConcatType DEF Tokens
  <2>. QED  BY <2>6, <2>7, <2>8 DEF p
<1>. QED  BY <1>2, <1>3, <1>4, <1>5 DEF Joined

\* The pieces of a map's fields.
LEMMA PiecesType ==
  ASSUME NEW fs \in Seq(Entry)
  PROVE  LET ps == [i \in DOMAIN fs |-> <<<<"str", fs[i][1]>>>> \o fs[i][2]]
         IN  /\ ps \in Seq(Tokens) /\ Len(ps) = Len(fs)
             /\ \A i \in 1..Len(fs) : ps[i] = Piece(fs[i])
             /\ WriteMap(Len(fs), fs) = <<<<"map", Len(fs)>>>> \o FlattenSeq(ps)
<1>. DEFINE ps == [i \in DOMAIN fs |-> <<<<"str", fs[i][1]>>>> \o fs[i][2]]
            n == Len(fs)
<1>1. n \in Nat /\ DOMAIN fs = 1..n /\ \A i \in 1..n : fs[i] \in Entry
  OBVIOUS
<1>2. \A i \in 1..n : <<<<"str", fs[i][1]>>>> \o fs[i][2] \in Tokens
  <2>1. ASSUME NEW f \in Entry PROVE <<<<"str", f[1]>>>> \o f[2] \in Tokens
    <3>1. f[1] \in Texts /\ f[2] \in Tokens
      BY DEF Entry
    <3>. DEFINE t == <<"str", f[1]>>
    <3>2. t \in Token
      BY <3>1, TokenTypes
    <3>. HIDE DEF t
    <3>3. <<t>> \in Tokens
      BY <3>2, OneToken
    <3>. QED  BY <3>1, <3>3, ConcatType DEF Tokens, t
  <2>. QED  BY <1>1, <2>1
<1>. HIDE DEF n
<1>3. ps \in [1..n -> Tokens] /\ \A i \in 1..n : ps[i] = Piece(fs[i])
  BY <1>1, <1>2 DEF Piece
<1>. HIDE DEF ps
<1>4. ps \in Seq(Tokens) /\ Len(ps) = n
  BY <1>1, <1>3, FunctionIsSeq
<1>5. WriteMap(n, fs) = <<<<"map", n>>>> \o FlattenSeq(ps)
  BY DEF WriteMap, ps
<1>. QED  BY <1>3, <1>4, <1>5 DEF ps, n

\* One field more.
LEMMA ValuesGrow ==
  ASSUME NEW fs, NEW res, NEW k \in Nat \ {0}, Good(fs, res, k)
  PROVE  Values(fs, res, k) = With(Values(fs, res, k - 1), fs[k][1], res[k].value)
<1>. DEFINE old == Values(fs, res, k - 1)
            new == Values(fs, res, k)
            key == fs[k][1]
<1>1. \A i \in 1..k : i \in 1..(k - 1) \/ i = k
  OBVIOUS
<1>2. k \in 1..k /\ \A i \in 1..(k - 1) : i \in 1..k /\ i < k
  OBVIOUS
<1>3. DOMAIN old = Names(fs, k - 1) /\ DOMAIN new = Names(fs, k)
  BY DEF Values
<1>4. Names(fs, k) = Names(fs, k - 1) \cup {key}
  BY <1>1, <1>2 DEF Names
<1>5. \A i, j \in 1..k : fs[i][1] = fs[j][1] => i = j
  <2>1. \A i, j \in 1..k : i # j => i < j \/ j < i
    OBVIOUS
  <2>. QED  BY <2>1 DEF Good
<1>6. \A i \in 1..k : new[fs[i][1]] = res[i].value
  <2>1. ASSUME NEW i \in 1..k PROVE new[fs[i][1]] = res[i].value
    <3>. DEFINE c == CHOOSE j \in 1..k : fs[j][1] = fs[i][1]
    <3>1. c \in 1..k /\ fs[c][1] = fs[i][1]
      OBVIOUS
    <3>2. c = i
      <4>. HIDE DEF c
      <4>. QED  BY <1>5, <3>1
    <3>3. fs[i][1] \in Names(fs, k)
      BY DEF Names
    <3>4. new[fs[i][1]] = res[c].value
      BY <3>3 DEF Values
    <3>. QED  BY <3>2, <3>4
  <2>. QED  BY <2>1
<1>7. \A i \in 1..(k - 1) : old[fs[i][1]] = res[i].value
  <2>1. ASSUME NEW i \in 1..(k - 1) PROVE old[fs[i][1]] = res[i].value
    <3>. DEFINE c == CHOOSE j \in 1..(k - 1) : fs[j][1] = fs[i][1]
    <3>1. c \in 1..(k - 1) /\ fs[c][1] = fs[i][1]
      OBVIOUS
    <3>2. c = i
      <4>. HIDE DEF c
      <4>. QED  BY <1>2, <1>5, <3>1
    <3>3. fs[i][1] \in Names(fs, k - 1)
      BY DEF Names
    <3>4. old[fs[i][1]] = res[c].value
      BY <3>3 DEF Values
    <3>. QED  BY <3>2, <3>4
  <2>. QED  BY <2>1
<1>8. new = [name \in Names(fs, k) |-> new[name]]
  BY DEF Values
<1>. HIDE DEF old, new, key
<1>9. \A name \in Names(fs, k) : new[name] = IF name = key THEN res[k].value ELSE old[name]
  <2>1. ASSUME NEW name \in Names(fs, k)
        PROVE  new[name] = IF name = key THEN res[k].value ELSE old[name]
    <3>1. PICK i \in 1..k : name = fs[i][1]
      BY DEF Names
    <3>2. CASE i = k
      BY <1>6, <3>1, <3>2 DEF key
    <3>3. CASE i # k
      <4>1. i \in 1..(k - 1) /\ fs[i][1] # key
        BY <1>1, <1>2, <1>5, <3>3 DEF key
      <4>. QED  BY <1>6, <1>7, <3>1, <4>1
    <3>. QED  BY <3>2, <3>3
  <2>. QED  BY <2>1
<1>10. new = [name \in Names(fs, k - 1) \cup {key} |-> IF name = key THEN res[k].value ELSE old[name]]
  BY <1>4, <1>8, <1>9
<1>. QED  BY <1>3, <1>10 DEF With, old, new, key

\* The step that reads one field.
LEMMA FieldStep ==
  ASSUME NEW kind \in MapKinds, NEW f \in Entry, NEW res, Reads(kind, f, res),
         NEW got, NEW rest \in Tokens
  PROVE  Step(kind, Got(got, Piece(f) \o rest)) =
            IF ~Repeated(got, f[1]) /\ res.ok THEN Got(With(got, f[1], res.value), rest)
            ELSE Refused
<1>. DEFINE t == <<"str", f[1]>>
            name == f[1]
            ts == f[2]
            v == FieldValue(kind, name, ts \o rest)
            r == Piece(f) \o rest
<1>1. t \in Token /\ t[1] = "str" /\ t[2] = name /\ ts \in Tokens
  BY TokenTypes DEF Entry
<1>2. Piece(f) = <<t>> \o ts
  BY DEF Piece
<1>. HIDE DEF t
<1>3. ts \o rest \in Tokens /\ r = <<t>> \o (ts \o rest)
  <2>1. <<t>> \in Tokens
    BY <1>1, OneToken
  <2>2. ts \o rest \in Tokens
    BY <1>1, ConcatType DEF Tokens
  <2>. HIDE DEF ts
  <2>3. (<<t>> \o ts) \o rest = <<t>> \o (ts \o rest)
    BY <1>1, <2>1, ConcatAssoc DEF Tokens
  <2>. QED  BY <1>2, <2>2, <2>3
<1>4. ReadToken(r, "str") = Got(name, ts \o rest)
  BY <1>1, <1>3, TokenReads
<1>5. v = Onto(res, rest)
  BY DEF Reads
<1>. HIDE DEF name, ts, v, r
<1>6. Step(kind, Got(got, r)) = NextField(Got(got, r), Got(name, ts \o rest), v)
  <2>1. kind # "roots"
    BY DEF MapKinds
  <2>. QED  BY <1>4, <2>1, GotFacts DEF Step, v
<1>7. CASE res.ok
  <2>1. v.ok /\ v.value = res.value /\ v.rest = rest
    BY <1>5, <1>7, GotFacts DEF Onto
  <2>. QED  BY <1>6, <1>7, <2>1, GotFacts DEF NextField, r, name
<1>8. CASE ~res.ok
  <2>1. v = Refused /\ ~v.ok
    BY <1>5, <1>8, GotFacts DEF Onto
  <2>. QED  BY <1>6, <1>8, <2>1, GotFacts DEF NextField, r, name
<1>. QED  BY <1>7, <1>8

\* Fields are read one after the other, whatever follows them.
LEMMA FieldsRead ==
  ASSUME NEW kind \in MapKinds, NEW fs \in Seq(Entry), NEW res,
         \A i \in 1..Len(fs) : Reads(kind, fs[i], res[i]),
         NEW rest \in Tokens
  PROVE  /\ WriteMap(Len(fs), fs) \in Tokens
         /\ MapOf(kind, WriteMap(Len(fs), fs) \o rest) =
               IF Good(fs, res, Len(fs)) THEN Got(Values(fs, res, Len(fs)), rest) ELSE Refused
<1>. DEFINE n == Len(fs)
            ps == [i \in DOMAIN fs |-> <<<<"str", fs[i][1]>>>> \o fs[i][2]]
            After(k, more) == Loop(kind, Got(Nothing, Joined(ps, k) \o more), k)
            Result(k, more) == IF Good(fs, res, k) THEN Got(Values(fs, res, k), more) ELSE Refused
            T == {k \in 0..n : \A more \in Tokens : After(k, more) = Result(k, more)}
<1>1. /\ n \in Nat /\ ps \in Seq(Tokens) /\ Len(ps) = n /\ \A i \in 1..n : ps[i] = Piece(fs[i])
      /\ WriteMap(n, fs) = <<<<"map", n>>>> \o FlattenSeq(ps)
  <2>1. n \in Nat
    OBVIOUS
  <2>2. /\ ps \in Seq(Tokens) /\ Len(ps) = n /\ \A i \in 1..n : ps[i] = Piece(fs[i])
        /\ WriteMap(n, fs) = <<<<"map", n>>>> \o FlattenSeq(ps)
    BY ONLY fs \in Seq(Entry), PiecesType
  <2>. QED  BY <2>1, <2>2
<1>. HIDE DEF ps
<1>2. 0 \in T
  <2>1. ASSUME NEW more \in Tokens PROVE After(0, more) = Result(0, more)
    <3>1. Joined(ps, 0) \o more = more
      BY <1>1, JoinedFacts
    <3>2. After(0, more) = Got(Nothing, more)
      BY <3>1, LoopSteps
    <3>3. Good(fs, res, 0)
      BY DEF Good
    <3>4. Values(fs, res, 0) = Nothing
      <4>1. Names(fs, 0) = {}
        BY DEF Names
      <4>. QED  BY <4>1 DEF Values, Nothing
    <3>. QED  BY <3>2, <3>3, <3>4
  <2>2. 0 \in 0..n
    BY <1>1
  <2>. HIDE DEF After, Result
  <2>. QED  BY <2>1, <2>2
<1>3. ASSUME NEW k \in 1..n, k - 1 \in T
      PROVE  k \in T
  <2>1. ASSUME NEW more \in Tokens PROVE After(k, more) = Result(k, more)
    <3>. DEFINE f == fs[k]
                m == ps[k] \o more
                old == Values(fs, res, k - 1)
    <3>1. f \in Entry /\ ps[k] = Piece(f) /\ Reads(kind, f, res[k])
      BY <1>1, ElementType
    <3>2. m \in Tokens /\ Joined(ps, k) \o more = Joined(ps, k - 1) \o m
      BY <1>1, JoinedFacts
    <3>3. k - 1 \in Nat /\ (k - 1) + 1 = k /\ k \in Nat \ {0}
      BY <1>1
    <3>4. After(k - 1, m) = Result(k - 1, m)
      <4>. HIDE DEF After, Result, m
      <4>. QED  BY <1>3, <3>2
    <3>5. After(k, more) = Step(kind, Result(k - 1, m))
      <4>. DEFINE base == Got(Nothing, Joined(ps, k - 1) \o m)
      <4>1. After(k, more) = Loop(kind, base, k) /\ After(k - 1, m) = Loop(kind, base, k - 1)
        BY <3>2
      <4>2. Loop(kind, base, (k - 1) + 1) = Step(kind, Loop(kind, base, k - 1))
        BY <3>3, LoopSteps
      <4>3. Loop(kind, base, k) = Step(kind, Loop(kind, base, k - 1))
        <5>. HIDE DEF base
        <5>. QED  BY <3>3, <4>2
      <4>. HIDE DEF After, Result, m, base
      <4>. QED  BY <3>4, <4>1, <4>3, Zenon
    <3>6. Good(fs, res, k) <=> Good(fs, res, k - 1) /\ res[k].ok /\ ~Repeated(old, f[1])
      <4>1. \A i \in 1..k : i \in 1..(k - 1) \/ i = k
        BY <3>3
      <4>2. k \in 1..k /\ \A i \in 1..(k - 1) : i \in 1..k /\ i < k /\ i # k
        BY <3>3
      <4>3. \A i, j \in 1..k : i < j => i \in 1..(k - 1)
        BY <3>3
      <4>4. Repeated(old, f[1]) <=> \E i \in 1..(k - 1) : fs[i][1] = fs[k][1]
        BY DEF Repeated, Values, Names
      <4>. HIDE DEF f, old
      <4>5. Good(fs, res, k) => Good(fs, res, k - 1) /\ res[k].ok /\ ~Repeated(old, f[1])
        BY <4>2, <4>4 DEF Good
      <4>6. Good(fs, res, k - 1) /\ res[k].ok /\ ~Repeated(old, f[1]) => Good(fs, res, k)
        BY <4>1, <4>3, <4>4 DEF Good
      <4>. QED  BY <4>5, <4>6
    <3>. HIDE DEF f, m
    <3>7. CASE Good(fs, res, k - 1)
      <4>1. After(k, more) = Step(kind, Got(old, Piece(f) \o more))
        BY <3>1, <3>5, <3>7 DEF m
      <4>2. Step(kind, Got(old, Piece(f) \o more)) =
               IF ~Repeated(old, f[1]) /\ res[k].ok THEN Got(With(old, f[1], res[k].value), more)
               ELSE Refused
        BY <3>1, FieldStep
      <4>3. Good(fs, res, k) => Values(fs, res, k) = With(old, f[1], res[k].value)
        BY <3>3, ValuesGrow DEF f
      <4>. HIDE DEF After, old
      <4>. QED  BY <3>6, <3>7, <4>1, <4>2, <4>3
    <3>8. CASE ~Good(fs, res, k - 1)
      <4>1. Step(kind, Refused) = Refused
        BY StepFacts, GotFacts
      <4>. HIDE DEF After
      <4>. QED  BY <3>5, <3>6, <3>8, <4>1
    <3>. QED  BY <3>7, <3>8
  <2>2. k \in 0..n
    BY <1>1
  <2>. HIDE DEF After, Result
  <2>. QED  BY <2>1, <2>2
<1>4. After(n, rest) = Result(n, rest)
  <2>. HIDE DEF T
  <2>1. \A i \in 0..n : i \in T
    BY <1>1, <1>2, <1>3, CountUp
  <2>2. n \in T
    BY <1>1, <2>1
  <2>. QED  BY <2>2 DEF T
<1>. HIDE DEF T
<1>. DEFINE t == <<"map", n>>
            body == FlattenSeq(ps)
<1>5. t \in Token /\ t[1] = "map" /\ t[2] = n
  BY <1>1, TokenTypes
<1>6. body \in Tokens /\ Joined(ps, n) = body
  <2>1. Joined(ps, Len(ps)) = FlattenSeq(ps) /\ \A k \in 0..Len(ps) : Joined(ps, k) \in Tokens
    BY <1>1, JoinedFacts
  <2>. HIDE DEF n
  <2>2. n \in 0..n /\ Len(ps) = n
    BY <1>1
  <2>. QED  BY <2>1, <2>2
<1>7. WriteMap(n, fs) = <<t>> \o body
  BY <1>1
<1>. HIDE DEF t, body, n
<1>8. <<t>> \in Tokens
  BY <1>5, OneToken
<1>9. WriteMap(n, fs) \in Tokens
  BY <1>6, <1>7, <1>8, ConcatType DEF Tokens
<1>10. body \o rest \in Tokens /\ WriteMap(n, fs) \o rest = <<t>> \o (body \o rest)
  BY <1>6, <1>7, <1>8, ConcatType, ConcatAssoc DEF Tokens
<1>11. ReadToken(<<t>> \o (body \o rest), "map") = Got(n, body \o rest)
  BY <1>5, <1>10, TokenReads
<1>12. MapOf(kind, WriteMap(n, fs) \o rest) = Loop(kind, Got(Nothing, body \o rest), n)
  BY <1>10, <1>11, GotFacts DEF MapOf
<1>. QED  BY <1>4, <1>6, <1>9, <1>12 DEF n

\* What a reader makes of a root's tokens, whatever follows.
ReadsRoot(ts, res) == \A rest \in Tokens : ReadRoot(ts \o rest) = Onto(res, rest)
AllOk(res, k) == \A i \in 1..k : res[i].ok
RootValues(res, k) == [i \in 1..k |-> res[i].value]

\* Roots are read one after the other, whatever follows them.
LEMMA RootsRead ==
  ASSUME NEW ws \in Seq(Tokens), NEW res,
         \A i \in 1..Len(ws) : ReadsRoot(ws[i], res[i]),
         NEW rest \in Tokens
  PROVE  /\ WriteRoots(ws) \in Tokens
         /\ ReadRootArray(WriteRoots(ws) \o rest) =
               IF AllOk(res, Len(ws)) THEN Got(RootValues(res, Len(ws)), rest) ELSE Refused
<1>. DEFINE n == Len(ws)
            After(k, more) == Loop("roots", Got(<<>>, Joined(ws, k) \o more), k)
            Result(k, more) == IF AllOk(res, k) THEN Got(RootValues(res, k), more) ELSE Refused
            T == {k \in 0..n : \A more \in Tokens : After(k, more) = Result(k, more)}
<1>1. n \in Nat
  OBVIOUS
<1>2. 0 \in T
  <2>1. ASSUME NEW more \in Tokens PROVE After(0, more) = Result(0, more)
    <3>1. Joined(ws, 0) \o more = more
      BY JoinedFacts
    <3>2. After(0, more) = Got(<<>>, more)
      BY <3>1, LoopSteps
    <3>3. AllOk(res, 0)
      BY DEF AllOk
    <3>4. RootValues(res, 0) = <<>>
      BY DEF RootValues
    <3>. QED  BY <3>2, <3>3, <3>4
  <2>2. 0 \in 0..n
    BY <1>1
  <2>. HIDE DEF After, Result
  <2>. QED  BY <2>1, <2>2
<1>3. ASSUME NEW k \in 1..n, k - 1 \in T
      PROVE  k \in T
  <2>1. ASSUME NEW more \in Tokens PROVE After(k, more) = Result(k, more)
    <3>. DEFINE m == ws[k] \o more
                old == RootValues(res, k - 1)
    <3>1. ReadRoot(m) = Onto(res[k], more)
      BY DEF ReadsRoot
    <3>2. m \in Tokens /\ Joined(ws, k) \o more = Joined(ws, k - 1) \o m
      BY JoinedFacts
    <3>3. k - 1 \in Nat /\ (k - 1) + 1 = k
      BY <1>1
    <3>4. After(k - 1, m) = Result(k - 1, m)
      <4>. HIDE DEF After, Result, m
      <4>. QED  BY <1>3, <3>2
    <3>5. After(k, more) = Step("roots", Result(k - 1, m))
      <4>. DEFINE base == Got(<<>>, Joined(ws, k - 1) \o m)
      <4>1. After(k, more) = Loop("roots", base, k) /\ After(k - 1, m) = Loop("roots", base, k - 1)
        BY <3>2
      <4>2. Loop("roots", base, (k - 1) + 1) = Step("roots", Loop("roots", base, k - 1))
        BY <3>3, LoopSteps
      <4>. HIDE DEF After, Result, m, base
      <4>. QED  BY <3>3, <3>4, <4>1, <4>2
    <3>6. AllOk(res, k) <=> AllOk(res, k - 1) /\ res[k].ok
      <4>1. \A i \in 1..k : i \in 1..(k - 1) \/ i = k
        BY <3>3
      <4>2. k \in 1..k /\ \A i \in 1..(k - 1) : i \in 1..k
        BY <3>3
      <4>. QED  BY <4>1, <4>2 DEF AllOk
    <3>. HIDE DEF m
    <3>7. CASE AllOk(res, k - 1)
      <4>1. After(k, more) = Step("roots", Got(old, m))
        BY <3>5, <3>7
      <4>2. Step("roots", Got(old, m)) =
               IF res[k].ok THEN Got(Append(old, res[k].value), more) ELSE Refused
        <5>1. Step("roots", Got(old, m)) =
                 IF ReadRoot(m).ok THEN Got(Append(old, ReadRoot(m).value), ReadRoot(m).rest)
                 ELSE Refused
          BY GotFacts DEF Step, NextRoot
        <5>2. CASE res[k].ok
          BY <3>1, <5>1, <5>2, GotFacts DEF Onto
        <5>3. CASE ~res[k].ok
          BY <3>1, <5>1, <5>3, GotFacts DEF Onto
        <5>. QED  BY <5>2, <5>3
      <4>3. RootValues(res, k) = Append(old, res[k].value)
        <5>. DEFINE v == [i \in 1..k |-> res[i].value]
                    S == {v[i] : i \in 1..k}
        <5>1. v \in [1..k -> S] /\ k \in Nat
          BY <3>3
        <5>2. old \in [1..(k - 1) -> S] /\ \A i \in 1..(k - 1) : old[i] = v[i]
          <6>1. \A i \in 1..(k - 1) : i \in 1..k
            BY <3>3
          <6>. QED  BY <6>1 DEF RootValues
        <5>3. v[k] = res[k].value /\ v[k] \in S
          <6>1. k \in 1..k
            BY <3>3
          <6>. QED  BY <6>1
        <5>4. RootValues(res, k) = v
          BY DEF RootValues
        <5>. HIDE DEF v, S, old
        <5>5. /\ v \in Seq(S) /\ Len(v) = k /\ old \in Seq(S) /\ Len(old) = k - 1
          BY <3>3, <5>1, <5>2, FunctionIsSeq
        <5>6. v = Append(old, v[k])
          <6>. DEFINE u == Append(old, v[k])
          <6>1. /\ u \in Seq(S) /\ Len(u) = (k - 1) + 1 /\ u[(k - 1) + 1] = v[k]
                /\ \A i \in 1..(k - 1) : u[i] = old[i]
            BY <5>3, <5>5
          <6>2. \A i \in 1..k : i \in 1..(k - 1) \/ i = k
            BY <3>3
          <6>. HIDE DEF u
          <6>3. \A i \in 1..k : u[i] = v[i]
            BY <3>3, <5>2, <6>1, <6>2
          <6>. QED  BY <3>3, <5>5, <6>1, <6>3 DEF u
        <5>. QED  BY <5>3, <5>4, <5>6
      <4>. HIDE DEF After, old
      <4>. QED  BY <3>6, <3>7, <4>1, <4>2, <4>3
    <3>8. CASE ~AllOk(res, k - 1)
      <4>1. Step("roots", Refused) = Refused
        BY StepFacts, GotFacts
      <4>. HIDE DEF After
      <4>. QED  BY <3>5, <3>6, <3>8, <4>1
    <3>. QED  BY <3>7, <3>8
  <2>2. k \in 0..n
    BY <1>1
  <2>. HIDE DEF After, Result
  <2>. QED  BY <2>1, <2>2
<1>4. After(n, rest) = Result(n, rest)
  <2>. HIDE DEF T
  <2>1. \A i \in 0..n : i \in T
    BY <1>1, <1>2, <1>3, CountUp
  <2>2. n \in T
    BY <1>1, <2>1
  <2>. QED  BY <2>2 DEF T
<1>. HIDE DEF T
<1>. DEFINE t == <<"array", n>>
            body == FlattenSeq(ws)
<1>5. t \in Token /\ t[1] = "array" /\ t[2] = n
  BY <1>1, TokenTypes
<1>6. body \in Tokens /\ Joined(ws, n) = body
  <2>1. Joined(ws, n) = body /\ \A k \in 0..n : Joined(ws, k) \in Tokens
    BY JoinedFacts
  <2>. HIDE DEF n
  <2>2. n \in 0..n
    BY <1>1
  <2>. QED  BY <2>1, <2>2
<1>7. WriteRoots(ws) = <<t>> \o body
  BY DEF WriteRoots
<1>. HIDE DEF t, body, n
<1>8. <<t>> \in Tokens
  BY <1>5, OneToken
<1>9. WriteRoots(ws) \in Tokens
  BY <1>6, <1>7, <1>8, ConcatType DEF Tokens
<1>10. body \o rest \in Tokens /\ WriteRoots(ws) \o rest = <<t>> \o (body \o rest)
  BY <1>6, <1>7, <1>8, ConcatType, ConcatAssoc DEF Tokens
<1>11. ReadToken(<<t>> \o (body \o rest), "array") = Got(n, body \o rest)
  BY <1>5, <1>10, TokenReads
<1>12. RootsOf(WriteRoots(ws) \o rest) = Loop("roots", Got(<<>>, body \o rest), n)
  BY <1>10, <1>11, GotFacts DEF RootsOf
<1>13. WriteRoots(ws) \o rest \in Tokens
  BY <1>9, ConcatType DEF Tokens
<1>. QED  BY <1>4, <1>6, <1>9, <1>12, <1>13, RootsAreLoop DEF n

-----------------------------------------------------------------------------
(***************************************************************************)
(* The fields of this protocol, and the ways a peer's may differ.          *)
(***************************************************************************)
KindFields(kind) ==
    CASE kind = "root" -> RootFields
      [] kind = "request" -> RequestFields
      [] kind = "reply" -> ReplyFields
MapToken == <<"map", 0>>
FutureWord == <<"str", "future">>
NewField == <<"future", Structure>>

\* What is made of a field that ends the message.
ResOf(kind, f) == FieldValue(kind, f[1], f[2])
Exact(kind, f) == Reads(kind, f, ResOf(kind, f))

\* What is made of a field does not depend on what follows.
LEMMA ReadsIsExact ==
  ASSUME NEW kind, NEW f \in Entry, NEW res, Reads(kind, f, res)
  PROVE  Exact(kind, f) /\ ResOf(kind, f) = Onto(res, <<>>)
<1>1. <<>> \in Tokens /\ f[2] \o <<>> = f[2]
  <2>1. f[2] \in Seq(Token)
    BY DEF Entry, Tokens
  <2>. QED  BY <2>1 DEF Tokens
<1>2. ResOf(kind, f) = Onto(res, <<>>)
  BY <1>1 DEF Reads, ResOf
<1>3. \A rest : Onto(Onto(res, <<>>), rest) = Onto(res, rest)
  BY GotFacts DEF Onto
<1>. QED  BY <1>2, <1>3 DEF Exact, Reads

\* The fields of each kind are read by their types.
LEMMA FieldReaders ==
  ASSUME NEW kind \in MapKinds, NEW name, NEW r \in Tokens
  PROVE  /\ name \in KindFields(kind) /\ name # "roots" =>
               name \in ScalarNames /\ FieldValue(kind, name, r) = ReadScalar(name, r)
         /\ name \in KindFields(kind) /\ name = "roots" => FieldValue(kind, name, r) = ReadRootArray(r)
         /\ name \notin KindFields(kind) => FieldValue(kind, name, r) = Skip(r)
<1>1. CASE kind = "root"
  <2>1. KindFields(kind) = RootFields /\ FieldValue(kind, name, r) = RootValue(name, r)
    BY <1>1 DEF KindFields, FieldValue
  <2>. QED  BY <2>1, NameFacts DEF RootValue
<1>2. CASE kind = "request"
  <2>1. KindFields(kind) = RequestFields /\ FieldValue(kind, name, r) = RequestValue(name, r)
    BY <1>2 DEF KindFields, FieldValue
  <2>. QED  BY <2>1, NameFacts DEF RequestValue
<1>3. CASE kind = "reply"
  <2>1. KindFields(kind) = ReplyFields /\ FieldValue(kind, name, r) = ReplyValue(name, r)
    BY <1>3 DEF KindFields, FieldValue
  <2>2. "roots" \in ReplyFields
    BY DEF ReplyFields
  <2>. QED  BY <2>1, <2>2, NameFacts DEF ReplyValue
<1>. QED  BY <1>1, <1>2, <1>3 DEF MapKinds

\* A value of its type is read as it is.
LEMMA WrittenReads ==
  ASSUME NEW kind \in MapKinds, NEW name \in KindFields(kind), name # "roots",
         NEW value, Holds(name, value)
  PROVE  LET f == <<name, Scalar(name, value)>>
         IN  f \in Entry /\ Exact(kind, f) /\ ResOf(kind, f) = Got(ReadAs(name, value), <<>>)
<1>. DEFINE f == <<name, Scalar(name, value)>>
            x == ReadAs(name, value)
<1>1. name \in ScalarNames /\ name \in Texts
  <2>1. <<>> \in Tokens
    BY DEF Tokens
  <2>. QED  BY <2>1, FieldReaders, VocabularyFacts DEF KindFields, MapKinds
<1>2. \A rest \in Tokens : /\ Scalar(name, value) \in Tokens
                           /\ ReadScalar(name, Scalar(name, value) \o rest) = Got(x, rest)
  BY <1>1, ScalarReads
<1>3. Scalar(name, value) \in Tokens
  <2>1. <<>> \in Tokens
    BY DEF Tokens
  <2>. QED  BY <1>2, <2>1
<1>4. f \in Entry /\ f[1] = name /\ f[2] = Scalar(name, value)
  BY <1>1, <1>3 DEF Entry
<1>. HIDE DEF f, x
<1>5. Reads(kind, f, Got(x, <<>>))
  <2>1. ASSUME NEW rest \in Tokens
        PROVE  FieldValue(kind, f[1], f[2] \o rest) = Onto(Got(x, <<>>), rest)
    <3>1. f[2] \o rest \in Tokens
      BY <1>3, <1>4, ConcatType DEF Tokens
    <3>2. FieldValue(kind, name, f[2] \o rest) = ReadScalar(name, f[2] \o rest)
      BY <3>1, FieldReaders
    <3>3. Onto(Got(x, <<>>), rest) = Got(x, rest)
      BY GotFacts DEF Onto
    <3>. QED  BY <1>2, <1>4, <3>2, <3>3
  <2>. QED  BY <2>1 DEF Reads
<1>6. Exact(kind, f) /\ ResOf(kind, f) = Onto(Got(x, <<>>), <<>>)
  BY <1>4, <1>5, ReadsIsExact
<1>7. Onto(Got(x, <<>>), <<>>) = Got(x, <<>>)
  BY GotFacts DEF Onto
<1>. QED  BY <1>4, <1>6, <1>7 DEF f, x

\* A value of another type is refused, and a new field is skipped.
LEMMA StrangeReads ==
  ASSUME NEW kind \in MapKinds, NEW name \in KindFields(kind)
  PROVE  /\ <<name, <<MapToken>>>> \in Entry /\ Exact(kind, <<name, <<MapToken>>>>)
         /\ ResOf(kind, <<name, <<MapToken>>>>) = Refused
         /\ NewField \in Entry /\ Exact(kind, NewField)
         /\ ResOf(kind, NewField) = Got("skipped", <<>>)
<1>1. MapToken \in Token /\ <<MapToken>> \in Tokens /\ name \in Texts /\ "future" \in Texts
  <2>1. MapToken \in Token
    BY DEF MapToken, Token
  <2>. QED  BY <2>1, OneToken, VocabularyFacts DEF KindFields, MapKinds
<1>2. \A rest \in Tokens : /\ Structure \in Tokens
                           /\ Skip(Structure \o rest) = Got("skipped", rest)
  BY SkipStructure
<1>3. Structure \in Tokens
  <2>1. <<>> \in Tokens
    BY DEF Tokens
  <2>. QED  BY <1>2, <2>1
<1>. DEFINE f == <<name, <<MapToken>>>>
<1>4. /\ f \in Entry /\ f[1] = name /\ f[2] = <<MapToken>>
      /\ NewField \in Entry /\ NewField[1] = "future" /\ NewField[2] = Structure
  BY <1>1, <1>3 DEF Entry, NewField
<1>. HIDE DEF f
<1>5. Reads(kind, f, Refused)
  <2>1. ASSUME NEW rest \in Tokens
        PROVE  FieldValue(kind, f[1], f[2] \o rest) = Onto(Refused, rest)
    <3>. DEFINE r == f[2] \o rest
    <3>1. r \in Tokens /\ r = <<MapToken>> \o rest
      BY <1>1, <1>4, TokenReads
    <3>. HIDE DEF r
    <3>2. Onto(Refused, rest) = Refused
      BY GotFacts DEF Onto
    <3>3. CASE name = "roots"
      <4>1. ReadToken(r, "array") = Refused
        <5>1. MapToken[1] # "array"
          BY DEF MapToken
        <5>. QED  BY <1>1, <3>1, <5>1, TokenReads
      <4>2. ReadRootArray(r) = Refused
        BY <3>1, <4>1, GotFacts, RootsAreLoop DEF RootsOf
      <4>. QED  BY <1>4, <3>1, <3>2, <3>3, <4>2, FieldReaders DEF r
    <3>4. CASE name # "roots"
      <4>1. name \in ScalarNames /\ FieldValue(kind, name, r) = ReadScalar(name, r)
        BY <3>1, <3>4, FieldReaders
      <4>2. ReadScalar(name, r) = Refused
        BY <3>1, <4>1, RetypedRefused DEF MapToken
      <4>. QED  BY <1>4, <3>2, <4>1, <4>2 DEF r
    <3>. QED  BY <3>3, <3>4
  <2>. QED  BY <2>1 DEF Reads
<1>6. Reads(kind, NewField, Got("skipped", <<>>))
  <2>1. ASSUME NEW rest \in Tokens
        PROVE  FieldValue(kind, "future", Structure \o rest) = Onto(Got("skipped", <<>>), rest)
    <3>1. Structure \o rest \in Tokens
      BY <1>3, ConcatType DEF Tokens
    <3>2. "future" \notin KindFields(kind)
      BY DEF KindFields, MapKinds, RootFields, RequestFields, ReplyFields, Counters
    <3>3. FieldValue(kind, "future", Structure \o rest) = Skip(Structure \o rest)
      BY <3>1, <3>2, FieldReaders
    <3>4. Onto(Got("skipped", <<>>), rest) = Got("skipped", rest)
      BY GotFacts DEF Onto
    <3>. QED  BY <1>2, <3>3, <3>4
  <2>. QED  BY <1>4, <2>1 DEF Reads
<1>7. Onto(Refused, <<>>) = Refused /\ Onto(Got("skipped", <<>>), <<>>) = Got("skipped", <<>>)
  BY GotFacts DEF Onto
<1>8. Exact(kind, f) /\ ResOf(kind, f) = Refused
  BY <1>4, <1>5, <1>7, ReadsIsExact
<1>9. Exact(kind, NewField) /\ ResOf(kind, NewField) = Got("skipped", <<>>)
  BY <1>4, <1>6, <1>7, ReadsIsExact
<1>. QED  BY <1>4, <1>8, <1>9 DEF f

\* The fields of a map: whether they are all read, and their values by name.
AllRead(kind, fs) ==
    /\ \A i \in 1..Len(fs) : ResOf(kind, fs[i]).ok
    /\ \A i, j \in 1..Len(fs) : i < j => fs[i][1] # fs[j][1]
ValuesOf(kind, fs) == Values(fs, [i \in 1..Len(fs) |-> ResOf(kind, fs[i])], Len(fs))

\* A map of exact fields is read field by field.
LEMMA MapRead ==
  ASSUME NEW kind \in MapKinds, NEW fs \in Seq(Entry), NEW rest \in Tokens,
         \A i \in 1..Len(fs) : Exact(kind, fs[i])
  PROVE  /\ WriteMap(Len(fs), fs) \in Tokens
         /\ MapOf(kind, WriteMap(Len(fs), fs) \o rest) =
               IF AllRead(kind, fs) THEN Got(ValuesOf(kind, fs), rest) ELSE Refused
<1>. DEFINE n == Len(fs)
            res == [i \in 1..n |-> ResOf(kind, fs[i])]
<1>1. \A i \in 1..n : Reads(kind, fs[i], res[i])
  BY DEF Exact
<1>2. Good(fs, res, n) <=> AllRead(kind, fs)
  BY DEF Good, AllRead
<1>3. Values(fs, res, n) = ValuesOf(kind, fs)
  BY DEF ValuesOf
<1>. HIDE DEF res
<1>. QED  BY <1>1, <1>2, <1>3, FieldsRead

\* Each name has the value of its field.
LEMMA ValueFacts ==
  ASSUME NEW kind, NEW fs, AllRead(kind, fs), Len(fs) \in Nat
  PROVE  /\ DOMAIN ValuesOf(kind, fs) = Names(fs, Len(fs))
         /\ \A i \in 1..Len(fs) : ValuesOf(kind, fs)[fs[i][1]] = ResOf(kind, fs[i]).value
<1>. DEFINE n == Len(fs)
            res == [i \in 1..n |-> ResOf(kind, fs[i])]
            v == Values(fs, res, n)
<1>1. ValuesOf(kind, fs) = v
  BY DEF ValuesOf
<1>2. DOMAIN v = Names(fs, n)
  BY DEF Values
<1>3. \A i, j \in 1..n : fs[i][1] = fs[j][1] => i = j
  <2>1. \A i, j \in 1..n : i # j => i < j \/ j < i
    OBVIOUS
  <2>. QED  BY <2>1 DEF AllRead
<1>4. \A i \in 1..n : v[fs[i][1]] = ResOf(kind, fs[i]).value
  <2>1. ASSUME NEW i \in 1..n PROVE v[fs[i][1]] = ResOf(kind, fs[i]).value
    <3>. DEFINE c == CHOOSE j \in 1..n : fs[j][1] = fs[i][1]
    <3>1. c \in 1..n /\ fs[c][1] = fs[i][1]
      OBVIOUS
    <3>2. c = i
      <4>. HIDE DEF c
      <4>. QED  BY <1>3, <3>1
    <3>3. fs[i][1] \in Names(fs, n)
      BY DEF Names
    <3>4. v[fs[i][1]] = res[c].value
      BY <3>3 DEF Values
    <3>. QED  BY <3>2, <3>4
  <2>. QED  BY <2>1
<1>. QED  BY <1>1, <1>2, <1>4

\* Fields g are fs with one edit.
EditedAs(g, fs, kind, i) ==
    LET n == Len(fs)
    IN  /\ g \in Seq(Entry) /\ Len(g) = n + EditedCount(kind)
        /\ kind = "added" => g[n + 1] = NewField /\ \A j \in 1..n : g[j] = fs[j]
        /\ kind = "repeated" => g[n + 1] = fs[i] /\ \A j \in 1..n : g[j] = fs[j]
        /\ kind = "dropped" =>
              \A j \in 1..(n - 1) : g[j] = IF j < i THEN fs[j] ELSE fs[j + 1]
        /\ kind = "retyped" =>
              \A j \in 1..n : g[j] = IF j = i THEN <<fs[i][1], <<MapToken>>>> ELSE fs[j]
        /\ kind = "reworded" =>
              \A j \in 1..n : g[j] = IF j = i THEN <<fs[i][1], <<FutureWord>>>> ELSE fs[j]

\* Each edit of a sequence of fields.
LEMMA EditFacts ==
  ASSUME NEW fs \in Seq(Entry), NEW kind \in EditKinds, NEW i \in 1..Len(fs),
         NewField \in Entry, <<fs[i][1], <<MapToken>>>> \in Entry,
         <<fs[i][1], <<FutureWord>>>> \in Entry
  PROVE  EditedAs(EditedFields(fs, kind, i), fs, kind, i)
<1>. DEFINE g == EditedFields(fs, kind, i)
            n == Len(fs)
<1>1. n \in Nat /\ fs[i] \in Entry
  OBVIOUS
<1>2. CASE kind = "added"
  <2>1. g = Append(fs, NewField) /\ EditedCount(kind) = 1
    BY <1>2 DEF EditedFields, EditedCount, NewField
  <2>2. Append(fs, NewField) \in Seq(Entry) /\ Len(Append(fs, NewField)) = n + 1
        /\ Append(fs, NewField)[n + 1] = NewField
        /\ \A j \in 1..n : Append(fs, NewField)[j] = fs[j]
    OBVIOUS
  <2>. HIDE DEF g, n
  <2>. QED  BY <1>2, <2>1, <2>2 DEF g, n, EditedAs
<1>3. CASE kind = "repeated"
  <2>. DEFINE e == fs[i]
  <2>1. g = Append(fs, e) /\ EditedCount(kind) = 1
    BY <1>3 DEF EditedFields, EditedCount
  <2>. HIDE DEF e
  <2>2. Append(fs, e) \in Seq(Entry) /\ Len(Append(fs, e)) = n + 1
        /\ Append(fs, e)[n + 1] = e
        /\ \A j \in 1..n : Append(fs, e)[j] = fs[j]
    BY <1>1 DEF e
  <2>. HIDE DEF g, n
  <2>. QED  BY <1>3, <2>1, <2>2 DEF g, n, e, EditedAs
<1>4. CASE kind = "dropped"
  <2>. DEFINE a == SubSeq(fs, 1, i - 1)
              b == SubSeq(fs, i + 1, n)
  <2>1. g = a \o b /\ EditedCount(kind) = -1
    BY <1>4 DEF EditedFields, EditedCount, RemoveAt
  <2>2. i \in Nat /\ 1 <= i /\ i <= n
    BY <1>1
  <2>3. a \in Seq(Entry) /\ Len(a) = i - 1 /\ \A j \in 1..(i - 1) : a[j] = fs[j]
    BY <1>1, <2>2
  <2>4. b \in Seq(Entry) /\ Len(b) = n - i /\ \A j \in 1..(n - i) : b[j] = fs[j + i]
    <3>1. b \in Seq(Entry) /\ Len(b) = n - i
      BY <1>1, <2>2
    <3>2. \A j \in 1..(n - i) : b[j] = fs[i + 1 + j - 1]
      BY <1>1, <2>2
    <3>3. \A j \in 1..(n - i) : i + 1 + j - 1 = j + i
      BY <1>1, <2>2
    <3>. QED  BY <3>1, <3>2, <3>3
  <2>. HIDE DEF a, b, n
  <2>5. /\ a \o b \in Seq(Entry) /\ Len(a \o b) = n - 1
        /\ \A j \in 1..(i - 1) : (a \o b)[j] = a[j]
        /\ \A j \in 1..(n - i) : (a \o b)[(i - 1) + j] = b[j]
    <3>1. /\ a \o b \in Seq(Entry) /\ Len(a \o b) = Len(a) + Len(b)
          /\ \A j \in 1..Len(a) : (a \o b)[j] = a[j]
          /\ \A j \in 1..Len(b) : (a \o b)[Len(a) + j] = b[j]
      <4>1. a \in Seq(Entry) /\ b \in Seq(Entry)
        BY <2>3, <2>4
      <4>. QED  BY <4>1, ConcatFacts
    <3>2. (i - 1) + (n - i) = n - 1
      BY <1>1, <2>2
    <3>. QED  BY <2>3, <2>4, <3>1, <3>2
  <2>6. \A j \in 1..(n - 1) : (a \o b)[j] = IF j < i THEN fs[j] ELSE fs[j + 1]
    <3>1. ASSUME NEW j \in 1..(n - 1), j < i PROVE (a \o b)[j] = fs[j]
      <4>1. j \in 1..(i - 1)
        BY <1>1, <2>2, <3>1
      <4>. QED  BY <2>3, <2>5, <4>1
    <3>2. ASSUME NEW j \in 1..(n - 1), ~(j < i) PROVE (a \o b)[j] = fs[j + 1]
      <4>. DEFINE k == j - i + 1
      <4>1. k \in 1..(n - i) /\ (i - 1) + k = j /\ k + i = j + 1
        BY <1>1, <2>2, <3>2
      <4>. HIDE DEF k
      <4>. QED  BY <2>4, <2>5, <4>1
    <3>. QED  BY <3>1, <3>2
  <2>7. n - 1 = n + (-1)
    BY <1>1
  <2>. HIDE DEF g
  <2>. QED  BY <1>4, <2>1, <2>5, <2>6, <2>7 DEF g, n, EditedAs
<1>5. ASSUME NEW e \in Entry, g = ReplaceAt(fs, i, e), EditedCount(kind) = 0
      PROVE  /\ g \in Seq(Entry) /\ Len(g) = n + EditedCount(kind)
             /\ \A j \in 1..n : g[j] = IF j = i THEN e ELSE fs[j]
  <2>. DEFINE h == [fs EXCEPT ![i] = e]
  <2>1. h \in Seq(Entry) /\ Len(h) = n /\ \A j \in 1..n : h[j] = IF j = i THEN e ELSE fs[j]
    OBVIOUS
  <2>2. g = h
    BY <1>5 DEF ReplaceAt
  <2>3. n + EditedCount(kind) = n
    BY <1>1, <1>5
  <2>. HIDE DEF g, n, h
  <2>. QED  BY <2>1, <2>2, <2>3
<1>6. CASE kind = "retyped"
  <2>1. g = ReplaceAt(fs, i, <<fs[i][1], <<MapToken>>>>) /\ EditedCount(kind) = 0
    BY <1>6 DEF EditedFields, EditedCount, MapToken
  <2>2. /\ g \in Seq(Entry) /\ Len(g) = n + EditedCount(kind)
        /\ \A j \in 1..n : g[j] = IF j = i THEN <<fs[i][1], <<MapToken>>>> ELSE fs[j]
    BY <1>5, <2>1
  <2>. HIDE DEF g, n
  <2>. QED  BY <1>6, <2>2 DEF g, n, EditedAs
<1>7. CASE kind = "reworded"
  <2>1. g = ReplaceAt(fs, i, <<fs[i][1], <<FutureWord>>>>) /\ EditedCount(kind) = 0
    BY <1>7 DEF EditedFields, EditedCount, FutureWord
  <2>2. /\ g \in Seq(Entry) /\ Len(g) = n + EditedCount(kind)
        /\ \A j \in 1..n : g[j] = IF j = i THEN <<fs[i][1], <<FutureWord>>>> ELSE fs[j]
    BY <1>5, <2>1
  <2>. HIDE DEF g, n
  <2>. QED  BY <1>7, <2>2 DEF g, n, EditedAs
<1>. QED  BY <1>2, <1>3, <1>4, <1>6, <1>7 DEF EditKinds

\* What a decoder finds under a name.
LEMMA FieldFacts ==
  ASSUME NEW kind, NEW fs, AllRead(kind, fs), Len(fs) \in Nat
  PROVE  /\ \A i \in 1..Len(fs) : Field(ValuesOf(kind, fs), fs[i][1]) = ResOf(kind, fs[i]).value
         /\ \A name : (\A i \in 1..Len(fs) : fs[i][1] # name) =>
                         Field(ValuesOf(kind, fs), name) = Default(name)
<1>. DEFINE v == ValuesOf(kind, fs)
<1>1. /\ DOMAIN v = Names(fs, Len(fs))
      /\ \A i \in 1..Len(fs) : v[fs[i][1]] = ResOf(kind, fs[i]).value
  BY ValueFacts
<1>. HIDE DEF v
<1>. QED  BY <1>1 DEF Field, Names, v

-----------------------------------------------------------------------------
(***************************************************************************)
(* Roots.                                                                  *)
(***************************************************************************)
RootName(i) == RootLayout[2][i]

\* The fields of a root have each name once.
LEMMA RootNames ==
  /\ RootLayout[1] = 7
  /\ \A i \in 1..7 : RootName(i) \in RootFields
  /\ \A name \in RootFields : \E i \in 1..7 : RootName(i) = name
  /\ \A i, j \in 1..7 : RootName(i) = RootName(j) => i = j
<1>1. /\ RootName(1) = "fingerprint" /\ RootName(2) = "subject" /\ RootName(3) = "purposes"
      /\ RootName(4) = "source" /\ RootName(5) = "name" /\ RootName(6) = "not_after"
      /\ RootName(7) = "der" /\ RootLayout[1] = 7
  BY DEF RootName, RootLayout
<1>2. \A i \in 1..7 : i \in {1, 2, 3, 4, 5, 6, 7}
  OBVIOUS
<1>3. {1, 2, 3, 4, 5, 6, 7} \subseteq 1..7
  OBVIOUS
<1>. QED  BY <1>1, <1>2, <1>3 DEF RootFields

\* A root's values have their types.
LEMMA RootHolds ==
  ASSUME NEW root \in Root, NEW name \in RootFields
  PROVE  /\ DOMAIN root = RootFields /\ root = [k \in RootFields |-> root[k]]
         /\ Holds(name, root[name]) /\ ReadAs(name, root[name]) = root[name]
<1>1. /\ DOMAIN root = RootFields
      /\ root.fingerprint \in Texts /\ root.subject \in Texts /\ root.purposes \in Seq(Texts)
      /\ root.source \in {"shipped", "added"} /\ root.name \in Optional
      /\ root.not_after \in Int /\ root.der \in Texts
      /\ root = [k \in RootFields |-> root[k]]
  BY DEF Root, RootFields
<1>2. root.source \in Texts
  BY <1>1, VocabularyFacts, WireAssumption DEF Vocabulary, ReplyFields, Counters
<1>3. Holds(name, root[name])
  BY <1>1, <1>2 DEF Holds, RootFields, StrNames, BoolNames, NumberNames, OptionalNames,
                    ListNames, Counters
<1>4. Known(name, root[name])
  BY <1>1 DEF Known, RootFields
<1>. QED  BY <1>1, <1>3, <1>4 DEF ReadAs

\* Its fields are read as they are.
LEMMA RootEntries ==
  ASSUME NEW root \in Root
  PROVE  LET fs == RootFieldsOf(root)
         IN  /\ fs \in Seq(Entry) /\ Len(fs) = 7
             /\ \A i \in 1..7 : /\ fs[i] \in Entry /\ Exact("root", fs[i])
                                /\ fs[i][1] = RootName(i)
                                /\ ResOf("root", fs[i]) = Got(root[RootName(i)], <<>>)
<1>. DEFINE fs == RootFieldsOf(root)
<1>1. fs = [i \in 1..7 |-> <<RootName(i), Scalar(RootName(i), root[RootName(i)])>>]
  BY DEF RootFieldsOf, RootName
<1>. HIDE DEF fs
<1>2. ASSUME NEW i \in 1..7
      PROVE  /\ fs[i] \in Entry /\ Exact("root", fs[i]) /\ fs[i][1] = RootName(i)
             /\ ResOf("root", fs[i]) = Got(root[RootName(i)], <<>>)
  <2>. DEFINE name == RootName(i)
              value == root[name]
              f == <<name, Scalar(name, value)>>
  <2>1. name \in RootFields
    BY RootNames
  <2>2. fs[i] = f /\ f[1] = name
    BY <1>1
  <2>. HIDE DEF name
  <2>3. Holds(name, value) /\ ReadAs(name, value) = value
    BY <2>1, RootHolds
  <2>4. "root" \in MapKinds /\ name \in KindFields("root") /\ name # "roots"
    BY <2>1 DEF MapKinds, KindFields, RootFields
  <2>. HIDE DEF value
  <2>5. f \in Entry /\ Exact("root", f) /\ ResOf("root", f) = Got(ReadAs(name, value), <<>>)
    BY <2>3, <2>4, WrittenReads
  <2>. HIDE DEF f
  <2>. QED  BY <2>2, <2>3, <2>5 DEF name, value
<1>3. fs \in [1..7 -> Entry]
  BY <1>1, <1>2
<1>4. fs \in Seq(Entry) /\ Len(fs) = 7
  <2>1. 7 \in Nat
    OBVIOUS
  <2>. QED  BY <1>3, <2>1, FunctionIsSeq
<1>. QED  BY <1>2, <1>4 DEF fs

\* A root is read field by field.
LEMMA RootRead ==
  ASSUME NEW fs \in Seq(Entry), \A i \in 1..Len(fs) : Exact("root", fs[i])
  PROVE  /\ WriteMap(Len(fs), fs) \in Tokens
         /\ AllRead("root", fs) =>
               ReadsRoot(WriteMap(Len(fs), fs),
                         Got([k \in RootFields |-> Field(ValuesOf("root", fs), k)], <<>>))
         /\ ~AllRead("root", fs) => ReadsRoot(WriteMap(Len(fs), fs), Refused)
<1>. DEFINE ts == WriteMap(Len(fs), fs)
            v == ValuesOf("root", fs)
            x == [k \in RootFields |-> Field(v, k)]
<1>0. "root" \in MapKinds /\ <<>> \in Tokens
  BY DEF MapKinds, Tokens
<1>1. \A rest \in Tokens : /\ ts \in Tokens
                           /\ MapOf("root", ts \o rest) =
                                 IF AllRead("root", fs) THEN Got(v, rest) ELSE Refused
  BY <1>0, MapRead
<1>2. ts \in Tokens
  BY <1>0, <1>1
<1>. HIDE DEF v, ts
<1>3. ASSUME NEW rest \in Tokens
      PROVE  ReadRoot(ts \o rest) = IF AllRead("root", fs) THEN Got(x, rest) ELSE Refused
  <2>1. ts \o rest \in Tokens
    BY <1>2, ConcatType DEF Tokens
  <2>2. EachField(ts \o rest, RootValue) = IF AllRead("root", fs) THEN Got(v, rest) ELSE Refused
    BY <1>1, <2>1, MapIsLoop
  <2>3. CASE AllRead("root", fs)
    BY <2>2, <2>3, GotFacts DEF ReadRoot
  <2>4. CASE ~AllRead("root", fs)
    BY <2>2, <2>4, GotFacts DEF ReadRoot
  <2>. QED  BY <2>3, <2>4
<1>. HIDE DEF x
<1>4. \A rest : Onto(Got(x, <<>>), rest) = Got(x, rest) /\ Onto(Refused, rest) = Refused
  BY GotFacts DEF Onto
<1>. QED  BY <1>2, <1>3, <1>4 DEF ReadsRoot, ts, x, v

\* A root is read as it was written.
LEMMA WrittenRootReads ==
  ASSUME NEW root \in Root
  PROVE  WriteRoot(root) \in Tokens /\ ReadsRoot(WriteRoot(root), Got(root, <<>>))
<1>. DEFINE fs == RootFieldsOf(root)
            v == ValuesOf("root", fs)
<1>1. /\ fs \in Seq(Entry) /\ Len(fs) = 7
      /\ \A i \in 1..7 : /\ Exact("root", fs[i]) /\ fs[i][1] = RootName(i)
                         /\ ResOf("root", fs[i]) = Got(root[RootName(i)], <<>>)
  BY RootEntries
<1>2. WriteRoot(root) = WriteMap(Len(fs), fs)
  BY <1>1, RootNames DEF WriteRoot
<1>. HIDE DEF fs
<1>3. AllRead("root", fs)
  <2>1. \A i, j \in 1..7 : i < j => i # j
    OBVIOUS
  <2>. QED  BY <1>1, <2>1, RootNames, GotFacts DEF AllRead
<1>4. \A i \in 1..7 : Field(v, RootName(i)) = root[RootName(i)]
  <2>1. \A i \in 1..Len(fs) : Field(v, fs[i][1]) = ResOf("root", fs[i]).value
    <3>1. Len(fs) \in Nat
      BY <1>1
    <3>. QED  BY <1>3, <3>1, FieldFacts, Zenon
  <2>. HIDE DEF v
  <2>. QED  BY <1>1, <2>1, GotFacts
<1>. HIDE DEF v
<1>5. [k \in RootFields |-> Field(v, k)] = root
  <2>1. \A k \in RootFields : Field(v, k) = root[k]
    BY <1>4, RootNames
  <2>2. root = [k \in RootFields |-> root[k]]
    <3>1. "der" \in RootFields
      BY DEF RootFields
    <3>. QED  BY <3>1, RootHolds
  <2>. QED  BY <2>1, <2>2
<1>6. WriteMap(Len(fs), fs) \in Tokens
      /\ ReadsRoot(WriteMap(Len(fs), fs), Got([k \in RootFields |-> Field(v, k)], <<>>))
  BY <1>1, <1>3, RootRead DEF v
<1>. QED  BY <1>2, <1>5, <1>6

\* What is made of a root of which one field differs.
Gone(kind, name) == IF kind \in {"dropped", "reworded"} THEN {name} ELSE {}
EditedRoot(root, kind, i) ==
    WriteMap(RootLayout[1] + EditedCount(kind), EditedFields(RootFieldsOf(root), kind, i))
EditedRootAs(root, kind, name) ==
    IF kind \in {"repeated", "retyped"} THEN Refused
    ELSE Got(Defaulted(root, Gone(kind, name)), <<>>)

\* It is refused, or read with a default where the field is absent.
LEMMA EditedRootReads ==
  ASSUME NEW root \in Root, NEW kind \in EditKinds, NEW i \in 1..7,
         Applies(RootFieldsOf(root), kind, i)
  PROVE  /\ EditedRoot(root, kind, i) \in Tokens
         /\ ReadsRoot(EditedRoot(root, kind, i),
                      EditedRootAs(root, kind, EditedName(RootFieldsOf(root), kind, i)))
<1>. DEFINE fs == RootFieldsOf(root)
            g == EditedFields(fs, kind, i)
            m == Len(g)
            ts == WriteMap(m, g)
            v == ValuesOf("root", g)
            read == [k \in RootFields |-> Field(v, k)]
            name == RootName(i)
<1>1. /\ fs \in Seq(Entry) /\ Len(fs) = 7
      /\ \A j \in 1..7 : /\ fs[j] \in Entry /\ Exact("root", fs[j]) /\ fs[j][1] = RootName(j)
                         /\ ResOf("root", fs[j]) = Got(root[RootName(j)], <<>>)
  BY RootEntries
<1>2. /\ name \in RootFields /\ name # "roots" /\ "root" \in MapKinds
      /\ name \in KindFields("root") /\ name \in Texts
  BY RootNames, VocabularyFacts DEF RootFields, MapKinds, KindFields
<1>3. fs[i][1] = name /\ EditedRoot(root, kind, i) = WriteMap(7 + EditedCount(kind), g)
  BY <1>1, RootNames DEF EditedRoot
<1>4. /\ <<name, <<MapToken>>>> \in Entry /\ Exact("root", <<name, <<MapToken>>>>)
      /\ ResOf("root", <<name, <<MapToken>>>>) = Refused
      /\ NewField \in Entry /\ Exact("root", NewField)
      /\ ResOf("root", NewField) = Got("skipped", <<>>)
  BY <1>2, StrangeReads
<1>5. <<name, <<FutureWord>>>> \in Entry
  <2>1. FutureWord \in Token
    BY VocabularyFacts, TokenTypes DEF FutureWord
  <2>. QED  BY <1>2, <2>1, OneToken DEF Entry
<1>. HIDE DEF name
<1>6. /\ g \in Seq(Entry) /\ m = 7 + EditedCount(kind)
      /\ kind = "added" => g[7 + 1] = NewField /\ \A j \in 1..7 : g[j] = fs[j]
      /\ kind = "repeated" => g[7 + 1] = fs[i] /\ \A j \in 1..7 : g[j] = fs[j]
      /\ kind = "dropped" => \A j \in 1..(7 - 1) : g[j] = IF j < i THEN fs[j] ELSE fs[j + 1]
      /\ kind = "retyped" =>
            \A j \in 1..7 : g[j] = IF j = i THEN <<name, <<MapToken>>>> ELSE fs[j]
      /\ kind = "reworded" =>
            \A j \in 1..7 : g[j] = IF j = i THEN <<name, <<FutureWord>>>> ELSE fs[j]
  <2>1. i \in 1..Len(fs)
    BY <1>1
  <2>2. /\ fs \in Seq(Entry) /\ <<fs[i][1], <<MapToken>>>> \in Entry
        /\ <<fs[i][1], <<FutureWord>>>> \in Entry
    BY <1>1, <1>3, <1>4, <1>5
  <2>. HIDE DEF fs
  <2>3. EditedAs(g, fs, kind, i)
    BY <1>4, <2>1, <2>2, EditFacts
  <2>. HIDE DEF g
  <2>. QED  BY <1>1, <1>3, <2>3 DEF EditedAs
<1>7. \A rest : Onto(Refused, rest) = Refused
  BY GotFacts DEF Onto
<1>8. /\ \A j \in 1..7 : RootName(j) \in RootFields /\ RootName(j) # "future"
      /\ \A k \in RootFields : \E j \in 1..7 : RootName(j) = k
      /\ \A j, k \in 1..7 : RootName(j) = RootName(k) => j = k
  BY RootNames DEF RootFields
<1>. HIDE DEF fs
<1>9. root = [k \in RootFields |-> root[k]] /\ DOMAIN root = RootFields
  BY <1>2, RootHolds
<1>. DEFINE all == \A j \in 1..m : Exact("root", g[j])
            target == Defaulted(root, Gone(kind, EditedName(fs, kind, i)))
<1>10. ASSUME all, AllRead("root", g), \A k \in RootFields : Field(v, k) = target[k],
              kind \notin {"repeated", "retyped"}
       PROVE  ts \in Tokens /\ ReadsRoot(ts, EditedRootAs(root, kind, EditedName(fs, kind, i)))
  <2>1. ts \in Tokens /\ ReadsRoot(ts, Got(read, <<>>))
    <3>. HIDE DEF g
    <3>. QED  BY <1>6, <1>10, RootRead
  <2>2. read = target
    <3>1. target = [k \in RootFields |-> target[k]]
      BY <1>9 DEF Defaulted
    <3>. HIDE DEF target, v
    <3>. QED  BY <1>10, <3>1
  <2>. QED  BY <1>10, <2>1, <2>2 DEF EditedRootAs
<1>11. ASSUME all, ~AllRead("root", g), kind \in {"repeated", "retyped"}
       PROVE  ts \in Tokens /\ ReadsRoot(ts, EditedRootAs(root, kind, EditedName(fs, kind, i)))
  <2>1. ts \in Tokens /\ ReadsRoot(ts, Refused)
    <3>. HIDE DEF g
    <3>. QED  BY <1>6, <1>11, RootRead
  <2>. QED  BY <1>11, <2>1 DEF EditedRootAs
<1>. HIDE DEF g
<1>12. ASSUME AllRead("root", g), m \in Nat
       PROVE  /\ \A j \in 1..m : Field(v, g[j][1]) = ResOf("root", g[j]).value
              /\ \A k : (\A j \in 1..m : g[j][1] # k) => Field(v, k) = Default(k)
  BY <1>12, FieldFacts
<1>. HIDE DEF v
<1>13. \A k \in RootFields : target[k] = IF k \in Gone(kind, EditedName(fs, kind, i))
                                        THEN Default(k) ELSE root[k]
  BY <1>9 DEF Defaulted
<1>. HIDE DEF target
<1>14. CASE kind = "added"
  <2>1. m = 8 /\ \A j \in 1..8 : j \in 1..7 \/ j = 8
    BY <1>6, <1>14 DEF EditedCount
  <2>2. g[8] = NewField /\ (\A j \in 1..7 : g[j] = fs[j]) /\ NewField[1] = "future"
    BY <1>6, <1>14 DEF NewField
  <2>3. all
    BY <1>1, <1>4, <2>1, <2>2
  <2>4. AllRead("root", g)
    <3>1. \A j \in 1..m : ResOf("root", g[j]).ok
      BY <1>1, <1>4, <2>1, <2>2, GotFacts
    <3>2. \A j, k \in 1..8 : j < k => j \in 1..7 /\ j # k
      OBVIOUS
    <3>3. \A j, k \in 1..m : j < k => g[j][1] # g[k][1]
      BY <1>1, <1>8, <2>1, <2>2, <3>2
    <3>. QED  BY <3>1, <3>3 DEF AllRead
  <2>5. \A j \in 1..7 : Field(v, RootName(j)) = root[RootName(j)]
    <3>1. \A j \in 1..7 : j \in 1..m
      BY <2>1
    <3>. QED  BY <1>1, <1>12, <2>1, <2>2, <2>4, <3>1, GotFacts
  <2>6. \A k \in RootFields : Field(v, k) = target[k]
    BY <1>8, <1>13, <1>14, <2>5 DEF Gone
  <2>. QED  BY <1>3, <1>6, <1>10, <1>14, <2>3, <2>4, <2>6 DEF fs
<1>15. CASE kind = "repeated"
  <2>1. m = 8 /\ \A j \in 1..8 : j \in 1..7 \/ j = 8
    BY <1>6, <1>15 DEF EditedCount
  <2>2. g[8] = fs[i] /\ \A j \in 1..7 : g[j] = fs[j]
    BY <1>6, <1>15
  <2>3. all
    BY <1>1, <2>1, <2>2
  <2>4. ~AllRead("root", g)
    <3>1. i \in 1..8 /\ 8 \in 1..8 /\ i < 8 /\ g[i][1] = g[8][1]
      BY <2>2
    <3>. QED  BY <2>1, <3>1 DEF AllRead
  <2>. QED  BY <1>3, <1>6, <1>11, <1>15, <2>3, <2>4 DEF fs
<1>16. CASE kind = "retyped"
  <2>1. m = 7
    BY <1>6, <1>16 DEF EditedCount
  <2>2. \A j \in 1..7 : g[j] = IF j = i THEN <<name, <<MapToken>>>> ELSE fs[j]
    BY <1>6, <1>16
  <2>3. all
    BY <1>1, <1>4, <2>1, <2>2
  <2>4. ~AllRead("root", g)
    <3>1. ResOf("root", g[i]) = Refused
      BY <1>4, <2>2
    <3>. QED  BY <2>1, <3>1, GotFacts DEF AllRead
  <2>. QED  BY <1>3, <1>6, <1>11, <1>16, <2>3, <2>4 DEF fs
<1>17. CASE kind = "reworded"
  <2>. DEFINE e == <<name, <<FutureWord>>>>
  <2>1. m = 7
    BY <1>6, <1>17 DEF EditedCount
  <2>2. \A j \in 1..7 : g[j] = IF j = i THEN e ELSE fs[j]
    BY <1>6, <1>17
  <2>3. name = "source"
    <3>1. name \in Words
      BY <1>3, <1>17 DEF Applies, fs
    <3>. QED  BY <1>2, <3>1 DEF Words, RootFields
  <2>4. Exact("root", e) /\ ResOf("root", e) = Got(Default(name), <<>>) /\ e[1] = name
    <3>1. Holds(name, "future")
      BY <2>3, VocabularyFacts DEF Holds, BoolNames, NumberNames, OptionalNames, ListNames, Counters
    <3>2. Scalar(name, "future") = <<FutureWord>> /\ name \in StrNames
      <4>1. name \in StrNames
        BY <2>3 DEF StrNames
      <4>2. TypeOf(name) = "str"
        BY <4>1, TypeFacts
      <4>. HIDE DEF StrNames, FutureWord
      <4>3. TypeOf(name) \in {"str", "bool", "bin"}
        BY <4>2
      <4>4. Scalar(name, "future") = <<<<TypeOf(name), "future">>>>
        BY <4>3, ScalarForms
      <4>5. <<<<TypeOf(name), "future">>>> = <<FutureWord>>
        BY <4>2 DEF FutureWord
      <4>. QED  BY <4>1, <4>4, <4>5, Zenon
    <3>3. ReadAs(name, "future") = Default(name)
      BY <2>3, <3>2 DEF ReadAs, Known
    <3>. QED  BY <1>2, <3>1, <3>2, <3>3, WrittenReads
  <2>. HIDE DEF e
  <2>5. all
    BY <1>1, <2>1, <2>2, <2>4
  <2>6. AllRead("root", g)
    <3>1. \A j \in 1..m : ResOf("root", g[j]).ok
      BY <1>1, <2>1, <2>2, <2>4, GotFacts
    <3>2. \A j \in 1..7 : g[j][1] = RootName(j)
      BY <1>1, <2>2, <2>4 DEF name
    <3>3. \A j, k \in 1..7 : j < k => j # k
      OBVIOUS
    <3>. QED  BY <1>8, <2>1, <3>1, <3>2, <3>3 DEF AllRead
  <2>7. \A j \in 1..7 : Field(v, RootName(j)) = IF j = i THEN Default(name) ELSE root[RootName(j)]
    <3>1. \A j \in 1..7 : g[j][1] = RootName(j)
      BY <1>1, <2>2, <2>4 DEF name
    <3>2. \A j \in 1..7 : Field(v, g[j][1]) = ResOf("root", g[j]).value
      BY <1>12, <2>1, <2>6
    <3>. QED  BY <1>1, <2>2, <2>4, <3>1, <3>2, GotFacts
  <2>8. \A k \in RootFields : Field(v, k) = target[k]
    <3>1. EditedName(fs, kind, i) = name /\ Gone(kind, name) = {name}
      BY <1>3, <1>17 DEF EditedName, Gone, fs
    <3>2. ASSUME NEW j \in 1..7 PROVE Field(v, RootName(j)) = target[RootName(j)]
      <4>1. RootName(j) = name <=> j = i
        BY <1>8 DEF name
      <4>. QED  BY <1>8, <1>13, <2>7, <3>1, <4>1
    <3>. QED  BY <1>8, <3>2
  <2>. QED  BY <1>3, <1>6, <1>10, <1>17, <2>5, <2>6, <2>8 DEF fs
<1>18. CASE kind = "dropped"
  <2>1. m = 6
    BY <1>6, <1>18 DEF EditedCount
  <2>2. \A j \in 1..6 : g[j] = IF j < i THEN fs[j] ELSE fs[j + 1]
    BY <1>6, <1>18
  <2>. DEFINE at(j) == IF j < i THEN j ELSE j + 1
  <2>3. /\ \A j \in 1..6 : at(j) \in 1..7 /\ at(j) # i /\ g[j] = fs[at(j)]
        /\ \A j, k \in 1..6 : j < k => at(j) # at(k)
        /\ \A k \in 1..7 : k # i => \E j \in 1..6 : at(j) = k
    <3>1. \A j \in 1..6 : at(j) \in 1..7 /\ at(j) # i
      OBVIOUS
    <3>2. \A j \in 1..6 : g[j] = fs[at(j)]
      BY <2>2
    <3>3. \A j, k \in 1..6 : j < k => at(j) # at(k)
      OBVIOUS
    <3>4. ASSUME NEW k \in 1..7, k # i PROVE \E j \in 1..6 : at(j) = k
      <4>1. CASE k < i
        <5>1. k \in 1..6 /\ at(k) = k
          BY <4>1
        <5>. QED  BY <5>1
      <4>2. CASE ~(k < i)
        <5>1. k - 1 \in 1..6 /\ at(k - 1) = k
          BY <3>4, <4>2
        <5>. QED  BY <5>1
      <4>. QED  BY <4>1, <4>2
    <3>. HIDE DEF at
    <3>. QED  BY <3>1, <3>2, <3>3, <3>4
  <2>. HIDE DEF at
  <2>4. all
    BY <1>1, <2>1, <2>3
  <2>5. AllRead("root", g)
    <3>1. \A j \in 1..m : ResOf("root", g[j]).ok
      BY <1>1, <2>1, <2>3, GotFacts
    <3>2. \A j \in 1..6 : g[j][1] = RootName(at(j))
      BY <1>1, <2>3
    <3>. QED  BY <1>8, <2>1, <2>3, <3>1, <3>2 DEF AllRead
  <2>6. \A j \in 1..6 : g[j][1] = RootName(at(j)) /\ ResOf("root", g[j]).value = root[RootName(at(j))]
    BY <1>1, <2>3, GotFacts
  <2>7. /\ \A j \in 1..6 : Field(v, RootName(at(j))) = root[RootName(at(j))]
        /\ Field(v, name) = Default(name)
    <3>1. \A j \in 1..6 : Field(v, g[j][1]) = ResOf("root", g[j]).value
      BY <1>12, <2>1, <2>5
    <3>2. \A j \in 1..6 : g[j][1] # name
      BY <1>8, <2>3, <2>6 DEF name
    <3>3. Field(v, name) = Default(name)
      BY <1>12, <2>1, <2>5, <3>2
    <3>. QED  BY <2>6, <3>1, <3>3
  <2>8. \A k \in RootFields : Field(v, k) = target[k]
    <3>1. EditedName(fs, kind, i) = name /\ Gone(kind, name) = {name}
      BY <1>3, <1>18 DEF EditedName, Gone, fs
    <3>2. ASSUME NEW k \in 1..7 PROVE Field(v, RootName(k)) = target[RootName(k)]
      <4>1. CASE k = i
        BY <1>8, <1>13, <2>7, <3>1, <4>1 DEF name
      <4>2. CASE k # i
        <5>1. PICK j \in 1..6 : at(j) = k
          BY <2>3, <4>2
        <5>2. RootName(k) # name
          BY <1>8, <4>2 DEF name
        <5>. QED  BY <1>8, <1>13, <2>7, <3>1, <5>1, <5>2
      <4>. QED  BY <4>1, <4>2
    <3>. QED  BY <1>8, <3>2
  <2>. QED  BY <1>3, <1>6, <1>10, <1>18, <2>4, <2>5, <2>8 DEF fs
<1>. QED  BY <1>14, <1>15, <1>16, <1>17, <1>18 DEF EditKinds

-----------------------------------------------------------------------------
(***************************************************************************)
(* The invariant: how the fields fs that are sent follow from the message  *)
(* m and the edits es.                                                     *)
(***************************************************************************)
KindOf(m) == IF "query" \in DOMAIN m THEN "request" ELSE "reply"
Edit(in, kind, name) == [in |-> in, kind |-> kind, name |-> name]
Done(es, kind, name) == Edit("message", kind, name) \in es
RootsWith(roots, kind, i) ==
    WriteRoots([r \in DOMAIN roots |->
                  IF r = 1 THEN EditedRoot(roots[1], kind, i) ELSE WriteRoot(roots[r])])

\* A root of the message of which one field may differ.
RootEdit(m, kind, i) ==
    /\ "roots" \in DOMAIN m /\ m.roots # <<>>
    /\ kind \in EditKinds /\ i \in 1..7 /\ Applies(RootFieldsOf(m.roots[1]), kind, i)
RootEditName(m, kind, i) == EditedName(RootFieldsOf(m.roots[1]), kind, i)

\* The forms a field of the message has.
Plain(m, es, f, name) ==
    /\ f = <<name, Write(name, m[name])>>
    /\ ~Done(es, "retyped", name) /\ ~Done(es, "reworded", name)
    /\ name = "roots" => \A e \in es : e.in # "root"
Retyped(es, f, name) == f = <<name, <<MapToken>>>> /\ Done(es, "retyped", name)
Reworded(es, f, name) ==
    f = <<name, <<FutureWord>>>> /\ name \in Words /\ Done(es, "reworded", name)
Rooted(m, es, f, name) ==
    /\ name = "roots"
    /\ \E kind \in EditKinds, i \in 1..7 :
          /\ RootEdit(m, kind, i) /\ f = <<"roots", RootsWith(m.roots, kind, i)>>
          /\ Edit("root", kind, RootEditName(m, kind, i)) \in es
FieldOf(m, es, f, name) ==
    \/ Plain(m, es, f, name) \/ Retyped(es, f, name) \/ Reworded(es, f, name)
    \/ Rooted(m, es, f, name)
FieldIs(m, es, f) ==
    \/ f = NewField /\ Done(es, "added", "future")
    \/ \E name \in DOMAIN m : FieldOf(m, es, f, name)

\* Where a name is met.
At(fs, name) == {i \in 1..Len(fs) : fs[i][1] = name}

\* Each field is there, but for those that were dropped, and once, but for
\* those that were repeated.
FieldsAre(m, es, fs) ==
    /\ \A i \in 1..Len(fs) : FieldIs(m, es, fs[i])
    /\ \A name \in DOMAIN m : Done(es, "dropped", name) <=> At(fs, name) = {}
    /\ \A i, j \in 1..Len(fs) :
          i # j /\ fs[i][1] = fs[j][1] => Done(es, "repeated", fs[i][1])
    /\ \A name \in DOMAIN m : Done(es, "repeated", name) => \E i, j \in At(fs, name) : i # j

IsEdit(m, e) ==
    \/ e = Edit("message", "reordered", NoName) \/ e = Edit("message", "added", "future")
    \/ \E kind \in EditKinds \ {"added"}, name \in DOMAIN m : e = Edit("message", kind, name)
    \/ \E kind \in EditKinds, i \in 1..7 :
          RootEdit(m, kind, i) /\ e = Edit("root", kind, RootEditName(m, kind, i))
    \/ e \in {Edit("frame", "cut", NoName), Edit("frame", "continued", NoName)}

\* Nothing is edited twice.
EditsAre(m, es) ==
    /\ \A e \in es : IsEdit(m, e)
    /\ \A d, e \in es : d.in = e.in /\ d.in = "message" /\ d.name = e.name => d = e
    /\ \A d, e \in es : d.in = e.in /\ d.in \in {"root", "frame"} => d = e
    /\ \A d, e \in es : d.in = "root" /\ e.in = "message" => e.name # "roots"

\* What is sent is the whole message, unless the frame was cut or continued.
Unframed(es) == \A e \in es : e.in # "frame"
Whole == WriteMap(count, fields)
FrameInv ==
    /\ phase = "writing" => Unframed(edits)
    /\ phase # "writing" =>
          /\ Unframed(edits) => payload = Whole
          /\ Edit("frame", "cut", NoName) \in edits =>
                \E n \in 0..Len(Whole) - 1 : payload = SubSeq(Whole, 1, n)
          /\ Edit("frame", "continued", NoName) \in edits => payload = Append(Whole, Nil)
    /\ phase \in {"sent", "received"} /\ IsRequest /\ edits = {} => Fits
    /\ phase = "received" =>
          outcome = IF Accepts(Size(payload)) THEN Decoded(payload) ELSE Refused

WireInv ==
    /\ message \in Requests \cup Replies /\ fields \in Seq(Entry) /\ count = Len(fields)
    /\ FieldsAre(message, edits, fields) /\ EditsAre(message, edits) /\ FrameInv

-----------------------------------------------------------------------------
(***************************************************************************)
(* The messages.                                                           *)
(***************************************************************************)
Message == Request \cup Reply
LayoutName(m, i) == Layout(m)[2][i]

\* A layout has each field of the message once.
IsLayout(m) ==
    LET n == Layout(m)[1]
        names == Layout(m)[2]
    IN  /\ n \in Nat /\ DOMAIN names = 1..n
        /\ \A i \in 1..n : names[i] \in DOMAIN m
        /\ \A name \in DOMAIN m : \E i \in 1..n : names[i] = name
        /\ \A i, j \in 1..n : names[i] = names[j] => i = j

\* So does every layout there is.
LEMMA LayoutFacts ==
  ASSUME NEW m \in Message
  PROVE  IsLayout(m)
<1>1. ASSUME NEW D, NEW a, DOMAIN m = D, Layout(m) = <<1, <<a>>>>, D = {a}
      PROVE  IsLayout(m)
  <2>1. /\ Layout(m)[1] = 1 /\ DOMAIN Layout(m)[2] = 1..1 /\ Layout(m)[2][1] = a
        /\ \A i \in 1..1 : i = 1
    BY <1>1
  <2>. QED  BY <1>1, <2>1 DEF IsLayout
<1>2. ASSUME NEW D, NEW a, NEW b, a # b, DOMAIN m = D, Layout(m) = <<2, <<a, b>>>>, D = {a, b}
      PROVE  IsLayout(m)
  <2>1. /\ Layout(m)[1] = 2 /\ DOMAIN Layout(m)[2] = 1..2
        /\ Layout(m)[2][1] = a /\ Layout(m)[2][2] = b
        /\ \A i \in 1..2 : i \in {1, 2}
    BY <1>2
  <2>. QED  BY <1>2, <2>1 DEF IsLayout
<1>3. CASE m \in [query : {"roots"}, with_der : BOOLEAN, purpose : Optional]
  <2>1. DOMAIN m = {"query", "with_der", "purpose"} /\ m.query = "roots"
    BY <1>3
  <2>2. Layout(m) = <<3, <<"query", "with_der", "purpose">>>>
    BY <2>1 DEF Layout
  <2>3. /\ Layout(m)[1] = 3 /\ DOMAIN Layout(m)[2] = 1..3
        /\ Layout(m)[2][1] = "query" /\ Layout(m)[2][2] = "with_der" /\ Layout(m)[2][3] = "purpose"
        /\ (\A i \in 1..3 : i \in {1, 2, 3}) /\ {1, 2, 3} \subseteq 1..3
    BY <2>2
  <2>. QED  BY <2>1, <2>3 DEF IsLayout
<1>4. CASE m \in [query : {"subscribe"}, with_der : BOOLEAN]
  <2>1. DOMAIN m = {"query", "with_der"} /\ m.query = "subscribe"
    BY <1>4
  <2>2. Layout(m) = <<2, <<"query", "with_der">>>>
    BY <2>1 DEF Layout
  <2>. QED  BY <1>2, <2>1, <2>2
<1>5. CASE m \in [query : {"status", "reload"}]
  <2>1. DOMAIN m = {"query"} /\ m.query \in {"status", "reload"}
    BY <1>5
  <2>2. Layout(m) = <<1, <<"query">>>>
    BY <2>1 DEF Layout
  <2>. QED  BY <1>1, <2>1, <2>2
<1>6. CASE m \in [ok : {TRUE}]
  <2>1. DOMAIN m = {"ok"} /\ m.ok = TRUE
    BY <1>6
  <2>2. Layout(m) = <<1, <<"ok">>>>
    BY <2>1 DEF Layout
  <2>. QED  BY <1>1, <2>1, <2>2
<1>7. CASE m \in [ok : {FALSE}, error : Texts]
  <2>1. DOMAIN m = {"ok", "error"} /\ m.ok = FALSE
    BY <1>7
  <2>2. Layout(m) = <<2, <<"ok", "error">>>>
    BY <2>1 DEF Layout
  <2>. QED  BY <1>2, <2>1, <2>2
<1>8. CASE m \in [ok : {TRUE}, kind : {"roots"}, generation : Nat, more : BOOLEAN,
                  roots : Seq(Root)]
  <2>1. DOMAIN m = {"ok", "kind", "generation", "more", "roots"} /\ m.ok = TRUE /\ m.kind = "roots"
    BY <1>8
  <2>2. Layout(m) = <<5, <<"ok", "kind", "generation", "more", "roots">>>>
    BY <2>1 DEF Layout
  <2>3. /\ Layout(m)[1] = 5 /\ DOMAIN Layout(m)[2] = 1..5
        /\ Layout(m)[2][1] = "ok" /\ Layout(m)[2][2] = "kind" /\ Layout(m)[2][3] = "generation"
        /\ Layout(m)[2][4] = "more" /\ Layout(m)[2][5] = "roots"
        /\ (\A i \in 1..5 : i \in {1, 2, 3, 4, 5}) /\ {1, 2, 3, 4, 5} \subseteq 1..5
    BY <2>2
  <2>. QED  BY <2>1, <2>3 DEF IsLayout
<1>9. CASE m \in [ok : {TRUE}, kind : {"status"}, generation : Nat,
                  health : {"ok", "degraded"}, message : Optional, shipped : Nat,
                  added : Nat, distrusted : Nat, skipped : Nat, effective : Nat,
                  compat_mode : 0..(U32 - 1), rendered : Seq(Texts)]
  <2>1. /\ DOMAIN m = {"ok", "kind", "generation", "health", "message", "shipped", "added",
                       "distrusted", "skipped", "effective", "compat_mode", "rendered"}
        /\ m.ok = TRUE /\ m.kind = "status"
    BY <1>9
  <2>2. Layout(m) = <<12, <<"ok", "kind", "generation", "health", "message", "shipped", "added",
                            "distrusted", "skipped", "effective", "compat_mode", "rendered">>>>
    BY <2>1 DEF Layout
  <2>3. /\ Layout(m)[1] = 12 /\ DOMAIN Layout(m)[2] = 1..12
        /\ Layout(m)[2][1] = "ok" /\ Layout(m)[2][2] = "kind" /\ Layout(m)[2][3] = "generation"
        /\ Layout(m)[2][4] = "health" /\ Layout(m)[2][5] = "message"
        /\ Layout(m)[2][6] = "shipped" /\ Layout(m)[2][7] = "added"
        /\ Layout(m)[2][8] = "distrusted" /\ Layout(m)[2][9] = "skipped"
        /\ Layout(m)[2][10] = "effective" /\ Layout(m)[2][11] = "compat_mode"
        /\ Layout(m)[2][12] = "rendered"
    BY <2>2
  <2>4. /\ \A i \in 1..12 : i \in {1, 2, 3, 4, 5, 6, 7, 8, 9, 10, 11, 12}
        /\ {1, 2, 3, 4, 5, 6, 7, 8, 9, 10, 11, 12} \subseteq 1..12
    OBVIOUS
  <2>. DEFINE names == Layout(m)[2]
  <2>5. \A i \in 1..12 : names[i] \in DOMAIN m
    BY <2>1, <2>3, <2>4
  <2>6. \A name \in DOMAIN m : \E i \in 1..12 : names[i] = name
    BY <2>1, <2>3, <2>4
  <2>7. \A i, j \in 1..12 : names[i] = names[j] => i = j
    BY <2>3, <2>4
  <2>8. Layout(m)[1] = 12 /\ DOMAIN names = 1..12
    BY <2>3
  <2>. HIDE DEF names
  <2>9. /\ 12 \in Nat /\ DOMAIN names = 1..12
        /\ \A i \in 1..12 : names[i] \in DOMAIN m
        /\ \A name \in DOMAIN m : \E i \in 1..12 : names[i] = name
        /\ \A i, j \in 1..12 : names[i] = names[j] => i = j
    BY <2>5, <2>6, <2>7, <2>8
  <2>. QED  BY <2>8, <2>9, Zenon DEF IsLayout, names
<1>. QED  BY <1>3, <1>4, <1>5, <1>6, <1>7, <1>8, <1>9 DEF Message, Request, Reply

\* The fields of a message have their types, and their words are known.
LEMMA MessageHolds ==
  ASSUME NEW m \in Message, NEW name \in DOMAIN m
  PROVE  /\ name \in KindFields(KindOf(m)) /\ name \in Texts /\ name # "future" /\ name # ""
         /\ name # "roots" => Holds(name, m[name]) /\ ReadAs(name, m[name]) = m[name]
         /\ name = "roots" => m[name] \in Seq(Root)
         /\ m = [k \in DOMAIN m |-> m[k]] /\ KindOf(m) \in MapKinds
<1>. USE DEF StrNames, BoolNames, NumberNames, OptionalNames, ListNames, Counters
<1>1. {"roots", "subscribe", "status", "reload", "ok", "degraded"} \subseteq Texts
  BY VocabularyFacts DEF ReplyFields
<1>2. CASE m \in [query : {"roots"}, with_der : BOOLEAN, purpose : Optional]
  <2>1. /\ DOMAIN m = {"query", "with_der", "purpose"} /\ m.query = "roots"
        /\ m.with_der \in BOOLEAN /\ m.purpose \in Optional /\ m = [k \in DOMAIN m |-> m[k]]
    BY <1>2
  <2>2. KindOf(m) = "request" /\ KindFields(KindOf(m)) = RequestFields
    BY <2>1 DEF KindOf, KindFields
  <2>3. Holds(name, m[name])
    BY <1>1, <2>1 DEF Holds
  <2>4. ReadAs(name, m[name]) = m[name]
    BY <2>1 DEF ReadAs, Known
  <2>. QED  BY <2>1, <2>2, <2>3, <2>4, VocabularyFacts DEF RequestFields, MapKinds
<1>3. CASE m \in [query : {"subscribe"}, with_der : BOOLEAN]
  <2>1. /\ DOMAIN m = {"query", "with_der"} /\ m.query = "subscribe"
        /\ m.with_der \in BOOLEAN /\ m = [k \in DOMAIN m |-> m[k]]
    BY <1>3
  <2>2. KindOf(m) = "request" /\ KindFields(KindOf(m)) = RequestFields
    BY <2>1 DEF KindOf, KindFields
  <2>3. Holds(name, m[name])
    BY <1>1, <2>1 DEF Holds
  <2>4. ReadAs(name, m[name]) = m[name]
    BY <2>1 DEF ReadAs, Known
  <2>. QED  BY <2>1, <2>2, <2>3, <2>4, VocabularyFacts DEF RequestFields, MapKinds
<1>4. CASE m \in [query : {"status", "reload"}]
  <2>1. DOMAIN m = {"query"} /\ m.query \in {"status", "reload"} /\ m = [k \in DOMAIN m |-> m[k]]
    BY <1>4
  <2>2. KindOf(m) = "request" /\ KindFields(KindOf(m)) = RequestFields
    BY <2>1 DEF KindOf, KindFields
  <2>3. Holds(name, m[name])
    BY <1>1, <2>1 DEF Holds
  <2>4. ReadAs(name, m[name]) = m[name]
    BY <2>1 DEF ReadAs, Known
  <2>. QED  BY <2>1, <2>2, <2>3, <2>4, VocabularyFacts DEF RequestFields, MapKinds
<1>5. CASE m \in [ok : {TRUE}]
  <2>1. DOMAIN m = {"ok"} /\ m.ok \in BOOLEAN /\ m = [k \in DOMAIN m |-> m[k]]
    BY <1>5
  <2>2. KindOf(m) = "reply" /\ KindFields(KindOf(m)) = ReplyFields
    BY <2>1 DEF KindOf, KindFields
  <2>3. Holds(name, m[name]) /\ ReadAs(name, m[name]) = m[name]
    BY <2>1 DEF Holds, ReadAs
  <2>. QED  BY <2>1, <2>2, <2>3, VocabularyFacts DEF ReplyFields, MapKinds
<1>6. CASE m \in [ok : {FALSE}, error : Texts]
  <2>1. /\ DOMAIN m = {"ok", "error"} /\ m.ok \in BOOLEAN /\ m.error \in Texts
        /\ m = [k \in DOMAIN m |-> m[k]]
    BY <1>6
  <2>2. KindOf(m) = "reply" /\ KindFields(KindOf(m)) = ReplyFields
    BY <2>1 DEF KindOf, KindFields
  <2>3. Holds(name, m[name])
    BY <2>1 DEF Holds
  <2>4. ReadAs(name, m[name]) = m[name]
    BY <2>1 DEF ReadAs, Known
  <2>. QED  BY <2>1, <2>2, <2>3, <2>4, VocabularyFacts DEF ReplyFields, MapKinds
<1>7. CASE m \in [ok : {TRUE}, kind : {"roots"}, generation : Nat, more : BOOLEAN,
                  roots : Seq(Root)]
  <2>1. /\ DOMAIN m = {"ok", "kind", "generation", "more", "roots"}
        /\ m.ok \in BOOLEAN /\ m.kind = "roots" /\ m.generation \in Nat /\ m.more \in BOOLEAN
        /\ m.roots \in Seq(Root) /\ m = [k \in DOMAIN m |-> m[k]]
    BY <1>7
  <2>2. KindOf(m) = "reply" /\ KindFields(KindOf(m)) = ReplyFields
    BY <2>1 DEF KindOf, KindFields
  <2>3. name # "roots" => Holds(name, m[name])
    BY <1>1, <2>1 DEF Holds
  <2>4. ReadAs(name, m[name]) = m[name]
    BY <2>1 DEF ReadAs, Known
  <2>. QED  BY <2>1, <2>2, <2>3, <2>4, VocabularyFacts DEF ReplyFields, MapKinds
<1>8. CASE m \in [ok : {TRUE}, kind : {"status"}, generation : Nat,
                  health : {"ok", "degraded"}, message : Optional, shipped : Nat,
                  added : Nat, distrusted : Nat, skipped : Nat, effective : Nat,
                  compat_mode : 0..(U32 - 1), rendered : Seq(Texts)]
  <2>1. /\ DOMAIN m = {"ok", "kind", "generation", "health", "message", "shipped", "added",
                       "distrusted", "skipped", "effective", "compat_mode", "rendered"}
        /\ m.ok \in BOOLEAN /\ m.kind = "status" /\ m.generation \in Nat
        /\ m.health \in {"ok", "degraded"} /\ m.message \in Optional
        /\ m.shipped \in Nat /\ m.added \in Nat /\ m.distrusted \in Nat /\ m.skipped \in Nat
        /\ m.effective \in Nat /\ m.compat_mode \in 0..(U32 - 1) /\ m.rendered \in Seq(Texts)
        /\ m = [k \in DOMAIN m |-> m[k]]
    BY <1>8
  <2>2. m.compat_mode \in Nat /\ m.compat_mode < U32
    BY <2>1, WireAssumption
  <2>3. KindOf(m) = "reply" /\ KindFields(KindOf(m)) = ReplyFields
    BY <2>1 DEF KindOf, KindFields
  <2>4. Holds(name, m[name])
    BY <1>1, <2>1, <2>2 DEF Holds
  <2>5. ReadAs(name, m[name]) = m[name]
    BY <2>1 DEF ReadAs, Known
  <2>. QED  BY <2>1, <2>3, <2>4, <2>5, VocabularyFacts DEF ReplyFields, MapKinds
<1>. QED  BY <1>2, <1>3, <1>4, <1>5, <1>6, <1>7, <1>8 DEF Message, Request, Reply

\* An array of roots is a field that does not depend on what follows.
LEMMA RootsEntry ==
  ASSUME NEW ws \in Seq(Tokens), NEW res, \A i \in 1..Len(ws) : ReadsRoot(ws[i], res[i])
  PROVE  LET f == <<"roots", WriteRoots(ws)>>
         IN  /\ f \in Entry /\ Exact("reply", f)
             /\ ResOf("reply", f) = IF AllOk(res, Len(ws)) THEN Got(RootValues(res, Len(ws)), <<>>)
                                                            ELSE Refused
<1>. DEFINE ts == WriteRoots(ws)
            f == <<"roots", ts>>
            x == RootValues(res, Len(ws))
            all == AllOk(res, Len(ws))
            y == IF all THEN Got(x, <<>>) ELSE Refused
<1>1. \A rest \in Tokens : /\ ts \in Tokens
                           /\ ReadRootArray(ts \o rest) = IF all THEN Got(x, rest) ELSE Refused
  BY RootsRead
<1>2. <<>> \in Tokens
  BY DEF Tokens
<1>3. ts \in Tokens
  BY <1>1, <1>2
<1>4. "roots" \in Texts /\ "reply" \in MapKinds /\ "roots" \in KindFields("reply")
  BY VocabularyFacts DEF ReplyFields, MapKinds, KindFields
<1>. HIDE DEF ts, x, all
<1>5. f \in Entry /\ f[1] = "roots" /\ f[2] = ts
  BY <1>3, <1>4 DEF Entry
<1>. HIDE DEF f
<1>6. \A rest : Onto(y, rest) = IF all THEN Got(x, rest) ELSE Refused
  BY GotFacts DEF Onto
<1>. HIDE DEF y
<1>7. Reads("reply", f, y)
  <2>1. ASSUME NEW rest \in Tokens
        PROVE  FieldValue("reply", f[1], f[2] \o rest) = Onto(y, rest)
    <3>1. ts \o rest \in Tokens
      BY <1>3, ConcatType DEF Tokens
    <3>2. FieldValue("reply", "roots", ts \o rest) = ReadRootArray(ts \o rest)
      BY <1>4, <3>1, FieldReaders
    <3>. QED  BY <1>1, <1>5, <1>6, <3>2
  <2>. QED  BY <2>1 DEF Reads
<1>8. Exact("reply", f) /\ ResOf("reply", f) = Onto(y, <<>>)
  BY <1>5, <1>7, ReadsIsExact
<1>. QED  BY <1>5, <1>6, <1>8 DEF f, y, ts, x, all

\* Roots are read as they were written.
LEMMA WrittenRootsRead ==
  ASSUME NEW roots \in Seq(Root)
  PROVE  LET f == <<"roots", Write("roots", roots)>>
         IN  f \in Entry /\ Exact("reply", f) /\ ResOf("reply", f) = Got(roots, <<>>)
<1>. DEFINE n == Len(roots)
            ws == [i \in 1..n |-> WriteRoot(roots[i])]
            res == [i \in 1..n |-> Got(roots[i], <<>>)]
<1>1. n \in Nat /\ DOMAIN roots = 1..n /\ (\A i \in 1..n : roots[i] \in Root)
      /\ roots = [i \in 1..n |-> roots[i]]
  OBVIOUS
<1>. HIDE DEF n
<1>2. Write("roots", roots) = WriteRoots(ws)
  BY <1>1 DEF Write
<1>3. ws \in [1..n -> Tokens] /\ \A i \in 1..n : ReadsRoot(ws[i], res[i])
  BY <1>1, WrittenRootReads
<1>. HIDE DEF ws
<1>4. ws \in Seq(Tokens) /\ Len(ws) = n
  BY <1>1, <1>3, FunctionIsSeq
<1>5. AllOk(res, n) /\ RootValues(res, n) = roots
  BY <1>1, GotFacts DEF AllOk, RootValues
<1>. HIDE DEF res
<1>. DEFINE f == <<"roots", WriteRoots(ws)>>
<1>6. f \in Entry /\ Exact("reply", f) /\ ResOf("reply", f) = Got(roots, <<>>)
  BY <1>3, <1>4, <1>5, RootsEntry
<1>. HIDE DEF f
<1>. QED  BY <1>2, <1>6 DEF f

\* Roots of which one field of the first differs.
RootsAs(roots, kind, name) ==
    IF kind \in {"repeated", "retyped"} THEN Refused
    ELSE Got([roots EXCEPT ![1] = Defaulted(roots[1], Gone(kind, name))], <<>>)

\* They are refused, or read with that root's field at its default.
LEMMA EditedRootsRead ==
  ASSUME NEW roots \in Seq(Root), roots # <<>>, NEW kind \in EditKinds, NEW i \in 1..7,
         Applies(RootFieldsOf(roots[1]), kind, i)
  PROVE  LET f == <<"roots", RootsWith(roots, kind, i)>>
             name == EditedName(RootFieldsOf(roots[1]), kind, i)
         IN  f \in Entry /\ Exact("reply", f) /\ ResOf("reply", f) = RootsAs(roots, kind, name)
<1>. DEFINE n == Len(roots)
            name == EditedName(RootFieldsOf(roots[1]), kind, i)
            ws == [r \in 1..n |-> IF r = 1 THEN EditedRoot(roots[1], kind, i) ELSE WriteRoot(roots[r])]
            first == EditedRootAs(roots[1], kind, name)
            res == [r \in 1..n |-> IF r = 1 THEN first ELSE Got(roots[r], <<>>)]
            d == Defaulted(roots[1], Gone(kind, name))
<1>1. n \in Nat /\ DOMAIN roots = 1..n /\ (\A r \in 1..n : roots[r] \in Root)
      /\ 1 \in 1..n
      /\ [roots EXCEPT ![1] = d] = [r \in 1..n |-> IF r = 1 THEN d ELSE roots[r]]
  OBVIOUS
<1>2. EditedRoot(roots[1], kind, i) \in Tokens /\ ReadsRoot(EditedRoot(roots[1], kind, i), first)
  <2>1. roots[1] \in Root
    BY <1>1
  <2>. QED  BY <2>1, EditedRootReads
<1>. HIDE DEF n
<1>3. RootsWith(roots, kind, i) = WriteRoots(ws)
  BY <1>1 DEF RootsWith
<1>4. first = IF kind \in {"repeated", "retyped"} THEN Refused ELSE Got(d, <<>>)
  BY DEF EditedRootAs
<1>. HIDE DEF first, d, name
<1>5. ws \in [1..n -> Tokens] /\ \A r \in 1..n : ReadsRoot(ws[r], res[r])
  BY <1>1, <1>2, WrittenRootReads
<1>. HIDE DEF ws
<1>6. ws \in Seq(Tokens) /\ Len(ws) = n
  BY <1>1, <1>5, FunctionIsSeq
<1>7. (IF AllOk(res, n) THEN Got(RootValues(res, n), <<>>) ELSE Refused) = RootsAs(roots, kind, name)
  <2>1. CASE kind \in {"repeated", "retyped"}
    <3>1. ~res[1].ok
      BY <1>1, <1>4, <2>1, GotFacts
    <3>2. ~AllOk(res, n)
      BY <1>1, <3>1 DEF AllOk
    <3>. QED  BY <2>1, <3>2 DEF RootsAs
  <2>2. CASE kind \notin {"repeated", "retyped"}
    <3>1. \A r \in 1..n : res[r].ok /\ res[r].value = IF r = 1 THEN d ELSE roots[r]
      BY <1>1, <1>4, <2>2, GotFacts
    <3>2. AllOk(res, n) /\ RootValues(res, n) = [roots EXCEPT ![1] = d]
      <4>. HIDE DEF res
      <4>. QED  BY <1>1, <3>1 DEF AllOk, RootValues
    <3>. QED  BY <2>2, <3>2 DEF RootsAs, d
  <2>. QED  BY <2>1, <2>2
<1>. HIDE DEF res
<1>. DEFINE f == <<"roots", WriteRoots(ws)>>
<1>8. f \in Entry /\ Exact("reply", f) /\ ResOf("reply", f) = RootsAs(roots, kind, name)
  BY <1>5, <1>6, <1>7, RootsEntry
<1>. HIDE DEF f
<1>. QED  BY <1>3, <1>8 DEF f, name

\* Every field of a message is read as it was written.
LEMMA FieldWritten ==
  ASSUME NEW m \in Message, NEW name \in DOMAIN m
  PROVE  LET f == <<name, Write(name, m[name])>>
         IN  /\ f \in Entry /\ Exact(KindOf(m), f)
             /\ ResOf(KindOf(m), f) = Got(m[name], <<>>)
<1>1. CASE name = "roots"
  <2>1. KindOf(m) = "reply"
    <3>1. "roots" \in KindFields(KindOf(m)) /\ KindOf(m) \in MapKinds /\ KindOf(m) # "root"
      BY <1>1, MessageHolds DEF KindOf
    <3>. QED  BY <3>1 DEF KindFields, MapKinds, RequestFields
  <2>2. m[name] \in Seq(Root)
    BY <1>1, MessageHolds
  <2>. QED  BY <1>1, <2>1, <2>2, WrittenRootsRead
<1>2. CASE name # "roots"
  <2>. DEFINE value == m[name]
              kind == KindOf(m)
              f == <<name, Scalar(name, value)>>
  <2>1. /\ kind \in MapKinds /\ name \in KindFields(kind) /\ Holds(name, value)
        /\ ReadAs(name, value) = value
    BY <1>2, MessageHolds
  <2>2. Write(name, value) = Scalar(name, value)
    BY <1>2 DEF Write
  <2>. HIDE DEF value, kind
  <2>3. f \in Entry /\ Exact(kind, f) /\ ResOf(kind, f) = Got(ReadAs(name, value), <<>>)
    BY <1>2, <2>1, WrittenReads
  <2>. HIDE DEF f
  <2>. QED  BY <2>1, <2>2, <2>3 DEF f, value, kind
<1>. QED  BY <1>1, <1>2

\* The fields of a message.
LEMMA MessageEntries ==
  ASSUME NEW m \in Message
  PROVE  /\ FieldsOf(m) \in Seq(Entry) /\ Len(FieldsOf(m)) = Layout(m)[1]
         /\ \A i \in 1..Layout(m)[1] :
               /\ LayoutName(m, i) \in DOMAIN m
               /\ FieldsOf(m)[i] = <<LayoutName(m, i), Write(LayoutName(m, i), m[LayoutName(m, i)])>>
<1>. DEFINE n == Layout(m)[1]
            fs == FieldsOf(m)
<1>1. /\ n \in Nat /\ DOMAIN Layout(m)[2] = 1..n
      /\ \A i \in 1..n : LayoutName(m, i) \in DOMAIN m
  BY LayoutFacts DEF IsLayout, LayoutName
<1>2. fs = [i \in 1..n |-> <<LayoutName(m, i), Write(LayoutName(m, i), m[LayoutName(m, i)])>>]
  BY <1>1 DEF FieldsOf, LayoutName
<1>. HIDE DEF fs, n
<1>3. \A i \in 1..n : fs[i] = <<LayoutName(m, i), Write(LayoutName(m, i), m[LayoutName(m, i)])>>
  BY <1>2
<1>4. \A i \in 1..n : fs[i] \in Entry
  BY <1>1, <1>3, FieldWritten
<1>5. fs \in [1..n -> Entry]
  BY <1>2, <1>3, <1>4
<1>6. fs \in Seq(Entry) /\ Len(fs) = n
  BY <1>1, <1>5, FunctionIsSeq
<1>. QED  BY <1>1, <1>3, <1>6 DEF fs, n
-----------------------------------------------------------------------------
(***************************************************************************)
(* What an edit makes of the fields.                                       *)
(***************************************************************************)

\* One edit more.
LEMMA OneMoreEdit ==
  ASSUME NEW m, NEW es, EditsAre(m, es), NEW e, IsEdit(m, e),
         e.in = "message" => \A d \in es : /\ d.in = "message" => d.name # e.name
                                           /\ d.in = "root" => e.name # "roots",
         e.in = "root" => \A d \in es : /\ d.in # "root"
                                        /\ d.in = "message" => d.name # "roots",
         e.in = "frame" => \A d \in es : d.in # "frame"
  PROVE  EditsAre(m, es \cup {e})
<1>. DEFINE all == es \cup {e}
<1>1. \A d \in all : IsEdit(m, d)
  BY DEF EditsAre
<1>2. \A c, d \in all : c.in = d.in /\ c.in = "message" /\ c.name = d.name => c = d
  BY DEF EditsAre
<1>3. \A c, d \in all : c.in = d.in /\ c.in \in {"root", "frame"} => c = d
  BY DEF EditsAre
<1>4. \A c, d \in all : c.in = "root" /\ d.in = "message" => d.name # "roots"
  BY DEF EditsAre
<1>. QED  BY <1>1, <1>2, <1>3, <1>4 DEF EditsAre

\* What an edit is called.
LEMMA EditParts ==
  ASSUME NEW in, NEW kind, NEW name
  PROVE  /\ Edit(in, kind, name).in = in /\ Edit(in, kind, name).kind = kind
         /\ Edit(in, kind, name).name = name
         /\ \A k, n : Edit(in, kind, name) = Edit("message", k, n) <=>
                         in = "message" /\ kind = k /\ name = n
BY DEF Edit

\* What has been done after one edit more.
LEMMA DoneNext ==
  ASSUME NEW es, NEW in, NEW kind, NEW name, NEW k, NEW n
  PROVE  Done(es \cup {Edit(in, kind, name)}, k, n) <=>
            Done(es, k, n) \/ (in = "message" /\ k = kind /\ n = name)
BY EditParts DEF Done

\* Likewise after one edit of the message.
LEMMA MessageDone ==
  ASSUME NEW es, NEW kind, NEW name
  PROVE  \A k, a : Done(es \cup {Edit("message", kind, name)}, k, a) <=>
                      Done(es, k, a) \/ (k = kind /\ a = name)
BY DoneNext

\* A field stays what it is when another is edited.
LEMMA FieldIsKept ==
  ASSUME NEW m, NEW es, NEW f, FieldIs(m, es, f), NEW in, NEW kind, NEW name,
         in = "message" /\ kind \in {"retyped", "reworded"} => name # f[1],
         in = "root" => f[1] # "roots"
  PROVE  FieldIs(m, es \cup {Edit(in, kind, name)}, f)
<1>. DEFINE all == es \cup {Edit(in, kind, name)}
<1>1. \A k, n : Done(all, k, n) <=> Done(es, k, n) \/ (in = "message" /\ k = kind /\ n = name)
  BY DoneNext
<1>2. \A e \in all : e \in es \/ e.in = in
  BY EditParts
<1>3. \A e \in es : e \in all
  OBVIOUS
<1>. HIDE DEF all
<1>4. ASSUME f = NewField /\ Done(es, "added", "future") PROVE FieldIs(m, all, f)
  BY <1>1, <1>4 DEF FieldIs
<1>5. ASSUME NEW n \in DOMAIN m, FieldOf(m, es, f, n)
      PROVE  FieldIs(m, all, f)
  <2>1. CASE Plain(m, es, f, n)
    <3>1. f[1] = n /\ f = <<n, Write(n, m[n])>>
      BY <2>1 DEF Plain
    <3>2. ~Done(all, "retyped", n) /\ ~Done(all, "reworded", n)
      BY <1>1, <2>1, <3>1 DEF Plain
    <3>3. n = "roots" => \A e \in all : e.in # "root"
      BY <1>2, <2>1, <3>1 DEF Plain
    <3>4. Plain(m, all, f, n)
      BY <3>1, <3>2, <3>3 DEF Plain
    <3>. QED  BY <3>4 DEF FieldIs, FieldOf
  <2>2. CASE Retyped(es, f, n)
    <3>1. Retyped(all, f, n)
      BY <1>1, <2>2 DEF Retyped
    <3>. QED  BY <3>1 DEF FieldIs, FieldOf
  <2>3. CASE Reworded(es, f, n)
    <3>1. Reworded(all, f, n)
      BY <1>1, <2>3 DEF Reworded
    <3>. QED  BY <3>1 DEF FieldIs, FieldOf
  <2>4. CASE Rooted(m, es, f, n)
    <3>1. Rooted(m, all, f, n)
      BY <1>3, <2>4 DEF Rooted
    <3>. QED  BY <3>1 DEF FieldIs, FieldOf
  <2>. QED  BY <1>5, <2>1, <2>2, <2>3, <2>4 DEF FieldOf
<1>. QED  BY <1>4, <1>5 DEF FieldIs, all

\* The fields where they are met.
LEMMA AtFacts ==
  ASSUME NEW fs, NEW name, NEW i
  PROVE  i \in At(fs, name) <=> i \in 1..Len(fs) /\ fs[i][1] = name
BY DEF At

\* The fields in another order.
LEMMA Rearranged ==
  ASSUME NEW m, NEW es, NEW fs, NEW gs, FieldsAre(m, es, fs), Len(gs) = Len(fs),
         NEW s \in [1..Len(fs) -> 1..Len(fs)], \A k \in 1..Len(fs) : s[s[k]] = k,
         \A k \in 1..Len(fs) : gs[k] = fs[s[k]],
         NEW kind, kind \notin EditKinds, NEW name
  PROVE  FieldsAre(m, es \cup {Edit("message", kind, name)}, gs)
<1>. DEFINE all == es \cup {Edit("message", kind, name)}
            N == 1..Len(fs)
<1>1. /\ \A n : Done(all, "dropped", n) <=> Done(es, "dropped", n)
      /\ \A n : Done(all, "repeated", n) <=> Done(es, "repeated", n)
  BY MessageDone DEF EditKinds
<1>2. \A k \in N : FieldIs(m, all, gs[k])
  <2>1. ASSUME NEW k \in N PROVE FieldIs(m, all, gs[k])
    <3>1. FieldIs(m, es, fs[s[k]])
      BY DEF FieldsAre
    <3>. QED  BY <3>1, FieldIsKept DEF EditKinds
  <2>. QED  BY <2>1
<1>. HIDE DEF all
<1>3. \A n, k : k \in At(gs, n) => s[k] \in At(fs, n)
  BY AtFacts
<1>4. \A n, k : k \in At(fs, n) => s[k] \in At(gs, n)
  BY AtFacts
<1>5. \A i, j \in N : i # j => s[i] # s[j]
  OBVIOUS
<1>6. \A n \in DOMAIN m : Done(all, "dropped", n) <=> At(gs, n) = {}
  <2>1. ASSUME NEW n \in DOMAIN m PROVE At(gs, n) = {} <=> At(fs, n) = {}
    BY <1>3, <1>4
  <2>. QED  BY <1>1, <2>1 DEF FieldsAre
<1>7. ASSUME NEW i \in N, NEW j \in N, i # j, gs[i][1] = gs[j][1]
      PROVE  Done(all, "repeated", gs[i][1])
  <2>1. s[i] # s[j] /\ s[i] \in N /\ s[j] \in N /\ fs[s[i]][1] = fs[s[j]][1]
    BY <1>5, <1>7
  <2>2. Done(es, "repeated", fs[s[i]][1])
    BY <2>1 DEF FieldsAre
  <2>. QED  BY <1>1, <2>2
<1>8. ASSUME NEW n \in DOMAIN m, Done(all, "repeated", n)
      PROVE  \E i, j \in At(gs, n) : i # j
  <2>1. PICK i, j \in At(fs, n) : i # j
    BY <1>1, <1>8 DEF FieldsAre
  <2>2. i \in N /\ j \in N
    BY AtFacts
  <2>. QED  BY <1>4, <1>5, <2>1, <2>2
<1>. QED  BY <1>2, <1>6, <1>7, <1>8 DEF FieldsAre, all

\* A field put at the end: a new one, or one that is repeated.
LEMMA Appended ==
  ASSUME NEW m, NEW es, NEW fs \in Seq(Entry), NEW gs, NEW f, FieldsAre(m, es, fs),
         Len(gs) = Len(fs) + 1, \A k \in 1..Len(fs) : gs[k] = fs[k], gs[Len(fs) + 1] = f,
         NEW kind \in {"added", "repeated"}, NEW name, f[1] = name,
         kind = "added" => f = NewField /\ name = "future" /\ name \notin DOMAIN m
                           /\ At(fs, name) = {},
         kind = "repeated" => name \in DOMAIN m /\ \E i \in 1..Len(fs) : fs[i] = f
  PROVE  FieldsAre(m, es \cup {Edit("message", kind, name)}, gs)
<1>. DEFINE all == es \cup {Edit("message", kind, name)}
            n == Len(fs)
<1>1. n \in Nat
  OBVIOUS
<1>2. \A k, a : Done(all, k, a) <=> Done(es, k, a) \/ (k = kind /\ a = name)
  BY MessageDone
<1>3. \A g : FieldIs(m, es, g) => FieldIs(m, all, g)
  BY FieldIsKept
<1>. HIDE DEF all, n
<1>4. \A k \in 1..(n + 1) : k \in 1..n \/ k = n + 1
  BY <1>1
<1>5. 1..n \subseteq 1..(n + 1) /\ n + 1 \in 1..(n + 1) /\ \A k \in 1..n : k # n + 1
  BY <1>1
<1>6. \A k \in 1..n : gs[k] = fs[k]
  BY DEF n
<1>7. gs[n + 1] = f /\ Len(gs) = n + 1
  BY DEF n
<1>8. \A k \in 1..n : FieldIs(m, es, fs[k])
  BY DEF FieldsAre, n
<1>9. FieldIs(m, all, f)
  <2>1. CASE kind = "added"
    BY <1>2, <2>1 DEF FieldIs
  <2>2. CASE kind = "repeated"
    BY <1>3, <1>8, <2>2 DEF n
  <2>. QED  BY <2>1, <2>2
<1>10. \A k \in 1..(n + 1) : FieldIs(m, all, gs[k])
  BY <1>3, <1>4, <1>6, <1>7, <1>8, <1>9
<1>11. \A a, k : k \in At(gs, a) <=> k \in At(fs, a) \/ (k = n + 1 /\ a = name)
  <2>1. \A a, k : k \in At(fs, a) <=> k \in 1..n /\ fs[k][1] = a
    BY AtFacts DEF n
  <2>2. \A a, k : k \in At(gs, a) <=> k \in 1..(n + 1) /\ gs[k][1] = a
    BY <1>7, AtFacts
  <2>. QED  BY <1>4, <1>5, <1>6, <1>7, <2>1, <2>2
<1>12. \A a \in DOMAIN m : Done(all, "dropped", a) <=> At(gs, a) = {}
  <2>1. ASSUME NEW a \in DOMAIN m PROVE At(gs, a) = {} <=> At(fs, a) = {}
    <3>1. CASE a # name
      BY <1>11, <3>1
    <3>2. CASE a = name
      <4>1. PICK i \in 1..n : fs[i] = f
        BY <3>2 DEF n
      <4>2. i \in At(fs, a)
        BY <3>2, <4>1, AtFacts DEF n
      <4>. QED  BY <1>11, <4>2
    <3>. QED  BY <3>1, <3>2
  <2>. QED  BY <1>2, <2>1 DEF FieldsAre
<1>13. ASSUME NEW i \in 1..(n + 1), NEW j \in 1..(n + 1), i # j, gs[i][1] = gs[j][1]
       PROVE  Done(all, "repeated", gs[i][1])
  <2>1. CASE i \in 1..n /\ j \in 1..n
    <3>1. gs[i] = fs[i] /\ gs[j] = fs[j]
      BY <1>6, <2>1
    <3>2. Done(es, "repeated", fs[i][1])
      BY <1>13, <2>1, <3>1 DEF FieldsAre, n
    <3>. QED  BY <1>2, <3>1, <3>2
  <2>2. CASE ~(i \in 1..n /\ j \in 1..n)
    <3>1. PICK k \in 1..n : gs[i][1] = name /\ gs[k][1] = name
      BY <1>4, <1>5, <1>7, <1>13, <2>2
    <3>2. k \in At(fs, name)
      BY <1>6, <3>1, AtFacts DEF n
    <3>. QED  BY <1>2, <3>1, <3>2
  <2>. QED  BY <2>1, <2>2
<1>14. ASSUME NEW a \in DOMAIN m, Done(all, "repeated", a)
       PROVE  \E i, j \in At(gs, a) : i # j
  <2>1. CASE Done(es, "repeated", a)
    <3>1. PICK i, j \in At(fs, a) : i # j
      BY <2>1 DEF FieldsAre
    <3>. QED  BY <1>11, <3>1
  <2>2. CASE ~Done(es, "repeated", a)
    <3>1. kind = "repeated" /\ a = name
      BY <1>2, <1>14, <2>2
    <3>2. PICK i \in 1..n : fs[i] = f
      BY <3>1 DEF n
    <3>3. i \in At(gs, a) /\ n + 1 \in At(gs, a)
      BY <1>11, <3>1, <3>2, AtFacts DEF n
    <3>. QED  BY <1>5, <3>2, <3>3
  <2>. QED  BY <2>1, <2>2
<1>. QED  BY <1>7, <1>10, <1>12, <1>13, <1>14 DEF FieldsAre, all

\* A field left out.
LEMMA LeftOut ==
  ASSUME NEW m, NEW es, NEW fs \in Seq(Entry), NEW gs, FieldsAre(m, es, fs),
         NEW i \in 1..Len(fs), NEW name \in DOMAIN m, fs[i][1] = name,
         Len(gs) = Len(fs) - 1, \A k \in 1..(Len(fs) - 1) : gs[k] = IF k < i THEN fs[k] ELSE fs[k + 1],
         ~Done(es, "repeated", name)
  PROVE  FieldsAre(m, es \cup {Edit("message", "dropped", name)}, gs)
<1>. DEFINE all == es \cup {Edit("message", "dropped", name)}
            n == Len(fs)
            s(k) == IF k < i THEN k ELSE k + 1
<1>1. n \in Nat /\ i \in 1..n
  OBVIOUS
<1>2. \A k, a : Done(all, k, a) <=> Done(es, k, a) \/ (k = "dropped" /\ a = name)
  BY MessageDone
<1>3. \A g : FieldIs(m, es, g) => FieldIs(m, all, g)
  BY FieldIsKept
<1>4. \A k \in 1..(n - 1) : gs[k] = fs[s(k)]
  OBVIOUS
<1>5. \A k \in 1..n : FieldIs(m, es, fs[k])
  BY DEF FieldsAre
<1>6. \A k, j \in 1..n : k # j /\ fs[k][1] = fs[j][1] => Done(es, "repeated", fs[k][1])
  BY DEF FieldsAre
<1>7. Len(gs) = n - 1
  OBVIOUS
<1>8. \A a, k : k \in At(fs, a) <=> k \in 1..n /\ fs[k][1] = a
  BY AtFacts
<1>9. \A a, k : k \in At(gs, a) <=> k \in 1..(n - 1) /\ gs[k][1] = a
  BY <1>7, AtFacts
<1>. HIDE DEF all, n
<1>10. /\ \A k \in 1..(n - 1) : s(k) \in 1..n /\ s(k) # i
       /\ \A j \in 1..n : j # i => \E k \in 1..(n - 1) : s(k) = j
       /\ \A k, j \in 1..(n - 1) : k # j => s(k) # s(j)
  <2>1. ASSUME NEW j \in 1..n, j # i PROVE \E k \in 1..(n - 1) : s(k) = j
    <3>1. CASE j < i
      <4>1. j \in 1..(n - 1) /\ s(j) = j
        BY <1>1, <3>1
      <4>. QED  BY <4>1
    <3>2. CASE j > i
      <4>1. j - 1 \in 1..(n - 1) /\ s(j - 1) = j
        BY <1>1, <3>2
      <4>. QED  BY <4>1
    <3>. QED  BY <1>1, <2>1, <3>1, <3>2
  <2>. QED  BY <1>1, <2>1
<1>. HIDE DEF s
<1>11. \A k \in 1..(n - 1) : FieldIs(m, all, gs[k])
  BY <1>3, <1>4, <1>5, <1>10
<1>12. \A a, k : k \in At(gs, a) => s(k) \in At(fs, a) /\ s(k) # i
  BY <1>4, <1>8, <1>9, <1>10
<1>13. \A a, j : j \in At(fs, a) /\ j # i => \E k \in At(gs, a) : s(k) = j
  BY <1>4, <1>8, <1>9, <1>10
<1>14. \A j \in At(fs, name) : j = i
  BY <1>1, <1>6, <1>8
<1>15. \A a \in DOMAIN m : Done(all, "dropped", a) <=> At(gs, a) = {}
  <2>1. At(gs, name) = {}
    BY <1>12, <1>14
  <2>2. ASSUME NEW a, a # name PROVE At(gs, a) = {} <=> At(fs, a) = {}
    <3>1. i \notin At(fs, a)
      BY <1>8, <2>2
    <3>. QED  BY <1>12, <1>13, <3>1
  <2>3. \A a \in DOMAIN m : Done(es, "dropped", a) <=> At(fs, a) = {}
    BY DEF FieldsAre
  <2>. QED  BY <1>2, <2>1, <2>2, <2>3
<1>16. ASSUME NEW k \in 1..(n - 1), NEW j \in 1..(n - 1), k # j, gs[k][1] = gs[j][1]
       PROVE  Done(all, "repeated", gs[k][1])
  BY <1>2, <1>4, <1>6, <1>10, <1>16
<1>17. ASSUME NEW a \in DOMAIN m, Done(all, "repeated", a)
       PROVE  \E k, j \in At(gs, a) : k # j
  <2>1. Done(es, "repeated", a) /\ a # name
    BY <1>2, <1>17
  <2>2. PICK k, j \in At(fs, a) : k # j
    BY <2>1 DEF FieldsAre
  <2>3. k # i /\ j # i
    BY <1>8, <2>1
  <2>. QED  BY <1>13, <2>2, <2>3
<1>. QED  BY <1>7, <1>11, <1>15, <1>16, <1>17 DEF FieldsAre, all

\* Fields gs are fs with the i-th replaced, by one edit, by another of its name.
Replaces(m, es, fs, gs, i, in, kind, name) ==
    /\ FieldsAre(m, es, fs) /\ Len(gs) = Len(fs) /\ i \in 1..Len(fs)
    /\ \A k \in 1..Len(fs) : k # i => gs[k] = fs[k]
    /\ gs[i][1] = fs[i][1] /\ ~Done(es, "repeated", fs[i][1])
    /\ FieldIs(m, es \cup {Edit(in, kind, name)}, gs[i])
    /\ in = "message" => name = fs[i][1] /\ kind \in {"retyped", "reworded"}
    /\ in = "root" => fs[i][1] = "roots"
    /\ in \in {"message", "root"}

\* A field replaced by another of the same name.
LEMMA Replaced ==
  ASSUME NEW m, NEW es, NEW fs, NEW gs, NEW i, NEW in, NEW kind, NEW name,
         Replaces(m, es, fs, gs, i, in, kind, name)
  PROVE  FieldsAre(m, es \cup {Edit(in, kind, name)}, gs)
<1>. DEFINE all == es \cup {Edit(in, kind, name)}
            N == 1..Len(fs)
            f == gs[i]
<1>0. /\ FieldsAre(m, es, fs) /\ Len(gs) = Len(fs) /\ i \in N
      /\ \A k \in N : k # i => gs[k] = fs[k]
      /\ f[1] = fs[i][1] /\ ~Done(es, "repeated", fs[i][1]) /\ FieldIs(m, all, f)
      /\ in = "message" => name = fs[i][1] /\ kind \in {"retyped", "reworded"}
      /\ in = "root" => fs[i][1] = "roots"
      /\ in \in {"message", "root"}
  BY DEF Replaces
<1>. USE <1>0
<1>1. /\ \A a : Done(all, "dropped", a) <=> Done(es, "dropped", a)
      /\ \A a : Done(all, "repeated", a) <=> Done(es, "repeated", a)
  <2>1. \A k, a : Done(all, k, a) <=> Done(es, k, a) \/ (in = "message" /\ k = kind /\ a = name)
    BY DoneNext
  <2>. HIDE DEF all
  <2>. QED  BY <2>1
<1>2. /\ \A k, j \in N : k # j /\ fs[k][1] = fs[j][1] => Done(es, "repeated", fs[k][1])
      /\ \A k \in N : FieldIs(m, es, fs[k])
  BY DEF FieldsAre
<1>3. \A k \in N : k # i => fs[k][1] # f[1]
  BY <1>2
<1>4. \A g : FieldIs(m, es, g) /\ g[1] # f[1] => FieldIs(m, all, g)
  BY FieldIsKept
<1>5. FieldIs(m, all, f) /\ f[1] = fs[i][1]
  OBVIOUS
<1>. HIDE DEF all
<1>6. \A k \in N : FieldIs(m, all, gs[k])
  BY <1>2, <1>3, <1>4, <1>5
<1>7. \A k \in N : gs[k][1] = fs[k][1]
  BY <1>5
<1>8. \A a : At(gs, a) = At(fs, a)
  BY <1>7 DEF At
<1>9. \A a \in DOMAIN m : Done(all, "dropped", a) <=> At(gs, a) = {}
  BY <1>1, <1>8 DEF FieldsAre
<1>10. \A k, j \in N : k # j /\ gs[k][1] = gs[j][1] => Done(all, "repeated", gs[k][1])
  BY <1>1, <1>2, <1>7
<1>11. \A a \in DOMAIN m : Done(all, "repeated", a) => \E k, j \in At(gs, a) : k # j
  BY <1>1, <1>8 DEF FieldsAre
<1>. QED  BY <1>6, <1>9, <1>10, <1>11 DEF FieldsAre, all

-----------------------------------------------------------------------------
(***************************************************************************)
(* How each form of a field is read.                                       *)
(***************************************************************************)

\* A message is read as a request or as a reply.
LEMMA KindFacts ==
  ASSUME NEW m \in Message
  PROVE  /\ KindOf(m) \in {"request", "reply"} /\ KindOf(m) \in MapKinds
         /\ "roots" \in DOMAIN m => KindOf(m) = "reply" /\ m.roots \in Seq(Root)
         /\ NewField \in Entry /\ Exact(KindOf(m), NewField)
         /\ ResOf(KindOf(m), NewField) = Got("skipped", <<>>)
<1>1. KindOf(m) \in {"request", "reply"}
  BY DEF KindOf
<1>2. ASSUME "roots" \in DOMAIN m
      PROVE  KindOf(m) = "reply" /\ m.roots \in Seq(Root)
  <2>1. "roots" \in KindFields(KindOf(m)) /\ m.roots \in Seq(Root)
    BY <1>2, MessageHolds
  <2>. QED  BY <1>1, <2>1 DEF KindFields, RequestFields
<1>3. KindOf(m) \in MapKinds /\ \E name : name \in KindFields(KindOf(m))
  BY <1>1 DEF MapKinds, KindFields, RequestFields, ReplyFields
<1>. QED  BY <1>1, <1>2, <1>3, StrangeReads

\* A field as it was written.
LEMMA PlainForm ==
  ASSUME NEW m \in Message, NEW es, NEW f, NEW name \in DOMAIN m, Plain(m, es, f, name)
  PROVE  /\ f \in Entry /\ Exact(KindOf(m), f) /\ f[1] = name
         /\ ResOf(KindOf(m), f) = Got(m[name], <<>>)
<1>1. f = <<name, Write(name, m[name])>> /\ f[1] = name
  BY DEF Plain
<1>. QED  BY <1>1, FieldWritten

\* A field whose value is of another type.
LEMMA RetypedForm ==
  ASSUME NEW m \in Message, NEW f, NEW name \in DOMAIN m, f = <<name, <<MapToken>>>>
  PROVE  /\ f \in Entry /\ Exact(KindOf(m), f) /\ f[1] = name
         /\ ResOf(KindOf(m), f) = Refused
<1>1. KindOf(m) \in MapKinds /\ name \in KindFields(KindOf(m))
  BY KindFacts, MessageHolds
<1>. QED  BY <1>1, StrangeReads

\* A field whose word is of a later version.
LEMMA RewordedForm ==
  ASSUME NEW m \in Message, NEW f, NEW name \in DOMAIN m, name \in Words,
         f = <<name, <<FutureWord>>>>
  PROVE  /\ f \in Entry /\ Exact(KindOf(m), f) /\ f[1] = name
         /\ ResOf(KindOf(m), f) = Got(ReadAs(name, "future"), <<>>)
         /\ name \in {"query", "kind", "health"}
<1>1. KindOf(m) \in {"request", "reply"} /\ KindOf(m) \in MapKinds
      /\ name \in KindFields(KindOf(m)) /\ name # "roots" /\ name \in StrNames
  BY KindFacts, MessageHolds DEF Words, StrNames
<1>2. name # "source"
  BY <1>1 DEF KindFields, RequestFields, ReplyFields, Counters
<1>3. Holds(name, "future")
  BY <1>1, VocabularyFacts DEF Holds, Words, BoolNames, NumberNames, OptionalNames, ListNames,
     Counters
<1>4. Scalar(name, "future") = <<FutureWord>>
  BY <1>1, ScalarForms, TypeFacts DEF FutureWord
<1>5. f = <<name, Scalar(name, "future")>> /\ f[1] = name
  BY <1>4
<1>. QED  BY <1>1, <1>2, <1>3, <1>5, WrittenReads DEF Words

\* Roots of which one field of the first differs.
LEMMA RootedForm ==
  ASSUME NEW m \in Message, NEW f, NEW kind, NEW i, RootEdit(m, kind, i),
         f = <<"roots", RootsWith(m.roots, kind, i)>>
  PROVE  /\ f \in Entry /\ Exact(KindOf(m), f) /\ f[1] = "roots" /\ kind \in EditKinds
         /\ ResOf(KindOf(m), f) = RootsAs(m.roots, kind, RootEditName(m, kind, i))
<1>1. /\ kind \in EditKinds /\ i \in 1..7 /\ m.roots # <<>>
      /\ Applies(RootFieldsOf(m.roots[1]), kind, i)
      /\ KindOf(m) = "reply" /\ m.roots \in Seq(Root)
  BY KindFacts DEF RootEdit
<1>2. f[1] = "roots"
  OBVIOUS
<1>. QED  BY <1>1, <1>2, EditedRootsRead DEF RootEditName

\* A field of any form is read the same whatever follows it.
LEMMA FieldIsExact ==
  ASSUME NEW m \in Message, NEW es, NEW f, FieldIs(m, es, f)
  PROVE  /\ f \in Entry /\ Exact(KindOf(m), f)
         /\ f = NewField \/ f[1] \in DOMAIN m
         /\ f = NewField => Done(es, "added", "future") /\ f[1] = "future"
                            /\ "future" \notin DOMAIN m
         /\ f[1] \in DOMAIN m => FieldOf(m, es, f, f[1])
<1>1. NewField[1] = "future" /\ "future" \notin DOMAIN m
  BY MessageHolds DEF NewField
<1>2. CASE f = NewField /\ Done(es, "added", "future")
  BY <1>1, <1>2, KindFacts
<1>3. ASSUME NEW name \in DOMAIN m, FieldOf(m, es, f, name)
      PROVE  f \in Entry /\ Exact(KindOf(m), f) /\ f[1] = name
  <2>1. CASE Plain(m, es, f, name)
    BY <2>1, PlainForm
  <2>2. CASE Retyped(es, f, name)
    BY <2>2, RetypedForm DEF Retyped
  <2>3. CASE Reworded(es, f, name)
    BY <2>3, RewordedForm DEF Reworded
  <2>4. CASE Rooted(m, es, f, name)
    BY <2>4, RootedForm DEF Rooted
  <2>. QED  BY <1>3, <2>1, <2>2, <2>3, <2>4 DEF FieldOf
<1>. QED  BY <1>1, <1>2, <1>3 DEF FieldIs

-----------------------------------------------------------------------------
(***************************************************************************)
(* The steps.                                                              *)
(***************************************************************************)

\* A name of which nothing has been edited.
Untouched(es, name) ==
    \A e \in es : ~(e.in = "message" /\ e.name = name) /\ ~(e.in = "root" /\ name = "roots")

\* Nothing has been done to it.
LEMMA UntouchedFacts ==
  ASSUME NEW es, NEW name, Untouched(es, name)
  PROVE  /\ \A kind : ~Done(es, kind, name)
         /\ \A d \in es : d.in = "message" => d.name # name
         /\ name = "roots" => \A d \in es : d.in # "root"
BY EditParts DEF Untouched, Done

\* The fields of a message, as this code writes them.
LEMMA FirstFields ==
  ASSUME NEW m \in Message
  PROVE  /\ FieldsOf(m) \in Seq(Entry) /\ Len(FieldsOf(m)) = Layout(m)[1]
         /\ FieldsAre(m, {}, FieldsOf(m)) /\ EditsAre(m, {})
<1>. DEFINE fs == FieldsOf(m)
            n == Layout(m)[1]
<1>1. /\ fs \in Seq(Entry) /\ Len(fs) = n
      /\ \A i \in 1..n :
            /\ LayoutName(m, i) \in DOMAIN m
            /\ fs[i] = <<LayoutName(m, i), Write(LayoutName(m, i), m[LayoutName(m, i)])>>
  BY MessageEntries
<1>2. /\ \A name \in DOMAIN m : \E i \in 1..n : LayoutName(m, i) = name
      /\ \A i, j \in 1..n : LayoutName(m, i) = LayoutName(m, j) => i = j
  BY LayoutFacts DEF IsLayout, LayoutName
<1>3. \A kind, name : ~Done({}, kind, name)
  BY DEF Done
<1>. HIDE DEF fs, n
<1>4. \A i \in 1..n : fs[i][1] = LayoutName(m, i)
  BY <1>1
<1>5. \A i \in 1..n : FieldIs(m, {}, fs[i])
  <2>1. ASSUME NEW i \in 1..n PROVE FieldIs(m, {}, fs[i])
    <3>1. Plain(m, {}, fs[i], LayoutName(m, i))
      BY <1>1, <1>3 DEF Plain
    <3>. QED  BY <1>1, <3>1 DEF FieldIs, FieldOf
  <2>. QED  BY <2>1
<1>6. \A name \in DOMAIN m : At(fs, name) # {}
  BY <1>1, <1>2, <1>4 DEF At
<1>7. \A i, j \in 1..n : fs[i][1] = fs[j][1] => i = j
  BY <1>2, <1>4
<1>8. FieldsAre(m, {}, fs)
  BY <1>1, <1>3, <1>5, <1>6, <1>7 DEF FieldsAre
<1>. QED  BY <1>1, <1>8 DEF EditsAre, fs, n

\* One edit of a field of the message.
LEMMA EditedFieldsAre ==
  ASSUME NEW m \in Message, NEW es, NEW fs \in Seq(Entry), FieldsAre(m, es, fs), EditsAre(m, es),
         NEW kind \in EditKinds, NEW i \in 1..Len(fs), Applies(fs, kind, i),
         Untouched(es, EditedName(fs, kind, i))
  PROVE  LET gs == EditedFields(fs, kind, i)
             all == es \cup {Edit("message", kind, EditedName(fs, kind, i))}
         IN  /\ gs \in Seq(Entry) /\ Len(gs) = Len(fs) + EditedCount(kind)
             /\ FieldsAre(m, all, gs) /\ EditsAre(m, all)
<1>. DEFINE gs == EditedFields(fs, kind, i)
            name == EditedName(fs, kind, i)
            e == Edit("message", kind, name)
            all == es \cup {e}
            n == Len(fs)
<1>1. /\ FieldIs(m, es, fs[i]) /\ fs[i] \in Entry /\ fs[i][1] \in Texts /\ n \in Nat
      /\ i \in 1..n
  BY DEF FieldsAre, Entry
<1>2. /\ NewField \in Entry /\ <<fs[i][1], <<MapToken>>>> \in Entry
      /\ <<fs[i][1], <<FutureWord>>>> \in Entry
  <2>1. MapToken \in Token /\ FutureWord \in Token
    BY TokenTypes, VocabularyFacts DEF MapToken, FutureWord
  <2>2. <<MapToken>> \in Tokens /\ <<FutureWord>> \in Tokens
    BY <2>1, OneToken
  <2>. QED  BY <1>1, <2>2, KindFacts DEF Entry
<1>3. /\ gs \in Seq(Entry) /\ Len(gs) = n + EditedCount(kind)
      /\ kind = "added" => gs[n + 1] = NewField /\ \A j \in 1..n : gs[j] = fs[j]
      /\ kind = "repeated" => gs[n + 1] = fs[i] /\ \A j \in 1..n : gs[j] = fs[j]
      /\ kind = "dropped" =>
            \A j \in 1..(n - 1) : gs[j] = IF j < i THEN fs[j] ELSE fs[j + 1]
      /\ kind = "retyped" =>
            \A j \in 1..n : gs[j] = IF j = i THEN <<fs[i][1], <<MapToken>>>> ELSE fs[j]
      /\ kind = "reworded" =>
            \A j \in 1..n : gs[j] = IF j = i THEN <<fs[i][1], <<FutureWord>>>> ELSE fs[j]
  <2>1. EditedAs(gs, fs, kind, i)
    BY <1>2, EditFacts
  <2>. HIDE DEF gs
  <2>. QED  BY <2>1 DEF EditedAs
<1>4. /\ name = IF kind = "added" THEN "future" ELSE fs[i][1]
      /\ kind = "reworded" => fs[i][1] \in Words
      /\ EditedCount("added") = 1 /\ EditedCount("repeated") = 1 /\ EditedCount("dropped") = -1
      /\ EditedCount("retyped") = 0 /\ EditedCount("reworded") = 0
  BY DEF EditedName, Applies, EditedCount
<1>5. /\ \A k : ~Done(es, k, name)
      /\ \A d \in es : d.in = "message" => d.name # name
      /\ name = "roots" => \A d \in es : d.in # "root"
  BY UntouchedFacts
<1>6. e.in = "message" /\ e.name = name /\ Done(all, kind, name)
  BY EditParts DEF Done
<1>7. "future" \notin DOMAIN m
  BY MessageHolds
<1>. HIDE DEF gs, name, n
\* The new field is not edited again.
<1>8. kind # "added" => name \in DOMAIN m /\ name = fs[i][1]
  BY <1>1, <1>4, <1>5, FieldIsExact
<1>9. IsEdit(m, e)
  BY <1>4, <1>8 DEF IsEdit
<1>. HIDE DEF e
<1>10. EditsAre(m, all)
  <2>1. e.in = "message" /\ e.in # "root" /\ e.in # "frame"
    BY <1>6
  <2>. QED  BY <1>5, <1>6, <1>9, <2>1, OneMoreEdit
<1>11. FieldsAre(m, all, gs)
  <2>1. CASE kind = "added"
    <3>1. Len(gs) = n + 1
      BY <1>3, <1>4, <2>1
    <3>2. At(fs, name) = {}
      <4>1. ASSUME NEW k \in At(fs, name) PROVE FALSE
        <5>1. k \in 1..Len(fs) /\ fs[k][1] = "future"
          BY <1>4, <2>1, AtFacts
        <5>2. FieldIs(m, es, fs[k])
          BY <5>1 DEF FieldsAre
        <5>. QED  BY <1>4, <1>5, <1>7, <2>1, <5>1, <5>2, FieldIsExact
      <4>. QED  BY <4>1
    <3>3. NewField[1] = name
      BY <1>4, <2>1 DEF NewField
    <3>. QED  BY <1>3, <1>4, <1>7, <2>1, <3>1, <3>2, <3>3, Appended DEF n, e
  <2>2. CASE kind = "repeated"
    <3>1. Len(gs) = n + 1
      BY <1>3, <1>4, <2>2
    <3>. QED  BY <1>1, <1>3, <1>8, <2>2, <3>1, Appended DEF n, e
  <2>3. CASE kind = "dropped"
    <3>1. Len(gs) = n - 1
      BY <1>1, <1>3, <1>4, <2>3
    <3>. QED  BY <1>1, <1>3, <1>5, <1>8, <2>3, <3>1, LeftOut DEF n, e
  <2>4. ASSUME kind \in {"retyped", "reworded"}, NEW f,
               \A j \in 1..n : gs[j] = IF j = i THEN f ELSE fs[j],
               f[1] = fs[i][1], FieldOf(m, all, f, name)
        PROVE  FieldsAre(m, all, gs)
    <3>1. Len(gs) = n
      BY <1>1, <1>3, <1>4, <2>4
    <3>2. name \in DOMAIN m /\ f[1] = name
      BY <1>8, <2>4
    <3>3. FieldIs(m, all, f)
      BY <2>4, <3>2 DEF FieldIs
    <3>. HIDE DEF all
    <3>4. /\ all = es \cup {Edit("message", kind, name)} /\ "message" \in {"message", "root"}
          /\ "message" # "root"
      BY DEF all, e
    <3>5. gs[i] = f /\ \A j \in 1..n : j # i => gs[j] = fs[j]
      BY <1>1, <2>4
    <3>6. FieldIs(m, es \cup {Edit("message", kind, name)}, gs[i])
      BY <3>3, <3>4, <3>5
    <3>7. ~Done(es, "repeated", fs[i][1]) /\ gs[i][1] = fs[i][1] /\ name = fs[i][1]
      BY <1>5, <2>4, <3>2, <3>5
    <3>8. FieldsAre(m, es \cup {Edit("message", kind, name)}, gs)
      <4>1. Len(gs) = Len(fs) /\ (\A j \in 1..Len(fs) : j # i => gs[j] = fs[j])
            /\ kind \in {"retyped", "reworded"}
        BY <2>4, <3>1, <3>5 DEF n
      <4>2. PICK in : in = "message"
        OBVIOUS
      <4>3. in # "root" /\ in \in {"message", "root"}
            /\ FieldIs(m, es \cup {Edit(in, kind, name)}, gs[i])
        BY <3>4, <3>6, <4>2
      <4>4. FieldsAre(m, es \cup {Edit(in, kind, name)}, gs)
        <5>1. /\ in = "message" => name = fs[i][1] /\ kind \in {"retyped", "reworded"}
              /\ in = "root" => fs[i][1] = "roots"
          BY <3>7, <4>1, <4>3
        <5>2. ~Done(es, "repeated", fs[i][1]) /\ gs[i][1] = fs[i][1]
          BY <3>7
        <5>. HIDE <4>2
        <5>3. Replaces(m, es, fs, gs, i, in, kind, name)
          BY <4>1, <4>3, <5>1, <5>2 DEF Replaces
        <5>. QED  BY <5>3, Replaced
      <4>. QED  BY <4>2, <4>4
    <3>. QED  BY <3>4, <3>8
  <2>5. CASE kind = "retyped"
    <3>1. Retyped(all, <<fs[i][1], <<MapToken>>>>, name)
      BY <1>6, <1>8, <2>5 DEF Retyped
    <3>2. FieldOf(m, all, <<fs[i][1], <<MapToken>>>>, name)
      BY <3>1 DEF FieldOf
    <3>. HIDE DEF all
    <3>. QED  BY <1>3, <2>4, <2>5, <3>2
  <2>6. CASE kind = "reworded"
    <3>1. Reworded(all, <<fs[i][1], <<FutureWord>>>>, name)
      BY <1>4, <1>6, <1>8, <2>6 DEF Reworded
    <3>2. FieldOf(m, all, <<fs[i][1], <<FutureWord>>>>, name)
      BY <3>1 DEF FieldOf
    <3>. HIDE DEF all
    <3>. QED  BY <1>3, <2>4, <2>6, <3>2
  <2>. QED  BY <2>1, <2>2, <2>3, <2>5, <2>6 DEF EditKinds
<1>. QED  BY <1>3, <1>10, <1>11 DEF gs, name, n, e

\* One edit of a field of the first root.
LEMMA EditedRootsAre ==
  ASSUME NEW m \in Message, NEW es, NEW fs \in Seq(Entry), FieldsAre(m, es, fs), EditsAre(m, es),
         NEW k \in 1..Len(fs), NEW kind, NEW i, RootEdit(m, kind, i), fs[k][1] = "roots",
         Untouched(es, "roots")
  PROVE  LET gs == ReplaceAt(fs, k, <<"roots", RootsWith(m.roots, kind, i)>>)
             all == es \cup {Edit("root", kind, RootEditName(m, kind, i))}
         IN  /\ gs \in Seq(Entry) /\ Len(gs) = Len(fs)
             /\ FieldsAre(m, all, gs) /\ EditsAre(m, all)
<1>. DEFINE f == <<"roots", RootsWith(m.roots, kind, i)>>
            gs == ReplaceAt(fs, k, f)
            name == RootEditName(m, kind, i)
            e == Edit("root", kind, name)
            all == es \cup {e}
            n == Len(fs)
<1>1. f \in Entry /\ f[1] = "roots" /\ kind \in EditKinds
  BY RootedForm
<1>2. kind \in EditKinds /\ i \in 1..7 /\ "roots" \in DOMAIN m
  BY DEF RootEdit
<1>3. FieldIs(m, all, f)
  <2>1. Rooted(m, all, f, "roots")
    BY <1>2 DEF Rooted
  <2>. QED  BY <1>2, <2>1 DEF FieldIs, FieldOf
<1>4. IsEdit(m, e)
  BY <1>2 DEF IsEdit
<1>5. e.in = "root"
  BY EditParts
<1>. HIDE DEF f, name
<1>6. /\ gs \in Seq(Entry) /\ Len(gs) = n
      /\ \A j \in 1..n : gs[j] = IF j = k THEN f ELSE fs[j]
  BY <1>1 DEF ReplaceAt
<1>. HIDE DEF gs, e
<1>7. EditsAre(m, all)
  <2>1. e.in # "message" /\ e.in # "frame"
    BY <1>5
  <2>2. \A d \in es : d.in # "root" /\ (d.in = "message" => d.name # "roots")
    BY UntouchedFacts
  <2>. QED  BY <1>4, <1>5, <2>1, <2>2, OneMoreEdit
<1>8. ~Done(es, "repeated", "roots")
  BY UntouchedFacts
<1>. HIDE DEF all
<1>10. /\ FieldIs(m, es \cup {Edit("root", kind, name)}, gs[k]) /\ gs[k][1] = fs[k][1]
       /\ ~Done(es, "repeated", fs[k][1]) /\ \A j \in 1..n : j # k => gs[j] = fs[j]
  BY <1>1, <1>3, <1>6, <1>8 DEF all, e, n
<1>11. FieldsAre(m, es \cup {Edit("root", kind, name)}, gs)
  <2>1. "root" # "message" /\ "root" \in {"message", "root"}
    OBVIOUS
  <2>2. Replaces(m, es, fs, gs, k, "root", kind, name)
    BY <1>6, <1>10, <2>1 DEF Replaces, n
  <2>. QED  BY <2>2, Replaced
<1>9. FieldsAre(m, all, gs)
  BY <1>11 DEF all, e
<1>. QED  BY <1>6, <1>7, <1>9 DEF gs, e, all, f, name, n

\* The name of an edit that is of no field.
LEMMA NoNameFacts == NoName # "roots" /\ NoName # "future"
BY Zenon DEF NoName

\* Two fields the other way round.
Swapped(fs, i, j) == [fs EXCEPT ![i] = fs[j], ![j] = fs[i]]

\* They are the same fields.
LEMMA SwappedFieldsAre ==
  ASSUME NEW m \in Message, NEW es, NEW fs \in Seq(Entry), FieldsAre(m, es, fs), EditsAre(m, es),
         NEW i \in 1..Len(fs), NEW j \in 1..Len(fs), \A e \in es : e.kind # "reordered"
  PROVE  LET all == es \cup {Edit("message", "reordered", NoName)}
             gs == Swapped(fs, i, j)
         IN  /\ gs \in Seq(Entry) /\ Len(gs) = Len(fs)
             /\ FieldsAre(m, all, gs) /\ EditsAre(m, all)
<1>. DEFINE all == es \cup {Edit("message", "reordered", NoName)}
            gs == Swapped(fs, i, j)
            n == Len(fs)
            s == [k \in 1..n |-> IF k = i THEN j ELSE IF k = j THEN i ELSE k]
<1>1. gs \in Seq(Entry) /\ Len(gs) = n
  BY DEF Swapped
<1>2. s \in [1..n -> 1..n] /\ (\A k \in 1..n : s[s[k]] = k)
      /\ \A k \in 1..n : gs[k] = fs[s[k]]
  BY DEF Swapped
<1>. HIDE DEF gs
<1>3. PICK e : e = Edit("message", "reordered", NoName) /\ all = es \cup {e}
  OBVIOUS
<1>9. e.in = "message" /\ e.name = NoName /\ e.kind = "reordered"
  BY <1>3 DEF Edit
<1>. HIDE DEF s
<1>4. FieldsAre(m, all, gs)
  <2>1. "reordered" \notin EditKinds
    BY DEF EditKinds
  <2>2. FieldsAre(m, es \cup {Edit("message", "reordered", NoName)}, gs)
    BY <1>1, <1>2, <2>1, Rearranged
  <2>. QED  BY <2>2
<1>5. IsEdit(m, e)
  BY <1>3 DEF IsEdit
<1>6. \A d \in es : d.in = "message" => d.name # NoName
  <2>1. ASSUME NEW d \in es, d.in = "message" PROVE d.name # NoName
    <3>1. IsEdit(m, d)
      BY DEF EditsAre
    <3>2. d # e /\ d # Edit("message", "reordered", NoName)
      BY <1>3, <1>9
    <3>3. "message" # "root" /\ "message" # "frame" /\ "future" # NoName
      BY NoNameFacts
    <3>4. \A name \in DOMAIN m : name # NoName
      BY MessageHolds, Zenon DEF NoName
    <3>5. CASE d = Edit("message", "added", "future")
      BY <3>3, <3>5, EditParts
    <3>6. ASSUME NEW kind \in EditKinds, NEW name \in DOMAIN m, d = Edit("message", kind, name)
          PROVE  d.name # NoName
      BY <3>4, <3>6, EditParts
    <3>7. ASSUME NEW in, NEW kind, NEW name, d = Edit(in, kind, name), in # "message"
          PROVE  FALSE
      BY <2>1, <3>7, EditParts
    <3>. QED  BY <1>3, <3>1, <3>2, <3>3, <3>5, <3>6, <3>7 DEF IsEdit
  <2>. QED  BY <2>1
<1>7. NoName # "roots" /\ e.in # "root" /\ e.in # "frame"
  BY <1>9, NoNameFacts
<1>8. EditsAre(m, es \cup {e})
  BY <1>5, <1>6, <1>7, <1>9, OneMoreEdit
<1>. QED  BY <1>1, <1>3, <1>4, <1>8 DEF gs

\* A frame that ends early, or goes on.
LEMMA FramedFieldsAre ==
  ASSUME NEW m, NEW es, NEW fs, FieldsAre(m, es, fs), EditsAre(m, es), Unframed(es),
         NEW kind \in {"cut", "continued"}, NEW all, all = es \cup {Edit("frame", kind, NoName)}
  PROVE  /\ FieldsAre(m, all, fs) /\ EditsAre(m, all)
         /\ \A k \in {"cut", "continued"} : Edit("frame", k, NoName) \in all => k = kind
<1>1. PICK in : in = "frame" /\ all = es \cup {Edit(in, kind, NoName)}
  OBVIOUS
<1>2. \A k : /\ Edit(in, k, NoName).in = in /\ Edit(in, k, NoName).kind = k /\ Edit(in, k, NoName).name = NoName
  BY EditParts
<1>3. in # "message" /\ in # "root"
  BY <1>1
<1>. DEFINE e == Edit(in, kind, NoName)
<1>4. \A k, a : Done(es \cup {e}, k, a) <=> Done(es, k, a)
  BY <1>3, DoneNext
<1>5. \A g : FieldIs(m, es, g) => FieldIs(m, es \cup {e}, g)
  BY <1>3, FieldIsKept
<1>6. IsEdit(m, e)
  BY <1>1 DEF IsEdit
<1>7. \A d \in es : d.in # in
  BY <1>1 DEF Unframed
<1>8. \A k : Edit(in, k, NoName) \in es \cup {e} => k = kind
  BY <1>2, <1>7
<1>9. e.in = in
  BY <1>2
<1>. HIDE DEF e
<1>10. EditsAre(m, es \cup {e})
  BY <1>3, <1>6, <1>7, <1>9, OneMoreEdit
<1>11. FieldsAre(m, es \cup {e}, fs)
  BY <1>4, <1>5 DEF FieldsAre
<1>. QED  BY <1>1, <1>8, <1>10, <1>11 DEF e

\* What is sent is a sequence of tokens.
LEMMA WholeType ==
  ASSUME NEW m \in Message, NEW es, NEW fs \in Seq(Entry), FieldsAre(m, es, fs)
  PROVE  WriteMap(Len(fs), fs) \in Tokens /\ \A i \in 1..Len(fs) : Exact(KindOf(m), fs[i])
<1>1. \A i \in 1..Len(fs) : Exact(KindOf(m), fs[i])
  BY FieldIsExact DEF FieldsAre
<1>2. <<>> \in Tokens
  BY DEF Tokens
<1>. QED  BY <1>1, <1>2, KindFacts, MapRead

\* The initial states.
LEMMA InitInv == Init => WireInv
<1>. SUFFICES ASSUME Init PROVE WireInv
  OBVIOUS
<1>1. message \in Message /\ message \in Requests \cup Replies
  BY WireAssumption DEF Init, Message
<1>2. /\ fields \in Seq(Entry) /\ count = Len(fields) /\ edits = {}
      /\ FieldsAre(message, edits, fields) /\ EditsAre(message, edits)
  BY <1>1, FirstFields DEF Init
<1>3. FrameInv
  BY DEF Init, FrameInv, Unframed
<1>. QED  BY <1>1, <1>2, <1>3 DEF WireInv

\* A step before the frame is sent.
LEMMA WritingStep ==
  ASSUME WireInv, phase = "writing", phase' = "writing", NEW e, edits' = edits \cup {e},
         e.in # "frame"
  PROVE  FrameInv'
<1>1. Unframed(edits')
  BY DEF WireInv, FrameInv, Unframed
<1>2. phase' = "writing"
  OBVIOUS
<1>. QED  BY <1>1, <1>2 DEF FrameInv

\* Every step keeps the invariant.
LEMMA StepInv == WireInv /\ [Next]_vars => WireInv'
<1>. SUFFICES ASSUME WireInv, [Next]_vars PROVE WireInv'
  OBVIOUS
<1>1. /\ message \in Message /\ message \in Requests \cup Replies /\ fields \in Seq(Entry)
      /\ count = Len(fields) /\ FieldsAre(message, edits, fields) /\ EditsAre(message, edits)
      /\ MaxMessage \in Nat
  BY WireAssumption DEF WireInv, Message
<1>2. message' = message
  BY DEF Next, vars, Reorder, EditField, EditRoot, Send, Cut, Receive, Finished
<1>3. ASSUME fields' \in Seq(Entry), count' = Len(fields'),
             FieldsAre(message, edits', fields'), EditsAre(message, edits'), FrameInv'
      PROVE  WireInv'
  BY <1>1, <1>2, <1>3 DEF WireInv
<1>4. CASE Reorder
  <2>1. PICK i, j \in DOMAIN fields :
           fields' = [fields EXCEPT ![i] = fields[j], ![j] = fields[i]]
    BY <1>4 DEF Reorder
  <2>2. /\ edits' = edits \cup {Edit("message", "reordered", NoName)} /\ phase = "writing"
        /\ phase' = "writing" /\ count' = count /\ \A e \in edits : e.kind # "reordered"
    BY <1>4 DEF Reorder, Note, Edit, Writing
  <2>6. i \in 1..Len(fields) /\ j \in 1..Len(fields)
    BY <1>1
  <2>3. /\ fields' \in Seq(Entry) /\ Len(fields') = Len(fields)
        /\ FieldsAre(message, edits', fields') /\ EditsAre(message, edits')
    <3>1. fields' = Swapped(fields, i, j)
      BY <2>1 DEF Swapped
    <3>. QED  BY <1>1, <2>2, <2>6, <3>1, SwappedFieldsAre
  <2>4. Edit("message", "reordered", NoName).in # "frame"
    BY DEF Edit
  <2>5. FrameInv'
    BY <2>2, <2>4, WritingStep
  <2>. QED  BY <1>1, <1>3, <2>2, <2>3, <2>5
<1>5. CASE EditField
  <2>1. PICK kind \in EditKinds, i \in DOMAIN fields :
           /\ Applies(fields, kind, i) /\ ~Edited(EditedName(fields, kind, i))
           /\ fields' = EditedFields(fields, kind, i)
           /\ count' = count + EditedCount(kind)
           /\ Note("message", kind, EditedName(fields, kind, i))
    BY <1>5 DEF EditField
  <2>. DEFINE name == EditedName(fields, kind, i)
              e == Edit("message", kind, name)
  <2>2. edits' = edits \cup {e} /\ phase = "writing" /\ phase' = "writing"
    BY <1>5, <2>1 DEF EditField, Note, Edit, Writing
  <2>3. Untouched(edits, name)
    BY <2>1 DEF Edited, Untouched
  <2>4. i \in 1..Len(fields)
    BY <1>1
  <2>5. /\ fields' \in Seq(Entry) /\ Len(fields') = Len(fields) + EditedCount(kind)
        /\ FieldsAre(message, edits', fields') /\ EditsAre(message, edits')
    BY <1>1, <2>1, <2>2, <2>3, <2>4, EditedFieldsAre
  <2>6. e.in # "frame"
    BY DEF Edit
  <2>. HIDE DEF e
  <2>7. FrameInv'
    BY <2>2, <2>6, WritingStep
  <2>. QED  BY <1>1, <1>3, <2>1, <2>5, <2>7
<1>6. CASE EditRoot
  <2>1. PICK k \in DOMAIN fields, kind \in EditKinds, i \in 1..7 :
          LET root == RootFieldsOf(message.roots[1])
              first == WriteMap(RootLayout[1] + EditedCount(kind), EditedFields(root, kind, i))
          IN  /\ fields[k][1] = "roots" /\ ~Edited("roots") /\ message.roots # <<>>
              /\ Applies(root, kind, i)
              /\ fields' = ReplaceAt(fields, k, <<"roots", WriteRoots(
                              [r \in DOMAIN message.roots |->
                                  IF r = 1 THEN first ELSE WriteRoot(message.roots[r])])>>)
              /\ Note("root", kind, EditedName(root, kind, i))
    BY <1>6 DEF EditRoot
  <2>. DEFINE name == RootEditName(message, kind, i)
              e == Edit("root", kind, name)
  <2>2. RootEdit(message, kind, i)
    BY <1>6, <2>1 DEF EditRoot, RootEdit
  <2>3. /\ edits' = edits \cup {e} /\ phase = "writing" /\ phase' = "writing" /\ count' = count
    BY <1>6, <2>1 DEF EditRoot, Note, Edit, Writing, RootEditName
  <2>4. fields' = ReplaceAt(fields, k, <<"roots", RootsWith(message.roots, kind, i)>>)
    BY <2>1 DEF RootsWith, EditedRoot
  <2>5. Untouched(edits, "roots") /\ k \in 1..Len(fields) /\ fields[k][1] = "roots"
    BY <1>1, <2>1 DEF Edited, Untouched
  <2>6. /\ fields' \in Seq(Entry) /\ Len(fields') = Len(fields)
        /\ FieldsAre(message, edits', fields') /\ EditsAre(message, edits')
    <3>. DEFINE gs == ReplaceAt(fields, k, <<"roots", RootsWith(message.roots, kind, i)>>)
    <3>1. /\ gs \in Seq(Entry) /\ Len(gs) = Len(fields)
          /\ FieldsAre(message, edits \cup {Edit("root", kind, RootEditName(message, kind, i))}, gs)
          /\ EditsAre(message, edits \cup {Edit("root", kind, RootEditName(message, kind, i))})
      BY <1>1, <2>2, <2>5, EditedRootsAre
    <3>. HIDE DEF gs
    <3>2. edits' = edits \cup {Edit("root", kind, RootEditName(message, kind, i))}
      BY <2>3
    <3>3. fields' = gs
      BY <2>4 DEF gs
    <3>. QED  BY <3>1, <3>2, <3>3
  <2>7. e.in # "frame"
    BY DEF Edit
  <2>. HIDE DEF e
  <2>8. FrameInv'
    BY <2>3, <2>7, WritingStep
  <2>. QED  BY <1>1, <1>3, <2>3, <2>6, <2>8
<1>7. CASE Send
  <2>1. /\ phase = "writing" /\ payload' = Whole /\ edits' = edits /\ fields' = fields
        /\ count' = count
        /\ phase' = IF IsRequest /\ Size(payload') > MaxMessage THEN "unsent" ELSE "sent"
    BY <1>7 DEF Send, Whole
  <2>2. Unframed(edits)
    BY <2>1 DEF WireInv, FrameInv
  <2>3. Whole' = Whole /\ IsRequest' = IsRequest /\ phase' \in {"sent", "unsent"}
    BY <1>2, <2>1 DEF Whole, IsRequest
  <2>4. \A k : Edit("frame", k, NoName) \notin edits
    BY <2>2 DEF Unframed, Edit
  <2>5. Size(payload') \in Nat
    BY <1>1, <2>1, WholeType, SizeFacts DEF Whole
  <2>6. phase' = "sent" /\ IsRequest => Size(payload') <= MaxMessage
    BY <1>1, <2>1, <2>5
  <2>7. FrameInv'
    BY <2>1, <2>2, <2>3, <2>4, <2>6 DEF FrameInv, Fits
  <2>. QED  BY <1>1, <1>3, <2>1, <2>7
<1>8. CASE Cut
  <2>1. PICK kind \in {"cut", "continued"} :
           /\ edits' = edits \cup {Edit("frame", kind, NoName)}
           /\ kind = "cut" => \E n \in 0..Len(payload) - 1 : payload' = SubSeq(payload, 1, n)
           /\ kind = "continued" => payload' = Append(payload, Nil)
    BY <1>8 DEF Cut, Note, Edit
  <2>2. /\ phase = "sent" /\ phase' = "sent" /\ Unframed(edits) /\ fields' = fields
        /\ count' = count
    BY <1>8 DEF Cut, Unframed
  <2>3. payload = Whole /\ Whole' = Whole
    BY <2>2 DEF WireInv, FrameInv, Whole
  <2>4. /\ FieldsAre(message, edits', fields') /\ EditsAre(message, edits')
        /\ \A k \in {"cut", "continued"} : Edit("frame", k, NoName) \in edits' => k = kind
    BY <1>1, <2>1, <2>2, FramedFieldsAre
  <2>5. Edit("frame", kind, NoName).in = "frame" /\ Edit("frame", kind, NoName) \in edits'
    BY <2>1 DEF Edit
  <2>6. edits' # {} /\ ~Unframed(edits')
    BY <2>5 DEF Unframed
  <2>7. FrameInv'
    BY <2>1, <2>2, <2>3, <2>4, <2>6 DEF FrameInv
  <2>. QED  BY <1>1, <1>3, <2>2, <2>4, <2>7
<1>9. CASE Receive
  <2>1. /\ phase = "sent" /\ phase' = "received" /\ payload' = payload /\ edits' = edits
        /\ fields' = fields /\ count' = count
        /\ outcome' = IF Accepts(Size(payload)) THEN Decoded(payload) ELSE Refused
    BY <1>9 DEF Receive
  <2>2. /\ Whole' = Whole /\ IsRequest' = IsRequest /\ Fits' = Fits
        /\ Accepts(Size(payload))' = Accepts(Size(payload))
        /\ Decoded(payload)' = Decoded(payload)
    BY <1>2, <2>1 DEF Whole, IsRequest, Fits, Accepts, Decoded
  <2>3. FrameInv'
    BY <2>1, <2>2 DEF WireInv, FrameInv, Unframed
  <2>. QED  BY <1>1, <1>3, <2>1, <2>3
<1>10. CASE UNCHANGED vars
  <2>1. FrameInv'
    BY <1>10 DEF WireInv, FrameInv, Unframed, vars, Whole, IsRequest, Fits, Accepts, Decoded
  <2>. QED  BY <1>1, <1>3, <1>10, <2>1 DEF vars
<1>. QED  BY <1>4, <1>5, <1>6, <1>7, <1>8, <1>9, <1>10 DEF Next, Finished

\* The fields that are sent, and how they are framed, follow from the message
\* and from what is different about the peer's encoding, in every state: what
\* the theorems below are read off.
THEOREM FieldsFollowFromTheMessage == Spec => []WireInv
<1>. QED  BY InitInv, StepInv, PTL DEF Spec

-----------------------------------------------------------------------------
(***************************************************************************)
(* What the receiver makes of it.                                          *)
(***************************************************************************)

\* The message there is in the fields of a map.
MessageFrom(kind, got) == IF kind = "request" THEN RequestOf(got) ELSE ReplyOf(got)

\* A message is what its map's fields come to.
LEMMA DecodedIs ==
  ASSUME NEW tokens \in Tokens
  PROVE  /\ MapOf(KindOf(message), tokens).ok =>
               Decoded(tokens) = MessageFrom(KindOf(message), MapOf(KindOf(message), tokens).value)
         /\ ~MapOf(KindOf(message), tokens).ok => Decoded(tokens) = Refused
<1>1. CASE IsRequest
  <2>1. KindOf(message) = "request"
    BY <1>1 DEF KindOf, IsRequest
  <2>2. EachField(tokens, RequestValue) = MapOf("request", tokens)
    BY MapIsLoop
  <2>. QED  BY <1>1, <2>1, <2>2 DEF Decoded, DecodeRequest, MessageFrom
<1>2. CASE ~IsRequest
  <2>1. KindOf(message) = "reply"
    BY <1>2 DEF KindOf, IsRequest
  <2>2. EachField(tokens, ReplyValue) = MapOf("reply", tokens)
    BY MapIsLoop
  <2>. QED  BY <1>2, <2>1, <2>2 DEF Decoded, DecodeReply, MessageFrom
<1>. QED  BY <1>1, <1>2

\* What is sent is read field by field, whatever follows it.
LEMMA WholeIsRead ==
  ASSUME NEW m \in Message, NEW es, NEW fs \in Seq(Entry), FieldsAre(m, es, fs),
         NEW rest \in Tokens
  PROVE  /\ WriteMap(Len(fs), fs) \in Tokens
         /\ MapOf(KindOf(m), WriteMap(Len(fs), fs) \o rest) =
               IF AllRead(KindOf(m), fs) THEN Got(ValuesOf(KindOf(m), fs), rest) ELSE Refused
BY KindFacts, WholeType, MapRead

\* Nothing is read of less than what is sent.
LEMMA CutIsRefused ==
  ASSUME NEW m \in Message, NEW es, NEW fs \in Seq(Entry), FieldsAre(m, es, fs),
         NEW n \in 0..Len(WriteMap(Len(fs), fs)) - 1
  PROVE  /\ SubSeq(WriteMap(Len(fs), fs), 1, n) \in Tokens
         /\ ~MapOf(KindOf(m), SubSeq(WriteMap(Len(fs), fs), 1, n)).ok
<1>. DEFINE whole == WriteMap(Len(fs), fs)
            p == SubSeq(whole, 1, n)
            q == SubSeq(whole, n + 1, Len(whole))
            kind == KindOf(m)
<1>1. <<>> \in Tokens
  BY DEF Tokens
<1>2. /\ whole \in Tokens
      /\ MapOf(kind, whole \o <<>>) = IF AllRead(kind, fs) THEN Got(ValuesOf(kind, fs), <<>>)
                                                           ELSE Refused
  BY <1>1, WholeIsRead
<1>. HIDE DEF whole
<1>3. /\ p \in Tokens /\ q \in Tokens /\ p \o q = whole /\ whole \o <<>> = whole
      /\ Len(q) = Len(whole) - n /\ Len(whole) - n > 0
  <2>1. Len(whole) \in Nat /\ n \in 0..Len(whole) - 1 /\ whole \in Seq(Token)
    BY <1>2 DEF whole, Tokens
  <2>2. p \in Seq(Token) /\ q \in Seq(Token) /\ Len(q) = Len(whole) - n
    BY <2>1
  <2>3. n \in Nat /\ n <= Len(whole) /\ Len(whole) <= Len(whole) /\ Len(whole) - n > 0
    BY <2>1
  <2>4. SubSeq(whole, 1, Len(whole)) = whole /\ whole \o <<>> = whole
    BY <2>1
  <2>5. p \o q = SubSeq(whole, 1, Len(whole))
    BY <2>1, <2>3, SlicesJoin
  <2>. QED  BY <2>2, <2>3, <2>4, <2>5 DEF Tokens
<1>4. ASSUME MapOf(kind, p).ok PROVE FALSE
  <2>1. StepExtends(kind)
    BY KindFacts, ReadersExtend
  <2>. HIDE DEF p, q, kind
  <2>2. Extends(MapOf(kind, p), MapOf(kind, p \o q), q)
    BY <1>3, <2>1, MapExtends
  <2>3. /\ MapOf(kind, whole) = Got(MapOf(kind, p).value, MapOf(kind, p).rest \o q)
        /\ MapOf(kind, p).rest \in Tokens
    BY <1>3, <1>4, <2>2 DEF Extends, Further
  <2>4. MapOf(kind, whole).ok /\ MapOf(kind, whole).rest = MapOf(kind, p).rest \o q
    BY <2>3 DEF Got
  <2>5. MapOf(kind, whole).rest = <<>>
    <3>. DEFINE r == MapOf(kind, whole)
                done == Got(ValuesOf(kind, fs), <<>>)
    <3>1. r = done \/ r = Refused
      BY <1>2, <1>3
    <3>2. done.rest = <<>> /\ ~Refused.ok
      BY GotFacts
    <3>. HIDE DEF r, done
    <3>3. r.ok
      BY <2>4 DEF r
    <3>4. r.rest = <<>>
      BY <3>1, <3>2, <3>3
    <3>. QED  BY <3>4 DEF r
  <2>6. Len(MapOf(kind, p).rest \o q) = Len(MapOf(kind, p).rest) + Len(q)
        /\ Len(MapOf(kind, p).rest) \in Nat
    BY <1>3, <2>3, ConcatFacts DEF Tokens
  <2>. QED  BY <1>3, <2>4, <2>5, <2>6
<1>. QED  BY <1>3, <1>4 DEF whole

\* What an edit may be.
LEMMA EditIs ==
  ASSUME NEW m \in Message, NEW es, EditsAre(m, es), NEW e \in es
  PROVE  /\ e.in \in {"message", "root", "frame"}
         /\ e.in = "message" =>
               /\ Done(es, e.kind, e.name)
               /\ \/ e.kind = "reordered" \/ e.kind = "added"
                  \/ e.kind \in EditKinds /\ e.name \in DOMAIN m
         /\ e.in = "root" =>
               \E kind \in EditKinds, i \in 1..7 :
                  RootEdit(m, kind, i) /\ e = Edit("root", kind, RootEditName(m, kind, i))
         /\ e.in = "frame" => e \in {Edit("frame", "cut", NoName), Edit("frame", "continued", NoName)}
<1>1. IsEdit(m, e)
  BY DEF EditsAre
<1>2. CASE e = Edit("message", "reordered", NoName)
  <2>1. e.in = "message" /\ e.kind = "reordered" /\ e.name = NoName
    BY <1>2, EditParts
  <2>. QED  BY <1>2, <2>1 DEF Done
<1>3. CASE e = Edit("message", "added", "future")
  <2>1. e.in = "message" /\ e.kind = "added" /\ e.name = "future"
    BY <1>3, EditParts
  <2>. QED  BY <1>3, <2>1 DEF Done
<1>4. ASSUME NEW kind \in EditKinds \ {"added"}, NEW name \in DOMAIN m,
             e = Edit("message", kind, name)
      PROVE  e.in = "message" /\ Done(es, e.kind, e.name) /\ e.kind \in EditKinds
             /\ e.name \in DOMAIN m
  <2>1. e.in = "message" /\ e.kind = kind /\ e.name = name
    BY <1>4, EditParts
  <2>. QED  BY <1>4, <2>1 DEF Done
<1>5. ASSUME NEW kind \in EditKinds, NEW i \in 1..7, RootEdit(m, kind, i),
             e = Edit("root", kind, RootEditName(m, kind, i))
      PROVE  e.in = "root"
  BY <1>5, EditParts
<1>6. CASE e \in {Edit("frame", "cut", NoName), Edit("frame", "continued", NoName)}
  <2>1. e.in = "frame"
    BY <1>6, EditParts
  <2>. QED  BY <1>6, <2>1
<1>7. "message" # "root" /\ "message" # "frame" /\ "root" # "frame"
  OBVIOUS
<1>. QED  BY <1>1, <1>2, <1>3, <1>4, <1>5, <1>6, <1>7, Zenon DEF IsEdit

\* What is sent, and what it was framed with.
LEMMA Framed ==
  ASSUME WireInv, phase = "received"
  PROVE  \/ /\ Edit("frame", "cut", NoName) \in edits
            /\ \E n \in 0..Len(Whole) - 1 : payload = SubSeq(Whole, 1, n)
         \/ /\ \A e \in edits : e.kind # "cut"
            /\ \E rest \in Tokens : payload = Whole \o rest
<1>1. /\ message \in Message /\ fields \in Seq(Entry) /\ EditsAre(message, edits)
      /\ FieldsAre(message, edits, fields) /\ Whole = WriteMap(Len(fields), fields)
  BY WireAssumption DEF WireInv, Message, Whole
<1>2. Whole \in Tokens
  BY <1>1, WholeType
<1>3. /\ Unframed(edits) => payload = Whole
      /\ Edit("frame", "cut", NoName) \in edits =>
            \E n \in 0..Len(Whole) - 1 : payload = SubSeq(Whole, 1, n)
      /\ Edit("frame", "continued", NoName) \in edits => payload = Append(Whole, Nil)
  BY DEF WireInv, FrameInv
<1>4. \A e \in edits : e.kind = "cut" => e = Edit("frame", "cut", NoName)
  <2>1. ASSUME NEW e \in edits, e.kind = "cut" PROVE e = Edit("frame", "cut", NoName)
    <3>1. "cut" \notin EditKinds /\ "cut" # "reordered" /\ "cut" # "added"
      BY DEF EditKinds
    <3>2. e.in # "message"
      BY <1>1, <2>1, <3>1, EditIs
    <3>3. e.in # "root"
      BY <1>1, <2>1, <3>1, EditIs, EditParts
    <3>4. e # Edit("frame", "continued", NoName)
      BY <2>1, EditParts
    <3>. QED  BY <1>1, <3>2, <3>3, <3>4, EditIs
  <2>. QED  BY <2>1
<1>5. CASE Edit("frame", "cut", NoName) \in edits
  BY <1>3, <1>5
<1>6. CASE Edit("frame", "cut", NoName) \notin edits
  <2>1. \A e \in edits : e.kind # "cut"
    BY <1>4, <1>6
  <2>2. CASE Unframed(edits)
    <3>1. payload = Whole \o <<>> /\ <<>> \in Tokens
      BY <1>2, <1>3, <2>2 DEF Tokens
    <3>. QED  BY <2>1, <3>1
  <2>3. CASE ~Unframed(edits)
    <3>1. Edit("frame", "continued", NoName) \in edits
      BY <1>1, <1>6, <2>3, EditIs DEF Unframed
    <3>2. Append(Whole, Nil) = Whole \o <<Nil>> /\ <<Nil>> \in Tokens
      BY <1>2, TokenTypes DEF Tokens
    <3>. QED  BY <1>3, <2>1, <3>1, <3>2
  <2>. QED  BY <2>2, <2>3
<1>. QED  BY <1>5, <1>6

\* A name is edited in one way.
LEMMA OneEdit ==
  ASSUME NEW m, NEW es, EditsAre(m, es), NEW name
  PROVE  /\ \A k, l : Done(es, k, name) /\ Done(es, l, name) => k = l
         /\ \A k : Done(es, k, "roots") => \A d \in es : d.in # "root"
         /\ \A d, e \in es : d.in = "root" /\ e.in = "root" => d = e
<1>1. \A k, l : Edit("message", k, name) = Edit("message", l, name) => k = l
  BY EditParts
<1>2. \A k, n : Edit("message", k, n).in = "message" /\ Edit("message", k, n).name = n
  BY EditParts
<1>. QED  BY <1>1, <1>2 DEF EditsAre, Done

\* A field that was not dropped is there.
LEMMA FieldThere ==
  ASSUME NEW m \in Message, NEW es, NEW fs, FieldsAre(m, es, fs), NEW name \in DOMAIN m,
         ~Done(es, "dropped", name)
  PROVE  \E i \in 1..Len(fs) : fs[i][1] = name /\ FieldOf(m, es, fs[i], name)
<1>1. PICK i : i \in At(fs, name)
  BY DEF FieldsAre
<1>2. i \in 1..Len(fs) /\ fs[i][1] = name
  BY <1>1, AtFacts
<1>3. FieldIs(m, es, fs[i])
  BY <1>2 DEF FieldsAre
<1>. QED  BY <1>2, <1>3, FieldIsExact

\* A field that is repeated, or of another type, is not read.
LEMMA DamagedFields ==
  ASSUME NEW m \in Message, NEW es, NEW fs, FieldsAre(m, es, fs), EditsAre(m, es),
         NEW e \in es, e.kind \in {"repeated", "retyped"}
  PROVE  ~AllRead(KindOf(m), fs)
<1>1. CASE e.in = "message"
  <2>1. Done(es, e.kind, e.name) /\ e.name \in DOMAIN m
    BY <1>1, EditIs
  <2>2. CASE e.kind = "repeated"
    <3>1. PICK i, j \in At(fs, e.name) : i # j
      BY <2>1, <2>2 DEF FieldsAre
    <3>2. i \in 1..Len(fs) /\ j \in 1..Len(fs) /\ fs[i][1] = fs[j][1]
      BY AtFacts
    <3>3. i < j \/ j < i
      BY <3>1, <3>2
    <3>. QED  BY <3>2, <3>3 DEF AllRead
  <2>3. CASE e.kind = "retyped"
    <3>1. /\ Done(es, "retyped", e.name) /\ ~Done(es, "dropped", e.name)
          /\ ~Done(es, "reworded", e.name)
          /\ e.name = "roots" => \A d \in es : d.in # "root"
      BY <2>1, <2>3, OneEdit
    <3>2. PICK i \in 1..Len(fs) : fs[i][1] = e.name /\ FieldOf(m, es, fs[i], e.name)
      BY <2>1, <3>1, FieldThere
    <3>3. ~Plain(m, es, fs[i], e.name) /\ ~Reworded(es, fs[i], e.name)
      BY <3>1 DEF Plain, Reworded
    <3>4. ~Rooted(m, es, fs[i], e.name)
      BY <3>1, EditParts DEF Rooted
    <3>5. fs[i] = <<e.name, <<MapToken>>>>
      BY <3>2, <3>3, <3>4 DEF FieldOf, Retyped
    <3>6. ResOf(KindOf(m), fs[i]) = Refused
      BY <2>1, <3>5, RetypedForm
    <3>. QED  BY <3>6 DEF AllRead, Refused
  <2>. QED  BY <2>2, <2>3
<1>2. CASE e.in = "root"
  <2>1. PICK kind \in EditKinds, i \in 1..7 :
           RootEdit(m, kind, i) /\ e = Edit("root", kind, RootEditName(m, kind, i))
    BY <1>2, EditIs
  <2>2. "roots" \in DOMAIN m /\ e.kind = kind
    BY <2>1, EditParts DEF RootEdit
  <2>3. \A k : ~Done(es, k, "roots")
    BY <1>2, OneEdit
  <2>4. PICK j \in 1..Len(fs) : fs[j][1] = "roots" /\ FieldOf(m, es, fs[j], "roots")
    BY <2>2, <2>3, FieldThere
  <2>5. Rooted(m, es, fs[j], "roots")
    BY <1>2, <2>3, <2>4 DEF FieldOf, Plain, Retyped, Reworded
  <2>6. PICK l \in EditKinds, k \in 1..7 :
           /\ RootEdit(m, l, k) /\ fs[j] = <<"roots", RootsWith(m.roots, l, k)>>
           /\ Edit("root", l, RootEditName(m, l, k)) \in es
    BY <2>5 DEF Rooted
  <2>7. l = kind
    <3>1. Edit("root", l, RootEditName(m, l, k)) = e
      BY <1>2, <2>6, OneEdit, EditParts
    <3>. QED  BY <2>2, <3>1, EditParts
  <2>8. ResOf(KindOf(m), fs[j]) = Refused
    <3>1. ResOf(KindOf(m), fs[j]) = RootsAs(m.roots, l, RootEditName(m, l, k))
      BY <2>6, RootedForm
    <3>. QED  BY <2>2, <2>7, <3>1 DEF RootsAs
  <2>. QED  BY <2>8 DEF AllRead, Refused
<1>3. e.in # "frame"
  BY EditIs, EditParts
<1>. QED  BY <1>1, <1>2, <1>3, EditIs

\* What of a message that is cut short, that repeats a field or holds a value
\* of another type, in a root too, is refused and never read as another
\* message: Request::decode and Reply::decode.
LEMMA DamageRefused ==
  ASSUME WireInv
  PROVE  DamageIsRefused
<1>. SUFFICES ASSUME phase = "received", Kinds \cap {"cut", "repeated", "retyped"} # {}
              PROVE  ~outcome.ok
  BY DEF DamageIsRefused
<1>1. /\ message \in Message /\ fields \in Seq(Entry) /\ EditsAre(message, edits)
      /\ FieldsAre(message, edits, fields) /\ Whole = WriteMap(Len(fields), fields)
  BY WireAssumption DEF WireInv, Message, Whole
<1>2. outcome = IF Accepts(Size(payload)) THEN Decoded(payload) ELSE Refused
  BY DEF WireInv, FrameInv
<1>3. ASSUME payload \in Tokens, ~MapOf(KindOf(message), payload).ok PROVE ~outcome.ok
  <2>1. Decoded(payload) = Refused
    BY <1>3, DecodedIs
  <2>. QED  BY <1>2, <2>1 DEF Refused
<1>4. CASE \E n \in 0..Len(Whole) - 1 : payload = SubSeq(Whole, 1, n)
  <2>1. payload \in Tokens /\ ~MapOf(KindOf(message), payload).ok
    BY <1>1, <1>4, CutIsRefused
  <2>. QED  BY <1>3, <2>1
<1>5. CASE /\ \A e \in edits : e.kind # "cut"
           /\ \E rest \in Tokens : payload = Whole \o rest
  <2>1. PICK rest \in Tokens : payload = Whole \o rest
    BY <1>5
  <2>2. PICK e \in edits : e.kind \in {"repeated", "retyped"}
    BY <1>5 DEF Kinds
  <2>3. ~AllRead(KindOf(message), fields)
    BY <1>1, <2>2, DamagedFields
  <2>4. /\ Whole \in Tokens
        /\ MapOf(KindOf(message), Whole \o rest) = Refused
    BY <1>1, <2>3, WholeIsRead
  <2>5. payload \in Tokens
    BY <2>1, <2>4, ConcatType DEF Tokens
  <2>. QED  BY <1>3, <2>1, <2>4, <2>5 DEF Refused
<1>. QED  BY <1>4, <1>5, Framed

\* A message that is cut short anywhere, repeats a field, known or not, or
\* holds a value of another type, in a root too, is refused and never read as
\* another message, whatever the message and however many the differences.
THEOREM DamagedMessagesAreRefused == Spec => []DamageIsRefused
<1>. QED  BY FieldsFollowFromTheMessage, DamageRefused, PTL

-----------------------------------------------------------------------------
(***************************************************************************)
(* A message that is read is what was meant, but for what it lacks.        *)
(***************************************************************************)

\* What of the message is absent, and what is left of its roots.
Lost(es, in) == {e.name : e \in {d \in es : d.in = in /\ d.kind \in {"dropped", "reworded"}}}
LeftOf(m, es) ==
    IF "roots" \in DOMAIN m /\ m.roots # <<>>
    THEN [m EXCEPT !.roots[1] = Defaulted(@, Lost(es, "root"))] ELSE m
Harmless(es) == \A e \in es : e.kind \notin {"repeated", "retyped"}

\* What is lost of a message, by the name of each field.
LEMMA LostFacts ==
  ASSUME NEW m \in Message, NEW es, EditsAre(m, es)
  PROVE  /\ Lost(es, "message") \subseteq DOMAIN m
         /\ \A name : name \in Lost(es, "message") <=>
                         Done(es, "dropped", name) \/ Done(es, "reworded", name)
<1>1. ASSUME NEW name, name \in Lost(es, "message")
      PROVE  /\ name \in DOMAIN m
             /\ Done(es, "dropped", name) \/ Done(es, "reworded", name)
  <2>1. PICK e \in es : e.in = "message" /\ e.kind \in {"dropped", "reworded"} /\ e.name = name
    BY <1>1 DEF Lost
  <2>2. e.kind # "reordered" /\ e.kind # "added"
    BY <2>1
  <2>. QED  BY <2>1, <2>2, EditIs
<1>2. ASSUME NEW name, Done(es, "dropped", name) \/ Done(es, "reworded", name)
      PROVE  name \in Lost(es, "message")
  <2>1. \A k : /\ Edit("message", k, name).in = "message" /\ Edit("message", k, name).kind = k
               /\ Edit("message", k, name).name = name
    BY EditParts
  <2>. QED  BY <1>2, <2>1 DEF Lost, Done
<1>. QED  BY <1>1, <1>2

\* What is left of the roots.
LEMMA LeftFacts ==
  ASSUME NEW m \in Message, NEW es
  PROVE  /\ DOMAIN LeftOf(m, es) = DOMAIN m /\ LeftOf(m, es) = [k \in DOMAIN m |-> LeftOf(m, es)[k]]
         /\ \A k \in DOMAIN m : k # "roots" => LeftOf(m, es)[k] = m[k]
         /\ "roots" \in DOMAIN m =>
               /\ m.roots \in Seq(Root)
               /\ LeftOf(m, es).roots =
                     IF m.roots = <<>> THEN <<>>
                     ELSE [m.roots EXCEPT ![1] = Defaulted(m.roots[1], Lost(es, "root"))]
               /\ Lost(es, "root") = {} => LeftOf(m, es) = m
<1>1. m = [k \in DOMAIN m |-> m[k]]
  <2>1. PICK name : name \in DOMAIN m
    BY MessageHolds DEF Message, Request, Reply
  <2>. QED  BY <2>1, MessageHolds
<1>2. "roots" \in DOMAIN m => m.roots \in Seq(Root)
  BY MessageHolds
<1>. DEFINE d == Defaulted(m.roots[1], Lost(es, "root"))
            left == [m.roots EXCEPT ![1] = d]
<1>3. CASE "roots" \in DOMAIN m /\ m.roots # <<>>
  <2>1. LeftOf(m, es) = [m EXCEPT !["roots"] = left]
    BY <1>3 DEF LeftOf
  <2>2. ASSUME Lost(es, "root") = {} PROVE left = m.roots
    <3>1. 1 \in 1..Len(m.roots) /\ m.roots[1] \in Root
      BY <1>2, <1>3
    <3>2. m.roots[1] = [k \in DOMAIN m.roots[1] |-> m.roots[1][k]]
      <4>1. "source" \in RootFields
        BY DEF RootFields
      <4>. QED  BY <3>1, <4>1, RootHolds
    <3>3. d = m.roots[1]
      BY <2>2, <3>2 DEF Defaulted
    <3>. HIDE DEF d
    <3>. QED  BY <1>2, <1>3, <3>1, <3>3
  <2>. HIDE DEF left
  <2>3. /\ DOMAIN LeftOf(m, es) = DOMAIN m
        /\ LeftOf(m, es) = [k \in DOMAIN m |-> IF k = "roots" THEN left ELSE m[k]]
    BY <1>1, <2>1
  <2>4. Lost(es, "root") = {} => LeftOf(m, es) = m
    BY <1>1, <1>3, <2>2, <2>3
  <2>5. \A k \in DOMAIN m : LeftOf(m, es)[k] = IF k = "roots" THEN left ELSE m[k]
    BY <2>3
  <2>6. LeftOf(m, es) = [k \in DOMAIN m |-> LeftOf(m, es)[k]]
    BY <2>3
  <2>. QED  BY <1>2, <1>3, <2>3, <2>4, <2>5, <2>6 DEF left
<1>4. CASE ~("roots" \in DOMAIN m /\ m.roots # <<>>)
  BY <1>1, <1>2, <1>4 DEF LeftOf
<1>. QED  BY <1>3, <1>4

\* What is read of a field.
LEMMA HarmlessField ==
  ASSUME NEW m \in Message, NEW es, NEW f, FieldIs(m, es, f), EditsAre(m, es), Harmless(es)
  PROVE  /\ ResOf(KindOf(m), f).ok /\ f[1] \in DOMAIN m \cup {"future"}
         /\ f[1] \in DOMAIN m =>
               IF Done(es, "reworded", f[1])
               THEN /\ f[1] \in {"query", "kind", "health"}
                    /\ ResOf(KindOf(m), f).value = ReadAs(f[1], "future")
               ELSE ResOf(KindOf(m), f).value = LeftOf(m, es)[f[1]]
<1>. DEFINE name == f[1]
            res == ResOf(KindOf(m), f)
<1>1. \A k, n : Done(es, k, n) => k \notin {"repeated", "retyped"}
  <2>1. \A k, n : Edit("message", k, n).kind = k
    BY EditParts
  <2>. QED  BY <2>1 DEF Harmless, Done
<1>2. CASE f = NewField
  <2>1. name = "future" /\ "future" \notin DOMAIN m /\ res = Got("skipped", <<>>)
    BY <1>2, FieldIsExact, KindFacts
  <2>. QED  BY <2>1 DEF Got
<1>3. CASE f # NewField
  <2>1. name \in DOMAIN m /\ FieldOf(m, es, f, name)
    BY <1>3, FieldIsExact
  <2>2. CASE Plain(m, es, f, name)
    <3>1. res = Got(m[name], <<>>) /\ ~Done(es, "reworded", name)
      BY <2>1, <2>2, PlainForm DEF Plain
    <3>2. m[name] = LeftOf(m, es)[name]
      <4>1. CASE name = "roots"
        <5>1. Lost(es, "root") = {}
          BY <2>2, <4>1 DEF Plain, Lost
        <5>. QED  BY <2>1, <4>1, <5>1, LeftFacts
      <4>2. CASE name # "roots"
        BY <2>1, <4>2, LeftFacts
      <4>. QED  BY <4>1, <4>2
    <3>. HIDE DEF res, name
    <3>3. res.ok /\ res.value = m[name]
      BY <3>1 DEF Got
    <3>. QED  BY <2>1, <3>1, <3>2, <3>3 DEF res, name
  <2>3. ~Retyped(es, f, name)
    BY <1>1 DEF Retyped
  <2>4. CASE Reworded(es, f, name)
    <3>1. /\ res = Got(ReadAs(name, "future"), <<>>) /\ Done(es, "reworded", name)
          /\ name \in {"query", "kind", "health"}
      BY <2>1, <2>4, RewordedForm DEF Reworded
    <3>. HIDE DEF res, name
    <3>2. res.ok /\ res.value = ReadAs(name, "future")
      BY <3>1 DEF Got
    <3>. QED  BY <2>1, <3>1, <3>2 DEF res, name
  <2>5. CASE Rooted(m, es, f, name)
    <3>1. PICK kind \in EditKinds, i \in 1..7 :
             /\ RootEdit(m, kind, i) /\ f = <<"roots", RootsWith(m.roots, kind, i)>>
             /\ Edit("root", kind, RootEditName(m, kind, i)) \in es
      BY <2>5 DEF Rooted
    <3>. DEFINE gone == RootEditName(m, kind, i)
                e == Edit("root", kind, gone)
    <3>2. e.in = "root" /\ e.kind = kind /\ e.name = gone /\ e \in es
      BY <3>1, EditParts
    <3>3. kind \notin {"repeated", "retyped"}
      BY <3>2 DEF Harmless
    <3>4. \A d \in es : d.in = "root" => d = e
      BY <3>2, OneEdit
    <3>5. ~Done(es, "reworded", "roots") /\ name = "roots" /\ m.roots # <<>>
      BY <2>5, <3>1, <3>2, OneEdit DEF Rooted, RootEdit
    <3>6. Lost(es, "root") = Gone(kind, gone)
      <4>. HIDE DEF e, gone
      <4>1. ASSUME kind \in {"dropped", "reworded"} PROVE Lost(es, "root") = {gone}
        BY <3>2, <3>4, <4>1 DEF Lost
      <4>2. ASSUME kind \notin {"dropped", "reworded"} PROVE Lost(es, "root") = {}
        BY <3>2, <3>4, <4>2 DEF Lost
      <4>. QED  BY <4>1, <4>2 DEF Gone
    <3>7. res = RootsAs(m.roots, kind, gone)
      BY <3>1, RootedForm
    <3>8. res = Got([m.roots EXCEPT ![1] = Defaulted(m.roots[1], Gone(kind, gone))], <<>>)
      BY <3>3, <3>7 DEF RootsAs
    <3>9. LeftOf(m, es).roots = [m.roots EXCEPT ![1] = Defaulted(m.roots[1], Lost(es, "root"))]
      BY <2>1, <3>5, LeftFacts
    <3>. HIDE DEF res, gone
    <3>10. res.ok /\ res.value = LeftOf(m, es).roots
      BY <3>6, <3>8, <3>9 DEF Got
    <3>. QED  BY <2>1, <3>5, <3>10 DEF res
  <2>. QED  BY <2>1, <2>2, <2>3, <2>4, <2>5 DEF FieldOf
<1>. QED  BY <1>2, <1>3

\* What is read of a message: each field that is there, and nothing else.
LEMMA HarmlessRead ==
  ASSUME NEW m \in Message, NEW es, NEW fs \in Seq(Entry), FieldsAre(m, es, fs),
         EditsAre(m, es), Harmless(es)
  PROVE  LET v == ValuesOf(KindOf(m), fs)
         IN  /\ AllRead(KindOf(m), fs) /\ DOMAIN v \subseteq DOMAIN m \cup {"future"}
             /\ \A name \in DOMAIN m :
                   /\ name \in DOMAIN v <=> ~Done(es, "dropped", name)
                   /\ name \in DOMAIN v /\ Done(es, "reworded", name) =>
                         name \in {"query", "kind", "health"} /\ v[name] = ReadAs(name, "future")
                   /\ name \in DOMAIN v /\ ~Done(es, "reworded", name) =>
                         v[name] = LeftOf(m, es)[name]
<1>. DEFINE v == ValuesOf(KindOf(m), fs)
            n == Len(fs)
<1>1. n \in Nat
  OBVIOUS
<1>2. \A i \in 1..n : FieldIs(m, es, fs[i])
  BY DEF FieldsAre
<1>3. AllRead(KindOf(m), fs)
  <2>1. \A i \in 1..n : ResOf(KindOf(m), fs[i]).ok
    BY <1>2, HarmlessField
  <2>2. ASSUME NEW i \in 1..n, NEW j \in 1..n, i < j, fs[i][1] = fs[j][1] PROVE FALSE
    <3>1. Done(es, "repeated", fs[i][1])
      BY <2>2 DEF FieldsAre
    <3>2. Edit("message", "repeated", fs[i][1]).kind = "repeated"
      BY EditParts
    <3>. QED  BY <3>1, <3>2 DEF Done, Harmless
  <2>. QED  BY <2>1, <2>2 DEF AllRead
<1>4. /\ DOMAIN v = Names(fs, n)
      /\ \A i \in 1..n : v[fs[i][1]] = ResOf(KindOf(m), fs[i]).value
  BY <1>1, <1>3, ValueFacts
<1>. HIDE DEF v
<1>5. DOMAIN v \subseteq DOMAIN m \cup {"future"}
  BY <1>2, <1>4, HarmlessField DEF Names
<1>6. ASSUME NEW name \in DOMAIN m
      PROVE  /\ name \in DOMAIN v <=> ~Done(es, "dropped", name)
             /\ name \in DOMAIN v /\ Done(es, "reworded", name) =>
                   name \in {"query", "kind", "health"} /\ v[name] = ReadAs(name, "future")
             /\ name \in DOMAIN v /\ ~Done(es, "reworded", name) =>
                   v[name] = LeftOf(m, es)[name]
  <2>1. name \in DOMAIN v <=> At(fs, name) # {}
    BY <1>4 DEF Names, At
  <2>2. Done(es, "dropped", name) <=> At(fs, name) = {}
    BY DEF FieldsAre
  <2>3. ASSUME name \in DOMAIN v
        PROVE  \E i \in 1..n : fs[i][1] = name /\ v[name] = ResOf(KindOf(m), fs[i]).value
    BY <1>4, <2>3 DEF Names
  <2>4. ASSUME name \in DOMAIN v
        PROVE  IF Done(es, "reworded", name)
               THEN name \in {"query", "kind", "health"} /\ v[name] = ReadAs(name, "future")
               ELSE v[name] = LeftOf(m, es)[name]
    <3>1. PICK i \in 1..n : fs[i][1] = name /\ v[name] = ResOf(KindOf(m), fs[i]).value
      BY <2>3, <2>4
    <3>. QED  BY <1>2, <3>1, HarmlessField
  <2>. QED  BY <2>1, <2>2, <2>4
<1>. QED  BY <1>3, <1>5, <1>6 DEF v

\* The shapes a message has.
LEMMA MessageShape ==
  ASSUME NEW m \in Message
  PROVE  /\ KindOf(m) = "request" =>
               /\ "query" \in DOMAIN m /\ m.query \in {"roots", "subscribe", "status", "reload"}
               /\ "ok" \notin DOMAIN m /\ "kind" \notin DOMAIN m
         /\ KindOf(m) # "request" =>
               /\ "query" \notin DOMAIN m /\ "ok" \in DOMAIN m /\ m.ok \in BOOLEAN
               /\ ~m.ok => "kind" \notin DOMAIN m
               /\ "kind" \in DOMAIN m => m.kind \in {"roots", "status"}
               /\ m.ok /\ "kind" \notin DOMAIN m => m = [ok |-> TRUE]
<1>1. CASE m \in Request
  <2>1. /\ "query" \in DOMAIN m /\ m.query \in {"roots", "subscribe", "status", "reload"}
        /\ "ok" \notin DOMAIN m /\ "kind" \notin DOMAIN m
    BY <1>1 DEF Request
  <2>. QED  BY <2>1 DEF KindOf
<1>2. CASE m \in [ok : {TRUE}]
  <2>1. DOMAIN m = {"ok"} /\ m.ok = TRUE /\ m = [ok |-> TRUE]
    BY <1>2
  <2>. QED  BY <2>1 DEF KindOf
<1>3. CASE m \in [ok : {FALSE}, error : Texts]
  <2>1. DOMAIN m = {"ok", "error"} /\ m.ok = FALSE
    BY <1>3
  <2>. QED  BY <2>1 DEF KindOf
<1>4. CASE m \in [ok : {TRUE}, kind : {"roots"}, generation : Nat, more : BOOLEAN,
                  roots : Seq(Root)]
  <2>1. DOMAIN m = {"ok", "kind", "generation", "more", "roots"} /\ m.ok = TRUE
        /\ m.kind = "roots"
    BY <1>4
  <2>. QED  BY <2>1 DEF KindOf
<1>5. CASE m \in [ok : {TRUE}, kind : {"status"}, generation : Nat,
                  health : {"ok", "degraded"}, message : Optional, shipped : Nat,
                  added : Nat, distrusted : Nat, skipped : Nat, effective : Nat,
                  compat_mode : 0..(U32 - 1), rendered : Seq(Texts)]
  <2>1. DOMAIN m = {"ok", "kind", "generation", "health", "message", "shipped", "added",
                    "distrusted", "skipped", "effective", "compat_mode", "rendered"}
        /\ m.ok = TRUE /\ m.kind = "status"
    BY <1>5
  <2>. QED  BY <2>1 DEF KindOf
<1>. QED  BY <1>1, <1>2, <1>3, <1>4, <1>5 DEF Message, Reply

\* A message that is built has the fields of its layout.
LEMMA Rebuilt ==
  ASSUME NEW m \in Message, NEW base, Layout(base) = Layout(m), NEW got, NEW want,
         DOMAIN want = DOMAIN m, want = [k \in DOMAIN m |-> want[k]],
         \A k \in DOMAIN m : want[k] = IF k \in DOMAIN base THEN base[k] ELSE Field(got, k)
  PROVE  Built(base, got) = Got(want, <<>>)
<1>1. ToSet(Layout(m)[2]) = DOMAIN m
  <2>. DEFINE n == Layout(m)[1]
              names == Layout(m)[2]
  <2>1. /\ DOMAIN names = 1..n /\ \A i \in 1..n : names[i] \in DOMAIN m
        /\ \A name \in DOMAIN m : \E i \in 1..n : names[i] = name
    BY LayoutFacts DEF IsLayout
  <2>. HIDE DEF n, names
  <2>2. ToSet(names) = DOMAIN m
    BY <2>1 DEF ToSet
  <2>. QED  BY <2>2 DEF names
<1>. DEFINE built == [k \in DOMAIN m |-> IF k \in DOMAIN base THEN base[k] ELSE Field(got, k)]
<1>2. Built(base, got) = Got(built, <<>>)
  BY <1>1 DEF Built
<1>3. built = want
  OBVIOUS
<1>. QED  BY <1>2, <1>3

\* A success of which nothing more is known.
LEMMA PlainSuccess ==
  ASSUME NEW got
  PROVE  Built([ok |-> TRUE], got) = Got([ok |-> TRUE], <<>>)
<1>. DEFINE m == [ok |-> TRUE]
<1>1. DOMAIN m = {"ok"} /\ m.ok = TRUE /\ m = [k \in DOMAIN m |-> m[k]]
  OBVIOUS
<1>2. m \in Message
  BY DEF Message, Reply
<1>. HIDE DEF m
<1>3. Built(m, got) = Got(m, <<>>)
  BY <1>1, <1>2, Rebuilt
<1>. QED  BY <1>3 DEF m

\* A message without its absent fields comes to what is left of it, or is
\* refused when what it asks for, or whether it succeeded, is not known.
LEMMA MessageRead ==
  ASSUME NEW m \in Message, NEW es, EditsAre(m, es), NEW v,
         DOMAIN v \subseteq DOMAIN m \cup {"future"},
         \A name \in DOMAIN m :
            /\ name \in DOMAIN v <=> ~Done(es, "dropped", name)
            /\ name \in DOMAIN v /\ Done(es, "reworded", name) =>
                  name \in {"query", "kind", "health"} /\ v[name] = ReadAs(name, "future")
            /\ name \in DOMAIN v /\ ~Done(es, "reworded", name) => v[name] = LeftOf(m, es)[name]
  PROVE  MessageFrom(KindOf(m), v) =
            IF Lost(es, "message") \cap {"query", "ok"} # {} THEN Refused
            ELSE IF "kind" \in Lost(es, "message") THEN Got([ok |-> TRUE], <<>>)
            ELSE Got(Defaulted(LeftOf(m, es), Lost(es, "message")), <<>>)
<1>. DEFINE lost == Lost(es, "message")
            left == LeftOf(m, es)
            want == Defaulted(left, lost)
<1>1. /\ lost \subseteq DOMAIN m
      /\ \A name : name \in lost <=> Done(es, "dropped", name) \/ Done(es, "reworded", name)
  BY LostFacts
<1>2. /\ DOMAIN left = DOMAIN m
      /\ \A k \in DOMAIN m : k # "roots" => left[k] = m[k]
  BY LeftFacts
<1>3. /\ DOMAIN want = DOMAIN m /\ want = [k \in DOMAIN m |-> want[k]]
      /\ \A k \in DOMAIN m : want[k] = IF k \in lost THEN Default(k) ELSE left[k]
  BY <1>2 DEF Defaulted
<1>. HIDE DEF lost, left, want
<1>4. /\ ReadAs("query", "future") = "future" /\ ReadAs("kind", "future") = "future"
      /\ ReadAs("health", "future") = Default("health")
  BY DEF ReadAs, StrNames, Known
<1>5. \A k \in DOMAIN m : k \notin lost => k \in DOMAIN v /\ v[k] = left[k]
  BY <1>1 DEF left
<1>6. \A k \in DOMAIN m : k \notin {"query", "kind"} => Field(v, k) = want[k]
  <2>1. ASSUME NEW k \in DOMAIN m, k \notin {"query", "kind"} PROVE Field(v, k) = want[k]
    <3>1. CASE k \notin lost
      BY <1>3, <1>5, <3>1 DEF Field
    <3>2. CASE k \in lost /\ k \notin DOMAIN v
      BY <1>3, <3>2 DEF Field
    <3>3. CASE k \in lost /\ k \in DOMAIN v
      <4>1. v[k] = ReadAs(k, "future") /\ k \in {"query", "kind", "health"}
        BY <1>1, <3>3
      <4>2. k = "health"
        BY <2>1, <4>1
      <4>. QED  BY <1>3, <1>4, <3>3, <4>1, <4>2 DEF Field
    <3>. QED  BY <3>1, <3>2, <3>3
  <2>. QED  BY <2>1
<1>7. CASE KindOf(m) = "request"
  <2>1. /\ "query" \in DOMAIN m /\ m.query \in {"roots", "subscribe", "status", "reload"}
        /\ "ok" \notin DOMAIN m /\ "kind" \notin DOMAIN m
    BY <1>7, MessageShape
  <2>2. MessageFrom(KindOf(m), v) = RequestOf(v)
    BY <1>7 DEF MessageFrom
  <2>3. CASE "query" \in lost
    <3>1. "query" \notin DOMAIN v \/ v["query"] = "future"
      BY <1>1, <1>4, <2>1, <2>3
    <3>2. RequestOf(v) = Refused
      BY <3>1 DEF RequestOf, Field
    <3>. QED  BY <2>2, <2>3, <3>2 DEF lost
  <2>4. CASE "query" \notin lost
    <3>. DEFINE base == [query |-> v.query]
    <3>1. "query" \in DOMAIN v /\ v.query = m.query
      BY <1>2, <1>5, <2>1, <2>4
    <3>2. RequestOf(v) = Built(base, v)
      BY <2>1, <3>1 DEF RequestOf, Field
    <3>3. DOMAIN base = {"query"} /\ base.query = m.query
      BY <3>1
    <3>. HIDE DEF base
    <3>4. Layout(base) = Layout(m)
      BY <2>1, <3>3 DEF Layout
    <3>5. \A k \in DOMAIN m : want[k] = IF k \in DOMAIN base THEN base[k] ELSE Field(v, k)
      BY <1>2, <1>3, <1>6, <2>1, <2>4, <3>3
    <3>6. Built(base, v) = Got(want, <<>>)
      BY <1>3, <3>4, <3>5, Rebuilt
    <3>7. lost \cap {"query", "ok"} = {} /\ "kind" \notin lost
      BY <1>1, <2>1, <2>4
    <3>. QED  BY <2>2, <3>2, <3>6, <3>7 DEF lost, left, want
  <2>. QED  BY <2>3, <2>4
<1>8. CASE KindOf(m) # "request"
  <2>1. /\ "query" \notin DOMAIN m /\ "ok" \in DOMAIN m /\ m.ok \in BOOLEAN
        /\ ~m.ok => "kind" \notin DOMAIN m
        /\ "kind" \in DOMAIN m => m.kind \in {"roots", "status"}
        /\ m.ok /\ "kind" \notin DOMAIN m => m = [ok |-> TRUE]
    BY <1>8, MessageShape
  <2>2. MessageFrom(KindOf(m), v) = ReplyOf(v)
    BY <1>8 DEF MessageFrom
  <2>3. CASE "ok" \in lost
    <3>1. "ok" \notin DOMAIN v
      BY <1>1, <2>1, <2>3
    <3>2. ReplyOf(v) = Refused
      BY <3>1 DEF ReplyOf
    <3>. QED  BY <2>2, <2>3, <3>2 DEF lost
  <2>4. ASSUME "ok" \notin lost, NEW base, ReplyOf(v) = Built(base, v), Layout(base) = Layout(m),
               "kind" \notin lost,
               \A k \in DOMAIN base : k \in {"ok", "kind"} /\ base[k] = m[k],
               "kind" \in DOMAIN m => "kind" \in DOMAIN base
        PROVE  MessageFrom(KindOf(m), v) = Got(want, <<>>)
    <3>1. \A k \in DOMAIN m : want[k] = IF k \in DOMAIN base THEN base[k] ELSE Field(v, k)
      BY <1>2, <1>3, <1>6, <2>1, <2>4
    <3>2. Built(base, v) = Got(want, <<>>)
      BY <1>3, <2>4, <3>1, Rebuilt
    <3>. QED  BY <2>2, <2>4, <3>2
  <2>5. CASE "ok" \notin lost
    <3>1. "ok" \in DOMAIN v /\ v.ok = m.ok
      BY <1>2, <1>5, <2>1, <2>5
    <3>2. lost \cap {"query", "ok"} = {}
      BY <1>1, <2>1, <2>5
    <3>3. CASE ~m.ok
      <4>. DEFINE base == [ok |-> FALSE]
      <4>1. ReplyOf(v) = Built(base, v)
        BY <3>1, <3>3 DEF ReplyOf
      <4>2. DOMAIN base = {"ok"} /\ base.ok = FALSE /\ m.ok = FALSE
        BY <2>1, <3>3
      <4>. HIDE DEF base
      <4>3. Layout(base) = Layout(m)
        BY <2>1, <4>2 DEF Layout
      <4>4. "kind" \notin lost
        BY <1>1, <2>1, <3>3
      <4>5. MessageFrom(KindOf(m), v) = Got(want, <<>>)
        BY <2>1, <2>4, <2>5, <3>3, <4>1, <4>2, <4>3, <4>4
      <4>. QED  BY <3>2, <4>4, <4>5 DEF lost, left, want
    <3>4. CASE m.ok /\ "kind" \in DOMAIN m /\ "kind" \notin lost
      <4>. DEFINE base == [ok |-> TRUE, kind |-> v.kind]
      <4>1. "kind" \in DOMAIN v /\ v.kind = m.kind
        BY <1>2, <1>5, <3>4
      <4>2. ReplyOf(v) = Built(base, v)
        BY <2>1, <3>1, <3>4, <4>1 DEF ReplyOf, Field
      <4>3. DOMAIN base = {"ok", "kind"} /\ base.ok = TRUE /\ base.kind = m.kind /\ m.ok = TRUE
        BY <2>1, <3>4, <4>1
      <4>. HIDE DEF base
      <4>4. Layout(base) = Layout(m)
        BY <2>1, <3>4, <4>3 DEF Layout
      <4>5. MessageFrom(KindOf(m), v) = Got(want, <<>>)
        <5>1. \A k \in DOMAIN base : k \in {"ok", "kind"} /\ base[k] = m[k]
          BY <2>5, <4>3, <3>3, <3>4
        <5>2. "kind" \in DOMAIN base
          BY <4>3
        <5>. QED  BY <2>4, <2>5, <3>4, <4>2, <4>4, <5>1, <5>2
      <4>. QED  BY <3>2, <3>4, <4>5 DEF lost, left, want
    <3>5. CASE m.ok /\ "kind" \in lost
      <4>1. "kind" \notin DOMAIN v \/ v["kind"] = "future"
        BY <1>1, <1>4, <3>5
      <4>2. ReplyOf(v) = Built([ok |-> TRUE], v)
        BY <3>1, <3>5, <4>1 DEF ReplyOf, Field
      <4>3. Built([ok |-> TRUE], v) = Got([ok |-> TRUE], <<>>)
        BY PlainSuccess
      <4>. QED  BY <2>2, <3>2, <3>5, <4>2, <4>3 DEF lost
    <3>6. CASE m.ok /\ "kind" \notin DOMAIN m
      <4>1. m = [ok |-> TRUE]
        BY <2>1, <3>6
      <4>2. "kind" \notin DOMAIN v
        BY <3>6
      <4>3. ReplyOf(v) = Built([ok |-> TRUE], v)
        BY <3>1, <3>6, <4>2 DEF ReplyOf
      <4>4. "kind" \notin lost
        BY <1>1, <3>6
      <4>5. ReplyOf(v) = Built(m, v) /\ \A k \in DOMAIN m : k = "ok"
        BY <4>1, <4>3
      <4>6. MessageFrom(KindOf(m), v) = Got(want, <<>>)
        BY <2>4, <2>5, <4>4, <4>5
      <4>. QED  BY <3>2, <4>4, <4>6 DEF lost, left, want
    <3>. QED  BY <2>1, <3>3, <3>4, <3>5, <3>6
  <2>. QED  BY <2>3, <2>5
<1>. QED  BY <1>7, <1>8

\* What is received of a message that nothing damaged.
LEMMA HarmlessOutcome ==
  ASSUME WireInv, phase = "received", Harmless(edits), \A e \in edits : e.kind # "cut",
         Size(payload) <= MaxMessage
  PROVE  /\ message \in Message /\ EditsAre(message, edits)
         /\ outcome =
               IF Lost(edits, "message") \cap {"query", "ok"} # {} THEN Refused
               ELSE IF "kind" \in Lost(edits, "message") THEN Got([ok |-> TRUE], <<>>)
               ELSE Got(Defaulted(LeftOf(message, edits), Lost(edits, "message")), <<>>)
<1>. DEFINE kind == KindOf(message)
            v == ValuesOf(kind, fields)
<1>1. /\ message \in Message /\ fields \in Seq(Entry) /\ EditsAre(message, edits)
      /\ FieldsAre(message, edits, fields) /\ Whole = WriteMap(Len(fields), fields)
      /\ MaxMessage \in Nat
  BY WireAssumption DEF WireInv, Message, Whole
<1>2. outcome = IF Accepts(Size(payload)) THEN Decoded(payload) ELSE Refused
  BY DEF WireInv, FrameInv
<1>3. PICK rest \in Tokens : payload = Whole \o rest
  <2>1. Edit("frame", "cut", NoName) \notin edits
    BY EditParts
  <2>. QED  BY <2>1, Framed
<1>4. AllRead(kind, fields)
  BY <1>1, HarmlessRead
<1>5. Whole \in Tokens /\ MapOf(kind, Whole \o rest) = Got(v, rest)
  BY <1>1, <1>4, WholeIsRead
<1>6. payload \in Tokens
  BY <1>3, <1>5, ConcatType DEF Tokens
<1>7. Accepts(Size(payload))
  <2>1. Size(payload) \in Nat
    BY <1>6, SizeFacts
  <2>. QED  BY <1>1, <2>1 DEF Accepts
<1>8. Decoded(payload) = MessageFrom(kind, v)
  <2>1. MapOf(kind, payload) = Got(v, rest)
    BY <1>3, <1>5
  <2>. HIDE DEF v
  <2>2. MapOf(kind, payload).ok /\ MapOf(kind, payload).value = v
    BY <2>1 DEF Got
  <2>. QED  BY <1>6, <2>2, DecodedIs
<1>9. MessageFrom(kind, v) =
         IF Lost(edits, "message") \cap {"query", "ok"} # {} THEN Refused
         ELSE IF "kind" \in Lost(edits, "message") THEN Got([ok |-> TRUE], <<>>)
         ELSE Got(Defaulted(LeftOf(message, edits), Lost(edits, "message")), <<>>)
  <2>1. /\ DOMAIN v \subseteq DOMAIN message \cup {"future"}
        /\ \A name \in DOMAIN message :
              /\ name \in DOMAIN v <=> ~Done(edits, "dropped", name)
              /\ name \in DOMAIN v /\ Done(edits, "reworded", name) =>
                    name \in {"query", "kind", "health"} /\ v[name] = ReadAs(name, "future")
              /\ name \in DOMAIN v /\ ~Done(edits, "reworded", name) =>
                    v[name] = LeftOf(message, edits)[name]
    BY <1>1, HarmlessRead
  <2>. HIDE DEF v
  <2>. QED  BY <1>1, <2>1, MessageRead
<1>. QED  BY <1>1, <1>2, <1>7, <1>8, <1>9

\* Version skew: a message that this code wrote, or one to which only fields
\* were added, in another order or with more after it, is read as it was meant.
LEMMA SkewRead ==
  ASSUME WireInv
  PROVE  SkewIsHarmless
<1>. SUFFICES ASSUME phase = "received", Kinds \subseteq {"reordered", "added", "continued"},
                     (IsRequest /\ edits = {}) \/ Fits
              PROVE  outcome = Got(message, <<>>)
  BY DEF SkewIsHarmless
<1>1. \A e \in edits : e.kind \in {"reordered", "added", "continued"}
  BY DEF Kinds
<1>2. Harmless(edits) /\ (\A e \in edits : e.kind # "cut") /\ \A in : Lost(edits, in) = {}
  BY <1>1 DEF Harmless, Lost
<1>3. Size(payload) <= MaxMessage
  BY DEF WireInv, FrameInv, Fits
<1>4. /\ message \in Message
      /\ outcome = Got(Defaulted(LeftOf(message, edits), {}), <<>>)
  BY <1>2, <1>3, HarmlessOutcome
<1>5. /\ LeftOf(message, edits) = message
      /\ message = [k \in DOMAIN message |-> message[k]]
  <2>1. LeftOf(message, edits) = message
    <3>1. CASE "roots" \in DOMAIN message
      BY <1>2, <1>4, <3>1, LeftFacts
    <3>2. CASE "roots" \notin DOMAIN message
      BY <3>2 DEF LeftOf
    <3>. QED  BY <3>1, <3>2
  <2>2. LeftOf(message, edits) = [k \in DOMAIN message |-> LeftOf(message, edits)[k]]
    BY <1>4, LeftFacts
  <2>. QED  BY <2>1, <2>2
<1>6. Defaulted(message, {}) = message
  BY <1>5 DEF Defaulted
<1>. QED  BY <1>4, <1>5, <1>6

\* Missing fields: each decoder's default stands for a field that is not there
\* or whose word it does not know, and nothing else of the message changes.
LEMMA MissingRead ==
  ASSUME WireInv
  PROVE  MissingIsDefault
<1>. SUFFICES ASSUME phase = "received", Fits,
                     Kinds \subseteq {"dropped", "reworded", "added", "reordered"}
              PROVE  LET roots == IF "roots" \in DOMAIN message /\ message.roots # <<>>
                                  THEN [message EXCEPT !.roots[1] = Defaulted(@, Absent("root"))]
                                  ELSE message
                     IN  CASE Absent("message") \cap {"query", "ok"} # {} -> ~outcome.ok
                           [] Absent("message") \cap {"query", "ok"} = {} ->
                                outcome = Got(IF "kind" \in Absent("message") THEN [ok |-> TRUE]
                                              ELSE Defaulted(roots, Absent("message")), <<>>)
  BY DEF MissingIsDefault
<1>1. \A e \in edits : e.kind \in {"dropped", "reworded", "added", "reordered"}
  BY DEF Kinds
<1>2. Harmless(edits) /\ (\A e \in edits : e.kind # "cut") /\ Size(payload) <= MaxMessage
  BY <1>1 DEF Harmless, Fits
<1>3. \A in : Absent(in) = Lost(edits, in)
  BY DEF Absent, Lost
<1>4. LeftOf(message, edits) =
         IF "roots" \in DOMAIN message /\ message.roots # <<>>
         THEN [message EXCEPT !.roots[1] = Defaulted(@, Absent("root"))] ELSE message
  BY <1>3 DEF LeftOf
<1>5. outcome = IF Absent("message") \cap {"query", "ok"} # {} THEN Refused
                ELSE IF "kind" \in Absent("message") THEN Got([ok |-> TRUE], <<>>)
                ELSE Got(Defaulted(LeftOf(message, edits), Absent("message")), <<>>)
  BY <1>2, <1>3, HarmlessOutcome
<1>. QED  BY <1>4, <1>5 DEF Refused

\* What this code wrote, and what a later version wrote that adds fields,
\* orders them otherwise or says more after the message, is read by the other
\* side as it was meant, up to the very ceiling.
THEOREM SkewedMessagesAreRead == Spec => []SkewIsHarmless
<1>. QED  BY FieldsFollowFromTheMessage, SkewRead, PTL

\* A field that is missing, or a word of a later version, is refused where the
\* message would have no meaning without it and is otherwise its decoder's
\* default, and only that field differs: in a root of a listing too.
THEOREM MissingFieldsAreDefaults == Spec => []MissingIsDefault
<1>. QED  BY FieldsFollowFromTheMessage, MissingRead, PTL
=============================================================================
