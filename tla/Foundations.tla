---------------------------- MODULE Foundations ----------------------------
(***************************************************************************)
(* Facts the proofs share.  What a recursive definition computes is proved *)
(* from LeastNat, by the least counterexample, or from CountUp.            *)
(***************************************************************************)
EXTENDS Kept, SequencesExt, WellFoundedInduction, TLAPS

\* A non-empty set of numbers has a least element.
LEMMA LeastNat ==
  ASSUME NEW T, T \subseteq Nat, T # {}
  PROVE  \E x \in T : \A y \in T : x <= y
<1>1. PICK x \in T : \A y \in T : ~ (<<y, x>> \in OpToRel(<, Nat))
  BY WFMin, NatLessThanWellFounded
<1>2. \A y \in T : ~(y < x)
  BY <1>1 DEF OpToRel
<1>. QED  BY <1>2

\* What holds at 0 and from each number to the next holds up to n.
LEMMA CountUp ==
  ASSUME NEW n \in Nat, NEW T, 0 \in T, \A i \in 1..n : i - 1 \in T => i \in T
  PROVE  \A i \in 0..n : i \in T
<1>. DEFINE Left == (0..n) \ T
<1>1. SUFFICES ASSUME Left # {} PROVE FALSE
  OBVIOUS
<1>2. PICK x \in Left : \A y \in Left : x <= y
  <2>1. Left \subseteq Nat
    OBVIOUS
  <2>. HIDE DEF Left
  <2>. QED  BY <1>1, <2>1, LeastNat
<1>3. x \in 1..n /\ x - 1 \in 0..n
  OBVIOUS
<1>4. x - 1 \notin Left
  <2>. HIDE DEF Left
  <2>. QED  BY <1>2, <1>3
<1>. QED  BY <1>3, <1>4

\* A pass of n steps over the elements of S: step i takes what the first i - 1
\* left.
StepsOf(n, S) == [1..n -> [S -> S]]
IsPass(f, n, S, base, step) ==
    f \in [0..n -> S] /\ f[0] = base /\ \A i \in 1..n : f[i] = step[i][f[i - 1]]

\* It can be made.
LEMMA PassExists ==
  ASSUME NEW n \in Nat, NEW S, NEW base \in S, NEW step \in StepsOf(n, S)
  PROVE  \E f : IsPass(f, n, S, base, step)
<1>. DEFINE Made(f, m) == IsPass(f, m, S, base, step)
            T == {m \in 0..n : \E f : Made(f, m)}
<1>. USE DEF IsPass, StepsOf
<1>1. 0 \in T
  <2>1. Made([i \in 0..0 |-> base], 0)
    <3>1. 1..0 = {} /\ 0 \in 0..0
      OBVIOUS
    <3>. QED  BY <3>1
  <2>2. 0 \in 0..n
    OBVIOUS
  <2>. HIDE DEF Made
  <2>. QED  BY <2>1, <2>2
<1>2. ASSUME NEW m \in 1..n, m - 1 \in T
      PROVE  m \in T
  <2>1. PICK f : Made(f, m - 1)
    BY <1>2
  <2>. DEFINE g == [i \in 0..m |-> IF i = m THEN step[m][f[m - 1]] ELSE f[i]]
  <2>2. m - 1 \in 0..(m - 1) /\ step[m] \in [S -> S] /\ f[m - 1] \in S
    BY <2>1
  <2>3. ASSUME NEW i \in 0..m  PROVE g[i] \in S
    <3>1. i # m => i \in 0..(m - 1)
      OBVIOUS
    <3>. QED  BY <2>1, <2>2, <3>1
  <2>4. ASSUME NEW i \in 1..m  PROVE g[i] = step[i][g[i - 1]]
    <3>1. i - 1 \in 0..m /\ i - 1 # m /\ (i # m => i \in 1..(m - 1))
      OBVIOUS
    <3>2. g[i - 1] = f[i - 1]
      BY <3>1
    <3>. QED  BY <2>1, <3>1, <3>2
  <2>5. Made(g, m)
    <3>1. g[0] = base
      BY <2>1
    <3>2. g \in [0..m -> S]
      BY <2>3
    <3>. HIDE DEF g
    <3>. QED  BY <2>4, <3>1, <3>2
  <2>. HIDE DEF Made, g
  <2>. QED  BY <2>5
<1>3. \A m \in 0..n : m \in T
  <2>. HIDE DEF T
  <2>. QED  BY <1>1, <1>2, CountUp
<1>4. n \in 0..n
  OBVIOUS
<1>. HIDE DEF Made
<1>5. \E f : Made(f, n)
  BY <1>3, <1>4
<1>. QED  BY <1>5 DEF Made

\* A function on 1..n is a sequence.
LEMMA FunctionIsSeq ==
  ASSUME NEW n \in Nat, NEW S, NEW f \in [1..n -> S]
  PROVE  f \in Seq(S) /\ Len(f) = n /\ DOMAIN f = 1..n
OBVIOUS

\* One entry more: what a sequence holds, and whether it holds it once.
LEMMA AppendFacts ==
  ASSUME NEW S, NEW k \in Seq(S), NEW e \in S
  PROVE  /\ Append(k, e) \in Seq(S)
         /\ Range(Append(k, e)) = Range(k) \cup {e}
         /\ IsInjective(k) /\ e \notin Range(k) => IsInjective(Append(k, e))
<1>. DEFINE a == Append(k, e)
            n == Len(k)
<1>1. /\ a \in Seq(S) /\ n \in Nat /\ DOMAIN k = 1..n /\ DOMAIN a = 1..(n + 1)
      /\ \A i \in 1..n : a[i] = k[i]
      /\ a[n + 1] = e
  OBVIOUS
<1>. HIDE DEF a, n
<1>2. DOMAIN a = DOMAIN k \cup {n + 1} /\ n + 1 \notin DOMAIN k
  BY <1>1
<1>3. Range(a) = Range(k) \cup {e}
  BY <1>1, <1>2 DEF Range
<1>4. IsInjective(k) /\ e \notin Range(k) => IsInjective(a)
  BY <1>1, <1>2 DEF Range, IsInjective
<1>. QED  BY <1>1, <1>3, <1>4 DEF a

\* What Keep pushes, entry by entry.
LEMMA KeepFacts ==
  ASSUME NEW S, NEW t \in Seq(S), NEW set
  PROVE  /\ Keep(t, set) \in Seq(S)
         /\ Range(Keep(t, set)) = Range(t) \cap set
         /\ IsInjective(t) => IsInjective(Keep(t, set))
<1>. DEFINE n == Len(t)
            Push(k, i) == IF t[i] \in set THEN Append(k, t[i]) ELSE k
            step == [i \in 1..n |-> [k \in Seq(S) |-> Push(k, i)]]
            kept[i \in 0..Len(t)] ==
                IF i = 0 THEN <<>>
                ELSE IF t[i] \in set THEN Append(kept[i - 1], t[i]) ELSE kept[i - 1]
<1>1. n \in Nat /\ DOMAIN t = 1..n /\ \A i \in 1..n : t[i] \in S
  OBVIOUS
<1>2. step \in StepsOf(n, Seq(S)) /\ <<>> \in Seq(S)
  BY <1>1 DEF StepsOf
<1>3. PICK f \in [0..n -> Seq(S)] :
        f[0] = <<>> /\ \A i \in 1..n : f[i] = step[i][f[i - 1]]
  <2>. HIDE DEF step, n
  <2>1. \E f : IsPass(f, n, Seq(S), <<>>, step)
    BY <1>1, <1>2, PassExists
  <2>. QED  BY <2>1 DEF IsPass
<1>4. f = [i \in 0..n |-> IF i = 0 THEN <<>> ELSE Push(f[i - 1], i)]
  <2>1. \A i \in 0..n : i # 0 => i \in 1..n /\ f[i - 1] \in Seq(S)
    <3>1. \A i \in 0..n : i # 0 => i \in 1..n /\ i - 1 \in 0..n
      BY <1>1
    <3>. HIDE DEF step, n
    <3>. QED  BY <1>3, <3>1
  <2>2. \A i \in 1..n, k \in Seq(S) : step[i][k] = Push(k, i)
    OBVIOUS
  <2>. HIDE DEF step, n, Push
  <2>3. \A i \in 0..n : f[i] = IF i = 0 THEN <<>> ELSE Push(f[i - 1], i)
    BY <1>3, <2>1, <2>2
  <2>4. f = [i \in 0..n |-> f[i]]
    BY <1>3
  <2>. QED  BY <2>3, <2>4
<1>5. kept = [i \in 0..n |-> IF i = 0 THEN <<>> ELSE Push(kept[i - 1], i)]
  BY <1>4
<1>6. Keep(t, set) = kept[n]
  BY DEF Keep
<1>. HIDE DEF kept, step
<1>. DEFINE Good(i) == /\ kept[i] \in Seq(S)
                       /\ Range(kept[i]) = {t[j] : j \in 1..i} \cap set
                       /\ IsInjective(t) => IsInjective(kept[i])
<1>7. Good(0)
  <2>1. kept[0] = <<>>
    BY <1>1, <1>5
  <2>2. Range(<<>>) = {} /\ IsInjective(<<>>) /\ <<>> \in Seq(S)
    BY DEF Range, IsInjective
  <2>3. {t[j] : j \in 1..0} = {}
    OBVIOUS
  <2>. QED  BY <2>1, <2>2, <2>3
<1>8. ASSUME NEW i \in 1..n, Good(i - 1)
      PROVE  Good(i)
  <2>1. i - 1 \in 0..n /\ t[i] \in S /\ i \in DOMAIN t /\ i \in 0..n /\ i # 0
    BY <1>1, <1>8
  <2>2. {t[j] : j \in 1..i} = {t[j] : j \in 1..(i - 1)} \cup {t[i]}
    <3>. DEFINE upTo == 1..i
                before == 1..(i - 1)
    <3>1. upTo = before \cup {i}
      BY <1>1
    <3>. HIDE DEF upTo, before
    <3>2. {t[j] : j \in upTo} = {t[j] : j \in before} \cup {t[i]}
      BY <3>1
    <3>. QED  BY <3>2 DEF upTo, before
  <2>3. kept[i] = Push(kept[i - 1], i)
    <3>. HIDE DEF Push, n
    <3>. QED  BY <1>5, <2>1
  <2>4. CASE t[i] \notin set
    <3>1. kept[i] = kept[i - 1]
      BY <2>3, <2>4
    <3>. QED  BY <1>8, <2>2, <2>4, <3>1
  <2>5. CASE t[i] \in set
    <3>. DEFINE k == kept[i - 1]
    <3>1. kept[i] = Append(k, t[i])
      BY <2>3, <2>5
    <3>2. k \in Seq(S) /\ Range(k) = {t[j] : j \in 1..(i - 1)} \cap set
          /\ (IsInjective(t) => IsInjective(k))
      BY <1>8
    <3>. HIDE DEF k
    <3>3. Append(k, t[i]) \in Seq(S) /\ Range(Append(k, t[i])) = Range(k) \cup {t[i]}
      <4>1. k \in Seq(S) /\ t[i] \in S
        BY <2>1, <3>2
      <4>. QED  BY <4>1, AppendFacts
    <3>4. ASSUME IsInjective(t)
          PROVE  IsInjective(Append(k, t[i]))
      <4>1. t[i] \notin {t[j] : j \in 1..(i - 1)}
        <5>1. \A j \in 1..(i - 1) : j \in DOMAIN t /\ j # i
          BY <1>1, <2>1
        <5>. QED  BY <2>1, <3>4, <5>1 DEF IsInjective
      <4>2. t[i] \notin Range(k)
        BY <3>2, <4>1
      <4>3. IsInjective(k)
        BY <3>2, <3>4
      <4>. QED  BY <2>1, <3>2, <4>2, <4>3, AppendFacts
    <3>. QED  BY <2>2, <2>5, <3>1, <3>2, <3>3, <3>4
  <2>. QED  BY <2>4, <2>5
<1>9. Good(n)
  <2>. DEFINE T == {i \in 0..n : Good(i)}
  <2>. HIDE DEF Good
  <2>1. 0 \in T
    BY <1>1, <1>7
  <2>2. ASSUME NEW i \in 1..n, i - 1 \in T
        PROVE  i \in T
    BY <1>1, <1>8, <2>2
  <2>3. \A i \in 0..n : i \in T
    <3>. HIDE DEF T
    <3>. QED  BY <1>1, <2>1, <2>2, CountUp
  <2>4. n \in 0..n
    BY <1>1
  <2>. HIDE DEF n
  <2>. QED  BY <2>3, <2>4
<1>10. {t[j] : j \in 1..n} = Range(t)
  BY <1>1 DEF Range
<1>. QED  BY <1>6, <1>9, <1>10

-----------------------------------------------------------------------------
(***************************************************************************)
(* Sequences put end to end, and their parts.                              *)
(***************************************************************************)
\* Two sequences joined.
LEMMA ConcatType ==
  ASSUME NEW S, NEW s \in Seq(S), NEW t \in Seq(S)
  PROVE  s \o t \in Seq(S)
OBVIOUS

\* Three sequences join in either order.
LEMMA ConcatAssoc ==
  ASSUME NEW S, NEW s \in Seq(S), NEW t \in Seq(S), NEW u \in Seq(S)
  PROVE  s \o (t \o u) = (s \o t) \o u
OBVIOUS

\* Named, so that a proof can cite it without unfolding the sequences.
Associate(s, t, u) == s \o (t \o u) = (s \o t) \o u

\* The same, of the name.
LEMMA Associative ==
  ASSUME NEW S, NEW s \in Seq(S), NEW t \in Seq(S), NEW u \in Seq(S)
  PROVE  Associate(s, t, u)
BY ConcatAssoc DEF Associate

\* An element put at the end is a sequence of one.
LEMMA AppendJoins ==
  ASSUME NEW S, NEW s \in Seq(S), NEW a \in S
  PROVE  Append(s, a) = s \o <<a>>
OBVIOUS

\* Two elements are one put after the other.
LEMMA PairIsAppend ==
  ASSUME NEW a, NEW b
  PROVE  <<a, b>> = Append(<<a>>, b)
OBVIOUS

\* An element of a sequence over a set is in it.
LEMMA ElementType ==
  ASSUME NEW S, NEW s \in Seq(S), NEW i \in 1..Len(s)
  PROVE  s[i] \in S
OBVIOUS

\* The beginnings of a sequence.
LEMMA PrefixFacts ==
  ASSUME NEW S, NEW s \in Seq(S)
  PROVE  /\ SubSeq(s, 1, 0) = <<>> /\ SubSeq(s, 1, Len(s)) = s
         /\ \A i \in 0..Len(s) : SubSeq(s, 1, i) \in Seq(S)
         /\ \A i \in 1..Len(s) : SubSeq(s, 1, i) = Append(SubSeq(s, 1, i - 1), s[i])
OBVIOUS

\* A prefix and the slice that follows it.
LEMMA SlicesJoin ==
  ASSUME NEW S, NEW s \in Seq(S), NEW a \in Nat, NEW b \in Nat, a <= b, b <= Len(s)
  PROVE  SubSeq(s, 1, a) \o SubSeq(s, a + 1, b) = SubSeq(s, 1, b)
OBVIOUS

\* A slice of a sequence over a set is one.
LEMMA SliceType ==
  ASSUME NEW S, NEW s \in Seq(S), NEW a \in Nat, NEW b \in Nat, a <= b, b <= Len(s)
  PROVE  SubSeq(s, 1, a) \in Seq(S) /\ SubSeq(s, a + 1, b) \in Seq(S)
OBVIOUS

\* A block that has lost a line is still lines.
LEMMA EndsType ==
  ASSUME NEW S, NEW s \in Seq(S)
  PROVE  Front(s) \in Seq(S) /\ (s # <<>> => Tail(s) \in Seq(S))
<1>1. \A i \in 1..(Len(s) - 1) : s[i] \in S
  OBVIOUS
<1>2. SubSeq(s, 1, Len(s) - 1) \in Seq(S)
  BY <1>1
<1>. QED  BY <1>2 DEF Front

\* Beginnings of sequences.
LEMMA BeginningFacts ==
  ASSUME NEW S, NEW s \in Seq(S), NEW t \in Seq(S)
  PROVE  IsPrefix(s, t) <=> Len(s) <= Len(t) /\ \A i \in 1..Len(s) : s[i] = t[i]
<1>. DEFINE n == Len(s)
<1>1. n \in Nat /\ SubSeq(s, 1, n) = s
  OBVIOUS
<1>2. CASE n <= Len(t)
  <2>. DEFINE u == SubSeq(t, 1, n)
  <2>1. u \in Seq(S) /\ Len(u) = n /\ \A i \in 1..n : u[i] = t[i]
    BY <1>2
  <2>2. s = u <=> \A i \in 1..n : s[i] = t[i]
    <3>. HIDE DEF u
    <3>. QED  BY <2>1
  <2>. QED  BY <1>1, <1>2, <2>2 DEF IsPrefix
<1>3. CASE ~(n <= Len(t))
  BY <1>3 DEF IsPrefix
<1>. QED  BY <1>2, <1>3

\* One element more at the end leaves the beginnings what they were.
LEMMA BeginningOfAppend ==
  ASSUME NEW S, NEW s \in Seq(S), NEW t \in Seq(S), IsPrefix(s, t), NEW e \in S
  PROVE  IsPrefix(s, Append(t, e))
<1>. DEFINE u == Append(t, e)
<1>1. u \in Seq(S) /\ Len(u) = Len(t) + 1 /\ \A i \in 1..Len(t) : u[i] = t[i]
  OBVIOUS
<1>2. Len(s) <= Len(t) /\ \A i \in 1..Len(s) : s[i] = t[i]
  BY BeginningFacts
<1>3. Len(s) \in Nat /\ Len(t) \in Nat
  OBVIOUS
<1>. HIDE DEF u
<1>4. Len(s) <= Len(u) /\ \A i \in 1..Len(s) : s[i] = u[i]
  BY <1>1, <1>2, <1>3
<1>. QED  BY <1>1, <1>4, BeginningFacts DEF u

\* FlattenSeq joins its pieces from the first to the last.
LEMMA FlattenPass ==
  ASSUME NEW S, NEW ss \in Seq(Seq(S)), ss # <<>>
  PROVE  \E f \in [1..Len(ss) -> Seq(S)] :
            /\ f[1] = ss[1]
            /\ \A i \in 2..Len(ss) : f[i] = f[i - 1] \o ss[i]
            /\ FlattenSeq(ss) = f[Len(ss)]
<1>. DEFINE V == Seq(S)
            n == Len(ss)
            step == [i \in 1..n |-> [x \in V |-> IF i = 1 THEN ss[i] ELSE x \o ss[i]]]
            pass[i \in 1..Len(ss)] == IF i = 1 THEN ss[i] ELSE pass[i - 1] \o ss[i]
<1>1. n \in Nat /\ n # 0 /\ \A i \in 1..n : ss[i] \in V
  OBVIOUS
<1>2. step \in StepsOf(n, V)
  <2>1. ASSUME NEW i \in 1..n, NEW x \in V
        PROVE  (IF i = 1 THEN ss[i] ELSE x \o ss[i]) \in V
    <3>. DEFINE t == ss[i]
    <3>1. t \in Seq(S)
      BY <1>1
    <3>. HIDE DEF t
    <3>2. x \o t \in Seq(S)
      BY <3>1, ConcatType
    <3>. QED  BY <3>1, <3>2 DEF t
  <2>. HIDE DEF V
  <2>. QED  BY <2>1 DEF StepsOf
<1>3. <<>> \in V
  OBVIOUS
<1>. HIDE DEF V
<1>4. PICK h \in [0..n -> V] :
        h[0] = <<>> /\ \A i \in 1..n : h[i] = step[i][h[i - 1]]
  <2>. HIDE DEF step, n
  <2>1. \E h : IsPass(h, n, V, <<>>, step)
    BY <1>1, <1>2, <1>3, PassExists
  <2>. QED  BY <2>1 DEF IsPass
<1>5. \A i \in 1..n : h[i] = IF i = 1 THEN ss[i] ELSE h[i - 1] \o ss[i]
  <2>1. \A i \in 1..n : i - 1 \in 0..n
    BY <1>1
  <2>2. \A i \in 1..n, x \in V : step[i][x] = IF i = 1 THEN ss[i] ELSE x \o ss[i]
    OBVIOUS
  <2>. HIDE DEF step, n
  <2>. QED  BY <1>4, <2>1, <2>2
<1>. DEFINE f == [i \in 1..n |-> h[i]]
<1>6. \A i \in 1..n : i # 1 => i - 1 \in 1..n
  BY <1>1
<1>7. f \in [1..n -> V]
  <2>1. \A i \in 1..n : i \in 0..n
    BY <1>1
  <2>. HIDE DEF n
  <2>. QED  BY <1>4, <2>1
<1>8. f = [i \in 1..n |-> IF i = 1 THEN ss[i] ELSE f[i - 1] \o ss[i]]
  <2>. HIDE DEF n, step
  <2>. QED  BY <1>5, <1>6
<1>9. pass = [i \in 1..n |-> IF i = 1 THEN ss[i] ELSE pass[i - 1] \o ss[i]]
  <2>1. n = Len(ss)
    OBVIOUS
  <2>. HIDE DEF f
  <2>. QED  BY <1>8, <2>1
<1>14. \A i \in 1..n : i # 1 => f[i] = f[i - 1] \o ss[i] /\ pass[i] = pass[i - 1] \o ss[i]
  <2>. HIDE DEF f, pass, n
  <2>1. ASSUME NEW i \in 1..n, i # 1 PROVE f[i] = f[i - 1] \o ss[i]
    <3>. DEFINE Before == f[i - 1]
    <3>1. f[i] = IF i = 1 THEN ss[i] ELSE Before \o ss[i]
      BY <1>8
    <3>. QED  BY <2>1, <3>1
  <2>2. ASSUME NEW i \in 1..n, i # 1 PROVE pass[i] = pass[i - 1] \o ss[i]
    <3>. DEFINE Before == pass[i - 1]
    <3>1. pass[i] = IF i = 1 THEN ss[i] ELSE Before \o ss[i]
      BY <1>9
    <3>. QED  BY <2>2, <3>1
  <2>. QED  BY <2>1, <2>2
<1>10. FlattenSeq(ss) = pass[n]
  BY <1>1 DEF FlattenSeq
<1>. HIDE DEF pass, step, f
<1>11. \A i \in 1..n : pass[i] = f[i]
  <2>. DEFINE T == {0} \cup {k \in 1..n : pass[k] = f[k]}
  <2>1. 0 \in T
    OBVIOUS
  <2>2. ASSUME NEW i \in 1..n, i - 1 \in T PROVE i \in T
    <3>1. CASE i = 1
      BY <1>8, <1>9, <3>1
    <3>2. CASE i # 1
      <4>1. i - 1 \in 1..n /\ i - 1 # 0
        BY <1>6, <3>2
      <4>2. pass[i - 1] = f[i - 1]
        BY <2>2, <4>1
      <4>3. f[i] = f[i - 1] \o ss[i] /\ pass[i] = pass[i - 1] \o ss[i]
        BY <1>14, <3>2
      <4>4. pass[i] = f[i]
        BY <4>2, <4>3
      <4>. QED  BY <4>4
    <3>. QED  BY <3>1, <3>2
  <2>. HIDE DEF T
  <2>3. \A i \in 0..n : i \in T
    BY <1>1, <2>1, <2>2, CountUp
  <2>4. \A i \in 1..n : i \in 0..n /\ i # 0
    BY <1>1
  <2>. QED  BY <2>3, <2>4 DEF T
<1>12. n \in 1..n /\ 1 \in 1..n /\ \A i \in 2..n : i \in 1..n /\ i # 1
  BY <1>1
<1>13. f[1] = ss[1] /\ (\A i \in 2..n : f[i] = f[i - 1] \o ss[i]) /\ FlattenSeq(ss) = f[n]
  <2>. HIDE DEF n
  <2>. QED  BY <1>8, <1>10, <1>11, <1>12
<1>. QED  BY <1>7, <1>13 DEF V

\* Nothing joined is nothing.
LEMMA FlattenEmpty == FlattenSeq(<<>>) = <<>>
BY DEF FlattenSeq

\* Sequences over a set join to a sequence over it.
LEMMA FlattenType ==
  ASSUME NEW S, NEW ss \in Seq(Seq(S))
  PROVE  FlattenSeq(ss) \in Seq(S)
<1>1. CASE ss = <<>>
  <2>1. FlattenSeq(ss) = <<>> /\ <<>> \in Seq(S)
    BY <1>1, FlattenEmpty
  <2>. QED  BY <2>1
<1>2. CASE ss # <<>>
  <2>1. PICK f \in [1..Len(ss) -> Seq(S)] : FlattenSeq(ss) = f[Len(ss)]
    BY <1>2, FlattenPass
  <2>2. Len(ss) \in 1..Len(ss)
    BY <1>2
  <2>. QED  BY <2>1, <2>2
<1>. QED  BY <1>1, <1>2

\* One piece more is joined at the end.
LEMMA FlattenAppend ==
  ASSUME NEW S, NEW ss \in Seq(Seq(S)), NEW s \in Seq(S)
  PROVE  FlattenSeq(Append(ss, s)) = FlattenSeq(ss) \o s
<1>. DEFINE n == Len(ss)
            more == Append(ss, s)
<1>1. /\ more \in Seq(Seq(S)) /\ Len(more) = n + 1 /\ n \in Nat /\ more # <<>>
      /\ more[n + 1] = s /\ \A i \in 1..n : more[i] = ss[i]
  <2>. DEFINE V == Seq(S)
  <2>1. ss \in Seq(V) /\ s \in V
    OBVIOUS
  <2>. HIDE DEF V
  <2>2. /\ more \in Seq(V) /\ Len(more) = n + 1 /\ n \in Nat /\ more # <<>>
        /\ more[n + 1] = s /\ \A i \in 1..n : more[i] = ss[i]
    BY <2>1
  <2>. QED  BY <2>2 DEF V
<1>. HIDE DEF more
<1>2. PICK g \in [1..Len(more) -> Seq(S)] :
        /\ g[1] = more[1] /\ \A i \in 2..Len(more) : g[i] = g[i - 1] \o more[i]
        /\ FlattenSeq(more) = g[Len(more)]
  BY <1>1, FlattenPass
<1>3. CASE ss = <<>>
  <2>1. FlattenSeq(more) = s
    BY <1>1, <1>2, <1>3
  <2>2. <<>> \o s = s
    OBVIOUS
  <2>. QED  BY <1>3, <2>1, <2>2, FlattenEmpty DEF more
<1>4. CASE ss # <<>>
  <2>1. PICK f \in [1..n -> Seq(S)] :
          /\ f[1] = ss[1] /\ \A i \in 2..n : f[i] = f[i - 1] \o ss[i]
          /\ FlattenSeq(ss) = f[n]
    BY <1>4, FlattenPass
  <2>2. n >= 1
    BY <1>4
  <2>. HIDE DEF n
  <2>. DEFINE T == {0} \cup {i \in 1..n : f[i] = g[i]}
  <2>3. 0 \in T
    OBVIOUS
  <2>4. ASSUME NEW i \in 1..n, i - 1 \in T PROVE i \in T
    <3>1. CASE i = 1
      BY <1>1, <1>2, <2>1, <3>1
    <3>2. CASE i # 1
      <4>1. i - 1 # 0 /\ i \in 2..n /\ i \in 2..Len(more)
        BY <1>1, <3>2
      <4>2. f[i - 1] = g[i - 1]
        BY <2>4, <4>1
      <4>. QED  BY <1>1, <1>2, <2>1, <4>1, <4>2
    <3>. QED  BY <3>1, <3>2
  <2>5. f[n] = g[n]
    <3>. HIDE DEF T
    <3>1. n \in T
      <4>1. n \in 0..n
        BY <1>1
      <4>. QED  BY <1>1, <2>3, <2>4, <4>1, CountUp
    <3>. QED  BY <2>2, <3>1 DEF T
  <2>6. n + 1 \in 2..Len(more) /\ (n + 1) - 1 = n
    BY <1>1, <2>2
  <2>7. g[n + 1] = g[n] \o s
    BY <1>1, <1>2, <2>6
  <2>. QED  BY <1>1, <1>2, <2>1, <2>5, <2>7 DEF more
<1>. QED  BY <1>3, <1>4
=============================================================================
