--------------------------- MODULE SelectionsProofs ---------------------------
(***************************************************************************)
(* How the operators of Selections go through concatenation, and with it   *)
(* through everything that a stream, a queue or a history does: to get an  *)
(* element at its end, or to lose the one at its head.                     *)
(***************************************************************************)
EXTENDS Selections, FiniteSetTheorems, SequenceTheorems, TLAPS

LEMMA CountToBounds ==
  ASSUME NEW s, NEW n \in Nat, NEW S
  PROVE  /\ IsFiniteSet({i \in 1 .. n : s[i] \in S})
         /\ CountTo(s, n, S) \in Nat /\ CountTo(s, n, S) <= n
<1>1. IsFiniteSet(1 .. n) /\ Cardinality(1 .. n) = n
  BY FS_Interval
<1>2. {i \in 1 .. n : s[i] \in S} \in SUBSET (1 .. n)
  OBVIOUS
<1> QED
  BY <1>1, <1>2, FS_Subset, FS_CardinalityType DEF CountTo

LEMMA CountToZero ==
  ASSUME NEW s, NEW S
  PROVE  CountTo(s, 0, S) = 0
<1>1. {i \in 1 .. 0 : s[i] \in S} = {}
  OBVIOUS
<1> QED
  BY <1>1, FS_EmptySet DEF CountTo

\* The count goes up at an element of S, and there only.
LEMMA CountToNext ==
  ASSUME NEW s, NEW n \in Nat, NEW S
  PROVE  CountTo(s, n + 1, S) = CountTo(s, n, S) + IF s[n + 1] \in S THEN 1 ELSE 0
<1> DEFINE before == {i \in 1 .. n : s[i] \in S}
           now == {i \in 1 .. n + 1 : s[i] \in S}
<1>1. IsFiniteSet(before) /\ Cardinality(before) \in Nat
  BY CountToBounds DEF CountTo
<1>0. n + 1 \notin before
  OBVIOUS
<1>2. CASE s[n + 1] \in S
  <2>1. now = before \cup {n + 1}
    BY <1>2
  <2>2. Cardinality(before \cup {n + 1}) = Cardinality(before) + 1
    <3> HIDE DEF before
    <3> QED
      BY <1>0, <1>1, FS_AddElement
  <2> QED
    BY <1>2, <2>1, <2>2 DEF CountTo
<1>3. CASE s[n + 1] \notin S
  <2>1. now = before
    BY <1>3
  <2> QED
    BY <1>1, <1>3, <2>1 DEF CountTo
<1> QED
  BY <1>2, <1>3

\* The n elements of s that come after the first m are the first n of t.
Repeats(s, m, t, n) == \A i \in 1 .. n : s[m + i] = t[i]

\* Counting goes on within the second of two sequences put together.
LEMMA CountToShifted ==
  ASSUME NEW s, NEW t, NEW m \in Nat, NEW n \in Nat, NEW S, Repeats(s, m, t, n)
  PROVE  CountTo(s, m + n, S) = CountTo(s, m, S) + CountTo(t, n, S)
<1> DEFINE first == {i \in 1 .. m : s[i] \in S}
           second == {i \in 1 .. n : t[i] \in S}
           moved == {i \in m + 1 .. m + n : s[i] \in S}
           all == {i \in 1 .. m + n : s[i] \in S}
           f == [i \in second |-> m + i]
<1>0. \A i \in 1 .. n : s[m + i] = t[i]
  BY DEF Repeats
<1>1. /\ IsFiniteSet(first) /\ Cardinality(first) \in Nat
      /\ IsFiniteSet(second) /\ Cardinality(second) \in Nat
  BY CountToBounds DEF CountTo
<1>2. f \in Bijection(second, moved)
  <2>1. f \in [second -> moved]
    BY <1>0
  <2>2. \A i, j \in second : f[i] = f[j] => i = j
    OBVIOUS
  <2>3. ASSUME NEW j \in moved
        PROVE  \E i \in second : f[i] = j
    <3>1. j - m \in 1 .. n /\ m + (j - m) = j
      OBVIOUS
    <3>2. j - m \in second
      BY <1>0, <3>1
    <3> QED
      BY <3>1, <3>2
  <2> QED
    BY <2>1, <2>2, <2>3 DEF Bijection, Injection, Surjection, IsInjective
<1>3. IsFiniteSet(moved) /\ Cardinality(moved) = Cardinality(second)
  <2>1. ExistsBijection(second, moved)
    BY <1>2 DEF ExistsBijection
  <2> QED
    BY <1>1, <2>1, FS_Bijection
<1>4. all = first \cup moved /\ first \cap moved = {}
  OBVIOUS
<1>5. CountTo(s, m + n, S) = Cardinality(all) /\ CountTo(s, m, S) = Cardinality(first)
      /\ CountTo(t, n, S) = Cardinality(second)
  BY DEF CountTo
<1> HIDE DEF first, second, moved, all
<1>6. Cardinality(first \cup moved) =
        Cardinality(first) + Cardinality(moved) - Cardinality(first \cap moved)
  BY <1>1, <1>3, FS_Union
<1>7. Cardinality({}) = 0
  BY FS_EmptySet
<1>8. Cardinality(all) = Cardinality(first) + Cardinality(moved) - 0
  BY <1>4, <1>6, <1>7, Zenon
<1> QED
  BY <1>1, <1>3, <1>5, <1>8

-------------------------------------------------------------------------------
LEMMA CountType ==
  ASSUME NEW X, NEW s \in Seq(X), NEW S
  PROVE  Count(s, S) \in Nat /\ Count(s, S) <= Len(s)
BY CountToBounds, LenProperties DEF Count

\* A sequence made of two holds the one and then the other.
LEMMA ConcatRepeats ==
  ASSUME NEW X, NEW a \in Seq(X), NEW b \in Seq(X)
  PROVE  /\ Len(a) \in Nat /\ Len(b) \in Nat /\ Len(a \o b) = Len(a) + Len(b)
         /\ \A i \in 1 .. Len(a) : (a \o b)[i] = a[i]
         /\ \A i \in 1 .. Len(b) : (a \o b)[Len(a) + i] = b[i]
         /\ \A n \in 0 .. Len(a) : Repeats(a \o b, 0, a, n)
         /\ \A n \in 0 .. Len(b) : Repeats(a \o b, Len(a), b, n)
<1>1. /\ Len(a) \in Nat /\ Len(b) \in Nat /\ Len(a \o b) = Len(a) + Len(b)
      /\ \A i \in 1 .. Len(a) + Len(b) :
           (a \o b)[i] = IF i <= Len(a) THEN a[i] ELSE b[i - Len(a)]
  BY ConcatProperties, LenProperties
<1> DEFINE c == a \o b
<1> HIDE DEF c
<1>2. \A i \in 1 .. Len(a) : c[i] = a[i]
  BY <1>1 DEF c
<1>3. ASSUME NEW i \in 1 .. Len(b)
      PROVE  c[Len(a) + i] = b[i]
  <2>1. Len(a) + i \in 1 .. Len(a) + Len(b) /\ ~(Len(a) + i <= Len(a))
        /\ (Len(a) + i) - Len(a) = i
    BY <1>1
  <2> QED
    BY <1>1, <2>1 DEF c
<1>4. ASSUME NEW n \in 0 .. Len(a)
      PROVE  Repeats(c, 0, a, n)
  <2> SUFFICES ASSUME NEW i \in 1 .. n
               PROVE  c[0 + i] = a[i]
    BY DEF Repeats
  <2> QED
    BY <1>1, <1>2
<1>5. ASSUME NEW n \in 0 .. Len(b)
      PROVE  Repeats(c, Len(a), b, n)
  <2> SUFFICES ASSUME NEW i \in 1 .. n
               PROVE  c[Len(a) + i] = b[i]
    BY DEF Repeats
  <2> QED
    BY <1>1, <1>3
<1> QED
  BY <1>1, <1>2, <1>3, <1>4, <1>5 DEF c

\* What is counted up to a place in the first of the two, and in the second.
LEMMA CountToConcat ==
  ASSUME NEW X, NEW a \in Seq(X), NEW b \in Seq(X), NEW S
  PROVE  /\ \A n \in 0 .. Len(a) : CountTo(a \o b, n, S) = CountTo(a, n, S)
         /\ \A n \in 0 .. Len(b) :
              CountTo(a \o b, Len(a) + n, S) = Count(a, S) + CountTo(b, n, S)
<1> DEFINE c == a \o b
<1>1. /\ Len(a) \in Nat /\ Len(b) \in Nat
      /\ \A n \in 0 .. Len(a) : Repeats(c, 0, a, n)
      /\ \A n \in 0 .. Len(b) : Repeats(c, Len(a), b, n)
  BY ConcatRepeats
<1> HIDE DEF c
<1>2. ASSUME NEW n \in 0 .. Len(a)
      PROVE  CountTo(c, n, S) = CountTo(a, n, S)
  <2>1. n \in Nat /\ 0 + n = n /\ Repeats(c, 0, a, n)
    BY <1>1
  <2>2. CountTo(c, 0 + n, S) = CountTo(c, 0, S) + CountTo(a, n, S)
    BY <2>1, CountToShifted
  <2>3. CountTo(c, 0, S) = 0 /\ CountTo(a, n, S) \in Nat
    BY <2>1, CountToZero, CountToBounds
  <2> QED
    BY <2>1, <2>2, <2>3
<1>3. ASSUME NEW n \in 0 .. Len(b)
      PROVE  CountTo(c, Len(a) + n, S) = Count(a, S) + CountTo(b, n, S)
  <2>1. n \in Nat /\ Repeats(c, Len(a), b, n)
    BY <1>1
  <2>2. CountTo(c, Len(a) + n, S) = CountTo(c, Len(a), S) + CountTo(b, n, S)
    BY <1>1, <2>1, CountToShifted
  <2>3. CountTo(c, Len(a), S) = CountTo(a, Len(a), S)
    BY <1>1, <1>2
  <2> QED
    BY <2>2, <2>3 DEF Count
<1> QED
  BY <1>2, <1>3 DEF c

LEMMA CountConcat ==
  ASSUME NEW X, NEW a \in Seq(X), NEW b \in Seq(X), NEW S
  PROVE  /\ Count(a \o b, S) = Count(a, S) + Count(b, S)
         /\ Count(a, S) \in Nat /\ Count(b, S) \in Nat
<1>1. Len(a) \in Nat /\ Len(b) \in Nat /\ Len(a \o b) = Len(a) + Len(b)
  BY ConcatRepeats
<1>2. CountTo(a \o b, Len(a) + Len(b), S) = Count(a, S) + CountTo(b, Len(b), S)
  <2>1. Len(b) \in 0 .. Len(b)
    BY <1>1
  <2> QED
    BY <2>1, CountToConcat
<1> QED
  BY <1>1, <1>2, CountType DEF Count

LEMMA ContinuesConcat ==
  ASSUME NEW X, NEW a \in Seq(X), NEW b \in Seq(X), NEW S, NEW t, NEW k \in Nat
  PROVE  Continues(a \o b, S, t, k)
           <=> Continues(a, S, t, k) /\ Continues(b, S, t, k + Count(a, S))
<1> DEFINE c == a \o b
           Here(i) == c[i] \in S => k + CountTo(c, i, S) <= Len(t)
                                    /\ c[i] = t[k + CountTo(c, i, S)]
<1>1. /\ Len(a) \in Nat /\ Len(b) \in Nat /\ Len(c) = Len(a) + Len(b)
      /\ \A i \in 1 .. Len(a) : c[i] = a[i]
      /\ \A i \in 1 .. Len(b) : c[Len(a) + i] = b[i]
  BY ConcatRepeats
<1>2. /\ \A n \in 0 .. Len(a) : CountTo(c, n, S) = CountTo(a, n, S)
      /\ \A n \in 0 .. Len(b) : CountTo(c, Len(a) + n, S) = Count(a, S) + CountTo(b, n, S)
  BY CountToConcat
<1>3. Count(a, S) \in Nat
  BY CountType
<1> HIDE DEF c
<1>4. Continues(c, S, t, k) <=> \A i \in 1 .. Len(a) + Len(b) : Here(i)
  BY <1>1 DEF Continues
<1>5. Continues(a, S, t, k) <=> \A i \in 1 .. Len(a) : Here(i)
  <2>1. ASSUME NEW i \in 1 .. Len(a)
        PROVE  c[i] = a[i] /\ CountTo(c, i, S) = CountTo(a, i, S)
    BY <1>1, <1>2
  <2> QED
    BY <2>1 DEF Continues
<1>6. Continues(b, S, t, k + Count(a, S)) <=> \A i \in 1 .. Len(b) : Here(Len(a) + i)
  <2>1. ASSUME NEW i \in 1 .. Len(b)
        PROVE  /\ c[Len(a) + i] = b[i]
               /\ k + CountTo(c, Len(a) + i, S) = (k + Count(a, S)) + CountTo(b, i, S)
    <3>1. i \in 0 .. Len(b) /\ i \in Nat
      BY <1>1
    <3>2. CountTo(b, i, S) \in Nat
      BY <3>1, CountToBounds
    <3> QED
      BY <1>1, <1>2, <1>3, <3>1, <3>2
  <2> QED
    BY <2>1 DEF Continues
<1> HIDE DEF Here
<1>7. (\A i \in 1 .. Len(a) + Len(b) : Here(i))
        <=> (\A i \in 1 .. Len(a) : Here(i)) /\ \A i \in 1 .. Len(b) : Here(Len(a) + i)
  <2>1. ASSUME \A i \in 1 .. Len(a) : Here(i), \A i \in 1 .. Len(b) : Here(Len(a) + i),
               NEW i \in 1 .. Len(a) + Len(b)
        PROVE  Here(i)
    <3>1. CASE i <= Len(a)
      BY <1>1, <2>1, <3>1
    <3>2. CASE i > Len(a)
      <4>1. i - Len(a) \in 1 .. Len(b) /\ Len(a) + (i - Len(a)) = i
        BY <1>1, <3>2
      <4>2. Here(Len(a) + (i - Len(a)))
        BY <2>1, <4>1
      <4> QED
        BY <4>1, <4>2
    <3> QED
      BY <1>1, <3>1, <3>2
  <2>2. \A i \in 1 .. Len(a) : i \in 1 .. Len(a) + Len(b)
    BY <1>1
  <2>3. \A i \in 1 .. Len(b) : Len(a) + i \in 1 .. Len(a) + Len(b)
    BY <1>1
  <2> QED
    BY <2>1, <2>2, <2>3
<1> QED
  BY <1>4, <1>5, <1>6, <1>7 DEF c

LEMMA OfNone ==
  ASSUME NEW S, NEW t, NEW k
  PROVE  Count(<<>>, S) = 0 /\ Continues(<<>>, S, t, k)
<1>1. Len(<<>>) = 0
  BY EmptySeq
<1> QED
  BY <1>1, CountToZero DEF Count, Continues

LEMMA OfOne ==
  ASSUME NEW x, NEW S, NEW t, NEW k \in Nat
  PROVE  /\ Count(<<x>>, S) = IF x \in S THEN 1 ELSE 0
         /\ Continues(<<x>>, S, t, k) <=> (x \in S => k + 1 <= Len(t) /\ x = t[k + 1])
<1>1. Len(<<x>>) = 1 /\ <<x>>[1] = x
  OBVIOUS
<1>2. CountTo(<<x>>, 1, S) = IF x \in S THEN 1 ELSE 0
  BY <1>1, CountToNext, CountToZero
<1>3. 1 .. Len(<<x>>) = {1}
  BY <1>1
<1> QED
  BY <1>1, <1>2, <1>3 DEF Count, Continues

\* A sequence that gets an element at its end.
LEMMA OfAppended ==
  ASSUME NEW X, NEW s \in Seq(X), NEW x \in X, NEW S, NEW t, NEW k \in Nat
  PROVE  /\ Count(Append(s, x), S) = Count(s, S) + IF x \in S THEN 1 ELSE 0
         /\ Continues(Append(s, x), S, t, k) <=>
              /\ Continues(s, S, t, k)
              /\ x \in S => /\ k + Count(s, S) + 1 <= Len(t)
                            /\ x = t[k + Count(s, S) + 1]
<1>1. Append(s, x) = s \o <<x>> /\ <<x>> \in Seq(X)
  BY AppendIsConcat
<1>2. Count(s, S) \in Nat
  BY CountType
<1>3. k + Count(s, S) \in Nat
  BY <1>2
<1>4. Count(s \o <<x>>, S) = Count(s, S) + Count(<<x>>, S)
  BY <1>1, CountConcat
<1>5. Continues(s \o <<x>>, S, t, k)
        <=> Continues(s, S, t, k) /\ Continues(<<x>>, S, t, k + Count(s, S))
  BY <1>1, ContinuesConcat
<1> QED
  BY <1>1, <1>3, <1>4, <1>5, OfOne

\* A sequence that loses the element at its head.
LEMMA OfTail ==
  ASSUME NEW X, NEW s \in Seq(X), s # <<>>, NEW S, NEW t, NEW k \in Nat
  PROVE  /\ Count(s, S) = (IF Head(s) \in S THEN 1 ELSE 0) + Count(Tail(s), S)
         /\ Count(Tail(s), S) \in Nat
         /\ Continues(s, S, t, k) <=>
              /\ Head(s) \in S => k + 1 <= Len(t) /\ Head(s) = t[k + 1]
              /\ Continues(Tail(s), S, t, k + IF Head(s) \in S THEN 1 ELSE 0)
<1> DEFINE one == <<Head(s)>>
           rest == Tail(s)
<1>1. rest \in Seq(X) /\ one \in Seq(X) /\ Head(s) \in X
  BY HeadTailProperties
<1>2. s = one \o rest
  <2>1. /\ Len(s) \in Nat /\ Len(s) > 0 /\ Len(rest) = Len(s) - 1 /\ s[1] = Head(s)
        /\ \A i \in 1 .. Len(rest) : rest[i] = s[i + 1]
    BY HeadTailProperties, LenProperties, EmptySeq
  <2>2. /\ one \o rest \in Seq(X) /\ Len(one) = 1 /\ one[1] = Head(s)
        /\ Len(one \o rest) = 1 + Len(rest)
        /\ \A i \in 1 .. 1 + Len(rest) :
             (one \o rest)[i] = IF i <= 1 THEN one[i] ELSE rest[i - 1]
    BY <1>1, ConcatProperties
  <2>3. \A i \in 1 .. Len(s) : s[i] = (one \o rest)[i]
    <3> SUFFICES ASSUME NEW i \in 1 .. Len(s)
                 PROVE  s[i] = (one \o rest)[i]
      OBVIOUS
    <3>1. CASE i = 1
      BY <2>1, <2>2, <3>1
    <3>2. CASE i > 1
      <4>1. i - 1 \in 1 .. Len(rest) /\ (i - 1) + 1 = i /\ i \in 1 .. 1 + Len(rest) /\ ~(i <= 1)
        BY <2>1, <3>2
      <4>2. rest[i - 1] = s[i]
        BY <2>1, <4>1
      <4>3. (one \o rest)[i] = rest[i - 1]
        BY <2>2, <4>1
      <4> QED
        BY <4>2, <4>3
    <3> QED
      BY <2>1, <3>1, <3>2
  <2>4. Len(s) = Len(one \o rest)
    BY <2>1, <2>2
  <2> HIDE DEF one, rest
  <2> QED
    BY <2>2, <2>3, <2>4, SeqEqual
<1>3. Count(one \o rest, S) = Count(one, S) + Count(rest, S) /\ Count(rest, S) \in Nat
  BY <1>1, CountConcat
<1>4. Continues(one \o rest, S, t, k)
        <=> Continues(one, S, t, k) /\ Continues(rest, S, t, k + Count(one, S))
  BY <1>1, ContinuesConcat
<1>5. /\ Count(one, S) = IF Head(s) \in S THEN 1 ELSE 0
      /\ Continues(one, S, t, k) <=> (Head(s) \in S => k + 1 <= Len(t) /\ Head(s) = t[k + 1])
  BY OfOne
<1> HIDE DEF one, rest
<1>6. Count(s, S) = Count(one, S) + Count(rest, S)
      /\ (Continues(s, S, t, k)
           <=> Continues(one, S, t, k) /\ Continues(rest, S, t, k + Count(one, S)))
  BY <1>2, <1>3, <1>4
<1> QED
  BY <1>3, <1>5, <1>6 DEF rest

\* What is followed may go on.
LEMMA OfLonger ==
  ASSUME NEW X, NEW s \in Seq(X), NEW S, NEW T, NEW t \in Seq(T), NEW y \in T, NEW k \in Nat,
         Continues(s, S, t, k)
  PROVE  Continues(s, S, Append(t, y), k)
<1>1. /\ Len(t) \in Nat /\ Len(Append(t, y)) = Len(t) + 1
      /\ \A i \in 1 .. Len(t) : Append(t, y)[i] = t[i]
  BY AppendProperties, LenProperties
<1>2. ASSUME NEW i \in 1 .. Len(s), s[i] \in S
      PROVE  /\ k + CountTo(s, i, S) <= Len(Append(t, y))
             /\ s[i] = Append(t, y)[k + CountTo(s, i, S)]
  <2>1. Len(s) \in Nat /\ i - 1 \in Nat /\ (i - 1) + 1 = i
    BY LenProperties
  <2>2. CountTo(s, i - 1, S) \in Nat
    BY <2>1, CountToBounds
  <2>3. CountTo(s, i, S) = CountTo(s, i - 1, S) + 1
    BY <1>2, <2>1, CountToNext
  <2>4. k + CountTo(s, i, S) <= Len(t) /\ s[i] = t[k + CountTo(s, i, S)]
    BY <1>2 DEF Continues
  <2>5. k + CountTo(s, i, S) \in 1 .. Len(t)
    BY <1>1, <2>2, <2>3, <2>4
  <2> QED
    BY <1>1, <2>4, <2>5
<1> QED
  BY <1>2 DEF Continues
===============================================================================
