------------------------------ MODULE Induction ------------------------------
(* Induction over the natural numbers, in the form the other proofs use it: a   *)
(* set that holds 0 and with every number the next one holds all of them.  With *)
(* it, what the recursive functions of the models return.                       *)
EXTENDS StdContainers, SequencesExt, NaturalsInduction, WellFoundedInduction,
        SequenceTheorems, FiniteSetTheorems, TLAPS

NatLess == {ss \in Nat \X Nat : ss[1] < ss[2]}

\* The order of the numbers is well-founded, so every set of them has a least one.
LEMMA LeastNumber ==
    ASSUME NEW T \in SUBSET Nat, T # {}
    PROVE  \E k \in T : \A j \in T : k <= j
<1>1. IsWellFoundedOn(NatLess, Nat)
  BY NatLessThanWellFounded DEF OpToRel, NatLess
<1>2. \A i, j \in Nat : j < i => <<j, i>> \in NatLess
  BY DEF NatLess
<1>3. PICK k \in T : \A j \in T : <<j, k>> \notin NatLess
  BY <1>1, WFMin
<1>4. \A j \in T : ~(j < k)
  BY <1>2, <1>3
<1> QED
  BY <1>4

\* Induction, over a set in the place of a predicate.
LEMMA NumbersInduction ==
    ASSUME NEW T, 0 \in T, \A n \in Nat : n \in T => n + 1 \in T
    PROVE  Nat \subseteq T
<1>1. SUFFICES ASSUME Nat \ T # {} PROVE FALSE
  OBVIOUS
<1>2. PICK k \in Nat \ T : \A j \in Nat \ T : k <= j
  BY <1>1, LeastNumber
<1>3. k - 1 \in Nat /\ k - 1 \in T
  BY <1>2
<1> QED
  BY <1>2, <1>3

-----------------------------------------------------------------------------
(* EraseIf.                                                                     *)

\* What the loop has kept of the first n elements.
KeptOf(kept, s, X, n) ==
    kept = [i \in 0 .. n |->
        IF i = 0 THEN <<>>
        ELSE IF s[i] \in X THEN kept[i - 1] ELSE Append(kept[i - 1], s[i])]

\* The recursive function exists, so that it can be unfolded.
LEMMA EraseIfLoop ==
    ASSUME NEW S, NEW s \in Seq(S), NEW X
    PROVE  \E kept : /\ kept[0] = <<>>
                     /\ \A i \in 0 .. Len(s) - 1 :
                           kept[i + 1] = IF s[i + 1] \in X THEN kept[i]
                                         ELSE Append(kept[i], s[i + 1])
                     /\ EraseIf(s, X) = kept[Len(s)]
<1> DEFINE T == {n \in Nat : \E kept : KeptOf(kept, s, X, n)}
<1>1. 0 \in T
  <2>1. KeptOf([i \in 0 .. 0 |-> <<>>], s, X, 0)
    BY DEF KeptOf
  <2> QED
    BY <2>1
<1>2. ASSUME NEW n \in Nat, n \in T PROVE n + 1 \in T
  <2>1. PICK kept : KeptOf(kept, s, X, n)
    BY <1>2
  <2> DEFINE last == IF s[n + 1] \in X THEN kept[n] ELSE Append(kept[n], s[n + 1])
             new == [i \in 0 .. n + 1 |-> IF i = n + 1 THEN last ELSE kept[i]]
  <2>2. \A i \in 0 .. n :
            kept[i] = IF i = 0 THEN <<>>
                      ELSE IF s[i] \in X THEN kept[i - 1] ELSE Append(kept[i - 1], s[i])
    BY <2>1 DEF KeptOf
  <2>3. \A i \in 0 .. n : new[i] = kept[i]
    OBVIOUS
  <2>4. \A i \in 0 .. n + 1 :
            new[i] = IF i = 0 THEN <<>>
                     ELSE IF s[i] \in X THEN new[i - 1] ELSE Append(new[i - 1], s[i])
    <3> TAKE i \in 0 .. n + 1
    <3>1. CASE i = 0
      BY <3>1, <2>2
    <3>2. CASE i \in 1 .. n
      <4>1. new[i] = kept[i] /\ new[i - 1] = kept[i - 1]
        BY <3>2, <2>3
      <4> HIDE DEF new
      <4> QED
        BY <3>2, <4>1, <2>2
    <3>3. CASE i = n + 1
      BY <3>3
    <3> QED
      BY <3>1, <3>2, <3>3
  <2>5. new = [i \in 0 .. n + 1 |-> new[i]]
    OBVIOUS
  <2> HIDE DEF new
  <2>6. KeptOf(new, s, X, n + 1)
    BY <2>4, <2>5 DEF KeptOf
  <2> QED
    BY <2>6
<1>3. Len(s) \in T
  <2> HIDE DEF T
  <2> QED
    BY <1>1, <1>2, NumbersInduction
<1> DEFINE f == CHOOSE kept : KeptOf(kept, s, X, Len(s))
<1>4. KeptOf(f, s, X, Len(s))
  BY <1>3
<1>5. EraseIf(s, X) = f[Len(s)]
  BY DEF EraseIf, KeptOf
<1> HIDE DEF f
<1>6. \A j \in 0 .. Len(s) :
          f[j] = IF j = 0 THEN <<>>
                 ELSE IF s[j] \in X THEN f[j - 1] ELSE Append(f[j - 1], s[j])
  BY <1>4 DEF KeptOf
<1>7. ASSUME NEW i \in 0 .. Len(s) - 1
      PROVE  f[i + 1] = IF s[i + 1] \in X THEN f[i] ELSE Append(f[i], s[i + 1])
  <2>1. i + 1 \in 1 .. Len(s) /\ (i + 1) - 1 = i
    OBVIOUS
  <2> QED
    BY <1>6, <2>1
<1> QED
  BY <1>5, <1>6, <1>7

\* A sequence with one more element.
LEMMA Appended ==
    ASSUME NEW S, NEW q \in Seq(S), NEW x \in S
    PROVE  /\ Append(q, x) \in Seq(S) /\ Len(Append(q, x)) = Len(q) + 1
           /\ \A j \in 1 .. Len(q) : Append(q, x)[j] = q[j]
           /\ Append(q, x)[Len(q) + 1] = x
OBVIOUS

\* q holds what is left of the first n elements of s without those in X.
GoodKept(q, s, S, X, n) ==
    /\ q \in Seq(S)
    /\ \A j \in 1 .. Len(q) : \E k \in 1 .. n : q[j] = s[k] /\ s[k] \notin X
    /\ \A k \in 1 .. n : s[k] \notin X => \E j \in 1 .. Len(q) : q[j] = s[k]

\* The loop keeps it so.
LEMMA GoodKeptStep ==
    ASSUME NEW S, NEW X, NEW s \in Seq(S), NEW n \in Nat, n + 1 <= Len(s), NEW q, NEW r,
           GoodKept(q, s, S, X, n), s[n + 1] \in S,
           r = IF s[n + 1] \in X THEN q ELSE Append(q, s[n + 1])
    PROVE  GoodKept(r, s, S, X, n + 1)
<1> DEFINE x == s[n + 1]
<1>1. CASE x \in X
  <2>1. r = q
    BY <1>1
  <2>2. q \in Seq(S)
    BY DEF GoodKept
  <2>3. \A j \in 1 .. Len(q) : \E k \in 1 .. n + 1 : q[j] = s[k] /\ s[k] \notin X
    <3> TAKE j \in 1 .. Len(q)
    <3>1. PICK k \in 1 .. n : q[j] = s[k] /\ s[k] \notin X
      BY DEF GoodKept
    <3>2. k \in 1 .. n + 1
      OBVIOUS
    <3> QED
      BY <3>1, <3>2
  <2>4. ASSUME NEW k \in 1 .. n + 1, s[k] \notin X PROVE \E j \in 1 .. Len(q) : q[j] = s[k]
    <3>1. k \in 1 .. n
      BY <1>1, <2>4
    <3> QED
      BY <2>4, <3>1 DEF GoodKept
  <2> QED
    BY <2>1, <2>2, <2>3, <2>4 DEF GoodKept
<1>2. CASE x \notin X
  <2>1. /\ r \in Seq(S) /\ Len(r) = Len(q) + 1 /\ Len(q) \in Nat
        /\ \A j \in 1 .. Len(q) : r[j] = q[j]
        /\ r[Len(q) + 1] = x
    BY <1>2, Appended DEF GoodKept
  <2>2. ASSUME NEW j \in 1 .. Len(r)
        PROVE  \E k \in 1 .. n + 1 : r[j] = s[k] /\ s[k] \notin X
    <3>1. CASE j = Len(q) + 1
      BY <1>2, <2>1, <3>1
    <3>2. CASE j \in 1 .. Len(q)
      <4>1. PICK k \in 1 .. n : q[j] = s[k] /\ s[k] \notin X
        BY <3>2 DEF GoodKept
      <4>2. k \in 1 .. n + 1 /\ r[j] = q[j]
        BY <2>1, <3>2
      <4> QED
        BY <4>1, <4>2
    <3> QED
      BY <2>1, <3>1, <3>2
  <2>3. ASSUME NEW k \in 1 .. n + 1, s[k] \notin X
        PROVE  \E j \in 1 .. Len(r) : r[j] = s[k]
    <3>1. CASE k = n + 1
      BY <2>1, <3>1
    <3>2. CASE k \in 1 .. n
      <4>1. PICK j \in 1 .. Len(q) : q[j] = s[k]
        BY <2>3, <3>2 DEF GoodKept
      <4> QED
        BY <2>1, <4>1
    <3> QED
      BY <3>1, <3>2
  <2> QED
    BY <2>1, <2>2, <2>3 DEF GoodKept
<1> QED
  BY <1>1, <1>2

\* What is kept comes from the sequence and from outside of X.
LEMMA EraseIfKeeps ==
    ASSUME NEW S, NEW s \in Seq(S), NEW X
    PROVE  /\ EraseIf(s, X) \in Seq(S)
           /\ ToSet(EraseIf(s, X)) = ToSet(s) \ X
<1>1. PICK kept :
          /\ kept[0] = <<>>
          /\ \A i \in 0 .. Len(s) - 1 :
                kept[i + 1] = IF s[i + 1] \in X THEN kept[i] ELSE Append(kept[i], s[i + 1])
          /\ EraseIf(s, X) = kept[Len(s)]
  BY EraseIfLoop
<1> DEFINE T == {n \in Nat : n <= Len(s) => GoodKept(kept[n], s, S, X, n)}
<1>2. 0 \in T
  <2>1. GoodKept(<<>>, s, S, X, 0)
    BY DEF GoodKept
  <2> QED
    BY <1>1, <2>1
<1>3. ASSUME NEW n \in Nat, n \in T PROVE n + 1 \in T
  <2>1. SUFFICES ASSUME n + 1 <= Len(s) PROVE GoodKept(kept[n + 1], s, S, X, n + 1)
    OBVIOUS
  <2>2. GoodKept(kept[n], s, S, X, n) /\ s[n + 1] \in S
    BY <1>3, <2>1
  <2>3. kept[n + 1] = IF s[n + 1] \in X THEN kept[n] ELSE Append(kept[n], s[n + 1])
    BY <1>1, <2>1
  <2> QED
    BY <2>1, <2>2, <2>3, GoodKeptStep
<1>4. GoodKept(EraseIf(s, X), s, S, X, Len(s))
  <2>1. Len(s) \in T
    <3> HIDE DEF T
    <3> QED
      BY <1>2, <1>3, NumbersInduction
  <2> QED
    BY <1>1, <2>1
<1> DEFINE q == EraseIf(s, X)
<1> HIDE DEF q
<1>5. q \in Seq(S) /\ DOMAIN q = 1 .. Len(q) /\ DOMAIN s = 1 .. Len(s)
  BY <1>4 DEF q, GoodKept
<1>6. ASSUME NEW x \in ToSet(q) PROVE x \in ToSet(s) \ X
  <2>1. PICK j \in 1 .. Len(q) : q[j] = x
    BY <1>5, <1>6 DEF ToSet
  <2>2. PICK k \in 1 .. Len(s) : x = s[k] /\ s[k] \notin X
    BY <1>4, <2>1 DEF q, GoodKept
  <2> QED
    BY <1>5, <2>2 DEF ToSet
<1>7. ASSUME NEW x \in ToSet(s), x \notin X PROVE x \in ToSet(q)
  <2>1. PICK k \in 1 .. Len(s) : s[k] = x
    BY <1>5, <1>7 DEF ToSet
  <2>2. PICK j \in 1 .. Len(q) : q[j] = x
    BY <1>4, <1>7, <2>1 DEF q, GoodKept
  <2> QED
    BY <1>5, <2>2 DEF ToSet
<1> QED
  BY <1>5, <1>6, <1>7 DEF q

\* The elements of q are among the first n of s, and stand in the order R.
GoodOrder(q, s, S, R, n) ==
    /\ q \in Seq(S)
    /\ \A j \in 1 .. Len(q) : \E k \in 1 .. n : q[j] = s[k]
    /\ \A i, j \in 1 .. Len(q) : i < j => <<q[i], q[j]>> \in R

\* The loop keeps it so.
LEMMA GoodOrderStep ==
    ASSUME NEW S, NEW X, NEW R, NEW s \in Seq(S), NEW n \in Nat, n + 1 <= Len(s), NEW q, NEW r,
           \A i, j \in 1 .. Len(s) : i < j => <<s[i], s[j]>> \in R,
           GoodOrder(q, s, S, R, n), s[n + 1] \in S,
           r = IF s[n + 1] \in X THEN q ELSE Append(q, s[n + 1])
    PROVE  GoodOrder(r, s, S, R, n + 1)
<1> DEFINE x == s[n + 1]
<1>1. CASE x \in X
  <2>1. r = q
    BY <1>1
  <2>2. \A j \in 1 .. Len(q) : \E k \in 1 .. n + 1 : q[j] = s[k]
    <3> TAKE j \in 1 .. Len(q)
    <3>1. PICK k \in 1 .. n : q[j] = s[k]
      BY DEF GoodOrder
    <3>2. k \in 1 .. n + 1
      OBVIOUS
    <3> QED
      BY <3>1, <3>2
  <2> QED
    BY <2>1, <2>2 DEF GoodOrder
<1>2. CASE x \notin X
  <2>1. /\ r \in Seq(S) /\ Len(r) = Len(q) + 1 /\ Len(q) \in Nat
        /\ \A j \in 1 .. Len(q) : r[j] = q[j]
        /\ r[Len(q) + 1] = x
    BY <1>2, Appended DEF GoodOrder
  <2>2. ASSUME NEW j \in 1 .. Len(r) PROVE \E k \in 1 .. n + 1 : r[j] = s[k]
    <3>1. CASE j = Len(q) + 1
      BY <2>1, <3>1
    <3>2. CASE j \in 1 .. Len(q)
      <4>1. PICK k \in 1 .. n : q[j] = s[k]
        BY <3>2 DEF GoodOrder
      <4>2. k \in 1 .. n + 1 /\ r[j] = q[j]
        BY <2>1, <3>2
      <4> QED
        BY <4>1, <4>2
    <3> QED
      BY <2>1, <3>1, <3>2
  <2>3. ASSUME NEW i \in 1 .. Len(r), NEW j \in 1 .. Len(r), i < j
        PROVE  <<r[i], r[j]>> \in R
    <3>1. i \in 1 .. Len(q) /\ r[i] = q[i]
      BY <2>1, <2>3
    <3>2. CASE j = Len(q) + 1
      <4>1. PICK k \in 1 .. n : q[i] = s[k]
        BY <3>1 DEF GoodOrder
      <4>2. <<s[k], s[n + 1]>> \in R
        OBVIOUS
      <4> QED
        BY <2>1, <3>1, <3>2, <4>1, <4>2
    <3>3. CASE j \in 1 .. Len(q)
      <4>1. <<q[i], q[j]>> \in R
        BY <2>3, <3>1, <3>3 DEF GoodOrder
      <4>2. r[j] = q[j]
        BY <2>1, <3>3
      <4> QED
        BY <3>1, <4>1, <4>2
    <3>4. j = Len(q) + 1 \/ j \in 1 .. Len(q)
      BY <2>1
    <3> QED
      BY <3>2, <3>3, <3>4
  <2> QED
    BY <2>1, <2>2, <2>3 DEF GoodOrder
<1> QED
  BY <1>1, <1>2

\* Any order the elements are in, they stay in.
LEMMA EraseIfOrdered ==
    ASSUME NEW S, NEW s \in Seq(S), NEW X, NEW R,
           \A i, j \in 1 .. Len(s) : i < j => <<s[i], s[j]>> \in R
    PROVE  \A i, j \in 1 .. Len(EraseIf(s, X)) :
               i < j => <<EraseIf(s, X)[i], EraseIf(s, X)[j]>> \in R
<1>1. PICK kept :
          /\ kept[0] = <<>>
          /\ \A i \in 0 .. Len(s) - 1 :
                kept[i + 1] = IF s[i + 1] \in X THEN kept[i] ELSE Append(kept[i], s[i + 1])
          /\ EraseIf(s, X) = kept[Len(s)]
  BY EraseIfLoop
<1> DEFINE T == {n \in Nat : n <= Len(s) => GoodOrder(kept[n], s, S, R, n)}
<1>2. 0 \in T
  <2>1. GoodOrder(<<>>, s, S, R, 0)
    BY DEF GoodOrder
  <2> QED
    BY <1>1, <2>1
<1>3. ASSUME NEW n \in Nat, n \in T PROVE n + 1 \in T
  <2>1. SUFFICES ASSUME n + 1 <= Len(s) PROVE GoodOrder(kept[n + 1], s, S, R, n + 1)
    OBVIOUS
  <2>2. GoodOrder(kept[n], s, S, R, n) /\ s[n + 1] \in S
    BY <1>3, <2>1
  <2>3. kept[n + 1] = IF s[n + 1] \in X THEN kept[n] ELSE Append(kept[n], s[n + 1])
    BY <1>1, <2>1
  <2> QED
    BY <2>1, <2>2, <2>3, GoodOrderStep
<1>4. GoodOrder(EraseIf(s, X), s, S, R, Len(s))
  <2>1. Len(s) \in T
    <3> HIDE DEF T
    <3> QED
      BY <1>2, <1>3, NumbersInduction
  <2> QED
    BY <1>1, <2>1
<1> QED
  BY <1>4 DEF GoodOrder

\* The loop over a sequence whose first m elements, and no other, are in X: q is
\* what it has kept of the first n.
KeptRest(q, s, S, m, n) ==
    /\ q \in Seq(S)
    /\ Len(q) = IF n <= m THEN 0 ELSE n - m
    /\ \A j \in 1 .. Len(q) : q[j] = s[m + j]

\* Erasing from the front leaves the rest of the sequence.
LEMMA EraseIfFirst ==
    ASSUME NEW S, NEW s \in Seq(S), NEW X, NEW m \in 0 .. Len(s),
           \A i \in 1 .. Len(s) : s[i] \in X <=> i <= m
    PROVE  /\ EraseIf(s, X) \in Seq(S)
           /\ Len(EraseIf(s, X)) = Len(s) - m
           /\ \A j \in 1 .. Len(s) - m : EraseIf(s, X)[j] = s[m + j]
<1>1. PICK kept :
          /\ kept[0] = <<>>
          /\ \A i \in 0 .. Len(s) - 1 :
                kept[i + 1] = IF s[i + 1] \in X THEN kept[i] ELSE Append(kept[i], s[i + 1])
          /\ EraseIf(s, X) = kept[Len(s)]
  BY EraseIfLoop
<1> DEFINE T == {n \in Nat : n <= Len(s) => KeptRest(kept[n], s, S, m, n)}
<1>2. 0 \in T
  <2>1. KeptRest(<<>>, s, S, m, 0)
    BY DEF KeptRest
  <2> QED
    BY <1>1, <2>1
<1>3. ASSUME NEW n \in Nat, n \in T PROVE n + 1 \in T
  <2>1. SUFFICES ASSUME n + 1 <= Len(s) PROVE KeptRest(kept[n + 1], s, S, m, n + 1)
    OBVIOUS
  <2> DEFINE q == kept[n]
             x == s[n + 1]
  <2>2. KeptRest(q, s, S, m, n) /\ x \in S
    BY <1>3, <2>1
  <2>3. kept[n + 1] = IF x \in X THEN q ELSE Append(q, x)
    BY <1>1, <2>1
  <2>4. x \in X <=> n + 1 <= m
    BY <2>1
  <2> HIDE DEF q
  <2>5. CASE n + 1 <= m
    BY <2>2, <2>3, <2>4, <2>5 DEF KeptRest
  <2>6. CASE m < n + 1
    <3>1. q \in Seq(S) /\ Len(q) = n - m
      BY <2>2, <2>6 DEF KeptRest
    <3>2. x = s[m + (n - m + 1)]
      OBVIOUS
    <3> HIDE DEF x
    <3>3. /\ Append(q, x) \in Seq(S) /\ Len(Append(q, x)) = n - m + 1
          /\ \A j \in 1 .. n - m : Append(q, x)[j] = q[j]
          /\ Append(q, x)[n - m + 1] = x
      BY <2>2, <3>1, Appended
    <3>4. \A j \in 1 .. n - m + 1 : Append(q, x)[j] = s[m + j]
      <4> TAKE j \in 1 .. n - m + 1
      <4>1. CASE j = n - m + 1
        BY <3>2, <3>3, <4>1
      <4>2. CASE j \in 1 .. n - m
        BY <2>2, <3>1, <3>3, <4>2 DEF KeptRest
      <4>3. j = n - m + 1 \/ j \in 1 .. n - m
        OBVIOUS
      <4> QED
        BY <4>1, <4>2, <4>3
    <3> QED
      BY <2>3, <2>4, <2>6, <3>3, <3>4 DEF KeptRest
  <2> QED
    BY <2>5, <2>6
<1>4. KeptRest(EraseIf(s, X), s, S, m, Len(s))
  <2>1. Len(s) \in T
    <3> HIDE DEF T
    <3> QED
      BY <1>2, <1>3, NumbersInduction
  <2> QED
    BY <1>1, <2>1
<1> QED
  BY <1>4 DEF KeptRest

-----------------------------------------------------------------------------
(* Counting.                                                                    *)

\* A set with more members than a sequence has places has one the sequence lacks.
LEMMA SpareMember ==
    ASSUME NEW S, NEW s \in Seq(S), NEW N, IsFiniteSet(N), Cardinality(N) > Len(s)
    PROVE  \E x \in N : \A i \in 1 .. Len(s) : s[i] # x
<1> DEFINE R == {s[i] : i \in 1 .. Len(s)}
           f == [i \in 1 .. Len(s) |-> s[i]]
<1>1. f \in Surjection(1 .. Len(s), R)
  BY DEF Surjection
<1>2. ExistsSurjection(1 .. Len(s), R)
  BY <1>1 DEF ExistsSurjection
<1> HIDE DEF R, f
<1>3. IsFiniteSet(R) /\ Cardinality(R) <= Len(s) /\ Cardinality(R) \in Nat
  <2>1. Len(s) \in Nat /\ IsFiniteSet(1 .. Len(s))
    BY FS_Interval
  <2>2. IsFiniteSet(R)
    BY <1>1, <2>1, FS_Surjection
  <2>3. Cardinality(R) <= Len(s)
    BY <1>2, <2>1, FS_SurjCardinalityBound
  <2> QED
    BY <2>2, <2>3, FS_CardinalityType
<1>4. SUFFICES ASSUME N \subseteq R PROVE FALSE
  BY DEF R
<1>5. Cardinality(N) <= Cardinality(R) /\ Cardinality(N) \in Nat
  BY <1>3, <1>4, FS_Subset, FS_CardinalityType
<1> QED
  BY <1>3, <1>5
=============================================================================
