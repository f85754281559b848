----------------------------- MODULE ListFacts -----------------------------
(***************************************************************************)
(* What the operators on sequences do with which the lists of the kernel   *)
(* are written: insertion at a place, removal, and the head; and facts     *)
(* about ascending lists, the count of entries and the numbers in a queue  *)
(* with which the network's queues are followed.                           *)
(***************************************************************************)
EXTENDS SequencesExt, Integers, SequenceTheorems, FiniteSetTheorems, TLAPS

\* A concatenation, read from its first half.
LEMMA ConcatLeft ==
  ASSUME NEW S, NEW u \in Seq(S), NEW v \in Seq(S), NEW i \in 1..Len(u)
  PROVE  (u \o v)[i] = u[i]
  BY ConcatProperties, LenProperties

\* A concatenation, read from its second half.
LEMMA ConcatRight ==
  ASSUME NEW S, NEW u \in Seq(S), NEW v \in Seq(S),
         NEW i \in (Len(u) + 1)..(Len(u) + Len(v))
  PROVE  (u \o v)[i] = v[i - Len(u)]
<1>1. Len(u) \in Nat /\ Len(v) \in Nat
  BY LenProperties
<1>2. (u \o v)[i] = IF i <= Len(u) THEN u[i] ELSE v[i - Len(u)]
  BY <1>1, ConcatProperties
<1> QED
  BY <1>1, <1>2

\* The elements of a subsequence.
LEMMA SubSeqElement ==
  ASSUME NEW S, NEW s \in Seq(S), NEW m \in 1..(Len(s) + 1), NEW n \in (m - 1)..Len(s)
  PROVE  /\ SubSeq(s, m, n) \in Seq(S)
         /\ Len(SubSeq(s, m, n)) = n - m + 1
         /\ \A i \in 1..(n - m + 1) : SubSeq(s, m, n)[i] = s[m + i - 1]
<1>1. Len(s) \in Nat
  BY LenProperties
<1>2. \A i \in m..n : s[i] \in S
  BY <1>1, ElementOfSeq
<1>3. /\ SubSeq(s, m, n) \in Seq(S)
      /\ Len(SubSeq(s, m, n)) = IF m <= n THEN n - m + 1 ELSE 0
      /\ \A i \in 1..(n - m + 1) : SubSeq(s, m, n)[i] = s[m + i - 1]
  BY <1>1, <1>2, SubSeqProperties
<1> QED
  BY <1>1, <1>3

\* InsertAt, with which OS_PendListInsertPrio is written, shifts the tail.
LEMMA InsertAtProperties ==
  ASSUME NEW S, NEW s \in Seq(S), NEW e \in S, NEW k \in 1..(Len(s) + 1)
  PROVE  /\ InsertAt(s, k, e) \in Seq(S)
         /\ Len(InsertAt(s, k, e)) = Len(s) + 1
         /\ \A i \in 1..(Len(s) + 1) :
              InsertAt(s, k, e)[i] = IF i < k THEN s[i]
                                     ELSE IF i = k THEN e ELSE s[i - 1]
<1> DEFINE front == SubSeq(s, 1, k - 1)
           back  == SubSeq(s, k, Len(s))
           one   == <<e>>
           left  == front \o one
<1>1. Len(s) \in Nat
  BY LenProperties
<1>2. /\ front \in Seq(S) /\ Len(front) = k - 1
      /\ \A i \in 1..(k - 1) : front[i] = s[i]
  BY <1>1, SubSeqElement
<1>3. /\ back \in Seq(S) /\ Len(back) = Len(s) - k + 1
      /\ \A i \in 1..(Len(s) - k + 1) : back[i] = s[k + i - 1]
  BY <1>1, SubSeqElement
<1>4. one \in Seq(S) /\ Len(one) = 1 /\ one[1] = e
  OBVIOUS
<1>5. InsertAt(s, k, e) = left \o back
  BY DEF InsertAt
<1> HIDE DEF front, back, one
<1>6. left \in Seq(S) /\ Len(left) = k
  <2>1. left \in Seq(S) /\ Len(left) = Len(front) + Len(one)
    BY <1>2, <1>4, ConcatProperties
  <2> HIDE DEF left
  <2> QED
    BY <1>1, <1>2, <1>4, <2>1
<1>7. ASSUME NEW i \in 1..(k - 1) PROVE left[i] = s[i]
  BY <1>2, <1>4, ConcatLeft
<1>8. left[k] = e
  BY <1>2, <1>4, ConcatRight
<1> HIDE DEF left
<1>9. left \o back \in Seq(S) /\ Len(left \o back) = Len(s) + 1
  BY <1>1, <1>3, <1>6, ConcatProperties
<1>10. ASSUME NEW i \in 1..k PROVE (left \o back)[i] = left[i]
  BY <1>3, <1>6, ConcatLeft
<1>11. ASSUME NEW i \in (k + 1)..(Len(s) + 1)
       PROVE  (left \o back)[i] = s[i - 1]
  <2>1. (left \o back)[i] = back[i - k]
    BY <1>1, <1>3, <1>6, ConcatRight
  <2>2. back[i - k] = s[k + (i - k) - 1]
    BY <1>1, <1>3
  <2> QED
    BY <1>1, <2>1, <2>2
<1> DEFINE all == left \o back
<1>12. /\ InsertAt(s, k, e) = all /\ all \in Seq(S) /\ Len(all) = Len(s) + 1
       /\ \A i \in 1..k : all[i] = left[i]
       /\ \A i \in (k + 1)..(Len(s) + 1) : all[i] = s[i - 1]
  BY <1>5, <1>9, <1>10, <1>11
<1> HIDE DEF all
<1>13. \A i \in 1..(Len(s) + 1) :
         all[i] = IF i < k THEN s[i] ELSE IF i = k THEN e ELSE s[i - 1]
  BY <1>1, <1>7, <1>8, <1>12
<1> QED
  BY <1>12, <1>13

\* RemoveAt, with which a timed out task leaves a pend list, closes the gap.
LEMMA RemoveAtProperties ==
  ASSUME NEW S, NEW s \in Seq(S), NEW k \in 1..Len(s)
  PROVE  /\ RemoveAt(s, k) \in Seq(S)
         /\ Len(RemoveAt(s, k)) = Len(s) - 1
         /\ \A i \in 1..(Len(s) - 1) :
              RemoveAt(s, k)[i] = IF i < k THEN s[i] ELSE s[i + 1]
<1> DEFINE front == SubSeq(s, 1, k - 1)
           back  == SubSeq(s, k + 1, Len(s))
<1>1. Len(s) \in Nat
  BY LenProperties
<1>2. /\ front \in Seq(S) /\ Len(front) = k - 1
      /\ \A i \in 1..(k - 1) : front[i] = s[i]
  BY <1>1, SubSeqElement
<1>3. /\ back \in Seq(S) /\ Len(back) = Len(s) - k
      /\ \A i \in 1..(Len(s) - k) : back[i] = s[(k + 1) + i - 1]
  BY <1>1, SubSeqElement
<1>4. RemoveAt(s, k) = front \o back
  BY DEF RemoveAt
<1> HIDE DEF front, back
<1>5. front \o back \in Seq(S) /\ Len(front \o back) = Len(s) - 1
  BY <1>1, <1>2, <1>3, ConcatProperties
<1>6. ASSUME NEW i \in 1..(k - 1) PROVE (front \o back)[i] = s[i]
  BY <1>2, <1>3, ConcatLeft
<1>7. ASSUME NEW i \in k..(Len(s) - 1) PROVE (front \o back)[i] = s[i + 1]
  <2>1. (front \o back)[i] = back[i - (k - 1)]
    BY <1>1, <1>2, <1>3, ConcatRight
  <2>2. back[i - (k - 1)] = s[(k + 1) + (i - (k - 1)) - 1]
    BY <1>1, <1>3
  <2> QED
    BY <1>1, <2>1, <2>2
<1> DEFINE all == front \o back
<1>8. /\ RemoveAt(s, k) = all /\ all \in Seq(S) /\ Len(all) = Len(s) - 1
      /\ \A i \in 1..(k - 1) : all[i] = s[i]
      /\ \A i \in k..(Len(s) - 1) : all[i] = s[i + 1]
  BY <1>4, <1>5, <1>6, <1>7
<1> HIDE DEF all
<1>9. \A i \in 1..(Len(s) - 1) : all[i] = IF i < k THEN s[i] ELSE s[i + 1]
  BY <1>1, <1>8
<1> QED
  BY <1>8, <1>9

\* A list without repetition gets one more entry.
LEMMA InsertAtRange ==
  ASSUME NEW S, NEW s \in Seq(S), NEW e \in S, NEW k \in 1..(Len(s) + 1),
         IsInjective(s), e \notin Range(s)
  PROVE  /\ Range(InsertAt(s, k, e)) = Range(s) \cup {e}
         /\ IsInjective(InsertAt(s, k, e))
<1> DEFINE r == InsertAt(s, k, e)
<1>1. /\ Len(s) \in Nat /\ DOMAIN s = 1..Len(s)
      /\ r \in Seq(S) /\ Len(r) = Len(s) + 1 /\ DOMAIN r = 1..(Len(s) + 1)
      /\ \A i \in 1..(Len(s) + 1) :
           r[i] = IF i < k THEN s[i] ELSE IF i = k THEN e ELSE s[i - 1]
  BY InsertAtProperties, LenProperties
<1> HIDE DEF r
<1>2. \A i \in 1..Len(s) : s[i] # e
  BY <1>1 DEF Range
<1>3. /\ \A i \in 1..(k - 1) : r[i] = s[i] /\ i \in 1..Len(s)
      /\ r[k] = e
      /\ \A i \in (k + 1)..(Len(s) + 1) : r[i] = s[i - 1] /\ i - 1 \in 1..Len(s)
  BY <1>1
<1>4. IsInjective(r)
  <2> SUFFICES ASSUME NEW i \in DOMAIN r, NEW j \in DOMAIN r, r[i] = r[j]
               PROVE  i = j
    BY DEF IsInjective
  <2>1. \A x, y \in 1..Len(s) : s[x] = s[y] => x = y
    BY <1>1 DEF IsInjective
  <2>2. \/ i \in 1..(k - 1) \/ i = k \/ i \in (k + 1)..(Len(s) + 1)
    BY <1>1
  <2>3. \/ j \in 1..(k - 1) \/ j = k \/ j \in (k + 1)..(Len(s) + 1)
    BY <1>1
  <2>4. CASE i = k \/ j = k
    BY <1>2, <1>3, <2>2, <2>3, <2>4
  <2>5. CASE i \in 1..(k - 1)
    BY <1>1, <1>3, <2>1, <2>3, <2>4, <2>5
  <2>6. CASE i \in (k + 1)..(Len(s) + 1)
    BY <1>1, <1>3, <2>1, <2>3, <2>4, <2>6
  <2> QED
    BY <2>2, <2>4, <2>5, <2>6
<1>5. Range(r) \subseteq Range(s) \cup {e}
  BY <1>1, <1>3 DEF Range
<1>6. ASSUME NEW i \in 1..Len(s)
      PROVE  \E j \in 1..(Len(s) + 1) : r[j] = s[i]
  <2>1. CASE i < k
    BY <1>1, <2>1
  <2>2. CASE i >= k
    <3>1. i + 1 \in 1..(Len(s) + 1) /\ ~(i + 1 < k) /\ i + 1 # k /\ (i + 1) - 1 = i
      BY <1>1, <2>2
    <3> QED
      BY <1>1, <3>1
  <2> QED
    BY <1>1, <2>1, <2>2
<1>7. Range(s) \cup {e} \subseteq Range(r)
  <2>1. Range(s) \subseteq Range(r)
    <3> SUFFICES ASSUME NEW i \in 1..Len(s) PROVE s[i] \in Range(r)
      BY <1>1 DEF Range
    <3>1. PICK j \in 1..(Len(s) + 1) : r[j] = s[i]
      BY <1>6
    <3> QED
      BY <1>1, <3>1 DEF Range
  <2>2. k \in DOMAIN r /\ r[k] = e
    BY <1>1, <1>3
  <2> QED
    BY <2>1, <2>2 DEF Range
<1> QED
  BY <1>4, <1>5, <1>7 DEF r

\* A list without repetition loses exactly the entry that is removed.
LEMMA RemoveAtRange ==
  ASSUME NEW S, NEW s \in Seq(S), NEW k \in 1..Len(s), IsInjective(s)
  PROVE  /\ Range(RemoveAt(s, k)) = Range(s) \ {s[k]}
         /\ IsInjective(RemoveAt(s, k))
<1> DEFINE r == RemoveAt(s, k)
<1>1. /\ Len(s) \in Nat /\ DOMAIN s = 1..Len(s)
      /\ r \in Seq(S) /\ DOMAIN r = 1..(Len(s) - 1)
      /\ \A i \in 1..(Len(s) - 1) : r[i] = IF i < k THEN s[i] ELSE s[i + 1]
  BY RemoveAtProperties, LenProperties
<1> HIDE DEF r
<1>2. \A x, y \in 1..Len(s) : s[x] = s[y] => x = y
  BY <1>1 DEF IsInjective
<1>3. IsInjective(r)
  <2> SUFFICES ASSUME NEW i \in DOMAIN r, NEW j \in DOMAIN r, r[i] = r[j]
               PROVE  i = j
    BY DEF IsInjective
  <2>1. CASE i < k /\ j < k
    BY <1>1, <1>2, <2>1
  <2>2. CASE i < k /\ j >= k
    BY <1>1, <1>2, <2>2
  <2>3. CASE i >= k /\ j < k
    BY <1>1, <1>2, <2>3
  <2>4. CASE i >= k /\ j >= k
    BY <1>1, <1>2, <2>4
  <2> QED
    BY <1>1, <2>1, <2>2, <2>3, <2>4
<1>4. ASSUME NEW i \in DOMAIN r
      PROVE  r[i] \in Range(s) \ {s[k]}
  <2>1. PICK j \in 1..Len(s) : j # k /\ r[i] = s[j]
    <3>1. CASE i < k
      BY <1>1, <1>4, <3>1
    <3>2. CASE i >= k
      <4>1. i + 1 \in 1..Len(s) /\ i + 1 # k /\ ~(i < k)
        BY <1>1, <1>4, <3>2
      <4>2. r[i] = s[i + 1]
        BY <1>1, <1>4, <4>1
      <4> QED
        BY <4>1, <4>2
    <3> QED
      BY <1>1, <1>4, <3>1, <3>2
  <2>2. s[j] # s[k]
    BY <1>2, <2>1
  <2> QED
    BY <1>1, <2>1, <2>2 DEF Range
<1>5. ASSUME NEW i \in 1..Len(s), i # k
      PROVE  \E j \in DOMAIN r : r[j] = s[i]
  <2>1. CASE i < k
    BY <1>1, <2>1
  <2>2. CASE i > k
    <3>1. i - 1 \in 1..(Len(s) - 1) /\ ~(i - 1 < k) /\ (i - 1) + 1 = i
      BY <1>1, <2>2
    <3> QED
      BY <1>1, <3>1
  <2> QED
    BY <1>1, <1>5, <2>1, <2>2
<1>6. Range(r) = Range(s) \ {s[k]}
  BY <1>1, <1>4, <1>5 DEF Range
<1> QED
  BY <1>3, <1>6 DEF r

\* Removing the head is removing the first entry.
LEMMA TailRange ==
  ASSUME NEW S, NEW s \in Seq(S), s # <<>>, IsInjective(s)
  PROVE  /\ Range(Tail(s)) = Range(s) \ {Head(s)}
         /\ IsInjective(Tail(s))
<1> DEFINE r == Tail(s)
<1>1. /\ Len(s) \in Nat \ {0} /\ DOMAIN s = 1..Len(s)
      /\ r \in Seq(S) /\ DOMAIN r = 1..(Len(s) - 1)
      /\ \A i \in 1..(Len(s) - 1) : r[i] = s[i + 1]
      /\ Head(s) = s[1]
  BY HeadTailProperties, LenProperties, EmptySeq
<1> HIDE DEF r
<1>2. \A x, y \in 1..Len(s) : s[x] = s[y] => x = y
  BY <1>1 DEF IsInjective
<1>3. IsInjective(r)
  BY <1>1, <1>2 DEF IsInjective
<1>4. ASSUME NEW i \in DOMAIN r
      PROVE  r[i] \in Range(s) \ {s[1]}
  <2>1. i + 1 \in 1..Len(s) /\ 1 \in 1..Len(s) /\ i + 1 # 1 /\ r[i] = s[i + 1]
    BY <1>1
  <2>2. s[i + 1] # s[1]
    BY <1>2, <2>1
  <2> QED
    BY <1>1, <2>1, <2>2 DEF Range
<1>5. ASSUME NEW i \in 1..Len(s), i # 1
      PROVE  \E j \in DOMAIN r : r[j] = s[i]
  <2>1. i - 1 \in 1..(Len(s) - 1) /\ (i - 1) + 1 = i
    BY <1>1, <1>5
  <2> QED
    BY <1>1, <2>1
<1>6. Range(r) = Range(s) \ {s[1]}
  BY <1>1, <1>4, <1>5 DEF Range
<1> QED
  BY <1>1, <1>3, <1>6 DEF r

-----------------------------------------------------------------------------
(* Sets of numbers and their ascending lists                               *)

\* A set of numbers has a least element.
LEMMA LeastNumber ==
  ASSUME NEW T, T \subseteq Nat, T # {}
  PROVE  \E x \in T : \A y \in T : x <= y
<1>1. PICK x \in T : \A y \in T : ~(<<y, x>> \in OpToRel(<, Nat))
  BY NatLessThanWellFounded, WFMin, Zenon
<1>2. ASSUME NEW y \in T PROVE x <= y
  <2>1. x \in Nat /\ y \in Nat
    OBVIOUS
  <2>2. ~(y < x)
    BY <1>1, <2>1 DEF OpToRel
  <2> QED
    BY <2>1, <2>2
<1> QED
  BY <1>2

\* The list of the numbers of S in their order.
IsAscending(q, S) ==
  /\ q \in [1..Cardinality(S) -> S]
  /\ \A m, n \in DOMAIN q : m < n => q[m] < q[n]

\* A bounded set of numbers is finite.
LEMMA BoundedFinite ==
  ASSUME NEW n \in Nat, NEW S, S \subseteq 1..n
  PROVE  S \subseteq Nat /\ IsFiniteSet(S) /\ Cardinality(S) \in Nat
<1>1. IsFiniteSet(1..n) /\ S \in SUBSET (1..n)
  BY FS_Interval
<1> QED
  <2>1. IsFiniteSet(S)
    BY <1>1, FS_Subset
  <2> QED
    BY <2>1, FS_CardinalityType

\* q has a place for each number of S.
HasAll(q, S) ==
  /\ DOMAIN q = 1..Cardinality(S)
  /\ \A x \in S : \E i \in DOMAIN q : q[i] = x

\* An ascending list of a set leaves none of its numbers out.
LEMMA AscendingAll ==
  ASSUME NEW n \in Nat, NEW S, S \subseteq 1..n, NEW q, IsAscending(q, S)
  PROVE  HasAll(q, S)
<1> DEFINE k == Cardinality(S)
<1>1. k \in Nat /\ S \subseteq Nat /\ IsFiniteSet(S)
  BY BoundedFinite
<1>2. q \in [1..k -> S] /\ \A i, j \in 1..k : i < j => q[i] < q[j]
  BY DEF IsAscending
<1> HIDE DEF k
<1>3. \A i \in 1..k : q[i] \in Nat
  BY <1>1, <1>2
<1>4. q \in Injection(1..k, S)
  <2>1. \A i, j \in 1..k : q[i] = q[j] => i = j
    BY <1>1, <1>2, <1>3
  <2> QED
    BY <1>2, <2>1 DEF Injection, IsInjective
<1>5. Cardinality(1..k) = k
  BY <1>1, FS_Interval
<1>6. q \in Surjection(1..k, S)
  BY <1>1, <1>4, <1>5, FS_Injection DEF k
<1>7. \A x \in S : \E i \in 1..k : q[i] = x
  BY <1>6 DEF Surjection
<1> QED
  BY <1>2, <1>7 DEF k, HasAll

\* There is only one.
LEMMA AscendingUnique ==
  ASSUME NEW n \in Nat, NEW S, S \subseteq 1..n, NEW p, NEW q,
         IsAscending(p, S), IsAscending(q, S)
  PROVE  p = q
<1> DEFINE k == Cardinality(S)
           T == {i \in 1..k : p[i] # q[i]}
<1>1. k \in Nat /\ S \subseteq Nat
  BY BoundedFinite
<1>2. /\ p \in [1..k -> S] /\ \A i, j \in 1..k : i < j => p[i] < p[j]
      /\ q \in [1..k -> S] /\ \A i, j \in 1..k : i < j => q[i] < q[j]
  BY DEF IsAscending
<1>3. \A x \in S : (\E i \in 1..k : p[i] = x) /\ \E i \in 1..k : q[i] = x
  <2>1. HasAll(p, S) /\ HasAll(q, S)
    BY AscendingAll
  <2> QED
    BY <2>1 DEF HasAll
<1> HIDE DEF k
<1>4. \A i \in 1..k : p[i] \in Nat /\ q[i] \in Nat
  BY <1>1, <1>2
<1>5. ASSUME T # {} PROVE FALSE
  <2>0. T \subseteq Nat
    BY <1>1
  <2>1. PICK i \in T : \A j \in T : i <= j
    BY <1>5, <2>0, LeastNumber
  <2>2. i \in 1..k /\ p[i] # q[i] /\ \A j \in 1..k : j < i => p[j] = q[j]
    BY <1>1, <2>1
  <2>3. CASE p[i] < q[i]
    <3>1. PICK j \in 1..k : q[j] = p[i]
      <4>1. p[i] \in S
        BY <1>2, <2>2
      <4> QED
        BY <1>3, <4>1
    <3>2. j < i
      <4>1. q[j] < q[i] /\ q[i] \in Nat /\ q[j] \in Nat
        BY <1>4, <2>2, <2>3, <3>1
      <4>2. i < j => q[i] < q[j]
        BY <1>2, <2>2
      <4>3. i \in Nat /\ j \in Nat /\ i # j
        BY <1>1, <2>2, <4>1
      <4> QED
        BY <4>1, <4>2, <4>3
    <3> QED
      BY <1>1, <1>2, <1>4, <2>2, <3>1, <3>2
  <2>4. CASE q[i] < p[i]
    <3>1. PICK j \in 1..k : p[j] = q[i]
      <4>1. q[i] \in S
        BY <1>2, <2>2
      <4> QED
        BY <1>3, <4>1
    <3>2. j < i
      <4>1. p[j] < p[i] /\ p[i] \in Nat /\ p[j] \in Nat
        BY <1>4, <2>2, <2>4, <3>1
      <4>2. i < j => p[i] < p[j]
        BY <1>2, <2>2
      <4>3. i \in Nat /\ j \in Nat /\ i # j
        BY <1>1, <2>2, <4>1
      <4> QED
        BY <4>1, <4>2, <4>3
    <3> QED
      BY <1>1, <1>2, <1>4, <2>2, <3>1, <3>2
  <2> QED
    BY <1>4, <2>2, <2>3, <2>4
<1>6. \A i \in 1..k : p[i] = q[i]
  BY <1>5
<1>7. p = [i \in 1..k |-> p[i]] /\ q = [i \in 1..k |-> q[i]]
  BY <1>2
<1> HIDE DEF T
<1> QED
  BY <1>6, <1>7

\* A greater number is appended.
LEMMA AscendingAppend ==
  ASSUME NEW n \in Nat, NEW S, S \subseteq 1..n, NEW q, IsAscending(q, S),
         NEW x \in Nat, \A y \in S : y < x
  PROVE  IsAscending(Append(q, x), S \cup {x})
<1> DEFINE k == Cardinality(S)
           r == Append(q, x)
           U == S \cup {x}
<1>1. k \in Nat /\ S \subseteq Nat /\ IsFiniteSet(S)
  BY BoundedFinite
<1>2. q \in [1..k -> S] /\ \A i, j \in 1..k : i < j => q[i] < q[j]
  BY DEF IsAscending
<1>3. Cardinality(U) = k + 1
  <2>1. x \notin S
    OBVIOUS
  <2> QED
    BY <1>1, <2>1, FS_AddElement
<1> HIDE DEF k
<1>4. q \in Seq(U) /\ Len(q) = k
  BY <1>1, <1>2
<1>5. /\ r \in Seq(U) /\ Len(r) = k + 1
      /\ \A i \in 1..k : r[i] = q[i]
      /\ r[k + 1] = x
  BY <1>4, AppendProperties
<1> HIDE DEF r, U
<1>6. r \in [1..(k + 1) -> U]
  BY <1>5, LenProperties
<1>7. \A i \in 1..k : r[i] \in S
  BY <1>2, <1>5
<1>8. \A i, j \in 1..(k + 1) : i < j => r[i] < r[j]
  <2> SUFFICES ASSUME NEW i \in 1..(k + 1), NEW j \in 1..(k + 1), i < j
               PROVE  r[i] < r[j]
    OBVIOUS
  <2>1. i \in 1..k
    BY <1>1
  <2>2. CASE j = k + 1
    BY <1>5, <1>7, <2>1, <2>2
  <2>3. CASE j \in 1..k
    BY <1>2, <1>5, <2>1, <2>3
  <2> QED
    BY <1>1, <2>2, <2>3
<1> QED
  BY <1>3, <1>6, <1>8 DEF IsAscending, r, U

\* The least number is the head.
LEMMA AscendingTail ==
  ASSUME NEW n \in Nat, NEW S, S \subseteq 1..n, NEW q, IsAscending(q, S),
         NEW x \in S, \A y \in S : y # x => x < y
  PROVE  q # <<>> /\ Head(q) = x /\ IsAscending(Tail(q), S \ {x})
<1> DEFINE k == Cardinality(S)
           r == Tail(q)
           U == S \ {x}
<1>1. k \in Nat /\ S \subseteq Nat /\ IsFiniteSet(S) /\ Cardinality(U) = k - 1
  BY BoundedFinite, FS_RemoveElement
<1>2. q \in [1..k -> S] /\ \A i, j \in 1..k : i < j => q[i] < q[j]
  BY DEF IsAscending
<1>3. PICK i \in 1..k : q[i] = x
  <2>1. HasAll(q, S)
    BY AscendingAll
  <2> QED
    BY <2>1 DEF HasAll
<1> HIDE DEF k
<1>4. \A j \in 1..k : q[j] \in S /\ q[j] \in Nat
  BY <1>1, <1>2
<1>5. i = 1 /\ k > 0
  <2>1. 1 \in 1..k
    BY <1>1
  <2>2. ~(1 < i)
    BY <1>2, <1>3, <1>4, <2>1
  <2> QED
    BY <1>1, <2>1, <2>2
<1>6. q \in Seq(S) /\ Len(q) = k /\ q # <<>>
  BY <1>1, <1>2, <1>5
<1>7. /\ r \in Seq(S) /\ Len(r) = k - 1
      /\ \A j \in 1..(k - 1) : r[j] = q[j + 1]
      /\ Head(q) = q[1]
  BY <1>6, HeadTailProperties
<1> HIDE DEF r, U
<1>8. \A j \in 1..(k - 1) : r[j] \in U
  BY <1>1, <1>2, <1>3, <1>4, <1>5, <1>7 DEF U
<1>9. r \in [1..(k - 1) -> U]
  BY <1>7, <1>8, LenProperties
<1>10. \A j, m \in 1..(k - 1) : j < m => r[j] < r[m]
  BY <1>1, <1>2, <1>7
<1> QED
  BY <1>1, <1>3, <1>5, <1>6, <1>7, <1>9, <1>10 DEF IsAscending, r, U

\* Every bounded set has an ascending list.
LEMMA AscendingExists ==
  ASSUME NEW n \in Nat, NEW S, S \subseteq 1..n
  PROVE  \E q : IsAscending(q, S)
<1> DEFINE Bad == {m \in Nat : ~\E q : IsAscending(q, S \cap (1..m))}
<1>1. ASSUME Bad # {} PROVE FALSE
  <2>1. PICK m \in Bad : \A i \in Bad : m <= i
    BY <1>1, LeastNumber
  <2>2. m \in Nat /\ ~\E q : IsAscending(q, S \cap (1..m))
    BY <2>1
  <2>3. m # 0
    <3>1. IsAscending(<<>>, {})
      BY FS_EmptySet DEF IsAscending
    <3>2. S \cap (1..0) = {}
      OBVIOUS
    <3> QED
      BY <2>2, <3>1, <3>2
  <2>4. m - 1 \in Nat /\ m - 1 \notin Bad
    BY <2>1, <2>2, <2>3
  <2> DEFINE V == S \cap (1..(m - 1))
  <2>5. PICK q : IsAscending(q, V)
    BY <2>4
  <2>6. V \subseteq 1..n /\ m \in Nat /\ \A y \in V : y < m
    BY <2>2
  <2>7. IsAscending(Append(q, m), V \cup {m})
    BY <2>5, <2>6, AscendingAppend
  <2>8. \/ S \cap (1..m) = V
        \/ S \cap (1..m) = V \cup {m}
    BY <2>2, <2>3
  <2> QED
    BY <2>2, <2>5, <2>7, <2>8
<1>2. n \notin Bad /\ S \cap (1..n) = S
  BY <1>1
<1> QED
  BY <1>2

\* The list r is the list p without some of its entries.
PartOf(r, p) ==
  \E i \in [DOMAIN r -> DOMAIN p] :
    /\ \A m, n \in DOMAIN r : m < n => i[m] < i[n]
    /\ \A n \in DOMAIN r : r[n] = p[i[n]]

\* Of two sets, one in the other, the list of the one is a part of the list of
\* the other.
LEMMA AscendingPart ==
  ASSUME NEW n \in Nat, NEW S, S \subseteq 1..n, NEW U, U \subseteq S,
         NEW q, IsAscending(q, S), NEW r, IsAscending(r, U)
  PROVE  PartOf(r, q)
<1> DEFINE f == [m \in DOMAIN r |-> CHOOSE j \in DOMAIN q : q[j] = r[m]]
           b == Cardinality(S)
<1>1. /\ b \in Nat /\ DOMAIN q = 1..b /\ S \subseteq Nat
      /\ \A x \in S : \E j \in DOMAIN q : q[j] = x
  <2>1. HasAll(q, S)
    BY AscendingAll
  <2>2. b \in Nat /\ S \subseteq Nat
    BY BoundedFinite
  <2> QED
    BY <2>1, <2>2 DEF HasAll
<1>2. /\ \A j, k \in DOMAIN q : j < k => q[j] < q[k]
      /\ \A j \in DOMAIN q : q[j] \in S
  BY DEF IsAscending
<1>3. /\ \A k, m \in DOMAIN r : k < m => r[k] < r[m]
      /\ \A m \in DOMAIN r : r[m] \in U
  BY DEF IsAscending
<1> HIDE DEF b
<1>4. ASSUME NEW m \in DOMAIN r PROVE f[m] \in DOMAIN q /\ q[f[m]] = r[m]
  <2>1. \E j \in DOMAIN q : q[j] = r[m]
    BY <1>1, <1>3
  <2> QED
    BY <2>1
<1>5. f \in [DOMAIN r -> DOMAIN q]
  BY <1>4
<1> HIDE DEF f
<1>6. ASSUME NEW k \in DOMAIN r, NEW m \in DOMAIN r, k < m PROVE f[k] < f[m]
  <2>1. q[f[k]] < q[f[m]] /\ q[f[k]] \in Nat /\ q[f[m]] \in Nat
    BY <1>1, <1>3, <1>4, <1>6
  <2>2. f[k] \in Nat /\ f[m] \in Nat
    BY <1>1, <1>4
  <2>3. f[m] < f[k] => q[f[m]] < q[f[k]]
    BY <1>2, <1>4
  <2>4. f[m] # f[k]
    BY <2>1
  <2> QED
    BY <2>1, <2>2, <2>3, <2>4
<1> QED
  BY <1>4, <1>5, <1>6 DEF PartOf

-----------------------------------------------------------------------------
(* Counting in a queue                                                     *)

\* How many entries of the queue are in A.
CountIn(q, A) == Cardinality({i \in DOMAIN q : q[i] \in A})

\* The count is a number.
LEMMA CountType ==
  ASSUME NEW S, NEW q \in Seq(S), NEW A
  PROVE  IsFiniteSet({i \in DOMAIN q : q[i] \in A}) /\ CountIn(q, A) \in Nat
<1>1. Len(q) \in Nat /\ {i \in DOMAIN q : q[i] \in A} \subseteq 1..Len(q)
  BY LenProperties
<1> QED
  BY <1>1, BoundedFinite DEF CountIn

\* Nothing is in an empty queue.
LEMMA CountEmpty == ASSUME NEW A PROVE CountIn(<<>>, A) = 0
<1>1. {i \in DOMAIN <<>> : <<>>[i] \in A} = {}
  OBVIOUS
<1> QED
  BY <1>1, FS_EmptySet DEF CountIn

\* An entry that is queued is counted.
LEMMA CountAppend ==
  ASSUME NEW S, NEW q \in Seq(S), NEW x \in S, NEW A
  PROVE  CountIn(Append(q, x), A) = CountIn(q, A) + IF x \in A THEN 1 ELSE 0
<1> DEFINE r == Append(q, x)
           D == {i \in DOMAIN q : q[i] \in A}
           E == {i \in DOMAIN r : r[i] \in A}
           k == Len(q)
<1>1. /\ k \in Nat /\ DOMAIN q = 1..k /\ IsFiniteSet(D) /\ Cardinality(D) \in Nat
  <2>1. k \in Nat /\ DOMAIN q = 1..k
    BY LenProperties
  <2>2. IsFiniteSet(D)
    BY CountType
  <2> QED
    BY <2>1, <2>2, FS_CardinalityType
<1>2. /\ DOMAIN r = 1..(k + 1)
      /\ \A i \in 1..k : r[i] = q[i]
      /\ r[k + 1] = x
  BY AppendProperties, LenProperties
<1> HIDE DEF r, k
<1>3. k + 1 \notin D
  BY <1>1
<1>4. CASE x \in A
  <2>1. E = D \cup {k + 1}
    BY <1>1, <1>2, <1>4
  <2>2. Cardinality(E) = Cardinality(D) + 1
    BY <1>1, <1>3, <2>1, FS_AddElement
  <2> QED
    BY <1>4, <2>2 DEF CountIn, r
<1>5. CASE x \notin A
  <2>1. E = D
    BY <1>1, <1>2, <1>5
  <2>2. CountIn(q, A) = Cardinality(D) /\ CountIn(r, A) = Cardinality(E)
    BY DEF CountIn
  <2> HIDE DEF D, E
  <2> QED
    BY <1>1, <1>5, <2>1, <2>2 DEF r
<1> QED
  BY <1>4, <1>5

\* The head that leaves is no longer counted.
LEMMA CountTail ==
  ASSUME NEW S, NEW q \in Seq(S), q # <<>>, NEW A
  PROVE  CountIn(q, A) = CountIn(Tail(q), A) + IF Head(q) \in A THEN 1 ELSE 0
<1> DEFINE r == Tail(q)
           D == {i \in DOMAIN q : q[i] \in A}
           E == {i \in DOMAIN r : r[i] \in A}
           k == Len(q)
           f == [i \in E |-> i + 1]
<1>1. /\ k \in Nat /\ DOMAIN q = 1..k /\ IsFiniteSet(D) /\ k > 0
  <2>1. k \in Nat \ {0} /\ DOMAIN q = 1..k
    BY LenProperties, EmptySeq
  <2>2. IsFiniteSet(D)
    BY CountType
  <2> QED
    BY <2>1, <2>2
<1>2. /\ r \in Seq(S) /\ DOMAIN r = 1..(k - 1) /\ Head(q) = q[1]
      /\ \A i \in 1..(k - 1) : r[i] = q[i + 1]
  BY HeadTailProperties, LenProperties
<1>3. IsFiniteSet(E) /\ Cardinality(E) \in Nat
  BY <1>2, CountType, FS_CardinalityType
<1> HIDE DEF r, k
<1>4. f \in [E -> D \ {1}] /\ \A i, j \in E : f[i] = f[j] => i = j
  BY <1>1, <1>2
<1>5. \A j \in D \ {1} : j - 1 \in E /\ f[j - 1] = j
  BY <1>1, <1>2
<1>6. ExistsBijection(E, D \ {1})
  <2> HIDE DEF D, E, f
  <2>1. f \in Injection(E, D \ {1})
    BY <1>4 DEF Injection, IsInjective
  <2>2. f \in Surjection(E, D \ {1})
    BY <1>4, <1>5 DEF Surjection
  <2> QED
    BY <2>1, <2>2 DEF ExistsBijection, Bijection
<1>7. Cardinality(D \ {1}) = Cardinality(E)
  BY <1>3, <1>6, FS_Bijection
<1>8. Cardinality(D) \in Nat
     /\ Cardinality(D \ {1}) = IF 1 \in D THEN Cardinality(D) - 1 ELSE Cardinality(D)
  BY <1>1, FS_RemoveElement, FS_CardinalityType
<1>9. 1 \in D <=> Head(q) \in A
  BY <1>1, <1>2
<1>10. CountIn(q, A) = Cardinality(D) /\ CountIn(r, A) = Cardinality(E)
  BY DEF CountIn
<1> HIDE DEF D, E
<1> QED
  BY <1>3, <1>7, <1>8, <1>9, <1>10 DEF r

-----------------------------------------------------------------------------
(* The numbers in a queue                                                  *)

\* The numbers of the entries; the entries with the number 0 do not count.
Numbers(q, number) == {number[q[i]] : i \in DOMAIN q} \ {0}

Ascends(q, number) ==
  \A i, j \in DOMAIN q :
    i < j /\ number[q[i]] # 0 /\ number[q[j]] # 0 => number[q[i]] < number[q[j]]

\* An empty queue has no numbers.
LEMMA NumbersEmpty ==
  ASSUME NEW number
  PROVE  Numbers(<<>>, number) = {} /\ Ascends(<<>>, number)
  BY DEF Numbers, Ascends

\* An entry is queued: its number joins, above all others or not at all.
LEMMA NumbersAppend ==
  ASSUME NEW S, NEW q \in Seq(S), NEW x \in S, NEW number \in [S -> Nat]
  PROVE  /\ Numbers(Append(q, x), number) = Numbers(q, number) \cup ({number[x]} \ {0})
         /\ Ascends(q, number) /\ (number[x] # 0 => \A y \in Numbers(q, number) : y < number[x])
              => Ascends(Append(q, x), number)
<1> DEFINE r == Append(q, x)
           k == Len(q)
<1>1. k \in Nat /\ DOMAIN q = 1..k
  BY LenProperties
<1>2. /\ DOMAIN r = 1..(k + 1)
      /\ \A i \in 1..k : r[i] = q[i]
      /\ r[k + 1] = x
  BY AppendProperties, LenProperties
<1> HIDE DEF r, k
<1>3. Numbers(r, number) \subseteq Numbers(q, number) \cup ({number[x]} \ {0})
  BY <1>1, <1>2 DEF Numbers
<1>4. \A i \in 1..k : i \in 1..(k + 1) /\ number[r[i]] = number[q[i]]
  BY <1>1, <1>2
<1>5. k + 1 \in 1..(k + 1)
  BY <1>1
<1>6. Numbers(q, number) \cup ({number[x]} \ {0}) \subseteq Numbers(r, number)
  BY <1>1, <1>2, <1>4, <1>5 DEF Numbers
<1>7. ASSUME Ascends(q, number), number[x] # 0 => \A y \in Numbers(q, number) : y < number[x]
      PROVE  Ascends(r, number)
  <2> SUFFICES ASSUME NEW i \in 1..(k + 1), NEW j \in 1..(k + 1), i < j,
                      number[r[i]] # 0, number[r[j]] # 0
               PROVE  number[r[i]] < number[r[j]]
    BY <1>2 DEF Ascends
  <2>1. i \in 1..k
    BY <1>1
  <2>2. CASE j = k + 1
    BY <1>1, <1>2, <1>7, <2>1, <2>2 DEF Numbers
  <2>3. CASE j \in 1..k
    BY <1>1, <1>2, <1>7, <2>1, <2>3 DEF Ascends
  <2> QED
    BY <1>1, <2>2, <2>3
<1> QED
  BY <1>3, <1>6, <1>7 DEF r


\* A list without its first entry, index by index.
LEMMA NumbersShift ==
  ASSUME NEW k \in Nat \ {0}, NEW q, NEW r, NEW h, NEW number,
         DOMAIN q = 1..k, DOMAIN r = 1..(k - 1), h = q[1],
         \A i \in 1..(k - 1) : r[i] = q[i + 1]
  PROVE  /\ Numbers(q, number) = Numbers(r, number) \cup ({number[h]} \ {0})
         /\ Ascends(q, number) =>
              Ascends(r, number) /\ (number[h] # 0 => \A y \in Numbers(r, number) : number[h] < y)
<1>1. 1 \in 1..k /\ \A i \in 1..(k - 1) : i + 1 \in 1..k /\ r[i] = q[i + 1] /\ 1 < i + 1
  OBVIOUS
<1>2. \A i \in 1..k : i = 1 \/ (i - 1 \in 1..(k - 1) /\ r[i - 1] = q[i])
  OBVIOUS
<1>3. Numbers(q, number) \subseteq Numbers(r, number) \cup ({number[h]} \ {0})
  <2> SUFFICES ASSUME NEW i \in 1..k, number[q[i]] # 0
               PROVE  number[q[i]] \in Numbers(r, number) \cup {number[h]}
    BY DEF Numbers
  <2>1. CASE i # 1
    <3>1. i - 1 \in DOMAIN r /\ r[i - 1] = q[i]
      BY <1>2, <2>1
    <3> QED
      BY <3>1, Zenon DEF Numbers
  <2> QED
    BY <2>1
<1>4. Numbers(r, number) \cup ({number[h]} \ {0}) \subseteq Numbers(q, number)
  BY <1>1 DEF Numbers
<1>5. ASSUME Ascends(q, number) PROVE Ascends(r, number)
  <2> SUFFICES ASSUME NEW i \in 1..(k - 1), NEW j \in 1..(k - 1), i < j,
                      number[r[i]] # 0, number[r[j]] # 0
               PROVE  number[r[i]] < number[r[j]]
    BY DEF Ascends
  <2>1. /\ i + 1 \in DOMAIN q /\ j + 1 \in DOMAIN q /\ i + 1 < j + 1
        /\ r[i] = q[i + 1] /\ r[j] = q[j + 1]
    OBVIOUS
  <2> QED
    BY <1>5, <2>1, Zenon DEF Ascends
<1>6. ASSUME Ascends(q, number), number[h] # 0, NEW y \in Numbers(r, number)
      PROVE  number[h] < y
  <2>1. PICK i \in 1..(k - 1) : y = number[r[i]] /\ y # 0
    BY DEF Numbers
  <2>2. 1 \in DOMAIN q /\ i + 1 \in DOMAIN q /\ 1 < i + 1 /\ r[i] = q[i + 1]
    BY <1>1
  <2> QED
    BY <1>6, <2>1, <2>2, Zenon DEF Ascends
<1> QED
  BY <1>3, <1>4, <1>5, <1>6

\* The head leaves: its number is below all that stay.
LEMMA NumbersTail ==
  ASSUME NEW S, NEW q \in Seq(S), q # <<>>, NEW number
  PROVE  /\ Numbers(q, number) = Numbers(Tail(q), number) \cup ({number[Head(q)]} \ {0})
         /\ Ascends(q, number) =>
              /\ Ascends(Tail(q), number)
              /\ number[Head(q)] # 0 => \A y \in Numbers(Tail(q), number) : number[Head(q)] < y
<1>1. Len(q) \in Nat \ {0} /\ DOMAIN q = 1..Len(q)
  BY LenProperties, EmptySeq
<1>2. /\ Tail(q) \in Seq(S) /\ Len(Tail(q)) = Len(q) - 1
      /\ \A i \in 1..Len(Tail(q)) : Tail(q)[i] = q[i + 1]
  BY HeadTailProperties
<1>3. DOMAIN Tail(q) = 1..(Len(q) - 1) /\ \A i \in 1..(Len(q) - 1) : Tail(q)[i] = q[i + 1]
  BY <1>1, <1>2, LenProperties
<1>4. Head(q) = q[1]
  OBVIOUS
<1> DEFINE r == Tail(q)
           h == Head(q)
           k == Len(q)
<1> HIDE DEF r, h, k
<1> QED
  BY <1>1, <1>3, <1>4, NumbersShift DEF r, h, k
=============================================================================
