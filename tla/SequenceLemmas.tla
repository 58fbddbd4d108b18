--------------------------- MODULE SequenceLemmas ---------------------------
(* What the steps of the models do to the entries of a sequence. *)
EXTENDS Integers, Lists, SequenceTheorems, FiniteSetTheorems, WellFoundedInduction, TLAPS

\* The elements of a sequence with one added behind.
LEMMA AppendElements ==
    ASSUME NEW S, NEW s \in Seq(S), NEW e \in S
    PROVE  /\ Len(s) \in Nat
           /\ DOMAIN s = 1..Len(s)
           /\ DOMAIN Append(s, e) = 1..(Len(s) + 1)
           /\ \A i \in DOMAIN s : Append(s, e)[i] = s[i]
           /\ Append(s, e)[Len(s) + 1] = e
  OBVIOUS

\* The elements of a sequence with the first gone.
LEMMA TailElements ==
    ASSUME NEW S, NEW s \in Seq(S), s # <<>>
    PROVE  /\ Len(s) \in Nat \ {0}
           /\ DOMAIN s = 1..Len(s)
           /\ DOMAIN Tail(s) = 1..(Len(s) - 1)
           /\ \A i \in DOMAIN Tail(s) : Tail(s)[i] = s[i + 1]
  OBVIOUS

\* The elements of a sequence with one taken out.
LEMMA RemoveElements ==
    ASSUME NEW S, NEW s \in Seq(S), NEW i \in DOMAIN s
    PROVE  LET r == SubSeq(s, 1, i - 1) \o SubSeq(s, i + 1, Len(s)) IN
           /\ r \in Seq(S)
           /\ Len(r) = Len(s) - 1
           /\ DOMAIN r = 1..(Len(s) - 1)
           /\ \A j \in DOMAIN r : r[j] = IF j < i THEN s[j] ELSE s[j + 1]
  <1> DEFINE a == SubSeq(s, 1, i - 1)
             b == SubSeq(s, i + 1, Len(s))
  <1>1. i \in 1..Len(s) /\ Len(s) \in Nat
    OBVIOUS
  <1>2. /\ a \in Seq(S) /\ Len(a) = i - 1
        /\ \A j \in 1..(i - 1) : a[j] = s[j]
    BY <1>1
  <1>3. /\ b \in Seq(S) /\ Len(b) = Len(s) - i
        /\ \A j \in 1..(Len(s) - i) : b[j] = s[i + j]
    BY <1>1
  <1> HIDE DEF a, b
  <1>4. /\ a \o b \in Seq(S)
        /\ Len(a \o b) = Len(s) - 1
        /\ DOMAIN (a \o b) = 1..(Len(s) - 1)
    BY <1>1, <1>2, <1>3
  <1>5. \A j \in 1..(Len(a) + Len(b)) :
          (a \o b)[j] = IF j <= Len(a) THEN a[j] ELSE b[j - Len(a)]
    BY <1>2, <1>3, ConcatProperties
  <1>6. Len(a) + Len(b) = Len(s) - 1
    BY <1>1, <1>2, <1>3
  <1>7. \A j \in 1..(Len(s) - 1) :
          (a \o b)[j] = IF j < i THEN a[j] ELSE b[j - (i - 1)]
    <2> TAKE j \in 1..(Len(s) - 1)
    <2>1. j <= i - 1 <=> j < i
      BY <1>1
    <2> QED
      BY <1>2, <1>5, <1>6, <2>1
  <1>8. ASSUME NEW j \in 1..(Len(s) - 1)
        PROVE  (a \o b)[j] = IF j < i THEN s[j] ELSE s[j + 1]
    <2>1. CASE j < i
      <3>1. j \in 1..(i - 1)
        BY <1>1, <2>1
      <3>2. (a \o b)[j] = a[j]
        BY <1>7, <2>1
      <3> QED
        BY <1>2, <2>1, <3>1, <3>2
    <2>2. CASE ~(j < i)
      <3> DEFINE k == j - (i - 1)
      <3>1. k \in 1..(Len(s) - i) /\ i + k = j + 1
        BY <1>1, <2>2
      <3>2. (a \o b)[j] = b[k]
        BY <1>7, <2>2
      <3>3. b[k] = s[j + 1]
        BY <1>3, <3>1
      <3> QED
        BY <2>2, <3>2, <3>3
    <2> QED
      BY <2>1, <2>2
  <1> QED
    BY <1>4, <1>8 DEF a, b

-----------------------------------------------------------------------------
(* Sets of positions *)

Less == {pair \in Nat \X Nat : pair[1] < pair[2]}

\* A set of naturals that is not empty has a least element.
LEMMA Least ==
    ASSUME NEW T, T \subseteq Nat, T # {}
    PROVE  \E x \in T : \A y \in T : x <= y
  <1>1. IsWellFoundedOn(Less, Nat)
    BY NatLessThanWellFounded DEF Less, OpToRel
  <1>2. PICK x \in T : \A y \in T : <<y, x>> \notin Less
    BY <1>1, WFMin
  <1>3. \A y \in T : ~(y < x)
    BY <1>2 DEF Less
  <1> QED BY <1>3

\* A bounded set of positions that is not empty has a last one.
LEMMA Latest ==
    ASSUME NEW n \in Nat, NEW S, S \subseteq 1..n, S # {}
    PROVE  \E x \in S : \A y \in S : y <= x
  <1> DEFINE T == {k \in Nat : n - k \in S}
  <1>1. PICK z \in S : TRUE
    OBVIOUS
  <1>2. n - z \in Nat /\ n - (n - z) = z
    BY <1>1
  <1>3. T # {}
    BY <1>1, <1>2
  <1>4. PICK k \in T : \A m \in T : k <= m
    BY <1>3, Least
  <1>5. ASSUME NEW y \in S
        PROVE  y <= n - k
    <2>1. n - y \in Nat /\ n - (n - y) = y
      OBVIOUS
    <2>2. k <= n - y
      BY <1>4, <2>1
    <2> QED BY <2>2
  <1> QED BY <1>4, <1>5

\* Ranks tell the positions apart and follow their order.
LEMMA RankOrder ==
    ASSUME NEW n \in Nat, NEW P, P \subseteq 1..n
    PROVE  /\ IsFiniteSet(P) /\ Cardinality(P) \in Nat
           /\ \A i \in P : Rank(P, i) \in 1..Cardinality(P)
           /\ \A i, j \in P : i < j => Rank(P, i) < Rank(P, j)
  <1>0. IsFiniteSet(1..n) /\ P \in SUBSET (1..n)
    BY FS_Interval
  <1>1. IsFiniteSet(P) /\ Cardinality(P) \in Nat
    BY <1>0, FS_Subset, FS_CardinalityType
  <1> DEFINE UpTo(i) == {j \in P : j <= i}
  <1>2. ASSUME NEW i \in P
        PROVE  /\ IsFiniteSet(UpTo(i)) /\ Cardinality(UpTo(i)) \in Nat
               /\ Cardinality(UpTo(i)) <= Cardinality(P)
               /\ Cardinality(UpTo(i)) # 0
    <2>1. UpTo(i) \in SUBSET P /\ i \in UpTo(i)
      OBVIOUS
    <2>2. /\ IsFiniteSet(UpTo(i)) /\ Cardinality(UpTo(i)) <= Cardinality(P)
          /\ Cardinality(UpTo(i)) \in Nat
      BY <1>1, <2>1, FS_Subset, FS_CardinalityType
    <2>3. Cardinality(UpTo(i)) # 0
      BY <2>1, <2>2, FS_EmptySet
    <2> QED BY <2>2, <2>3
  <1>3. ASSUME NEW i \in P, NEW j \in P, i < j
        PROVE  Cardinality(UpTo(i)) < Cardinality(UpTo(j))
    <2>0. i \in Nat /\ j \in Nat /\ \A m \in P : m \in Nat
      OBVIOUS
    <2>1. UpTo(i) \in SUBSET UpTo(j) /\ j \in UpTo(j) /\ j \notin UpTo(i)
      <3>1. \A m \in P : m <= i => m <= j
        BY <1>3, <2>0
      <3>2. j <= j /\ ~(j <= i)
        BY <1>3, <2>0
      <3> QED BY <3>1, <3>2
    <2>2. Cardinality(UpTo(i)) <= Cardinality(UpTo(j)) /\ Cardinality(UpTo(i)) # Cardinality(UpTo(j))
      BY <1>2, <2>1, FS_Subset
    <2> QED BY <1>2, <2>2
  <1> QED BY <1>1, <1>2, <1>3 DEF Rank

\* InOrder goes through a set of positions once, upwards.
LEMMA InOrderWorks ==
    ASSUME NEW n \in Nat, NEW P, P \subseteq 1..n
    PROVE  LET f == InOrder(P) IN
           /\ Cardinality(P) \in Nat
           /\ f \in [1..Cardinality(P) -> P]
           /\ \A a, b \in 1..Cardinality(P) : a < b => f[a] < f[b]
           /\ \A i \in P : \E a \in 1..Cardinality(P) : f[a] = i
  <1> DEFINE k == Cardinality(P)
             rank == [i \in P |-> Rank(P, i)]
             f == InOrder(P)
  <1>1. /\ IsFiniteSet(P) /\ k \in Nat
        /\ rank \in [P -> 1..k]
        /\ \A i, j \in P : i < j => rank[i] < rank[j]
    BY RankOrder
  <1>2. rank \in Injection(P, 1..k)
    <2>1. \A i, j \in P : i = j \/ i < j \/ j < i
      OBVIOUS
    <2>2. \A i, j \in P : rank[i] = rank[j] => i = j
      <3> SUFFICES ASSUME NEW i \in P, NEW j \in P, rank[i] = rank[j] PROVE i = j
        OBVIOUS
      <3>1. rank[i] \in 1..k /\ rank[j] \in 1..k
        BY <1>1
      <3>2. ~(rank[i] < rank[j]) /\ ~(rank[j] < rank[i])
        BY <1>1, <3>1
      <3> QED BY <1>1, <2>1, <3>2
    <2> QED BY <1>1, <2>2 DEF Injection, IsInjective
  <1>3. rank \in Surjection(P, 1..k)
    <2>1. IsFiniteSet(1..k) /\ Cardinality(1..k) = k
      BY <1>1, FS_Interval
    <2> QED BY <1>2, <2>1, FS_Injection
  <1>4. \A a \in 1..k : \E i \in P : rank[i] = a
    BY <1>3 DEF Surjection
  <1>5. \A a \in 1..k : f[a] \in P /\ rank[f[a]] = a
    BY <1>1, <1>4 DEF InOrder
  <1>6. f \in [1..k -> P]
    BY <1>5 DEF InOrder
  <1>7. ASSUME NEW a \in 1..k, NEW b \in 1..k, a < b
        PROVE  f[a] < f[b]
    <2>1. f[a] \in P /\ f[b] \in P /\ rank[f[a]] = a /\ rank[f[b]] = b
      BY <1>5
    <2>2. ~(b < a) /\ a # b
      BY <1>7
    <2>3. f[a] # f[b] /\ ~(f[b] < f[a])
      BY <1>1, <2>1, <2>2
    <2>4. \A i \in P : i \in Nat
      OBVIOUS
    <2>5. f[a] \in Nat /\ f[b] \in Nat
      BY <2>1, <2>4
    <2> HIDE DEF f
    <2> QED BY <2>3, <2>5
  <1>8. ASSUME NEW i \in P
        PROVE  \E a \in 1..k : f[a] = i
    <2>1. rank[i] \in 1..k
      BY <1>1
    <2>2. f[rank[i]] \in P /\ rank[f[rank[i]]] = rank[i]
      BY <1>5, <2>1
    <2> QED BY <1>2, <2>1, <2>2 DEF Injection, IsInjective
  <1> QED BY <1>1, <1>6, <1>7, <1>8

-----------------------------------------------------------------------------
(* Lists *)

OnceEach(list) == \A i, j \in DOMAIN list : i # j => list[i] # list[j]

\* What is left when some elements are taken out: a list of the others, in their order,
\* each once if each was there once.
LEMMA WithoutWorks ==
    ASSUME NEW S, NEW list \in Seq(S), NEW gone
    PROVE  LET left == Without(list, gone) IN
           /\ left \in Seq(S)
           /\ Len(left) <= Len(list)
           /\ Listed(left) = Listed(list) \ gone
           /\ OnceEach(list) => OnceEach(left)
  <1> DEFINE P == Kept(list, gone)
             k == Cardinality(P)
             f == InOrder(P)
             left == Without(list, gone)
  <1>1. Len(list) \in Nat /\ DOMAIN list = 1..Len(list) /\ P \subseteq 1..Len(list)
    BY DEF Kept
  <1>2. /\ k \in Nat /\ f \in [1..k -> P]
        /\ \A a, b \in 1..k : a < b => f[a] < f[b]
        /\ \A i \in P : \E a \in 1..k : f[a] = i
    BY <1>1, InOrderWorks
  <1>3. left = [n \in 1..k |-> list[f[n]]]
    BY DEF Without
  <1> HIDE DEF f, k, left, P
  <1>4. \A a \in 1..k : f[a] \in 1..Len(list) /\ list[f[a]] \in S \ gone
    BY <1>1, <1>2 DEF P, Kept
  <1>5. left \in Seq(S) /\ Len(left) = k /\ DOMAIN left = 1..k
    BY <1>2, <1>3, <1>4
  <1>6. k <= Len(list)
    <2>1. IsFiniteSet(1..Len(list)) /\ Cardinality(1..Len(list)) = Len(list)
      <3>1. 1 \in Int /\ Len(list) \in Int /\ Len(list) - 1 + 1 = Len(list)
            /\ (1 > Len(list) => Len(list) = 0)
        BY <1>1
      <3> QED BY <3>1, FS_Interval
    <2>2. P \in SUBSET (1..Len(list))
      BY <1>1
    <2> QED BY <2>1, <2>2, FS_Subset DEF k
  <1>7. Listed(left) = Listed(list) \ gone
    <2>1. ASSUME NEW e \in Listed(left)
          PROVE  e \in Listed(list) \ gone
      BY <1>1, <1>3, <1>4, <1>5 DEF Listed
    <2>2. ASSUME NEW e \in Listed(list) \ gone
          PROVE  e \in Listed(left)
      <3>1. PICK i \in DOMAIN list : e = list[i]
        BY DEF Listed
      <3>2. i \in P
        BY <3>1 DEF P, Kept
      <3>3. PICK a \in 1..k : f[a] = i
        BY <1>2, <3>2
      <3> QED BY <1>3, <1>5, <3>1, <3>3 DEF Listed
    <2> QED BY <2>1, <2>2
  <1>8. ASSUME OnceEach(list), NEW a \in 1..k, NEW b \in 1..k, a # b
        PROVE  left[a] # left[b]
    <2>1. f[a] \in 1..Len(list) /\ f[b] \in 1..Len(list) /\ (a < b \/ b < a)
      BY <1>2, <1>4, <1>8
    <2>2. f[a] # f[b]
      BY <1>2, <2>1
    <2> QED BY <1>1, <1>3, <1>8, <2>1, <2>2 DEF OnceEach
  <1> QED BY <1>5, <1>6, <1>7, <1>8 DEF left, OnceEach

\* A list in which everything is there once is as long as the set of what is on it.
LEMMA LengthOfOnceEach ==
    ASSUME NEW S, NEW list \in Seq(S), OnceEach(list)
    PROVE  Len(list) = Cardinality(Listed(list))
  <1>1. Len(list) \in Nat /\ DOMAIN list = 1..Len(list)
    OBVIOUS
  <1>2. list \in Bijection(1..Len(list), Listed(list))
    BY <1>1 DEF OnceEach, Listed, Bijection, Injection, Surjection, IsInjective
  <1>3. ExistsBijection(1..Len(list), Listed(list))
    BY <1>2 DEF ExistsBijection
  <1> QED BY <1>1, <1>3, FS_CountingElements

\* The first of a list stays the first as long as it is not taken out.
LEMMA WithoutOthers ==
    ASSUME NEW S, NEW list \in Seq(S), NEW gone, list # <<>>, Head(list) \notin gone
    PROVE  Without(list, gone) # <<>> /\ Head(Without(list, gone)) = Head(list)
  <1> DEFINE P == Kept(list, gone)
             k == Cardinality(P)
             f == InOrder(P)
             left == Without(list, gone)
  <1>1. Len(list) \in Nat \ {0} /\ DOMAIN list = 1..Len(list) /\ P \subseteq 1..Len(list)
    BY DEF Kept
  <1>2. /\ k \in Nat /\ f \in [1..k -> P]
        /\ \A a, b \in 1..k : a < b => f[a] < f[b]
        /\ \A i \in P : \E a \in 1..k : f[a] = i
    BY <1>1, InOrderWorks
  <1>3. 1 \in P
    BY <1>1 DEF Kept
  <1>4. left = [n \in 1..k |-> list[f[n]]]
    BY DEF Without
  <1> HIDE DEF f, k, left, P
  <1>5. PICK a \in 1..k : f[a] = 1
    BY <1>2, <1>3
  <1>6. a = 1
    <2>0. 1 \in 1..k
      BY <1>2, <1>5
    <2>1. 1 \in 1..k /\ f[1] \in 1..Len(list)
      <3>1. f[1] \in P
        BY <1>2, <2>0
      <3> QED BY <1>1, <2>0, <3>1
    <2>2. 1 < a => f[1] < 1
      BY <1>2, <1>5, <2>1
    <2> QED BY <1>5, <2>1, <2>2
  <1>7. Len(left) = k /\ left[1] = list[1]
    BY <1>2, <1>4, <1>5, <1>6
  <1>8. left \in Seq(S)
    BY WithoutWorks DEF left
  <1> QED BY <1>2, <1>5, <1>7, <1>8 DEF left

\* An element that is put behind a list it is not on is there once, like the others.
LEMMA AppendListed ==
    ASSUME NEW S, NEW list \in Seq(S), NEW e \in S, e \notin Listed(list)
    PROVE  /\ Listed(Append(list, e)) = Listed(list) \cup {e}
           /\ OnceEach(list) => OnceEach(Append(list, e))
  <1> DEFINE longer == Append(list, e)
             n == Len(list)
  <1>1. /\ n \in Nat /\ DOMAIN list = 1..n /\ DOMAIN longer = 1..(n + 1)
        /\ \A i \in 1..n : longer[i] = list[i]
        /\ longer[n + 1] = e
    BY AppendElements
  <1>2. \A i \in 1..n : list[i] # e
    BY <1>1 DEF Listed
  <1> HIDE DEF longer, n
  <1>3. \A i : i \in 1..(n + 1) <=> i \in 1..n \/ i = n + 1
    BY <1>1
  <1>4. Listed(longer) = Listed(list) \cup {e}
    BY <1>1, <1>3 DEF Listed
  <1>5. ASSUME OnceEach(list) PROVE OnceEach(longer)
    <2>1. ASSUME NEW i \in 1..(n + 1), NEW j \in 1..(n + 1), longer[i] = longer[j]
          PROVE  i = j
      <3>1. CASE i \in 1..n /\ j \in 1..n
        BY <1>1, <1>5, <2>1, <3>1 DEF OnceEach
      <3>2. CASE i = n + 1 \/ j = n + 1
        BY <1>1, <1>2, <1>3, <2>1, <3>2
      <3> QED BY <1>3, <3>1, <3>2
    <2> QED BY <1>1, <2>1 DEF OnceEach
  <1> QED BY <1>4, <1>5 DEF longer

=============================================================================
