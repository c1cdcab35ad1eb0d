---------------------------- MODULE CrawlerProofs ----------------------------
(***************************************************************************)
(* That discovery hands over, for any site and any configuration, what the *)
(* specification declares and nothing robots.txt disallows, opens no page  *)
(* twice or too deep, and is cut off in the order of the report.           *)
(***************************************************************************)
EXTENDS Crawler, FiniteSetTheorems, TLAPS

-----------------------------------------------------------------------------
(* --- numbers, lists, counting off --------------------------------------- *)
LEMMA Least == ASSUME NEW T, T \subseteq Nat, T # {} PROVE \E x \in T : \A y \in T : x <= y
<1>1. \E R : IsWellFoundedOn(R, Nat) /\ \A x, y \in Nat : x < y => <<x, y>> \in R
  <2>1. \A x, y \in Nat : x < y => <<x, y>> \in OpToRel(<, Nat)
    BY DEF OpToRel
  <2> QED BY NatLessThanWellFounded, <2>1, Zenon
<1>2. PICK R : IsWellFoundedOn(R, Nat) /\ \A x, y \in Nat : x < y => <<x, y>> \in R
  BY <1>1
<1>5. IsWellFoundedOn(R, Nat)
  BY <1>2
<1>6. \E x \in T : \A y \in T : ~(<<y, x>> \in R)
  BY ONLY <1>5, T \subseteq Nat, T # {}, WFMin, Zenon
<1>3. PICK x \in T : \A y \in T : ~(<<y, x>> \in R)
  BY <1>6
<1>4. x \in Nat /\ \A y \in T : y \in Nat /\ ~(y < x)
  BY <1>2, <1>3
<1> QED BY <1>4

LEMMA ListShape ==
  ASSUME NEW s, IsList(s)
  PROVE  Len(s) \in Nat /\ DOMAIN s = 1 .. Len(s) /\ s = [i \in 1 .. Len(s) |-> s[i]]
         /\ \A i \in 1 .. Len(s) : s[i] \in ToSet(s)
BY DEF IsList, ToSet

LEMMA SeqShape ==
  ASSUME NEW S, NEW s \in Seq(S), NEW n \in Nat, Len(s) = n
  PROVE  DOMAIN s = 1 .. n /\ s = [i \in 1 .. n |-> s[i]]
OBVIOUS

LEMMA ListOf ==
  ASSUME NEW n \in Nat, NEW s, s = [i \in 1 .. n |-> s[i]]
  PROVE  IsList(s) /\ Len(s) = n /\ DOMAIN s = 1 .. n
<1>1. s \in [1 .. n -> ToSet(s)]
  BY DEF ToSet
<1>2. IsList(s)
  BY <1>1 DEF IsList
<1>3. DOMAIN s = 1 .. n /\ DOMAIN s = 1 .. Len(s) /\ Len(s) \in Nat
  BY <1>2, ListShape
<1>4. Len(s) = n
  BY <1>1
<1> QED BY <1>2, <1>3, <1>4

LEMMA EmptyList == IsList(<< >>) /\ ToSet(<< >>) = {} /\ DOMAIN << >> = {} /\ Len(<< >>) = 0
BY DEF IsList, ToSet

LEMMA ConcatList ==
  ASSUME NEW a, NEW b, IsList(a), IsList(b)
  PROVE  /\ IsList(a \o b) /\ Len(a \o b) = Len(a) + Len(b)
         /\ ToSet(a \o b) = ToSet(a) \cup ToSet(b)
         /\ \A i \in DOMAIN a : i \in DOMAIN (a \o b) /\ (a \o b)[i] = a[i]
<1> DEFINE S == ToSet(a) \cup ToSet(b)
           c == a \o b
<1>1. a \in Seq(S) /\ b \in Seq(S) /\ c \in Seq(S)
  BY DEF IsList
<1>2. PICK m \in Nat : m = Len(a) /\ DOMAIN a = 1 .. m
  BY ListShape
<1>3. PICK n \in Nat : n = Len(b) /\ DOMAIN b = 1 .. n
  BY ListShape
<1>4. DOMAIN c = 1 .. m + n /\ c = [i \in 1 .. m + n |-> c[i]] /\ Len(c) = m + n
  <2>1. Len(c) = m + n /\ m + n \in Nat
    BY <1>1, <1>2, <1>3
  <2> HIDE DEF c
  <2> QED BY <1>1, <2>1, SeqShape
<1>5. \A i \in 1 .. m : c[i] = a[i]
  BY <1>1, <1>2, <1>3
<1>6. \A i \in 1 .. n : c[m + i] = b[i]
  BY <1>1, <1>2, <1>3
<1> HIDE DEF c
<1>7. IsList(c)
  <2>1. m + n \in Nat
    OBVIOUS
  <2> QED BY <1>4, <2>1, ListOf
<1>8. (\A i \in 1 .. m : i \in 1 .. m + n) /\ (\A i \in 1 .. n : m + i \in 1 .. m + n)
  OBVIOUS
<1>9. \A i \in 1 .. m + n : i \in 1 .. m \/ \E k \in 1 .. n : i = m + k
  <2> SUFFICES ASSUME NEW i \in 1 .. m + n, ~(i \in 1 .. m) PROVE \E k \in 1 .. n : i = m + k
    OBVIOUS
  <2>1. i - m \in 1 .. n /\ i = m + (i - m)
    OBVIOUS
  <2> QED BY <2>1
<1>10. ToSet(c) = ToSet(a) \cup ToSet(b)
  <2>1. ToSet(c) \subseteq ToSet(a) \cup ToSet(b)
    <3> SUFFICES ASSUME NEW i \in 1 .. m + n PROVE c[i] \in ToSet(a) \cup ToSet(b)
      BY <1>4 DEF ToSet
    <3>1. CASE i \in 1 .. m
      BY <1>2, <1>5, <3>1 DEF ToSet
    <3>2. ASSUME NEW k \in 1 .. n, i = m + k PROVE c[i] \in ToSet(b)
      BY <1>3, <1>6, <3>2 DEF ToSet
    <3> QED BY <1>9, <3>1, <3>2
  <2>2. ToSet(a) \subseteq ToSet(c) /\ ToSet(b) \subseteq ToSet(c)
    BY <1>2, <1>3, <1>4, <1>5, <1>6, <1>8, ZenonT(40) DEF ToSet
  <2> QED BY <2>1, <2>2
<1> QED BY <1>2, <1>3, <1>4, <1>5, <1>6, <1>7, <1>8, <1>10 DEF c

After(a, i) == Len(a) + i
LEMMA ConcatRight ==
  ASSUME NEW a, NEW b, IsList(a), IsList(b), NEW i \in DOMAIN b
  PROVE  After(a, i) \in DOMAIN (a \o b) /\ (a \o b)[After(a, i)] = b[i]
<1>1. PICK m \in Nat : m = Len(a) /\ DOMAIN a = 1 .. m
  BY ListShape
<1>2. PICK n \in Nat : n = Len(b) /\ DOMAIN b = 1 .. n
  BY ListShape
<1>3. IsList(a \o b) /\ Len(a \o b) = m + n
  BY <1>1, <1>2, ConcatList
<1>4. DOMAIN (a \o b) = 1 .. m + n
  BY <1>3, ListShape
<1>5. m + i \in 1 .. m + n /\ (a \o b)[m + i] = b[i]
  <2> DEFINE S == ToSet(a) \cup ToSet(b)
  <2>1. a \in Seq(S) /\ b \in Seq(S)
    BY DEF IsList
  <2> QED BY <1>1, <1>2, <2>1
<1> QED BY <1>1, <1>4, <1>5 DEF After

(* What a queue holds is its head and its tail.                             *)
LEMMA TailList ==
  ASSUME NEW q, IsList(q), q # << >>
  PROVE  /\ IsList(Tail(q)) /\ Len(q) \in Nat /\ Len(q) >= 1 /\ Len(Tail(q)) = Len(q) - 1
         /\ Head(q) = q[1] /\ 1 \in DOMAIN q
         /\ \A i \in DOMAIN Tail(q) : i + 1 \in DOMAIN q /\ Tail(q)[i] = q[i + 1]
         /\ ToSet(q) = {Head(q)} \cup ToSet(Tail(q))
<1>1. PICK n \in Nat : n = Len(q) /\ DOMAIN q = 1 .. n /\ q \in Seq(ToSet(q))
  BY ListShape DEF IsList
<1>2. n # 0
  BY <1>1
<1>3. n - 1 \in Nat /\ 1 \in 1 .. n /\ n >= 1
  BY <1>2
<1>4. Head(q) = q[1] /\ Tail(q) \in Seq(ToSet(q)) /\ Len(Tail(q)) = n - 1
  BY <1>1, <1>3
<1>5. DOMAIN Tail(q) = 1 .. n - 1 /\ Tail(q) = [i \in 1 .. n - 1 |-> Tail(q)[i]]
  <2>1. PICK t \in Seq(ToSet(q)) : t = Tail(q)
    BY <1>4
  <2> QED BY <1>3, <1>4, <2>1, SeqShape
<1>6. \A i \in 1 .. n - 1 : i + 1 \in 1 .. n /\ Tail(q)[i] = q[i + 1]
  BY <1>1, <1>3
<1>7. IsList(Tail(q))
  BY <1>3, <1>5, ListOf
<1>8. \A i \in 1 .. n : i = 1 \/ \E k \in 1 .. n - 1 : i = k + 1
  <2> SUFFICES ASSUME NEW i \in 1 .. n, i # 1 PROVE \E k \in 1 .. n - 1 : i = k + 1
    OBVIOUS
  <2>1. i - 1 \in 1 .. n - 1 /\ i = (i - 1) + 1
    OBVIOUS
  <2> QED BY <2>1
<1>9. ToSet(q) = {Head(q)} \cup ToSet(Tail(q))
  <2>1. ToSet(Tail(q)) \subseteq ToSet(q) /\ Head(q) \in ToSet(q)
    BY <1>1, <1>3, <1>4, <1>5, <1>6 DEF ToSet
  <2>2. ASSUME NEW i \in 1 .. n PROVE q[i] \in {Head(q)} \cup ToSet(Tail(q))
    <3>1. CASE i = 1
      BY <1>4, <3>1
    <3>2. ASSUME NEW k \in 1 .. n - 1, i = k + 1 PROVE q[i] \in ToSet(Tail(q))
      BY <1>5, <1>6, <3>2 DEF ToSet
    <3> QED BY <1>8, <3>1, <3>2
  <2> QED BY <1>1, <2>1, <2>2 DEF ToSet
<1> QED BY <1>1, <1>3, <1>4, <1>5, <1>6, <1>7, <1>9

(* A finite set that a relation orders strictly and totally is numbered by  *)
(* how many elements come before each.                                      *)
LEMMA Counted ==
  ASSUME NEW S, IsFiniteSet(S), NEW below,
         \A x \in S : below[x] \subseteq S /\ x \notin below[x],
         \A x, y \in S : y \in below[x] => below[y] \subseteq below[x],
         \A x, y \in S : x = y \/ x \in below[y] \/ y \in below[x]
  PROVE  /\ Cardinality(S) \in Nat
         /\ \A x \in S : Cardinality(below[x]) \in 0 .. Cardinality(S) - 1
         /\ \A x, y \in S : Cardinality(below[x]) = Cardinality(below[y]) => x = y
         /\ \A x, y \in S : Cardinality(below[x]) < Cardinality(below[y]) => x \in below[y]
         /\ \A n \in 0 .. Cardinality(S) - 1 : \E x \in S : Cardinality(below[x]) = n
<1> DEFINE N == Cardinality(S)
           rank == [x \in S |-> Cardinality(below[x])]
<1>1. N \in Nat /\ \A x \in S : IsFiniteSet(below[x]) /\ Cardinality(below[x]) \in Nat
  BY FS_Subset, FS_CardinalityType
<1>2. ASSUME NEW x \in S, NEW y \in S, x \in below[y]
      PROVE  Cardinality(below[x]) < Cardinality(below[y])
  <2>1. below[x] \subseteq below[y] /\ below[x] # below[y]
    BY <1>2
  <2>2. Cardinality(below[x]) <= Cardinality(below[y]) /\ Cardinality(below[x]) # Cardinality(below[y])
    BY <1>1, <2>1, FS_Subset
  <2>3. Cardinality(below[x]) \in Nat /\ Cardinality(below[y]) \in Nat
    BY <1>1
  <2> QED BY <2>2, <2>3
<1>3. ASSUME NEW x \in S PROVE Cardinality(below[x]) \in 0 .. N - 1
  <2>1. below[x] \subseteq S /\ below[x] # S
    BY <1>3
  <2>2. Cardinality(below[x]) <= N /\ Cardinality(below[x]) # N
    BY <2>1, FS_Subset
  <2>3. \A c, n \in Nat : c <= n /\ c # n => c \in 0 .. n - 1
    OBVIOUS
  <2> HIDE DEF N
  <2> QED BY <1>1, <2>2, <2>3
<1>4. \A x, y \in S : Cardinality(below[x]) < Cardinality(below[y]) => x \in below[y]
  <2> SUFFICES ASSUME NEW x \in S, NEW y \in S, Cardinality(below[x]) < Cardinality(below[y]) PROVE x \in below[y]
    OBVIOUS
  <2>1. Cardinality(below[x]) \in Nat /\ Cardinality(below[y]) \in Nat
    BY <1>1
  <2>2. x # y /\ ~(Cardinality(below[y]) < Cardinality(below[x]))
    BY <2>1
  <2> QED BY <1>2, <2>2
<1>5. \A x, y \in S : Cardinality(below[x]) = Cardinality(below[y]) => x = y
  <2> SUFFICES ASSUME NEW x \in S, NEW y \in S, Cardinality(below[x]) = Cardinality(below[y]) PROVE x = y
    OBVIOUS
  <2>1. Cardinality(below[x]) \in Nat /\ Cardinality(below[y]) \in Nat
    BY <1>1
  <2>2. ~(Cardinality(below[x]) < Cardinality(below[y])) /\ ~(Cardinality(below[y]) < Cardinality(below[x]))
    BY <2>1
  <2> QED BY <1>2, <2>2
<1>6. rank \in Injection(S, 0 .. N - 1)
  <2>1. rank \in [S -> 0 .. N - 1]
    BY <1>3
  <2>2. \A x, y \in S : rank[x] = rank[y] => x = y
    BY <1>5
  <2> HIDE DEF rank, N
  <2> QED BY <2>1, <2>2 DEF Injection, IsInjective
<1>7. IsFiniteSet(0 .. N - 1) /\ Cardinality(0 .. N - 1) = N
  <2>1. 0 \in Int /\ N - 1 \in Int
    BY <1>1
  <2>2. IsFiniteSet(0 .. N - 1) /\ Cardinality(0 .. N - 1) = IF 0 > N - 1 THEN 0 ELSE (N - 1) - 0 + 1
    BY <2>1, FS_Interval
  <2> HIDE DEF N
  <2> QED BY <1>1, <2>2
<1>8. rank \in Surjection(S, 0 .. N - 1)
  BY <1>6, <1>7, FS_Injection
<1>9. \A n \in 0 .. N - 1 : \E x \in S : rank[x] = n
  <2> HIDE DEF rank, N
  <2> QED BY <1>8 DEF Surjection
<1> QED BY <1>1, <1>3, <1>4, <1>5, <1>9

(* Selected takes the elements at some positions, in their order.           *)
LEMMA SelectedInOrder ==
  ASSUME NEW s, IsList(s), NEW I \in SUBSET DOMAIN s
  PROVE  /\ IsList(Selected(s, I)) /\ IsFiniteSet(I)
         /\ Cardinality(I) \in Nat /\ DOMAIN Selected(s, I) = 1 .. Cardinality(I)
         /\ ToSet(Selected(s, I)) = {s[i] : i \in I}
         /\ \A m, n \in DOMAIN Selected(s, I) :
              m # n => \E i, k \in I : i # k /\ Selected(s, I)[m] = s[i] /\ Selected(s, I)[n] = s[k]
<1> DEFINE below == [i \in I |-> {k \in I : k < i}]
           nth(n) == CHOOSE i \in I : Cardinality({k \in I : k < i}) = n - 1
           C == Cardinality(I)
<1>1. PICK N \in Nat : DOMAIN s = 1 .. N
  BY ListShape
<1>2. IsFiniteSet(I) /\ \A i \in I : i \in Nat
  <2>1. IsFiniteSet(1 .. N) /\ I \in SUBSET (1 .. N)
    BY <1>1, FS_Interval
  <2>2. IsFiniteSet(I)
    BY <2>1, FS_Subset
  <2> QED BY <2>1, <2>2
<1>3. /\ C \in Nat
      /\ \A x \in I : Cardinality(below[x]) \in 0 .. C - 1
      /\ \A x, y \in I : Cardinality(below[x]) = Cardinality(below[y]) => x = y
      /\ \A n \in 0 .. C - 1 : \E x \in I : Cardinality(below[x]) = n
  <2>1. \A x \in I : below[x] \subseteq I /\ x \notin below[x]
    BY <1>2
  <2>2. \A x, y \in I : y \in below[x] => below[y] \subseteq below[x]
    BY <1>2
  <2>3. \A x, y \in I : x = y \/ x \in below[y] \/ y \in below[x]
    BY <1>2
  <2> HIDE DEF below
  <2> QED BY <1>2, <2>1, <2>2, <2>3, Counted
<1>4. \A n \in 1 .. C : nth(n) \in I /\ Cardinality(below[nth(n)]) = n - 1
  <2> SUFFICES ASSUME NEW n \in 1 .. C PROVE nth(n) \in I /\ Cardinality(below[nth(n)]) = n - 1
    OBVIOUS
  <2>1. n - 1 \in 0 .. C - 1
    <3> HIDE DEF C
    <3> QED BY <1>3
  <2>2. \E i \in I : Cardinality({k \in I : k < i}) = n - 1
    BY <1>3, <2>1
  <2> QED BY <2>2
<1>5. Selected(s, I) = [n \in 1 .. C |-> s[nth(n)]]
  BY DEF Selected
<1>6. ASSUME NEW i \in I PROVE \E n \in 1 .. C : nth(n) = i
  <2>1. Cardinality(below[i]) \in 0 .. C - 1
    BY <1>3
  <2>2. Cardinality(below[i]) + 1 \in 1 .. C /\ (Cardinality(below[i]) + 1) - 1 = Cardinality(below[i])
    <3>1. \A c \in 0 .. C - 1 : c + 1 \in 1 .. C /\ (c + 1) - 1 = c
      <4> HIDE DEF C
      <4> QED BY <1>3
    <3> QED BY <2>1, <3>1
  <2> HIDE DEF nth, below, C
  <2>3. nth(Cardinality(below[i]) + 1) = i
    BY <1>3, <1>4, <2>2
  <2> QED BY <2>2, <2>3
<1> HIDE DEF nth, below, C
<1>7. DOMAIN Selected(s, I) = 1 .. C /\ \A n \in 1 .. C : Selected(s, I)[n] = s[nth(n)]
  BY <1>5
<1>8. IsList(Selected(s, I))
  BY <1>3, <1>5, <1>7, ListOf
<1>9. ToSet(Selected(s, I)) = {s[i] : i \in I}
  BY <1>4, <1>6, <1>7 DEF ToSet
<1>10. ASSUME NEW m \in 1 .. C, NEW n \in 1 .. C, m # n
       PROVE  \E i, k \in I : i # k /\ Selected(s, I)[m] = s[i] /\ Selected(s, I)[n] = s[k]
  <2>1. m - 1 # n - 1
    BY <1>10
  <2>2. nth(m) # nth(n) /\ nth(m) \in I /\ nth(n) \in I
    BY <1>4, <2>1
  <2> QED BY <1>7, <2>2
<1> QED BY <1>2, <1>3, <1>7, <1>8, <1>9, <1>10 DEF C

LEMMA FirstPlacesCover ==
  ASSUME NEW s, IsList(s)
  PROVE  /\ FirstPlaces(s) \subseteq DOMAIN s
         /\ \A i \in DOMAIN s : \E k \in FirstPlaces(s) : s[k] = s[i]
         /\ \A i, k \in FirstPlaces(s) : s[i] = s[k] => i = k
<1>1. PICK n \in Nat : DOMAIN s = 1 .. n
  BY ListShape
<1>2. ASSUME NEW i \in DOMAIN s PROVE \E k \in FirstPlaces(s) : s[k] = s[i]
  <2> DEFINE same == {k \in DOMAIN s : s[k] = s[i]}
  <2>1. i \in same /\ same \subseteq Nat
    BY <1>1
  <2>2. PICK k \in same : \A m \in same : k <= m
    BY <2>1, Least
  <2>3. k \in DOMAIN s /\ s[k] = s[i]
    BY <2>2
  <2>4. \A m \in 1 .. k - 1 : m \in DOMAIN s /\ ~(k <= m)
    BY <1>1, <2>3
  <2> QED BY <2>2, <2>3, <2>4 DEF FirstPlaces
<1>3. ASSUME NEW i \in FirstPlaces(s), NEW k \in FirstPlaces(s), s[i] = s[k] PROVE i = k
  <2>1. i \in 1 .. n /\ k \in 1 .. n /\ ~(i \in 1 .. k - 1) /\ ~(k \in 1 .. i - 1)
    BY <1>1, <1>3 DEF FirstPlaces
  <2> QED BY <2>1
<1> QED BY <1>2, <1>3 DEF FirstPlaces

(* Merging lists of names loses none.                                       *)
LEMMA MergeKeepsAll ==
  ASSUME NEW names, IsList(names)
  PROVE  IsList(MergeParams(names)) /\ ToSet(MergeParams(names)) = ToSet(names)
<1>1. IsList(MergeParams(names)) /\ ToSet(MergeParams(names)) = {names[i] : i \in FirstPlaces(names)}
  BY FirstPlacesCover, SelectedInOrder DEF MergeParams
<1>2. {names[i] : i \in FirstPlaces(names)} = ToSet(names)
  BY FirstPlacesCover DEF ToSet
<1> QED BY <1>1, <1>2

LEMMA SubList ==
  ASSUME NEW s, IsList(s), NEW n \in 0 .. Len(s)
  PROVE  /\ IsList(SubSeq(s, 1, n)) /\ Len(SubSeq(s, 1, n)) = n /\ DOMAIN SubSeq(s, 1, n) = 1 .. n
         /\ \A i \in 1 .. n : i \in DOMAIN s /\ SubSeq(s, 1, n)[i] = s[i]
<1>1. Len(s) \in Nat /\ DOMAIN s = 1 .. Len(s) /\ s \in Seq(ToSet(s)) /\ n \in Nat /\ n <= Len(s)
  BY ListShape DEF IsList
<1>2. SubSeq(s, 1, n) = [i \in 1 .. n |-> s[i]]
  BY <1>1
<1>3. DOMAIN SubSeq(s, 1, n) = 1 .. n /\ \A i \in 1 .. n : SubSeq(s, 1, n)[i] = s[i]
  BY <1>2
<1>4. \A i \in 1 .. n : i \in DOMAIN s
  BY <1>1
<1>5. IsList(SubSeq(s, 1, n)) /\ Len(SubSeq(s, 1, n)) = n
  BY <1>1, <1>2, <1>3, ListOf
<1> QED BY <1>3, <1>4, <1>5

-----------------------------------------------------------------------------
(* --- the order of the report -------------------------------------------- *)
LEMMA PrefixIs ==
  ASSUME NEW p \in Seq(Nat), NEW q \in Seq(Nat)
  PROVE  IsPrefix(p, q) <=> Len(p) <= Len(q) /\ \A i \in 1 .. Len(p) : p[i] = q[i]
<1>1. PICK m \in Nat : m = Len(p)
  OBVIOUS
<1>2. PICK n \in Nat : n = Len(q)
  OBVIOUS
<1>3. CASE ~(m <= n)
  BY <1>1, <1>2, <1>3 DEF IsPrefix
<1>4. CASE m <= n
  <2>1. /\ SubSeq(p, 1, m) = [i \in 1 .. m |-> p[i]]
        /\ SubSeq(q, 1, m) = [i \in 1 .. m |-> q[i]]
    BY <1>1, <1>2, <1>4
  <2>2. SubSeq(p, 1, m) = SubSeq(q, 1, m) <=> \A i \in 1 .. m : p[i] = q[i]
    BY <2>1
  <2> QED BY <1>1, <1>2, <1>4, <2>2 DEF IsPrefix
<1> QED BY <1>3, <1>4

(* A path before another is shorter, or smaller, where they first differ.   *)
Differs(p, q, n) ==
  /\ n \in 1 .. Len(q) /\ \A i \in 1 .. n - 1 : i \in 1 .. Len(p) /\ p[i] = q[i]
  /\ n = Len(p) + 1 \/ (n \in 1 .. Len(p) /\ p[n] < q[n])

LEMMA PathBeforeIs ==
  ASSUME NEW p \in Seq(Nat), NEW q \in Seq(Nat)
  PROVE  PathBefore(p, q) <=> \E n \in Nat : Differs(p, q, n)
<1>1. PICK a \in Nat : a = Len(p) /\ DOMAIN p = 1 .. a /\ p = [i \in 1 .. a |-> p[i]]
  BY SeqShape
<1>2. PICK b \in Nat : b = Len(q) /\ DOMAIN q = 1 .. b /\ q = [i \in 1 .. b |-> q[i]]
  BY SeqShape
<1>3. IsStrictPrefix(p, q) <=> a < b /\ \A i \in 1 .. a : p[i] = q[i]
  <2>1. IsPrefix(p, q) <=> a <= b /\ \A i \in 1 .. a : p[i] = q[i]
    BY <1>1, <1>2, PrefixIs
  <2>2. ASSUME a = b, \A i \in 1 .. a : p[i] = q[i] PROVE p = q
    BY <1>1, <1>2, <2>2
  <2>3. ASSUME p = q PROVE a = b
    BY <1>1, <1>2, <2>3
  <2> QED BY <2>1, <2>2, <2>3 DEF IsStrictPrefix
<1>4. ASSUME a < b, \A i \in 1 .. a : p[i] = q[i] PROVE Differs(p, q, a + 1)
  <2>1. a + 1 \in 1 .. b /\ (a + 1) - 1 = a
    BY <1>4
  <2> QED BY <1>1, <1>2, <1>4, <2>1 DEF Differs
<1>5. ASSUME NEW n \in 1 .. a, n \in 1 .. b, p[n] < q[n], \A i \in 1 .. n - 1 : p[i] = q[i]
      PROVE  Differs(p, q, n)
  <2>1. \A i \in 1 .. n - 1 : i \in 1 .. a
    BY <1>5
  <2> QED BY <1>1, <1>2, <1>5, <2>1 DEF Differs
<1>6. ASSUME NEW n \in Nat, Differs(p, q, n) PROVE PathBefore(p, q)
  <2>1. n \in 1 .. b /\ (\A i \in 1 .. n - 1 : p[i] = q[i]) /\ (n = a + 1 \/ (n \in 1 .. a /\ p[n] < q[n]))
    BY <1>1, <1>2, <1>6 DEF Differs
  <2>2. CASE n = a + 1
    <3>1. a < b /\ n - 1 = a
      BY <2>1, <2>2
    <3> QED BY <1>3, <2>1, <3>1 DEF PathBefore
  <2>3. CASE n \in 1 .. a /\ p[n] < q[n]
    BY <1>1, <1>2, <2>1, <2>3 DEF PathBefore
  <2> QED BY <2>1, <2>2, <2>3
<1>7. ASSUME PathBefore(p, q) PROVE \E n \in Nat : Differs(p, q, n)
  <2>1. CASE IsStrictPrefix(p, q)
    BY <1>3, <1>4, <2>1
  <2>2. CASE \E n \in DOMAIN p \cap DOMAIN q : p[n] < q[n] /\ \A i \in 1 .. (n - 1) : p[i] = q[i]
    <3>1. PICK n \in DOMAIN p \cap DOMAIN q : p[n] < q[n] /\ \A i \in 1 .. (n - 1) : p[i] = q[i]
      BY <2>2
    <3>2. n \in 1 .. a /\ n \in 1 .. b /\ n \in Nat
      BY <1>1, <1>2
    <3>3. Differs(p, q, n)
      BY <1>5, <3>1, <3>2
    <3> QED BY <3>2, <3>3
  <2> QED BY <1>7, <2>1, <2>2 DEF PathBefore
<1> QED BY <1>6, <1>7

LEMMA PathShape ==
  ASSUME NEW p \in Seq(Nat)
  PROVE  \E a \in Nat : /\ a = Len(p) /\ DOMAIN p = 1 .. a /\ p = [i \in 1 .. a |-> p[i]]
                       /\ \A i \in 1 .. a : p[i] \in Nat
<1>1. PICK a \in Nat : a = Len(p)
  OBVIOUS
<1>2. DOMAIN p = 1 .. a /\ p = [i \in 1 .. a |-> p[i]]
  BY <1>1, SeqShape
<1>3. \A i \in 1 .. a : p[i] \in Nat
  BY <1>1
<1> QED BY <1>1, <1>2, <1>3

LEMMA PathsAreOrdered ==
  ASSUME NEW p \in Seq(Nat), NEW q \in Seq(Nat), NEW r \in Seq(Nat)
  PROVE  /\ ~PathBefore(p, p)
         /\ PathBefore(p, q) /\ PathBefore(q, r) => PathBefore(p, r)
         /\ p = q \/ PathBefore(p, q) \/ PathBefore(q, p)
<1>1. PICK a \in Nat : a = Len(p) /\ DOMAIN p = 1 .. a /\ p = [i \in 1 .. a |-> p[i]]
                   /\ \A i \in 1 .. a : p[i] \in Nat
  BY PathShape
<1>2. PICK b \in Nat : b = Len(q) /\ DOMAIN q = 1 .. b /\ q = [i \in 1 .. b |-> q[i]]
                   /\ \A i \in 1 .. b : q[i] \in Nat
  BY PathShape
<1>3. PICK c \in Nat : c = Len(r) /\ DOMAIN r = 1 .. c /\ r = [i \in 1 .. c |-> r[i]]
                   /\ \A i \in 1 .. c : r[i] \in Nat
  BY PathShape
<1>4. /\ \A i \in 1 .. a : p[i] \in Nat
      /\ \A i \in 1 .. b : q[i] \in Nat
      /\ \A i \in 1 .. c : r[i] \in Nat
  BY <1>1, <1>2, <1>3
<1>5. ~PathBefore(p, p)
  <2>1. ASSUME NEW n \in Nat, Differs(p, p, n) PROVE FALSE
    <3>1. n \in 1 .. a /\ (n = a + 1 \/ p[n] < p[n])
      BY <1>1, <2>1 DEF Differs
    <3> QED BY <1>4, <3>1
  <2> QED BY <2>1, PathBeforeIs
<1>6. ASSUME PathBefore(p, q), PathBefore(q, r) PROVE PathBefore(p, r)
  <2>1. PICK m \in Nat : Differs(p, q, m)
    BY <1>6, PathBeforeIs
  <2>2. PICK n \in Nat : Differs(q, r, n)
    BY <1>6, PathBeforeIs
  <2>3. m \in 1 .. b /\ (\A i \in 1 .. m - 1 : i \in 1 .. a /\ p[i] = q[i]) /\ (m = a + 1 \/ (m \in 1 .. a /\ p[m] < q[m]))
    BY <1>1, <1>2, <2>1 DEF Differs
  <2>4. n \in 1 .. c /\ (\A i \in 1 .. n - 1 : i \in 1 .. b /\ q[i] = r[i]) /\ (n = b + 1 \/ (n \in 1 .. b /\ q[n] < r[n]))
    BY <1>2, <1>3, <2>2 DEF Differs
  <2>5. CASE m < n
    <3>1. m \in 1 .. n - 1 /\ m \in 1 .. c /\ \A i \in 1 .. m - 1 : i \in 1 .. n - 1
      BY <2>3, <2>4, <2>5
    <3>2. q[m] = r[m] /\ \A i \in 1 .. m - 1 : i \in 1 .. a /\ p[i] = r[i]
      BY <2>3, <2>4, <3>1
    <3>3. Differs(p, r, m)
      BY <1>1, <1>3, <2>3, <3>1, <3>2 DEF Differs
    <3> QED BY <3>3, PathBeforeIs
  <2>6. CASE m = n
    <3>1. \A i \in 1 .. m - 1 : i \in 1 .. a /\ p[i] = r[i]
      BY <2>3, <2>4, <2>6
    <3>2. q[m] < r[m]
      BY <2>3, <2>4, <2>6
    <3>3. m = a + 1 \/ (m \in 1 .. a /\ p[m] < r[m])
      BY <1>4, <2>3, <2>4, <2>6, <3>2
    <3>4. Differs(p, r, m)
      BY <1>1, <1>3, <2>4, <2>6, <3>1, <3>3 DEF Differs
    <3> QED BY <3>4, PathBeforeIs
  <2>7. CASE n < m
    <3>1. n \in 1 .. m - 1 /\ n \in 1 .. b /\ \A i \in 1 .. n - 1 : i \in 1 .. m - 1
      BY <2>3, <2>4, <2>7
    <3>2. n \in 1 .. a /\ p[n] = q[n] /\ q[n] < r[n] /\ \A i \in 1 .. n - 1 : i \in 1 .. a /\ p[i] = r[i]
      BY <2>3, <2>4, <3>1
    <3>3. Differs(p, r, n)
      BY <1>1, <1>3, <2>4, <3>2 DEF Differs
    <3> QED BY <3>3, PathBeforeIs
  <2> QED BY <2>5, <2>6, <2>7
<1>7. ASSUME p # q PROVE PathBefore(p, q) \/ PathBefore(q, p)
  <2> DEFINE D == {i \in 1 .. a : i \in 1 .. b /\ p[i] # q[i]}
  <2>1. CASE D # {}
    <3>0. D \subseteq Nat
      OBVIOUS
    <3>1. PICK n \in D : \A i \in D : n <= i
      BY <2>1, <3>0, Least
    <3>2. n \in 1 .. a /\ n \in 1 .. b /\ p[n] # q[n]
      BY <3>1
    <3>3. \A i \in 1 .. n - 1 : i \in 1 .. a /\ i \in 1 .. b /\ ~(n <= i)
      BY <3>2
    <3>4. \A i \in 1 .. n - 1 : p[i] = q[i]
      BY <3>1, <3>3
    <3>5. p[n] < q[n] \/ q[n] < p[n]
      BY <1>4, <3>2
    <3>6. Differs(p, q, n) \/ Differs(q, p, n)
      BY <1>1, <1>2, <3>2, <3>3, <3>4, <3>5 DEF Differs
    <3> QED BY <3>6, PathBeforeIs
  <2>2. CASE D = {}
    <3>1. \A i \in 1 .. a : i \in 1 .. b => p[i] = q[i]
      BY <2>2
    <3>2. a # b
      BY <1>1, <1>2, <1>7, <3>1
    <3>3. CASE a < b
      <4>1. a + 1 \in 1 .. b /\ \A i \in 1 .. (a + 1) - 1 : i \in 1 .. a /\ i \in 1 .. b
        BY <3>3
      <4>2. Differs(p, q, a + 1)
        BY <1>1, <1>2, <3>1, <4>1 DEF Differs
      <4> QED BY <4>2, PathBeforeIs
    <3>4. CASE b < a
      <4>1. b + 1 \in 1 .. a /\ \A i \in 1 .. (b + 1) - 1 : i \in 1 .. a /\ i \in 1 .. b
        BY <3>4
      <4>2. Differs(q, p, b + 1)
        BY <1>1, <1>2, <3>1, <4>1 DEF Differs
      <4> QED BY <4>2, PathBeforeIs
    <3> QED BY <3>2, <3>3, <3>4
  <2> QED BY <2>1, <2>2
<1> QED BY <1>5, <1>6, <1>7

(* No two methods have the same place.                                      *)
LEMMA MethodsAreOrdered ==
  \A m \in ToSet(Methods) : MethodRank(m) \in 1 .. 7 /\ Methods[MethodRank(m)] = m
<1>1. DOMAIN Methods = 1 .. 7
  BY DEF Methods
<1> QED BY <1>1 DEF MethodRank, ToSet

IsKey(e) == e.path \in Seq(Nat) /\ e.method \in ToSet(Methods)
LEMMA BeforeIsAnOrder ==
  ASSUME NEW e, NEW f, NEW g, IsKey(e), IsKey(f), IsKey(g)
  PROVE  /\ ~Before(e, e)
         /\ Before(e, f) /\ Before(f, g) => Before(e, g)
         /\ (e.path = f.path /\ e.method = f.method) \/ Before(e, f) \/ Before(f, e)
<1>1. MethodRank(e.method) \in Nat /\ MethodRank(f.method) \in Nat /\ MethodRank(g.method) \in Nat
      /\ (MethodRank(e.method) = MethodRank(f.method) => e.method = f.method)
  <2>1. e.method \in ToSet(Methods) /\ f.method \in ToSet(Methods) /\ g.method \in ToSet(Methods)
    BY DEF IsKey
  <2>2. Methods[MethodRank(e.method)] = e.method /\ Methods[MethodRank(f.method)] = f.method
    BY <2>1, MethodsAreOrdered
  <2>3. MethodRank(e.method) \in 1 .. 7 /\ MethodRank(f.method) \in 1 .. 7 /\ MethodRank(g.method) \in 1 .. 7
    BY <2>1, MethodsAreOrdered
  <2> QED BY <2>2, <2>3
<1>2. PICK a, b, c \in Nat : a = MethodRank(e.method) /\ b = MethodRank(f.method) /\ c = MethodRank(g.method)
  BY <1>1
<1>3. PICK p, q, r \in Seq(Nat) : p = e.path /\ q = f.path /\ r = g.path
  BY DEF IsKey
<1>4. /\ Before(e, e) <=> PathBefore(p, p) \/ a < a
      /\ Before(e, f) <=> PathBefore(p, q) \/ (p = q /\ a < b)
      /\ Before(f, e) <=> PathBefore(q, p) \/ (q = p /\ b < a)
      /\ Before(f, g) <=> PathBefore(q, r) \/ (q = r /\ b < c)
      /\ Before(e, g) <=> PathBefore(p, r) \/ (p = r /\ a < c)
  BY <1>2, <1>3 DEF Before
<1>5. /\ ~PathBefore(p, p)
      /\ PathBefore(p, q) /\ PathBefore(q, r) => PathBefore(p, r)
      /\ p = q \/ PathBefore(p, q) \/ PathBefore(q, p)
  BY PathsAreOrdered
<1>6. a < b \/ a = b \/ b < a
  BY <1>2
<1>7. ~(a < a) /\ (a < b /\ b < c => a < c)
  BY <1>2
<1> QED BY <1>1, <1>2, <1>3, <1>4, <1>5, <1>6, <1>7

(* InOrder lists a finite set of endpoints, each once and in order.         *)
LEMMA InOrderLists ==
  ASSUME NEW S, IsFiniteSet(S), \A e \in S : IsKey(e),
         \A e, f \in S : e.path = f.path /\ e.method = f.method => e = f
  PROVE  /\ Cardinality(S) \in Nat /\ DOMAIN InOrder(S) = 1 .. Cardinality(S)
         /\ IsList(InOrder(S)) /\ Len(InOrder(S)) = Cardinality(S)
         /\ \A i \in DOMAIN InOrder(S) : InOrder(S)[i] \in S
         /\ \A e \in S : \E i \in DOMAIN InOrder(S) : InOrder(S)[i] = e
         /\ \A i, k \in DOMAIN InOrder(S) : i < k => Before(InOrder(S)[i], InOrder(S)[k])
<1> DEFINE C == Cardinality(S)
           below == [e \in S |-> {f \in S : Before(f, e)}]
           nth(i) == CHOOSE e \in S : Cardinality({f \in S : Before(f, e)}) = i - 1
<1>1. \A x \in S : below[x] \subseteq S /\ x \notin below[x]
  BY BeforeIsAnOrder
<1>2. \A x, y \in S : y \in below[x] => below[y] \subseteq below[x]
  BY BeforeIsAnOrder
<1>3. \A x, y \in S : x = y \/ x \in below[y] \/ y \in below[x]
  BY BeforeIsAnOrder
<1>4. /\ C \in Nat
      /\ \A x \in S : Cardinality(below[x]) \in 0 .. C - 1
      /\ \A x, y \in S : Cardinality(below[x]) = Cardinality(below[y]) => x = y
      /\ \A x, y \in S : Cardinality(below[x]) < Cardinality(below[y]) => x \in below[y]
      /\ \A n \in 0 .. C - 1 : \E x \in S : Cardinality(below[x]) = n
  <2> HIDE DEF below
  <2> QED BY <1>1, <1>2, <1>3, Counted
<1>5. \A n \in 1 .. C : nth(n) \in S /\ Cardinality(below[nth(n)]) = n - 1
  <2> SUFFICES ASSUME NEW n \in 1 .. C PROVE nth(n) \in S /\ Cardinality(below[nth(n)]) = n - 1
    OBVIOUS
  <2>1. n - 1 \in 0 .. C - 1
    <3> HIDE DEF C
    <3> QED BY <1>4
  <2>2. \E e \in S : Cardinality({f \in S : Before(f, e)}) = n - 1
    BY <1>4, <2>1
  <2> QED BY <2>2
<1>6. InOrder(S) = [n \in 1 .. C |-> nth(n)]
  BY DEF InOrder
<1>7. ASSUME NEW e \in S PROVE \E n \in 1 .. C : nth(n) = e
  <2>1. Cardinality(below[e]) \in 0 .. C - 1
    BY <1>4
  <2>2. Cardinality(below[e]) + 1 \in 1 .. C /\ (Cardinality(below[e]) + 1) - 1 = Cardinality(below[e])
    <3>1. \A c \in 0 .. C - 1 : c + 1 \in 1 .. C /\ (c + 1) - 1 = c
      <4> HIDE DEF C
      <4> QED BY <1>4
    <3> QED BY <2>1, <3>1
  <2> HIDE DEF nth, below, C
  <2>3. nth(Cardinality(below[e]) + 1) = e
    BY <1>4, <1>5, <2>2
  <2> QED BY <2>2, <2>3
<1>8. ASSUME NEW n \in 1 .. C, NEW k \in 1 .. C, n < k PROVE Before(nth(n), nth(k))
  <2>1. n - 1 < k - 1
    BY <1>8
  <2>2. nth(n) \in below[nth(k)]
    <3> HIDE DEF nth, below, C
    <3> QED BY <1>4, <1>5, <2>1
  <2>3. nth(k) \in S
    BY <1>5
  <2> HIDE DEF nth
  <2> QED BY <2>2, <2>3
<1> HIDE DEF nth, below, C
<1>9. DOMAIN InOrder(S) = 1 .. C /\ \A n \in 1 .. C : InOrder(S)[n] = nth(n)
  BY <1>6
<1>10. IsList(InOrder(S)) /\ Len(InOrder(S)) = C
  BY <1>4, <1>6, <1>9, ListOf
<1> QED BY <1>4, <1>5, <1>7, <1>8, <1>9, <1>10 DEF C

-----------------------------------------------------------------------------
(* --- what the sources and the specification turn into ------------------- *)
IsEndpoints(s) == IsList(s) /\ \A e \in ToSet(s) : IsKey(e)

LEMMA MoreEndpoints ==
  ASSUME NEW a, NEW b, IsEndpoints(a), IsEndpoints(b)
  PROVE  IsEndpoints(a \o b) /\ \A i \in DOMAIN a : i \in DOMAIN (a \o b) /\ (a \o b)[i] = a[i]
BY ConcatList DEF IsEndpoints

LEMMA DiscoveredIs == \A p \in Seq(Nat) : Discovered(p).path = p /\ IsKey(Discovered(p))
<1>1. "GET" \in ToSet(Methods)
  <2>1. DOMAIN Methods = 1 .. 7 /\ Methods[2] = "GET"
    BY DEF Methods
  <2> QED BY <2>1 DEF ToSet
<1>2. ASSUME NEW p \in Seq(Nat) PROVE Discovered(p).path = p /\ Discovered(p).method = "GET"
  BY DEF Discovered, Endpoint
<1> QED BY <1>1, <1>2 DEF IsKey

LEMMA AllOfPaths ==
  ASSUME NEW paths, IsList(paths), \A p \in ToSet(paths) : p \in Seq(Nat)
  PROVE  /\ IsEndpoints(AllOf(paths)) /\ DOMAIN AllOf(paths) = DOMAIN paths
         /\ \A i \in DOMAIN paths : AllOf(paths)[i].path = paths[i]
<1>1. PICK n \in Nat : DOMAIN paths = 1 .. n /\ \A i \in 1 .. n : paths[i] \in Seq(Nat)
  BY ListShape
<1>2. AllOf(paths) = [i \in 1 .. n |-> Discovered(paths[i])]
  BY <1>1 DEF AllOf
<1>3. \A i \in 1 .. n : AllOf(paths)[i].path = paths[i] /\ IsKey(AllOf(paths)[i])
  BY <1>1, <1>2, DiscoveredIs
<1>4. DOMAIN AllOf(paths) = 1 .. n /\ AllOf(paths) = [i \in 1 .. n |-> AllOf(paths)[i]]
  BY <1>2
<1>5. IsList(AllOf(paths))
  BY <1>4, ListOf
<1> QED BY <1>1, <1>3, <1>4, <1>5 DEF IsEndpoints, ToSet

LEMMA ListOfPaths ==
  ASSUME NEW paths \in Seq(Seq(Nat))
  PROVE  IsList(paths) /\ \A p \in ToSet(paths) : p \in Seq(Nat)
<1>1. PICK n \in Nat : n = Len(paths)
  OBVIOUS
<1>2. DOMAIN paths = 1 .. n /\ paths = [i \in 1 .. n |-> paths[i]]
  BY <1>1, SeqShape
<1>3. \A i \in 1 .. n : paths[i] \in Seq(Nat)
  BY <1>1
<1> QED BY <1>2, <1>3, ListOf DEF ToSet

(* Each operation of a document is an endpoint, whatever their order.       *)
Operations(document) == UNION {{FromOperation(document, item, op) : op \in item.ops} : item \in document.items}

LEMMA OperationsAreFinite ==
  ASSUME NEW document, IsDocument(document)
  PROVE  IsFiniteSet(Operations(document))
<1> DEFINE of(item) == {FromOperation(document, item, op) : op \in item.ops}
           all == {of(item) : item \in document.items}
<1>1. ASSUME NEW item \in document.items PROVE IsFiniteSet(of(item))
  <2> DEFINE f == [op \in item.ops |-> FromOperation(document, item, op)]
  <2>1. f \in Surjection(item.ops, of(item))
    <3>1. f \in [item.ops -> of(item)]
      OBVIOUS
    <3>2. \A e \in of(item) : \E op \in item.ops : f[op] = e
      OBVIOUS
    <3> HIDE DEF f, of
    <3> QED BY <3>1, <3>2 DEF Surjection
  <2>2. IsFiniteSet(item.ops)
    BY DEF IsDocument, IsItem
  <2> HIDE DEF of, f
  <2> QED BY <2>1, <2>2, FS_Surjection
<1>2. IsFiniteSet(all)
  <2> DEFINE g == [item \in document.items |-> of(item)]
  <2>1. g \in [document.items -> all] /\ \A T \in all : \E item \in document.items : g[item] = T
    OBVIOUS
  <2>2. IsFiniteSet(document.items)
    BY DEF IsDocument
  <2> HIDE DEF g, all
  <2>3. g \in Surjection(document.items, all)
    BY <2>1 DEF Surjection
  <2> QED BY <2>2, <2>3, FS_Surjection
<1>3. \A T \in all : IsFiniteSet(T)
  BY <1>1
<1>4. Operations(document) = UNION all
  BY DEF Operations
<1> HIDE DEF all
<1> QED BY <1>2, <1>3, <1>4, FS_UNION

LEMMA EndpointsOfSpec ==
  ASSUME NEW document, IsDocument(document)
  PROVE  /\ IsEndpoints(EndpointsOf(document))
         /\ ToSet(EndpointsOf(document)) = Operations(document)
         /\ \A i, k \in DOMAIN EndpointsOf(document) :
              EndpointsOf(document)[i] = EndpointsOf(document)[k] => i = k
<1> DEFINE S == Operations(document)
           n == Cardinality(S)
           E == EndpointsOf(document)
<1>1. IsFiniteSet(S)
  BY OperationsAreFinite
<1>2. n \in Nat /\ \E f : f \in Bijection(1 .. n, S)
  BY <1>1, FS_CardinalityType DEF ExistsBijection
<1>3. E = CHOOSE f \in [1 .. n -> S] : IsInjective(f)
  BY DEF EndpointsOf, SetToSeq, Operations
<1> HIDE DEF S, n, E
<1>4. E \in [1 .. n -> S] /\ IsInjective(E)
  <2>1. \E f \in [1 .. n -> S] : IsInjective(f)
    BY <1>2 DEF Bijection, Injection
  <2> QED BY <1>3, <2>1
<1>5. E \in Injection(1 .. n, S)
  BY <1>4 DEF Injection
<1>6. IsFiniteSet(1 .. n) /\ Cardinality(1 .. n) = n
  BY <1>2, FS_Interval
<1>7. E \in Surjection(1 .. n, S)
  BY <1>1, <1>5, <1>6, FS_Injection DEF n
<1>8. ToSet(E) = S
  BY <1>4, <1>7 DEF Surjection, ToSet
<1>9. E = [i \in 1 .. n |-> E[i]]
  BY <1>4
<1>10. IsList(E)
  BY <1>2, <1>9, ListOf
<1>11. ASSUME NEW e \in S PROVE IsKey(e)
  <2>0. PICK item \in document.items : e \in {FromOperation(document, item, op) : op \in item.ops}
    BY DEF S, Operations
  <2>1. PICK op \in item.ops : e = FromOperation(document, item, op)
    BY <2>0
  <2>2. e.path = item.path /\ e.method = op.method
    BY <2>1 DEF FromOperation, Endpoint
  <2>3. item.path \in Seq(Nat) /\ op.method \in ToSet(Methods)
    BY DEF IsDocument, IsItem, IsOperation
  <2> QED BY <2>2, <2>3 DEF IsKey
<1> QED BY <1>4, <1>8, <1>10, <1>11 DEF IsEndpoints, IsInjective, E, S

-----------------------------------------------------------------------------
(* Of endpoints alike in path and method the one found first is kept.       *)
Alike(e, f) == e.path = f.path /\ e.method = f.method
LEMMA FirstIsKept ==
  ASSUME NEW eps, IsEndpoints(eps)
  PROVE  /\ IsFiniteSet(Deduplicated(eps)) /\ Deduplicated(eps) \subseteq ToSet(eps)
         /\ \A e \in Deduplicated(eps) : IsKey(e)
         /\ \A e, f \in Deduplicated(eps) : Alike(e, f) => e = f
         /\ \A i \in DOMAIN eps : \E e \in Deduplicated(eps) : Alike(e, eps[i])
         /\ \A i \in DOMAIN eps : (\A k \in DOMAIN eps : k < i => ~Alike(eps[k], eps[i])) => eps[i] \in Deduplicated(eps)
<1> DEFINE first == {i \in DOMAIN eps : ~\E k \in DOMAIN eps : k < i /\ Alike(eps[k], eps[i])}
<1>1. Deduplicated(eps) = {eps[i] : i \in first}
  BY DEF Deduplicated, Alike
<1>2. PICK n \in Nat : DOMAIN eps = 1 .. n
  BY ListShape DEF IsEndpoints
<1>3. Deduplicated(eps) \subseteq ToSet(eps) /\ \A e \in Deduplicated(eps) : IsKey(e)
  BY <1>1 DEF ToSet, IsEndpoints
<1>4. IsFiniteSet(Deduplicated(eps))
  <2>1. IsFiniteSet(1 .. n)
    BY <1>2, FS_Interval
  <2>2. eps \in [1 .. n -> ToSet(eps)] /\ \A e \in ToSet(eps) : \E i \in 1 .. n : eps[i] = e
    <3>1. eps = [i \in 1 .. n |-> eps[i]]
      BY <1>2, ListShape DEF IsEndpoints
    <3> QED BY <1>2, <3>1 DEF ToSet
  <2>3. eps \in Surjection(1 .. n, ToSet(eps))
    BY <2>2 DEF Surjection
  <2>4. IsFiniteSet(ToSet(eps))
    BY <2>1, <2>3, FS_Surjection
  <2> QED BY <1>3, <2>4, FS_Subset
<1>5. \A e, f \in Deduplicated(eps) : Alike(e, f) => e = f
  <2>1. ASSUME NEW i \in first, NEW k \in first, Alike(eps[i], eps[k]) PROVE i = k
    <3>1. ~(i < k) /\ ~(k < i)
      BY <2>1 DEF Alike
    <3>2. i \in Nat /\ k \in Nat
      BY <1>2
    <3> QED BY <3>1, <3>2
  <2> QED BY <1>1, <2>1
<1>6. ASSUME NEW i \in DOMAIN eps PROVE \E e \in Deduplicated(eps) : Alike(e, eps[i])
  <2> DEFINE like == {k \in DOMAIN eps : Alike(eps[k], eps[i])}
  <2>1. i \in like /\ like \subseteq Nat
    BY <1>2 DEF Alike
  <2>2. PICK k \in like : \A m \in like : k <= m
    BY <2>1, Least
  <2>3. ASSUME NEW m \in DOMAIN eps, m < k, Alike(eps[m], eps[k]) PROVE FALSE
    <3>1. m \in like
      BY <2>2, <2>3 DEF Alike
    <3>2. k <= m /\ k \in Nat /\ m \in Nat
      BY <2>1, <2>2, <3>1
    <3> QED BY <2>3, <3>2
  <2>4. k \in first
    BY <2>2, <2>3
  <2> QED BY <1>1, <2>2, <2>4
<1>7. ASSUME NEW i \in DOMAIN eps, \A k \in DOMAIN eps : k < i => ~Alike(eps[k], eps[i])
      PROVE  eps[i] \in Deduplicated(eps)
  BY <1>1, <1>7
<1> QED BY <1>3, <1>4, <1>5, <1>6, <1>7

-----------------------------------------------------------------------------
(* --- the sources, one after the other ----------------------------------- *)
IsPaths(q) == IsList(q) /\ \A p \in ToSet(q) : p \in Seq(Nat)
IsScripts(q) == IsList(q) /\ \A paths \in ToSet(q) : IsPaths(paths)
IsPages(b) == IsList(b) /\ \A u \in ToSet(b) : u.path \in Seq(Nat)
Sources == {"spec", "robots", "sitemaps", "home", "scripts", "links", "words", "rank", "done"}
CrawlTyped ==
  /\ site \in Sites /\ source \in Sources /\ IsEndpoints(found)
  /\ IF source = "sitemaps" THEN IsPages(batch) ELSE IsEndpoints(batch)
  /\ source = "scripts" => IsScripts(queue)
  /\ source = "words" => IsPaths(queue)

LEMMA NoEndpoints == IsEndpoints(<< >>) /\ IsPages(<< >>) /\ IsPaths(<< >>)
BY EmptyList DEF IsEndpoints, IsPages, IsPaths

LEMMA AllOfIsPaths == ASSUME NEW paths, IsPaths(paths) PROVE IsEndpoints(AllOf(paths))
BY AllOfPaths DEF IsPaths

LEMMA SeqIsPaths == ASSUME NEW paths \in Seq(Seq(Nat)) PROVE IsPaths(paths)
BY ListOfPaths DEF IsPaths

LEMMA PathsOf ==
  ASSUME NEW urls, IsPages(urls)
  PROVE  /\ IsPaths([i \in DOMAIN urls |-> urls[i].path])
         /\ DOMAIN [i \in DOMAIN urls |-> urls[i].path] = DOMAIN urls
<1>1. PICK n \in Nat : DOMAIN urls = 1 .. n /\ \A i \in 1 .. n : urls[i].path \in Seq(Nat)
  BY ListShape DEF IsPages
<1>2. PICK q : q = [i \in DOMAIN urls |-> urls[i].path]
  OBVIOUS
<1>3. q = [i \in 1 .. n |-> q[i]] /\ DOMAIN q = 1 .. n /\ \A i \in 1 .. n : q[i] \in Seq(Nat)
  BY <1>1, <1>2
<1>4. IsList(q)
  BY <1>3, ListOf
<1> QED BY <1>1, <1>2, <1>3, <1>4 DEF IsPaths, ToSet

LEMMA SelectedPages ==
  ASSUME NEW b, IsPages(b), NEW I \in SUBSET DOMAIN b
  PROVE  IsPages(Selected(b, I))
<1>1. IsList(b) /\ \A i \in DOMAIN b : b[i].path \in Seq(Nat)
  BY DEF IsPages, ToSet
<1>2. IsList(Selected(b, I)) /\ ToSet(Selected(b, I)) = {b[i] : i \in I}
  BY <1>1, SelectedInOrder
<1> QED BY <1>1, <1>2 DEF IsPages

LEMMA MorePages == ASSUME NEW a, NEW b, IsPages(a), IsPages(b) PROVE IsPages(a \o b)
BY ConcatList DEF IsPages

(* A page's links are followed once each, as far as the cap goes.           *)
Fresh(links) == {u \in ToSet(links) : u.host = "own" /\ u \notin seen}
LEMMA FollowedAre ==
  ASSUME CrawlTyped, source # "sitemaps", ~AtCap, NEW links, IsPages(links)
  PROVE  /\ IsPages(Followed(links)) /\ ToSet(Followed(links)) \subseteq Fresh(links)
         /\ \A i, k \in DOMAIN Followed(links) : Followed(links)[i] = Followed(links)[k] => i = k
         /\ site.cap = 0 => ToSet(Followed(links)) = Fresh(links)
<1> DEFINE I == {i \in FirstPlaces(links) : links[i].host = "own" /\ links[i] \notin seen}
           all == Selected(links, I)
<1>1. IsList(links) /\ I \in SUBSET DOMAIN links
  BY FirstPlacesCover DEF IsPages
<1>2. IsPages(all) /\ IsList(all)
  BY <1>1, SelectedPages DEF IsPages
<1>3. ToSet(all) = {links[i] : i \in I}
  BY <1>1, SelectedInOrder
<1>4. {links[i] : i \in I} = Fresh(links)
  BY <1>1, FirstPlacesCover DEF Fresh, ToSet
<1>5. \A i, k \in I : links[i] = links[k] => i = k
  BY <1>1, FirstPlacesCover
<1> HIDE DEF I
<1>5a. \A m, n \in DOMAIN all :
         m # n => \E i, k \in I : i # k /\ all[m] = links[i] /\ all[n] = links[k]
  BY <1>1, SelectedInOrder
<1> HIDE DEF all
<1>5b. \A m, n \in DOMAIN all : all[m] = all[n] => m = n
  BY <1>5, <1>5a
<1>6. PICK c \in Nat : c = site.cap
  BY CrawlerAssumption DEF CrawlTyped, IsSite
<1>7. PICK b \in Nat : b = Len(batch)
  BY ListShape DEF CrawlTyped, IsEndpoints
<1>8. PICK n \in Nat : n = Len(all) /\ DOMAIN all = 1 .. n
  BY <1>2, ListShape
<1>9. Followed(links) = IF c > 0 /\ b + n > c THEN SubSeq(all, 1, c - b) ELSE all
  BY <1>6, <1>7, <1>8 DEF Followed, all, I
<1>10. c > 0 => b < c
  BY <1>6, <1>7 DEF AtCap
<1>11. CASE c > 0 /\ b + n > c
  <2>1. c - b \in 0 .. n
    BY <1>10, <1>11
  <2>2. PICK t : t = SubSeq(all, 1, c - b) /\ Followed(links) = t
    BY <1>9, <1>11
  <2>3. IsList(t) /\ DOMAIN t = 1 .. c - b /\ \A i \in 1 .. c - b : i \in DOMAIN all /\ t[i] = all[i]
    BY <1>2, <1>8, <2>1, <2>2, SubList
  <2>4. ToSet(t) \subseteq ToSet(all) /\ \A i, k \in DOMAIN t : t[i] = t[k] => i = k
    BY <1>5b, <2>3 DEF ToSet
  <2>5. c # 0
    BY <1>11
  <2> QED BY <1>2, <1>3, <1>4, <1>6, <2>2, <2>3, <2>4, <2>5 DEF IsPages
<1>12. CASE ~(c > 0 /\ b + n > c)
  BY <1>2, <1>3, <1>4, <1>5b, <1>9, <1>12
<1> QED BY <1>11, <1>12

-----------------------------------------------------------------------------
(* --- what each step does to the lists ----------------------------------- *)
LEMMA SiteIs ==
  ASSUME site \in Sites
  PROVE  /\ IsSite(site) /\ IsDocument(site.spec) /\ site.cap \in Nat /\ site.depth \in Nat
         /\ IsPaths(site.robots.allow) /\ IsPaths(site.robots.disallow)
         /\ IsPaths(site.home.paths) /\ IsPaths(site.words) /\ IsScripts(site.home.scripts)
<1>1. IsSite(site)
  BY CrawlerAssumption
<1>2. /\ site.robots.allow \in Seq(Seq(Nat)) /\ site.robots.disallow \in Seq(Seq(Nat))
      /\ site.home.paths \in Seq(Seq(Nat)) /\ site.words \in Seq(Seq(Nat))
  BY <1>1 DEF IsSite
<1>3. IsScripts(site.home.scripts)
  <2>1. PICK q \in Seq(Seq(Seq(Nat))) : q = site.home.scripts
    BY <1>1 DEF IsSite
  <2>2. PICK n \in Nat : n = Len(q)
    BY <2>1
  <2>3. DOMAIN q = 1 .. n /\ q = [i \in 1 .. n |-> q[i]] /\ \A i \in 1 .. n : q[i] \in Seq(Seq(Nat))
    BY <2>2, SeqShape
  <2>4. IsList(q) /\ \A paths \in ToSet(q) : IsPaths(paths)
    BY <2>3, ListOf, SeqIsPaths DEF ToSet
  <2> QED BY <2>1, <2>4 DEF IsScripts
<1> QED BY <1>1, <1>2, <1>3, SeqIsPaths DEF IsSite

LEMMA LinksAre == ASSUME site \in Sites, NEW path PROVE IsPages(LinksOf(path))
<1>1. path \in DOMAIN site.links => IsPages(site.links[path])
  BY SiteIs DEF IsSite, IsPages
<1> QED BY <1>1, NoEndpoints DEF LinksOf

LEMMA MoreWords ==
  ASSUME NEW b, IsEndpoints(b), NEW e, IsKey(e)
  PROVE  IsEndpoints(Append(b, e)) /\ Append(b, e) = b \o <<e>>
<1>1. Append(b, e) = b \o <<e>>
  <2>1. PICK n \in Nat : n = Len(b) /\ b \in Seq(ToSet(b))
    BY ListShape DEF IsEndpoints, IsList
  <2> QED BY <2>1
<1>2. IsEndpoints(<<e>>)
  <2>1. DOMAIN <<e>> = 1 .. 1 /\ <<e>> = [i \in 1 .. 1 |-> <<e>>[i]] /\ <<e>>[1] = e
    OBVIOUS
  <2>2. IsList(<<e>>)
    BY <2>1, ListOf
  <2>3. ToSet(<<e>>) = {e}
    BY <2>1 DEF ToSet
  <2> QED BY <2>2, <2>3 DEF IsEndpoints
<1> QED BY <1>1, <1>2, MoreEndpoints

(* What the sources found only grows, at its end.                           *)
Grows == found' = found \/ \E more : IsEndpoints(more) /\ found' = found \o more

LEMMA EnterKeeps ==
  ASSUME CrawlTyped, site' = site, NEW next \in Sources, NEW todo, NEW more, IsEndpoints(more),
         Enter(next, todo, more), next = "scripts" => IsScripts(todo), next = "words" => IsPaths(todo)
  PROVE  CrawlTyped' /\ Grows
BY MoreEndpoints, NoEndpoints DEF CrawlTyped, Enter, Grows

LEMMA AfterScriptsKeeps ==
  ASSUME CrawlTyped, site' = site, NEW more, IsEndpoints(more), AfterScripts(more)
  PROVE  CrawlTyped' /\ Grows
<1>1. site \in Sites
  BY DEF CrawlTyped
<1>2. CASE site.depth > 0
  <2>1. PICK todo : Enter("links", todo, more)
    BY <1>2 DEF AfterScripts
  <2> QED BY <2>1, EnterKeeps DEF Sources
<1>3. CASE ~(site.depth > 0)
  <2>1. Enter("words", site.words, more) /\ IsPaths(site.words)
    BY <1>1, <1>3, SiteIs DEF AfterScripts
  <2> QED BY <2>1, EnterKeeps DEF Sources
<1> QED BY <1>2, <1>3

LEMMA SameLists ==
  ASSUME CrawlTyped, UNCHANGED <<site, source, queue, batch, found>>
  PROVE  CrawlTyped' /\ Grows
BY DEF CrawlTyped, Grows

LEMMA StepsKeepLists ==
  ASSUME CrawlTyped, [Next]_vars
  PROVE  CrawlTyped' /\ Grows
<1>1. site \in Sites /\ IsEndpoints(found) /\ (source # "sitemaps" => IsEndpoints(batch))
  BY DEF CrawlTyped
<1>2. CASE ReadSpec
  <2>1. IsEndpoints(EndpointsOf(site.spec)) /\ IsEndpoints(<<>>)
    BY <1>1, SiteIs, EndpointsOfSpec, NoEndpoints
  <2>2. PICK more : IsEndpoints(more) /\ Enter(AfterSpec, <<>>, more)
    BY <1>2, <2>1 DEF ReadSpec
  <2>3. AfterSpec \in Sources /\ AfterSpec # "scripts" /\ AfterSpec # "words"
    BY DEF AfterSpec, Sources
  <2>4. site' = site
    BY <1>2 DEF ReadSpec
  <2> QED BY <2>2, <2>3, <2>4, EnterKeeps
<1>3. CASE ReadRobots
  <2> DEFINE more == AllOf(IF site.respect THEN site.robots.allow ELSE site.robots.allow \o site.robots.disallow)
  <2>1. IsPaths(site.robots.allow) /\ IsPaths(site.robots.disallow)
    BY <1>1, SiteIs
  <2>2. IsPaths(site.robots.allow \o site.robots.disallow)
    BY <2>1, ConcatList DEF IsPaths
  <2>3. IsEndpoints(more)
    BY <2>1, <2>2, AllOfIsPaths
  <2>4. site' = site /\ \E todo : Enter("sitemaps", todo, more)
    BY <1>3 DEF ReadRobots
  <2> HIDE DEF more
  <2> QED BY <2>3, <2>4, EnterKeeps DEF Sources
<1>4. CASE RobotsFails
  <2>1. site' = site /\ Enter("sitemaps", <<DefaultSitemap>>, <<>>)
    BY <1>4 DEF RobotsFails
  <2> QED BY <2>1, EnterKeeps, NoEndpoints DEF Sources
<1>5. CASE ReadSitemap
  <2>1. Head(queue) \in DOMAIN site.sitemaps /\ source = "sitemaps" /\ IsPages(batch)
    BY <1>5 DEF ReadSitemap, SitemapsLeft, Fetched, CrawlTyped
  <2>2. IsPages(site.sitemaps[Head(queue)].pages)
    BY <1>1, <2>1, SiteIs DEF IsSite, IsPages
  <2>3. IsPages(batch')
    BY <1>5, <2>1, <2>2, MorePages DEF ReadSitemap
  <2>4. site' = site /\ source' = source /\ found' = found
    BY <1>5 DEF ReadSitemap
  <2> QED BY <2>1, <2>3, <2>4 DEF CrawlTyped, Grows
<1>6. CASE SitemapFails
  BY <1>6 DEF SitemapFails, SitemapsLeft, CrawlTyped, Grows
<1>7. CASE EndSitemaps
  <2> DEFINE own == Selected(batch, {i \in DOMAIN batch : batch[i].host = "own"})
             paths == [i \in DOMAIN own |-> own[i].path]
  <2>1. IsPages(batch)
    BY <1>7 DEF EndSitemaps, CrawlTyped
  <2>2. IsPages(own)
    BY <2>1, SelectedPages
  <2>3. IsPaths(paths)
    BY <2>2, PathsOf
  <2>4. site' = site /\ Enter("home", <<>>, AllOf(MergeParams(paths)))
    BY <1>7 DEF EndSitemaps
  <2> HIDE DEF own, paths
  <2>5. IsEndpoints(AllOf(MergeParams(paths)))
    BY <2>3, MergeKeepsAll, AllOfIsPaths DEF IsPaths
  <2> QED BY <2>4, <2>5, EnterKeeps DEF Sources
<1>8. CASE ReadHome
  <2>1. site' = site /\ Enter("scripts", site.home.scripts, AllOf(site.home.paths))
    BY <1>8 DEF ReadHome
  <2>2. IsScripts(site.home.scripts) /\ IsEndpoints(AllOf(site.home.paths))
    BY <1>1, SiteIs, AllOfIsPaths
  <2> QED BY <2>1, <2>2, EnterKeeps DEF Sources
<1>9. CASE HomeFails
  <2>1. site' = site /\ AfterScripts(<<>>)
    BY <1>9 DEF HomeFails
  <2> QED BY <2>1, NoEndpoints, AfterScriptsKeeps
<1>10. CASE ReadScript
  <2>1. source = "scripts" /\ queue # <<>> /\ IsScripts(queue) /\ IsEndpoints(batch)
    BY <1>10 DEF ReadScript, CrawlTyped
  <2>2. IsScripts(Tail(queue)) /\ IsPaths(Head(queue))
    BY <2>1, TailList DEF IsScripts
  <2>3. IsEndpoints(batch \o AllOf(Head(queue)))
    BY <2>1, <2>2, AllOfIsPaths, MoreEndpoints
  <2>4. IsEndpoints(batch')
    BY <1>10, <2>1, <2>3 DEF ReadScript
  <2>5. site' = site /\ source' = source /\ found' = found /\ queue' = Tail(queue)
    BY <1>10 DEF ReadScript
  <2> QED BY <2>1, <2>2, <2>4, <2>5 DEF CrawlTyped, Grows
<1>11. CASE EndScripts
  <2>1. site' = site /\ AfterScripts(batch) /\ IsEndpoints(batch)
    BY <1>1, <1>11 DEF EndScripts
  <2> QED BY <2>1, AfterScriptsKeeps
<1>12. CASE ReadPage
  <2> DEFINE urls == Followed(LinksOf(Head(queue).url.path))
             paths == [i \in DOMAIN urls |-> urls[i].path]
  <2>1. source = "links" /\ ~AtCap /\ IsEndpoints(batch)
    BY <1>12 DEF ReadPage, CrawlTyped
  <2>2. IsPages(urls)
    BY <1>1, <2>1, LinksAre, FollowedAre
  <2>3. IsPaths(paths)
    BY <2>2, PathsOf
  <2>4. batch' = batch \/ batch' = batch \o AllOf(paths)
    BY <1>12 DEF ReadPage
  <2> HIDE DEF urls, paths
  <2>5. IsEndpoints(batch')
    BY <2>1, <2>3, <2>4, AllOfIsPaths, MoreEndpoints
  <2>6. site' = site /\ source' = source /\ found' = found
    BY <1>12 DEF ReadPage
  <2> QED BY <2>1, <2>5, <2>6 DEF CrawlTyped, Grows
<1>13. CASE EndLinks
  <2>1. PICK more : IsEndpoints(more) /\ Enter("words", site.words, more)
    BY <1>1, <1>13, NoEndpoints DEF EndLinks
  <2>2. site' = site /\ IsPaths(site.words)
    BY <1>1, <1>13, SiteIs DEF EndLinks
  <2> QED BY <2>1, <2>2, EnterKeeps DEF Sources
<1>14. CASE AskWord
  <2>1. source = "words" /\ queue # <<>> /\ IsPaths(queue) /\ IsEndpoints(batch)
    BY <1>14 DEF AskWord, CrawlTyped
  <2>2. IsPaths(Tail(queue)) /\ Head(queue) \in Seq(Nat)
    BY <2>1, TailList DEF IsPaths
  <2> DEFINE e == Endpoint("GET", Head(queue), Head(queue), <<>>)
  <2>3. IsKey(e)
    <3>1. e.path = Head(queue) /\ e.method = "GET"
      BY DEF Endpoint
    <3>2. "GET" \in ToSet(Methods)
      <4>1. DOMAIN Methods = 1 .. 7 /\ Methods[2] = "GET"
        BY DEF Methods
      <4> QED BY <4>1 DEF ToSet
    <3> QED BY <2>2, <3>1, <3>2 DEF IsKey
  <2>4. batch' = batch \/ batch' = Append(batch, e)
    BY <1>14 DEF AskWord
  <2> HIDE DEF e
  <2>5. IsEndpoints(batch')
    BY <2>1, <2>3, <2>4, MoreWords
  <2>6. site' = site /\ source' = source /\ found' = found /\ queue' = Tail(queue)
    BY <1>14 DEF AskWord
  <2> QED BY <2>1, <2>2, <2>5, <2>6 DEF CrawlTyped, Grows
<1>15. CASE EndWords
  <2>1. PICK more : IsEndpoints(more) /\ Enter("rank", <<>>, more)
    BY <1>1, <1>15, NoEndpoints DEF EndWords
  <2>2. site' = site
    BY <1>15 DEF EndWords
  <2> QED BY <2>1, <2>2, EnterKeeps DEF Sources
<1>16. CASE Rank
  BY <1>16 DEF Rank, CrawlTyped, Grows, Sources
<1>17. CASE Cancel
  BY <1>17, SameLists DEF Cancel
<1>18. CASE UNCHANGED vars
  BY <1>18, SameLists DEF vars
<1> QED BY <1>2, <1>3, <1>4, <1>5, <1>6, <1>7, <1>8, <1>9, <1>10, <1>11, <1>12, <1>13, <1>14, <1>15, <1>16, <1>17, <1>18 DEF Next, Work

-----------------------------------------------------------------------------
(* --- the pages near the home page --------------------------------------- *)
(* The levels of a walk: each adds the pages the one before links to.       *)
LevelsTo(f, links, n) ==
  /\ f[0] = {Home}
  /\ \A k \in 1 .. n : f[k] = f[k - 1] \cup LinkedFrom(links, f[k - 1])

LEMMA LevelsAgree ==
  ASSUME NEW links, NEW f, NEW g, NEW n \in Nat, LevelsTo(f, links, n), LevelsTo(g, links, n)
  PROVE  f[n] = g[n]
<1> DEFINE differ == {k \in 0 .. n : f[k] # g[k]}
<1> SUFFICES ASSUME n \in differ PROVE FALSE
  BY DEF differ
<1>1. differ \subseteq Nat
  OBVIOUS
<1>2. PICK k \in differ : \A m \in differ : k <= m
  BY <1>1, Least
<1>3. k # 0
  BY <1>2 DEF LevelsTo
<1>4. k \in 1 .. n /\ k - 1 \in 0 .. n /\ ~(k <= k - 1)
  BY <1>2, <1>3
<1>5. f[k - 1] = g[k - 1]
  BY <1>2, <1>4
<1>6. f[k] = g[k]
  BY <1>4, <1>5 DEF LevelsTo
<1> QED BY <1>2, <1>6

LEMMA LevelsExist == ASSUME NEW links, NEW n \in Nat PROVE \E f : LevelsTo(f, links, n)
<1> DEFINE none == {k \in Nat : ~\E f : LevelsTo(f, links, k)}
<1> SUFFICES ASSUME n \in none PROVE FALSE
  BY DEF none
<1>1. none \subseteq Nat
  OBVIOUS
<1>2. PICK k \in none : \A m \in none : k <= m
  BY <1>1, Least
<1>3. k # 0
  <2>1. LevelsTo([m \in {0} |-> {Home}], links, 0)
    BY DEF LevelsTo
  <2> QED BY <1>2, <2>1
<1>4. k \in Nat /\ k - 1 \in Nat /\ ~(k <= k - 1)
  BY <1>2, <1>3
<1>5. PICK g : LevelsTo(g, links, k - 1)
  BY <1>2, <1>4
<1> DEFINE f == [m \in 0 .. k |-> IF m = k THEN g[k - 1] \cup LinkedFrom(links, g[k - 1]) ELSE g[m]]
<1>6. f[k] = g[k - 1] \cup LinkedFrom(links, g[k - 1])
  BY <1>4
<1>7. \A m \in 0 .. k - 1 : m \in 0 .. k /\ f[m] = g[m]
  BY <1>4
<1> HIDE DEF f
<1>8. f[0] = {Home} /\ f[k] = f[k - 1] \cup LinkedFrom(links, f[k - 1])
  BY <1>4, <1>5, <1>6, <1>7 DEF LevelsTo
<1>9. \A m \in 1 .. k : m = k \/ (m \in 1 .. k - 1 /\ m - 1 \in 0 .. k - 1 /\ m \in 0 .. k - 1)
  BY <1>4
<1>10. LevelsTo(f, links, k)
  BY <1>5, <1>7, <1>8, <1>9 DEF LevelsTo
<1> QED BY <1>2, <1>10

LEMMA NearIs ==
  ASSUME NEW links
  PROVE  /\ Near(links)[0] = {Home}
         /\ \A n \in Nat : Near(links)[n + 1] = Near(links)[n] \cup LinkedFrom(links, Near(links)[n])
<1> DEFINE G(n) == CHOOSE f : LevelsTo(f, links, n)
           next(S) == S \cup LinkedFrom(links, S)
           h == [n \in Nat |-> G(n)[n]]
<1>1. \A n \in Nat : LevelsTo(G(n), links, n)
  BY LevelsExist
<1> HIDE DEF G
<1>2. h[0] = {Home}
  BY <1>1 DEF LevelsTo
<1>3. ASSUME NEW n \in Nat PROVE h[n + 1] = next(h[n])
  <2>1. n + 1 \in Nat /\ n + 1 \in 1 .. n + 1 /\ (n + 1) - 1 = n /\ 1 .. n \subseteq 1 .. n + 1
    OBVIOUS
  <2>2. LevelsTo(G(n + 1), links, n + 1) /\ LevelsTo(G(n), links, n)
    BY <1>1, <2>1
  <2>3. LevelsTo(G(n + 1), links, n)
    BY <2>1, <2>2 DEF LevelsTo
  <2>4. G(n + 1)[n] = G(n)[n]
    BY <2>2, <2>3, LevelsAgree
  <2>5. G(n + 1)[n + 1] = next(G(n + 1)[n])
    BY <2>1, <2>2 DEF LevelsTo
  <2> QED BY <2>1, <2>4, <2>5
<1>4. h = [n \in Nat |-> IF n = 0 THEN {Home} ELSE h[n - 1] \cup LinkedFrom(links, h[n - 1])]
  <2>1. ASSUME NEW n \in Nat PROVE h[n] = IF n = 0 THEN {Home} ELSE next(h[n - 1])
    <3>1. CASE n = 0
      BY <1>2, <3>1
    <3>2. CASE n # 0
      <4>1. n - 1 \in Nat /\ (n - 1) + 1 = n
        BY <3>2
      <4>2. h[(n - 1) + 1] = next(h[n - 1])
        BY <1>3, <4>1
      <4> QED BY <3>2, <4>1, <4>2
    <3> QED BY <3>1, <3>2
  <2>2. h = [n \in Nat |-> h[n]]
    OBVIOUS
  <2> HIDE DEF h
  <2> QED BY <2>1, <2>2
<1>5. Near(links) = [n \in Nat |-> IF n = 0 THEN {Home}
                                   ELSE Near(links)[n - 1] \cup LinkedFrom(links, Near(links)[n - 1])]
  <2> HIDE DEF h
  <2> QED BY <1>4 DEF Near
<1>6. Near(links)[0] = {Home}
  BY <1>5
<1>7. ASSUME NEW n \in Nat PROVE Near(links)[n + 1] = next(Near(links)[n])
  <2>1. n + 1 \in Nat /\ n + 1 # 0 /\ (n + 1) - 1 = n
    OBVIOUS
  <2> QED BY <1>5, <2>1
<1> QED BY <1>6, <1>7

-----------------------------------------------------------------------------
(* --- what robots.txt said, and what the specification put first ---------- *)
RobotsHeld ==
  /\ source \in {"spec", "robots"} => ~robotsRead
  /\ robotsRead => disallows = IF site.respect THEN site.robots.disallow ELSE << >>
  /\ \A w \in asked : ~(site.respect /\ Disallowed(w, disallows))
  /\ source \notin {"words", "rank", "done"} => asked = {}

Starts(a, b) == \A i \in DOMAIN a : i \in DOMAIN b /\ b[i] = a[i]
SpecFirst ==
  /\ source = "spec" => found = << >>
  /\ (site.specAt # "none" /\ ~specErr /\ source # "spec") => Starts(EndpointsOf(site.spec), found)

CutAt(cap, eps) == IF cap > 0 /\ Len(eps) > cap THEN SubSeq(eps, 1, cap) ELSE eps
RankDone ==
  /\ source # "done" => result = << >>
  /\ source = "done" => discovered = Len(Ranked) /\ result = CutAt(site.cap, Ranked)

LEMMA RobotsStayHeld ==
  ASSUME RobotsHeld, [Next]_vars
  PROVE  RobotsHeld'
<1>1. CASE ReadSpec
  BY <1>1 DEF ReadSpec, RobotsHeld, Enter, AfterSpec
<1>2. CASE ReadRobots
  BY <1>2 DEF ReadRobots, RobotsHeld, Enter
<1>3. CASE RobotsFails
  BY <1>3 DEF RobotsFails, RobotsHeld, Enter, progress
<1>4. CASE ReadSitemap \/ SitemapFails
  <2>1. UNCHANGED <<site, source, disallows, asked, robotsRead>>
    BY <1>4 DEF ReadSitemap, SitemapFails, progress
  <2> QED BY <2>1 DEF RobotsHeld
<1>5. CASE EndSitemaps
  BY <1>5 DEF EndSitemaps, RobotsHeld, Enter, progress
<1>6. CASE ReadHome
  BY <1>6 DEF ReadHome, RobotsHeld, Enter, progress
<1>7. CASE HomeFails
  BY <1>7 DEF HomeFails, AfterScripts, RobotsHeld, Enter, progress
<1>8. CASE ReadScript
  BY <1>8 DEF ReadScript, RobotsHeld, progress
<1>9. CASE EndScripts
  BY <1>9 DEF EndScripts, AfterScripts, RobotsHeld, Enter, progress
<1>10. CASE ReadPage
  BY <1>10 DEF ReadPage, RobotsHeld
<1>11. CASE EndLinks
  BY <1>11 DEF EndLinks, RobotsHeld, Enter, progress
<1>12. CASE AskWord
  <2>1. UNCHANGED <<site, source, disallows, robotsRead>> /\ source = "words"
    BY <1>12 DEF AskWord
  <2>2. CASE site.respect /\ Disallowed(Head(queue), disallows)
    <3>1. asked' = asked
      BY <1>12, <2>2 DEF AskWord
    <3> QED BY <2>1, <3>1 DEF RobotsHeld
  <2>3. CASE ~(site.respect /\ Disallowed(Head(queue), disallows))
    <3>1. asked' = asked \cup {Head(queue)}
      BY <1>12, <2>3 DEF AskWord
    <3>2. \A w \in asked' : ~(site'.respect /\ Disallowed(w, disallows'))
      BY <2>1, <2>3, <3>1 DEF RobotsHeld
    <3> QED BY <2>1, <3>2 DEF RobotsHeld
  <2> QED BY <2>2, <2>3
<1>13. CASE EndWords
  BY <1>13 DEF EndWords, RobotsHeld, Enter, progress
<1>14. CASE Rank
  BY <1>14 DEF Rank, RobotsHeld, progress
<1>15. CASE Cancel
  BY <1>15 DEF Cancel, RobotsHeld, progress
<1>16. CASE UNCHANGED vars
  BY <1>16 DEF vars, RobotsHeld, progress
<1> QED BY <1>1, <1>2, <1>3, <1>4, <1>5, <1>6, <1>7, <1>8, <1>9, <1>10, <1>11, <1>12, <1>13, <1>14, <1>15, <1>16 DEF Next, Work

(* The order in which the sources run, and what stays as it was.            *)
LEMMA Course ==
  ASSUME [Next]_vars, ~ReadSpec
  PROVE  /\ site' = site /\ specErr' = specErr
         /\ source = "spec" <=> source' = "spec"
         /\ source = "spec" => found' = found
<1>1. CASE ReadRobots \/ RobotsFails \/ EndSitemaps \/ ReadHome \/ EndLinks \/ EndWords
  BY <1>1 DEF ReadRobots, RobotsFails, EndSitemaps, ReadHome, EndLinks, EndWords, Enter, progress
<1>2. CASE HomeFails \/ EndScripts
  BY <1>2 DEF HomeFails, EndScripts, AfterScripts, Enter, progress
<1>3. CASE ReadSitemap \/ SitemapFails \/ ReadScript \/ ReadPage \/ AskWord \/ Rank \/ Cancel
  BY <1>3 DEF ReadSitemap, SitemapFails, SitemapsLeft, ReadScript, ReadPage, AskWord, Rank, Cancel, progress
<1>4. CASE UNCHANGED vars
  BY <1>4 DEF vars, progress
<1> QED BY <1>1, <1>2, <1>3, <1>4 DEF Next, Work

LEMMA SpecStaysFirst ==
  ASSUME CrawlTyped, SpecFirst, [Next]_vars
  PROVE  SpecFirst'
<1>1. IsEndpoints(found) /\ Grows /\ IsDocument(site.spec)
  BY StepsKeepLists, SiteIs DEF CrawlTyped
<1> DEFINE E == EndpointsOf(site.spec)
<1>2. CASE ReadSpec
  <2>1. found = << >> /\ site' = site /\ source' # "spec"
    BY <1>2 DEF ReadSpec, SpecFirst, Enter, AfterSpec
  <2>2. IsEndpoints(E)
    BY <1>1, EndpointsOfSpec
  <2>3. << >> \o E = E
    <3>1. E \in Seq(ToSet(E))
      BY <2>2 DEF IsEndpoints, IsList
    <3> HIDE DEF E
    <3> QED BY <3>1
  <2>4. site.specAt = "none" \/ specErr' = TRUE \/ found' = E
    BY <1>2, <2>1, <2>3 DEF ReadSpec, Enter
  <2>5. Starts(E, E)
    BY DEF Starts
  <2> HIDE DEF E
  <2>6. (site.specAt # "none" /\ ~specErr') => Starts(E, found')
    BY <2>4, <2>5
  <2> QED BY <2>1, <2>6 DEF SpecFirst, E
<1>3. CASE ~ReadSpec
  <2>1. site' = site /\ specErr' = specErr /\ (source = "spec" <=> source' = "spec")
    BY <1>3, Course
  <2>2. ASSUME Starts(E, found) PROVE Starts(E, found')
    <3>1. \A i \in DOMAIN found : i \in DOMAIN found' /\ found'[i] = found[i]
      BY <1>1, MoreEndpoints DEF Grows
    <3> HIDE DEF E
    <3> QED BY <2>2, <3>1 DEF Starts
  <2>3. source' = "spec" => found' = << >>
    BY <1>3, <2>1, Course DEF SpecFirst
  <2>4. (site'.specAt # "none" /\ ~specErr' /\ source' # "spec") => Starts(EndpointsOf(site'.spec), found')
    BY <2>1, <2>2 DEF SpecFirst
  <2> QED BY <2>3, <2>4 DEF SpecFirst
<1> QED BY <1>2, <1>3

LEMMA RankStaysDone ==
  ASSUME CrawlTyped, RankDone, [Next]_vars
  PROVE  RankDone'
<1>1. CASE Rank
  <2>1. source' = "done" /\ discovered' = Len(Ranked) /\ result' = CutAt(site.cap, Ranked)
    BY <1>1 DEF Rank, CutAt
  <2>2. UNCHANGED <<site, found, disallows>>
    BY <1>1 DEF Rank
  <2>3. Ranked' = Ranked
    BY <2>2 DEF Ranked
  <2> QED BY <2>1, <2>2, <2>3 DEF RankDone
<1>2. CASE ~Rank /\ ~UNCHANGED vars
  <2>1. source # "done" /\ source' # "done" /\ result' = result
    <3>1. CASE ReadSpec \/ ReadRobots \/ RobotsFails \/ EndSitemaps \/ ReadHome \/ EndLinks \/ EndWords
      BY <3>1 DEF ReadSpec, AfterSpec, ReadRobots, RobotsFails, EndSitemaps, ReadHome, EndLinks, EndWords, Enter, outcome
    <3>2. CASE HomeFails \/ EndScripts
      BY <3>2 DEF HomeFails, EndScripts, AfterScripts, Enter, outcome
    <3>3. CASE ReadSitemap \/ SitemapFails \/ ReadScript \/ ReadPage \/ AskWord \/ Cancel
      BY <3>3 DEF ReadSitemap, SitemapFails, SitemapsLeft, ReadScript, ReadPage, AskWord, Cancel, outcome
    <3> QED BY <1>2, <3>1, <3>2, <3>3 DEF Next, Work
  <2> QED BY <2>1 DEF RankDone
<1>3. CASE UNCHANGED vars
  <2>1. UNCHANGED <<site, source, found, disallows, result, discovered>>
    BY <1>3 DEF vars, outcome
  <2>2. Ranked' = Ranked
    BY <2>1 DEF Ranked
  <2> QED BY <2>1, <2>2 DEF RankDone
<1> QED BY <1>1, <1>2, <1>3

-----------------------------------------------------------------------------
(* --- what is handed over ------------------------------------------------- *)
MayScan == {e \in Deduplicated(found) : ~(site.respect /\ Disallowed(e.path, disallows))}

LEMMA RankedIs ==
  ASSUME IsEndpoints(found)
  PROVE  /\ Ranked = InOrder(MayScan) /\ Cardinality(MayScan) \in Nat
         /\ IsList(Ranked) /\ Len(Ranked) = Cardinality(MayScan) /\ DOMAIN Ranked = 1 .. Len(Ranked)
         /\ \A i \in DOMAIN Ranked : Ranked[i] \in MayScan
         /\ \A e \in MayScan : IsKey(e) /\ \E i \in DOMAIN Ranked : Ranked[i] = e
         /\ \A e, f \in MayScan : Alike(e, f) => e = f
         /\ \A i, k \in DOMAIN Ranked : i < k => Before(Ranked[i], Ranked[k])
<1>1. MayScan \subseteq Deduplicated(found)
  BY DEF MayScan
<1>2. IsFiniteSet(MayScan) /\ \A e \in MayScan : IsKey(e)
  BY <1>1, FirstIsKept, FS_Subset
<1>3. \A e, f \in MayScan : Alike(e, f) => e = f
  BY <1>1, FirstIsKept
<1>4. Ranked = InOrder(MayScan)
  BY DEF Ranked, MayScan
<1>5. \A e, f \in MayScan : e.path = f.path /\ e.method = f.method => e = f
  BY <1>3 DEF Alike
<1> QED BY <1>2, <1>3, <1>4, <1>5, InOrderLists

(* The result is Ranked as far as the cap goes.                             *)
LEMMA ResultIs ==
  ASSUME CrawlTyped, RankDone, Done
  PROVE  \E n \in Nat : /\ n = Len(result) /\ DOMAIN result = 1 .. n /\ IsList(result)
                        /\ \A i \in 1 .. n : i \in DOMAIN Ranked /\ result[i] = Ranked[i]
                        /\ \A k \in DOMAIN Ranked : k \in 1 .. n \/ (n < k /\ n = site.cap /\ site.cap > 0)
<1>1. source = "done" /\ result = CutAt(site.cap, Ranked)
  BY DEF Done, RankDone
<1>2. PICK N \in Nat : N = Len(Ranked) /\ DOMAIN Ranked = 1 .. N /\ IsList(Ranked)
  BY RankedIs DEF CrawlTyped
<1>3. PICK c \in Nat : c = site.cap
  BY SiteIs DEF CrawlTyped
<1>4. CASE c > 0 /\ N > c
  <2>1. result = SubSeq(Ranked, 1, c) /\ c \in 0 .. N
    BY <1>1, <1>2, <1>3, <1>4 DEF CutAt
  <2>2. IsList(result) /\ Len(result) = c /\ DOMAIN result = 1 .. c
        /\ \A i \in 1 .. c : i \in DOMAIN Ranked /\ result[i] = Ranked[i]
    BY <1>2, <2>1, SubList
  <2>3. \A k \in 1 .. N : k \in 1 .. c \/ c < k
    OBVIOUS
  <2> QED BY <1>2, <1>3, <1>4, <2>2, <2>3
<1>5. CASE ~(c > 0 /\ N > c)
  <2>1. result = Ranked
    BY <1>1, <1>2, <1>3, <1>5 DEF CutAt
  <2> QED BY <1>2, <2>1
<1> QED BY <1>4, <1>5

(* As many methods and paths as there are endpoints in an ordered list.     *)
Keys(eps) == {<<eps[i].path, eps[i].method>> : i \in DOMAIN eps}
LEMMA KeysCount ==
  ASSUME NEW eps, NEW n \in Nat, n = Len(eps), DOMAIN eps = 1 .. n, \A i \in 1 .. n : IsKey(eps[i]),
         \A i, k \in 1 .. n : i < k => Before(eps[i], eps[k])
  PROVE  Cardinality(Keys(eps)) = n
<1> DEFINE key == [i \in 1 .. n |-> <<eps[i].path, eps[i].method>>]
<1>1. ASSUME NEW i \in 1 .. n, NEW k \in 1 .. n, key[i] = key[k], i < k PROVE FALSE
  <2>1. eps[i].path = eps[k].path /\ eps[i].method = eps[k].method
    BY <1>1
  <2>2. Before(eps[i], eps[k])
    BY <1>1
  <2>3. Before(eps[k], eps[k])
    BY <2>1, <2>2 DEF Before
  <2> QED BY <2>3, BeforeIsAnOrder
<1>2. \A i, k \in 1 .. n : key[i] = key[k] => i = k
  <2> SUFFICES ASSUME NEW i \in 1 .. n, NEW k \in 1 .. n, key[i] = key[k] PROVE i = k
    OBVIOUS
  <2>1. ~(i < k) /\ ~(k < i)
    BY <1>1
  <2> QED BY <2>1
<1>3. key \in [1 .. n -> Keys(eps)] /\ \A m \in Keys(eps) : \E i \in 1 .. n : key[i] = m
  BY DEF Keys
<1> HIDE DEF key
<1>4. key \in Bijection(1 .. n, Keys(eps))
  BY <1>2, <1>3 DEF Bijection, Injection, Surjection, IsInjective
<1>5. IsFiniteSet(1 .. n) /\ Cardinality(1 .. n) = n
  <2>1. 1 \in Int /\ n \in Int
    OBVIOUS
  <2>2. IsFiniteSet(1 .. n) /\ Cardinality(1 .. n) = IF 1 > n THEN 0 ELSE n - 1 + 1
    BY <2>1, FS_Interval
  <2> QED BY <2>2
<1>6. ExistsBijection(1 .. n, Keys(eps))
  BY <1>4 DEF ExistsBijection
<1> QED BY <1>5, <1>6, FS_Bijection

MayBeScanned == {<<found[i].path, found[i].method>> :
                i \in {i \in DOMAIN found : ~(site.respect /\ Disallowed(found[i].path, disallows))}}

LEMMA RankedKeys ==
  ASSUME IsEndpoints(found)
  PROVE  Keys(Ranked) = MayBeScanned /\ Cardinality(MayBeScanned) = Len(Ranked)
<1>1. Keys(Ranked) \subseteq MayBeScanned
  <2> SUFFICES ASSUME NEW i \in DOMAIN Ranked
               PROVE  <<Ranked[i].path, Ranked[i].method>> \in MayBeScanned
    BY DEF Keys
  <2>1. PICK e : e = Ranked[i] /\ e \in MayScan
    BY RankedIs
  <2>2. e \in ToSet(found) /\ ~(site.respect /\ Disallowed(e.path, disallows))
    BY <2>1, FirstIsKept DEF MayScan
  <2> QED BY <2>1, <2>2 DEF MayBeScanned, ToSet
<1>2. MayBeScanned \subseteq Keys(Ranked)
  <2> SUFFICES ASSUME NEW i \in DOMAIN found, ~(site.respect /\ Disallowed(found[i].path, disallows))
               PROVE  <<found[i].path, found[i].method>> \in Keys(Ranked)
    BY DEF MayBeScanned
  <2>1. PICK e \in Deduplicated(found) : Alike(e, found[i])
    BY FirstIsKept
  <2>2. e \in MayScan /\ e.path = found[i].path /\ e.method = found[i].method
    BY <2>1 DEF MayScan, Alike
  <2>3. PICK k \in DOMAIN Ranked : Ranked[k] = e
    BY <2>2, RankedIs
  <2> QED BY <2>2, <2>3 DEF Keys
<1>3. PICK n \in Nat : n = Len(Ranked) /\ DOMAIN Ranked = 1 .. n
  BY RankedIs
<1>4. \A i \in 1 .. n : IsKey(Ranked[i])
  BY <1>3, RankedIs
<1>5. \A i, k \in 1 .. n : i < k => Before(Ranked[i], Ranked[k])
  BY <1>3, RankedIs
<1>6. Cardinality(Keys(Ranked)) = n
  BY <1>3, <1>4, <1>5, KeysCount
<1>7. Keys(Ranked) = MayBeScanned
  BY <1>1, <1>2
<1> QED BY <1>3, <1>6, <1>7

LEMMA FirstAreKept == ASSUME CrawlTyped, RankDone PROVE CapKeepsTheFirst
<1> SUFFICES ASSUME Done PROVE CapKeepsTheFirst
  BY DEF CapKeepsTheFirst
<1> DEFINE kept == {<<e.path, e.method>> : e \in ToSet(result)}
<1>1. IsEndpoints(found)
  BY DEF CrawlTyped
<1>2. PICK n \in Nat : /\ n = Len(result) /\ DOMAIN result = 1 .. n /\ IsList(result)
                       /\ \A i \in 1 .. n : i \in DOMAIN Ranked /\ result[i] = Ranked[i]
                       /\ \A k \in DOMAIN Ranked : k \in 1 .. n \/ (n < k /\ n = site.cap /\ site.cap > 0)
  BY ResultIs
<1>3. discovered = Cardinality(MayBeScanned)
  BY <1>1, RankedKeys DEF RankDone, Done
<1>4. kept = Keys(result)
  BY DEF Keys, ToSet
<1>5. kept \subseteq MayBeScanned
  <2>1. Keys(result) \subseteq Keys(Ranked)
    BY <1>2 DEF Keys
  <2> QED BY <1>1, <1>4, <2>1, RankedKeys
<1>6. PICK N \in Nat : N = Len(Ranked) /\ DOMAIN Ranked = 1 .. N
  BY <1>1, RankedIs
<1>7. \A i \in 1 .. n : IsKey(result[i])
  BY <1>1, <1>2, RankedIs
<1>8. \A i, k \in 1 .. n : i < k => Before(result[i], result[k])
  BY <1>1, <1>2, RankedIs
<1>9. Cardinality(kept) = Len(result)
  BY <1>2, <1>4, <1>7, <1>8, KeysCount
<1>10. ASSUME NEW m \in MayBeScanned \ kept
       PROVE  /\ Len(result) = site.cap /\ site.cap > 0
              /\ \A e \in ToSet(result) : Before(e, [path |-> m[1], method |-> m[2]])
  <2>1. PICK k \in DOMAIN Ranked : m = <<Ranked[k].path, Ranked[k].method>>
    BY <1>1, <1>10, RankedKeys DEF Keys
  <2>2. k \notin 1 .. n
    <3> SUFFICES ASSUME k \in 1 .. n PROVE FALSE
      OBVIOUS
    <3>1. m \in Keys(result)
      BY <1>2, <2>1 DEF Keys
    <3> QED BY <1>4, <1>10, <3>1
  <2>3. n < k /\ n = site.cap /\ site.cap > 0
    BY <1>2, <2>2
  <2>4. ASSUME NEW i \in 1 .. n PROVE Before(result[i], [path |-> m[1], method |-> m[2]])
    <3>1. i \in DOMAIN Ranked /\ result[i] = Ranked[i] /\ i < k
      BY <1>2, <1>6, <2>3
    <3>2. Before(Ranked[i], Ranked[k])
      BY <1>1, <3>1, RankedIs
    <3>3. m[1] = Ranked[k].path /\ m[2] = Ranked[k].method
      BY <2>1
    <3> QED BY <3>1, <3>2, <3>3 DEF Before
  <2> QED BY <1>2, <2>3, <2>4 DEF ToSet
<1> QED BY <1>3, <1>5, <1>9, <1>10 DEF CapKeepsTheFirst, MayBeScanned

LEMMA RobotsAreObeyed ==
  ASSUME CrawlTyped, RobotsHeld, RankDone, site.respect, robotsRead
  PROVE  /\ \A w \in asked : ~Disallowed(w, site.robots.disallow)
         /\ \A e \in ToSet(result) : ~Disallowed(e.path, site.robots.disallow)
<1>1. disallows = site.robots.disallow /\ \A w \in asked : ~Disallowed(w, site.robots.disallow)
  BY DEF RobotsHeld
<1>2. CASE ~Done
  BY <1>1, <1>2, EmptyList DEF Done, RankDone
<1>3. CASE Done
  <2>1. PICK n \in Nat : /\ DOMAIN result = 1 .. n
                         /\ \A i \in 1 .. n : i \in DOMAIN Ranked /\ result[i] = Ranked[i]
    BY <1>3, ResultIs
  <2>2. \A i \in 1 .. n : result[i] \in MayScan
    BY <2>1, RankedIs DEF CrawlTyped
  <2>3. \A i \in 1 .. n : ~Disallowed(result[i].path, disallows)
    BY <2>2 DEF MayScan
  <2> QED BY <1>1, <2>1, <2>3 DEF ToSet
<1> QED BY <1>2, <1>3

-----------------------------------------------------------------------------
(* --- an operation is scanned as it is declared --------------------------- *)
Kept(p, places) == ~p.ref /\ p.in \in places /\ ~(p.in = "header" /\ p.credential)

LEMMA NamesInAre ==
  ASSUME NEW params, IsList(params), NEW places
  PROVE  /\ IsList(NamesIn(params, places))
         /\ \A p \in ToSet(params) : Kept(p, places) => p.name \in ToSet(NamesIn(params, places))
         /\ \A m \in ToSet(NamesIn(params, places)) : \E p \in ToSet(params) : Kept(p, places) /\ p.name = m
<1> DEFINE I == {i \in DOMAIN params :
                    /\ ~params[i].ref /\ params[i].in \in places
                    /\ ~(params[i].in = "header" /\ params[i].credential)}
           kept == Selected(params, I)
<1>1. IsList(kept) /\ ToSet(kept) = {params[i] : i \in I}
  BY SelectedInOrder
<1>2. {params[i] : i \in I} = {p \in ToSet(params) : Kept(p, places)}
  BY DEF ToSet, Kept
<1>3. NamesIn(params, places) = [i \in DOMAIN kept |-> kept[i].name]
  BY DEF NamesIn
<1> HIDE DEF kept
<1>4. PICK n \in Nat : DOMAIN kept = 1 .. n
  BY <1>1, ListShape
<1>5. PICK names : names = NamesIn(params, places)
  OBVIOUS
<1>6. DOMAIN names = 1 .. n /\ names = [i \in 1 .. n |-> names[i]] /\ \A i \in 1 .. n : names[i] = kept[i].name
  BY <1>3, <1>4, <1>5
<1>7. IsList(names)
  BY <1>6, ListOf
<1>8. \A m \in ToSet(names) : \E p \in ToSet(kept) : p.name = m
  BY <1>4, <1>6 DEF ToSet
<1>9. \A p \in ToSet(kept) : p.name \in ToSet(names)
  BY <1>4, <1>6 DEF ToSet
<1> QED BY <1>1, <1>2, <1>5, <1>7, <1>8, <1>9

LEMMA MergedNames ==
  ASSUME NEW a, NEW b, IsList(a), IsList(b)
  PROVE  IsList(a \o b) /\ ToSet(MergeParams(a \o b)) = ToSet(a) \cup ToSet(b)
BY ConcatList, MergeKeepsAll

LEMMA PathParams == ASSUME NEW path \in Seq(Nat) PROVE IsList(ExtractPathParams(path))
<1>1. IsList(path)
  <2>1. PICK n \in Nat : n = Len(path)
    OBVIOUS
  <2>2. path = [i \in 1 .. n |-> path[i]]
    BY <2>1, SeqShape
  <2> QED BY <2>2, ListOf
<1>2. {i \in DOMAIN path : IsPlaceholder(path[i])} \in SUBSET DOMAIN path
  OBVIOUS
<1> QED BY <1>1, <1>2, SelectedInOrder DEF ExtractPathParams

(* Of the entries that describe a placeholder the last one counts.          *)
LEMMA LastOf ==
  ASSUME NEW n \in Nat, NEW T \in SUBSET (1 .. n), T # {}
  PROVE  \E i \in T : \A k \in T : k <= i
<1> DEFINE R == {m \in Nat : \A k \in T : k <= m}
<1>1. n \in R /\ R \subseteq Nat
  OBVIOUS
<1>2. PICK i \in R : \A m \in R : i <= m
  BY <1>1, Least
<1>3. CASE i \in T
  BY <1>2, <1>3
<1>4. CASE i \notin T
  <2>1. PICK k \in T : TRUE
    OBVIOUS
  <2>2. i \in Nat /\ k \in 1 .. n /\ k <= i
    BY <1>2, <2>1
  <2>3. i - 1 \in Nat /\ ~(i <= i - 1)
    BY <2>2
  <2>4. \A m \in T : m <= i /\ m # i /\ m \in Nat
    BY <1>2, <1>4
  <2>5. \A m \in T : m <= i - 1
    BY <2>2, <2>4
  <2>6. i - 1 \in R
    BY <2>3, <2>5
  <2> QED BY <1>2, <2>3, <2>6
<1> QED BY <1>3, <1>4

LEMMA SchemaIs ==
  ASSUME NEW item, NEW op, NEW token, IsParams(item.params), IsParams(op.params)
  PROVE  /\ SchemaOf(token, item, op).example \in Examples
         /\ \A i \in DOMAIN op.params :
              (Describes(op.params[i], token)
                 /\ \A k \in DOMAIN op.params : Describes(op.params[k], token) => k <= i)
              => SchemaOf(token, item, op) = op.params[i]
<1> DEFINE all == item.params \o op.params
           entries == {i \in DOMAIN all : Describes(all[i], token)}
           last == CHOOSE i \in entries : \A k \in entries : k <= i
<1>1. PICK m \in Nat : m = Len(item.params) /\ DOMAIN item.params = 1 .. m /\ IsList(item.params)
  BY ListShape DEF IsParams
<1>2. PICK n \in Nat : n = Len(op.params) /\ DOMAIN op.params = 1 .. n /\ IsList(op.params)
  BY ListShape DEF IsParams
<1>3. IsList(all) /\ ToSet(all) = ToSet(item.params) \cup ToSet(op.params) /\ Len(all) = m + n
  BY <1>1, <1>2, ConcatList
<1>4. DOMAIN all = 1 .. m + n
  BY <1>3, ListShape
<1>5. \A i \in 1 .. n : m + i \in 1 .. m + n /\ all[m + i] = op.params[i]
  <2>1. \A i \in DOMAIN op.params : After(item.params, i) \in DOMAIN all
                                    /\ all[After(item.params, i)] = op.params[i]
    BY <1>1, <1>2, ConcatRight
  <2>2. \A i : After(item.params, i) = m + i
    BY <1>1 DEF After
  <2> HIDE DEF all
  <2> QED BY <1>2, <1>4, <2>1, <2>2
<1>6. SchemaOf(token, item, op) =
        IF entries = {} THEN [example |-> 0, enum |-> FALSE, typed |-> FALSE] ELSE all[last]
  BY DEF SchemaOf
<1>7. \A p \in ToSet(all) : p.example \in Examples
  BY <1>3 DEF IsParams
<1> HIDE DEF all
<1>8. entries # {} => last \in entries /\ \A k \in entries : k <= last
  <2> SUFFICES ASSUME entries # {} PROVE \E i \in entries : \A k \in entries : k <= i
    OBVIOUS
  <2>1. entries \in SUBSET (1 .. m + n) /\ m + n \in Nat
    BY <1>4
  <2> HIDE DEF entries
  <2> QED BY <2>1, LastOf
<1> HIDE DEF last
<1>9. SchemaOf(token, item, op).example \in Examples
  <2>1. CASE entries = {}
    <3>1. 0 \in Examples
      BY DEF Examples, Placeholder
    <3> QED BY <1>6, <2>1, <3>1
  <2>2. CASE entries # {}
    <3>1. last \in DOMAIN all /\ SchemaOf(token, item, op) = all[last]
      BY <1>6, <1>8, <2>2
    <3> QED BY <1>7, <3>1 DEF ToSet
  <2> QED BY <2>1, <2>2
<1>10. ASSUME NEW i \in DOMAIN op.params, Describes(op.params[i], token),
              \A k \in DOMAIN op.params : Describes(op.params[k], token) => k <= i
       PROVE  SchemaOf(token, item, op) = op.params[i]
  <2>1. i \in 1 .. n /\ m + i \in entries
    BY <1>2, <1>4, <1>5, <1>10
  <2>2. last \in entries /\ m + i <= last /\ last \in 1 .. m + n
    BY <1>4, <1>8, <2>1
  <2>3. last - m \in 1 .. n /\ last = m + (last - m)
    BY <2>1, <2>2
  <2>4. all[last] = op.params[last - m]
    BY <1>5, <2>3
  <2>5. Describes(op.params[last - m], token)
    BY <2>2, <2>4
  <2>6. last - m <= i
    BY <1>2, <1>10, <2>3, <2>5
  <2>7. last - m = i
    BY <2>1, <2>2, <2>6
  <2> QED BY <1>6, <2>1, <2>4, <2>7
<1> QED BY <1>9, <1>10

LEMMA SamplesAre ==
  ASSUME NEW schema, schema.example \in Examples
  PROVE  ~IsPlaceholder(SamplePathValue(schema))
         /\ (schema.example # 0 => SamplePathValue(schema) = ByExample(schema.example))
BY DEF SamplePathValue, ByExample, ByEnum, ByType, ByName, IsPlaceholder, Placeholder, Examples

LEMMA OperationsAreDeclared ==
  ASSUME site \in Sites, NEW item \in site.spec.items, NEW op \in item.ops
  PROVE  AsDeclared(FromOperation(site.spec, item, op), item, op)
<1> DEFINE e == FromOperation(site.spec, item, op)
           security == IF op.security = "absent" THEN site.spec.security ELSE op.security
           declared == {p \in ToSet(item.params) \cup ToSet(op.params) : ~p.ref}
           both == {"query", "path"}
           own == NamesIn(item.params, both)
           extra == NamesIn(op.params, both)
           path == ExtractPathParams(item.path)
           shared == NamesIn(item.params, {"header"})
           added == NamesIn(op.params, {"header"})
<1>1. /\ IsItem(item) /\ IsOperation(op) /\ site.spec.security \in Securities /\ op.security \in Securities
      /\ item.path \in Seq(Nat) /\ IsParams(item.params) /\ IsParams(op.params) /\ IsList(op.body)
      /\ IsList(item.params) /\ IsList(op.params)
      /\ NamedAlike(ToSet(item.params) \cup ToSet(op.params))
  BY SiteIs DEF IsDocument, IsItem, IsOperation, IsParams
<1>2. /\ e.params = MergeParams(path \o own \o extra) /\ e.headers = MergeParams(shared \o added)
      /\ e.body = MergeParams(op.body) /\ e.auth = AuthExpectationFor(op.security, site.spec.security)
      /\ e.url = SubstitutePathPlaceholders(item.path, item, op)
  BY DEF FromOperation, Endpoint
<1> HIDE DEF e
<1>3. e.auth = IF security \in {"none", "optional"} THEN "public"
               ELSE IF security = "schemes" THEN "required" ELSE "unknown"
  BY <1>2 DEF AuthExpectationFor, SpecAllowsAnon
<1>4. ((e.auth = "public") <=> (security \in {"none", "optional"}))
      /\ ((e.auth = "required") <=> (security = "schemes"))
  <2> HIDE DEF security
  <2> QED BY <1>3
<1>5. ASSUME NEW p \in declared, p.in = "query" PROVE p.name \in ToSet(e.params)
  <2>1. IsList(own) /\ IsList(extra) /\ IsList(path)
    BY <1>1, NamesInAre, PathParams
  <2>2. IsList(path \o own) /\ ToSet(path \o own) = ToSet(path) \cup ToSet(own)
    BY <2>1, ConcatList
  <2>3. ToSet(e.params) = ToSet(path \o own) \cup ToSet(extra)
    BY <1>2, <2>1, <2>2, MergedNames
  <2>4. Kept(p, both)
    BY <1>5 DEF Kept
  <2>5. p.name \in ToSet(own) \/ p.name \in ToSet(extra)
    BY <1>1, <1>5, <2>4, NamesInAre
  <2> QED BY <2>2, <2>3, <2>5
<1>6. ASSUME NEW p \in declared, p.in = "header" PROVE p.name \in ToSet(e.headers) <=> ~p.credential
  <2>1. IsList(shared) /\ IsList(added)
    BY <1>1, NamesInAre
  <2>2. ToSet(e.headers) = ToSet(shared) \cup ToSet(added)
    BY <1>2, <2>1, MergedNames
  <2>3. ASSUME ~p.credential PROVE p.name \in ToSet(shared) \cup ToSet(added)
    <3>1. Kept(p, {"header"})
      BY <1>6, <2>3 DEF Kept
    <3> QED BY <1>1, <1>6, <3>1, NamesInAre
  <2>4. ASSUME p.name \in ToSet(shared) \cup ToSet(added) PROVE ~p.credential
    <3>1. PICK q \in ToSet(item.params) \cup ToSet(op.params) : Kept(q, {"header"}) /\ q.name = p.name
      BY <1>1, <2>4, NamesInAre
    <3>2. q.in = "header" /\ ~q.credential
      BY <3>1 DEF Kept
    <3>3. q.credential = p.credential
      BY <1>1, <1>6, <3>1, <3>2 DEF NamedAlike
    <3> QED BY <3>2, <3>3
  <2> QED BY <2>2, <2>3, <2>4
<1>7. ToSet(op.body) \subseteq ToSet(e.body)
  BY <1>1, <1>2, MergeKeepsAll
<1>8. ASSUME NEW i \in DOMAIN item.path, IsPlaceholder(item.path[i])
      PROVE  ~IsPlaceholder(e.url[i]) /\ \A v \in OwnExample(op, item.path[i]) : e.url[i] = ByExample(v)
  <2> DEFINE token == item.path[i]
             schema == SchemaOf(token, item, op)
  <2>1. e.url[i] = SamplePathValue(schema)
    BY <1>2, <1>8 DEF SubstitutePathPlaceholders
  <2>2. schema.example \in Examples
    BY <1>1, SchemaIs
  <2>3. ~IsPlaceholder(e.url[i]) /\ (schema.example # 0 => e.url[i] = ByExample(schema.example))
    BY <2>1, <2>2, SamplesAre
  <2>4. ASSUME NEW v \in OwnExample(op, token) PROVE schema.example = v /\ v # 0
    <3>1. PICK k \in DOMAIN op.params : /\ v = op.params[k].example /\ Describes(op.params[k], token)
                                        /\ \A m \in DOMAIN op.params : Describes(op.params[m], token) => m <= k
      BY <2>4 DEF OwnExample
    <3>2. schema = op.params[k]
      BY <1>1, <3>1, SchemaIs
    <3> QED BY <2>4, <3>1, <3>2 DEF OwnExample
  <2> QED BY <2>3, <2>4
<1>9. {p.name : p \in {p \in declared : p.in = "query"}} \subseteq ToSet(e.params)
  BY <1>5
<1>10. \A p \in {p \in declared : p.in = "header"} : p.name \in ToSet(e.headers) <=> ~p.credential
  BY <1>6
<1> QED BY <1>4, <1>7, <1>8, <1>9, <1>10 DEF AsDeclared, e

(* The first endpoint found of an operation's path and method is its own.   *)
LEMMA OperationsComeFirst ==
  ASSUME CrawlTyped, SpecFirst, Done, site.specAt # "none", ~specErr,
         NEW item \in site.spec.items, NEW op \in item.ops
  PROVE  FromOperation(site.spec, item, op) \in Deduplicated(found)
<1> DEFINE E == EndpointsOf(site.spec)
           e == FromOperation(site.spec, item, op)
<1>1. site \in Sites /\ IsDocument(site.spec) /\ IsEndpoints(found)
  BY SiteIs DEF CrawlTyped
<1>2. IsEndpoints(E) /\ ToSet(E) = Operations(site.spec)
      /\ \A i, k \in DOMAIN E : E[i] = E[k] => i = k
  BY <1>1, EndpointsOfSpec
<1>3. Starts(E, found)
  BY DEF Done, SpecFirst
<1>4. e \in Operations(site.spec)
  BY DEF Operations
<1>5. ASSUME NEW f \in Operations(site.spec), Alike(f, e) PROVE f = e
  <2>1. PICK item2 \in site.spec.items : f \in {FromOperation(site.spec, item2, op2) : op2 \in item2.ops}
    BY DEF Operations
  <2>2. PICK op2 \in item2.ops : f = FromOperation(site.spec, item2, op2)
    BY <2>1
  <2>3. f.path = item2.path /\ f.method = op2.method /\ e.path = item.path /\ e.method = op.method
    BY <2>2 DEF FromOperation, Endpoint
  <2>4. item2 = item
    BY <1>1, <1>5, <2>3 DEF Alike, IsDocument
  <2>5. op2 = op
    BY <1>1, <1>5, <2>3, <2>4 DEF Alike, IsDocument, IsItem
  <2> QED BY <2>2, <2>4, <2>5
<1> HIDE DEF E, e
<1>6. PICK i \in DOMAIN E : E[i] = e
  BY <1>2, <1>4 DEF ToSet
<1>7. i \in DOMAIN found /\ found[i] = e
  BY <1>3, <1>6 DEF Starts
<1>8. PICK n \in Nat : DOMAIN E = 1 .. n
  BY <1>2, ListShape DEF IsEndpoints
<1>9. PICK m \in Nat : DOMAIN found = 1 .. m
  BY <1>1, ListShape DEF IsEndpoints
<1>10. ASSUME NEW k \in DOMAIN found, k < i, Alike(found[k], found[i]) PROVE FALSE
  <2>1. k \in DOMAIN E
    BY <1>6, <1>8, <1>9, <1>10
  <2>2. found[k] = E[k] /\ E[k] \in Operations(site.spec)
    BY <1>2, <1>3, <2>1 DEF Starts, ToSet
  <2>3. E[k] = e
    BY <1>5, <1>7, <1>10, <2>2
  <2>4. k = i
    BY <1>2, <1>6, <2>1, <2>3
  <2> QED BY <1>8, <1>10, <2>1, <2>4
<1>11. found[i] \in Deduplicated(found)
  BY <1>1, <1>7, <1>10, FirstIsKept
<1> QED BY <1>7, <1>11 DEF e

LEMMA OperationsAreScanned == ASSUME CrawlTyped, SpecFirst, RankDone PROVE SpecWins
<1> SUFFICES ASSUME Done, site.specAt # "none", ~specErr,
                    NEW item \in site.spec.items, NEW op \in item.ops,
                    ~(site.respect /\ Disallowed(item.path, disallows))
             PROVE  \/ \E e \in ToSet(result) : /\ e.path = item.path /\ e.method = op.method
                                                /\ AsDeclared(e, item, op)
                    \/ /\ site.cap > 0 /\ Len(result) = site.cap
                       /\ \A e \in ToSet(result) : ~Before([path |-> item.path, method |-> op.method], e)
  BY DEF SpecWins
<1>1. PICK e : e = FromOperation(site.spec, item, op)
  OBVIOUS
<1>2. e.path = item.path /\ e.method = op.method
  BY <1>1 DEF FromOperation, Endpoint
<1>3. e \in MayScan
  BY <1>1, <1>2, OperationsComeFirst DEF MayScan
<1>4. AsDeclared(e, item, op)
  BY <1>1, OperationsAreDeclared DEF CrawlTyped
<1>5. PICK k \in DOMAIN Ranked : Ranked[k] = e
  BY <1>3, RankedIs DEF CrawlTyped
<1>6. PICK n \in Nat : /\ n = Len(result) /\ DOMAIN result = 1 .. n /\ IsList(result)
                       /\ \A i \in 1 .. n : i \in DOMAIN Ranked /\ result[i] = Ranked[i]
                       /\ \A j \in DOMAIN Ranked : j \in 1 .. n \/ (n < j /\ n = site.cap /\ site.cap > 0)
  BY ResultIs
<1>7. CASE k \in 1 .. n
  BY <1>2, <1>4, <1>5, <1>6, <1>7 DEF ToSet
<1>8. CASE n < k /\ n = site.cap /\ site.cap > 0
  <2>1. ASSUME NEW i \in 1 .. n, Before([path |-> item.path, method |-> op.method], result[i]) PROVE FALSE
    <3>1. i \in DOMAIN Ranked /\ result[i] = Ranked[i]
      BY <1>6
    <3>2. k \in Nat
      BY <1>5, RankedIs DEF CrawlTyped
    <3>3. i < k
      BY <1>8, <3>2
    <3>4. Before(result[i], e) /\ result[i] \in MayScan
      BY <1>5, <3>1, <3>3, RankedIs DEF CrawlTyped
    <3>5. Before(e, result[i])
      BY <1>2, <2>1 DEF Before
    <3>6. IsKey(e) /\ IsKey(result[i])
      BY <1>3, <3>4, RankedIs DEF CrawlTyped
    <3>7. Before(e, e)
      BY <3>4, <3>5, <3>6, BeforeIsAnOrder
    <3> QED BY <3>6, <3>7, BeforeIsAnOrder
  <2> QED BY <1>6, <1>8, <2>1 DEF ToSet
<1> QED BY <1>5, <1>6, <1>7, <1>8

-----------------------------------------------------------------------------
(* --- the walk along the links -------------------------------------------- *)
Late == {"words", "rank", "done"}
Within(page) == page.depth \in Nat /\ page.depth < site.depth /\ page.url \in Near(site.links)[page.depth]

(* A page is queued once, opened once, and never further away than counted. *)
WalkHeld ==
  /\ failures \in Nat
  /\ source \notin Late \cup {"links"} => opened = {}
  /\ \A page \in opened : Within(page)
  /\ \A page, other \in opened : page.url = other.url => page = other
  /\ source = "links" =>
       /\ IsList(queue)
       /\ \A page \in ToSet(queue) : Within(page) /\ page.url \in seen
       /\ \A i, k \in DOMAIN queue : queue[i].url = queue[k].url => i = k
       /\ \A page \in opened : page.url \in seen /\ \A next \in ToSet(queue) : next.url # page.url

LEMMA Links ==
  ASSUME NEW pages, NEW u
  PROVE  u \in LinkedFrom(site.links, pages) <=> \E v \in pages : u \in ToSet(LinksOf(v.path)) /\ u.host = "own"
<1>1. \A v : v.path \notin DOMAIN site.links => ToSet(LinksOf(v.path)) = {}
  BY EmptyList DEF LinksOf
<1>2. \A v : v.path \in DOMAIN site.links => LinksOf(v.path) = site.links[v.path]
  BY DEF LinksOf
<1> QED BY <1>1, <1>2 DEF LinkedFrom

LEMMA QueuedIs ==
  ASSUME NEW rest, IsList(rest), NEW urls, IsList(urls), NEW depth
  PROVE  /\ IsList(Queued(rest, urls, depth))
         /\ \A i \in DOMAIN rest : i \in DOMAIN Queued(rest, urls, depth) /\ Queued(rest, urls, depth)[i] = rest[i]
         /\ \A i \in DOMAIN Queued(rest, urls, depth) :
              \/ i \in DOMAIN rest /\ Queued(rest, urls, depth)[i] = rest[i]
              \/ /\ depth < site.depth /\ i \notin DOMAIN rest
                 /\ \E k \in DOMAIN urls : i = After(rest, k) /\ Queued(rest, urls, depth)[i] = [url |-> urls[k], depth |-> depth]
         /\ depth < site.depth =>
              \A u \in ToSet(urls) : [url |-> u, depth |-> depth] \in ToSet(Queued(rest, urls, depth))
<1>1. CASE ~(depth < site.depth)
  BY <1>1 DEF Queued
<1>2. CASE depth < site.depth
  <2>1. PICK more : more = PagesAt(urls, depth)
    OBVIOUS
  <2>2. PICK q : q = rest \o more /\ Queued(rest, urls, depth) = q
    BY <1>2, <2>1 DEF Queued
  <2>3. PICK n \in Nat : n = Len(urls) /\ DOMAIN urls = 1 .. n
    BY ListShape
  <2>4. DOMAIN more = 1 .. n /\ \A i \in 1 .. n : more[i] = [url |-> urls[i], depth |-> depth]
    BY <2>1, <2>3 DEF PagesAt
  <2>5. more = [i \in 1 .. n |-> more[i]]
    BY <2>1, <2>3 DEF PagesAt
  <2>6. IsList(more) /\ Len(more) = n
    BY <2>4, <2>5, ListOf
  <2>7. IsList(q) /\ Len(q) = Len(rest) + Len(more) /\ ToSet(q) = ToSet(rest) \cup ToSet(more)
        /\ \A i \in DOMAIN rest : i \in DOMAIN q /\ q[i] = rest[i]
    <3>1. IsList(q) /\ ToSet(q) = ToSet(rest) \cup ToSet(more)
      BY <2>2, <2>6, ConcatList
    <3>2. \A i \in DOMAIN rest : i \in DOMAIN q /\ q[i] = rest[i]
      BY <2>2, <2>6, ConcatList
    <3>3. Len(q) = Len(rest) + Len(more)
      BY <2>2, <2>6, ConcatList
    <3> QED BY <3>1, <3>2, <3>3
  <2>8. \A i \in DOMAIN more : After(rest, i) \in DOMAIN q /\ q[After(rest, i)] = more[i]
    BY <2>2, <2>6, ConcatRight
  <2>9. PICK m \in Nat : m = Len(rest) /\ DOMAIN rest = 1 .. m
    BY ListShape
  <2>10. DOMAIN q = 1 .. m + n
    BY <2>6, <2>7, <2>9, ListShape
  <2>11. \A i \in 1 .. m + n : i \in 1 .. m \/ (i \notin 1 .. m /\ \E k \in 1 .. n : i = m + k)
    <3> SUFFICES ASSUME NEW i \in 1 .. m + n, ~(i \in 1 .. m) PROVE \E k \in 1 .. n : i = m + k
      OBVIOUS
    <3>1. i - m \in 1 .. n /\ i = m + (i - m)
      OBVIOUS
    <3> QED BY <3>1
  <2>12. \A i : After(rest, i) = m + i
    BY <2>9 DEF After
  <2>13. ASSUME NEW i \in DOMAIN q
         PROVE  \/ i \in DOMAIN rest /\ q[i] = rest[i]
                \/ /\ i \notin DOMAIN rest
                   /\ \E k \in DOMAIN urls : i = After(rest, k) /\ q[i] = [url |-> urls[k], depth |-> depth]
    <3>1. CASE i \in 1 .. m
      BY <2>7, <2>9, <3>1
    <3>2. ASSUME i \notin 1 .. m, NEW k \in 1 .. n, i = m + k
          PROVE  i \notin DOMAIN rest /\ i = After(rest, k) /\ q[i] = [url |-> urls[k], depth |-> depth]
      <4>1. i = After(rest, k)
        BY <2>12, <3>2
      <4> QED BY <2>4, <2>8, <2>9, <3>2, <4>1
    <3> QED BY <2>3, <2>10, <2>11, <3>1, <3>2
  <2>14. \A u \in ToSet(urls) : [url |-> u, depth |-> depth] \in ToSet(q)
    BY <2>3, <2>4, <2>7, ZenonT(40) DEF ToSet
  <2> QED BY <1>2, <2>2, <2>7, <2>13, <2>14
<1> QED BY <1>1, <1>2

LEMMA Elsewhere ==
  ASSUME [Next]_vars, ~ReadPage, ~EndLinks, ~HomeFails, ~EndScripts
  PROVE  /\ opened' = opened
         /\ source = "links" => UNCHANGED <<source, queue, seen, batch>>
         /\ source # "links" => source' # "links"
         /\ source' \notin Late \cup {"links"} => source \notin Late \cup {"links"}
         /\ source' \in Late => source \in Late \/ ~site.target
<1>1. CASE ReadSpec
  BY <1>1 DEF ReadSpec, AfterSpec, Enter, Late
<1>2. CASE ReadRobots \/ RobotsFails \/ EndSitemaps \/ ReadHome \/ EndWords
  BY <1>2 DEF ReadRobots, RobotsFails, EndSitemaps, ReadHome, EndWords, Enter, progress, Late
<1>3. CASE ReadSitemap \/ SitemapFails \/ ReadScript \/ AskWord \/ Rank \/ Cancel
  BY <1>3 DEF ReadSitemap, SitemapFails, SitemapsLeft, ReadScript, AskWord, Rank, Cancel, progress, Late
<1>4. CASE UNCHANGED vars
  BY <1>4 DEF vars, progress, Late
<1> QED BY <1>1, <1>2, <1>3, <1>4 DEF Next, Work

Quiet == site.cap = 0 /\ failures = 0 /\ ~cancelled
LEMMA QuietSoFar ==
  ASSUME [Next]_vars, failures \in Nat
  PROVE  failures' \in Nat /\ site' = site /\ (Quiet' => Quiet)
<1>1. ASSUME UNCHANGED <<site, cancelled>>, failures' = failures \/ failures' = failures + 1
      PROVE  failures' \in Nat /\ site' = site /\ (Quiet' => Quiet)
  BY <1>1 DEF Quiet
<1>2. ASSUME NEW there, NotFetched(there) PROVE failures' = failures \/ failures' = failures + 1
  BY <1>2 DEF NotFetched
<1>3. ASSUME NEW there, Fetched(there) PROVE failures' = failures
  BY <1>3 DEF Fetched
<1>4. CASE ReadSpec \/ ReadRobots \/ RobotsFails \/ ReadSitemap \/ SitemapFails \/ EndSitemaps
  <2>1. UNCHANGED <<site, cancelled>>
    BY <1>4 DEF ReadSpec, ReadRobots, RobotsFails, ReadSitemap, SitemapFails, EndSitemaps
  <2>2. failures' = failures \/ failures' = failures + 1
    BY <1>2, <1>3, <1>4 DEF ReadSpec, ReadRobots, RobotsFails, ReadSitemap, SitemapFails, EndSitemaps
  <2> QED BY <1>1, <2>1, <2>2
<1>5. CASE ReadHome \/ HomeFails \/ ReadScript \/ EndScripts \/ ReadPage \/ EndLinks
  <2>1. UNCHANGED <<site, cancelled>>
    BY <1>5 DEF ReadHome, HomeFails, ReadScript, EndScripts, ReadPage, EndLinks
  <2>2. failures' = failures \/ failures' = failures + 1
    BY <1>2, <1>3, <1>5 DEF ReadHome, HomeFails, ReadScript, EndScripts, ReadPage, EndLinks
  <2> QED BY <1>1, <2>1, <2>2
<1>6. CASE AskWord \/ EndWords \/ Rank
  <2>1. UNCHANGED <<site, cancelled>>
    BY <1>6 DEF AskWord, EndWords, Rank
  <2>2. failures' = failures \/ failures' = failures + 1
    BY <1>2, <1>3, <1>6 DEF AskWord, EndWords, Rank
  <2> QED BY <1>1, <2>1, <2>2
<1>7. CASE Cancel
  BY <1>7 DEF Cancel, Quiet
<1>8. CASE UNCHANGED vars
  BY <1>8 DEF vars, Quiet
<1> QED BY <1>4, <1>5, <1>6, <1>7, <1>8 DEF Next, Work

LEMMA OnePage ==
  ASSUME NEW page, NEW q, q = <<page>>
  PROVE  IsList(q) /\ DOMAIN q = {1} /\ q[1] = page /\ ToSet(q) = {page}
<1>1. DOMAIN q = 1 .. 1 /\ q = [i \in 1 .. 1 |-> q[i]] /\ q[1] = page /\ 1 \in Nat
  OBVIOUS
<1>2. IsList(q)
  BY <1>1, ListOf
<1>3. DOMAIN q = {1}
  BY <1>1
<1> QED BY <1>1, <1>2, <1>3 DEF ToSet

(* The walk starts at the home page, with nothing opened.                   *)
LEMMA WalkStarts ==
  ASSUME CrawlTyped, WalkHeld, HomeFails \/ EndScripts
  PROVE  /\ opened = {} /\ opened' = {} /\ source' \in Late \cup {"links"}
         /\ source' = "links" => /\ site.depth > 0 /\ seen' = {Home} /\ batch' = << >>
                                 /\ queue' = <<[url |-> Home, depth |-> 0]>>
         /\ source' \in Late => ~(site.depth > 0)
<1>1. source \notin Late \cup {"links"} /\ opened' = opened
  BY DEF HomeFails, EndScripts, Late, progress
<1>2. opened = {}
  BY <1>1 DEF WalkHeld
<1>3. PICK more : AfterScripts(more)
  BY DEF HomeFails, EndScripts
<1>4. CASE site.depth > 0
  <2>1. Enter("links", <<[url |-> Home, depth |-> 0]>>, more)
    BY <1>3, <1>4 DEF AfterScripts
  <2> QED BY <1>1, <1>2, <1>4, <2>1 DEF Enter, Late
<1>5. CASE ~(site.depth > 0)
  <2>1. Enter("words", site.words, more)
    BY <1>3, <1>5 DEF AfterScripts
  <2> QED BY <1>1, <1>2, <1>5, <2>1 DEF Enter, Late
<1> QED BY <1>4, <1>5

(* Reading a page: what it opens, what it adds, and what it finds.          *)
LEMMA ReadingAPage ==
  ASSUME CrawlTyped, WalkHeld, ReadPage
  PROVE  \E page, urls :
           /\ page = queue[1] /\ queue # << >> /\ page \in ToSet(queue) /\ Within(page) /\ opened' = opened \cup {page}
           /\ source = "links" /\ source' = "links" /\ IsPages(urls)
           /\ ToSet(urls) \subseteq Fresh(LinksOf(page.url.path))
           /\ \A i, k \in DOMAIN urls : urls[i] = urls[k] => i = k
           /\ queue' = Queued(Tail(queue), urls, page.depth + 1) /\ seen' = seen \cup ToSet(urls)
           /\ (batch' = batch \o AllOf([i \in DOMAIN urls |-> urls[i].path]))
           /\ Quiet' => ToSet(urls) = Fresh(LinksOf(page.url.path))
<1>1. source = "links" /\ source' = "links" /\ queue # << >> /\ ~AtCap /\ site \in Sites /\ ~cancelled
      /\ cancelled' = cancelled /\ site' = site
  BY DEF ReadPage, CrawlTyped
<1>2. PICK page : page = Head(queue)
  OBVIOUS
<1>3. IsList(queue) /\ page = queue[1] /\ page \in ToSet(queue)
  BY <1>1, <1>2, TailList DEF WalkHeld
<1>4. Within(page) /\ opened' = opened \cup {page}
  BY <1>1, <1>2, <1>3 DEF WalkHeld, ReadPage
<1>5. PICK links : links = LinksOf(page.url.path) /\ IsPages(links)
  BY <1>1, LinksAre
<1>6. CASE Fetched(page.url.path \in DOMAIN site.links)
           /\ seen' = seen \cup ToSet(Followed(links))
           /\ batch' = batch \o AllOf([i \in DOMAIN Followed(links) |-> Followed(links)[i].path])
           /\ queue' = Queued(Tail(queue), Followed(links), page.depth + 1)
  <2>1. PICK urls : urls = Followed(links)
    OBVIOUS
  <2>2. /\ IsPages(urls) /\ ToSet(urls) \subseteq Fresh(links)
        /\ \A i, k \in DOMAIN urls : urls[i] = urls[k] => i = k
        /\ site.cap = 0 => ToSet(urls) = Fresh(links)
    BY <1>1, <1>5, <2>1, FollowedAre
  <2>3. Quiet' => site.cap = 0
    BY <1>1 DEF Quiet
  <2> QED BY <1>1, <1>3, <1>4, <1>5, <1>6, <2>1, <2>2, <2>3, ZenonT(40)
<1>7. CASE NotFetched(page.url.path \in DOMAIN site.links) /\ queue' = Tail(queue) /\ UNCHANGED <<seen, batch>>
  <2>1. IsPages(<< >>) /\ ToSet(<< >>) = {} /\ DOMAIN << >> = {}
    BY NoEndpoints, EmptyList
  <2>2. Queued(Tail(queue), << >>, page.depth + 1) = Tail(queue)
    <3>1. PICK t : t = Tail(queue) /\ IsList(t)
      BY <1>1, <1>3, TailList
    <3>2. PagesAt(<< >>, page.depth + 1) = << >>
      BY <2>1 DEF PagesAt
    <3>3. t \o << >> = t
      BY <3>1 DEF IsList
    <3> QED BY <3>1, <3>2, <3>3 DEF Queued
  <2>3. batch \o AllOf([i \in DOMAIN << >> |-> << >>[i].path]) = batch
    <3>1. [i \in DOMAIN << >> |-> << >>[i].path] = << >>
      BY <2>1
    <3>2. AllOf(<< >>) = << >>
      BY <2>1 DEF AllOf
    <3>3. IsList(batch)
      BY <1>1 DEF CrawlTyped, IsEndpoints
    <3>4. batch \o << >> = batch
      BY <3>3 DEF IsList
    <3> QED BY <3>1, <3>2, <3>4
  <2>4. ASSUME Quiet' PROVE Fresh(links) = {}
    <3>1. failures' = 0 /\ failures \in Nat
      BY <2>4 DEF Quiet, WalkHeld
    <3>2. page.url.path \notin DOMAIN site.links
      BY <1>1, <1>7, <3>1 DEF NotFetched
    <3>3. links = << >>
      BY <1>5, <3>2 DEF LinksOf
    <3> QED BY <2>1, <3>3 DEF Fresh
  <2>5. \A i, k \in DOMAIN << >> : << >>[i] = << >>[k] => i = k
    BY <2>1
  <2> QED BY <1>1, <1>3, <1>4, <1>5, <1>7, <2>1, <2>2, <2>3, <2>4, <2>5
<1> QED BY <1>2, <1>5, <1>6, <1>7 DEF ReadPage

LEMMA WalkStays ==
  ASSUME CrawlTyped, WalkHeld, [Next]_vars
  PROVE  WalkHeld'
<1>1. failures' \in Nat /\ site' = site
  BY QuietSoFar DEF WalkHeld
<1>2. \A page : Within(page)' <=> Within(page)
  BY <1>1 DEF Within
<1>3. CASE ~ReadPage /\ ~EndLinks /\ ~HomeFails /\ ~EndScripts
  <2>1. /\ opened' = opened /\ (source = "links" => UNCHANGED <<source, queue, seen>>)
        /\ (source # "links" => source' # "links")
        /\ (source' \notin Late \cup {"links"} => source \notin Late \cup {"links"})
    BY <1>3, Elsewhere
  <2>2. source' = "links" => source = "links"
    BY <2>1
  <2>3. \A page \in opened' : Within(page)'
    BY <1>2, <2>1 DEF WalkHeld
  <2>4. source' \notin Late \cup {"links"} => opened' = {}
    BY <2>1 DEF WalkHeld
  <2>5. \A page, other \in opened' : page.url = other.url => page = other
    BY <2>1 DEF WalkHeld
  <2>6. ASSUME source' = "links"
        PROVE  /\ IsList(queue')
               /\ \A page \in ToSet(queue') : Within(page)' /\ page.url \in seen'
               /\ \A i, k \in DOMAIN queue' : queue'[i].url = queue'[k].url => i = k
               /\ \A page \in opened' : page.url \in seen' /\ \A next \in ToSet(queue') : next.url # page.url
    BY <1>2, <2>1, <2>2, <2>6 DEF WalkHeld
  <2> QED BY <1>1, <2>3, <2>4, <2>5, <2>6 DEF WalkHeld
<1>4. CASE HomeFails \/ EndScripts
  <2>1. opened' = {} /\ source' \in Late \cup {"links"}
    BY <1>4, WalkStarts
  <2>2. ASSUME source' = "links"
        PROVE  /\ IsList(queue')
               /\ \A page \in ToSet(queue') : Within(page)' /\ page.url \in seen'
               /\ \A i, k \in DOMAIN queue' : queue'[i].url = queue'[k].url => i = k
    <3>1. PICK page : page = [url |-> Home, depth |-> 0]
      OBVIOUS
    <3>2. queue' = <<page>> /\ seen' = {Home} /\ site.depth > 0
      BY <1>4, <2>2, <3>1, WalkStarts
    <3>3. IsList(queue') /\ DOMAIN queue' = {1} /\ ToSet(queue') = {page}
      BY <3>2, OnePage
    <3>4. site.depth \in Nat
      BY SiteIs DEF CrawlTyped
    <3>5. page.url = Home /\ page.depth = 0
      BY <3>1
    <3>6. Within(page)
      BY <3>2, <3>4, <3>5, NearIs DEF Within
    <3> QED BY <1>2, <3>2, <3>3, <3>5, <3>6
  <2> QED BY <1>1, <2>1, <2>2 DEF WalkHeld
<1>5. CASE EndLinks
  <2>1. opened' = opened /\ source' = "words"
    BY <1>5 DEF EndLinks, Enter, progress
  <2>2. \A page \in opened' : Within(page)'
    BY <1>2, <2>1 DEF WalkHeld
  <2>3. \A page, other \in opened' : page.url = other.url => page = other
    BY <2>1 DEF WalkHeld
  <2> QED BY <1>1, <2>1, <2>2, <2>3 DEF WalkHeld, Late
<1>6. CASE ReadPage
  <2>1. PICK page, urls :
           /\ page = queue[1] /\ queue # << >> /\ page \in ToSet(queue) /\ Within(page) /\ opened' = opened \cup {page}
           /\ source = "links" /\ source' = "links" /\ IsPages(urls)
           /\ ToSet(urls) \subseteq Fresh(LinksOf(page.url.path))
           /\ \A i, k \in DOMAIN urls : urls[i] = urls[k] => i = k
           /\ queue' = Queued(Tail(queue), urls, page.depth + 1) /\ seen' = seen \cup ToSet(urls)
    BY <1>6, ReadingAPage
  <2>2. PICK t : t = Tail(queue) /\ IsList(t) /\ IsList(queue) /\ page = Head(queue)
                 /\ (\A i \in DOMAIN t : i + 1 \in DOMAIN queue /\ t[i] = queue[i + 1])
                 /\ ToSet(queue) = {page} \cup ToSet(t) /\ 1 \in DOMAIN queue
    BY <2>1, TailList DEF WalkHeld
  <2>3. PICK d \in Nat : d = page.depth /\ d + 1 \in Nat /\ d < site.depth
    BY <2>1 DEF Within
  <2>4. \A u \in ToSet(urls) : u \in Near(site.links)[d + 1] /\ u \notin seen
    <3> SUFFICES ASSUME NEW u \in ToSet(urls) PROVE u \in Near(site.links)[d + 1] /\ u \notin seen
      OBVIOUS
    <3>1. u \in ToSet(LinksOf(page.url.path)) /\ u.host = "own" /\ u \notin seen
      BY <2>1 DEF Fresh
    <3>2. page.url \in Near(site.links)[d]
      BY <2>1, <2>3 DEF Within
    <3>3. u \in LinkedFrom(site.links, Near(site.links)[d])
      BY <3>1, <3>2, Links
    <3>4. Near(site.links)[d + 1] = Near(site.links)[d] \cup LinkedFrom(site.links, Near(site.links)[d])
      BY NearIs
    <3> QED BY <3>1, <3>3, <3>4
  <2>5. PICK q : q = queue' /\ q = Queued(t, urls, d + 1)
    BY <2>1, <2>2, <2>3
  <2>6. /\ IsList(q)
        /\ \A i \in DOMAIN q : \/ i \in DOMAIN t /\ q[i] = t[i]
                               \/ /\ d + 1 < site.depth /\ i \notin DOMAIN t
                                  /\ \E k \in DOMAIN urls : i = After(t, k) /\ q[i] = [url |-> urls[k], depth |-> d + 1]
    <3>1. PICK far : far = d + 1
      OBVIOUS
    <3>2. IsList(t) /\ IsList(urls) /\ q = Queued(t, urls, far)
      BY <2>1, <2>2, <2>5, <3>1 DEF IsPages
    <3>3. /\ IsList(q)
          /\ \A i \in DOMAIN q : \/ i \in DOMAIN t /\ q[i] = t[i]
                                 \/ /\ far < site.depth /\ i \notin DOMAIN t
                                    /\ \E k \in DOMAIN urls : i = After(t, k) /\ q[i] = [url |-> urls[k], depth |-> far]
      BY <3>2, QueuedIs
    <3> QED BY <3>1, <3>3
  <2>7. \A i \in DOMAIN t : t[i] \in ToSet(queue) /\ t[i] \in ToSet(t)
    BY <2>2 DEF ToSet
  <2>8. \A i \in DOMAIN urls : urls[i] \in ToSet(urls)
    BY DEF ToSet
  <2>9. ASSUME NEW i \in DOMAIN q
        PROVE  Within(q[i]) /\ q[i].url \in seen' /\ (q[i].url \in ToSet(urls) \/ (q[i] \in ToSet(t) /\ q[i].url \in seen))
    <3>1. CASE i \in DOMAIN t /\ q[i] = t[i]
      BY <2>1, <2>7, <3>1 DEF WalkHeld
    <3>2. ASSUME d + 1 < site.depth, NEW k \in DOMAIN urls, q[i] = [url |-> urls[k], depth |-> d + 1]
          PROVE  Within(q[i]) /\ q[i].url \in ToSet(urls)
      <4>1. q[i].url = urls[k] /\ q[i].depth = d + 1
        BY <3>2
      <4> QED BY <2>3, <2>4, <2>8, <3>2, <4>1 DEF Within
    <3> QED BY <2>1, <2>6, <3>1, <3>2
  <2>10. \A i \in DOMAIN t : page.url # t[i].url
    <3> SUFFICES ASSUME NEW i \in DOMAIN t, page.url = t[i].url PROVE FALSE
      OBVIOUS
    <3>1. i + 1 \in DOMAIN queue /\ queue[i + 1].url = queue[1].url
      BY <2>1, <2>2
    <3>2. i + 1 = 1
      BY <2>1, <2>2, <3>1 DEF WalkHeld
    <3>3. i \in Nat /\ i # 0
      BY <2>2, ListShape
    <3> QED BY <3>2, <3>3
  <2>11. ASSUME NEW i \in DOMAIN q, NEW k \in DOMAIN q, q[i].url = q[k].url PROVE i = k
    <3>1. CASE i \in DOMAIN t /\ q[i] = t[i] /\ k \in DOMAIN t /\ q[k] = t[k]
      <4>1. i + 1 \in DOMAIN queue /\ k + 1 \in DOMAIN queue /\ queue[i + 1].url = queue[k + 1].url
        BY <2>2, <2>11, <3>1
      <4>2. i + 1 = k + 1
        BY <2>1, <4>1 DEF WalkHeld
      <4>3. i \in Nat /\ k \in Nat
        BY <2>2, <3>1, ListShape
      <4> QED BY <4>2, <4>3
    <3>2. ASSUME NEW j \in DOMAIN t, NEW l \in DOMAIN urls, t[j].url = urls[l] PROVE FALSE
      BY <2>1, <2>4, <2>7, <2>8, <3>2 DEF WalkHeld
    <3>3. ASSUME NEW j \in DOMAIN urls, NEW l \in DOMAIN urls, i = After(t, j), k = After(t, l), urls[j] = urls[l]
          PROVE  i = k
      BY <2>1, <3>3
    <3>4. (\E j \in DOMAIN urls : i = After(t, j) /\ q[i].url = urls[j]) \/ (i \in DOMAIN t /\ q[i] = t[i])
      BY <2>6
    <3>5. (\E j \in DOMAIN urls : k = After(t, j) /\ q[k].url = urls[j]) \/ (k \in DOMAIN t /\ q[k] = t[k])
      BY <2>6
    <3> QED BY <2>11, <3>1, <3>2, <3>3, <3>4, <3>5
  <2>12. ASSUME NEW p \in opened' PROVE p.url \in seen' /\ \A i \in DOMAIN q : q[i].url # p.url
    <3>1. p = page \/ (p \in opened /\ p.url \in seen /\ \A next \in ToSet(queue) : next.url # p.url)
      BY <2>1, <2>12 DEF WalkHeld
    <3>2. page.url \in seen
      BY <2>1 DEF WalkHeld
    <3>3. ASSUME NEW i \in DOMAIN q, q[i].url = p.url PROVE FALSE
      <4>1. q[i] \in ToSet(t) /\ q[i].url \in seen
        BY <2>4, <2>9, <3>1, <3>2, <3>3
      <4>2. PICK j \in DOMAIN t : q[i] = t[j]
        BY <4>1 DEF ToSet
      <4> QED BY <2>7, <2>10, <3>1, <3>3, <4>2
    <3> QED BY <2>1, <3>1, <3>2, <3>3
  <2>13. \A p \in opened' : Within(p)'
    BY <1>2, <2>1 DEF WalkHeld
  <2>14. \A p, other \in opened' : p.url = other.url => p = other
    <3>1. \A p \in opened : p.url # page.url
      BY <2>1 DEF WalkHeld
    <3> QED BY <2>1, <3>1 DEF WalkHeld
  <2>15. \A p \in ToSet(q) : Within(p)' /\ p.url \in seen'
    BY <1>2, <2>9 DEF ToSet
  <2>16. \A p \in opened' : p.url \in seen' /\ \A next \in ToSet(q) : next.url # p.url
    BY <2>12 DEF ToSet
  <2>17. /\ IsList(queue')
         /\ \A p \in ToSet(queue') : Within(p)' /\ p.url \in seen'
         /\ \A i, k \in DOMAIN queue' : queue'[i].url = queue'[k].url => i = k
         /\ \A p \in opened' : p.url \in seen' /\ \A next \in ToSet(queue') : next.url # p.url
    BY <2>5, <2>6, <2>11, <2>15, <2>16
  <2> QED BY <1>1, <2>1, <2>13, <2>14, <2>17 DEF WalkHeld, Late
<1> QED BY <1>3, <1>4, <1>5, <1>6

-----------------------------------------------------------------------------
(* --- an undisturbed walk finds every page within the depth ---------------- *)
(* The queue holds pages of one depth, then pages of the next one.          *)
WalkOrdered ==
  source = "links" =>
    /\ \A i, k \in DOMAIN queue : i < k => queue[i].depth <= queue[k].depth
    /\ \A i \in DOMAIN queue : queue[i].depth <= queue[1].depth + 1
    /\ queue # << >> => \A page \in opened : page.depth <= queue[1].depth

LEMMA WalkStaysOrdered ==
  ASSUME CrawlTyped, WalkHeld, WalkOrdered, [Next]_vars
  PROVE  WalkOrdered'
<1> SUFFICES ASSUME source' = "links"
             PROVE  /\ \A i, k \in DOMAIN queue' : i < k => queue'[i].depth <= queue'[k].depth
                    /\ \A i \in DOMAIN queue' : queue'[i].depth <= queue'[1].depth + 1
                    /\ queue' # << >> => \A page \in opened' : page.depth <= queue'[1].depth
  BY DEF WalkOrdered
<1>1. CASE ~ReadPage /\ ~EndLinks /\ ~HomeFails /\ ~EndScripts
  <2>1. source = "links" /\ queue' = queue /\ opened' = opened
    BY <1>1, Elsewhere
  <2> QED BY <2>1 DEF WalkOrdered
<1>2. CASE HomeFails \/ EndScripts
  <2>1. PICK page : page = [url |-> Home, depth |-> 0]
    OBVIOUS
  <2>2. queue' = <<page>> /\ opened' = {}
    BY <1>2, <2>1, WalkStarts
  <2>3. DOMAIN queue' = {1} /\ queue'[1] = page /\ page.depth = 0
    BY <2>1, <2>2, OnePage
  <2> QED BY <2>2, <2>3
<1>3. CASE EndLinks
  BY <1>3 DEF EndLinks, Enter
<1>4. CASE ReadPage
  <2>1. PICK page, urls :
           /\ page = queue[1] /\ queue # << >> /\ page \in ToSet(queue) /\ Within(page) /\ opened' = opened \cup {page}
           /\ source = "links" /\ IsPages(urls)
           /\ queue' = Queued(Tail(queue), urls, page.depth + 1)
    BY <1>4, ReadingAPage
  <2>2. PICK d \in Nat : d = page.depth
    BY <2>1 DEF Within
  <2>3. PICK far \in Nat : far = d + 1
    OBVIOUS
  <2>4. PICK t : t = Tail(queue) /\ IsList(t) /\ IsList(queue) /\ page = Head(queue)
                 /\ (\A i \in DOMAIN t : i + 1 \in DOMAIN queue /\ t[i] = queue[i + 1])
                 /\ ToSet(queue) = {page} \cup ToSet(t) /\ 1 \in DOMAIN queue
    BY <2>1, TailList DEF WalkHeld
  <2>5. PICK m \in Nat : DOMAIN t = 1 .. m /\ m = Len(t)
    BY <2>4, ListShape
  <2>6. PICK q : q = queue' /\ q = Queued(t, urls, far)
    BY <2>1, <2>2, <2>3, <2>4
  <2>7. /\ IsList(q)
        /\ \A i \in DOMAIN t : i \in DOMAIN q /\ q[i] = t[i]
        /\ \A i \in DOMAIN q : \/ i \in DOMAIN t /\ q[i] = t[i]
                               \/ /\ far < site.depth /\ i \notin DOMAIN t
                                  /\ \E k \in DOMAIN urls : i = After(t, k) /\ q[i] = [url |-> urls[k], depth |-> far]
    <3>1. IsList(t) /\ IsList(urls) /\ q = Queued(t, urls, far)
      BY <2>1, <2>4, <2>6 DEF IsPages
    <3> QED BY <3>1, QueuedIs
  <2>8. PICK n \in Nat : DOMAIN q = 1 .. n /\ n = Len(q)
    BY <2>7, ListShape
  <2>9. \A i \in 1 .. m : t[i].depth \in Nat /\ d <= t[i].depth /\ t[i].depth <= far
    <3> SUFFICES ASSUME NEW i \in 1 .. m PROVE t[i].depth \in Nat /\ d <= t[i].depth /\ t[i].depth <= far
      OBVIOUS
    <3>1. i + 1 \in DOMAIN queue /\ t[i] = queue[i + 1] /\ 1 < i + 1
      BY <2>4, <2>5
    <3>2. t[i] \in ToSet(queue)
      BY <3>1 DEF ToSet
    <3>3. t[i].depth \in Nat
      BY <2>1, <3>2 DEF WalkHeld, Within
    <3>4. queue[1].depth <= queue[i + 1].depth /\ queue[i + 1].depth <= queue[1].depth + 1
      BY <2>1, <2>4, <3>1 DEF WalkOrdered
    <3> QED BY <2>1, <2>2, <2>3, <3>1, <3>3, <3>4
  <2>10. \A i \in 1 .. n : (i \in 1 .. m /\ q[i] = t[i]) \/ (i \notin 1 .. m /\ q[i].depth = far)
    BY <2>5, <2>7, <2>8
  <2>11. \A i \in 1 .. n : q[i].depth \in Nat /\ d <= q[i].depth /\ q[i].depth <= far
    BY <2>3, <2>9, <2>10
  <2>12. ASSUME NEW i \in 1 .. n, NEW k \in 1 .. n, i < k PROVE q[i].depth <= q[k].depth
    <3>1. CASE k \in 1 .. m
      <4>1. i \in 1 .. m /\ q[i] = t[i] /\ q[k] = t[k]
        BY <2>10, <2>12, <3>1
      <4>2. i + 1 \in DOMAIN queue /\ k + 1 \in DOMAIN queue /\ t[i] = queue[i + 1] /\ t[k] = queue[k + 1]
            /\ i + 1 < k + 1
        BY <2>4, <2>5, <2>12, <3>1, <4>1
      <4>3. queue[i + 1].depth <= queue[k + 1].depth
        BY <2>1, <4>2 DEF WalkOrdered
      <4> QED BY <4>1, <4>2, <4>3
    <3>2. CASE k \notin 1 .. m
      <4>1. q[k].depth = far
        BY <2>10, <3>2
      <4> QED BY <2>11, <4>1
    <3> QED BY <3>1, <3>2
  <2>13. ASSUME NEW i \in 1 .. n PROVE q[i].depth <= q[1].depth + 1
    <3>1. 1 \in 1 .. n
      BY <2>13
    <3>2. d <= q[1].depth /\ q[1].depth \in Nat /\ q[i].depth <= far /\ q[i].depth \in Nat
      BY <2>11, <3>1
    <3> QED BY <2>3, <3>2
  <2>14. ASSUME q # << >>, NEW p \in opened' PROVE p.depth <= q[1].depth
    <3>1. 1 \in 1 .. n
      <4>1. 1 \in DOMAIN q
        BY <2>7, <2>14, TailList
      <4> QED BY <2>8, <4>1
    <3>2. d <= q[1].depth /\ q[1].depth \in Nat
      BY <2>11, <3>1
    <3>3. p.depth \in Nat /\ p.depth <= d
      <4>1. CASE p = page
        BY <2>2, <4>1
      <4>2. CASE p \in opened
        BY <2>1, <2>2, <4>2 DEF WalkHeld, WalkOrdered, Within
      <4> QED BY <2>1, <2>14, <4>1, <4>2
    <3> QED BY <3>2, <3>3
  <2> QED BY <2>6, <2>8, <2>12, <2>13, <2>14
<1> QED BY <1>1, <1>2, <1>3, <1>4

IsIn(eps, u) == \E i \in DOMAIN eps : eps[i].path = u.path
Entries == opened \cup ToSet(queue)

(* Every link of an opened page is known, and as near as the page makes it. *)
Known(page) ==
  \A u \in ToSet(LinksOf(page.url.path)) :
    u.host = "own" => /\ u \in seen
                      /\ page.depth + 1 < site.depth => \E e \in Entries : e.url = u /\ e.depth <= page.depth + 1
WalkComplete ==
  Quiet =>
    /\ source = "links" =>
         /\ \E e \in Entries : e.url = Home /\ e.depth = 0
         /\ (queue # << >> /\ queue[1].depth + 1 < site.depth) => \A u \in seen : \E e \in Entries : e.url = u
         /\ \A page \in opened : Known(page)
         /\ \A u \in seen \ {Home} : IsIn(batch, u)
    /\ (source \in Late /\ site.target /\ site.depth > 0) =>
         \A u \in Near(site.links)[site.depth] \ {Home} : IsIn(found, u)

LEMMA AllNearAreSeen ==
  ASSUME CrawlTyped, WalkHeld, WalkComplete, Quiet, source = "links", queue = << >>
  PROVE  Near(site.links)[site.depth] \subseteq seen
<1> DEFINE N == Near(site.links)
           reached(k) == \A u \in N[k] : \E page \in opened : page.url = u /\ page.depth <= k
           missed == {k \in 0 .. site.depth - 1 : ~reached(k)}
<1>1. Entries = opened
  BY EmptyList DEF Entries
<1>2. PICK home \in opened : home.url = Home /\ home.depth = 0
  BY <1>1 DEF WalkComplete
<1>3. PICK D \in Nat : D = site.depth /\ D # 0 /\ D - 1 \in Nat
  <2>1. site.depth \in Nat
    BY SiteIs DEF CrawlTyped
  <2>2. 0 < site.depth
    BY <1>2 DEF WalkHeld, Within
  <2> QED BY <2>1, <2>2
<1>4. /\ N[0] = {Home}
      /\ \A n \in Nat : N[n + 1] = N[n] \cup LinkedFrom(site.links, N[n])
  BY NearIs
<1>5. \A page \in opened : page.depth \in Nat /\ page.url \in seen /\ Known(page)
  BY DEF WalkHeld, WalkComplete, Within
<1> HIDE DEF N
<1>6. ASSUME NEW k \in missed PROVE FALSE
  <2>1. missed \subseteq Nat
    BY <1>3
  <2>2. PICK l \in missed : \A j \in missed : l <= j
    BY <1>6, <2>1, Least
  <2>3. l \in 0 .. D - 1 /\ ~reached(l)
    BY <1>3, <2>2
  <2>4. l # 0
    BY <1>2, <1>4, <2>3
  <2>5. PICK j \in Nat : l = j + 1 /\ j \in 0 .. D - 1
    <3>1. l - 1 \in Nat /\ l = (l - 1) + 1 /\ l - 1 \in 0 .. D - 1
      BY <2>3, <2>4
    <3> QED BY <3>1
  <2>6. reached(j)
    <3>1. ~(l <= j)
      BY <2>5
    <3> QED BY <1>3, <2>2, <2>5, <3>1
  <2>7. ASSUME NEW u \in N[l] PROVE \E page \in opened : page.url = u /\ page.depth <= l
    <3>1. CASE u \in N[j]
      <4>1. PICK page \in opened : page.url = u /\ page.depth <= j
        BY <2>6, <3>1
      <4>2. page.depth <= l
        BY <1>5, <2>5, <4>1
      <4> QED BY <4>1, <4>2
    <3>2. CASE u \in LinkedFrom(site.links, N[j])
      <4>1. PICK v \in N[j] : u \in ToSet(LinksOf(v.path)) /\ u.host = "own"
        BY <3>2, Links
      <4>2. PICK page \in opened : page.url = v /\ page.depth <= j
        BY <2>6
      <4>3. page.depth \in Nat /\ page.depth + 1 < site.depth
        BY <1>3, <1>5, <2>3, <2>5, <4>2
      <4>4. PICK e \in opened : e.url = u /\ e.depth <= page.depth + 1
        BY <1>1, <1>5, <4>1, <4>2, <4>3 DEF Known
      <4>5. e.depth \in Nat
        BY <1>5
      <4>6. e.depth <= l
        BY <2>5, <4>2, <4>3, <4>4, <4>5
      <4> QED BY <4>4, <4>6
    <3> QED BY <1>4, <2>5, <3>1, <3>2
  <2> QED BY <2>3, <2>7
<1>7. reached(D - 1)
  <2>1. D - 1 \in 0 .. site.depth - 1
    BY <1>3
  <2> QED BY <1>6, <2>1
<1>8. N[D] = N[D - 1] \cup LinkedFrom(site.links, N[D - 1])
  <2>1. (D - 1) + 1 = D
    BY <1>3
  <2>2. N[(D - 1) + 1] = N[D - 1] \cup LinkedFrom(site.links, N[D - 1])
    BY <1>3, <1>4
  <2> QED BY <2>1, <2>2
<1>9. ASSUME NEW u \in N[D] PROVE u \in seen
  <2>1. CASE u \in N[D - 1]
    BY <1>5, <1>7, <2>1
  <2>2. CASE u \in LinkedFrom(site.links, N[D - 1])
    <3>1. PICK v \in N[D - 1] : u \in ToSet(LinksOf(v.path)) /\ u.host = "own"
      BY <2>2, Links
    <3>2. PICK page \in opened : page.url = v
      BY <1>7
    <3> QED BY <1>5, <3>1, <3>2 DEF Known
  <2> QED BY <1>8, <1>9, <2>1, <2>2
<1> QED BY <1>3, <1>9 DEF N

LEMMA MoreIsIn ==
  ASSUME NEW a, NEW b, IsEndpoints(a), IsEndpoints(b), NEW u, IsIn(a, u)
  PROVE  IsIn(a \o b, u)
BY MoreEndpoints DEF IsIn

LEMMA PathsAreIn ==
  ASSUME NEW a, IsEndpoints(a), NEW urls, IsPages(urls), NEW u \in ToSet(urls)
  PROVE  IsIn(a \o AllOf([i \in DOMAIN urls |-> urls[i].path]), u)
<1>1. PICK paths : paths = [i \in DOMAIN urls |-> urls[i].path]
  OBVIOUS
<1>2. IsPaths(paths) /\ DOMAIN paths = DOMAIN urls
  BY <1>1, PathsOf
<1>3. PICK k \in DOMAIN urls : urls[k] = u
  BY DEF ToSet
<1>4. PICK b : b = AllOf(paths)
  OBVIOUS
<1>5. IsEndpoints(b) /\ DOMAIN b = DOMAIN paths /\ \A i \in DOMAIN paths : b[i].path = paths[i]
  BY <1>2, <1>4, AllOfPaths DEF IsPaths
<1>6. k \in DOMAIN b /\ b[k].path = u.path
  BY <1>1, <1>2, <1>3, <1>5
<1>7. After(a, k) \in DOMAIN (a \o b) /\ (a \o b)[After(a, k)] = b[k]
  BY <1>5, <1>6, ConcatRight DEF IsEndpoints
<1> QED BY <1>1, <1>4, <1>6, <1>7 DEF IsIn

LEMMA WalkStaysComplete ==
  ASSUME CrawlTyped, WalkHeld, WalkOrdered, WalkComplete, [Next]_vars, Quiet'
  PROVE  /\ source' = "links" =>
              /\ \E e \in Entries' : e.url = Home /\ e.depth = 0
              /\ (queue' # << >> /\ queue'[1].depth + 1 < site.depth) => \A u \in seen' : \E e \in Entries' : e.url = u
              /\ \A page \in opened' : Known(page)'
              /\ \A u \in seen' \ {Home} : IsIn(batch', u)
         /\ (source' \in Late /\ site.target /\ site.depth > 0) =>
              \A u \in Near(site.links)[site.depth] \ {Home} : IsIn(found', u)
<1>1. site' = site /\ Quiet
  BY QuietSoFar DEF WalkHeld
<1>2. CrawlTyped' /\ Grows /\ IsEndpoints(found) /\ site \in Sites
  BY StepsKeepLists DEF CrawlTyped
<1>3. \A u : IsIn(found, u) => IsIn(found', u)
  BY <1>2, MoreIsIn DEF Grows
<1>4. \A path : LinksOf(path)' = LinksOf(path)
  BY <1>1 DEF LinksOf
<1>5. CASE ~ReadPage /\ ~EndLinks /\ ~HomeFails /\ ~EndScripts
  <2>1. /\ opened' = opened /\ (source = "links" => UNCHANGED <<source, queue, seen, batch>>)
        /\ (source # "links" => source' # "links")
        /\ (source' \in Late => source \in Late \/ ~site.target)
    BY <1>5, Elsewhere
  <2>2. ASSUME source' = "links"
        PROVE  /\ \E e \in Entries' : e.url = Home /\ e.depth = 0
               /\ (queue' # << >> /\ queue'[1].depth + 1 < site.depth) => \A u \in seen' : \E e \in Entries' : e.url = u
               /\ \A page \in opened' : Known(page)'
               /\ \A u \in seen' \ {Home} : IsIn(batch', u)
    <3>1. source = "links" /\ UNCHANGED <<queue, seen, batch, opened>>
      BY <2>1, <2>2
    <3>2. Entries' = Entries
      BY <3>1 DEF Entries
    <3>3. \A page : Known(page)' <=> Known(page)
      BY <1>1, <1>4, <3>1, <3>2 DEF Known
    <3> QED BY <1>1, <3>1, <3>2, <3>3 DEF WalkComplete
  <2>3. (source' \in Late /\ site.target /\ site.depth > 0) =>
          \A u \in Near(site.links)[site.depth] \ {Home} : IsIn(found', u)
    BY <1>1, <1>3, <2>1 DEF WalkComplete
  <2> QED BY <2>2, <2>3
<1>6. CASE HomeFails \/ EndScripts
  <2>1. opened' = {} /\ (source' \in Late => ~(site.depth > 0))
    BY <1>6, WalkStarts
  <2>2. ASSUME source' = "links"
        PROVE  /\ \E e \in Entries' : e.url = Home /\ e.depth = 0
               /\ \A u \in seen' : \E e \in Entries' : e.url = u
               /\ \A u \in seen' \ {Home} : IsIn(batch', u)
    <3>1. PICK page : page = [url |-> Home, depth |-> 0]
      OBVIOUS
    <3>2. queue' = <<page>> /\ seen' = {Home}
      BY <1>6, <2>2, <3>1, WalkStarts
    <3>3. ToSet(queue') = {page} /\ page.url = Home /\ page.depth = 0
      BY <3>1, <3>2, OnePage
    <3> QED BY <3>2, <3>3 DEF Entries
  <2> QED BY <2>1, <2>2
<1>7. CASE EndLinks
  <2>1. source = "links" /\ source' = "words" /\ IsEndpoints(batch)
    BY <1>7 DEF EndLinks, Enter, CrawlTyped
  <2>2. queue = << >> /\ found' = found \o batch
    <3>1. ~cancelled /\ site.cap = 0
      BY <1>1 DEF Quiet
    <3> QED BY <1>7, <3>1 DEF EndLinks, AtCap, Enter
  <2>3. Near(site.links)[site.depth] \subseteq seen
    BY <1>1, <2>1, <2>2, AllNearAreSeen
  <2>4. ASSUME NEW u \in Near(site.links)[site.depth] \ {Home} PROVE IsIn(found', u)
    <3>1. IsIn(batch, u)
      BY <1>1, <2>1, <2>3 DEF WalkComplete
    <3>2. PICK k \in DOMAIN batch : batch[k].path = u.path
      BY <3>1 DEF IsIn
    <3>3. After(found, k) \in DOMAIN (found \o batch) /\ (found \o batch)[After(found, k)] = batch[k]
      BY <1>2, <2>1, <3>2, ConcatRight DEF IsEndpoints
    <3> QED BY <2>2, <3>2, <3>3 DEF IsIn
  <2> QED BY <2>1, <2>4
<1>8. CASE ReadPage
  <2>1. PICK page, urls :
           /\ page = queue[1] /\ queue # << >> /\ page \in ToSet(queue) /\ Within(page) /\ opened' = opened \cup {page}
           /\ source = "links" /\ source' = "links" /\ IsPages(urls)
           /\ queue' = Queued(Tail(queue), urls, page.depth + 1) /\ seen' = seen \cup ToSet(urls)
           /\ batch' = batch \o AllOf([i \in DOMAIN urls |-> urls[i].path])
           /\ ToSet(urls) = Fresh(LinksOf(page.url.path))
    BY <1>8, ReadingAPage
  <2>2. PICK d \in Nat : d = page.depth
    BY <2>1 DEF Within
  <2>3. PICK far \in Nat : far = d + 1
    OBVIOUS
  <2>4. PICK t : t = Tail(queue) /\ IsList(t) /\ IsList(queue) /\ page = Head(queue)
                 /\ (\A i \in DOMAIN t : i + 1 \in DOMAIN queue /\ t[i] = queue[i + 1])
                 /\ ToSet(queue) = {page} \cup ToSet(t) /\ 1 \in DOMAIN queue
    BY <2>1, TailList DEF WalkHeld
  <2>5. PICK q : q = queue' /\ q = Queued(t, urls, far)
    BY <2>1, <2>2, <2>3, <2>4
  <2>6. IsList(t) /\ IsList(urls) /\ q = Queued(t, urls, far)
    BY <2>1, <2>4, <2>5 DEF IsPages
  <2>7. /\ \A i \in DOMAIN t : i \in DOMAIN q /\ q[i] = t[i]
        /\ far < site.depth => \A u \in ToSet(urls) : [url |-> u, depth |-> far] \in ToSet(q)
    BY <2>6, QueuedIs
  <2>8. ToSet(t) \subseteq ToSet(q)
    BY <2>7 DEF ToSet
  <2>9. Entries \subseteq Entries' /\ Entries = opened \cup {page} \cup ToSet(t)
        /\ ToSet(q) \subseteq Entries' /\ \A e \in Entries : e.depth \in Nat
    <3>1. Entries' = opened \cup {page} \cup ToSet(q)
      BY <2>1, <2>5 DEF Entries
    <3>2. Entries = opened \cup {page} \cup ToSet(t)
      BY <2>4 DEF Entries
    <3>3. \A e \in Entries : e.depth \in Nat
      BY <2>1 DEF Entries, WalkHeld, Within
    <3> QED BY <2>8, <3>1, <3>2, <3>3
  <2>10. \A e \in Entries : e.depth <= far
    <3>1. \A e \in opened : e.depth <= d
      BY <2>1, <2>2 DEF WalkOrdered
    <3>2. \A e \in ToSet(queue) : e.depth <= d + 1
      BY <2>1, <2>2 DEF WalkOrdered, ToSet
    <3> QED BY <2>3, <2>9, <3>1, <3>2 DEF Entries
  <2>11. ASSUME far < site.depth, NEW u \in seen' PROVE \E e \in Entries' : e.url = u /\ e.depth <= far
    <3>1. CASE u \in ToSet(urls)
      <4>1. PICK e : e = [url |-> u, depth |-> far]
        OBVIOUS
      <4>2. e \in Entries' /\ e.url = u /\ e.depth = far
        BY <2>7, <2>9, <2>11, <3>1, <4>1
      <4> QED BY <4>2
    <3>2. CASE u \in seen
      <4>1. PICK e \in Entries : e.url = u
        BY <1>1, <2>1, <2>2, <2>3, <2>11, <3>2 DEF WalkComplete
      <4> QED BY <2>9, <2>10, <4>1
    <3> QED BY <2>1, <2>11, <3>1, <3>2
  <2>12. \E e \in Entries' : e.url = Home /\ e.depth = 0
    BY <1>1, <2>1, <2>9 DEF WalkComplete
  <2>13. ASSUME queue' # << >>, queue'[1].depth + 1 < site.depth PROVE far < site.depth
    <3>1. WalkOrdered' /\ WalkHeld'
      BY WalkStaysOrdered, WalkStays
    <3>2. page.depth <= queue'[1].depth
      BY <2>1, <2>13, <3>1 DEF WalkOrdered
    <3>3. queue'[1] \in ToSet(queue')
      <4>1. IsList(queue')
        BY <2>1, <3>1 DEF WalkHeld
      <4>2. 1 \in DOMAIN queue'
        BY <2>13, <4>1, TailList
      <4> QED BY <4>2 DEF ToSet
    <3>4. queue'[1].depth \in Nat
      BY <2>1, <3>1, <3>3 DEF WalkHeld, Within
    <3>5. site.depth \in Nat
      BY <1>2, SiteIs
    <3> QED BY <2>2, <2>3, <2>13, <3>2, <3>4, <3>5
  <2>14. ASSUME NEW p \in opened' PROVE Known(p)'
    <3>1. CASE p = page
      <4>1. ASSUME NEW u \in ToSet(LinksOf(page.url.path)), u.host = "own" PROVE u \in seen'
        <5>1. u \in seen \/ u \in Fresh(LinksOf(page.url.path))
          BY <4>1 DEF Fresh
        <5> QED BY <2>1, <5>1
      <4>2. \A u \in ToSet(LinksOf(page.url.path)) :
              u.host = "own" => /\ u \in seen'
                                /\ page.depth + 1 < site.depth => \E e \in Entries' : e.url = u /\ e.depth <= page.depth + 1
        BY <2>2, <2>3, <2>11, <4>1
      <4> QED BY <1>1, <1>4, <3>1, <4>2 DEF Known
    <3>2. CASE p \in opened
      <4>1. Known(p)
        BY <1>1, <2>1, <3>2 DEF WalkComplete
      <4>2. \A u \in ToSet(LinksOf(p.url.path)) :
              u.host = "own" => /\ u \in seen'
                                /\ p.depth + 1 < site.depth => \E e \in Entries' : e.url = u /\ e.depth <= p.depth + 1
        BY <2>1, <2>9, <4>1 DEF Known
      <4> QED BY <1>1, <1>4, <4>2 DEF Known
    <3> QED BY <2>1, <2>14, <3>1, <3>2
  <2>15. ASSUME NEW u \in seen' \ {Home} PROVE IsIn(batch', u)
    <3>1. IsEndpoints(batch)
      BY <2>1 DEF CrawlTyped
    <3>2. CASE u \in ToSet(urls)
      BY <2>1, <3>1, <3>2, PathsAreIn
    <3>3. CASE u \in seen
      <4>1. IsIn(batch, u)
        BY <1>1, <2>1, <2>15, <3>3 DEF WalkComplete
      <4>2. PICK paths : paths = [i \in DOMAIN urls |-> urls[i].path] /\ IsPaths(paths)
        BY <2>1, PathsOf
      <4>3. IsEndpoints(AllOf(paths))
        BY <4>2, AllOfIsPaths
      <4> QED BY <2>1, <3>1, <4>1, <4>2, <4>3, MoreIsIn
    <3> QED BY <2>1, <2>15, <3>2, <3>3
  <2>16. source' \notin Late
    BY <2>1 DEF Late
  <2> QED BY <2>11, <2>12, <2>13, <2>14, <2>15, <2>16
<1> QED BY <1>5, <1>6, <1>7, <1>8

-----------------------------------------------------------------------------
CrawlInv == /\ CrawlTyped /\ RobotsHeld /\ SpecFirst /\ RankDone
            /\ WalkHeld /\ WalkOrdered /\ WalkComplete

LEMMA CrawlStarts == Init => CrawlInv
<1> SUFFICES ASSUME Init PROVE CrawlInv
  OBVIOUS
<1>1. CrawlTyped
  BY NoEndpoints DEF Init, CrawlTyped, Sources
<1>2. RobotsHeld /\ SpecFirst /\ RankDone
  BY DEF Init, RobotsHeld, SpecFirst, RankDone
<1>3. WalkHeld /\ WalkOrdered /\ WalkComplete
  BY DEF Init, WalkHeld, WalkOrdered, WalkComplete, Late
<1> QED BY <1>1, <1>2, <1>3 DEF CrawlInv

LEMMA CrawlContinues == CrawlInv /\ [Next]_vars => CrawlInv'
<1> SUFFICES ASSUME CrawlInv, [Next]_vars PROVE CrawlInv'
  OBVIOUS
<1> USE DEF CrawlInv
<1>1. CrawlTyped'
  BY StepsKeepLists
<1>2. RobotsHeld'
  BY RobotsStayHeld
<1>3. SpecFirst'
  BY SpecStaysFirst
<1>4. RankDone'
  BY RankStaysDone
<1>5. WalkHeld' /\ site' = site
  BY WalkStays, QuietSoFar DEF WalkHeld
<1>6. WalkOrdered'
  BY WalkStaysOrdered
<1>7. WalkComplete'
  BY <1>5, WalkStaysComplete DEF WalkComplete
<1> QED BY <1>1, <1>2, <1>3, <1>4, <1>5, <1>6, <1>7

(* The state of discovery, for any site, any configuration, any number of   *)
(* sitemaps and failures: the lists are endpoints, what the specification   *)
(* declares comes first, robots.txt is remembered, the walk is in order.    *)
THEOREM CrawlInvHolds == Spec => []CrawlInv
<1>1. Init => CrawlInv
  BY CrawlStarts
<1>2. CrawlInv /\ [Next]_vars => CrawlInv'
  BY CrawlContinues
<1> QED BY <1>1, <1>2, PTL DEF Spec

(* With --respect-robots and a robots.txt that was read, no disallowed path *)
(* is handed to the checks (CrawlEndpoints) or asked for from the word list *)
(* (fromBruteForce).  It does not say that none is fetched: with a depth of *)
(* 2 and more crawlHTMLLinks fetches the disallowed pages it is led to.     *)
THEOREM DisallowedIsNotScanned == Spec => []DisallowedNotScanned
<1>1. CrawlInv => DisallowedNotScanned
  <2> SUFFICES ASSUME CrawlInv, site.respect, robotsRead
               PROVE  /\ \A w \in asked : ~Disallowed(w, site.robots.disallow)
                      /\ \A page \in opened : page.url = Home \/ site.depth > 1
                      /\ \A e \in ToSet(result) : ~Disallowed(e.path, site.robots.disallow)
    BY DEF DisallowedNotScanned
  <2>1. ASSUME NEW page \in opened, ~(site.depth > 1)
        PROVE  page.url = Home
    <3>1. site.depth \in Nat /\ Within(page)
      BY CrawlerAssumption DEF CrawlInv, CrawlTyped, WalkHeld, IsSite
    <3>2. page.depth = 0
      BY <2>1, <3>1 DEF Within
    <3> QED BY <3>1, <3>2, NearIs DEF Within
  <2> QED BY <2>1, RobotsAreObeyed DEF CrawlInv
<1> QED BY <1>1, CrawlInvHolds, PTL

(* Every operation of a specification that was read is handed over as it is *)
(* declared, unless robots.txt or the cap keeps it out (fromSpec,           *)
(* deduplicate).                                                            *)
THEOREM OperationsScanned == Spec => []SpecWins
<1>1. CrawlInv => SpecWins
  BY OperationsAreScanned DEF CrawlInv
<1> QED BY <1>1, CrawlInvHolds, PTL

(* --max-endpoints takes the first endpoints of the report's order, whatever *)
(* the order of discovery, and Discovered counts them all (CrawlEndpoints).  *)
THEOREM FirstKept == Spec => []CapKeepsTheFirst
<1>1. CrawlInv => CapKeepsTheFirst
  BY FirstAreKept DEF CrawlInv
<1> QED BY <1>1, CrawlInvHolds, PTL

(* The walk along the links opens no page twice or too deep, and one that   *)
(* nothing disturbs finds every page within the depth (crawlHTMLLinks).     *)
THEOREM WalkReachesTheDepth == Spec => []PagesWithinDepth
<1>1. CrawlInv => PagesWithinDepth
  <2> SUFFICES ASSUME CrawlInv PROVE PagesWithinDepth
    OBVIOUS
  <2>1. \A page \in opened :
          /\ page.depth < site.depth /\ page.url \in Near(site.links)[page.depth]
          /\ \A other \in opened : other.url = page.url => other = page
    BY DEF CrawlInv, WalkHeld, Within
  <2>2. (Done /\ site.target /\ site.depth > 0 /\ site.cap = 0 /\ failures = 0 /\ ~cancelled) =>
          \A u \in Near(site.links)[site.depth] \ {Home} : \E i \in DOMAIN found : found[i].path = u.path
    BY DEF CrawlInv, WalkComplete, Quiet, Done, Late, IsIn
  <2> QED BY <2>1, <2>2 DEF PagesWithinDepth
<1> QED BY <1>1, CrawlInvHolds, PTL
=============================================================================
