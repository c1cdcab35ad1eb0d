---------------------------- MODULE FindingsProofs ----------------------------
(***************************************************************************)
(* That the second half of a scan, for any evidence, documents, policies   *)
(* and bound, reports what the engines saw.                                *)
(***************************************************************************)
EXTENDS Findings, FiniteSetTheorems, TLAPS

-----------------------------------------------------------------------------
(* --- numbers, lists, counting off --------------------------------------- *)
IsList(s) == s \in Seq(Range(s))

LEMMA Least == ASSUME NEW T, T \subseteq Nat, T # {} PROVE \E x \in T : \A y \in T : x <= y
<1>1. \E R : IsWellFoundedOn(R, Nat) /\ \A x, y \in Nat : x < y => <<x, y>> \in R
  <2>1. \A x, y \in Nat : x < y => <<x, y>> \in OpToRel(<, Nat)
    BY DEF OpToRel
  <2> QED BY NatLessThanWellFounded, <2>1, Zenon
<1>2. PICK R : IsWellFoundedOn(R, Nat) /\ \A x, y \in Nat : x < y => <<x, y>> \in R
  BY <1>1
<1>5. IsWellFoundedOn(R, Nat)
  BY <1>2
<1>6. \E x \in T : \A y \in T : ~(<<y, x>> \in R)
  BY ONLY <1>5, T \subseteq Nat, T # {}, WFMin, Zenon
<1>3. PICK x \in T : \A y \in T : ~(<<y, x>> \in R)
  BY <1>6
<1>4. x \in Nat /\ \A y \in T : y \in Nat /\ ~(y < x)
  BY <1>2, <1>3
<1> QED BY <1>4

LEMMA ListShape ==
  ASSUME NEW s, IsList(s)
  PROVE  Len(s) \in Nat /\ DOMAIN s = 1 .. Len(s) /\ s = [i \in 1 .. Len(s) |-> s[i]]
         /\ \A i \in 1 .. Len(s) : s[i] \in Range(s)
BY DEF IsList, Range

LEMMA SeqShape ==
  ASSUME NEW S, NEW s \in Seq(S), NEW n \in Nat, Len(s) = n
  PROVE  DOMAIN s = 1 .. n /\ s = [i \in 1 .. n |-> s[i]]
OBVIOUS

LEMMA ListOf ==
  ASSUME NEW n \in Nat, NEW s, s = [i \in 1 .. n |-> s[i]]
  PROVE  IsList(s) /\ Len(s) = n /\ DOMAIN s = 1 .. n
<1>1. s \in [1 .. n -> Range(s)]
  BY DEF Range
<1>2. IsList(s)
  BY <1>1 DEF IsList
<1>3. DOMAIN s = 1 .. n /\ DOMAIN s = 1 .. Len(s) /\ Len(s) \in Nat
  BY <1>2, ListShape
<1>4. Len(s) = n
  BY <1>1
<1> QED BY <1>2, <1>3, <1>4

LEMMA ConcatList ==
  ASSUME NEW a, NEW b, IsList(a), IsList(b)
  PROVE  /\ IsList(a \o b) /\ Len(a \o b) = Len(a) + Len(b)
         /\ Range(a \o b) = Range(a) \cup Range(b)
         /\ \A i \in DOMAIN a : i \in DOMAIN (a \o b) /\ (a \o b)[i] = a[i]
<1> DEFINE S == Range(a) \cup Range(b)
           c == a \o b
<1>1. a \in Seq(S) /\ b \in Seq(S) /\ c \in Seq(S)
  BY DEF IsList
<1>2. PICK m \in Nat : m = Len(a) /\ DOMAIN a = 1 .. m
  BY ListShape
<1>3. PICK n \in Nat : n = Len(b) /\ DOMAIN b = 1 .. n
  BY ListShape
<1>4. DOMAIN c = 1 .. m + n /\ c = [i \in 1 .. m + n |-> c[i]] /\ Len(c) = m + n
  <2>1. Len(c) = m + n /\ m + n \in Nat
    BY <1>1, <1>2, <1>3
  <2> HIDE DEF c
  <2> QED BY <1>1, <2>1, SeqShape
<1>5. \A i \in 1 .. m : c[i] = a[i]
  BY <1>1, <1>2, <1>3
<1>6. \A i \in 1 .. n : c[m + i] = b[i]
  BY <1>1, <1>2, <1>3
<1> HIDE DEF c
<1>7. IsList(c)
  <2>1. m + n \in Nat
    OBVIOUS
  <2> QED BY <1>4, <2>1, ListOf
<1>8. (\A i \in 1 .. m : i \in 1 .. m + n) /\ (\A i \in 1 .. n : m + i \in 1 .. m + n)
  OBVIOUS
<1>9. \A i \in 1 .. m + n : i \in 1 .. m \/ \E k \in 1 .. n : i = m + k
  <2> SUFFICES ASSUME NEW i \in 1 .. m + n, ~(i \in 1 .. m) PROVE \E k \in 1 .. n : i = m + k
    OBVIOUS
  <2>1. i - m \in 1 .. n /\ i = m + (i - m)
    OBVIOUS
  <2> QED BY <2>1
<1>10. Range(c) = Range(a) \cup Range(b)
  <2>1. Range(c) \subseteq Range(a) \cup Range(b)
    <3> SUFFICES ASSUME NEW i \in 1 .. m + n PROVE c[i] \in Range(a) \cup Range(b)
      BY <1>4 DEF Range
    <3>1. CASE i \in 1 .. m
      BY <1>2, <1>5, <3>1 DEF Range
    <3>2. ASSUME NEW k \in 1 .. n, i = m + k PROVE c[i] \in Range(b)
      BY <1>3, <1>6, <3>2 DEF Range
    <3> QED BY <1>9, <3>1, <3>2
  <2>2. Range(a) \subseteq Range(c) /\ Range(b) \subseteq Range(c)
    BY <1>2, <1>3, <1>4, <1>5, <1>6, <1>8, ZenonT(40) DEF Range
  <2> QED BY <2>1, <2>2
<1> QED BY <1>2, <1>3, <1>4, <1>5, <1>6, <1>7, <1>8, <1>10 DEF c

(* A finite set that a relation orders strictly and totally is numbered by  *)
(* how many elements come before each.                                      *)
LEMMA Counted ==
  ASSUME NEW S, IsFiniteSet(S), NEW below,
         \A x \in S : below[x] \subseteq S /\ x \notin below[x],
         \A x, y \in S : y \in below[x] => below[y] \subseteq below[x],
         \A x, y \in S : x = y \/ x \in below[y] \/ y \in below[x]
  PROVE  /\ Cardinality(S) \in Nat
         /\ \A x \in S : Cardinality(below[x]) \in 0 .. Cardinality(S) - 1
         /\ \A x, y \in S : Cardinality(below[x]) = Cardinality(below[y]) => x = y
         /\ \A x, y \in S : Cardinality(below[x]) < Cardinality(below[y]) => x \in below[y]
         /\ \A n \in 0 .. Cardinality(S) - 1 : \E x \in S : Cardinality(below[x]) = n
<1> DEFINE N == Cardinality(S)
           rank == [x \in S |-> Cardinality(below[x])]
<1>1. N \in Nat /\ \A x \in S : IsFiniteSet(below[x]) /\ Cardinality(below[x]) \in Nat
  BY FS_Subset, FS_CardinalityType
<1>2. ASSUME NEW x \in S, NEW y \in S, x \in below[y]
      PROVE  Cardinality(below[x]) < Cardinality(below[y])
  <2>1. below[x] \subseteq below[y] /\ below[x] # below[y]
    BY <1>2
  <2>2. Cardinality(below[x]) <= Cardinality(below[y]) /\ Cardinality(below[x]) # Cardinality(below[y])
    BY <1>1, <2>1, FS_Subset
  <2>3. Cardinality(below[x]) \in Nat /\ Cardinality(below[y]) \in Nat
    BY <1>1
  <2> QED BY <2>2, <2>3
<1>3. ASSUME NEW x \in S PROVE Cardinality(below[x]) \in 0 .. N - 1
  <2>1. below[x] \subseteq S /\ below[x] # S
    BY <1>3
  <2>2. Cardinality(below[x]) <= N /\ Cardinality(below[x]) # N
    BY <2>1, FS_Subset
  <2>3. \A c, n \in Nat : c <= n /\ c # n => c \in 0 .. n - 1
    OBVIOUS
  <2> HIDE DEF N
  <2> QED BY <1>1, <2>2, <2>3
<1>4. \A x, y \in S : Cardinality(below[x]) < Cardinality(below[y]) => x \in below[y]
  <2> SUFFICES ASSUME NEW x \in S, NEW y \in S, Cardinality(below[x]) < Cardinality(below[y]) PROVE x \in below[y]
    OBVIOUS
  <2>1. Cardinality(below[x]) \in Nat /\ Cardinality(below[y]) \in Nat
    BY <1>1
  <2>2. x # y /\ ~(Cardinality(below[y]) < Cardinality(below[x]))
    BY <2>1
  <2> QED BY <1>2, <2>2
<1>5. \A x, y \in S : Cardinality(below[x]) = Cardinality(below[y]) => x = y
  <2> SUFFICES ASSUME NEW x \in S, NEW y \in S, Cardinality(below[x]) = Cardinality(below[y]) PROVE x = y
    OBVIOUS
  <2>1. Cardinality(below[x]) \in Nat /\ Cardinality(below[y]) \in Nat
    BY <1>1
  <2>2. ~(Cardinality(below[x]) < Cardinality(below[y])) /\ ~(Cardinality(below[y]) < Cardinality(below[x]))
    BY <2>1
  <2> QED BY <1>2, <2>2
<1>6. rank \in Injection(S, 0 .. N - 1)
  <2>1. rank \in [S -> 0 .. N - 1]
    BY <1>3
  <2>2. \A x, y \in S : rank[x] = rank[y] => x = y
    BY <1>5
  <2> HIDE DEF rank, N
  <2> QED BY <2>1, <2>2 DEF Injection, IsInjective
<1>7. IsFiniteSet(0 .. N - 1) /\ Cardinality(0 .. N - 1) = N
  <2>1. 0 \in Int /\ N - 1 \in Int
    BY <1>1
  <2>2. IsFiniteSet(0 .. N - 1) /\ Cardinality(0 .. N - 1) = IF 0 > N - 1 THEN 0 ELSE (N - 1) - 0 + 1
    BY <2>1, FS_Interval
  <2> HIDE DEF N
  <2> QED BY <1>1, <2>2
<1>8. rank \in Surjection(S, 0 .. N - 1)
  BY <1>6, <1>7, FS_Injection
<1>9. \A n \in 0 .. N - 1 : \E x \in S : rank[x] = n
  <2> HIDE DEF rank, N
  <2> QED BY <1>8 DEF Surjection
<1> QED BY <1>1, <1>3, <1>4, <1>5, <1>9

(* The n-th smallest number of a finite set: what At walks.                 *)
Below(I, i) == {k \in I : k < i}
Nth(I, n) == CHOOSE i \in I : Cardinality(Below(I, i)) = n - 1
LEMMA Numbering ==
  ASSUME NEW I, IsFiniteSet(I), I \subseteq Nat
  PROVE  /\ Cardinality(I) \in Nat
         /\ \A n \in 1 .. Cardinality(I) : Nth(I, n) \in I /\ Cardinality(Below(I, Nth(I, n))) = n - 1
         /\ \A i \in I : \E n \in 1 .. Cardinality(I) : Nth(I, n) = i
         /\ \A m, n \in 1 .. Cardinality(I) : m < n => Nth(I, m) < Nth(I, n)
         /\ \A i, k \in I : Cardinality(Below(I, i)) = Cardinality(Below(I, k)) => i = k
<1> DEFINE below == [i \in I |-> Below(I, i)]
           C == Cardinality(I)
<1>1. /\ C \in Nat
      /\ \A x \in I : Cardinality(below[x]) \in 0 .. C - 1
      /\ \A x, y \in I : Cardinality(below[x]) = Cardinality(below[y]) => x = y
      /\ \A x, y \in I : Cardinality(below[x]) < Cardinality(below[y]) => x \in below[y]
      /\ \A n \in 0 .. C - 1 : \E x \in I : Cardinality(below[x]) = n
  <2>1. \A x \in I : below[x] \subseteq I /\ x \notin below[x]
    BY DEF Below
  <2>2. \A x, y \in I : y \in below[x] => below[y] \subseteq below[x]
    <3>1. \A x, y, k \in I : y < x /\ k < y => k < x
      OBVIOUS
    <3> QED BY <3>1 DEF Below
  <2>3. \A x, y \in I : x = y \/ x \in below[y] \/ y \in below[x]
    BY DEF Below
  <2> HIDE DEF below
  <2> QED BY <2>1, <2>2, <2>3, Counted
<1>2. \A n \in 1 .. C : Nth(I, n) \in I /\ Cardinality(below[Nth(I, n)]) = n - 1
  <2> SUFFICES ASSUME NEW n \in 1 .. C PROVE Nth(I, n) \in I /\ Cardinality(below[Nth(I, n)]) = n - 1
    OBVIOUS
  <2>1. n - 1 \in 0 .. C - 1
    <3> HIDE DEF C
    <3> QED BY <1>1
  <2>2. \E i \in I : Cardinality(Below(I, i)) = n - 1
    BY <1>1, <2>1
  <2> QED BY <2>2 DEF Nth
<1>3. ASSUME NEW i \in I PROVE \E n \in 1 .. C : Nth(I, n) = i
  <2>1. Cardinality(below[i]) \in 0 .. C - 1
    BY <1>1
  <2>2. Cardinality(below[i]) + 1 \in 1 .. C /\ (Cardinality(below[i]) + 1) - 1 = Cardinality(below[i])
    <3>1. \A c \in 0 .. C - 1 : c + 1 \in 1 .. C /\ (c + 1) - 1 = c
      <4> HIDE DEF C
      <4> QED BY <1>1
    <3> QED BY <2>1, <3>1
  <2> HIDE DEF below, C
  <2>3. Nth(I, Cardinality(below[i]) + 1) = i
    BY <1>1, <1>2, <2>2
  <2> QED BY <2>2, <2>3
<1>4. ASSUME NEW m \in 1 .. C, NEW n \in 1 .. C, m < n PROVE Nth(I, m) < Nth(I, n)
  <2> HIDE DEF C, below
  <2>1. m - 1 < n - 1
    BY <1>1, <1>4
  <2>2. Nth(I, m) \in below[Nth(I, n)]
    BY <1>1, <1>2, <2>1
  <2>3. below[Nth(I, n)] = Below(I, Nth(I, n))
    BY <1>2 DEF below
  <2> QED BY <2>2, <2>3 DEF Below
<1>5. \A i \in I : below[i] = Below(I, i)
  OBVIOUS
<1> HIDE DEF below
<1> QED BY <1>1, <1>2, <1>3, <1>4, <1>5

(* At takes the elements at some positions, in their order.                 *)
Walks(a, s, I) ==
  /\ IsList(a) /\ DOMAIN a = 1 .. Cardinality(I)
  /\ \A n \in DOMAIN a : Nth(I, n) \in I /\ a[n] = s[Nth(I, n)]
LEMMA AtInOrder ==
  ASSUME NEW s, IsList(s), NEW S, NEW I, I = S \cap DOMAIN s
  PROVE  /\ IsList(At(s, S)) /\ IsFiniteSet(I) /\ I \subseteq Nat /\ Cardinality(I) \in Nat
         /\ DOMAIN At(s, S) = 1 .. Cardinality(I) /\ Len(At(s, S)) = Cardinality(I)
         /\ Range(At(s, S)) = {s[i] : i \in I}
         /\ Walks(At(s, S), s, I)
<1>1. PICK N \in Nat : DOMAIN s = 1 .. N
  BY ListShape
<1>2. IsFiniteSet(I) /\ I \subseteq Nat
  <2>1. IsFiniteSet(1 .. N) /\ I \in SUBSET (1 .. N)
    BY <1>1, FS_Interval
  <2>2. IsFiniteSet(I)
    BY <2>1, FS_Subset
  <2> QED BY <2>1, <2>2
<1>3. PICK C : C = Cardinality(I)
  OBVIOUS
<1>4. C \in Nat /\ \A n \in 1 .. C : Nth(I, n) \in I
  BY <1>2, <1>3, Numbering
<1>9. \A i \in I : \E n \in 1 .. C : Nth(I, n) = i
  BY ONLY <1>2, <1>3, Numbering, Zenon
<1>5. At(s, S) = [n \in 1 .. C |-> s[Nth(I, n)]]
  BY <1>3 DEF At, Nth, Below
<1>6. DOMAIN At(s, S) = 1 .. C /\ \A n \in 1 .. C : At(s, S)[n] = s[Nth(I, n)]
  BY <1>5
<1>7. IsList(At(s, S)) /\ Len(At(s, S)) = C
  BY <1>4, <1>5, <1>6, ListOf
<1>8. Range(At(s, S)) = {s[i] : i \in I}
  <2>1. Range(At(s, S)) \subseteq {s[i] : i \in I}
    BY <1>4, <1>6, ZenonT(40) DEF Range
  <2>2. ASSUME NEW i \in I PROVE s[i] \in Range(At(s, S))
    <3>1. PICK n \in 1 .. C : Nth(I, n) = i
      BY <1>9
    <3> QED BY <1>6, <3>1 DEF Range
  <2> QED BY <2>1, <2>2
<1>10. Walks(At(s, S), s, I)
  BY <1>3, <1>4, <1>6, <1>7 DEF Walks
<1> QED BY <1>2, <1>3, <1>4, <1>6, <1>7, <1>8, <1>10

LEMMA AtHolds ==
  ASSUME NEW s, IsList(s), NEW S
  PROVE  /\ IsList(At(s, S)) /\ \A i \in S \cap DOMAIN s : s[i] \in Range(At(s, S))
         /\ \A x \in Range(At(s, S)) : \E i \in S \cap DOMAIN s : x = s[i]
<1>1. PICK I : I = S \cap DOMAIN s
  OBVIOUS
<1>2. IsList(At(s, S)) /\ Range(At(s, S)) = {s[i] : i \in I}
  BY ONLY IsList(s), <1>1, AtInOrder
<1>3. \A i \in I : s[i] \in Range(At(s, S))
  BY ONLY <1>2
<1>4. \A x \in Range(At(s, S)) : \E i \in I : x = s[i]
  BY ONLY <1>2
<1> QED BY ONLY <1>1, <1>2, <1>3, <1>4

LEMMA ImageFinite ==
  ASSUME NEW T, IsFiniteSet(T), NEW h
  PROVE  IsFiniteSet({h[x] : x \in T})
<1>1. PICK A : A = {h[x] : x \in T}
  OBVIOUS
<1>2. PICK f : f = [x \in T |-> h[x]]
  OBVIOUS
<1>3. f \in Surjection(T, A)
  BY <1>1, <1>2 DEF Surjection
<1>4. IsFiniteSet(A)
  BY <1>3, FS_Surjection
<1> QED BY <1>1, <1>4

LEMMA AtNone == ASSUME NEW s PROVE At(s, {}) = << >>
<1>1. {} \cap DOMAIN s = {} /\ Cardinality({}) = 0
  BY FS_EmptySet
<1>2. At(s, {}) = [n \in 1 .. 0 |-> s[CHOOSE i \in {} : Cardinality({k \in {} : k < i}) = n - 1]]
  BY <1>1 DEF At
<1> QED BY <1>2

-----------------------------------------------------------------------------
(* --- folds ---------------------------------------------------------------- *)
LEMMA Climb ==
  ASSUME NEW n \in Nat, NEW Q, 0 \in Q, \A k \in 0 .. n - 1 : k \in Q => k + 1 \in Q
  PROVE  \A k \in 0 .. n : k \in Q
<1> DEFINE T == {k \in 0 .. n : k \notin Q}
<1>1. SUFFICES ASSUME T # {} PROVE FALSE
  BY <1>1
<1>6. T \subseteq Nat
  OBVIOUS
<1>2. PICK k \in T : \A m \in T : k <= m
  <2> HIDE DEF T
  <2> QED BY <1>1, <1>6, Least
<1>3. k \in 0 .. n /\ k # 0 /\ k \notin Q
  BY <1>2
<1>4. k - 1 \in 0 .. n - 1 /\ k - 1 \in 0 .. n /\ (k - 1) + 1 = k /\ ~(k <= k - 1)
  BY <1>3
<1>5. k - 1 \in Q
  BY <1>2, <1>4
<1> QED BY <1>3, <1>4, <1>5

LEMMA NoneLeft == ASSUME NEW S, NEW s \in Seq(S), Len(s) = 0 PROVE s = << >>
OBVIOUS

(* The sequences of a sequence, one after the other, and what they hold.    *)
LEMMA FlattenType ==
  ASSUME NEW S, NEW s \in Seq(Seq(S))
  PROVE  FlattenSeq(s) \in Seq(S)
<1>1. PICK n \in Nat : n = Len(s)
  OBVIOUS
<1>2. CASE n = 0
  <2>1. FlattenSeq(s) = s
    BY <1>1, <1>2 DEF FlattenSeq
  <2>2. s = << >>
    <3>1. PICK T : T = Seq(S)
      OBVIOUS
    <3> QED BY <1>1, <1>2, <3>1, NoneLeft
  <2> QED BY <2>1, <2>2
<1>3. CASE n # 0
  <2> DEFINE Flat(k, f) == f = [i \in 1 .. k |-> IF i = 1 THEN s[i] ELSE f[i - 1] \o s[i]]
             Q == {k \in 0 .. n : \E f : Flat(k, f)}
  <2>1. 0 \in Q
    <3>1. Flat(0, << >>)
      OBVIOUS
    <3> HIDE DEF Flat
    <3>2. \E f : Flat(0, f)
      BY <3>1
    <3> QED BY <3>2
  <2>2. ASSUME NEW k \in 0 .. n - 1, k \in Q PROVE k + 1 \in Q
    <3>1. PICK f : Flat(k, f)
      BY <2>2
    <3>2. PICK m \in 1 .. n : m = k + 1 /\ k = m - 1
      OBVIOUS
    <3> DEFINE g == [i \in 1 .. m |-> IF i = 1 THEN s[i] ELSE f[i - 1] \o s[i]]
    <3>7. \A i \in 1 .. k : f[i] = IF i = 1 THEN s[i] ELSE f[i - 1] \o s[i]
      BY <3>1
    <3>8. \A i \in 1 .. m : g[i] = IF i = 1 THEN s[i] ELSE f[i - 1] \o s[i]
      OBVIOUS
    <3>3. \A i \in 1 .. m - 1 : g[i] = f[i]
      <4> HIDE DEF g
      <4>1. \A i \in 1 .. m - 1 : i \in 1 .. m /\ i \in 1 .. k
        BY <3>2
      <4> QED BY <3>7, <3>8, <4>1
    <3>4. \A i \in 1 .. m : i # 1 => i - 1 \in 1 .. m - 1
      OBVIOUS
    <3>5. \A i \in 1 .. m : i # 1 => g[i] = g[i - 1] \o s[i]
      BY <3>3, <3>4
    <3>6. Flat(m, g)
      BY <3>5
    <3> HIDE DEF Flat, g
    <3>9. \E h : Flat(m, h)
      BY <3>6
    <3> QED BY <3>2, <3>9
  <2>3. n \in Q
    <3> HIDE DEF Q
    <3>1. \A k \in 0 .. n : k \in Q
      BY <2>1, <2>2, Climb
    <3> QED BY <3>1
  <2> DEFINE flatten == CHOOSE f : Flat(n, f)
  <2>4. Flat(n, flatten)
    BY <2>3
  <2>5. FlattenSeq(s) = flatten[n]
    BY <1>1, <1>3 DEF FlattenSeq
  <2> DEFINE R == {k \in 0 .. n : k = 0 \/ flatten[k] \in Seq(S)}
  <2>6. ASSUME NEW k \in 0 .. n - 1, k \in R PROVE k + 1 \in R
    <3>1. PICK m \in 1 .. n : m = k + 1 /\ k = m - 1
      OBVIOUS
    <3>2. s[m] \in Seq(S)
      BY <1>1
    <3>3. flatten[m] = IF m = 1 THEN s[m] ELSE flatten[m - 1] \o s[m]
      BY <2>4
    <3> HIDE DEF flatten
    <3>5. m = 1 \/ flatten[m - 1] \in Seq(S)
      BY <2>6, <3>1
    <3>4. flatten[m] \in Seq(S)
      <4>1. PICK a, b : a = flatten[m - 1] /\ b = s[m]
        OBVIOUS
      <4>2. m = 1 \/ a \o b \in Seq(S)
        BY <3>2, <3>5, <4>1
      <4> QED BY <3>2, <3>3, <4>1, <4>2
    <3> QED BY <3>1, <3>4
  <2>7. \A k \in 0 .. n : k \in R
    <3>1. 0 \in R
      OBVIOUS
    <3> HIDE DEF R
    <3>2. \A k \in 0 .. n : k \in R
      BY <2>6, <3>1, Climb
    <3> QED BY <3>2
  <2>8. n \in R
    <3> HIDE DEF R
    <3> QED BY <2>7
  <2> HIDE DEF flatten
  <2> QED BY <1>3, <2>5, <2>8
<1> QED BY <1>2, <1>3

LEMMA Greatest ==
  ASSUME NEW n \in Nat, NEW T \in SUBSET (1 .. n), T # {}
  PROVE  Max(T) \in T /\ \A y \in T : y <= Max(T)
<1> DEFINE R == {n - y : y \in T}
<1>1. R # {} /\ R \subseteq Nat
  <2>1. \A y \in T : n - y \in Nat
    OBVIOUS
  <2> QED BY <2>1
<1>2. PICK x \in R : \A y \in R : x <= y
  <2> HIDE DEF R
  <2> QED BY <1>1, Least
<1>3. PICK t \in T : x = n - t
  BY <1>2
<1>4. \A y \in T : n - y \in R /\ n - t <= n - y
  BY <1>2, <1>3
<1>5. \A y \in T : y <= t
  BY <1>4
<1>6. \E m \in T : \A y \in T : m >= y
  BY <1>5
<1>7. Max(T) \in T /\ \A y \in T : Max(T) >= y
  BY <1>6 DEF Max
<1> QED BY <1>7

(* Both folds, step by step.                                                 *)
PairTable(b, s) ==
  CHOOSE h : h = [x \in SUBSET DOMAIN s |-> IF x = {} THEN NoPairs ELSE PairNext(b, h[x \ {Max(x)}], s[Max(x)])]
LEMMA PairWalk ==
  ASSUME NEW b, NEW s, IsList(s), NEW n \in Nat, n = Len(s)
  PROVE  \E acc : /\ acc[0] = NoPairs /\ PairTable(b, s)[DOMAIN s] = acc[n]
                  /\ \A k \in 1 .. n : acc[k] = PairNext(b, acc[k - 1], s[k])
<1> DEFINE Fold(k, h) == h = [x \in SUBSET (1 .. k) |-> IF x = {} THEN NoPairs
                                                     ELSE PairNext(b, h[x \ {Max(x)}], s[Max(x)])]
           Q == {k \in 0 .. n : \E h : Fold(k, h)}
<1>1. DOMAIN s = 1 .. n
  BY ListShape
<1>2. 0 \in Q
  <2>1. PICK h : h = [x \in SUBSET (1 .. 0) |-> NoPairs]
    OBVIOUS
  <2>2. \A x \in SUBSET (1 .. 0) : x = {}
    OBVIOUS
  <2>3. Fold(0, h)
    BY <2>1, <2>2
  <2> HIDE DEF Fold
  <2>4. \E g : Fold(0, g)
    BY <2>3
  <2> QED BY <2>4
<1>3. ASSUME NEW k \in 0 .. n - 1, k \in Q PROVE k + 1 \in Q
  <2>1. PICK h : Fold(k, h)
    BY <1>3
  <2>2. PICK m \in 1 .. n : m = k + 1 /\ k = m - 1
    OBVIOUS
  <2> DEFINE g == [x \in SUBSET (1 .. m) |-> IF m \in x THEN PairNext(b, h[x \ {m}], s[m]) ELSE h[x]]
  <2>3. \A x \in SUBSET (1 .. m) : x \ {m} \in SUBSET (1 .. k) /\ x \ {m} \in SUBSET (1 .. m)
    BY <2>2
  <2>4. \A x \in SUBSET (1 .. m) : m \notin x => x \in SUBSET (1 .. k) /\ g[x] = h[x]
    BY <2>2
  <2>5. \A x \in SUBSET (1 .. m) : m \in x => Max(x) = m
    <3> SUFFICES ASSUME NEW x \in SUBSET (1 .. m), m \in x PROVE Max(x) = m
      OBVIOUS
    <3>3. m \in Nat /\ x # {}
      OBVIOUS
    <3>1. Max(x) \in x /\ \A y \in x : y <= Max(x)
      BY <3>3, Greatest
    <3>2. PICK t \in 1 .. m : t = Max(x)
      BY <3>1
    <3> QED BY <3>1, <3>2
  <2>6. \A x \in SUBSET (1 .. m) : x # {} => Max(x) \in x /\ x \ {Max(x)} \in SUBSET (1 .. m)
    <3>1. m \in Nat
      OBVIOUS
    <3> QED BY <3>1, Greatest
  <2>7. \A x \in SUBSET (1 .. k) :
          h[x] = IF x = {} THEN NoPairs ELSE PairNext(b, h[x \ {Max(x)}], s[Max(x)])
    BY <2>1
  <2>8. \A x \in SUBSET (1 .. m) : m \in x => g[x] = PairNext(b, h[x \ {m}], s[m])
    OBVIOUS
  <2> HIDE DEF g
  <2>9. ASSUME NEW x \in SUBSET (1 .. m)
        PROVE  g[x] = IF x = {} THEN NoPairs ELSE PairNext(b, g[x \ {Max(x)}], s[Max(x)])
    <3>1. CASE m \in x
      <4>1. Max(x) = m /\ x # {} /\ g[x \ {m}] = h[x \ {m}]
        BY <2>3, <2>4, <2>5, <3>1
      <4> QED BY <2>8, <3>1, <4>1
    <3>2. CASE m \notin x
      <4>1. x \in SUBSET (1 .. k) /\ g[x] = h[x]
        BY <2>4, <3>2
      <4>2. x # {} => g[x \ {Max(x)}] = h[x \ {Max(x)}]
        <5>1. x # {} => x \ {Max(x)} \in SUBSET (1 .. m) /\ m \notin x \ {Max(x)}
          BY <2>6, <3>2
        <5> QED BY <2>4, <5>1
      <4> QED BY <2>7, <4>1, <4>2
    <3> QED BY <3>1, <3>2
  <2>10. Fold(m, g)
    <3>1. g = [x \in SUBSET (1 .. m) |-> g[x]]
      BY DEF g
    <3> QED BY <2>9, <3>1, Zenon
  <2> HIDE DEF Fold
  <2>11. \E f : Fold(m, f)
    BY <2>10
  <2> QED BY <2>2, <2>11
<1>4. n \in Q
  <2> HIDE DEF Q
  <2>1. \A k \in 0 .. n : k \in Q
    BY <1>2, <1>3, Climb
  <2> QED BY <2>1
<1> DEFINE walk == PairTable(b, s)
<1>11. walk = CHOOSE h : Fold(n, h)
  BY <1>1 DEF PairTable
<1>5. Fold(n, walk)
  <2>1. \E h : Fold(n, h)
    BY <1>4
  <2> HIDE DEF Fold, walk
  <2> QED BY <1>11, <2>1
<1>6. PairTable(b, s)[DOMAIN s] = walk[DOMAIN s]
  OBVIOUS
<1>7. PICK acc : acc = [k \in 0 .. n |-> walk[1 .. k]]
  OBVIOUS
<1>8. \A x \in SUBSET (1 .. n) :
        walk[x] = IF x = {} THEN NoPairs ELSE PairNext(b, walk[x \ {Max(x)}], s[Max(x)])
  BY <1>5
<1> HIDE DEF walk
<1>9. acc[0] = NoPairs /\ walk[DOMAIN s] = acc[n]
  <2>1. 1 .. 0 = {} /\ 1 .. 0 \in SUBSET (1 .. n) /\ 0 \in 0 .. n /\ n \in 0 .. n
    OBVIOUS
  <2>2. acc[0] = walk[1 .. 0] /\ acc[n] = walk[1 .. n]
    BY <1>7, <2>1
  <2>3. walk[1 .. 0] = NoPairs
    BY <1>8, <2>1
  <2> QED BY <1>1, <2>2, <2>3
<1>10. ASSUME NEW k \in 1 .. n PROVE acc[k] = PairNext(b, acc[k - 1], s[k])
  <2>1. 1 .. k \in SUBSET (1 .. n) /\ 1 .. k # {} /\ k - 1 \in 0 .. n /\ k \in 0 .. n
    OBVIOUS
  <2>2. Max(1 .. k) = k
    <3>1. PICK m \in Nat : m = k
      OBVIOUS
    <3>2. 1 .. m \in SUBSET (1 .. m) /\ 1 .. m # {}
      <4>1. 1 \in 1 .. m
        BY <3>1
      <4> QED BY <4>1
    <3>3. Max(1 .. m) \in 1 .. m /\ \A y \in 1 .. m : y <= Max(1 .. m)
      BY <3>2, Greatest
    <3>4. PICK t \in 1 .. m : t = Max(1 .. m)
      BY <3>3
    <3> QED BY <3>1, <3>3, <3>4
  <2>3. (1 .. k) \ {k} = 1 .. k - 1
    OBVIOUS
  <2>4. walk[1 .. k] = PairNext(b, walk[1 .. k - 1], s[k])
    BY <1>8, <2>1, <2>2, <2>3
  <2> QED BY <1>7, <2>1, <2>4
<1> QED BY <1>6, <1>9, <1>10

GroupTable(first, s) ==
  CHOOSE h : h = [x \in SUBSET DOMAIN s |-> IF x = {} THEN first ELSE FoldMember(h[x \ {Max(x)}], Seed(s[Max(x)]))]
LEMMA GroupWalk ==
  ASSUME NEW first, NEW s, IsList(s), NEW n \in Nat, n = Len(s)
  PROVE  \E acc : /\ acc[0] = first /\ GroupTable(first, s)[DOMAIN s] = acc[n]
                  /\ \A k \in 1 .. n : acc[k] = FoldMember(acc[k - 1], Seed(s[k]))
<1> DEFINE Fold(k, h) == h = [x \in SUBSET (1 .. k) |-> IF x = {} THEN first
                                                     ELSE FoldMember(h[x \ {Max(x)}], Seed(s[Max(x)]))]
           Q == {k \in 0 .. n : \E h : Fold(k, h)}
<1>1. DOMAIN s = 1 .. n
  BY ListShape
<1>2. 0 \in Q
  <2>1. PICK h : h = [x \in SUBSET (1 .. 0) |-> first]
    OBVIOUS
  <2>2. \A x \in SUBSET (1 .. 0) : x = {}
    OBVIOUS
  <2>3. Fold(0, h)
    BY <2>1, <2>2
  <2> HIDE DEF Fold
  <2>4. \E g : Fold(0, g)
    BY <2>3
  <2> QED BY <2>4
<1>3. ASSUME NEW k \in 0 .. n - 1, k \in Q PROVE k + 1 \in Q
  <2>1. PICK h : Fold(k, h)
    BY <1>3
  <2>2. PICK m \in 1 .. n : m = k + 1 /\ k = m - 1
    OBVIOUS
  <2> DEFINE g == [x \in SUBSET (1 .. m) |-> IF m \in x THEN FoldMember(h[x \ {m}], Seed(s[m])) ELSE h[x]]
  <2>3. \A x \in SUBSET (1 .. m) : x \ {m} \in SUBSET (1 .. k) /\ x \ {m} \in SUBSET (1 .. m)
    BY <2>2
  <2>4. \A x \in SUBSET (1 .. m) : m \notin x => x \in SUBSET (1 .. k) /\ g[x] = h[x]
    BY <2>2
  <2>5. \A x \in SUBSET (1 .. m) : m \in x => Max(x) = m
    <3> SUFFICES ASSUME NEW x \in SUBSET (1 .. m), m \in x PROVE Max(x) = m
      OBVIOUS
    <3>3. m \in Nat /\ x # {}
      OBVIOUS
    <3>1. Max(x) \in x /\ \A y \in x : y <= Max(x)
      BY <3>3, Greatest
    <3>2. PICK t \in 1 .. m : t = Max(x)
      BY <3>1
    <3> QED BY <3>1, <3>2
  <2>6. \A x \in SUBSET (1 .. m) : x # {} => Max(x) \in x /\ x \ {Max(x)} \in SUBSET (1 .. m)
    <3>1. m \in Nat
      OBVIOUS
    <3> QED BY <3>1, Greatest
  <2>7. \A x \in SUBSET (1 .. k) :
          h[x] = IF x = {} THEN first ELSE FoldMember(h[x \ {Max(x)}], Seed(s[Max(x)]))
    BY <2>1
  <2>8. \A x \in SUBSET (1 .. m) : m \in x => g[x] = FoldMember(h[x \ {m}], Seed(s[m]))
    OBVIOUS
  <2> HIDE DEF g
  <2>9. ASSUME NEW x \in SUBSET (1 .. m)
        PROVE  g[x] = IF x = {} THEN first ELSE FoldMember(g[x \ {Max(x)}], Seed(s[Max(x)]))
    <3>1. CASE m \in x
      <4>1. Max(x) = m /\ x # {} /\ g[x \ {m}] = h[x \ {m}]
        BY <2>3, <2>4, <2>5, <3>1
      <4> QED BY <2>8, <3>1, <4>1
    <3>2. CASE m \notin x
      <4>1. x \in SUBSET (1 .. k) /\ g[x] = h[x]
        BY <2>4, <3>2
      <4>2. x # {} => g[x \ {Max(x)}] = h[x \ {Max(x)}]
        <5>1. x # {} => x \ {Max(x)} \in SUBSET (1 .. m) /\ m \notin x \ {Max(x)}
          BY <2>6, <3>2
        <5> QED BY <2>4, <5>1
      <4> QED BY <2>7, <4>1, <4>2
    <3> QED BY <3>1, <3>2
  <2>10. Fold(m, g)
    <3>1. g = [x \in SUBSET (1 .. m) |-> g[x]]
      BY DEF g
    <3> QED BY <2>9, <3>1, Zenon
  <2> HIDE DEF Fold
  <2>11. \E f : Fold(m, f)
    BY <2>10
  <2> QED BY <2>2, <2>11
<1>4. n \in Q
  <2> HIDE DEF Q
  <2>1. \A k \in 0 .. n : k \in Q
    BY <1>2, <1>3, Climb
  <2> QED BY <2>1
<1> DEFINE walk == GroupTable(first, s)
<1>11. walk = CHOOSE h : Fold(n, h)
  BY <1>1 DEF GroupTable
<1>5. Fold(n, walk)
  <2>1. \E h : Fold(n, h)
    BY <1>4
  <2> HIDE DEF Fold, walk
  <2> QED BY <1>11, <2>1
<1>6. GroupTable(first, s)[DOMAIN s] = walk[DOMAIN s]
  OBVIOUS
<1>7. PICK acc : acc = [k \in 0 .. n |-> walk[1 .. k]]
  OBVIOUS
<1>8. \A x \in SUBSET (1 .. n) :
        walk[x] = IF x = {} THEN first ELSE FoldMember(walk[x \ {Max(x)}], Seed(s[Max(x)]))
  BY <1>5
<1> HIDE DEF walk
<1>9. acc[0] = first /\ walk[DOMAIN s] = acc[n]
  <2>1. 1 .. 0 = {} /\ 1 .. 0 \in SUBSET (1 .. n) /\ 0 \in 0 .. n /\ n \in 0 .. n
    OBVIOUS
  <2>2. acc[0] = walk[1 .. 0] /\ acc[n] = walk[1 .. n]
    BY <1>7, <2>1
  <2>3. walk[1 .. 0] = first
    BY <1>8, <2>1
  <2> QED BY <1>1, <2>2, <2>3
<1>10. ASSUME NEW k \in 1 .. n PROVE acc[k] = FoldMember(acc[k - 1], Seed(s[k]))
  <2>1. 1 .. k \in SUBSET (1 .. n) /\ 1 .. k # {} /\ k - 1 \in 0 .. n /\ k \in 0 .. n
    OBVIOUS
  <2>2. Max(1 .. k) = k
    <3>1. PICK m \in Nat : m = k
      OBVIOUS
    <3>2. 1 .. m \in SUBSET (1 .. m) /\ 1 .. m # {}
      <4>1. 1 \in 1 .. m
        BY <3>1
      <4> QED BY <4>1
    <3>3. Max(1 .. m) \in 1 .. m /\ \A y \in 1 .. m : y <= Max(1 .. m)
      BY <3>2, Greatest
    <3>4. PICK t \in 1 .. m : t = Max(1 .. m)
      BY <3>3
    <3> QED BY <3>1, <3>3, <3>4
  <2>3. (1 .. k) \ {k} = 1 .. k - 1
    OBVIOUS
  <2>4. walk[1 .. k] = FoldMember(walk[1 .. k - 1], Seed(s[k]))
    BY <1>8, <2>1, <2>2, <2>3
  <2> QED BY <1>7, <2>1, <2>4
<1> QED BY <1>6, <1>9, <1>10

(* Provenance merged over a set: a field is what all agree on or empty; a   *)
(* signature and the tools that corroborate are kept by union.              *)
Agreed == {"probe", "context", "inTest", "direct", "unconfirmed", "placeholder", "notImported", "auth",
           "applicability"}
MergedFrom(m, ps) ==
  /\ DOMAIN m = DOMAIN NoProvenance
  /\ m.anchored <=> \E p \in ps : p.anchored
  /\ m.tools = UNION {p.tools : p \in ps}
  /\ m.crossTool <=> m.tools # {}
  /\ \A k \in Agreed : m[k] = NoProvenance[k] \/ \A p \in ps : p[k] = m[k]

LEMMA MergeStep ==
  ASSUME NEW a, NEW m, NEW qs, MergedFrom(m, qs), NEW w, w = MergeScoringProvenance(a, m)
  PROVE  MergedFrom(w, qs \cup {a})
<1>1. w.anchored <=> a.anchored \/ m.anchored
  BY DEF MergeScoringProvenance, NoProvenance
<1>2. w.tools = a.tools \cup m.tools
  BY DEF MergeScoringProvenance, NoProvenance
<1>3. w.crossTool <=> a.tools \cup m.tools # {}
  BY DEF MergeScoringProvenance, NoProvenance
<1>4. \A k \in Agreed : w[k] = AgreementOr(a[k], m[k], NoProvenance[k])
  BY DEF MergeScoringProvenance, Agreed, NoProvenance
<1>5. w.anchored <=> \E p \in qs \cup {a} : p.anchored
  BY <1>1 DEF MergedFrom
<1>6. w.tools = UNION {p.tools : p \in qs \cup {a}}
  BY <1>2 DEF MergedFrom
<1>7. ASSUME NEW k \in Agreed, w[k] # NoProvenance[k] PROVE \A p \in qs \cup {a} : p[k] = w[k]
  BY <1>4, <1>7 DEF AgreementOr, MergedFrom
<1>8. DOMAIN w = DOMAIN NoProvenance
  BY DEF MergeScoringProvenance
<1> QED BY <1>2, <1>3, <1>5, <1>6, <1>7, <1>8 DEF MergedFrom

AnyOf(x) == CHOOSE p \in x : TRUE
Rest1(x) == x \ {AnyOf(x)}
MergeTable(first, S) ==
  CHOOSE h : h = [x \in SUBSET S |-> IF x = {} THEN first ELSE MergeScoringProvenance(AnyOf(x), h[x \ {AnyOf(x)}])]
LEMMA MergeTableFound ==
  ASSUME NEW first, NEW S, IsFiniteSet(S), NEW walk, walk = MergeTable(first, S)
  PROVE  \A x \in SUBSET S : walk[x] = IF x = {} THEN first ELSE MergeScoringProvenance(AnyOf(x), walk[Rest1(x)])
<1> DEFINE Small(k) == {x \in SUBSET S : Cardinality(x) <= k}
           Table(D, h) == h = [x \in D |-> IF x = {} THEN first ELSE MergeScoringProvenance(AnyOf(x), h[Rest1(x)])]
           n == Cardinality(S)
           Q == {k \in 0 .. n : \E h : Table(Small(k), h)}
<1>1. n \in Nat /\ \A x \in SUBSET S : IsFiniteSet(x) /\ Cardinality(x) \in Nat /\ Cardinality(x) <= n
  BY FS_Subset, FS_CardinalityType
<1>2. \A x \in SUBSET S : x # {} => AnyOf(x) \in x /\ Rest1(x) \in SUBSET S /\ Cardinality(Rest1(x)) = Cardinality(x) - 1
  <2> SUFFICES ASSUME NEW x \in SUBSET S, x # {}
               PROVE  AnyOf(x) \in x /\ Rest1(x) \in SUBSET S /\ Cardinality(Rest1(x)) = Cardinality(x) - 1
    OBVIOUS
  <2>1. AnyOf(x) \in x
    BY DEF AnyOf
  <2>2. Cardinality(x \ {AnyOf(x)}) = Cardinality(x) - 1
    BY <1>1, <2>1, FS_RemoveElement
  <2> QED BY <2>1, <2>2 DEF Rest1
<1>3. \A x \in SUBSET S : Cardinality(x) = 0 <=> x = {}
  BY <1>1, FS_EmptySet
<1> HIDE DEF n
<1>4. 0 \in Q
  <2>1. PICK h : h = [x \in Small(0) |-> first]
    OBVIOUS
  <2>2. \A x \in Small(0) : x = {}
    BY <1>1, <1>3
  <2>3. Table(Small(0), h)
    BY <2>1, <2>2
  <2>4. \E g : Table(Small(0), g)
    <3> HIDE DEF Table
    <3> QED BY <2>3
  <2> HIDE DEF Table, Small
  <2> QED BY <1>1, <2>4
<1>5. ASSUME NEW k \in 0 .. n - 1, k \in Q PROVE k + 1 \in Q
  <2>1. PICK h : Table(Small(k), h)
    BY <1>5
  <2>2. PICK m \in 0 .. n : m = k + 1 /\ k = m - 1
    BY <1>1
  <2> DEFINE g == [x \in Small(m) |-> IF x = {} THEN first ELSE MergeScoringProvenance(AnyOf(x), h[Rest1(x)])]
  <2>3. \A x \in Small(k) : x \in Small(m) /\ g[x] = h[x]
    <3>1. \A x \in Small(k) : x \in Small(m)
      BY <1>1, <2>2
    <3>2. \A x \in Small(k) : h[x] = IF x = {} THEN first ELSE MergeScoringProvenance(AnyOf(x), h[Rest1(x)])
      BY <2>1
    <3>3. \A x \in Small(m) : g[x] = IF x = {} THEN first ELSE MergeScoringProvenance(AnyOf(x), h[Rest1(x)])
      OBVIOUS
    <3> HIDE DEF g, Small
    <3> QED BY <3>1, <3>2, <3>3
  <2>4. \A x \in Small(m) : x # {} => Rest1(x) \in Small(k)
    BY <1>1, <1>2, <2>2
  <2>5. \A x \in Small(m) : g[x] = IF x = {} THEN first ELSE MergeScoringProvenance(AnyOf(x), g[Rest1(x)])
    <3>1. \A x \in Small(m) : g[x] = IF x = {} THEN first ELSE MergeScoringProvenance(AnyOf(x), h[Rest1(x)])
      OBVIOUS
    <3> HIDE DEF g, Small
    <3> QED BY <2>3, <2>4, <3>1
  <2>6. Table(Small(m), g)
    <3>1. g = [x \in Small(m) |-> g[x]]
      OBVIOUS
    <3> HIDE DEF g, Small
    <3> QED BY <2>5, <3>1, Zenon
  <2>7. \E f : Table(Small(m), f)
    <3> HIDE DEF Table, g, Small
    <3> QED BY <2>6
  <2> HIDE DEF Table, Small
  <2> QED BY <2>2, <2>7
<1>6. \E h : Table(Small(n), h)
  <2>1. 0 \in Q /\ \A k \in 0 .. n - 1 : k \in Q => k + 1 \in Q
    BY <1>4, <1>5
  <2> HIDE DEF Q
  <2>2. \A k \in 0 .. n : k \in Q
    BY <1>1, <2>1, Climb
  <2>3. n \in Q
    BY <1>1, <2>2
  <2> QED BY <2>3 DEF Q
<1>7. Small(n) = SUBSET S
  BY <1>1
<1>8. Table(SUBSET S, walk)
  <2>1. walk = CHOOSE h : Table(SUBSET S, h)
    BY DEF MergeTable, Rest1
  <2>2. \E h : Table(SUBSET S, h)
    BY <1>6, <1>7
  <2> HIDE DEF Table
  <2> QED BY <2>1, <2>2
<1> QED BY <1>8

LEMMA Merging ==
  ASSUME NEW ps, IsFiniteSet(ps), ps # {},
         \A p \in ps : DOMAIN p = DOMAIN NoProvenance /\ (p.crossTool <=> p.tools # {})
  PROVE  MergedFrom(MergeAll(ps), ps)
<1>1. PICK first \in ps : first = CHOOSE p \in ps : TRUE
  OBVIOUS
<1>10. DOMAIN first = DOMAIN NoProvenance /\ (first.crossTool <=> first.tools # {})
  OBVIOUS
<1> DEFINE S == ps \ {first}
           walk == MergeTable(first, S)
           n == Cardinality(S)
<1>2. MergeAll(ps) = walk[S]
  <2>1. MergeAll(ps) = MergeTable(CHOOSE p \in ps : TRUE, ps \ {CHOOSE p \in ps : TRUE})[ps \ {CHOOSE p \in ps : TRUE}]
    BY Zenon DEF MergeAll, FoldSet, MapThenFoldSet, MergeTable, AnyOf
  <2> QED BY <1>1, <2>1
<1>3. IsFiniteSet(S)
  BY FS_Subset
<1>4. \A x \in SUBSET S : walk[x] = IF x = {} THEN first ELSE MergeScoringProvenance(AnyOf(x), walk[Rest1(x)])
  <2> HIDE DEF S
  <2> QED BY <1>3, MergeTableFound
<1>5. n \in Nat /\ \A x \in SUBSET S : IsFiniteSet(x) /\ Cardinality(x) \in 0 .. n
  <2>1. n \in Nat /\ \A x \in SUBSET S : IsFiniteSet(x) /\ Cardinality(x) \in Nat /\ Cardinality(x) <= n
    BY <1>3, FS_Subset, FS_CardinalityType
  <2> HIDE DEF S, n
  <2> QED BY <2>1
<1> DEFINE Q == {k \in 0 .. n : \A x \in SUBSET S : Cardinality(x) = k => MergedFrom(walk[x], x \cup {first})}
<1> HIDE DEF n, walk, S
<1>6. 0 \in Q
  <2>1. MergedFrom(first, {first})
    BY <1>1, <1>10 DEF MergedFrom
  <2>2. \A x \in SUBSET S : Cardinality(x) = 0 => x = {}
    BY <1>5, FS_EmptySet
  <2>3. {} \cup {first} = {first}
    OBVIOUS
  <2>4. \A x \in SUBSET S : Cardinality(x) = 0 => MergedFrom(walk[x], x \cup {first})
    BY <1>4, <2>1, <2>2, <2>3
  <2>5. 0 \in 0 .. n
    BY <1>5
  <2> QED BY <2>4, <2>5
<1>7. ASSUME NEW k \in 0 .. n - 1, k \in Q PROVE k + 1 \in Q
  <2>1. ASSUME NEW x \in SUBSET S, Cardinality(x) = k + 1 PROVE MergedFrom(walk[x], x \cup {first})
    <3>1. x # {}
      BY <2>1, FS_EmptySet
    <3>2. AnyOf(x) \in x
      BY <3>1 DEF AnyOf
    <3>3. Rest1(x) \in SUBSET S /\ Cardinality(x \ {AnyOf(x)}) = Cardinality(x) - 1
      BY <1>5, <3>2, FS_RemoveElement DEF Rest1
    <3>4. Cardinality(Rest1(x)) = k
      BY <2>1, <3>3 DEF Rest1
    <3>5. MergedFrom(walk[Rest1(x)], Rest1(x) \cup {first})
      BY <1>7, <3>3, <3>4
    <3>6. PICK w, m, a : /\ a = AnyOf(x) /\ m = walk[Rest1(x)]
                         /\ w = MergeScoringProvenance(a, m)
      OBVIOUS
    <3>7. MergedFrom(w, (Rest1(x) \cup {first}) \cup {a})
      BY <3>5, <3>6, MergeStep
    <3>8. (Rest1(x) \cup {first}) \cup {a} = x \cup {first}
      BY <3>2, <3>6 DEF Rest1
    <3> QED BY <1>4, <3>1, <3>6, <3>7, <3>8
  <2>2. k + 1 \in 0 .. n
    BY <1>5
  <2> QED BY <2>1, <2>2
<1>8. n \in Q
  <2>1. 0 \in Q /\ \A k \in 0 .. n - 1 : k \in Q => k + 1 \in Q
    BY <1>6, <1>7
  <2> HIDE DEF Q
  <2>2. \A k \in 0 .. n : k \in Q
    BY <1>5, <2>1, Climb
  <2> QED BY <1>5, <2>2
<1>9. S \in SUBSET S /\ Cardinality(S) = n /\ S \cup {first} = ps
  BY <1>1 DEF S, n
<1> QED BY <1>2, <1>8, <1>9

-----------------------------------------------------------------------------
(* --- evidence ------------------------------------------------------------- *)
EvidenceFields ==
  {"source", "category", "title", "severity", "confidence", "tier", "at", "affected", "text", "refs",
   "reachable", "chain", "route", "routeConfirmed", "provenPath", "probe", "context", "inTest", "direct",
   "unconfirmed", "placeholder", "anchored", "notImported", "applicability", "auth", "weakness", "tool",
   "lineEnd", "crossTool", "tools"}
Internal == {"probe", "context", "inTest", "direct", "unconfirmed", "placeholder", "notImported", "anchored",
             "crossTool", "tools", "auth", "applicability", "weakness", "tool", "lineEnd"}
LEMMA Fields == DOMAIN Blank = EvidenceFields
BY DEF Blank, EvidenceFields

LEMMA PublishedShape ==
  ASSUME NEW e, DOMAIN e = EvidenceFields, NEW p, p = Published(e)
  PROVE  /\ DOMAIN p = EvidenceFields
         /\ \A k \in EvidenceFields \ Internal : p[k] = e[k]
         /\ \A k \in Internal : p[k] = Blank[k]
<1>1. DOMAIN NoIdentity = {"weakness", "tool", "lineEnd"}
  BY DEF NoIdentity
<1>2. DOMAIN NoProvenance = Internal \ {"weakness", "tool", "lineEnd"}
  BY DEF NoProvenance, Internal
<1>3. \A k \in DOMAIN NoIdentity : NoIdentity[k] = Blank[k]
  <2>1. NoIdentity.weakness = Blank.weakness /\ NoIdentity.tool = Blank.tool /\ NoIdentity.lineEnd = Blank.lineEnd
    BY DEF NoIdentity, Blank
  <2> QED BY <1>1, <2>1
<1>4. \A k \in DOMAIN NoProvenance : NoProvenance[k] = Blank[k]
  <2>1. /\ NoProvenance.probe = Blank.probe /\ NoProvenance.context = Blank.context /\ NoProvenance.inTest = Blank.inTest
        /\ NoProvenance.direct = Blank.direct /\ NoProvenance.unconfirmed = Blank.unconfirmed
        /\ NoProvenance.placeholder = Blank.placeholder /\ NoProvenance.notImported = Blank.notImported
    BY DEF NoProvenance, Blank
  <2>2. /\ NoProvenance.anchored = Blank.anchored /\ NoProvenance.crossTool = Blank.crossTool
        /\ NoProvenance.tools = Blank.tools /\ NoProvenance.auth = Blank.auth
        /\ NoProvenance.applicability = Blank.applicability
    BY DEF NoProvenance, Blank
  <2> QED BY <1>2, <2>1, <2>2 DEF Internal
<1>5. PICK o : o = Overlay(e, NoProvenance)
  OBVIOUS
<1>6. DOMAIN o = EvidenceFields /\ \A k \in EvidenceFields : o[k] = IF k \in DOMAIN NoProvenance THEN NoProvenance[k] ELSE e[k]
  BY <1>5 DEF Overlay
<1>7. DOMAIN p = EvidenceFields /\ \A k \in EvidenceFields : p[k] = IF k \in DOMAIN NoIdentity THEN NoIdentity[k] ELSE o[k]
  BY <1>5, <1>6 DEF Published, Overlay
<1>8. Internal \subseteq EvidenceFields
  BY DEF Internal, EvidenceFields
<1> QED BY <1>1, <1>2, <1>3, <1>4, <1>6, <1>7, <1>8 DEF Internal

(* What all evidence satisfies until it is published.                       *)
Sources == {"whitebox", "blackbox", "correlated", "imported"}
Sound(e) ==
  /\ DOMAIN e = EvidenceFields /\ e.source \in Sources /\ IsLocation(e.at) /\ e.text \in Nat
  /\ e.severity \in Severities /\ e.confidence \in Confidences
  /\ e.context \in Contexts /\ e.auth \in Expectations /\ e.applicability \in Verdicts
  /\ e.probe # "" \/ e.direct => e.source = "blackbox"
  /\ e.inTest => IsTestPath(e.at)
  /\ e.affected = {}
  /\ "" \notin e.tools /\ (e.crossTool <=> e.tools # {})
  /\ e.provenPath => e.routeConfirmed /\ e.reachable /\ e.tier # "semgrep" /\ e.source = "correlated"
(* What evidence as it is gathered says in its published fields.            *)
Flags(m) == {m.reachable, m.provenPath, m.routeConfirmed} \subseteq BOOLEAN
Fit(e) == e.at \in Locations /\ e.tier \in Tiers /\ Flags(e)

LEMMA EmittedSound ==
  ASSUME NEW e, NEW s \in {"whitebox", "blackbox"}, Emitted(e, s)
  PROVE  Sound(e)
BY Fields DEF Emitted, Sound, Sources

Runs == UNION {Range(doc) : doc \in Range(Documents)}
Foreign == {NormalizeResult(x[2], x[1]) : x \in UNION {{<<run, res>> : res \in Range(run.results)} : run \in Runs}}
LEMMA ForeignHolds == \A run \in Runs : \A res \in Range(run.results) : NormalizeResult(res, run) \in Foreign
<1> SUFFICES ASSUME NEW run \in Runs, NEW res \in Range(run.results) PROVE NormalizeResult(res, run) \in Foreign
  OBVIOUS
<1>1. PICK x : x = <<run, res>>
  OBVIOUS
<1>2. x \in UNION {{<<w, v>> : v \in Range(w.results)} : w \in Runs} /\ x[1] = run /\ x[2] = res
  BY <1>1
<1> QED BY <1>2 DEF Foreign

LEMMA ForeignSound == \A e \in Foreign : Sound(e) /\ e.source = "imported" /\ Fit(e)
<1> SUFFICES ASSUME NEW run \in Runs, NEW res \in Range(run.results), NEW e, e = NormalizeResult(res, run)
             PROVE  Sound(e) /\ e.source = "imported" /\ Fit(e)
  BY DEF Foreign
<1>1. IsLocation(res.at)
  BY EmittersAssumption DEF Runs
<1>2. PICK at : at = NormalizeLocation(res) /\ IsLocation(at) /\ at \in Locations
  <2>1. IsLocation(Unknown) /\ Unknown \in Locations
    BY DEF IsLocation, Unknown, Locations
  <2>2. res.at \in Locations
    BY DEF Locations, Runs
  <2> QED BY <1>1, <2>1, <2>2 DEF NormalizeLocation
<1>3. PICK rule, level : rule = ResolveRule(res, run.rules) /\ level = ResolveLevel(res, rule)
  OBVIOUS
<1>4. PICK sev \in Severities : sev = MapSeverity(level, rule)
  BY DEF MapSeverity, Severities
<1>5. PICK conf \in Confidences : conf = MapConfidence(level, rule)
  BY DEF MapConfidence, Confidences
<1>6. PICK b : b = Blank
  OBVIOUS
<1>12. PICK cwes : cwes = (rule.cwes \cup res.cwes) \cap CWEs
  OBVIOUS
<1>13. PICK title : title = IF rule.title # "" THEN rule.title ELSE res.title
  OBVIOUS
<1>14. PICK category : category = MapCategory(cwes, run.tool)
  OBVIOUS
<1>15. PICK end : end = IF at.line = 0 \/ res.lineEnd < at.line THEN 0 ELSE res.lineEnd
  OBVIOUS
<1>16. PICK refs : refs = cwes \cup {"tool:" \o run.tool}
  BY Zenon
<1>7. e = [b EXCEPT !.source = "imported", !.title = title, !.severity = sev, !.confidence = conf,
                      !.category = category, !.at = at, !.lineEnd = end, !.weakness = cwes,
                      !.tool = run.tool, !.refs = refs, !.text = at.n]
  BY <1>2, <1>3, <1>4, <1>5, <1>6, <1>12, <1>13, <1>14, <1>15, <1>16, Zenon DEF NormalizeResult
<1>8. /\ DOMAIN b = EvidenceFields /\ b.context = "" /\ b.auth = "" /\ b.applicability = "" /\ b.probe = ""
      /\ ~b.direct /\ ~b.inTest /\ b.affected = {} /\ b.tools = {} /\ ~b.crossTool /\ ~b.provenPath
      /\ b.tier = "" /\ b.reachable = FALSE /\ b.provenPath = FALSE /\ b.routeConfirmed = FALSE
  BY <1>6, Fields DEF Blank
<1>9. DOMAIN e = EvidenceFields /\ e.source = "imported" /\ e.at = at /\ e.text = at.n /\ e.severity = sev /\ e.confidence = conf
  BY <1>7, <1>8, ZenonT(40) DEF EvidenceFields
<1>17. \A k \in {"context", "auth", "applicability", "probe", "direct", "inTest", "affected", "tools", "crossTool", "provenPath",
                 "tier", "reachable", "routeConfirmed"} : e[k] = b[k]
  <2>1. \A k \in DOMAIN b : k \notin {"source", "title", "severity", "confidence", "category", "at", "lineEnd", "weakness", "tool", "refs", "text"} => e[k] = b[k]
    BY <1>7
  <2> QED BY <1>8, <2>1 DEF EvidenceFields
<1>10. /\ e.context = "" /\ e.auth = "" /\ e.applicability = "" /\ e.probe = ""
       /\ ~e.direct /\ ~e.inTest /\ e.affected = {} /\ e.tools = {} /\ ~e.crossTool /\ ~e.provenPath
  BY <1>8, <1>17
<1>11. at.n \in Nat
  BY <1>2 DEF IsLocation
<1>18. Fit(e)
  <2>1. e.tier = "" /\ e.reachable = FALSE /\ e.provenPath = FALSE /\ e.routeConfirmed = FALSE
    BY <1>8, <1>17
  <2>2. Flags(e)
    BY <2>1 DEF Flags
  <2> QED BY <1>2, <1>9, <2>1, <2>2 DEF Fit, Tiers
<1> QED BY <1>2, <1>9, <1>10, <1>11, <1>18 DEF Sound, Sources, Contexts, Expectations, Verdicts

LEMMA ImportedList ==
  ASSUME NEW F
  PROVE  Imported(F) \in Seq(Foreign) /\ IsList(Imported(F)) /\ Range(Imported(F)) \subseteq Foreign
<1>1. ASSUME NEW doc \in Range(Documents) PROVE Normalize(doc) \in Seq(Foreign)
  <2> DEFINE kept(r) == At(doc[r].results, {i \in DOMAIN doc[r].results : ~IsSuppressed(doc[r].results[i])})
             part(r) == [i \in DOMAIN kept(r) |-> NormalizeResult(kept(r)[i], doc[r])]
             parts == [r \in DOMAIN doc |-> part(r)]
  <2>1. IsList(doc)
    BY EmittersAssumption, <1>1 DEF IsList
  <2>2. PICK n \in Nat : DOMAIN doc = 1 .. n
    BY <2>1, ListShape
  <2>3. ASSUME NEW r \in DOMAIN doc PROVE part(r) \in Seq(Foreign)
    <3>7. PICK run : run = doc[r] /\ run \in Range(doc)
      BY <2>3 DEF Range
    <3>8. run \in Runs
      BY <1>1, <3>7 DEF Runs
    <3>9. IsList(run.results)
      BY EmittersAssumption, <1>1, <3>7 DEF IsList
    <3>1. doc[r] \in Runs /\ IsList(doc[r].results)
      BY <3>7, <3>8, <3>9
    <3>2. PICK I : I = {i \in DOMAIN doc[r].results : ~IsSuppressed(doc[r].results[i])} \cap DOMAIN doc[r].results
      OBVIOUS
    <3>3. IsList(kept(r)) /\ Range(kept(r)) = {doc[r].results[i] : i \in I}
      BY <3>1, <3>2, AtInOrder
    <3>4. Range(kept(r)) \subseteq Range(doc[r].results)
      BY <3>2, <3>3 DEF Range
    <3> HIDE DEF kept
    <3>5. PICK m \in Nat : DOMAIN kept(r) = 1 .. m
      BY <3>3, ListShape
    <3>6. \A i \in 1 .. m : NormalizeResult(kept(r)[i], doc[r]) \in Foreign
      <4>1. \A i \in 1 .. m : kept(r)[i] \in Range(doc[r].results)
        BY <3>4, <3>5 DEF Range
      <4> QED BY <3>1, <4>1, ForeignHolds
    <3> QED BY <3>5, <3>6
  <2>4. Normalize(doc) = FlattenSeq(parts)
    BY Zenon DEF Normalize
  <2> HIDE DEF part
  <2>5. parts \in Seq(Seq(Foreign))
    BY <2>2, <2>3
  <2> QED BY <2>4, <2>5, FlattenType
<1>2. PICK n \in Nat : DOMAIN Documents = 1 .. n
  BY EmittersAssumption, ListShape DEF IsList
<1> DEFINE docs == [d \in DOMAIN Documents |-> IF d \in F THEN Normalize(Documents[d]) ELSE << >>]
<1>3. \A d \in DOMAIN Documents : docs[d] \in Seq(Foreign)
  BY <1>1 DEF Range
<1>4. docs \in Seq(Seq(Foreign))
  BY <1>2, <1>3
<1>5. Imported(F) \in Seq(Foreign)
  BY <1>4, FlattenType DEF Imported
<1>6. ASSUME NEW S, NEW s \in Seq(S) PROVE IsList(s) /\ Range(s) \subseteq S
  BY DEF IsList, Range
<1> QED BY <1>5, <1>6

(* --- pairing --- *)
LEMMA Smallest ==
  ASSUME NEW T, T \subseteq Nat, T # {}
  PROVE  Min(T) \in T /\ \A y \in T : Min(T) <= y
<1>1. \E x \in T : \A y \in T : x =< y
  BY Least
<1> QED BY <1>1 DEF Min

(* A match is a free black-box finding.                                     *)
LEMMA MatchFree ==
  ASSUME NEW wf, NEW bb, IsList(bb), NEW taken, NEW m, m = FindCorrelationMatch(wf, bb, taken), m # NoMatch
  PROVE  m.i \in DOMAIN bb \ taken /\ \E r \in BOOLEAN : m.route = r
<1> DEFINE free == DOMAIN bb \ taken
<1>1. PICK n \in Nat : DOMAIN bb = 1 .. n
  BY ListShape
<1>2. PICK route \in SUBSET free : route = {i \in free : Related(wf, bb[i]) /\ RouteMatches(wf.route, bb[i].at)}
  OBVIOUS
<1>3. PICK exact \in SUBSET free :
        exact = {i \in free : Related(wf, bb[i]) /\ NormalizeEndpoint(bb[i].at) = NormalizeEndpoint(wf.at)}
  OBVIOUS
<1>4. PICK own \in SUBSET exact : own = {i \in exact : bb[i].category = wf.category}
  OBVIOUS
<1>5. PICK suffix \in SUBSET free : suffix = {i \in free : Related(wf, bb[i]) /\ PathSuffixMatch(wf.at, bb[i].at)}
  OBVIOUS
<1>6. PICK fuzzy \in SUBSET free : fuzzy = {i \in free : Related(wf, bb[i]) /\ SegmentsRelated(wf.at, bb[i].at)}
  OBVIOUS
<1>7. m = CASE route # {} -> [i |-> Min(route), route |-> TRUE]
            [] route = {} /\ own # {} -> [i |-> Min(own), route |-> FALSE]
            [] route = {} /\ own = {} /\ exact # {} -> [i |-> Min(exact), route |-> FALSE]
            [] route = {} /\ exact = {} /\ suffix # {} -> [i |-> Min(suffix), route |-> FALSE]
            [] route = {} /\ exact = {} /\ suffix = {} /\ fuzzy # {} -> [i |-> Min(fuzzy), route |-> FALSE]
            [] OTHER -> NoMatch
  BY <1>2, <1>3, <1>4, <1>5, <1>6, Zenon DEF FindCorrelationMatch
<1>8. \A T \in SUBSET free : T # {} => Min(T) \in free
  BY <1>1, Smallest
<1> HIDE DEF free
<1>9. \/ route # {} /\ m = [i |-> Min(route), route |-> TRUE]
      \/ own # {} /\ m = [i |-> Min(own), route |-> FALSE]
      \/ exact # {} /\ m = [i |-> Min(exact), route |-> FALSE]
      \/ suffix # {} /\ m = [i |-> Min(suffix), route |-> FALSE]
      \/ fuzzy # {} /\ m = [i |-> Min(fuzzy), route |-> FALSE]
  BY <1>4, <1>7
<1>10. own \in SUBSET free /\ exact \in SUBSET free
  BY <1>4
<1>11. m.i \in free /\ (m.route = TRUE \/ m.route = FALSE)
  BY <1>2, <1>5, <1>6, <1>8, <1>9, <1>10
<1> QED BY <1>11 DEF free

LEMMA Escalated ==
  ASSUME NEW s \in Severities
  PROVE  /\ EscalateSeverity(s) \in Severities /\ SeverityRank(EscalateSeverity(s)) \in Nat
         /\ SeverityRank(s) \in Nat /\ SeverityRank(EscalateSeverity(s)) >= SeverityRank(s)
BY DEF Severities, EscalateSeverity, SeverityRank

LEMMA MergedSound ==
  ASSUME NEW b, NEW w, NEW r \in BOOLEAN, Sound(b), Sound(w), NEW o, o = MergeFindings(b, w, r)
  PROVE  /\ Sound(o) /\ o.source = "correlated" /\ ~o.inTest
         /\ o.category = b.category /\ o.at = b.at /\ o.title = b.title /\ o.confidence = "HIGH"
         /\ SeverityRank(o.severity) >= SeverityRank(b.severity)
         /\ SeverityRank(o.severity) >= SeverityRank(w.severity)
<1>1. PICK e : e = Blank
  OBVIOUS
<1>2. PICK higher : higher = HigherSeverity(b.severity, w.severity)
  OBVIOUS
<1>3. PICK once : once = EscalateSeverity(higher)
  OBVIOUS
<1> DEFINE traced == w.reachable /\ w.tier # "semgrep"
<1>4. PICK sev : sev = IF traced /\ r THEN "CRITICAL" ELSE IF traced THEN EscalateSeverity(once) ELSE once
  OBVIOUS
<1>5. /\ sev \in Severities /\ SeverityRank(sev) >= SeverityRank(b.severity)
      /\ SeverityRank(sev) >= SeverityRank(w.severity)
  <2>1. b.severity \in Severities /\ w.severity \in Severities
    BY DEF Sound
  <2>2. \A x \in Severities : SeverityRank(x) \in Nat /\ SeverityRank(x) <= 5
    BY DEF Severities, SeverityRank
  <2>3. /\ higher \in Severities /\ SeverityRank(higher) >= SeverityRank(b.severity)
        /\ SeverityRank(higher) >= SeverityRank(w.severity)
    BY <1>2, <2>1, <2>2 DEF HigherSeverity
  <2>4. once \in Severities /\ SeverityRank(once) >= SeverityRank(higher)
    BY <1>3, <2>3, Escalated
  <2>5. SeverityRank("CRITICAL") = 5 /\ "CRITICAL" \in Severities
    BY DEF SeverityRank, Severities
  <2>6. EscalateSeverity(once) \in Severities /\ SeverityRank(EscalateSeverity(once)) >= SeverityRank(once)
    BY <2>4, Escalated
  <2>7. sev \in Severities /\ SeverityRank(sev) >= SeverityRank(higher)
    <3>1. \A x \in Severities : SeverityRank(x) <= 5
      BY <2>2
    <3> QED BY <1>4, <2>2, <2>3, <2>4, <2>5, <2>6, <3>1
  <2> QED BY <2>1, <2>2, <2>3, <2>7
<1>6. PICK proven \in BOOLEAN : proven <=> traced /\ r
  OBVIOUS
<1>7. PICK refs : refs = b.refs \cup w.refs
  OBVIOUS
<1>8. o = [e EXCEPT !.source = "correlated", !.title = b.title, !.category = b.category, !.at = b.at,
        !.text = b.text, !.refs = refs, !.confidence = "HIGH", !.severity = sev,
        !.tier = w.tier, !.chain = w.chain, !.reachable = w.reachable, !.route = w.route,
        !.routeConfirmed = r, !.provenPath = traced /\ r]
  BY <1>1, <1>2, <1>3, <1>4, <1>7, Zenon DEF MergeFindings
<1>9. DOMAIN e = EvidenceFields
  BY <1>1, Fields
<1>10. /\ DOMAIN o = EvidenceFields /\ o.source = "correlated" /\ o.title = b.title /\ o.category = b.category
       /\ o.at = b.at /\ o.text = b.text /\ o.confidence = "HIGH" /\ o.severity = sev /\ o.tier = w.tier
  <2>1. DOMAIN o = EvidenceFields
    BY <1>8, <1>9
  <2>2. o.source = "correlated" /\ o.title = b.title
    BY <1>8, <1>9 DEF EvidenceFields
  <2>3. o.category = b.category /\ o.at = b.at
    BY <1>8, <1>9 DEF EvidenceFields
  <2>4. o.text = b.text /\ o.confidence = "HIGH"
    BY <1>8, <1>9 DEF EvidenceFields
  <2>5. o.severity = sev /\ o.tier = w.tier
    BY <1>8, <1>9 DEF EvidenceFields
  <2> QED BY <2>1, <2>2, <2>3, <2>4, <2>5
<1>11. o.reachable = w.reachable /\ o.routeConfirmed = r
  BY <1>8, <1>9 DEF EvidenceFields
<1>12. o.provenPath <=> traced /\ r
  BY <1>8, <1>9, ZenonT(40) DEF EvidenceFields
<1>13. \A k \in {"context", "auth", "applicability", "probe", "direct", "inTest", "affected", "tools", "crossTool"} : o[k] = e[k]
  <2>1. \A k \in DOMAIN e : k \notin {"source", "title", "category", "at", "text", "refs", "confidence", "severity",
                                     "tier", "chain", "reachable", "route", "routeConfirmed", "provenPath"} => o[k] = e[k]
    BY <1>8
  <2> QED BY <1>9, <2>1 DEF EvidenceFields
<1>14. /\ e.context = "" /\ e.auth = "" /\ e.applicability = "" /\ e.probe = ""
       /\ ~e.direct /\ ~e.inTest /\ e.affected = {} /\ e.tools = {} /\ ~e.crossTool
  BY <1>1 DEF Blank
<1>15. /\ o.context = "" /\ o.auth = "" /\ o.applicability = "" /\ o.probe = ""
       /\ ~o.direct /\ ~o.inTest /\ o.affected = {} /\ o.tools = {} /\ ~o.crossTool
  BY <1>13, <1>14
<1>16. o.provenPath => o.routeConfirmed /\ o.reachable /\ o.tier # "semgrep"
  BY <1>10, <1>11, <1>12
<1>17. IsLocation(o.at) /\ o.text \in Nat
  BY <1>10 DEF Sound
<1> QED BY <1>5, <1>10, <1>15, <1>16, <1>17 DEF Sound, Sources, Contexts, Expectations, Verdicts, Confidences

LEMMA PassedSound ==
  ASSUME NEW w, Sound(w), NEW o, o = PassThrough(w)
  PROVE  /\ Sound(o) /\ o.confidence \in Confidences
         /\ \A k \in EvidenceFields \ {"confidence", "unconfirmed"} : o[k] = w[k]
<1>1. DOMAIN w = EvidenceFields /\ w.confidence \in Confidences
  BY DEF Sound
<1>2. DOMAIN o = EvidenceFields /\ \A k \in EvidenceFields \ {"confidence", "unconfirmed"} : o[k] = w[k]
  BY <1>1 DEF PassThrough
<1>3. o.confidence \in Confidences
  BY <1>1 DEF PassThrough, Confidences, EvidenceFields
<1>4. /\ o.source = w.source /\ o.at = w.at /\ o.text = w.text /\ o.severity = w.severity /\ o.context = w.context
      /\ o.auth = w.auth /\ o.applicability = w.applicability /\ o.probe = w.probe /\ o.direct = w.direct
      /\ o.inTest = w.inTest
  BY <1>2 DEF EvidenceFields
<1>5. /\ o.affected = w.affected /\ o.tools = w.tools /\ o.crossTool = w.crossTool /\ o.provenPath = w.provenPath
      /\ o.routeConfirmed = w.routeConfirmed /\ o.reachable = w.reachable /\ o.tier = w.tier
  BY <1>2 DEF EvidenceFields
<1> QED BY <1>2, <1>3, <1>4, <1>5 DEF Sound

LEMMA AppendList ==
  ASSUME NEW q, IsList(q), NEW e
  PROVE  IsList(Append(q, e)) /\ Range(Append(q, e)) = Range(q) \cup {e}
<1>1. PICK n \in Nat : n = Len(q) /\ DOMAIN q = 1 .. n
  BY ListShape
<1> DEFINE S == Range(q) \cup {e}
           a == Append(q, e)
<1>2. q \in Seq(S) /\ e \in S
  BY DEF IsList
<1>3. a \in Seq(S) /\ Len(a) = n + 1 /\ (\A i \in 1 .. n : a[i] = q[i]) /\ a[n + 1] = e
  <2> HIDE DEF S
  <2> QED BY <1>1, <1>2
<1>4. DOMAIN a = 1 .. n + 1
  BY <1>1, <1>3
<1> HIDE DEF a
<1>5. Range(a) = S
  <2>1. \A i \in 1 .. n + 1 : i \in 1 .. n \/ i = n + 1
    OBVIOUS
  <2>2. n + 1 \in 1 .. n + 1 /\ \A i \in 1 .. n : i \in 1 .. n + 1
    OBVIOUS
  <2> QED BY <1>1, <1>3, <1>4, <2>1, <2>2 DEF Range
<1> QED BY <1>3, <1>5 DEF IsList, a

(* What pairing the first k white-box findings has made of them.            *)
Match(acc, b, w) == <<b, w>> \in acc.pairs /\ \E r \in BOOLEAN : MergeFindings(b, w, r) \in Range(acc.out)
PairedUpTo(acc, bb, s, k) ==
  /\ IsList(acc.out) /\ acc.taken \subseteq DOMAIN bb
  /\ \A o \in Range(acc.out) :
       \/ \E j \in 1 .. k : o = PassThrough(s[j])
       \/ \E i \in DOMAIN bb, j \in 1 .. k : \E r \in BOOLEAN : o = MergeFindings(bb[i], s[j], r)
  /\ \A j \in 1 .. k : PassThrough(s[j]) \in Range(acc.out) \/ \E i \in acc.taken : Match(acc, bb[i], s[j])
  /\ \A i \in acc.taken : \E j \in 1 .. k : Match(acc, bb[i], s[j])

LEMMA PairedOne ==
  ASSUME NEW bb, IsList(bb), NEW s, NEW n \in Nat, NEW k \in 1 .. n, NEW acc, PairedUpTo(acc, bb, s, k - 1),
         DOMAIN acc = {"taken", "out", "pairs"},
         NEW next, next = PairNext(bb, acc, s[k])
  PROVE  PairedUpTo(next, bb, s, k) /\ DOMAIN next = {"taken", "out", "pairs"}
<1>1. PICK w : w = s[k]
  OBVIOUS
<1>2. PICK m : m = FindCorrelationMatch(w, bb, acc.taken)
  OBVIOUS
<1>3. (\A j \in 1 .. k : j \in 1 .. k - 1 \/ j = k) /\ (\A j \in 1 .. k - 1 : j \in 1 .. k) /\ k \in 1 .. k
  OBVIOUS
<1>4. CASE m = NoMatch
  <2>1. PICK e : e = PassThrough(w)
    OBVIOUS
  <2>2. next = [acc EXCEPT !.out = Append(@, PassThrough(w))]
    BY <1>1, <1>2, <1>4, Zenon DEF PairNext
  <2>3. next.out = Append(acc.out, e) /\ next.taken = acc.taken /\ next.pairs = acc.pairs /\ DOMAIN next = DOMAIN acc
    BY <2>1, <2>2
  <2>4. IsList(next.out) /\ Range(next.out) = Range(acc.out) \cup {e}
    BY <2>3, AppendList DEF PairedUpTo
  <2>5. \A i \in acc.taken, j \in 1 .. k - 1 : Match(acc, bb[i], s[j]) => Match(next, bb[i], s[j])
    BY <2>3, <2>4 DEF Match
  <2>6. \A j \in 1 .. k : PassThrough(s[j]) \in Range(next.out) \/ \E i \in next.taken : Match(next, bb[i], s[j])
    BY <1>1, <1>3, <2>1, <2>3, <2>4, <2>5 DEF PairedUpTo
  <2>7. \A i \in next.taken : \E j \in 1 .. k : Match(next, bb[i], s[j])
    BY <1>3, <2>3, <2>5 DEF PairedUpTo
  <2>8. \A o \in Range(next.out) :
       \/ \E j \in 1 .. k : o = PassThrough(s[j])
       \/ \E i \in DOMAIN bb, j \in 1 .. k : \E r \in BOOLEAN : o = MergeFindings(bb[i], s[j], r)
    BY <1>1, <1>3, <2>1, <2>4 DEF PairedUpTo
  <2> QED BY <2>3, <2>4, <2>6, <2>7, <2>8 DEF PairedUpTo
<1>5. CASE m # NoMatch
  <2>1. m.i \in DOMAIN bb \ acc.taken /\ \E r \in BOOLEAN : m.route = r
    BY <1>2, <1>5, MatchFree
  <2>2. PICK r \in BOOLEAN : m.route = r
    BY <2>1
  <2>3. PICK i \in DOMAIN bb : i = m.i
    BY <2>1
  <2>4. PICK e : e = MergeFindings(bb[i], w, r)
    OBVIOUS
  <2>5. next = [taken |-> acc.taken \cup {m.i}, out |-> Append(acc.out, MergeFindings(bb[m.i], w, m.route)),
                pairs |-> acc.pairs \cup {<<bb[m.i], w>>}]
    BY <1>1, <1>2, <1>5, Zenon DEF PairNext
  <2>6. /\ next.out = Append(acc.out, e) /\ next.taken = acc.taken \cup {i} /\ next.pairs = acc.pairs \cup {<<bb[i], w>>}
        /\ DOMAIN next = {"taken", "out", "pairs"}
    BY <2>2, <2>3, <2>4, <2>5
  <2>7. IsList(next.out) /\ Range(next.out) = Range(acc.out) \cup {e}
    BY <2>6, AppendList DEF PairedUpTo
  <2>8. \A l \in acc.taken, j \in 1 .. k - 1 : Match(acc, bb[l], s[j]) => Match(next, bb[l], s[j])
    BY <2>6, <2>7 DEF Match
  <2>9. Match(next, bb[i], s[k])
    BY <1>1, <2>4, <2>6, <2>7 DEF Match
  <2>10. \A j \in 1 .. k : PassThrough(s[j]) \in Range(next.out) \/ \E l \in next.taken : Match(next, bb[l], s[j])
    BY <1>3, <2>6, <2>7, <2>8, <2>9 DEF PairedUpTo
  <2>11. \A l \in next.taken : \E j \in 1 .. k : Match(next, bb[l], s[j])
    BY <1>3, <2>6, <2>8, <2>9 DEF PairedUpTo
  <2>12. \A o \in Range(next.out) :
       \/ \E j \in 1 .. k : o = PassThrough(s[j])
       \/ \E l \in DOMAIN bb, j \in 1 .. k : \E t \in BOOLEAN : o = MergeFindings(bb[l], s[j], t)
    BY <1>1, <1>3, <2>4, <2>7 DEF PairedUpTo
  <2>13. next.taken \subseteq DOMAIN bb
    BY <2>6 DEF PairedUpTo
  <2> QED BY <2>6, <2>7, <2>10, <2>11, <2>12, <2>13 DEF PairedUpTo
<1> QED BY <1>4, <1>5

LEMMA PairingKeeps ==
  ASSUME NEW evs0, IsList(evs0), NEW bb, bb = OfSource(evs0, {"blackbox"}), NEW s, s = OfSource(evs0, {"whitebox"}),
         NEW p, p = Pairing(evs0)
  PROVE  IsList(bb) /\ IsList(s) /\ PairedUpTo(p, bb, s, Len(s))
<1>1. IsList(bb) /\ IsList(s)
  BY AtInOrder DEF OfSource
<1>2. PICK n \in Nat : n = Len(s)
  BY <1>1, ListShape
<1>3. p = PairTable(bb, s)[DOMAIN s]
  BY Zenon DEF Pairing, PairTable, FoldLeft, MapThenFoldSet
<1>4. PICK acc : /\ acc[0] = NoPairs /\ p = acc[n]
                 /\ \A k \in 1 .. n : acc[k] = PairNext(bb, acc[k - 1], s[k])
  <2>1. PICK q : q = PairTable(bb, s)[DOMAIN s]
    OBVIOUS
  <2> QED BY <1>1, <1>2, <1>3, PairWalk
<1> DEFINE Q == {k \in 0 .. n : PairedUpTo(acc[k], bb, s, k) /\ DOMAIN acc[k] = {"taken", "out", "pairs"}}
<1>5. 0 \in Q
  <2>1. NoPairs.out = << >> /\ NoPairs.taken = {} /\ DOMAIN NoPairs = {"taken", "out", "pairs"}
    BY DEF NoPairs
  <2>2. IsList(<< >>) /\ Range(<< >>) = {}
    BY DEF IsList, Range
  <2>3. 1 .. 0 = {}
    OBVIOUS
  <2>4. PairedUpTo(NoPairs, bb, s, 0)
    BY <2>1, <2>2, <2>3 DEF PairedUpTo
  <2> QED BY <1>4, <2>1, <2>4
<1>6. ASSUME NEW k \in 0 .. n - 1, k \in Q PROVE k + 1 \in Q
  <2>1. PICK m \in 1 .. n : m = k + 1 /\ k = m - 1 /\ m \in 0 .. n
    OBVIOUS
  <2>2. PairedUpTo(acc[m - 1], bb, s, m - 1) /\ DOMAIN acc[m - 1] = {"taken", "out", "pairs"}
    BY <1>6, <2>1
  <2>3. acc[m] = PairNext(bb, acc[m - 1], s[m])
    BY <1>4
  <2>4. PairedUpTo(acc[m], bb, s, m) /\ DOMAIN acc[m] = {"taken", "out", "pairs"}
    BY <1>1, <2>2, <2>3, PairedOne
  <2> QED BY <2>1, <2>4
<1>7. n \in Q
  <2> HIDE DEF Q
  <2>1. \A k \in 0 .. n : k \in Q
    BY <1>5, <1>6, Climb
  <2> QED BY <2>1
<1> QED BY <1>1, <1>2, <1>4, <1>7

LEMMA Latest ==
  ASSUME NEW s, IsList(s), NEW T \in SUBSET DOMAIN s, T # {}
  PROVE  Max(T) \in T
<1>1. PICK n \in Nat : DOMAIN s = 1 .. n
  BY ListShape
<1>2. T \in SUBSET (1 .. n)
  BY <1>1
<1> QED BY ONLY n \in Nat, <1>2, T # {}, Greatest

(* What correlation restores of a finding it did not merge.                 *)
Public == EvidenceFields \ Internal
LEMMA PassedOn ==
  ASSUME NEW o, Sound(o), NEW s, IsList(s), \A e \in Range(s) : Sound(e), NEW x, x = RestorePassed(o, s)
  PROVE  Sound(x) /\ \A k \in Public : x[k] = o[k]
<1>1. PICK p : p = Published(o)
  OBVIOUS
<1>2. DOMAIN o = EvidenceFields
  BY DEF Sound
<1>3. DOMAIN p = EvidenceFields /\ (\A k \in Public : p[k] = o[k]) /\ \A k \in Internal : p[k] = Blank[k]
  BY <1>1, <1>2, PublishedShape DEF Public
<1>4. PICK same : same = {i \in DOMAIN s : s[i].source = o.source /\ Identity(s[i]) = Identity(o)}
  OBVIOUS
<1>5. /\ p.source = o.source /\ p.at = o.at /\ p.text = o.text /\ p.severity = o.severity
      /\ p.confidence = o.confidence /\ p.affected = o.affected /\ p.provenPath = o.provenPath
      /\ p.routeConfirmed = o.routeConfirmed /\ p.reachable = o.reachable /\ p.tier = o.tier
  BY <1>3 DEF Public, EvidenceFields, Internal
<1>6. /\ p.probe = "" /\ p.context = "" /\ ~p.inTest /\ ~p.direct /\ ~p.crossTool /\ p.tools = {}
      /\ p.auth = "" /\ p.applicability = ""
  BY <1>3 DEF Internal, Blank
<1>7. CASE same = {}
  <2>1. x = p
    BY <1>1, <1>4, <1>7 DEF RestorePassed
  <2>2. Sound(p)
    BY <1>3, <1>5, <1>6 DEF Sound, Contexts, Expectations, Verdicts
  <2> QED BY <1>3, <2>1, <2>2
<1>8. CASE same # {}
  <2>1. PICK src : src = s[Max(same)]
    OBVIOUS
  <2>2. src \in Range(s) /\ src.source = o.source
    <3>1. Max(same) \in same
      BY <1>4, <1>8, Latest
    <3> QED BY <1>4, <2>1, <3>1 DEF Range
  <2>3. Sound(src)
    BY <2>2
  <2>4. PICK u : u = (o.unconfirmed \/ src.unconfirmed)
    BY Zenon
  <2>5. x = [p EXCEPT !.probe = src.probe, !.context = src.context, !.direct = src.direct,
               !.placeholder = src.placeholder, !.notImported = src.notImported, !.auth = src.auth,
               !.applicability = src.applicability, !.unconfirmed = u]
    BY <1>1, <1>4, <1>8, <2>1, <2>4, Zenon DEF RestorePassed
  <2>6. DOMAIN x = EvidenceFields
    BY <1>3, <2>5
  <2>7. \A k \in EvidenceFields : k \notin {"probe", "context", "direct", "placeholder", "notImported", "auth", "applicability", "unconfirmed"} => x[k] = p[k]
    BY <1>3, <2>5
  <2>8. x.probe = src.probe /\ x.context = src.context /\ x.direct = src.direct
    BY <1>3, <2>5 DEF EvidenceFields
  <2>9. x.auth = src.auth /\ x.applicability = src.applicability
    BY <1>3, <2>5 DEF EvidenceFields
  <2>10. /\ x.source = p.source /\ x.at = p.at /\ x.text = p.text /\ x.severity = p.severity
         /\ x.confidence = p.confidence /\ x.affected = p.affected /\ x.provenPath = p.provenPath
         /\ x.routeConfirmed = p.routeConfirmed /\ x.reachable = p.reachable /\ x.tier = p.tier
    BY <2>7 DEF EvidenceFields
  <2>11. x.inTest = p.inTest /\ x.crossTool = p.crossTool /\ x.tools = p.tools
    BY <2>7 DEF EvidenceFields
  <2>12. \A k \in Public : x[k] = o[k]
    BY <1>3, <2>7 DEF Public, Internal
  <2>13. Sound(x)
    BY <1>5, <1>6, <2>2, <2>3, <2>6, <2>8, <2>9, <2>10, <2>11, ZenonT(40) DEF Sound
  <2> QED BY <2>12, <2>13
<1> QED BY <1>7, <1>8

Hybrids(s) == HasSource(s, "whitebox") /\ HasSource(s, "blackbox")
SamePublic(x, e) == \A k \in Public \ {"confidence", "refs"} : x[k] = e[k]
(* e is still there, or the pair it is in is.                               *)
Kept(e, s, c) ==
  \/ \E x \in Range(c) : SamePublic(x, e)
  \/ /\ Hybrids(s)
     /\ \E b, w \in Range(s) :
          /\ e \in {b, w} /\ <<b, w>> \in Pairing(s).pairs
          /\ \E x \in Range(c) :
               /\ x.source = "correlated" /\ x.category = b.category /\ x.at = b.at
               /\ b.source = "blackbox" /\ SeverityRank(x.severity) >= SeverityRank(e.severity)

(* Correlated evidence is sound; what was reported is kept; and a white-box *)
(* one was reported.                                                        *)
LEMMA CorrelatedShape ==
  ASSUME NEW s, IsList(s), \A e \in Range(s) : Sound(e) /\ e.source # "correlated", NEW c, c = CorrelateEvidence(s)
  PROVE  /\ IsList(c) /\ \A x \in Range(c) : Sound(x)
         /\ \A e \in Range(s) : e.source \in {"whitebox", "blackbox"} => Kept(e, s, c)
         /\ \A x \in Range(c) : x.source = "whitebox" => \E e \in Range(s) : SamePublic(x, e)
<1>1. CASE ~Hybrids(s)
  <2>1. c = s
    BY <1>1 DEF CorrelateEvidence, Hybrids
  <2>2. \A e : SamePublic(e, e)
    BY DEF SamePublic
  <2> QED BY <2>1, <2>2 DEF Kept
<1>2. CASE Hybrids(s)
  <2>1. PICK p : p = Pairing(s)
    OBVIOUS
  <2>2. PICK bb, ws : bb = OfSource(s, {"blackbox"}) /\ ws = OfSource(s, {"whitebox"})
    OBVIOUS
  <2>3. PICK n \in Nat : n = Len(ws) /\ DOMAIN ws = 1 .. n
    BY <2>1, <2>2, PairingKeeps, ListShape
  <2>4. IsList(bb) /\ IsList(ws) /\ PairedUpTo(p, bb, ws, n)
    BY <2>1, <2>2, <2>3, PairingKeeps
  <2>5. ASSUME NEW S PROVE IsList(OfSource(s, S)) /\ Range(OfSource(s, S)) = {e \in Range(s) : e.source \in S}
    <3>1. PICK T : T = {i \in DOMAIN s : s[i].source \in S}
      OBVIOUS
    <3>2. PICK I : I = T \cap DOMAIN s
      OBVIOUS
    <3>3. IsList(At(s, T)) /\ Range(At(s, T)) = {s[i] : i \in I}
      BY ONLY IsList(s), <3>2, AtInOrder
    <3>4. OfSource(s, S) = At(s, T)
      BY <3>1 DEF OfSource
    <3>5. {s[i] : i \in I} = {e \in Range(s) : e.source \in S}
      BY <3>1, <3>2 DEF Range
    <3> QED BY <3>3, <3>4, <3>5
  <2>6. PICK rest : rest = At(bb, DOMAIN bb \ p.taken)
    OBVIOUS
  <2>7. IsList(rest) /\ Range(rest) = {bb[i] : i \in DOMAIN bb \ p.taken}
    <3>1. PICK T : T = DOMAIN bb \ p.taken
      OBVIOUS
    <3>2. T = T \cap DOMAIN bb
      BY <3>1
    <3>3. IsList(At(bb, T)) /\ Range(At(bb, T)) = {bb[i] : i \in T}
      BY <2>4, <3>2, AtInOrder
    <3> QED BY <2>6, <3>1, <3>3
  <2>8. PICK im : im = OfSource(s, {"imported"})
    OBVIOUS
  <2>9. PICK out : out = (p.out \o rest) \o im
    OBVIOUS
  <2>10. IsList(out) /\ Range(out) = (Range(p.out) \cup Range(rest)) \cup Range(im)
    <3>1. IsList(p.out)
      BY <2>4 DEF PairedUpTo
    <3>2. IsList(im)
      BY <2>5, <2>8
    <3>3. PICK front : front = p.out \o rest
      OBVIOUS
    <3>4. IsList(front) /\ Range(front) = Range(p.out) \cup Range(rest)
      BY <2>7, <3>1, <3>3, ConcatList
    <3> QED BY <2>9, <3>2, <3>3, <3>4, ConcatList
  <2>11. c = [k \in DOMAIN out |-> RestorePassed(out[k], s)]
    BY <1>2, <2>1, <2>2, <2>6, <2>8, <2>9 DEF CorrelateEvidence, Hybrids
  <2>12. IsList(c) /\ Range(c) = {RestorePassed(o, s) : o \in Range(out)}
    <3>1. PICK m \in Nat : DOMAIN out = 1 .. m
      BY <2>10, ListShape
    <3>2. c = [k \in 1 .. m |-> c[k]]
      BY <2>11, <3>1
    <3> QED BY <2>11, <3>1, <3>2, ListOf DEF Range
  <2>13. \A i \in DOMAIN bb : bb[i] \in Range(s) /\ Sound(bb[i]) /\ bb[i].source = "blackbox"
    <3>1. \A i \in DOMAIN bb : bb[i] \in Range(bb)
      BY DEF Range
    <3>2. Range(bb) = {e \in Range(s) : e.source \in {"blackbox"}}
      BY <2>2, <2>5
    <3> QED BY <3>1, <3>2
  <2>14. \A j \in 1 .. n : ws[j] \in Range(s) /\ Sound(ws[j]) /\ ws[j].source = "whitebox"
    <3>1. \A j \in 1 .. n : ws[j] \in Range(ws)
      BY <2>3 DEF Range
    <3>2. Range(ws) = {e \in Range(s) : e.source \in {"whitebox"}}
      BY <2>2, <2>5
    <3> QED BY <3>1, <3>2
  <2>15. \A e \in Range(im) : e \in Range(s) /\ e.source = "imported"
    BY <2>5, <2>8
  <2>16. ASSUME NEW j \in 1 .. n, NEW o, o = PassThrough(ws[j])
         PROVE  Sound(o) /\ o.source = "whitebox" /\ SamePublic(o, ws[j])
    <3>1. Sound(o) /\ \A k \in EvidenceFields \ {"confidence", "unconfirmed"} : o[k] = ws[j][k]
      BY <2>14, <2>16, PassedSound
    <3>2. Public \subseteq EvidenceFields /\ "unconfirmed" \notin Public /\ "source" \in EvidenceFields \ {"confidence", "unconfirmed"}
      BY DEF Public, EvidenceFields, Internal
    <3> QED BY <2>14, <3>1, <3>2 DEF SamePublic
  <2>17. ASSUME NEW i \in DOMAIN bb, NEW j \in 1 .. n, NEW r \in BOOLEAN, NEW o, o = MergeFindings(bb[i], ws[j], r)
         PROVE  /\ Sound(o) /\ o.source = "correlated" /\ o.category = bb[i].category /\ o.at = bb[i].at
                /\ SeverityRank(o.severity) >= SeverityRank(bb[i].severity)
                /\ SeverityRank(o.severity) >= SeverityRank(ws[j].severity)
    BY <2>13, <2>14, <2>17, MergedSound
  <2>18. ASSUME NEW o \in Range(out) PROVE Sound(o) /\ (o.source = "whitebox" => \E e \in Range(s) : SamePublic(o, e))
    <3>1. CASE o \in Range(p.out)
      <4>1. \/ \E j \in 1 .. n : o = PassThrough(ws[j])
            \/ \E i \in DOMAIN bb, j \in 1 .. n : \E r \in BOOLEAN : o = MergeFindings(bb[i], ws[j], r)
        BY <2>4, <3>1 DEF PairedUpTo
      <4>2. ASSUME NEW j \in 1 .. n, o = PassThrough(ws[j])
            PROVE  Sound(o) /\ (o.source = "whitebox" => \E e \in Range(s) : SamePublic(o, e))
        BY <2>14, <2>16, <4>2
      <4>3. ASSUME NEW i \in DOMAIN bb, NEW j \in 1 .. n, NEW r \in BOOLEAN, o = MergeFindings(bb[i], ws[j], r)
            PROVE  Sound(o) /\ o.source # "whitebox"
        BY <2>17, <4>3
      <4> QED BY <4>1, <4>2, <4>3
    <3>2. CASE o \in Range(rest)
      BY <2>7, <2>13, <3>2
    <3>3. CASE o \in Range(im)
      BY <2>15, <3>3
    <3> QED BY <2>10, <3>1, <3>2, <3>3
  <2>19. ASSUME NEW o \in Range(out), NEW x, x = RestorePassed(o, s)
         PROVE  x \in Range(c) /\ Sound(x) /\ \A k \in Public : x[k] = o[k]
    <3>1. Sound(o)
      BY <2>18
    <3> QED BY <2>12, <2>19, <3>1, PassedOn
  <2>20. {"source", "category", "at", "severity"} \subseteq Public
    BY DEF Public, EvidenceFields, Internal
  <2>21. \A x \in Range(c) : Sound(x) /\ (x.source = "whitebox" => \E e \in Range(s) : SamePublic(x, e))
    <3> SUFFICES ASSUME NEW o \in Range(out), NEW x, x = RestorePassed(o, s)
                 PROVE  Sound(x) /\ (x.source = "whitebox" => \E e \in Range(s) : SamePublic(x, e))
      BY <2>12
    <3>1. Sound(x) /\ (\A k \in Public : x[k] = o[k]) /\ x.source = o.source
      BY <2>19, <2>20
    <3>2. \A e : SamePublic(o, e) => SamePublic(x, e)
      BY <3>1 DEF SamePublic
    <3> QED BY <2>18, <3>1, <3>2
  <2> DEFINE There(e) == \E x \in Range(c) : SamePublic(x, e)
             InPair(e) == \E b, w \in Range(s) :
                            /\ e \in {b, w} /\ <<b, w>> \in Pairing(s).pairs
                            /\ \E x \in Range(c) :
                                 /\ x.source = "correlated" /\ x.category = b.category /\ x.at = b.at
                                 /\ b.source = "blackbox" /\ SeverityRank(x.severity) >= SeverityRank(e.severity)
  <2>22. ASSUME NEW o \in Range(out), NEW e, SamePublic(o, e) PROVE There(e)
    <3>1. PICK x : x = RestorePassed(o, s)
      OBVIOUS
    <3>2. x \in Range(c) /\ SamePublic(x, e)
      BY <2>19, <2>22, <3>1 DEF SamePublic
    <3> QED BY <3>2
  <2>23. ASSUME NEW i \in DOMAIN bb, NEW j \in 1 .. n, Match(p, bb[i], ws[j]), NEW e \in {bb[i], ws[j]} PROVE InPair(e)
    <3>1. PICK r \in BOOLEAN : MergeFindings(bb[i], ws[j], r) \in Range(p.out)
      BY <2>23 DEF Match
    <3>2. PICK o : o = MergeFindings(bb[i], ws[j], r)
      OBVIOUS
    <3>3. o \in Range(out) /\ <<bb[i], ws[j]>> \in Pairing(s).pairs
      BY <2>1, <2>10, <2>23, <3>1, <3>2 DEF Match
    <3>4. /\ o.source = "correlated" /\ o.category = bb[i].category /\ o.at = bb[i].at
          /\ SeverityRank(o.severity) >= SeverityRank(e.severity)
      BY <2>17, <3>2
    <3>5. PICK x : x = RestorePassed(o, s)
      OBVIOUS
    <3>6. x \in Range(c) /\ x.source = o.source /\ x.category = o.category /\ x.at = o.at /\ x.severity = o.severity
      BY <2>19, <2>20, <3>3, <3>5
    <3>7. bb[i] \in Range(s) /\ ws[j] \in Range(s) /\ bb[i].source = "blackbox"
      BY <2>13, <2>14
    <3> QED BY <3>3, <3>4, <3>6, <3>7
  <2> HIDE DEF There, InPair
  <2>24. ASSUME NEW e \in Range(s), e.source = "whitebox" PROVE There(e) \/ InPair(e)
    <3>1. e \in Range(ws)
      BY <2>2, <2>5, <2>24
    <3>2. PICK j \in 1 .. n : e = ws[j]
      BY <2>3, <3>1 DEF Range
    <3>3. PassThrough(ws[j]) \in Range(p.out) \/ \E i \in p.taken : Match(p, bb[i], ws[j])
      BY <2>4 DEF PairedUpTo
    <3>4. CASE PassThrough(ws[j]) \in Range(p.out)
      <4>1. PICK o : o = PassThrough(ws[j])
        OBVIOUS
      <4>2. o \in Range(out) /\ SamePublic(o, e)
        BY <2>10, <2>16, <3>2, <3>4, <4>1
      <4> QED BY <2>22, <4>2
    <3>5. ASSUME NEW i \in p.taken, Match(p, bb[i], ws[j]) PROVE InPair(e)
      <4>1. i \in DOMAIN bb
        BY <2>4 DEF PairedUpTo
      <4> QED BY <2>23, <3>2, <3>5, <4>1
    <3> QED BY <3>3, <3>4, <3>5
  <2>25. ASSUME NEW e \in Range(s), e.source = "blackbox" PROVE There(e) \/ InPair(e)
    <3>1. e \in Range(bb)
      BY <2>2, <2>5, <2>25
    <3>2. PICK i \in DOMAIN bb : e = bb[i]
      BY <3>1 DEF Range
    <3>3. CASE i \in p.taken
      <4>1. PICK j \in 1 .. n : Match(p, bb[i], ws[j])
        BY <2>4, <3>3 DEF PairedUpTo
      <4> QED BY <2>23, <3>2, <4>1
    <3>4. CASE i \notin p.taken
      <4>1. e \in Range(rest) /\ e \in Range(out) /\ SamePublic(e, e)
        BY <2>7, <2>10, <3>2, <3>4 DEF SamePublic
      <4> QED BY <2>22, <4>1
    <3> QED BY <3>3, <3>4
  <2>26. \A e \in Range(s) : e.source \in {"whitebox", "blackbox"} => There(e) \/ InPair(e)
    BY <2>24, <2>25
  <2> QED BY <1>2, <2>12, <2>21, <2>26 DEF There, InPair, Kept
<1> QED BY <1>1, <1>2

(* --- corroboration --- *)
LEMMA StampedOne ==
  ASSUME NEW e, Sound(e), NEW x, x = StampToolID(StampWeakness(e))
  PROVE  Sound(x) /\ x.tool # "" /\ \A k \in EvidenceFields \ {"tool", "weakness"} : x[k] = e[k]
<1>1. DOMAIN e = EvidenceFields
  BY DEF Sound
<1>2. PICK y : y = StampWeakness(e)
  OBVIOUS
<1>3. DOMAIN y = EvidenceFields /\ \A k \in EvidenceFields \ {"tool", "weakness"} : y[k] = e[k]
  BY <1>1, <1>2 DEF StampWeakness
<1>4. PICK t \in {"semgrep", "fendix"} : t = IF y.tier = "semgrep" THEN "semgrep" ELSE "fendix"
  OBVIOUS
<1>5. x = IF y.tool # "" THEN y ELSE [y EXCEPT !.tool = t]
  BY <1>2, <1>4 DEF StampToolID
<1>6. DOMAIN x = EvidenceFields /\ \A k \in EvidenceFields \ {"tool", "weakness"} : x[k] = y[k]
  BY <1>3, <1>5
<1>7. x.tool # ""
  BY <1>3, <1>4, <1>5 DEF EvidenceFields
<1>8. \A k \in EvidenceFields \ {"tool", "weakness"} : x[k] = e[k]
  BY <1>3, <1>6
<1>9. /\ x.source = e.source /\ x.at = e.at /\ x.text = e.text /\ x.severity = e.severity /\ x.context = e.context
      /\ x.auth = e.auth /\ x.applicability = e.applicability /\ x.probe = e.probe /\ x.direct = e.direct
      /\ x.inTest = e.inTest /\ x.confidence = e.confidence
  BY <1>8 DEF EvidenceFields
<1>10. /\ x.affected = e.affected /\ x.tools = e.tools /\ x.crossTool = e.crossTool /\ x.provenPath = e.provenPath
       /\ x.routeConfirmed = e.routeConfirmed /\ x.reachable = e.reachable /\ x.tier = e.tier
  BY <1>8 DEF EvidenceFields
<1> QED BY <1>6, <1>7, <1>8, <1>9, <1>10 DEF Sound

SameNamed(x, e) == \A k \in Public \ {"refs"} : x[k] = e[k]
LEMMA CrossedShape ==
  ASSUME NEW c, IsList(c), \A e \in Range(c) : Sound(e), NEW o, o = CorrelateCrossTool(c)
  PROVE  /\ IsList(o) /\ \A x \in Range(o) : Sound(x)
         /\ \A x \in Range(o) : \E e \in Range(c) : SameNamed(x, e)
         /\ \A e \in Range(c) : e.source # "imported" => \E x \in Range(o) : SameNamed(x, e)
<1>1. PICK n \in Nat : DOMAIN c = 1 .. n
  BY ListShape
<1>2. PICK s : s = Stamped(c)
  OBVIOUS
<1>3. DOMAIN s = 1 .. n
  BY <1>1, <1>2 DEF Stamped
<1>4. ASSUME NEW i \in 1 .. n
      PROVE  /\ Sound(s[i]) /\ \A k \in EvidenceFields \ {"tool", "weakness"} : s[i][k] = c[i][k]
             /\ HasSource(c, "imported") => s[i].tool # ""
  <2>1. Sound(c[i])
    BY <1>1 DEF Range
  <2>2. PICK x : x = StampToolID(StampWeakness(c[i]))
    OBVIOUS
  <2>3. Sound(x) /\ x.tool # "" /\ \A k \in EvidenceFields \ {"tool", "weakness"} : x[k] = c[i][k]
    BY <2>1, <2>2, StampedOne
  <2>4. s[i] = IF HasSource(c, "imported") THEN x ELSE c[i]
    BY <1>1, <1>2, <2>2 DEF Stamped
  <2> QED BY <2>1, <2>3, <2>4
<1>5. \A i \in 1 .. n : s[i].source = c[i].source
  BY <1>4 DEF EvidenceFields
<1>6. ASSUME NEW i \in 1 .. n, Partners(s, i) # {} PROVE HasSource(c, "imported")
  <2>1. PICK j \in Partners(s, i) : TRUE
    BY <1>6
  <2>2. j \in 1 .. n /\ Strong(s[i], s[j])
    BY <1>3, <2>1 DEF Partners
  <2>3. s[i].source = "imported" \/ s[j].source = "imported"
    BY <2>2 DEF Strong
  <2> QED BY <1>1, <1>5, <2>2, <2>3 DEF HasSource
<1>7. PICK dropped : dropped = {i \in DOMAIN s : NativePartners(s, i) # {}}
  OBVIOUS
<1> DEFINE refs(j) == UNION {s[i].refs : i \in {d \in dropped : Min(NativePartners(s, d)) = j}}
           seen(i) == [s[i] EXCEPT !.crossTool = @ \/ Partners(s, i) # {},
                              !.tools = IF Partners(s, i) = {} THEN @ ELSE {s[j].tool : j \in Partners(s, i)},
                              !.refs = @ \cup refs(i)]
           all == [i \in DOMAIN s |-> seen(i)]
<1>8. o = At(all, DOMAIN s \ dropped)
  BY <1>2, <1>7, ZenonT(40) DEF CorrelateCrossTool
<1>9. ASSUME NEW i \in 1 .. n, NEW x, x = seen(i)
      PROVE  Sound(x) /\ \A k \in EvidenceFields \ {"tool", "weakness", "crossTool", "tools", "refs"} : x[k] = c[i][k]
  <2>1. PICK y : y = s[i]
    OBVIOUS
  <2>2. Sound(y) /\ DOMAIN y = EvidenceFields
    BY <1>4, <2>1 DEF Sound
  <2>3. PICK crossed \in BOOLEAN : crossed <=> (y.crossTool \/ Partners(s, i) # {})
    OBVIOUS
  <2>4. PICK tools : tools = IF Partners(s, i) = {} THEN y.tools ELSE {s[j].tool : j \in Partners(s, i)}
    OBVIOUS
  <2>5. PICK all_refs : all_refs = y.refs \cup refs(i)
    OBVIOUS
  <2>6. x = [y EXCEPT !.crossTool = (y.crossTool \/ Partners(s, i) # {}), !.tools = tools, !.refs = all_refs]
    BY <1>9, <2>1, <2>4, <2>5, Zenon
  <2>7. DOMAIN x = EvidenceFields /\ \A k \in EvidenceFields \ {"crossTool", "tools", "refs"} : x[k] = y[k]
    BY <2>2, <2>6
  <2>8. (x.crossTool <=> (y.crossTool \/ Partners(s, i) # {})) /\ x.tools = tools
    BY <2>2, <2>6 DEF EvidenceFields
  <2>9. "" \notin tools /\ ((y.crossTool \/ Partners(s, i) # {}) <=> tools # {})
    <3>1. CASE Partners(s, i) = {}
      BY <2>2, <2>4, <3>1 DEF Sound
    <3>2. CASE Partners(s, i) # {}
      <4>1. \A j \in Partners(s, i) : j \in 1 .. n
        BY <1>3 DEF Partners
      <4>2. \A j \in Partners(s, i) : s[j].tool # ""
        BY <1>4, <1>6, <3>2, <4>1
      <4> QED BY <2>4, <3>2, <4>2
    <3> QED BY <3>1, <3>2
  <2>10. /\ x.source = y.source /\ x.at = y.at /\ x.text = y.text /\ x.severity = y.severity /\ x.context = y.context
        /\ x.auth = y.auth /\ x.applicability = y.applicability /\ x.probe = y.probe /\ x.direct = y.direct
        /\ x.inTest = y.inTest /\ x.confidence = y.confidence
    BY <2>7 DEF EvidenceFields
  <2>11. /\ x.affected = y.affected /\ x.provenPath = y.provenPath
         /\ x.routeConfirmed = y.routeConfirmed /\ x.reachable = y.reachable /\ x.tier = y.tier
    BY <2>7 DEF EvidenceFields
  <2>12. Sound(x)
    BY <2>2, <2>7, <2>8, <2>9, <2>10, <2>11 DEF Sound
  <2> QED BY <1>4, <2>1, <2>7, <2>12
<1> HIDE DEF seen
<1>10. IsList(all) /\ DOMAIN all = 1 .. n
  <2>1. all = [i \in 1 .. n |-> all[i]] /\ DOMAIN all = 1 .. n
    BY <1>3
  <2> HIDE DEF all
  <2> QED BY <2>1, ListOf
<1>11. PICK I : I = DOMAIN s \ dropped
  OBVIOUS
<1>12. I = I \cap DOMAIN all
  BY <1>3, <1>10, <1>11
<1>13. IsList(o) /\ Range(o) = {all[i] : i \in I}
  <2> HIDE DEF all
  <2>1. o = At(all, I)
    BY <1>8, <1>11
  <2>3. PICK f : f = all
    OBVIOUS
  <2>4. IsList(f) /\ I = I \cap DOMAIN f
    BY <1>10, <1>12, <2>3
  <2>5. /\ IsList(At(f, I)) /\ \A i \in I \cap DOMAIN f : f[i] \in Range(At(f, I))
        /\ \A x \in Range(At(f, I)) : \E i \in I \cap DOMAIN f : x = f[i]
    BY <2>4, AtHolds
  <2> QED BY <2>1, <2>3, <2>4, <2>5
<1>14. \A i \in I : i \in 1 .. n /\ all[i] = seen(i)
  BY <1>3, <1>11
<1>15. Public \subseteq EvidenceFields /\ Public \cap {"tool", "weakness", "crossTool", "tools"} = {}
  BY DEF Public, Internal
<1> HIDE DEF all
<1>16. \A x \in Range(o) : Sound(x) /\ \E e \in Range(c) : SameNamed(x, e)
  <2> SUFFICES ASSUME NEW i \in I, NEW x, x = seen(i) PROVE Sound(x) /\ \E e \in Range(c) : SameNamed(x, e)
    BY <1>13, <1>14
  <2>1. i \in 1 .. n
    BY <1>14
  <2>2. Sound(x) /\ SameNamed(x, c[i])
    BY <1>9, <1>15, <2>1 DEF SameNamed
  <2> QED BY <1>1, <2>1, <2>2 DEF Range
<1>17. ASSUME NEW i \in 1 .. n, c[i].source # "imported" PROVE \E x \in Range(o) : SameNamed(x, c[i])
  <2>1. NativePartners(s, i) = {}
    BY <1>5, <1>17 DEF NativePartners
  <2>2. i \in I
    BY <1>3, <1>7, <1>11, <2>1
  <2>3. PICK x : x = seen(i)
    OBVIOUS
  <2>4. x \in Range(o) /\ SameNamed(x, c[i])
    BY <1>9, <1>13, <1>14, <1>15, <2>2, <2>3 DEF SameNamed
  <2> QED BY <2>4
<1> QED BY <1>1, <1>13, <1>16, <1>17 DEF Range

-----------------------------------------------------------------------------
(* --- the stages ---------------------------------------------------------- *)
Native == Blackbox \cup Range(CodeReports)
Gathered(r, F) == r \o Imported(F)
Crossed(r, F) == CorrelateCrossTool(CorrelateEvidence(Gathered(r, F)))
Projected(c) == [i \in DOMAIN c |-> EscalateReachable(Published(c[i]))]
Grouped(c) == Deduplicate(CollapseDuplicateLocations(Projected(c)))
Consistently(g) == [i \in DOMAIN g |-> EnforceSeverityConsistency(g[i])]
Refilled(index, g) == [i \in DOMAIN g |-> Restored(index, g[i])]

StageInv ==
  /\ DOMAIN options = DOMAIN Defaults
  /\ raw \in Seq(Native) /\ files \subseteq DOMAIN Documents
  /\ stage = "correlate" => evs = Gathered(raw, files)
  /\ stage = "crosstool" => evs = CorrelateEvidence(Gathered(raw, files))
  /\ stage = "escalate" => evs = Crossed(raw, files)
  /\ stage = "collapse" => evs = Projected(Crossed(raw, files))
  /\ stage = "group" => evs = CollapseDuplicateLocations(Projected(Crossed(raw, files)))
  /\ stage = "consistency" => evs = Grouped(Crossed(raw, files))
  /\ stage = "decide" => evs = Consistently(Grouped(Crossed(raw, files)))
  /\ stage = "exit" => evs = Refilled(stamped, Consistently(Grouped(Crossed(raw, files))))
  /\ stage \in {"escalate", "collapse", "group", "consistency", "decide", "exit"} => stamped = Range(Crossed(raw, files))
  /\ stage = "exit" => decisions = [i \in DOMAIN evs |-> DecideWithOptions(evs[i], options.failOn, options)]

LEMMA StageInvHolds == Spec => []StageInv
<1>1. Init => StageInv
  BY DEF Init, StageInv
<1>2. StageInv /\ [Next]_vars => StageInv'
  <2> SUFFICES ASSUME StageInv, [Next]_vars PROVE StageInv'
    OBVIOUS
  <2>1. CASE LoadPolicy
    BY <2>1 DEF LoadPolicy, StageInv, Rest, Fail, ApplyPolicy
  <2>2. CASE ReportBlackbox
    <3>1. raw' \in Seq(Native)
      BY <2>2 DEF ReportBlackbox, StageInv, Native
    <3> QED BY <2>2, <3>1 DEF ReportBlackbox, StageInv
  <2>3. CASE ReportCode
    <3>1. raw' \in Seq(Native)
      BY <2>3 DEF ReportCode, StageInv, Native, Range
    <3> QED BY <2>3, <3>1 DEF ReportCode, StageInv
  <2>4. CASE LoadImports
    BY <2>4 DEF LoadImports, StageInv, Gathered, Fail, Rest
  <2>5. CASE Correlate
    BY <2>5 DEF Correlate, StageInv
  <2>6. CASE CrossTool
    BY <2>6 DEF CrossTool, StageInv, Crossed
  <2>7. CASE Escalate
    BY <2>7 DEF Escalate, StageInv, Projected
  <2>8. CASE Collapse
    BY <2>8 DEF Collapse, StageInv
  <2>9. CASE Group
    BY <2>9 DEF Group, StageInv, Grouped
  <2>10. CASE Consistency
    BY <2>10 DEF Consistency, StageInv, Consistently
  <2>11. CASE Decide
    BY <2>11 DEF Decide, StageInv, Fail, Rest, StampDecisions, Refilled
  <2>12. CASE Exit
    BY <2>12 DEF Exit, StageInv, Rest
  <2>13. CASE UNCHANGED vars
    BY <2>13 DEF StageInv, vars
  <2> QED BY <2>1, <2>2, <2>3, <2>4, <2>5, <2>6, <2>7, <2>8, <2>9, <2>10, <2>11, <2>12, <2>13 DEF Next
<1> QED BY <1>1, <1>2, PTL DEF Spec

-----------------------------------------------------------------------------
(* --- from what was reported to what the index is built of ---------------- *)
(* What a run gathers is what the engines reported, then what it imports.   *)
LEMMA GatheredShape ==
  ASSUME NEW r \in Seq(Native), NEW F, NEW s, s = Gathered(r, F)
  PROVE  /\ IsList(s) /\ IsList(r) /\ \A e \in Range(s) : Sound(e) /\ e.source # "correlated" /\ Fit(e)
         /\ \A e \in Range(r) : /\ e \in Range(s) /\ e.source \in {"whitebox", "blackbox"}
                                /\ e.source = "blackbox" => e.at.url
         /\ \A e \in Range(s) : e.source \in {"whitebox", "blackbox"} => e \in Range(r)
<1>1. PICK m : m = Imported(F)
  OBVIOUS
<1>2. IsList(m) /\ \A e \in Range(m) : Sound(e) /\ e.source = "imported" /\ Fit(e)
  <2>1. IsList(m) /\ Range(m) \subseteq Foreign
    BY <1>1, ImportedList
  <2> QED BY <2>1, ForeignSound
<1>3. IsList(r) /\ \A e \in Range(r) : e \in Native
  BY DEF IsList, Range
<1>4. \A e \in Native : /\ Sound(e) /\ e.source \in {"whitebox", "blackbox"} /\ Fit(e)
                        /\ e.source = "blackbox" => e.at.url
  <2>1. ASSUME NEW e \in Blackbox PROVE Sound(e) /\ e.source = "blackbox" /\ e.at.url /\ Fit(e)
    <3>1. Emitted(e, "blackbox") /\ e.at.url
      BY EmittersAssumption
    <3>2. e.at \in Locations
      BY DEF Locations
    <3> QED BY <3>1, <3>2, EmittedSound DEF Emitted, Fit, Flags
  <2>2. ASSUME NEW e \in Range(CodeReports) PROVE Sound(e) /\ e.source = "whitebox" /\ Fit(e)
    <3>1. Emitted(e, "whitebox")
      BY EmittersAssumption
    <3>2. e.at \in Locations
      BY DEF Locations
    <3> QED BY <3>1, <3>2, EmittedSound DEF Emitted, Fit, Flags
  <2> QED BY <2>1, <2>2 DEF Native
<1>5. s = r \o m
  BY <1>1 DEF Gathered
<1>6. IsList(s) /\ Range(s) = Range(r) \cup Range(m)
  BY <1>2, <1>3, <1>5, ConcatList
<1> QED BY <1>2, <1>3, <1>4, <1>6

(* Every reported finding is still there after corroboration, or a pair of  *)
(* it; static findings come only from reported ones.                        *)
LEMMA CrossedFacts ==
  ASSUME NEW r \in Seq(Native), NEW F, NEW s, s = Gathered(r, F), NEW c, c = Crossed(r, F)
  PROVE  /\ IsList(c) /\ \A x \in Range(c) : Sound(x)
         /\ \A e \in Range(r) : Kept(e, s, c)
         /\ \A x \in Range(c) : x.source = "whitebox" => \E e \in Range(r) : SamePublic(x, e)
<1>1. /\ IsList(s) /\ \A e \in Range(s) : Sound(e) /\ e.source # "correlated"
      /\ \A e \in Range(r) : e \in Range(s) /\ e.source \in {"whitebox", "blackbox"}
      /\ \A e \in Range(s) : e.source \in {"whitebox", "blackbox"} => e \in Range(r)
  BY GatheredShape
<1>2. PICK d : d = CorrelateEvidence(s)
  OBVIOUS
<1>3. /\ IsList(d) /\ \A x \in Range(d) : Sound(x)
      /\ \A e \in Range(s) : e.source \in {"whitebox", "blackbox"} => Kept(e, s, d)
      /\ \A x \in Range(d) : x.source = "whitebox" => \E e \in Range(s) : SamePublic(x, e)
  BY ONLY <1>1, <1>2, CorrelatedShape
<1>4. c = CorrelateCrossTool(d)
  BY <1>2 DEF Crossed
<1>5. /\ IsList(c) /\ \A x \in Range(c) : Sound(x)
      /\ \A x \in Range(c) : \E e \in Range(d) : SameNamed(x, e)
      /\ \A e \in Range(d) : e.source # "imported" => \E x \in Range(c) : SameNamed(x, e)
  BY ONLY <1>3, <1>4, CrossedShape
<1>6. {"source", "category", "at", "severity"} \subseteq Public \ {"refs", "confidence"}
  BY DEF Public, EvidenceFields, Internal
<1>7. \A x, y, e : SameNamed(x, y) /\ SamePublic(y, e) => SamePublic(x, e)
  BY DEF SameNamed, SamePublic
<1>8. \A x, e : SameNamed(x, e) \/ SamePublic(x, e) =>
        x.source = e.source /\ x.category = e.category /\ x.at = e.at /\ x.severity = e.severity
  BY <1>6 DEF SameNamed, SamePublic
<1>9. ASSUME NEW x \in Range(c), x.source = "whitebox" PROVE \E e \in Range(r) : SamePublic(x, e)
  <2>1. PICK y \in Range(d) : SameNamed(x, y)
    BY <1>5
  <2>2. PICK e \in Range(s) : SamePublic(y, e)
    BY <1>3, <1>8, <1>9, <2>1
  <2>3. e \in Range(r)
    BY <1>1, <1>8, <1>9, <2>1, <2>2
  <2> QED BY <1>7, <2>1, <2>2, <2>3
<1>10. ASSUME NEW e \in Range(r) PROVE Kept(e, s, c)
  <2>1. CASE \E y \in Range(d) : SamePublic(y, e)
    <3>1. PICK y \in Range(d) : SamePublic(y, e)
      BY <2>1
    <3>2. PICK x \in Range(c) : SameNamed(x, y)
      BY <1>1, <1>5, <1>8, <3>1
    <3> QED BY <1>7, <3>1, <3>2 DEF Kept
  <2>2. CASE ~ \E y \in Range(d) : SamePublic(y, e)
    <3>1. PICK b, w \in Range(s) :
             /\ Hybrids(s) /\ e \in {b, w} /\ <<b, w>> \in Pairing(s).pairs
             /\ \E x \in Range(d) :
                  /\ x.source = "correlated" /\ x.category = b.category /\ x.at = b.at
                  /\ b.source = "blackbox" /\ SeverityRank(x.severity) >= SeverityRank(e.severity)
      BY <1>1, <1>3, <2>2, ZenonT(40) DEF Kept
    <3>2. PICK y \in Range(d) :
             /\ y.source = "correlated" /\ y.category = b.category /\ y.at = b.at
             /\ b.source = "blackbox" /\ SeverityRank(y.severity) >= SeverityRank(e.severity)
      BY <3>1
    <3>3. PICK x \in Range(c) : SameNamed(x, y)
      BY <1>5, <3>2
    <3>4. /\ x.source = "correlated" /\ x.category = b.category /\ x.at = b.at
          /\ b.source = "blackbox" /\ SeverityRank(x.severity) >= SeverityRank(e.severity)
      BY <1>8, <3>2, <3>3
    <3> QED BY <3>1, <3>4 DEF Kept
  <2> QED BY <2>1, <2>2
<1> QED BY <1>5, <1>9, <1>10

-----------------------------------------------------------------------------
(* --- projection and collapsing ------------------------------------------- *)
Projection(x, e) ==
  /\ DOMAIN x = EvidenceFields /\ \A k \in Public \ {"severity"} : x[k] = e[k]
  /\ \A k \in Internal : x[k] = Blank[k]
  /\ x.severity \in Severities /\ SeverityRank(x.severity) >= SeverityRank(e.severity)

LEMMA ProjectedShape ==
  ASSUME NEW c, IsList(c), \A e \in Range(c) : Sound(e), NEW p, p = Projected(c)
  PROVE  IsList(p) /\ DOMAIN p = DOMAIN c /\ \A i \in DOMAIN c : Projection(p[i], c[i])
<1>1. PICK n \in Nat : DOMAIN c = 1 .. n
  BY ListShape
<1>2. DOMAIN p = 1 .. n /\ p = [i \in 1 .. n |-> p[i]] /\ \A i \in 1 .. n : p[i] = EscalateReachable(Published(c[i]))
  BY <1>1 DEF Projected
<1>3. ASSUME NEW i \in 1 .. n PROVE Projection(p[i], c[i])
  <2>1. PICK e : e = c[i]
    OBVIOUS
  <2>2. Sound(e)
    BY <1>1, <2>1 DEF Range
  <2>3. DOMAIN e = EvidenceFields /\ e.severity \in Severities
    BY <2>2 DEF Sound
  <2>4. PICK q : q = Published(e)
    OBVIOUS
  <2>5. /\ DOMAIN q = EvidenceFields
        /\ \A k \in EvidenceFields \ Internal : q[k] = e[k]
        /\ \A k \in Internal : q[k] = Blank[k]
    BY <2>3, <2>4, PublishedShape
  <2>6. "severity" \in EvidenceFields \ Internal
    BY DEF EvidenceFields, Internal
  <2>7. q.severity = e.severity
    BY <2>5, <2>6
  <2>8. PICK t : t = EscalateSeverity(q.severity)
    OBVIOUS
  <2>9. /\ t \in Severities /\ SeverityRank(t) >= SeverityRank(e.severity)
        /\ SeverityRank(e.severity) \in Nat
    BY <2>3, <2>7, <2>8, Escalated
  <2>10. p[i] = q \/ p[i] = [q EXCEPT !.severity = t]
    BY <1>2, <2>1, <2>4, <2>8 DEF EscalateReachable
  <2>11. CASE p[i] = q
    BY <2>1, <2>3, <2>5, <2>7, <2>9, <2>11 DEF Projection, Public
  <2>12. CASE p[i] = [q EXCEPT !.severity = t]
    <3>1. PICK x : x = p[i]
      OBVIOUS
    <3>2. DOMAIN x = EvidenceFields /\ x.severity = t /\ \A k \in EvidenceFields \ {"severity"} : x[k] = q[k]
      BY <2>5, <2>6, <2>12, <3>1
    <3>3. \A k \in Public \ {"severity"} : x[k] = e[k]
      BY <2>5, <3>2 DEF Public
    <3>4. \A k \in Internal : x[k] = Blank[k]
      BY <2>5, <2>6, <3>2 DEF Internal, EvidenceFields
    <3> QED BY <2>1, <2>9, <3>1, <3>2, <3>3, <3>4 DEF Projection
  <2> QED BY <2>10, <2>11, <2>12
<1> QED BY <1>1, <1>2, <1>3, ListOf

(* What stands for i after collapsing is i itself, or a static finding of   *)
(* its place that is as trusted, and no less severe if no more trusted,     *)
(* where two static engines meet.                                           *)
Meet(p, w, i) == /\ p[w].source = "whitebox" /\ p[i].source = "whitebox"
                 /\ p[w].category = p[i].category /\ p[w].at = p[i].at
StandsFor(p, w, i) ==
  \/ w = i
  \/ /\ Meet(p, w, i) /\ TrustRank(p[w].tier) >= TrustRank(p[i].tier)
     /\ TrustRank(p[w].tier) = TrustRank(p[i].tier) => SeverityRank(p[w].severity) >= SeverityRank(p[i].severity)
     /\ \E y \in DOMAIN p : Meet(p, y, i) /\ p[y].tier # p[i].tier

LEMMA Ranks ==
  \A s : TrustRank(s) \in 0 .. 3 /\ SeverityRank(s) \in 0 .. 5
BY DEF TrustRank, SeverityRank

(* The best of several candidates by three numbers in turn.                 *)
Before(A, B, C, j, k) == A[j] < A[k] \/ (A[j] = A[k] /\ (B[j] < B[k] \/ (B[j] = B[k] /\ C[j] <= C[k])))
LEMMA Foremost ==
  ASSUME NEW G, G # {}, NEW A, NEW B, NEW C, \A j \in G : A[j] \in Nat /\ B[j] \in Nat /\ C[j] \in Nat
  PROVE  \E j \in G : \A k \in G : Before(A, B, C, j, k)
<1>1. PICK T : T = {A[j] : j \in G}
  OBVIOUS
<1>2. PICK a \in T : \A y \in T : a <= y
  BY <1>1, Least
<1>3. PICK G2 : G2 = {j \in G : A[j] = a}
  OBVIOUS
<1>4. G2 # {} /\ G2 \subseteq G
  BY <1>1, <1>2, <1>3
<1>5. PICK T2 : T2 = {B[j] : j \in G2}
  OBVIOUS
<1>6. PICK b \in T2 : \A y \in T2 : b <= y
  BY <1>4, <1>5, Least
<1>7. PICK G3 : G3 = {j \in G2 : B[j] = b}
  OBVIOUS
<1>8. G3 # {} /\ G3 \subseteq G2
  BY <1>5, <1>6, <1>7
<1>9. PICK T3 : T3 = {C[j] : j \in G3}
  OBVIOUS
<1>10. PICK c \in T3 : \A y \in T3 : c <= y
  BY <1>4, <1>8, <1>9, Least
<1>11. PICK j \in G3 : C[j] = c
  BY <1>9, <1>10
<1>12. ASSUME NEW k \in G PROVE Before(A, B, C, j, k)
  <2>1. A[j] = a /\ B[j] = b /\ j \in G /\ A[j] <= A[k]
    BY <1>1, <1>2, <1>3, <1>7, <1>8, <1>11
  <2>2. A[j] = A[k] => k \in G2 /\ B[j] <= B[k]
    BY <1>3, <1>5, <1>6, <2>1
  <2>3. A[j] = A[k] /\ B[j] = B[k] => C[j] <= C[k]
    BY <1>7, <1>9, <1>10, <1>11, <2>1, <2>2
  <2>4. A[j] \in Nat /\ A[k] \in Nat /\ B[j] \in Nat /\ B[k] \in Nat
    BY <2>1
  <2> QED BY <2>1, <2>2, <2>3, <2>4 DEF Before
<1>13. j \in G
  BY <1>4, <1>8
<1> QED BY <1>12, <1>13

LEMMA WinnerStands ==
  ASSUME NEW p, IsList(p), \A i \in DOMAIN p : p[i].text \in Nat /\ p[i].at.n \in Nat,
         NEW i \in DOMAIN p, NEW w, w = Winner(p, i)
  PROVE  /\ w \in DOMAIN p /\ Winner(p, w) = w /\ StandsFor(p, w, i)
         /\ {i, w} \subseteq CollapseGroup(p, i) /\ \A k \in CollapseGroup(p, i) : ~DuplicateLess(p[k], p[w])
<1>1. PICK n \in Nat : DOMAIN p = 1 .. n
  BY ListShape
<1>2. PICK g : g = {j \in DOMAIN p : /\ p[i].source = "whitebox" /\ p[j].source = "whitebox"
                                     /\ p[j].category = p[i].category /\ p[j].at = p[i].at}
  OBVIOUS
<1>3. PICK G : G = CollapseGroup(p, i)
  OBVIOUS
<1>4. PICK tiers : tiers = {p[j].tier : j \in g}
  OBVIOUS
<1>5. G = IF Cardinality(tiers) > 1 THEN g ELSE {i}
  BY <1>2, <1>3, <1>4 DEF CollapseGroup
<1>6. PICK best : best = {j \in G : \A k \in G : ~DuplicateLess(p[k], p[j])}
  OBVIOUS
<1>7. w = Min(best)
  BY <1>3, <1>6 DEF Winner
<1>8. CASE Cardinality(tiers) > 1
  <2>1. G = g /\ g \subseteq 1 .. n /\ \A j \in g : Meet(p, j, i)
    BY <1>1, <1>2, <1>5, <1>8 DEF Meet
  <2>2. tiers # {} /\ \A t : tiers # {t}
    <3>1. tiers # {}
      BY <1>8, FS_EmptySet
    <3>2. ASSUME NEW t, tiers = {t} PROVE FALSE
      <4>1. Cardinality({t}) = 1
        BY FS_Singleton
      <4> QED BY <1>8, <3>2, <4>1
    <3> QED BY <3>1, <3>2
  <2>3. g # {}
    BY <1>4, <2>2
  <2>4. i \in g /\ \E y \in g : p[y].tier # p[i].tier
    <3>1. i \in g
      BY <1>2, <2>3
    <3>2. p[i].tier \in tiers
      BY <1>4, <3>1
    <3>3. PICK t \in tiers : t # p[i].tier
      BY <2>2, <3>2
    <3> QED BY <1>4, <3>1, <3>3
  <2>5. \A j, k \in g : p[j].at.n = p[k].at.n /\ p[j].text \in Nat /\ p[k].text \in Nat
    BY <1>2
  <2>6. PICK A : A = [j \in g |-> 3 - TrustRank(p[j].tier)]
    OBVIOUS
  <2>7. PICK B : B = [j \in g |-> 5 - SeverityRank(p[j].severity)]
    OBVIOUS
  <2>8. PICK C : C = [j \in g |-> p[j].text]
    OBVIOUS
  <2>9. \A j \in g : A[j] \in Nat /\ B[j] \in Nat /\ C[j] \in Nat
    BY <2>5, <2>6, <2>7, <2>8, Ranks
  <2>10. PICK j \in g : \A k \in g : Before(A, B, C, j, k)
    BY ONLY <2>3, <2>9, Foremost
  <2>11. \A k \in g : ~DuplicateLess(p[k], p[j])
    <3> SUFFICES ASSUME NEW k \in g PROVE ~DuplicateLess(p[k], p[j])
      OBVIOUS
    <3>1. PICK tj, tk \in 0 .. 3 : tj = TrustRank(p[j].tier) /\ tk = TrustRank(p[k].tier)
      BY Ranks
    <3>2. PICK sj, sk \in 0 .. 5 : sj = SeverityRank(p[j].severity) /\ sk = SeverityRank(p[k].severity)
      BY Ranks
    <3>3. A[j] = 3 - tj /\ A[k] = 3 - tk /\ B[j] = 5 - sj /\ B[k] = 5 - sk /\ C[j] = p[j].text /\ C[k] = p[k].text
      BY <2>6, <2>7, <2>8, <3>1, <3>2
    <3>4. \/ 3 - tj < 3 - tk
          \/ 3 - tj = 3 - tk /\ (5 - sj < 5 - sk \/ (5 - sj = 5 - sk /\ p[j].text <= p[k].text))
      BY <2>10, <3>3 DEF Before
    <3>5. p[j].text \in Nat /\ p[k].text \in Nat /\ p[j].at.n = p[k].at.n /\ p[j].at.n \in Nat
      BY <1>1, <2>1, <2>5
    <3>6. ~FindingLess(p[k], p[j]) \/ ~(p[j].text <= p[k].text)
      BY <3>5 DEF FindingLess
    <3> QED BY <3>1, <3>2, <3>4, <3>5, <3>6 DEF DuplicateLess
  <2>12. best # {} /\ best \subseteq g /\ g \subseteq Nat
    BY <1>6, <2>1, <2>10, <2>11
  <2>13. w \in best
    BY <1>7, <2>12, Smallest
  <2>14. w \in g /\ w \in DOMAIN p /\ Meet(p, w, i)
    BY <1>1, <2>1, <2>12, <2>13
  <2>15. ~DuplicateLess(p[i], p[w])
    BY <1>6, <2>1, <2>4, <2>13
  <2>16. StandsFor(p, w, i)
    <3>1. PICK ti, tw \in 0 .. 3 : ti = TrustRank(p[i].tier) /\ tw = TrustRank(p[w].tier)
      BY Ranks
    <3>2. PICK si, sw \in 0 .. 5 : si = SeverityRank(p[i].severity) /\ sw = SeverityRank(p[w].severity)
      BY Ranks
    <3>3. tw >= ti /\ (tw = ti => sw >= si)
      BY <2>15, <3>1, <3>2 DEF DuplicateLess
    <3>4. \E y \in DOMAIN p : Meet(p, y, i) /\ p[y].tier # p[i].tier
      BY <1>1, <2>1, <2>4
    <3> QED BY <2>14, <3>1, <3>2, <3>3, <3>4 DEF StandsFor
  <2>17. g = {k \in DOMAIN p : /\ p[w].source = "whitebox" /\ p[k].source = "whitebox"
                               /\ p[k].category = p[w].category /\ p[k].at = p[w].at}
    BY <1>2, <2>14 DEF Meet
  <2>18. CollapseGroup(p, w) = g
    BY <1>4, <1>8, <2>17 DEF CollapseGroup
  <2>19. Winner(p, w) = w
    BY <1>6, <1>7, <2>1, <2>18 DEF Winner
  <2> QED BY <1>3, <1>6, <2>1, <2>4, <2>13, <2>14, <2>16, <2>19
<1>9. CASE ~(Cardinality(tiers) > 1)
  <2>1. G = {i}
    BY <1>5, <1>9
  <2>2. ~DuplicateLess(p[i], p[i])
    <3>1. p[i].text \in Nat /\ p[i].at.n \in Nat /\ TrustRank(p[i].tier) \in 0 .. 3 /\ SeverityRank(p[i].severity) \in 0 .. 5
      BY Ranks
    <3> QED BY <3>1 DEF DuplicateLess, FindingLess
  <2>3. best = {i}
    BY <1>6, <2>1, <2>2
  <2>4. w = i
    <3>1. {i} \subseteq Nat /\ {i} # {}
      BY <1>1
    <3>2. PICK T : T = {i}
      OBVIOUS
    <3> QED BY <1>7, <2>3, <3>1, <3>2, Smallest
  <2>5. w \in DOMAIN p /\ Winner(p, w) = w /\ StandsFor(p, w, i)
    BY <2>4 DEF StandsFor
  <2>6. {i, w} \subseteq CollapseGroup(p, i) /\ \A k \in CollapseGroup(p, i) : ~DuplicateLess(p[k], p[w])
    BY <1>3, <2>1, <2>2, <2>4
  <2> QED BY <2>5, <2>6
<1> QED BY <1>8, <1>9

(* Collapsing keeps the winners, and gives them the references of the rest. *)
ButRefs(x, e) == DOMAIN x = DOMAIN e /\ \A k \in EvidenceFields \ {"refs"} : x[k] = e[k]

LEMMA CollapsedShape ==
  ASSUME NEW p, IsList(p), \A i \in DOMAIN p : DOMAIN p[i] = EvidenceFields /\ p[i].text \in Nat /\ p[i].at.n \in Nat,
         NEW d, d = CollapseDuplicateLocations(p)
  PROVE  /\ IsList(d) /\ \A x \in Range(d) : \E i \in DOMAIN p : ButRefs(x, p[i]) /\ Winner(p, i) = i
         /\ \A i \in DOMAIN p : Winner(p, i) = i => \E x \in Range(d) : ButRefs(x, p[i])
         /\ \A i \in DOMAIN p : \E w \in DOMAIN p : StandsFor(p, w, i) /\ \E x \in Range(d) : ButRefs(x, p[w])
<1>1. PICK n \in Nat : DOMAIN p = 1 .. n
  BY ListShape
<1> DEFINE merged(i) == [p[i] EXCEPT !.refs = UNION {p[j].refs : j \in CollapseGroup(p, i)}]
<1>2. PICK all : all = [i \in DOMAIN p |-> merged(i)]
  OBVIOUS
<1>3. IsList(all) /\ DOMAIN all = 1 .. n
  <2>1. all = [i \in 1 .. n |-> all[i]] /\ DOMAIN all = 1 .. n
    BY <1>1, <1>2
  <2> QED BY <2>1, ListOf
<1>4. ASSUME NEW i \in DOMAIN p PROVE ButRefs(all[i], p[i])
  <2>1. PICK r : r = UNION {p[j].refs : j \in CollapseGroup(p, i)}
    OBVIOUS
  <2>2. all[i] = [p[i] EXCEPT !.refs = r]
    BY <1>2, <2>1, Zenon
  <2> QED BY <2>2 DEF ButRefs
<1>5. PICK W : W = {i \in DOMAIN p : Winner(p, i) = i}
  OBVIOUS
<1>6. d = At(all, W)
  BY <1>2, <1>5, Zenon DEF CollapseDuplicateLocations
<1>7. /\ IsList(At(all, W)) /\ \A i \in W \cap DOMAIN all : all[i] \in Range(At(all, W))
      /\ \A x \in Range(At(all, W)) : \E i \in W \cap DOMAIN all : x = all[i]
  BY <1>3, AtHolds
<1>8. ASSUME NEW i \in DOMAIN p
      PROVE  \E w \in DOMAIN p : StandsFor(p, w, i) /\ \E x \in Range(d) : ButRefs(x, p[w])
  <2>1. PICK w : w = Winner(p, i)
    OBVIOUS
  <2>2. w \in DOMAIN p /\ Winner(p, w) = w /\ StandsFor(p, w, i)
    BY <2>1, WinnerStands
  <2>3. all[w] \in Range(d) /\ ButRefs(all[w], p[w])
    BY <1>1, <1>3, <1>4, <1>5, <1>6, <1>7, <2>2
  <2> QED BY <2>2, <2>3
<1>9. ASSUME NEW x \in Range(d) PROVE \E i \in DOMAIN p : ButRefs(x, p[i]) /\ Winner(p, i) = i
  <2>1. PICK i \in W \cap DOMAIN all : x = all[i]
    BY <1>6, <1>7
  <2> QED BY <1>4, <1>5, <2>1
<1>10. ASSUME NEW i \in DOMAIN p, Winner(p, i) = i PROVE \E x \in Range(d) : ButRefs(x, p[i])
  <2>1. all[i] \in Range(d) /\ ButRefs(all[i], p[i])
    BY <1>1, <1>3, <1>4, <1>5, <1>6, <1>7, <1>10
  <2> QED BY <2>1
<1> QED BY <1>6, <1>7, <1>8, <1>9, <1>10

-----------------------------------------------------------------------------
(* --- grouping ------------------------------------------------------------ *)
(* What grouping starts from, and what a finding keeps of its group ms.     *)
Bare(f) == \A k \in Internal : f[k] = Blank[k]
Member(m) == DOMAIN m = EvidenceFields /\ m.source \in Sources /\ m.affected = {} /\ Bare(m)
Carries(g, ms) ==
  /\ \E m \in ms : g.at = m.at
  /\ \E m \in ms : g.source = m.source
  /\ g.source = "whitebox" => \A m \in ms : m.source = "whitebox"
  /\ \E m \in ms : g.confidence = m.confidence
  /\ g.reachable <=> \E m \in ms : m.reachable
  /\ g.provenPath <=> \E m \in ms : m.provenPath
  /\ g.routeConfirmed <=> \E m \in ms : m.routeConfirmed
  /\ \E m \in ms : g.tier = m.tier
  /\ \A m \in ms : TrustRank(g.tier) >= TrustRank(m.tier)
GroupOf(g, ms) ==
  /\ DOMAIN g = EvidenceFields /\ g.source \in Sources /\ g.affected = {m.at : m \in ms} /\ Bare(g)
  /\ \A m \in ms : DedupKey(m) = DedupKey(g)
  /\ Carries(g, ms)

LEMMA SourcesMerged ==
  ASSUME NEW a \in Sources, NEW b \in Sources, a = "imported" <=> b = "imported", NEW c, c = MergeSource(a, b)
  PROVE  /\ c \in {a, b} /\ c \in Sources /\ (c = "imported" <=> a = "imported")
         /\ c = "whitebox" => a = "whitebox" /\ b = "whitebox"
BY DEF MergeSource, Sources

LEMMA KeyParts ==
  ASSUME NEW x, NEW y
  PROVE  DedupKey(x) = DedupKey(y)
           <=> /\ x.severity = y.severity /\ x.category = y.category /\ x.title = y.title
               /\ (x.source = "imported") <=> (y.source = "imported")
<1>1. PICK a, b \in BOOLEAN : (a <=> x.source = "imported") /\ (b <=> y.source = "imported")
  OBVIOUS
<1>2. DedupKey(x) = <<x.severity, x.category, x.title, a>> /\ DedupKey(y) = <<y.severity, y.category, y.title, b>>
  BY <1>1 DEF DedupKey
<1>3. DedupKey(x) = DedupKey(y) <=> x.severity = y.severity /\ x.category = y.category /\ x.title = y.title /\ a = b
  BY <1>2
<1> QED BY <1>1, <1>3

LEMMA SeedShape ==
  ASSUME NEW m, Member(m), NEW f, f = Seed(m)
  PROVE  /\ DOMAIN f = EvidenceFields /\ f.affected = {m.at}
         /\ \A k \in EvidenceFields \ {"affected"} : f[k] = m[k]
         /\ DedupKey(f) = DedupKey(m) /\ GroupOf(f, {m})
<1>1. f = [m EXCEPT !.affected = {m.at}]
  <2>1. m.affected \cup {m.at} = {m.at}
    BY DEF Member
  <2> QED BY <2>1 DEF Seed
<1>2. DOMAIN f = EvidenceFields /\ f.affected = {m.at} /\ \A k \in EvidenceFields \ {"affected"} : f[k] = m[k]
  BY <1>1 DEF Member, EvidenceFields
<1>3. /\ f.severity = m.severity /\ f.category = m.category /\ f.title = m.title /\ f.source = m.source
      /\ f.at = m.at /\ f.confidence = m.confidence /\ f.reachable = m.reachable /\ f.provenPath = m.provenPath
      /\ f.routeConfirmed = m.routeConfirmed /\ f.tier = m.tier
  BY <1>2 DEF EvidenceFields
<1>4. DedupKey(f) = DedupKey(m)
  BY <1>3 DEF DedupKey
<1>5. Bare(f)
  BY <1>2 DEF Member, Bare, Internal, EvidenceFields
<1>6. TrustRank(f.tier) >= TrustRank(m.tier)
  BY <1>3, Ranks
<1>7. Carries(f, {m})
  BY <1>3, <1>6 DEF Carries
<1> QED BY <1>2, <1>3, <1>4, <1>5, <1>7 DEF GroupOf, Member

LEMMA FoldedShape ==
  ASSUME NEW g, DOMAIN g = EvidenceFields, NEW f, DOMAIN f = EvidenceFields, NEW x, x = FoldMember(g, f)
  PROVE  /\ DOMAIN x = EvidenceFields
         /\ \E primary \in {g, f} :
              \A k \in EvidenceFields \ {"confidence", "source", "reachable", "provenPath", "routeConfirmed", "tier",
                                         "chain", "route", "refs", "affected"} : x[k] = primary[k]
         /\ x.confidence \in {g.confidence, f.confidence} /\ x.source = MergeSource(g.source, f.source)
         /\ x.reachable <=> g.reachable \/ f.reachable
         /\ x.provenPath <=> g.provenPath \/ f.provenPath
         /\ x.routeConfirmed <=> g.routeConfirmed \/ f.routeConfirmed
         /\ x.tier \in {g.tier, f.tier} /\ x.affected = g.affected \cup f.affected
         /\ TrustRank(x.tier) >= TrustRank(g.tier) /\ TrustRank(x.tier) >= TrustRank(f.tier)
<1>1. PICK primary \in {g, f} : primary = IF FindingLess(f, g) THEN f ELSE g
  OBVIOUS
<1>2. PICK cf \in {g.confidence, f.confidence} :
        cf = IF ConfidenceRank(f.confidence) > ConfidenceRank(g.confidence) THEN f.confidence ELSE g.confidence
  OBVIOUS
<1>3. PICK tier \in {g.tier, f.tier} : tier = IF TrustRank(f.tier) > TrustRank(g.tier) THEN f.tier ELSE g.tier
  OBVIOUS
<1>4. PICK chain : chain = Prefer(g, f, 0, g.chain, f.chain)
  OBVIOUS
<1>5. PICK route : route = Prefer(g, f, NoRoute, g.route, f.route)
  OBVIOUS
<1>6. PICK refs : refs = g.refs \cup f.refs
  OBVIOUS
<1>7. PICK aff : aff = g.affected \cup f.affected
  OBVIOUS
<1>8. PICK src : src = MergeSource(g.source, f.source)
  OBVIOUS
<1>16. PICK reach, proven, confirmed :
         /\ reach = (g.reachable \/ f.reachable) /\ proven = (g.provenPath \/ f.provenPath)
         /\ confirmed = (g.routeConfirmed \/ f.routeConfirmed)
  OBVIOUS
<1>9. x = [primary EXCEPT !.confidence = cf, !.source = src, !.reachable = reach,
             !.provenPath = proven, !.routeConfirmed = confirmed,
             !.tier = tier, !.chain = chain, !.route = route, !.refs = refs, !.affected = aff]
  BY <1>1, <1>2, <1>3, <1>4, <1>5, <1>6, <1>7, <1>8, <1>16, ZenonT(40) DEF FoldMember
<1>10. DOMAIN primary = EvidenceFields
  OBVIOUS
<1>11. DOMAIN x = EvidenceFields
  BY <1>9, <1>10
<1>12. \A k \in EvidenceFields \ {"confidence", "source", "reachable", "provenPath", "routeConfirmed", "tier",
                                  "chain", "route", "refs", "affected"} : x[k] = primary[k]
  BY <1>9, <1>10
<1>13. x.confidence = cf /\ x.source = src /\ x.tier = tier /\ x.affected = aff
  BY <1>9, <1>10 DEF EvidenceFields
<1>14. /\ x.reachable <=> g.reachable \/ f.reachable
       /\ x.provenPath <=> g.provenPath \/ f.provenPath
       /\ x.routeConfirmed <=> g.routeConfirmed \/ f.routeConfirmed
  <2>1. x.reachable = reach /\ x.provenPath = proven /\ x.routeConfirmed = confirmed
    BY <1>9, <1>10 DEF EvidenceFields
  <2> QED BY ONLY <1>16, <2>1, Zenon
<1>15. TrustRank(x.tier) >= TrustRank(g.tier) /\ TrustRank(x.tier) >= TrustRank(f.tier)
  <2>1. TrustRank(g.tier) \in 0 .. 3 /\ TrustRank(f.tier) \in 0 .. 3
    BY Ranks
  <2> QED BY <1>3, <1>13, <2>1
<1> QED BY <1>1, <1>2, <1>3, <1>7, <1>8, <1>11, <1>12, <1>13, <1>14, <1>15

LEMMA FoldKeeps ==
  ASSUME NEW g, NEW ms, GroupOf(g, ms), NEW m, Member(m), DedupKey(m) = DedupKey(g), NEW x, x = FoldMember(g, Seed(m))
  PROVE  GroupOf(x, ms \cup {m})
<1>1. PICK f : f = Seed(m)
  OBVIOUS
<1>2. /\ DOMAIN f = EvidenceFields /\ f.affected = {m.at}
      /\ \A k \in EvidenceFields \ {"affected"} : f[k] = m[k]
      /\ DedupKey(f) = DedupKey(m)
  BY <1>1, SeedShape, ZenonT(40)
<1>3. DOMAIN g = EvidenceFields /\ g.source \in Sources /\ g.affected = {y.at : y \in ms} /\ Carries(g, ms)
      /\ \A y \in ms : DedupKey(y) = DedupKey(g)
  BY DEF GroupOf
<1>4. PICK primary \in {g, f} :
         \A k \in EvidenceFields \ {"confidence", "source", "reachable", "provenPath", "routeConfirmed", "tier",
                                    "chain", "route", "refs", "affected"} : x[k] = primary[k]
  BY <1>1, <1>2, <1>3, FoldedShape
<1>5. /\ DOMAIN x = EvidenceFields
      /\ x.confidence \in {g.confidence, f.confidence} /\ x.source = MergeSource(g.source, f.source)
      /\ x.reachable <=> g.reachable \/ f.reachable
      /\ x.provenPath <=> g.provenPath \/ f.provenPath
      /\ x.routeConfirmed <=> g.routeConfirmed \/ f.routeConfirmed
      /\ x.tier \in {g.tier, f.tier} /\ x.affected = g.affected \cup f.affected
      /\ TrustRank(x.tier) >= TrustRank(g.tier) /\ TrustRank(x.tier) >= TrustRank(f.tier)
  BY <1>1, <1>2, <1>3, FoldedShape
<1>6. /\ f.severity = m.severity /\ f.category = m.category /\ f.title = m.title /\ f.source = m.source
      /\ f.at = m.at /\ f.confidence = m.confidence /\ f.reachable = m.reachable /\ f.provenPath = m.provenPath
      /\ f.routeConfirmed = m.routeConfirmed /\ f.tier = m.tier
  BY <1>2 DEF EvidenceFields
<1>7. x.severity = primary.severity /\ x.category = primary.category /\ x.title = primary.title /\ x.at = primary.at
  BY <1>4 DEF EvidenceFields
<1>8. /\ f.severity = g.severity /\ f.category = g.category /\ f.title = g.title
      /\ (f.source = "imported") <=> (g.source = "imported")
  BY <1>2, KeyParts
<1>9. /\ x.source \in {g.source, m.source} /\ x.source \in Sources /\ (x.source = "imported" <=> g.source = "imported")
      /\ x.source = "whitebox" => g.source = "whitebox" /\ m.source = "whitebox"
  <2>1. m.source \in Sources
    BY DEF Member
  <2> QED BY <1>3, <1>5, <1>6, <1>8, <2>1, SourcesMerged
<1>10. DedupKey(x) = DedupKey(g)
  BY <1>7, <1>8, <1>9, KeyParts
<1>11. x.affected = {y.at : y \in ms \cup {m}}
  BY <1>2, <1>3, <1>5
<1>12. Bare(x)
  <2>1. \A k \in Internal : x[k] = primary[k]
    BY <1>4 DEF Internal, EvidenceFields
  <2>2. \A k \in Internal : f[k] = m[k] /\ m[k] = Blank[k]
    BY <1>2 DEF Internal, EvidenceFields, Member, Bare
  <2>3. \A k \in Internal : g[k] = Blank[k]
    BY DEF GroupOf, Bare
  <2> QED BY <2>1, <2>2, <2>3 DEF Bare
<1>13. Carries(x, ms \cup {m})
  <2>1. (\E y \in ms \cup {m} : x.at = y.at) /\ \E y \in ms \cup {m} : x.source = y.source
    BY <1>3, <1>6, <1>7, <1>9 DEF Carries
  <2>2. x.source = "whitebox" => \A y \in ms \cup {m} : y.source = "whitebox"
    BY <1>3, <1>9 DEF Carries
  <2>3. (\E y \in ms \cup {m} : x.confidence = y.confidence) /\ \E y \in ms \cup {m} : x.tier = y.tier
    BY <1>3, <1>5, <1>6 DEF Carries
  <2>4. /\ x.reachable <=> \E y \in ms \cup {m} : y.reachable
        /\ x.provenPath <=> \E y \in ms \cup {m} : y.provenPath
        /\ x.routeConfirmed <=> \E y \in ms \cup {m} : y.routeConfirmed
    BY <1>3, <1>5, <1>6 DEF Carries
  <2>5. \A y \in ms \cup {m} : TrustRank(x.tier) >= TrustRank(y.tier)
    <3>1. ASSUME NEW y \in ms PROVE TrustRank(x.tier) >= TrustRank(y.tier)
      <4>1. TrustRank(g.tier) >= TrustRank(y.tier) /\ TrustRank(x.tier) >= TrustRank(g.tier)
        BY <1>3, <1>5 DEF Carries
      <4>2. TrustRank(g.tier) \in 0 .. 3 /\ TrustRank(x.tier) \in 0 .. 3 /\ TrustRank(y.tier) \in 0 .. 3
        BY Ranks
      <4> QED BY <4>1, <4>2
    <3> QED BY <1>5, <1>6, <3>1
  <2> QED BY <2>1, <2>2, <2>3, <2>4, <2>5 DEF Carries
<1> QED BY <1>2, <1>3, <1>5, <1>9, <1>10, <1>11, <1>12, <1>13 DEF GroupOf

(* What a group's finding is chosen for, of members that say what an engine *)
(* may say: its place comes first, its confidence is the highest.           *)
Plain(m) ==
  /\ Member(m) /\ m.at \in Locations /\ m.at.n \in Nat /\ m.text \in Nat
  /\ m.tier \in Tiers /\ m.confidence \in Confidences /\ Flags(m)
Chosen(g, ms) ==
  /\ \A m \in ms : Plain(m) /\ ~FindingLess(m, g) /\ ConfidenceRank(g.confidence) >= ConfidenceRank(m.confidence)
  /\ (\E m \in ms : g.at = m.at /\ g.text = m.text) /\ Flags(g)

LEMMA FoldedChoice ==
  ASSUME NEW g, DOMAIN g = EvidenceFields, Flags(g), NEW f, DOMAIN f = EvidenceFields, Flags(f),
         NEW x, x = FoldMember(g, f)
  PROVE  /\ \/ FindingLess(f, g) /\ x.at = f.at /\ x.text = f.text
            \/ ~FindingLess(f, g) /\ x.at = g.at /\ x.text = g.text
         /\ ConfidenceRank(x.confidence) >= ConfidenceRank(g.confidence)
         /\ ConfidenceRank(x.confidence) >= ConfidenceRank(f.confidence)
         /\ Flags(x)
<1>1. PICK primary \in {g, f} : primary = IF FindingLess(f, g) THEN f ELSE g
  OBVIOUS
<1>2. PICK cf : cf = IF ConfidenceRank(f.confidence) > ConfidenceRank(g.confidence) THEN f.confidence ELSE g.confidence
  OBVIOUS
<1>3. PICK tier, chain, route : /\ tier = (IF TrustRank(f.tier) > TrustRank(g.tier) THEN f.tier ELSE g.tier)
                                /\ chain = Prefer(g, f, 0, g.chain, f.chain)
                                /\ route = Prefer(g, f, NoRoute, g.route, f.route)
  OBVIOUS
<1>4. PICK refs, aff, src : refs = g.refs \cup f.refs /\ aff = g.affected \cup f.affected /\ src = MergeSource(g.source, f.source)
  OBVIOUS
<1>5. PICK reach, proven, confirmed :
         /\ reach = (g.reachable \/ f.reachable) /\ proven = (g.provenPath \/ f.provenPath)
         /\ confirmed = (g.routeConfirmed \/ f.routeConfirmed)
  OBVIOUS
<1>6. x = [primary EXCEPT !.confidence = cf, !.source = src, !.reachable = reach,
             !.provenPath = proven, !.routeConfirmed = confirmed,
             !.tier = tier, !.chain = chain, !.route = route, !.refs = refs, !.affected = aff]
  BY <1>1, <1>2, <1>3, <1>4, <1>5, ZenonT(40) DEF FoldMember
<1>7. DOMAIN primary = EvidenceFields
  OBVIOUS
<1>8. /\ x.at = primary.at /\ x.text = primary.text /\ x.confidence = cf
      /\ x.reachable = reach /\ x.provenPath = proven /\ x.routeConfirmed = confirmed
  BY <1>6, <1>7 DEF EvidenceFields
<1>9. \A c : ConfidenceRank(c) \in 0 .. 3
  BY DEF ConfidenceRank
<1>10. ConfidenceRank(cf) >= ConfidenceRank(g.confidence) /\ ConfidenceRank(cf) >= ConfidenceRank(f.confidence)
  BY <1>2, <1>9
<1>11. Flags(x)
  <2>1. reach \in BOOLEAN /\ proven \in BOOLEAN /\ confirmed \in BOOLEAN
    BY <1>5
  <2> QED BY <1>8, <2>1 DEF Flags
<1>12. CASE FindingLess(f, g)
  BY <1>1, <1>8, <1>10, <1>11, <1>12
<1>13. CASE ~FindingLess(f, g)
  BY <1>1, <1>8, <1>10, <1>11, <1>13
<1> QED BY <1>12, <1>13

LEMMA SeedChosen ==
  ASSUME NEW m, Plain(m), NEW f, f = Seed(m)
  PROVE  Chosen(f, {m})
<1>1. DOMAIN f = EvidenceFields /\ \A k \in EvidenceFields \ {"affected"} : f[k] = m[k]
  BY SeedShape, ZenonT(40) DEF Plain
<1>2. /\ f.at = m.at /\ f.text = m.text /\ f.confidence = m.confidence
      /\ f.reachable = m.reachable /\ f.provenPath = m.provenPath /\ f.routeConfirmed = m.routeConfirmed
  BY <1>1 DEF EvidenceFields
<1>3. ConfidenceRank(m.confidence) \in 0 .. 3
  BY DEF ConfidenceRank
<1>4. ~FindingLess(m, f) /\ Flags(f)
  BY <1>2 DEF FindingLess, Plain, Flags
<1> QED BY <1>2, <1>3, <1>4 DEF Chosen

LEMMA FoldChooses ==
  ASSUME NEW g, DOMAIN g = EvidenceFields, NEW ms, Chosen(g, ms), NEW m, Plain(m), NEW x, x = FoldMember(g, Seed(m))
  PROVE  Chosen(x, ms \cup {m})
<1>1. PICK f : f = Seed(m)
  OBVIOUS
<1>2. DOMAIN f = EvidenceFields /\ \A k \in EvidenceFields \ {"affected"} : f[k] = m[k]
  BY <1>1, SeedShape, ZenonT(40) DEF Plain
<1>3. /\ f.at = m.at /\ f.text = m.text /\ f.confidence = m.confidence
      /\ f.reachable = m.reachable /\ f.provenPath = m.provenPath /\ f.routeConfirmed = m.routeConfirmed
  BY <1>2 DEF EvidenceFields
<1>4. Flags(f) /\ Flags(g)
  BY <1>3 DEF Plain, Flags, Chosen
<1>5. /\ \/ FindingLess(f, g) /\ x.at = f.at /\ x.text = f.text
         \/ ~FindingLess(f, g) /\ x.at = g.at /\ x.text = g.text
      /\ ConfidenceRank(x.confidence) >= ConfidenceRank(g.confidence)
      /\ ConfidenceRank(x.confidence) >= ConfidenceRank(f.confidence)
      /\ Flags(x)
  BY <1>1, <1>2, <1>4, FoldedChoice
<1>6. PICK y0 \in ms : g.at = y0.at /\ g.text = y0.text
  BY DEF Chosen
<1>7. /\ g.at.n \in Nat /\ g.text \in Nat /\ f.at.n \in Nat /\ f.text \in Nat
      /\ \A y \in ms : y.at.n \in Nat /\ y.text \in Nat
  BY <1>3, <1>6 DEF Chosen, Plain
<1>8. \A c : ConfidenceRank(c) \in 0 .. 3
  BY DEF ConfidenceRank
<1>9. ASSUME NEW y \in ms PROVE ~FindingLess(y, x) /\ ConfidenceRank(x.confidence) >= ConfidenceRank(y.confidence)
  <2>1. ~FindingLess(y, g) /\ ConfidenceRank(g.confidence) >= ConfidenceRank(y.confidence)
    BY DEF Chosen
  <2>2. ~FindingLess(y, x)
    BY <1>5, <1>7, <2>1 DEF FindingLess
  <2>3. PICK cx, cg, cy \in 0 .. 3 : /\ cx = ConfidenceRank(x.confidence) /\ cg = ConfidenceRank(g.confidence)
                                     /\ cy = ConfidenceRank(y.confidence)
    BY <1>8
  <2> QED BY <1>5, <2>1, <2>2, <2>3
<1>10. ~FindingLess(m, x) /\ ConfidenceRank(x.confidence) >= ConfidenceRank(m.confidence)
  BY <1>3, <1>5, <1>7 DEF FindingLess
<1>11. \E y \in ms \cup {m} : x.at = y.at /\ x.text = y.text
  BY <1>3, <1>5, <1>6
<1> QED BY <1>5, <1>9, <1>10, <1>11 DEF Chosen

(* A group's finding carries what is at its first member and after it.      *)
AtKey(fs, i) == {j \in DOMAIN fs : j >= i /\ DedupKey(fs[j]) = DedupKey(fs[i])}
LEMMA GroupFromKeeps ==
  ASSUME NEW fs, IsList(fs), \A j \in DOMAIN fs : Member(fs[j]), NEW i \in DOMAIN fs,
         NEW g, g = GroupFrom(fs, i), NEW ms, ms = {fs[j] : j \in AtKey(fs, i)}
  PROVE  GroupOf(g, ms) /\ ((\A j \in DOMAIN fs : Plain(fs[j])) => Chosen(g, ms))
<1>1. PICK T : T = {j \in DOMAIN fs : j > i /\ DedupKey(fs[j]) = DedupKey(fs[i])}
  OBVIOUS
<1>2. PICK later : later = At(fs, T)
  OBVIOUS
<1>3. /\ IsList(later) /\ \A j \in T \cap DOMAIN fs : fs[j] \in Range(later)
      /\ \A x \in Range(later) : \E j \in T \cap DOMAIN fs : x = fs[j]
  BY <1>2, AtHolds
<1>4. PICK n \in Nat : n = Len(later) /\ DOMAIN later = 1 .. n
  BY <1>3, ListShape
<1>5. PICK first : first = Seed(fs[i])
  OBVIOUS
<1>6. g = GroupTable(first, later)[DOMAIN later]
  BY <1>1, <1>2, <1>5, Zenon DEF GroupFrom, GroupTable, FoldLeft, MapThenFoldSet
<1>7. PICK acc : /\ acc[0] = first /\ g = acc[n]
                 /\ \A k \in 1 .. n : acc[k] = FoldMember(acc[k - 1], Seed(later[k]))
  <2>1. PICK q : q = GroupTable(first, later)[DOMAIN later]
    OBVIOUS
  <2> QED BY <1>3, <1>4, <1>6, GroupWalk
<1> DEFINE Upto(k) == {fs[i]} \cup {later[j] : j \in 1 .. k}
           plain == \A j \in DOMAIN fs : Plain(fs[j])
           Q == {k \in 0 .. n : GroupOf(acc[k], Upto(k)) /\ (plain => Chosen(acc[k], Upto(k)))}
<1>8. \A j \in 1 .. n : Member(later[j]) /\ DedupKey(later[j]) = DedupKey(fs[i]) /\ (plain => Plain(later[j]))
  <2> SUFFICES ASSUME NEW j \in 1 .. n
               PROVE  Member(later[j]) /\ DedupKey(later[j]) = DedupKey(fs[i]) /\ (plain => Plain(later[j]))
    OBVIOUS
  <2>1. later[j] \in Range(later)
    BY <1>4 DEF Range
  <2>2. PICK k \in T \cap DOMAIN fs : later[j] = fs[k]
    BY <1>3, <2>1
  <2> QED BY <1>1, <2>2
<1>9. 0 \in Q
  <2>1. 1 .. 0 = {} /\ Member(fs[i])
    OBVIOUS
  <2>2. Upto(0) = {fs[i]}
    BY <2>1
  <2>3. GroupOf(first, {fs[i]})
    BY <1>5, <2>1, SeedShape
  <2>4. ASSUME plain PROVE Chosen(first, {fs[i]})
    BY <1>5, <2>4, SeedChosen
  <2> QED BY <1>7, <2>2, <2>3, <2>4
<1>10. ASSUME NEW k \in 0 .. n - 1, k \in Q PROVE k + 1 \in Q
  <2>1. PICK m \in 1 .. n : m = k + 1 /\ k = m - 1 /\ m \in 0 .. n
    OBVIOUS
  <2>2. PICK old : old = Upto(m - 1)
    OBVIOUS
  <2>3. GroupOf(acc[m - 1], old) /\ (plain => Chosen(acc[m - 1], old))
    BY <1>10, <2>1, <2>2
  <2>4. acc[m] = FoldMember(acc[m - 1], Seed(later[m]))
    BY <1>7
  <2>5. DedupKey(later[m]) = DedupKey(acc[m - 1])
    <3>1. fs[i] \in old
      BY <2>2
    <3> QED BY <1>8, <2>3, <3>1 DEF GroupOf
  <2>6. GroupOf(acc[m], old \cup {later[m]})
    BY <1>8, <2>3, <2>4, <2>5, FoldKeeps
  <2>7. old \cup {later[m]} = Upto(m)
    <3>1. 1 .. m = (1 .. (m - 1)) \cup {m}
      OBVIOUS
    <3> QED BY <2>2, <3>1
  <2>8. ASSUME plain PROVE Chosen(acc[m], old \cup {later[m]})
    <3>1. PICK u, v : u = acc[m - 1] /\ v = later[m]
      OBVIOUS
    <3>2. DOMAIN u = EvidenceFields /\ Chosen(u, old) /\ Plain(v)
      BY <1>8, <2>3, <2>8, <3>1 DEF GroupOf
    <3>3. acc[m] = FoldMember(u, Seed(v))
      BY <2>4, <3>1
    <3>4. Chosen(acc[m], old \cup {v})
      BY <3>2, <3>3, FoldChooses
    <3> QED BY <3>1, <3>4
  <2> QED BY <2>1, <2>6, <2>7, <2>8
<1>11. n \in Q
  <2> HIDE DEF Q
  <2>1. \A k \in 0 .. n : k \in Q
    BY <1>9, <1>10, Climb
  <2> QED BY <2>1
<1>12. Upto(n) = ms
  <2>1. \A x \in Upto(n) : x \in ms
    <3>1. PICK I : I = DOMAIN fs
      OBVIOUS
    <3>2. i \in AtKey(fs, i)
      <4>1. i \in Nat
        BY ListShape
      <4> QED BY <4>1 DEF AtKey
    <3>3. \A j \in T \cap DOMAIN fs : j \in AtKey(fs, i)
      <4>1. \A j \in DOMAIN fs : j \in Nat
        BY ListShape
      <4> QED BY <1>1, <4>1 DEF AtKey
    <3>4. \A j \in 1 .. n : later[j] \in ms
      BY <1>3, <1>4, <3>3 DEF Range
    <3> QED BY <3>2, <3>4
  <2>2. \A x \in ms : x \in Upto(n)
    <3> SUFFICES ASSUME NEW j \in AtKey(fs, i) PROVE fs[j] \in Upto(n)
      OBVIOUS
    <3>1. j \in Nat /\ i \in Nat /\ j \in DOMAIN fs /\ j >= i /\ DedupKey(fs[j]) = DedupKey(fs[i])
      BY ListShape DEF AtKey
    <3>2. CASE j = i
      BY <3>2
    <3>3. CASE j # i
      <4>1. j \in T \cap DOMAIN fs
        BY <1>1, <3>1, <3>3
      <4>2. fs[j] \in Range(later)
        BY <1>3, <4>1
      <4> QED BY <1>4, <4>2 DEF Range
    <3> QED BY <3>2, <3>3
  <2> QED BY <2>1, <2>2
<1> QED BY <1>7, <1>11, <1>12

(* After grouping, every finding stands for a group of what was there, and  *)
(* everything that was there is in one.                                     *)
Groups(f, ms) ==
  /\ DOMAIN f = EvidenceFields /\ f.source \in Sources /\ Places(f) = {m.at : m \in ms} /\ Bare(f)
  /\ \A m \in ms : DedupKey(m) = DedupKey(f)
  /\ Carries(f, ms)
LEMMA SingleGroups ==
  ASSUME NEW g, NEW ms, GroupOf(g, ms), IsFiniteSet(g.affected), NEW f, f = Single(g)
  PROVE  Groups(f, ms) /\ \A k \in EvidenceFields \ {"affected"} : f[k] = g[k]
<1>1. DOMAIN g = EvidenceFields /\ g.source \in Sources /\ g.affected = {m.at : m \in ms} /\ Carries(g, ms)
      /\ \A m \in ms : DedupKey(m) = DedupKey(g)
  BY DEF GroupOf
<1>2. g.at \in g.affected
  BY <1>1 DEF Carries
<1>3. f = g \/ (f = [g EXCEPT !.affected = {}] /\ g.affected = {g.at})
  <2>1. CASE Cardinality(g.affected) > 1
    <3>1. f = g
      BY ONLY f = Single(g), <2>1, Zenon DEF Single
    <3> QED BY <3>1
  <2>2. CASE ~(Cardinality(g.affected) > 1)
    <3>1. f = [g EXCEPT !.affected = {}]
      BY <2>2 DEF Single
    <3>2. ASSUME NEW l \in g.affected, l # g.at PROVE FALSE
      <4>1. PICK two : two = {l, g.at}
        OBVIOUS
      <4>2. two \in SUBSET g.affected
        BY <1>2, <4>1
      <4>3. IsFiniteSet(two) /\ Cardinality(two) <= Cardinality(g.affected) /\ Cardinality(g.affected) \in Nat
        BY <4>2, FS_Subset, FS_CardinalityType
      <4>4. Cardinality(two) = 2
        <5>1. IsFiniteSet({l}) /\ Cardinality({l}) = 1
          BY FS_Singleton
        <5>2. Cardinality({l} \cup {g.at}) = Cardinality({l}) + 1
          BY <3>2, <5>1, FS_AddElement
        <5>3. two = {l} \cup {g.at}
          BY <4>1
        <5> QED BY <5>1, <5>2, <5>3
      <4> QED BY <2>2, <4>3, <4>4
    <3> QED BY <1>2, <3>1, <3>2
  <2> QED BY <2>1, <2>2
<1>4. DOMAIN f = EvidenceFields /\ \A k \in EvidenceFields \ {"affected"} : f[k] = g[k]
  BY <1>1, <1>3
<1>5. f.at = g.at /\ Places(f) = g.affected
  <2>1. f.at = g.at
    BY <1>4 DEF EvidenceFields
  <2>2. CASE f = g
    BY <1>2, <2>2 DEF Places
  <2>3. CASE f = [g EXCEPT !.affected = {}] /\ g.affected = {g.at}
    <3>1. f.affected = {}
      BY <1>1, <2>3 DEF EvidenceFields
    <3> QED BY <2>1, <2>3, <3>1 DEF Places
  <2> QED BY <1>3, <2>1, <2>2, <2>3
<1>6. /\ f.severity = g.severity /\ f.category = g.category /\ f.title = g.title /\ f.source = g.source
      /\ f.confidence = g.confidence /\ f.reachable = g.reachable /\ f.provenPath = g.provenPath
      /\ f.routeConfirmed = g.routeConfirmed /\ f.tier = g.tier
  BY <1>4 DEF EvidenceFields
<1>7. Bare(f)
  BY <1>4 DEF EvidenceFields, Internal, GroupOf, Bare
<1>8. Carries(f, ms)
  BY <1>1, <1>5, <1>6 DEF Carries
<1>9. DedupKey(f) = DedupKey(g)
  BY <1>6, KeyParts
<1> QED BY <1>1, <1>4, <1>5, <1>6, <1>7, <1>8, <1>9 DEF Groups

LEMMA DeduplicatedShape ==
  ASSUME NEW fs, IsList(fs), \A j \in DOMAIN fs : Member(fs[j]), NEW q, q = Deduplicate(fs)
  PROVE  /\ IsList(q)
         /\ \A f \in Range(q) : \E ms \in SUBSET Range(fs) : Groups(f, ms)
         /\ \A m \in Range(fs) : \E f \in Range(q) : \E ms \in SUBSET Range(fs) : m \in ms /\ Groups(f, ms)
<1>1. PICK n \in Nat : DOMAIN fs = 1 .. n
  BY ListShape
<1>2. PICK all : all = [i \in DOMAIN fs |-> Single(GroupFrom(fs, i))]
  OBVIOUS
<1>3. IsList(all) /\ DOMAIN all = 1 .. n
  <2>1. all = [i \in 1 .. n |-> all[i]] /\ DOMAIN all = 1 .. n
    BY <1>1, <1>2
  <2> QED BY <2>1, ListOf
<1>4. q = At(all, Firsts(fs))
  BY <1>2, Zenon DEF Deduplicate
<1>5. PICK Heads : Heads = Firsts(fs)
  OBVIOUS
<1>6. /\ IsList(At(all, Heads)) /\ \A i \in Heads \cap DOMAIN all : all[i] \in Range(At(all, Heads))
      /\ \A x \in Range(At(all, Heads)) : \E i \in Heads \cap DOMAIN all : x = all[i]
  BY <1>3, AtHolds
<1>7. ASSUME NEW i \in DOMAIN fs, NEW ms, ms = {fs[j] : j \in AtKey(fs, i)}
      PROVE  Groups(all[i], ms) /\ ms \in SUBSET Range(fs)
  <2>1. PICK g : g = GroupFrom(fs, i)
    OBVIOUS
  <2>2. GroupOf(g, ms)
    BY <1>7, <2>1, GroupFromKeeps
  <2>3. IsFiniteSet(g.affected)
    <3>1. PICK T : T = AtKey(fs, i)
      OBVIOUS
    <3>2. IsFiniteSet(1 .. n) /\ T \in SUBSET (1 .. n)
      BY <1>1, <3>1, FS_Interval DEF AtKey
    <3>3. IsFiniteSet(T)
      BY <3>2, FS_Subset
    <3>4. PICK at : at = [j \in T |-> fs[j].at]
      OBVIOUS
    <3>5. g.affected = {at[j] : j \in T}
      BY <1>7, <2>2, <3>1, <3>4 DEF GroupOf
    <3> QED BY <3>3, <3>5, ImageFinite
  <2>4. all[i] = Single(g)
    BY <1>2, <2>1
  <2>5. ms \in SUBSET Range(fs)
    BY <1>7 DEF AtKey, Range
  <2> QED BY <2>2, <2>3, <2>4, <2>5, SingleGroups
<1>8. ASSUME NEW f \in Range(q) PROVE \E ms \in SUBSET Range(fs) : Groups(f, ms)
  <2>1. PICK i \in Heads \cap DOMAIN all : f = all[i]
    BY <1>4, <1>5, <1>6
  <2>2. PICK ms : ms = {fs[j] : j \in AtKey(fs, i)}
    OBVIOUS
  <2> QED BY <1>1, <1>3, <1>7, <2>1, <2>2
<1>9. ASSUME NEW m \in Range(fs) PROVE \E f \in Range(q) : \E ms \in SUBSET Range(fs) : m \in ms /\ Groups(f, ms)
  <2>1. PICK j \in DOMAIN fs : m = fs[j]
    BY DEF Range
  <2>2. PICK T : T = {i \in DOMAIN fs : DedupKey(fs[i]) = DedupKey(fs[j])}
    OBVIOUS
  <2>3. T \subseteq Nat /\ T # {}
    BY <1>1, <2>2
  <2>4. PICK i \in T : \A k \in T : i <= k
    BY <2>3, Least
  <2>5. i \in DOMAIN fs /\ i <= j /\ DedupKey(fs[i]) = DedupKey(fs[j])
    BY <2>2, <2>4
  <2>6. i \in Firsts(fs)
    <3>1. ASSUME NEW k \in 1 .. i - 1 PROVE DedupKey(fs[k]) # DedupKey(fs[i])
      <4>1. k \in DOMAIN fs /\ ~(i <= k)
        BY <1>1, <2>5
      <4> QED BY <2>2, <2>4, <2>5, <4>1
    <3> QED BY <2>5, <3>1 DEF Firsts
  <2>7. PICK ms : ms = {fs[k] : k \in AtKey(fs, i)}
    OBVIOUS
  <2>8. j \in AtKey(fs, i)
    BY <1>1, <2>5 DEF AtKey
  <2>9. m \in ms
    BY <2>1, <2>7, <2>8
  <2>10. all[i] \in Range(q)
    BY <1>1, <1>3, <1>4, <1>5, <1>6, <2>5, <2>6
  <2> QED BY <1>7, <2>5, <2>7, <2>9, <2>10
<1> QED BY <1>4, <1>5, <1>6, <1>8, <1>9

-----------------------------------------------------------------------------
(* --- what the index gives back ------------------------------------------- *)
LEMMA ProvenanceFields ==
  /\ DOMAIN NoProvenance = Agreed \cup {"anchored", "crossTool", "tools"} /\ DOMAIN NoProvenance \subseteq Internal
  /\ \A k \in DOMAIN NoProvenance : NoProvenance[k] = Blank[k]
  /\ ~NoProvenance.anchored /\ ~NoProvenance.crossTool /\ NoProvenance.tools = {}
<1>1. DOMAIN NoProvenance = Agreed \cup {"anchored", "crossTool", "tools"} /\ DOMAIN NoProvenance \subseteq Internal
  BY DEF NoProvenance, Agreed, Internal
<1>2. \A k \in DOMAIN NoProvenance : NoProvenance[k] = Blank[k]
  <2>1. /\ NoProvenance.probe = Blank.probe /\ NoProvenance.context = Blank.context
        /\ NoProvenance.inTest = Blank.inTest /\ NoProvenance.direct = Blank.direct
        /\ NoProvenance.unconfirmed = Blank.unconfirmed /\ NoProvenance.placeholder = Blank.placeholder
    BY DEF NoProvenance, Blank
  <2>2. /\ NoProvenance.notImported = Blank.notImported /\ NoProvenance.auth = Blank.auth
        /\ NoProvenance.applicability = Blank.applicability /\ NoProvenance.anchored = Blank.anchored
        /\ NoProvenance.crossTool = Blank.crossTool /\ NoProvenance.tools = Blank.tools
    BY DEF NoProvenance, Blank
  <2> QED BY ONLY <1>1, <2>1, <2>2 DEF Agreed
<1>3. ~NoProvenance.anchored /\ ~NoProvenance.crossTool /\ NoProvenance.tools = {}
  BY DEF NoProvenance
<1> QED BY <1>1, <1>2, <1>3

LEMMA ProvenanceOf ==
  ASSUME NEW e, NEW p, p = Provenance(e)
  PROVE  /\ DOMAIN p = DOMAIN NoProvenance
         /\ p.anchored <=> e.anchored
         /\ p.crossTool <=> e.crossTool
         /\ p.tools = e.tools
         /\ p.inTest <=> e.inTest \/ IsTestPath(e.at)
         /\ \A k \in Agreed \ {"inTest"} : p[k] = e[k]
<1>1. p = [k \in DOMAIN NoProvenance |-> IF k = "inTest" THEN e.inTest \/ IsTestPath(e.at) ELSE e[k]]
  BY Zenon DEF Provenance
<1>2. PICK t : t = (e.inTest \/ IsTestPath(e.at))
  OBVIOUS
<1>3. p = [k \in DOMAIN NoProvenance |-> IF k = "inTest" THEN t ELSE e[k]]
  BY <1>1, <1>2, Zenon
<1>8. DOMAIN p = DOMAIN NoProvenance
  BY <1>3
<1>4. \A k \in DOMAIN NoProvenance : p[k] = IF k = "inTest" THEN t ELSE e[k]
  BY <1>3
<1>5. {"inTest", "anchored", "crossTool", "tools"} \subseteq DOMAIN NoProvenance /\ Agreed \subseteq DOMAIN NoProvenance
  BY ProvenanceFields DEF Agreed
<1>6. p.anchored = e.anchored /\ p.crossTool = e.crossTool /\ p.tools = e.tools /\ p.inTest = t
  BY <1>4, <1>5
<1>7. \A k \in Agreed \ {"inTest"} : p[k] = e[k]
  BY <1>4, <1>5
<1> QED BY ONLY <1>2, <1>6, <1>7, <1>8, Zenon

(* What evidence X agrees on, and what any of it says.                      *)
Gives(m, X) ==
  /\ m.anchored <=> \E e \in X : e.anchored
  /\ m.tools = UNION {e.tools : e \in X}
  /\ m.crossTool <=> m.tools # {}
  /\ \A k \in Agreed : m[k] = NoProvenance[k] \/ \A e \in X : Provenance(e)[k] = m[k]

LEMMA IndexGives ==
  ASSUME NEW index, IsFiniteSet(index), \A e \in index : Sound(e), NEW id, NEW m, m = IndexAt(index, id),
         NEW X, X = {e \in index : Identity(e) = id}
  PROVE  DOMAIN m = DOMAIN NoProvenance /\ Gives(m, X)
<1>1. PICK ps : ps = {Provenance(e) : e \in X}
  OBVIOUS
<1>2. m = MergeAll(ps)
  BY <1>1 DEF IndexAt
<1>3. CASE X = {}
  <2>1. m = NoProvenance
    BY <1>1, <1>2, <1>3 DEF MergeAll
  <2> QED BY <1>3, <2>1, ProvenanceFields DEF Gives
<1>4. CASE X # {}
  <2>1. IsFiniteSet(X)
    BY FS_Subset
  <2>2. IsFiniteSet(ps)
    <3>1. PICK h : h = [e \in X |-> Provenance(e)]
      OBVIOUS
    <3>2. ps = {h[e] : e \in X}
      BY <1>1, <3>1
    <3> QED BY <2>1, <3>2, ImageFinite
  <2>3. \A e \in X : /\ DOMAIN Provenance(e) = DOMAIN NoProvenance
                     /\ Provenance(e).anchored <=> e.anchored
                     /\ Provenance(e).crossTool <=> e.crossTool
                     /\ Provenance(e).tools = e.tools
    BY ProvenanceOf
  <2>4. \A p \in ps : DOMAIN p = DOMAIN NoProvenance /\ (p.crossTool <=> p.tools # {})
    <3>1. \A e \in X : e.crossTool <=> e.tools # {}
      BY DEF Sound
    <3> SUFFICES ASSUME NEW e \in X, NEW p, p = Provenance(e)
                 PROVE  DOMAIN p = DOMAIN NoProvenance /\ (p.crossTool <=> p.tools # {})
      BY <1>1
    <3> QED BY <2>3, <3>1
  <2>5. MergedFrom(m, ps)
    BY <1>1, <1>2, <1>4, <2>2, <2>4, Merging
  <2>6. m.anchored <=> \E e \in X : e.anchored
    BY <1>1, <2>3, <2>5 DEF MergedFrom
  <2>7. m.tools = UNION {e.tools : e \in X}
    <3>1. m.tools = UNION {p.tools : p \in ps}
      BY <2>5 DEF MergedFrom
    <3>2. {p.tools : p \in ps} = {e.tools : e \in X}
      BY <1>1, <2>3
    <3> QED BY <3>1, <3>2
  <2>8. \A k \in Agreed : m[k] = NoProvenance[k] \/ \A e \in X : Provenance(e)[k] = m[k]
    BY <1>1, <2>5 DEF MergedFrom
  <2>9. m.crossTool <=> m.tools # {}
    BY <2>5 DEF MergedFrom
  <2>10. DOMAIN m = DOMAIN NoProvenance
    BY <2>5 DEF MergedFrom
  <2> QED BY <2>6, <2>7, <2>8, <2>9, <2>10 DEF Gives
<1> QED BY <1>3, <1>4

Own(index, f) == {e \in index : Identity(e) \in {<<f.category, l, f.title>> : l \in Places(f)}}
LEMMA LookupGives ==
  ASSUME NEW index, IsFiniteSet(index), \A e \in index : Sound(e), NEW f, IsFiniteSet(Places(f)),
         NEW m, m = Lookup(index, f), NEW own, own = Own(index, f)
  PROVE  DOMAIN m = DOMAIN NoProvenance /\ Gives(m, own)
<1>1. PICK L : L = Places(f)
  OBVIOUS
<1>2. IsFiniteSet(L) /\ L # {}
  BY <1>1 DEF Places
<1>3. PICK at : at = [l \in L |-> IndexAt(index, <<f.category, l, f.title>>)]
  OBVIOUS
<1>4. PICK has : has = [l \in L |-> {e \in index : Identity(e) = <<f.category, l, f.title>>}]
  OBVIOUS
<1>5. PICK ps : ps = {at[l] : l \in L}
  OBVIOUS
<1>6. m = MergeAll(ps)
  <2>1. ps = {IndexAt(index, <<f.category, l, f.title>>) : l \in L}
    BY <1>3, <1>5
  <2> QED BY <1>1, <2>1, Zenon DEF Lookup, Places
<1>7. \A l \in L : DOMAIN at[l] = DOMAIN NoProvenance /\ Gives(at[l], has[l])
  <2> SUFFICES ASSUME NEW l \in L PROVE DOMAIN at[l] = DOMAIN NoProvenance /\ Gives(at[l], has[l])
    OBVIOUS
  <2>1. PICK id : id = <<f.category, l, f.title>>
    OBVIOUS
  <2>2. at[l] = IndexAt(index, id) /\ has[l] = {e \in index : Identity(e) = id}
    BY <1>3, <1>4, <2>1
  <2> QED BY <2>2, IndexGives
<1>8. IsFiniteSet(ps) /\ ps # {}
  BY <1>2, <1>5, ImageFinite
<1>9. \A p \in ps : DOMAIN p = DOMAIN NoProvenance /\ (p.crossTool <=> p.tools # {})
  BY <1>5, <1>7 DEF Gives
<1>10. MergedFrom(m, ps)
  BY <1>6, <1>8, <1>9, Merging
<1>11. \A e \in own : \E l \in L : e \in has[l]
  BY <1>1, <1>4 DEF Own
<1>12. \A l \in L : \A e \in has[l] : e \in own
  BY <1>1, <1>4 DEF Own
<1>13. m.anchored <=> \E e \in own : e.anchored
  <2>1. m.anchored <=> \E l \in L : at[l].anchored
    BY <1>5, <1>10 DEF MergedFrom
  <2>2. \A l \in L : at[l].anchored <=> \E e \in has[l] : e.anchored
    BY <1>7 DEF Gives
  <2> QED BY <1>11, <1>12, <2>1, <2>2
<1>14. m.tools = UNION {e.tools : e \in own}
  <2>1. \A t : t \in m.tools <=> \E l \in L : t \in at[l].tools
    BY <1>5, <1>10 DEF MergedFrom
  <2>2. \A l \in L : at[l].tools = UNION {e.tools : e \in has[l]}
    BY <1>7 DEF Gives
  <2>3. \A t : t \in m.tools <=> \E l \in L : \E e \in has[l] : t \in e.tools
    BY <2>1, <2>2
  <2>4. \A t : t \in m.tools <=> \E e \in own : t \in e.tools
    BY <1>11, <1>12, <2>3
  <2>5. m.tools = UNION {p.tools : p \in ps}
    BY <1>10 DEF MergedFrom
  <2> QED BY <2>4, <2>5
<1>15. m.crossTool <=> m.tools # {}
  BY <1>10 DEF MergedFrom
<1>16. ASSUME NEW k \in Agreed, m[k] # NoProvenance[k] PROVE \A e \in own : Provenance(e)[k] = m[k]
  <2>1. \A l \in L : at[l][k] = m[k]
    BY <1>5, <1>10, <1>16 DEF MergedFrom
  <2>2. \A l \in L : \A e \in has[l] : Provenance(e)[k] = m[k]
    BY <1>7, <1>16, <2>1 DEF Gives
  <2> QED BY <1>11, <2>2
<1>17. DOMAIN m = DOMAIN NoProvenance
  BY <1>10 DEF MergedFrom
<1> QED BY <1>13, <1>14, <1>15, <1>16, <1>17 DEF Gives

LEMMA RestoredShape ==
  ASSUME NEW index, IsFiniteSet(index), \A e \in index : Sound(e), NEW f, IsFiniteSet(Places(f)),
         DOMAIN f = EvidenceFields, Bare(f), NEW x, x = Restored(index, f)
  PROVE  /\ DOMAIN x = EvidenceFields /\ \A k \in EvidenceFields \ DOMAIN NoProvenance : x[k] = f[k]
         /\ Gives(x, Own(index, f))
<1>1. PICK p : p = Lookup(index, f)
  OBVIOUS
<1>2. PICK own : own = Own(index, f)
  OBVIOUS
<1>3. DOMAIN p = DOMAIN NoProvenance /\ Gives(p, own)
  BY <1>1, <1>2, LookupGives
<1>4. x = [k \in DOMAIN f |-> IF k \in DOMAIN p /\ f[k] = NoProvenance[k] THEN p[k] ELSE f[k]]
  BY <1>1 DEF Restored
<1>5. DOMAIN x = EvidenceFields /\ \A k \in EvidenceFields \ DOMAIN NoProvenance : x[k] = f[k]
  BY <1>3, <1>4
<1>6. DOMAIN NoProvenance \subseteq EvidenceFields
  BY ProvenanceFields DEF EvidenceFields, Internal
<1>7. \A k \in DOMAIN NoProvenance : x[k] = p[k]
  BY <1>3, <1>4, <1>6, ProvenanceFields DEF Bare
<1>8. x.anchored = p.anchored /\ x.tools = p.tools /\ x.crossTool = p.crossTool /\ \A k \in Agreed : x[k] = p[k]
  BY <1>7, ProvenanceFields
<1>9. Gives(x, own)
  BY <1>3, <1>8 DEF Gives
<1> QED BY <1>2, <1>5, <1>9

-----------------------------------------------------------------------------
(* --- what a finding says of the evidence it stands for ------------------- *)
Keeps(f, es) ==
  /\ DOMAIN f = EvidenceFields /\ f.source \in Sources /\ Places(f) = {e.at : e \in es}
  /\ \A e \in es : /\ f.category = e.category /\ f.title = e.title
                   /\ (f.source = "imported") <=> (e.source = "imported")
  /\ Carries(f, es)
  /\ f.severity \in Severities /\ f.confidence \in Confidences

(* e is in the finding f, or a static finding of its place is, one that is  *)
(* as trusted, where two static engines meet.                               *)
AtLeastMedium(f) == SeverityRank(f.severity) >= SeverityRank("MEDIUM")
Yields(e, w, f, index) ==
  /\ w.category = e.category /\ w.at = e.at
  /\ \/ w = e
     \/ /\ w.source = "whitebox" /\ e.source = "whitebox" /\ TrustRank(w.tier) >= TrustRank(e.tier)
        /\ \E y \in index : /\ y.source = "whitebox" /\ y.category = e.category /\ y.at = e.at
                            /\ y.tier # e.tier
  /\ TrustRank(w.tier) = TrustRank(e.tier) /\ AtLeastMedium(e) => AtLeastMedium(f)

LEMMA GroupedFacts ==
  ASSUME NEW c, IsList(c), \A e \in Range(c) : Sound(e), NEW g, g = Grouped(c)
  PROVE  /\ IsList(g) /\ \A f \in Range(g) : Bare(f) /\ \E es \in SUBSET Range(c) : Keeps(f, es)
         /\ \A e \in Range(c) : \E f \in Range(g) : \E es \in SUBSET Range(c) : \E w \in es :
              Keeps(f, es) /\ Yields(e, w, f, Range(c))
<1>1. PICK p : p = Projected(c)
  OBVIOUS
<1>2. IsList(p) /\ DOMAIN p = DOMAIN c /\ \A i \in DOMAIN c : Projection(p[i], c[i])
  BY <1>1, ProjectedShape
<1>3. \A i \in DOMAIN c : c[i] \in Range(c) /\ Sound(c[i])
  BY DEF Range
<1>4. ASSUME NEW i \in DOMAIN c
      PROVE  /\ DOMAIN p[i] = EvidenceFields /\ p[i].text \in Nat /\ p[i].at.n \in Nat /\ p[i].source \in Sources
             /\ p[i].affected = {} /\ p[i].confidence \in Confidences
             /\ p[i].severity \in Severities /\ SeverityRank(p[i].severity) >= SeverityRank(c[i].severity)
             /\ p[i].source = c[i].source /\ p[i].category = c[i].category /\ p[i].title = c[i].title
             /\ p[i].at = c[i].at /\ p[i].confidence = c[i].confidence /\ p[i].tier = c[i].tier
             /\ p[i].reachable = c[i].reachable /\ p[i].provenPath = c[i].provenPath
             /\ p[i].routeConfirmed = c[i].routeConfirmed
             /\ \A k \in Internal : p[i][k] = Blank[k]
  <2>1. PICK x, e : x = p[i] /\ e = c[i]
    OBVIOUS
  <2>2. Projection(x, e) /\ Sound(e)
    BY <1>2, <1>3, <2>1
  <2>3. /\ DOMAIN x = EvidenceFields /\ x.severity \in Severities /\ SeverityRank(x.severity) >= SeverityRank(e.severity)
        /\ \A k \in Internal : x[k] = Blank[k]
    BY <2>2 DEF Projection
  <2>4. \A k \in Public \ {"severity"} : x[k] = e[k]
    BY <2>2 DEF Projection
  <2>5. {"source", "category", "title", "at", "confidence", "tier", "reachable", "provenPath", "routeConfirmed",
         "text", "affected"} \subseteq Public \ {"severity"}
    BY DEF Public, EvidenceFields, Internal
  <2>6. /\ x.source = e.source /\ x.category = e.category /\ x.title = e.title
        /\ x.at = e.at /\ x.confidence = e.confidence /\ x.tier = e.tier
        /\ x.reachable = e.reachable /\ x.provenPath = e.provenPath
        /\ x.routeConfirmed = e.routeConfirmed /\ x.text = e.text /\ x.affected = e.affected
    BY <2>4, <2>5
  <2>7. e.text \in Nat /\ e.at.n \in Nat /\ e.source \in Sources /\ e.affected = {} /\ e.confidence \in Confidences
    BY <2>2 DEF Sound, IsLocation
  <2> QED BY <2>1, <2>3, <2>6, <2>7
<1>5. PICK d : d = CollapseDuplicateLocations(p)
  OBVIOUS
<1>6. /\ IsList(d) /\ \A x \in Range(d) : \E i \in DOMAIN p : ButRefs(x, p[i])
      /\ \A i \in DOMAIN p : \E w \in DOMAIN p : StandsFor(p, w, i) /\ \E x \in Range(d) : ButRefs(x, p[w])
  <2>1. \A i \in DOMAIN p : DOMAIN p[i] = EvidenceFields /\ p[i].text \in Nat /\ p[i].at.n \in Nat
    BY <1>2, <1>4
  <2> QED BY <1>2, <1>5, <2>1, CollapsedShape
<1>7. ASSUME NEW x, NEW i \in DOMAIN c, ButRefs(x, p[i])
      PROVE  /\ Member(x) /\ x.confidence \in Confidences
             /\ x.severity \in Severities /\ SeverityRank(x.severity) >= SeverityRank(c[i].severity)
             /\ x.severity = p[i].severity
             /\ x.source = c[i].source /\ x.category = c[i].category /\ x.title = c[i].title
             /\ x.at = c[i].at /\ x.confidence = c[i].confidence /\ x.tier = c[i].tier
             /\ x.reachable = c[i].reachable /\ x.provenPath = c[i].provenPath
             /\ x.routeConfirmed = c[i].routeConfirmed
  <2>1. PICK y : y = p[i]
    OBVIOUS
  <2>2. DOMAIN x = EvidenceFields /\ \A k \in EvidenceFields \ {"refs"} : x[k] = y[k]
    BY <1>4, <1>7, <2>1 DEF ButRefs
  <2>3. /\ x.source = y.source /\ x.category = y.category /\ x.title = y.title /\ x.severity = y.severity
        /\ x.at = y.at /\ x.confidence = y.confidence /\ x.tier = y.tier
        /\ x.reachable = y.reachable /\ x.provenPath = y.provenPath
        /\ x.routeConfirmed = y.routeConfirmed /\ x.affected = y.affected
    BY <2>2 DEF EvidenceFields
  <2>4. \A k \in Internal : x[k] = y[k]
    BY <2>2 DEF EvidenceFields, Internal
  <2> QED BY <1>4, <2>1, <2>2, <2>3, <2>4 DEF Member, Bare
<1>8. g = Deduplicate(d)
  BY <1>1, <1>5 DEF Grouped
<1>9. \A j \in DOMAIN d : Member(d[j])
  <2> SUFFICES ASSUME NEW j \in DOMAIN d PROVE Member(d[j])
    OBVIOUS
  <2>1. d[j] \in Range(d)
    BY DEF Range
  <2> QED BY <1>2, <1>6, <1>7, <2>1
<1>10. /\ IsList(g)
       /\ \A f \in Range(g) : \E ms \in SUBSET Range(d) : Groups(f, ms)
       /\ \A m \in Range(d) : \E f \in Range(g) : \E ms \in SUBSET Range(d) : m \in ms /\ Groups(f, ms)
  BY <1>6, <1>8, <1>9, DeduplicatedShape
<1> DEFINE Behind(ms) == {c[i] : i \in {k \in DOMAIN c : \E m \in ms : ButRefs(m, p[k])}}
<1>11. ASSUME NEW f, NEW ms \in SUBSET Range(d), Groups(f, ms), NEW es, es = Behind(ms)
       PROVE  es \in SUBSET Range(c) /\ Keeps(f, es)
  <2>1. es \in SUBSET Range(c)
    BY <1>3, <1>11
  <2>2. \A e \in es : \E m \in ms :
          /\ m.severity \in Severities /\ m.confidence \in Confidences
          /\ m.source = e.source /\ m.category = e.category /\ m.title = e.title
          /\ m.at = e.at /\ m.confidence = e.confidence /\ m.tier = e.tier
          /\ m.reachable = e.reachable /\ m.provenPath = e.provenPath
          /\ m.routeConfirmed = e.routeConfirmed
    <3> SUFFICES ASSUME NEW i \in DOMAIN c, NEW m \in ms, ButRefs(m, p[i])
                 PROVE  /\ m.severity \in Severities /\ m.confidence \in Confidences
                        /\ m.source = c[i].source /\ m.category = c[i].category /\ m.title = c[i].title
                        /\ m.at = c[i].at /\ m.confidence = c[i].confidence /\ m.tier = c[i].tier
                        /\ m.reachable = c[i].reachable /\ m.provenPath = c[i].provenPath
                        /\ m.routeConfirmed = c[i].routeConfirmed
      BY <1>11
    <3> QED BY <1>7
  <2>3. \A m \in ms : \E e \in es :
          /\ m.severity \in Severities /\ m.confidence \in Confidences
          /\ m.source = e.source /\ m.category = e.category /\ m.title = e.title
          /\ m.at = e.at /\ m.confidence = e.confidence /\ m.tier = e.tier
          /\ m.reachable = e.reachable /\ m.provenPath = e.provenPath
          /\ m.routeConfirmed = e.routeConfirmed
    <3> SUFFICES ASSUME NEW m \in ms
                 PROVE  \E e \in es :
                        /\ m.severity \in Severities /\ m.confidence \in Confidences
                        /\ m.source = e.source /\ m.category = e.category /\ m.title = e.title
                        /\ m.at = e.at /\ m.confidence = e.confidence /\ m.tier = e.tier
                        /\ m.reachable = e.reachable /\ m.provenPath = e.provenPath
                        /\ m.routeConfirmed = e.routeConfirmed
      OBVIOUS
    <3>1. PICK i \in DOMAIN c : ButRefs(m, p[i])
      BY <1>2, <1>6
    <3>2. c[i] \in es
      BY <1>11, <3>1
    <3> QED BY <1>7, <3>1, <3>2, ZenonT(40)
  <2>4. DOMAIN f = EvidenceFields /\ f.source \in Sources /\ Places(f) = {m.at : m \in ms} /\ Carries(f, ms)
        /\ \A m \in ms : DedupKey(m) = DedupKey(f)
    BY <1>11 DEF Groups
  <2>5. \A m \in ms : /\ m.severity = f.severity /\ m.category = f.category /\ m.title = f.title
                      /\ (m.source = "imported") <=> (f.source = "imported")
    BY <2>4, KeyParts
  <2>6. Places(f) = {e.at : e \in es}
    BY <2>2, <2>3, <2>4
  <2>7. \A e \in es : /\ f.category = e.category /\ f.title = e.title
                      /\ (f.source = "imported") <=> (e.source = "imported")
    BY <2>2, <2>5
  <2>8. Carries(f, es)
    <3>1. (\E e \in es : f.at = e.at) /\ (\E e \in es : f.source = e.source) /\ \E e \in es : f.confidence = e.confidence
      BY <2>3, <2>4 DEF Carries
    <3>2. f.source = "whitebox" => \A e \in es : e.source = "whitebox"
      BY <2>2, <2>4 DEF Carries
    <3>3. /\ f.reachable <=> \E e \in es : e.reachable
          /\ f.provenPath <=> \E e \in es : e.provenPath
          /\ f.routeConfirmed <=> \E e \in es : e.routeConfirmed
      BY <2>2, <2>3, <2>4 DEF Carries
    <3>4. (\E e \in es : f.tier = e.tier) /\ \A e \in es : TrustRank(f.tier) >= TrustRank(e.tier)
      BY <2>2, <2>3, <2>4 DEF Carries
    <3> QED BY <3>1, <3>2, <3>3, <3>4 DEF Carries
  <2>9. f.severity \in Severities /\ f.confidence \in Confidences
    <3>1. PICK m \in ms : f.confidence = m.confidence
      BY <2>4 DEF Carries
    <3> QED BY <2>3, <2>5, <3>1
  <2> QED BY <2>1, <2>4, <2>6, <2>7, <2>8, <2>9 DEF Keeps
<1>12. ASSUME NEW e \in Range(c)
       PROVE  \E f \in Range(g) : \E es \in SUBSET Range(c) : \E w \in es : Keeps(f, es) /\ Yields(e, w, f, Range(c))
  <2>1. PICK i \in DOMAIN c : e = c[i]
    BY DEF Range
  <2>2. PICK w \in DOMAIN p : StandsFor(p, w, i) /\ \E x \in Range(d) : ButRefs(x, p[w])
    BY <1>2, <1>6
  <2>3. PICK m \in Range(d) : ButRefs(m, p[w])
    BY <2>2
  <2>4. PICK f \in Range(g) : \E ms \in SUBSET Range(d) : m \in ms /\ Groups(f, ms)
    BY <1>10
  <2>5. PICK ms \in SUBSET Range(d) : m \in ms /\ Groups(f, ms)
    BY <2>4
  <2>6. PICK es : es = Behind(ms)
    OBVIOUS
  <2>7. es \in SUBSET Range(c) /\ Keeps(f, es)
    BY <1>11, <2>5, <2>6
  <2>8. w \in DOMAIN c /\ c[w] \in es
    BY <1>2, <2>3, <2>5, <2>6
  <2>9. f.severity = m.severity /\ m.severity = p[w].severity
    <3>1. DedupKey(m) = DedupKey(f)
      BY <2>5 DEF Groups
    <3> QED BY <1>7, <2>3, <2>8, <3>1, KeyParts
  <2> HIDE DEF Behind
  <2>10. /\ p[w].source = c[w].source /\ p[w].category = c[w].category /\ p[w].at = c[w].at /\ p[w].tier = c[w].tier
         /\ p[i].source = e.source /\ p[i].category = e.category /\ p[i].at = e.at /\ p[i].tier = e.tier
         /\ SeverityRank(p[i].severity) >= SeverityRank(e.severity)
    BY <1>4, <2>1, <2>8
  <2>11. Yields(e, c[w], f, Range(c))
    <3>1. PICK mi, pi, pw, ei \in 0 .. 5 :
             /\ mi = SeverityRank("MEDIUM") /\ pi = SeverityRank(p[i].severity)
             /\ pw = SeverityRank(p[w].severity) /\ ei = SeverityRank(e.severity)
      BY Ranks
    <3>2. CASE w = i
      <4>1. AtLeastMedium(e) => AtLeastMedium(f)
        BY <2>9, <2>10, <3>1, <3>2 DEF AtLeastMedium
      <4> QED BY <2>1, <3>2, <4>1 DEF Yields
    <3>3. CASE w # i
      <4>1. /\ Meet(p, w, i) /\ TrustRank(p[w].tier) >= TrustRank(p[i].tier)
            /\ TrustRank(p[w].tier) = TrustRank(p[i].tier) => SeverityRank(p[w].severity) >= SeverityRank(p[i].severity)
            /\ \E y \in DOMAIN p : Meet(p, y, i) /\ p[y].tier # p[i].tier
        BY <2>2, <3>3 DEF StandsFor
      <4>2. PICK y \in DOMAIN p : Meet(p, y, i) /\ p[y].tier # p[i].tier
        BY <4>1
      <4>3. /\ c[w].category = e.category /\ c[w].at = e.at /\ c[w].source = "whitebox" /\ e.source = "whitebox"
            /\ TrustRank(c[w].tier) >= TrustRank(e.tier)
        BY <2>10, <4>1 DEF Meet
      <4>4. TrustRank(c[w].tier) = TrustRank(e.tier) /\ AtLeastMedium(e) => AtLeastMedium(f)
        BY <2>9, <2>10, <3>1, <4>1 DEF AtLeastMedium
      <4>5. /\ c[y] \in Range(c) /\ c[y].source = "whitebox" /\ c[y].category = e.category /\ c[y].at = e.at
            /\ c[y].tier # e.tier
        BY <1>2, <1>3, <1>4, <2>10, <4>2 DEF Meet
      <4> QED BY <4>3, <4>4, <4>5 DEF Yields
    <3> QED BY <3>2, <3>3
  <2> QED BY <2>7, <2>8, <2>11
<1>13. \A f \in Range(g) : Bare(f) /\ \E es \in SUBSET Range(c) : Keeps(f, es)
  <2> HIDE DEF Behind
  <2> SUFFICES ASSUME NEW f \in Range(g) PROVE Bare(f) /\ \E es \in SUBSET Range(c) : Keeps(f, es)
    OBVIOUS
  <2>1. PICK ms \in SUBSET Range(d) : Groups(f, ms)
    BY <1>10
  <2>2. PICK es : es = Behind(ms)
    OBVIOUS
  <2>3. Bare(f)
    BY <2>1 DEF Groups
  <2> QED BY <1>11, <2>1, <2>2, <2>3
<1> QED BY <1>10, <1>12, <1>13

LEMMA CappedShape ==
  ASSUME NEW f, DOMAIN f = EvidenceFields, f.severity \in Severities, f.confidence \in Confidences,
         NEW x, x = EnforceSeverityConsistency(f)
  PROVE  /\ DOMAIN x = EvidenceFields /\ \A k \in EvidenceFields \ {"severity"} : x[k] = f[k]
         /\ x.severity \in Severities
         /\ AtLeastMedium(f) => AtLeastMedium(x)
         /\ SeverityRank(x.severity) <= SeverityRank(MaxSeverityForConfidence(x.confidence))
<1>1. PICK cap : cap = MaxSeverityForConfidence(f.confidence)
  OBVIOUS
<1>2. cap \in Severities /\ SeverityRank(cap) >= SeverityRank("MEDIUM")
  BY <1>1 DEF MaxSeverityForConfidence, Severities, SeverityRank
<1>3. x = IF SeverityRank(f.severity) > SeverityRank(cap) THEN [f EXCEPT !.severity = cap] ELSE f
  BY <1>1 DEF EnforceSeverityConsistency
<1>4. SeverityRank(cap) \in 0 .. 5 /\ SeverityRank(f.severity) \in 0 .. 5 /\ SeverityRank("MEDIUM") \in 0 .. 5
  BY Ranks
<1>5. CASE SeverityRank(f.severity) > SeverityRank(cap)
  <2>1. x = [f EXCEPT !.severity = cap]
    BY <1>3, <1>5
  <2>2. DOMAIN x = EvidenceFields /\ x.severity = cap /\ \A k \in EvidenceFields \ {"severity"} : x[k] = f[k]
    BY <2>1 DEF EvidenceFields
  <2>3. x.confidence = f.confidence
    BY <2>2 DEF EvidenceFields
  <2> QED BY <1>1, <1>2, <1>4, <2>2, <2>3 DEF AtLeastMedium
<1>6. CASE ~(SeverityRank(f.severity) > SeverityRank(cap))
  <2>1. x = f
    BY <1>3, <1>6
  <2> QED BY <1>1, <1>4, <1>6, <2>1
<1> QED BY <1>5, <1>6

(* A decided finding: what it keeps of its evidence, and what the index     *)
(* gives it back.                                                           *)
Capped(x) == SeverityRank(x.severity) <= SeverityRank(MaxSeverityForConfidence(x.confidence))
Decided(x, es, index) == Keeps(x, es) /\ Capped(x) /\ Gives(x, Own(index, x))

LEMMA FinalFacts ==
  ASSUME NEW c, IsList(c), \A e \in Range(c) : Sound(e), NEW index, index = Range(c),
         NEW z, z = Refilled(index, Consistently(Grouped(c)))
  PROVE  /\ IsList(z) /\ \A x \in Range(z) : \E es \in SUBSET index : Decided(x, es, index)
         /\ \A e \in index : \E x \in Range(z) : \E es \in SUBSET index : \E w \in es :
              Decided(x, es, index) /\ Yields(e, w, x, index)
<1>1. PICK g : g = Grouped(c)
  OBVIOUS
<1>2. /\ IsList(g) /\ \A f \in Range(g) : Bare(f) /\ \E es \in SUBSET index : Keeps(f, es)
      /\ \A e \in index : \E f \in Range(g) : \E es \in SUBSET index : \E w \in es : Keeps(f, es) /\ Yields(e, w, f, index)
  BY <1>1, GroupedFacts
<1>3. PICK n \in Nat : DOMAIN g = 1 .. n
  BY <1>2, ListShape
<1>4. z = [i \in 1 .. n |-> Restored(index, EnforceSeverityConsistency(g[i]))]
  <2>1. PICK h : h = Consistently(g)
    OBVIOUS
  <2>2. DOMAIN h = 1 .. n /\ \A i \in 1 .. n : h[i] = EnforceSeverityConsistency(g[i])
    BY <1>3, <2>1 DEF Consistently
  <2>3. z = [i \in 1 .. n |-> Restored(index, h[i])]
    BY <1>1, <2>1, <2>2 DEF Refilled
  <2> QED BY <2>2, <2>3
<1>5. IsList(z) /\ DOMAIN z = 1 .. n
  <2>1. z = [i \in 1 .. n |-> z[i]] /\ DOMAIN z = 1 .. n
    BY <1>4
  <2> QED BY <2>1, ListOf
<1>6. IsFiniteSet(index)
  <2>1. PICK m \in Nat : DOMAIN c = 1 .. m
    BY ListShape
  <2>2. IsFiniteSet(1 .. m) /\ index = {c[i] : i \in 1 .. m}
    BY <2>1, FS_Interval DEF Range
  <2> QED BY <2>2, ImageFinite
<1>7. ASSUME NEW i \in 1 .. n, NEW es \in SUBSET index, Keeps(g[i], es), NEW x, x = z[i]
      PROVE  /\ x \in Range(z) /\ Decided(x, es, index)
             /\ AtLeastMedium(g[i]) => AtLeastMedium(x)
  <2>1. PICK f : f = g[i]
    OBVIOUS
  <2>2. Bare(f) /\ Keeps(f, es)
    BY <1>2, <1>3, <1>7, <2>1 DEF Range
  <2>3. /\ DOMAIN f = EvidenceFields /\ f.source \in Sources /\ Places(f) = {e.at : e \in es}
        /\ \A e \in es : /\ f.category = e.category /\ f.title = e.title
                         /\ (f.source = "imported") <=> (e.source = "imported")
        /\ Carries(f, es)
        /\ f.severity \in Severities /\ f.confidence \in Confidences
    BY <2>2 DEF Keeps
  <2>4. PICK h : h = EnforceSeverityConsistency(f)
    OBVIOUS
  <2>5. /\ DOMAIN h = EvidenceFields /\ \A k \in EvidenceFields \ {"severity"} : h[k] = f[k]
        /\ h.severity \in Severities
        /\ AtLeastMedium(f) => AtLeastMedium(h)
        /\ SeverityRank(h.severity) <= SeverityRank(MaxSeverityForConfidence(h.confidence))
    BY <2>3, <2>4, CappedShape
  <2>6. Bare(h)
    BY <2>2, <2>5 DEF Bare, Internal, EvidenceFields
  <2>7. /\ h.source = f.source /\ h.category = f.category /\ h.title = f.title /\ h.at = f.at /\ h.affected = f.affected
        /\ h.confidence = f.confidence /\ h.tier = f.tier
        /\ h.reachable = f.reachable /\ h.provenPath = f.provenPath /\ h.routeConfirmed = f.routeConfirmed
    BY <2>5 DEF EvidenceFields
  <2>8. Places(h) = Places(f)
    BY <2>7 DEF Places
  <2>9. IsFiniteSet(Places(h))
    <3>1. IsFiniteSet(es)
      BY <1>6, FS_Subset
    <3>2. PICK at : at = [e \in es |-> e.at]
      OBVIOUS
    <3>3. Places(h) = {at[e] : e \in es}
      BY <2>3, <2>8, <3>2
    <3> QED BY <3>1, <3>3, ImageFinite
  <2>10. x = Restored(index, h)
    BY <1>4, <1>7, <2>1, <2>4
  <2>11. /\ DOMAIN x = EvidenceFields /\ \A k \in EvidenceFields \ DOMAIN NoProvenance : x[k] = h[k]
         /\ Gives(x, Own(index, h))
    BY <1>6, <2>5, <2>6, <2>9, <2>10, RestoredShape
  <2>12. {"source", "category", "title", "severity", "confidence", "tier", "at", "affected", "reachable",
          "provenPath", "routeConfirmed"} \subseteq EvidenceFields \ DOMAIN NoProvenance
    BY DEF EvidenceFields, NoProvenance
  <2>13. /\ x.source = h.source /\ x.category = h.category /\ x.title = h.title /\ x.at = h.at /\ x.affected = h.affected
         /\ x.confidence = h.confidence /\ x.tier = h.tier /\ x.severity = h.severity
         /\ x.reachable = h.reachable /\ x.provenPath = h.provenPath /\ x.routeConfirmed = h.routeConfirmed
    BY <2>11, <2>12
  <2>14. Places(x) = Places(f) /\ Own(index, x) = Own(index, h)
    BY <2>7, <2>8, <2>13 DEF Places, Own
  <2>15. Carries(x, es)
    BY <2>3, <2>7, <2>13 DEF Carries
  <2>16. Keeps(x, es)
    BY <2>3, <2>5, <2>7, <2>11, <2>13, <2>14, <2>15 DEF Keeps
  <2>17. Capped(x) /\ (AtLeastMedium(f) => AtLeastMedium(x))
    BY <2>5, <2>13 DEF Capped, AtLeastMedium
  <2>18. x \in Range(z)
    BY <1>5, <1>7 DEF Range
  <2> QED BY <2>1, <2>11, <2>14, <2>16, <2>17, <2>18 DEF Decided
<1>8. ASSUME NEW x \in Range(z) PROVE \E es \in SUBSET index : Decided(x, es, index)
  <2>1. PICK i \in 1 .. n : x = z[i]
    BY <1>5 DEF Range
  <2>2. PICK es \in SUBSET index : Keeps(g[i], es)
    BY <1>2, <1>3 DEF Range
  <2> QED BY <1>7, <2>1, <2>2
<1>9. ASSUME NEW e \in index
      PROVE  \E x \in Range(z) : \E es \in SUBSET index : \E w \in es : Decided(x, es, index) /\ Yields(e, w, x, index)
  <2>1. PICK f \in Range(g) : \E es \in SUBSET index : \E w \in es : Keeps(f, es) /\ Yields(e, w, f, index)
    BY <1>2
  <2>2. PICK es \in SUBSET index : \E w \in es : Keeps(f, es) /\ Yields(e, w, f, index)
    BY <2>1
  <2>3. PICK w \in es : Keeps(f, es) /\ Yields(e, w, f, index)
    BY <2>2
  <2>4. PICK i \in 1 .. n : f = g[i]
    BY <1>3 DEF Range
  <2>5. PICK x : x = z[i]
    OBVIOUS
  <2>6. x \in Range(z) /\ Decided(x, es, index) /\ (AtLeastMedium(f) => AtLeastMedium(x))
    BY <1>7, <2>3, <2>4, <2>5
  <2>7. Yields(e, w, x, index)
    BY <2>3, <2>6 DEF Yields
  <2> QED BY <2>6, <2>7
<1> QED BY <1>5, <1>8, <1>9

(* What the stages leave at the exit.                                       *)
LEMMA AtTheExit ==
  ASSUME StageInv, AtExit, NEW c, c = Crossed(raw, files)
  PROVE  /\ IsList(c) /\ stamped = Range(c) /\ \A e \in stamped : Sound(e)
         /\ IsList(evs) /\ \A x \in Range(evs) : \E es \in SUBSET stamped : Decided(x, es, stamped)
         /\ \A e \in stamped : \E x \in Range(evs) : \E es \in SUBSET stamped : \E w \in es :
              Decided(x, es, stamped) /\ Yields(e, w, x, stamped)
<1>1. stamped = Range(c) /\ evs = Refilled(stamped, Consistently(Grouped(c))) /\ raw \in Seq(Native)
  BY DEF StageInv, AtExit
<1>2. IsList(c) /\ \A e \in Range(c) : Sound(e)
  <2>1. PICK s : s = Gathered(raw, files)
    OBVIOUS
  <2> QED BY <1>1, <2>1, CrossedFacts
<1>3. PICK index : index = stamped
  OBVIOUS
<1>4. PICK z : z = evs
  OBVIOUS
<1>5. /\ IsList(z) /\ \A x \in Range(z) : \E es \in SUBSET index : Decided(x, es, index)
      /\ \A e \in index : \E x \in Range(z) : \E es \in SUBSET index : \E w \in es :
           Decided(x, es, index) /\ Yields(e, w, x, index)
  BY <1>1, <1>2, <1>3, <1>4, FinalFacts
<1> QED BY <1>1, <1>2, <1>3, <1>4, <1>5

LEMMA OwnEvidence ==
  ASSUME NEW x, NEW index, NEW es \in SUBSET index, Decided(x, es, index)
  PROVE  /\ es # {} /\ es \subseteq Own(index, x)
         /\ Own(index, x) = {e \in index : Identity(e) \in {<<x.category, l, x.title>> : l \in Places(x)}}
<1>1. /\ Places(x) = {e.at : e \in es} /\ Carries(x, es)
      /\ \A e \in es : x.category = e.category /\ x.title = e.title
  BY DEF Decided, Keeps
<1>2. ASSUME NEW e \in es PROVE e \in Own(index, x)
  <2>1. Identity(e) = <<x.category, e.at, x.title>> /\ e.at \in Places(x)
    BY <1>1 DEF Identity
  <2> QED BY <2>1 DEF Own
<1> QED BY <1>1, <1>2 DEF Own, Carries

-----------------------------------------------------------------------------
(* --- proof survives ------------------------------------------------------ *)
(* The folds from evidence to finding keep every proof and mint none        *)
(* (ProofSurvives): what stands for uncontested evidence has its data flow, *)
(* its signature and the tools that corroborated it (dedup.go, Lookup).     *)
THEOREM ProofIsKept == Spec => []ProofSurvives
<1>1. StageInv => ProofSurvives
  <2> SUFFICES ASSUME StageInv, AtExit
               PROVE  /\ \A e \in stamped : ~Contested(e, stamped) =>
                           \E f \in Range(evs) : /\ Covers(f, e)
                                                 /\ e.reachable => f.reachable
                                                 /\ e.provenPath => f.provenPath
                                                 /\ e.anchored => f.anchored
                                                 /\ e.tools \subseteq f.tools
                      /\ \A f \in Range(evs) : \A own :
                           own = {e \in stamped : Identity(e) \in {<<f.category, l, f.title>> : l \in Places(f)}} =>
                           /\ f.reachable => \E e \in own : e.reachable
                           /\ f.anchored => \E e \in own : e.anchored
                           /\ f.tools = UNION {e.tools : e \in own}
                           /\ f.inTest => \A e \in own : e.inTest \/ IsTestPath(e.at)
    BY DEF ProofSurvives
  <2>1. PICK c : c = Crossed(raw, files)
    OBVIOUS
  <2>2. /\ \A x \in Range(evs) : \E es \in SUBSET stamped : Decided(x, es, stamped)
        /\ \A e \in stamped : \E x \in Range(evs) : \E es \in SUBSET stamped : \E w \in es :
             Decided(x, es, stamped) /\ Yields(e, w, x, stamped)
    BY <2>1, AtTheExit
  <2>3. ASSUME NEW e \in stamped, ~Contested(e, stamped)
        PROVE  \E f \in Range(evs) : /\ Covers(f, e)
                                     /\ e.reachable => f.reachable
                                     /\ e.provenPath => f.provenPath
                                     /\ e.anchored => f.anchored
                                     /\ e.tools \subseteq f.tools
    <3>1. PICK f \in Range(evs) : \E es \in SUBSET stamped : \E w \in es :
             Decided(f, es, stamped) /\ Yields(e, w, f, stamped)
      BY <2>2
    <3>2. PICK es \in SUBSET stamped : \E w \in es : Decided(f, es, stamped) /\ Yields(e, w, f, stamped)
      BY <3>1
    <3>3. PICK w \in es : Decided(f, es, stamped) /\ Yields(e, w, f, stamped)
      BY <3>2
    <3>4. w = e
      <4> SUFFICES ASSUME w # e PROVE FALSE
        OBVIOUS
      <4>1. /\ w.category = e.category /\ w.at = e.at /\ w.source = "whitebox" /\ e.source = "whitebox"
            /\ TrustRank(w.tier) >= TrustRank(e.tier)
        BY <3>3 DEF Yields
      <4>2. PICK y \in stamped : y.source = "whitebox" /\ y.category = e.category /\ y.at = e.at /\ y.tier # e.tier
        BY <3>3 DEF Yields
      <4>3. w \in Rivals(e, stamped) /\ y \in Rivals(e, stamped)
        BY <4>1, <4>2 DEF Rivals
      <4>4. CASE w.tier # e.tier
        BY <2>3, <4>1, <4>3, <4>4 DEF Contested, Outranked
      <4>5. CASE w.tier = e.tier
        BY <2>3, <4>2, <4>3, <4>5 DEF Contested
      <4> QED BY <4>4, <4>5
    <3>5. Keeps(f, es) /\ Gives(f, Own(stamped, f)) /\ e \in Own(stamped, f) /\ e \in es
      BY <3>3, <3>4, OwnEvidence DEF Decided
    <3>6. Covers(f, e)
      <4>1. /\ f.category = e.category /\ f.title = e.title /\ e.at \in Places(f)
            /\ f.source = "imported" <=> e.source = "imported"
        BY <3>5 DEF Keeps
      <4> QED BY <4>1, Zenon DEF Covers, IsImport
    <3>7. (e.reachable => f.reachable) /\ (e.provenPath => f.provenPath)
      BY <3>5 DEF Keeps, Carries
    <3>8. (e.anchored => f.anchored) /\ e.tools \subseteq f.tools
      BY <3>5 DEF Gives
    <3> QED BY <3>6, <3>7, <3>8
  <2>4. ASSUME NEW f \in Range(evs), NEW own,
               own = {e \in stamped : Identity(e) \in {<<f.category, l, f.title>> : l \in Places(f)}}
        PROVE  /\ f.reachable => \E e \in own : e.reachable
               /\ f.anchored => \E e \in own : e.anchored
               /\ f.tools = UNION {e.tools : e \in own}
               /\ f.inTest => \A e \in own : e.inTest \/ IsTestPath(e.at)
    <3>1. PICK es \in SUBSET stamped : Decided(f, es, stamped)
      BY <2>2
    <3>2. own = Own(stamped, f) /\ es \subseteq own
      BY <2>4, <3>1, OwnEvidence
    <3>3. Gives(f, own) /\ Carries(f, es)
      BY <3>1, <3>2 DEF Decided, Keeps
    <3>4. f.inTest => \A e \in own : e.inTest \/ IsTestPath(e.at)
      <4>1. "inTest" \in Agreed /\ NoProvenance.inTest = FALSE
        BY DEF Agreed, NoProvenance
      <4>2. f.inTest = FALSE \/ \A e \in own : Provenance(e).inTest = f.inTest
        BY <3>3, <4>1 DEF Gives
      <4> QED BY <4>2, ProvenanceOf
    <3>5. f.reachable => \E e \in own : e.reachable
      BY <3>2, <3>3 DEF Carries
    <3> QED BY <3>3, <3>4, <3>5 DEF Gives
  <2> QED BY <2>3, <2>4
<1> QED BY <1>1, StageInvHolds, PTL

-----------------------------------------------------------------------------
(* --- what a managed scan can export -------------------------------------- *)
LEMMA Exportable ==
  ASSUME NEW index, \A e \in index : Sound(e), NEW es \in SUBSET index, NEW x, Decided(x, es, index), ~IsImport(x),
         NEW facts, facts = Managed!FactsFrom(x)
  PROVE  /\ Managed!AttributeFinding(x) # "" /\ Managed!Mappable(facts)
         /\ Managed!Consistent(facts, x.severity)
<1>1. PICK own : own = Own(index, x)
  OBVIOUS
<1>2. es # {} /\ es \subseteq own /\ own \subseteq index
  BY <1>1, OwnEvidence DEF Own
<1>3. Gives(x, own) /\ Keeps(x, es) /\ Capped(x)
  BY <1>1 DEF Decided
<1>4. x.source \in {"whitebox", "blackbox", "correlated"}
  BY <1>3 DEF Keeps, IsImport, Sources
<1>5. PICK e \in es : TRUE
  BY <1>2
<1>6. e \in own /\ Sound(e) /\ (x.source = "whitebox" => e.source = "whitebox")
  BY <1>2, <1>3, <1>5 DEF Keeps, Carries
<1>7. /\ x.auth = "" \/ x.auth = e.auth
      /\ x.context = "" \/ x.context = e.context
      /\ x.applicability = "" \/ x.applicability = e.applicability
      /\ x.probe = "" \/ x.probe = e.probe
      /\ x.direct = FALSE \/ x.direct = e.direct
  <2>1. {"auth", "context", "applicability", "probe", "direct"} \subseteq Agreed \ {"inTest"}
    BY DEF Agreed
  <2>2. /\ NoProvenance.auth = "" /\ NoProvenance.context = "" /\ NoProvenance.applicability = ""
        /\ NoProvenance.probe = "" /\ NoProvenance.direct = FALSE
    BY DEF NoProvenance
  <2>3. \A k \in Agreed \ {"inTest"} : x[k] = NoProvenance[k] \/ x[k] = e[k]
    <3> SUFFICES ASSUME NEW k \in Agreed \ {"inTest"}, x[k] # NoProvenance[k] PROVE x[k] = e[k]
      OBVIOUS
    <3>1. Provenance(e)[k] = x[k]
      BY <1>3, <1>5, <1>2 DEF Gives
    <3>2. Provenance(e)[k] = e[k]
      BY ProvenanceOf
    <3> QED BY <3>1, <3>2
  <2> QED BY <2>1, <2>2, <2>3
<1>8. x.auth \in Expectations /\ x.context \in Contexts /\ x.applicability \in Verdicts
  BY <1>6, <1>7 DEF Sound, Expectations, Contexts, Verdicts
<1>9. Managed!AttributeFinding(x) # ""
  BY <1>4 DEF Managed!AttributeFinding
<1>10. /\ facts.auth = Managed!AuthExpectation(x.auth) /\ facts.tools = x.tools \ {""}
       /\ facts.applicability = Managed!DependencyApplicability(x)
       /\ facts.source = Managed!ObservationSource(x.source)
       /\ facts.context = Managed!ResponseContextOf(x.context)
       /\ facts.precision = Managed!RulePrecision(x.confidence)
       /\ facts.implementation = Managed!AnalyzerImplementation(x.tier)
  BY DEF Managed!FactsFrom
<1>11. /\ facts.crossTool <=> x.crossTool
       /\ facts.provenPath <=> x.provenPath
       /\ facts.routeConfirmed <=> x.routeConfirmed
       /\ facts.reachable <=> x.reachable
       /\ facts.direct <=> x.direct
       /\ facts.payload <=> x.probe # ""
  BY DEF Managed!FactsFrom
<1>12. x.confidence \in Confidences
  BY <1>3 DEF Keeps
<1>13. facts.precision = x.confidence /\ facts.precision # ""
  <2>1. Managed!ConfidenceRank(x.confidence) > 0 /\ x.confidence # ""
    <3>1. PICK s : s = x.confidence
      OBVIOUS
    <3>2. s = "HIGH" \/ s = "MEDIUM" \/ s = "LOW"
      BY <1>12, <3>1 DEF Confidences
    <3>3. s # ""
      BY <3>2
    <3>5. ConfidenceRank(s) > 0
      BY <3>2 DEF ConfidenceRank
    <3>4. Managed!ConfidenceRank(s) = ConfidenceRank(s)
      BY DEF Managed!ConfidenceRank, ConfidenceRank
    <3> QED BY <3>1, <3>3, <3>4, <3>5
  <2> QED BY <1>10, <2>1 DEF Managed!RulePrecision
<1>14. facts.source = x.source
  BY <1>4, <1>10 DEF Managed!ObservationSource
<1>15. Managed!Mappable(facts)
  <2>1. facts.auth # ""
    BY <1>8, <1>10 DEF Managed!AuthExpectation, Expectations
  <2>2. facts.context # ""
    BY <1>8, <1>10 DEF Managed!ResponseContextOf, Contexts
  <2>3. facts.applicability # ""
    <3>1. Managed!ApplicabilityOf(x) \in {"", "applicable", "evidence_against"}
      BY <1>8 DEF Managed!ApplicabilityOf, Verdicts
    <3> QED BY <1>10, <3>1 DEF Managed!DependencyApplicability
  <2> QED BY <1>4, <1>13, <1>14, <2>1, <2>2, <2>3 DEF Managed!Mappable
<1>16. facts.crossTool <=> facts.tools # {}
  <2>1. "" \notin x.tools /\ (x.crossTool <=> x.tools # {})
    BY <1>2, <1>3 DEF Gives, Sound
  <2> QED BY <1>10, <1>11, <2>1
<1>17. x.direct \/ x.probe # "" => x.source \in {"blackbox", "correlated"}
  BY <1>4, <1>6, <1>7 DEF Sound
<1>18. x.provenPath => x.routeConfirmed /\ x.reachable /\ facts.implementation # "semgrep"
  <2> SUFFICES ASSUME x.provenPath PROVE x.routeConfirmed /\ x.reachable /\ facts.implementation # "semgrep"
    OBVIOUS
  <2>1. PICK p \in es : p.provenPath
    BY <1>3 DEF Keeps, Carries
  <2>2. p.routeConfirmed /\ p.reachable /\ p.tier # "semgrep"
    BY <1>2, <2>1 DEF Sound
  <2>3. x.routeConfirmed /\ x.reachable /\ TrustRank(x.tier) >= TrustRank(p.tier)
    BY <1>3, <2>1, <2>2 DEF Keeps, Carries
  <2>4. x.tier # "semgrep"
    BY <2>2, <2>3 DEF TrustRank
  <2> QED BY <1>10, <2>3, <2>4 DEF Managed!AnalyzerImplementation
<1>19. Managed!SeverityRank(x.severity) <= Managed!SeverityRank(Managed!SeverityCap(facts.precision))
  <2>1. \A s : Managed!SeverityRank(s) = SeverityRank(s)
    BY DEF Managed!SeverityRank, SeverityRank
  <2>2. Managed!SeverityCap(facts.precision) = MaxSeverityForConfidence(x.confidence)
    BY <1>13 DEF Managed!SeverityCap, MaxSeverityForConfidence
  <2> QED BY <1>3, <2>1, <2>2 DEF Capped
<1>20. Managed!Consistent(facts, x.severity)
  BY <1>11, <1>14, <1>16, <1>17, <1>18, <1>19 DEF Managed!Consistent
<1> QED BY <1>9, <1>15, <1>20

(* No finding of the engine's own is refused by the contract of the managed *)
(* export, whatever pairing, grouping and restoring did (OwnFindingsExport, *)
(* consistency.go).                                                         *)
THEOREM OwnFindingsAreExported == Spec => []OwnFindingsExport
<1>1. StageInv => OwnFindingsExport
  <2> SUFFICES ASSUME StageInv, AtExit, NEW i \in DOMAIN evs, ~IsImport(evs[i]), NEW facts, facts = Managed!FactsFrom(evs[i])
               PROVE  /\ Managed!AttributeFinding(evs[i]) # "" /\ Managed!Mappable(facts)
                      /\ Managed!Consistent(facts, evs[i].severity)
    BY DEF OwnFindingsExport
  <2>1. PICK c : c = Crossed(raw, files)
    OBVIOUS
  <2>2. /\ \A e \in stamped : Sound(e)
        /\ \A x \in Range(evs) : \E es \in SUBSET stamped : Decided(x, es, stamped)
    BY <2>1, AtTheExit
  <2>3. PICK x : x = evs[i]
    OBVIOUS
  <2>4. PICK es \in SUBSET stamped : Decided(x, es, stamped)
    BY <2>2, <2>3 DEF Range
  <2> QED BY <2>2, <2>3, <2>4, Exportable
<1> QED BY <1>1, StageInvHolds, PTL

-----------------------------------------------------------------------------
(* --- production code stays visible --------------------------------------- *)
(* Imports come last and are of neither source that pairs, so pairing is    *)
(* that of what the engines reported.                                       *)
LEMMA PickedUnmoved ==
  ASSUME NEW r, IsList(r), NEW q, IsList(q), \A x \in Range(q) : x.source = "imported", NEW S, "imported" \notin S
  PROVE  OfSource(r \o q, S) = OfSource(r, S)
<1>1. PICK s : s = r \o q
  OBVIOUS
<1>2. /\ IsList(s) /\ Len(s) = Len(r) + Len(q) /\ Len(r) \in Nat /\ Len(q) \in Nat
      /\ DOMAIN r = 1 .. Len(r) /\ DOMAIN q = 1 .. Len(q) /\ DOMAIN s = 1 .. Len(s)
      /\ \A i \in DOMAIN r : i \in DOMAIN s /\ s[i] = r[i]
  BY <1>1, ConcatList, ListShape
<1>3. \A i \in DOMAIN s \ DOMAIN r : s[i].source = "imported"
  <2> SUFFICES ASSUME NEW i \in DOMAIN s \ DOMAIN r PROVE s[i].source = "imported"
    OBVIOUS
  <2>1. i \in Len(r) + 1 .. Len(r) + Len(q) /\ i - Len(r) \in DOMAIN q
    BY <1>2
  <2>2. s[i] = q[i - Len(r)]
    BY <1>1, <1>2, <2>1 DEF IsList
  <2> QED BY <2>1, <2>2 DEF Range
<1>4. PICK I : I = {i \in DOMAIN r : r[i].source \in S}
  OBVIOUS
<1>5. {i \in DOMAIN s : s[i].source \in S} = I /\ I = I \cap DOMAIN r /\ I = I \cap DOMAIN s
  BY <1>2, <1>3, <1>4
<1>6. OfSource(s, S) = At(s, I) /\ OfSource(r, S) = At(r, I)
  BY <1>4, <1>5 DEF OfSource
<1>7. Walks(At(s, I), s, I)
  <2>1. PICK J : J = I
    OBVIOUS
  <2>2. I = J \cap DOMAIN s /\ IsList(s)
    BY <1>2, <1>5, <2>1
  <2> QED BY ONLY <2>1, <2>2, AtInOrder
<1>8. Walks(At(r, I), r, I)
  <2>1. PICK J : J = I
    OBVIOUS
  <2>2. I = J \cap DOMAIN r /\ IsList(r)
    BY <1>5, <2>1
  <2> QED BY ONLY <2>1, <2>2, AtInOrder
<1>9. \A n \in 1 .. Cardinality(I) : At(s, I)[n] = At(r, I)[n]
  BY <1>2, <1>5, <1>7, <1>8 DEF Walks
<1>10. PICK a, b : a = At(s, I) /\ b = At(r, I)
  OBVIOUS
<1>11. /\ a = [n \in 1 .. Len(a) |-> a[n]] /\ b = [n \in 1 .. Len(b) |-> b[n]]
       /\ DOMAIN a = 1 .. Len(a) /\ DOMAIN b = 1 .. Len(b)
  BY <1>7, <1>8, <1>10, ListShape DEF Walks
<1>12. a = b
  BY <1>7, <1>8, <1>9, <1>10, <1>11 DEF Walks
<1> QED BY <1>1, <1>6, <1>10, <1>12

LEMMA PairingUnmoved ==
  ASSUME NEW r, IsList(r), NEW q, IsList(q), \A x \in Range(q) : x.source = "imported"
  PROVE  Pairing(r \o q) = Pairing(r)
<1>1. PICK B, W : B = {"blackbox"} /\ W = {"whitebox"}
  OBVIOUS
<1>2. OfSource(r \o q, B) = OfSource(r, B) /\ OfSource(r \o q, W) = OfSource(r, W)
  <2>1. "imported" \notin B /\ "imported" \notin W
    BY <1>1
  <2> QED BY <2>1, PickedUnmoved
<1>3. PICK bb, s : bb = OfSource(r, {"blackbox"}) /\ s = OfSource(r, {"whitebox"})
  OBVIOUS
<1>4. bb = OfSource(r \o q, {"blackbox"}) /\ s = OfSource(r \o q, {"whitebox"})
  BY <1>1, <1>2, <1>3
<1>5. Pairing(r) = PairTable(bb, s)[DOMAIN s]
  BY <1>3, Zenon DEF Pairing, PairTable, FoldLeft, MapThenFoldSet
<1>6. Pairing(r \o q) = PairTable(bb, s)[DOMAIN s]
  BY <1>4, Zenon DEF Pairing, PairTable, FoldLeft, MapThenFoldSet
<1> QED BY <1>5, <1>6

(* What is of MEDIUM severity or more and not test code is something to act *)
(* on: neither gate goes below WARN.                                        *)
LEMMA ActedOn ==
  ASSUME NEW e, AtLeastMedium(e), ~e.inTest, NEW failOn, NEW o
  PROVE  DecideWithOptions(e, failOn, o).status \in {"BLOCK", "WARN"}
<1>1. PICK d : d = Decide0(e, failOn, o)
  OBVIOUS
<1>2. PICK gate \in {"BLOCK", "WARN"} : gate = ApplyConfidenceGate(e)
  BY DEF ApplyConfidenceGate
<1>3. PICK above \in BOOLEAN : above <=> AboveThreshold(e, failOn)
  OBVIOUS
<1>4. PICK held \in BOOLEAN : held <=> ApplyConfidenceGate(e) # "BLOCK"
  OBVIOUS
<1>5. \E s \in {"BLOCK", "WARN"} : \E v, a : d = [status |-> s, override |-> v, above |-> a]
  <2>1. CASE AboveThreshold(e, failOn) /\ o.enforce
    BY <1>1, <1>2, <2>1 DEF Decide0
  <2>2. CASE AboveThreshold(e, failOn) /\ ~o.enforce
    BY <1>1, <2>2, Zenon DEF Decide0
  <2>3. CASE ~AboveThreshold(e, failOn)
    BY <1>1, <2>3, Zenon DEF Decide0, AtLeastMedium
  <2> QED BY <2>1, <2>2, <2>3
<1>6. PICK s \in {"BLOCK", "WARN"} : \E v, a : d = [status |-> s, override |-> v, above |-> a]
  BY <1>5
<1>7. PICK v, a : d = [status |-> s, override |-> v, above |-> a]
  BY <1>6
<1>8. PICK g : g = ApplyApplicabilityGate(d, e, o)
  OBVIOUS
<1>9. \E t \in {"BLOCK", "WARN"} : g = [status |-> t, override |-> v, above |-> a]
  <2>1. g = d \/ g = [d EXCEPT !.status = "WARN"]
    BY <1>8 DEF ApplyApplicabilityGate
  <2> QED BY <1>7, <2>1
<1>10. DecideWithOptions(e, failOn, o) = SettleOverride(g)
  BY <1>1, <1>8 DEF DecideWithOptions
<1> QED BY <1>9, <1>10 DEF SettleOverride

(* A finding that yields to a native one of the same or a lower trust.      *)
LEMMA Stands ==
  ASSUME StageInv, AtExit, NEW e \in stamped, AtLeastMedium(e), ~IsTestPath(e.at),
         \A w \in stamped : w.source = "whitebox" /\ w.category = e.category /\ w.at = e.at /\ e.source = "whitebox"
                              /\ TrustRank(w.tier) >= TrustRank(e.tier)
                              => TrustRank(w.tier) = TrustRank(e.tier)
  PROVE  Standing(e.category, e.at)
<1>1. PICK c : c = Crossed(raw, files)
  OBVIOUS
<1>2. /\ \A x \in stamped : Sound(x) /\ IsList(evs)
      /\ \A y \in stamped : \E x \in Range(evs) : \E es \in SUBSET stamped : \E w \in es :
           Decided(x, es, stamped) /\ Yields(y, w, x, stamped)
  BY <1>1, AtTheExit
<1>3. PICK x \in Range(evs) : \E es \in SUBSET stamped : \E w \in es : Decided(x, es, stamped) /\ Yields(e, w, x, stamped)
  BY <1>2
<1>4. PICK es \in SUBSET stamped : \E w \in es : Decided(x, es, stamped) /\ Yields(e, w, x, stamped)
  BY <1>3
<1>5. PICK w \in es : Decided(x, es, stamped) /\ Yields(e, w, x, stamped)
  BY <1>4
<1>6. w.category = e.category /\ w.at = e.at /\ w \in stamped
  BY <1>5 DEF Yields
<1>7. AtLeastMedium(x)
  <2>1. TrustRank(w.tier) = TrustRank(e.tier)
    <3>1. w = e \/ (w.source = "whitebox" /\ e.source = "whitebox" /\ TrustRank(w.tier) >= TrustRank(e.tier))
      BY <1>5 DEF Yields
    <3> QED BY <1>6, <3>1
  <2> QED BY <1>5, <2>1 DEF Yields
<1>8. /\ x.category = e.category /\ e.at \in Places(x) /\ Gives(x, Own(stamped, x)) /\ w \in Own(stamped, x)
  BY <1>5, <1>6, OwnEvidence DEF Decided, Keeps
<1>9. ~x.inTest
  <2>1. "inTest" \in Agreed /\ NoProvenance.inTest = FALSE
    BY DEF Agreed, NoProvenance
  <2>2. x.inTest = FALSE \/ Provenance(w).inTest = x.inTest
    BY <1>8, <2>1 DEF Gives
  <2>3. Provenance(w).inTest <=> w.inTest \/ IsTestPath(w.at)
    BY ProvenanceOf
  <2>4. ~IsTestPath(w.at) /\ ~w.inTest
    BY <1>2, <1>6 DEF Sound
  <2> QED BY <2>2, <2>3, <2>4
<1>10. PICK i \in DOMAIN evs : evs[i] = x
  BY <1>3 DEF Range
<1>11. decisions[i] = DecideWithOptions(x, options.failOn, options)
  BY <1>10 DEF StageInv, AtExit
<1>12. decisions[i].status \in {"BLOCK", "WARN"}
  BY <1>7, <1>9, <1>11, ActedOn
<1> QED BY <1>8, <1>10, <1>12 DEF Standing

(* A finding in production code of MEDIUM severity or more, whatever it is  *)
(* paired, grouped or de-escalated with, is still something to act on       *)
(* (ProductionStaysVisible, decision.go, collapse.go).                      *)
THEOREM ProductionIsShown == Spec => []ProductionStaysVisible
<1>1. StageInv => ProductionStaysVisible
  <2> SUFFICES ASSUME StageInv, AtExit, NEW e \in Range(raw), AtLeastMedium(e), ~IsTestPath(e.at),
                      ~Outranked(e, Range(raw))
               PROVE  \/ Standing(e.category, e.at)
                      \/ Hybrid /\ \E p \in Pairing(raw).pairs : e \in {p[1], p[2]} /\ Standing(p[1].category, p[1].at)
    BY DEF ProductionStaysVisible, AtLeastMedium
  <2>1. PICK s : s = Gathered(raw, files)
    OBVIOUS
  <2>2. PICK c : c = Crossed(raw, files)
    OBVIOUS
  <2>3. raw \in Seq(Native)
    BY DEF StageInv
  <2>4. /\ Kept(e, s, c) /\ stamped = Range(c)
        /\ \A x \in Range(c) : x.source = "whitebox" => \E y \in Range(raw) : SamePublic(x, y)
    BY <2>1, <2>2, <2>3, CrossedFacts, AtTheExit
  <2>5. /\ IsList(raw) /\ IsList(s)
        /\ \A y \in Range(raw) : y \in Range(s) /\ y.source \in {"whitebox", "blackbox"} /\ (y.source = "blackbox" => y.at.url)
        /\ \A y \in Range(s) : y.source \in {"whitebox", "blackbox"} => y \in Range(raw)
    BY <2>1, <2>3, GatheredShape
  <2>6. {"source", "category", "at", "tier", "severity"} \subseteq Public \ {"confidence", "refs"}
    BY DEF Public, EvidenceFields, Internal
  <2>7. CASE \E x \in Range(c) : SamePublic(x, e)
    <3>1. PICK x \in stamped : SamePublic(x, e)
      BY <2>4, <2>7
    <3>2. x.source = e.source /\ x.category = e.category /\ x.at = e.at /\ x.tier = e.tier /\ x.severity = e.severity
      BY <2>6, <3>1 DEF SamePublic
    <3>3. ASSUME NEW w \in stamped, w.source = "whitebox", w.category = x.category, w.at = x.at, x.source = "whitebox",
                 TrustRank(w.tier) >= TrustRank(x.tier), TrustRank(w.tier) # TrustRank(x.tier)
          PROVE  FALSE
      <4>1. PICK y \in Range(raw) : SamePublic(w, y)
        BY <2>4, <3>3
      <4>2. w.source = y.source /\ w.category = y.category /\ w.at = y.at /\ w.tier = y.tier
        BY <2>6, <4>1 DEF SamePublic
      <4>3. y.tier # e.tier /\ TrustRank(y.tier) >= TrustRank(e.tier)
        BY <3>2, <3>3, <4>2
      <4>4. y \in Rivals(e, Range(raw))
        BY <3>2, <3>3, <4>2, <4>3 DEF Rivals
      <4> QED BY <4>3, <4>4 DEF Outranked
    <3>4. AtLeastMedium(x) /\ ~IsTestPath(x.at)
      BY <3>2 DEF AtLeastMedium
    <3>5. Standing(x.category, x.at)
      BY <3>3, <3>4, Stands
    <3> QED BY <3>2, <3>5
  <2>8. CASE /\ Hybrids(s)
             /\ \E b, w \in Range(s) :
                  /\ e \in {b, w} /\ <<b, w>> \in Pairing(s).pairs
                  /\ \E x \in Range(c) :
                       /\ x.source = "correlated" /\ x.category = b.category /\ x.at = b.at
                       /\ b.source = "blackbox" /\ SeverityRank(x.severity) >= SeverityRank(e.severity)
    <3>1. PICK b, w \in Range(s) :
             /\ e \in {b, w} /\ <<b, w>> \in Pairing(s).pairs
             /\ \E x \in Range(c) :
                  /\ x.source = "correlated" /\ x.category = b.category /\ x.at = b.at
                  /\ b.source = "blackbox" /\ SeverityRank(x.severity) >= SeverityRank(e.severity)
      BY <2>8
    <3>2. PICK x \in stamped :
             /\ x.source = "correlated" /\ x.category = b.category /\ x.at = b.at
             /\ b.source = "blackbox" /\ SeverityRank(x.severity) >= SeverityRank(e.severity)
      BY <2>4, <3>1
    <3>3. b.at.url
      BY <2>5, <3>2
    <3>4. AtLeastMedium(x)
      BY <3>2, Ranks DEF AtLeastMedium
    <3>5. ~IsTestPath(x.at)
      BY <3>2, <3>3 DEF IsTestPath
    <3>6. Standing(x.category, x.at)
      BY <3>2, <3>4, <3>5, Stands
    <3>7. Hybrid
      BY <2>5, <2>8 DEF Hybrids, Hybrid, HasSource, Range
    <3>8. Pairing(s) = Pairing(raw)
      <4>1. IsList(Imported(files)) /\ \A y \in Range(Imported(files)) : y.source = "imported"
        BY ImportedList, ForeignSound
      <4> QED BY <2>1, <2>5, <4>1, PairingUnmoved DEF Gathered
    <3>9. PICK p : p = <<b, w>>
      OBVIOUS
    <3>10. p \in Pairing(raw).pairs /\ e \in {p[1], p[2]} /\ Standing(p[1].category, p[1].at)
      BY <3>1, <3>2, <3>6, <3>8, <3>9
    <3> QED BY <3>7, <3>10
  <2> QED BY <2>4, <2>7, <2>8 DEF Kept
<1> QED BY <1>1, StageInvHolds, PTL

-----------------------------------------------------------------------------
(* --- what an import changes of native findings --------------------------- *)
After(a, b, S) ==
  /\ IsList(a) /\ \A i \in DOMAIN b : i \in DOMAIN a /\ a[i] = b[i]
  /\ \A i \in DOMAIN a \ DOMAIN b : a[i] \in S
LEMMA Appended ==
  ASSUME NEW b, IsList(b), NEW q, IsList(q), NEW a, a = b \o q
  PROVE  After(a, b, Range(q))
<1>1. /\ IsList(a) /\ Len(a) = Len(b) + Len(q) /\ Len(b) \in Nat /\ Len(q) \in Nat
      /\ DOMAIN b = 1 .. Len(b) /\ DOMAIN q = 1 .. Len(q) /\ DOMAIN a = 1 .. Len(a)
      /\ \A i \in DOMAIN b : i \in DOMAIN a /\ a[i] = b[i]
  BY ConcatList, ListShape
<1>2. ASSUME NEW i \in DOMAIN a \ DOMAIN b PROVE a[i] \in Range(q)
  <2>1. i \in Len(b) + 1 .. Len(b) + Len(q) /\ i - Len(b) \in DOMAIN q
    BY <1>1
  <2>2. a[i] = q[i - Len(b)]
    BY <1>1, <2>1 DEF IsList
  <2> QED BY <2>1, <2>2 DEF Range
<1> QED BY <1>1, <1>2 DEF After

LEMMA ChosenFrom ==
  ASSUME NEW s, IsList(s), NEW S, NEW q, q = OfSource(s, S)
  PROVE  IsList(q) /\ Range(q) = {e \in Range(s) : e.source \in S}
<1>1. PICK T : T = {i \in DOMAIN s : s[i].source \in S}
  OBVIOUS
<1>2. PICK I : I = T \cap DOMAIN s
  OBVIOUS
<1>3. IsList(At(s, T)) /\ Range(At(s, T)) = {s[i] : i \in I}
  BY ONLY IsList(s), <1>2, AtInOrder
<1>4. q = At(s, T)
  BY <1>1 DEF OfSource
<1>5. {s[i] : i \in I} = {e \in Range(s) : e.source \in S}
  BY <1>1, <1>2 DEF Range
<1> QED BY <1>3, <1>4, <1>5

LEMMA RestoredUnmoved ==
  ASSUME NEW r, IsList(r), NEW q, IsList(q), \A x \in Range(q) : x.source = "imported", NEW s, s = r \o q,
         NEW o, o.source # "imported"
  PROVE  RestorePassed(o, s) = RestorePassed(o, r)
<1>1. /\ IsList(s) /\ \A i \in DOMAIN r : i \in DOMAIN s /\ s[i] = r[i]
      /\ \A i \in DOMAIN s \ DOMAIN r : s[i] \in Range(q)
  <2>1. After(s, r, Range(q))
    BY Appended
  <2> QED BY <2>1 DEF After
<1>2. PICK same : same = {i \in DOMAIN r : r[i].source = o.source /\ Identity(r[i]) = Identity(o)}
  OBVIOUS
<1>3. {i \in DOMAIN s : s[i].source = o.source /\ Identity(s[i]) = Identity(o)} = same
  BY <1>1, <1>2
<1>4. CASE same = {}
  <2>1. RestorePassed(o, s) = Published(o) /\ RestorePassed(o, r) = Published(o)
    BY <1>2, <1>3, <1>4, Zenon DEF RestorePassed
  <2> QED BY <2>1
<1>5. CASE same # {}
  <2>1. Max(same) \in same
    BY <1>2, <1>5, Latest
  <2>2. PICK src : src = r[Max(same)]
    OBVIOUS
  <2>3. src = s[Max(same)]
    BY <1>1, <1>2, <2>1, <2>2
  <2>4. PICK x : x = [Published(o) EXCEPT
             !.probe = src.probe, !.context = src.context, !.direct = src.direct,
             !.placeholder = src.placeholder, !.notImported = src.notImported, !.auth = src.auth,
             !.applicability = src.applicability, !.unconfirmed = o.unconfirmed \/ src.unconfirmed]
    BY Zenon
  <2>5. RestorePassed(o, s) = x
    BY <1>3, <1>5, <2>3, <2>4, Zenon DEF RestorePassed
  <2>6. RestorePassed(o, r) = x
    BY <1>2, <1>5, <2>2, <2>4, Zenon DEF RestorePassed
  <2> QED BY <2>5, <2>6
<1> QED BY <1>4, <1>5

(* What an import adds to correlated evidence comes after it and has the    *)
(* identity of an import; the rest is what it would be without.             *)
NamedBy(x, S) == \E y \in S : Identity(x) = Identity(y)
AddsImports(a, b, r, F) ==
  /\ IsList(a) /\ IsList(b)
  /\ \A i \in DOMAIN b : i \in DOMAIN a /\ a[i] = b[i] /\ b[i].source # "imported" /\ NamedBy(b[i], Range(r))
  /\ \A i \in DOMAIN a \ DOMAIN b : a[i].source = "imported" /\ NamedBy(a[i], Range(Imported(F)))

LEMMA CorrelatedAdds ==
  ASSUME NEW r \in Seq(Native), NEW F, NEW s, s = Gathered(r, F),
         NEW a, a = CorrelateEvidence(s), NEW b, b = CorrelateEvidence(r)
  PROVE  AddsImports(a, b, r, F)
<1>1. PICK m : m = Imported(F)
  OBVIOUS
<1>2. IsList(m) /\ \A e \in Range(m) : Sound(e) /\ e.source = "imported"
  BY <1>1, ImportedList, ForeignSound
<1>3. s = r \o m
  BY <1>1 DEF Gathered
<1>4. /\ IsList(s) /\ IsList(r) /\ \A e \in Range(s) : Sound(e) /\ e.source # "correlated"
      /\ \A e \in Range(r) : e \in Range(s) /\ e.source \in {"whitebox", "blackbox"}
  BY GatheredShape
<1>5. /\ \A i \in DOMAIN r : i \in DOMAIN s /\ s[i] = r[i]
      /\ \A i \in DOMAIN s \ DOMAIN r : s[i] \in Range(m)
  <2>1. After(s, r, Range(m))
    BY <1>2, <1>3, <1>4, Appended
  <2> QED BY <2>1 DEF After
<1>6. \A i \in DOMAIN r : r[i] \in Range(r)
  BY DEF Range
<1>7. Hybrids(s) <=> Hybrids(r)
  <2>1. \A i \in DOMAIN s \ DOMAIN r : s[i].source = "imported"
    BY <1>2, <1>5
  <2> QED BY <1>5, <2>1 DEF Hybrids, HasSource
<1>8. CASE ~Hybrids(s)
  <2>1. a = s /\ b = r
    BY <1>7, <1>8 DEF CorrelateEvidence, Hybrids
  <2>2. \A i \in DOMAIN b : i \in DOMAIN a /\ a[i] = b[i] /\ b[i].source # "imported" /\ NamedBy(b[i], Range(r))
    BY <1>4, <1>5, <1>6, <2>1 DEF NamedBy
  <2>3. \A i \in DOMAIN a \ DOMAIN b : a[i].source = "imported" /\ NamedBy(a[i], Range(Imported(F)))
    BY <1>1, <1>2, <1>5, <2>1 DEF NamedBy
  <2> QED BY <1>4, <2>1, <2>2, <2>3 DEF AddsImports
<1>9. CASE Hybrids(s)
  <2>1. PICK p : p = Pairing(r)
    OBVIOUS
  <2>2. PICK B, W, M : B = {"blackbox"} /\ W = {"whitebox"} /\ M = {"imported"}
    OBVIOUS
  <2>3. PICK bb, ws : bb = OfSource(r, B) /\ ws = OfSource(r, W)
    OBVIOUS
  <2>4. Pairing(s) = p /\ OfSource(s, B) = bb
    <3>1. "imported" \notin B
      BY <2>2
    <3> QED BY <1>2, <1>3, <1>4, <2>1, <2>3, <3>1, PairingUnmoved, PickedUnmoved
  <2>5. PICK n \in Nat : n = Len(ws) /\ DOMAIN ws = 1 .. n
    BY <1>4, <2>2, <2>3, PairingKeeps, ListShape
  <2>6. IsList(bb) /\ IsList(ws) /\ PairedUpTo(p, bb, ws, n)
    BY <1>4, <2>1, <2>2, <2>3, <2>5, PairingKeeps
  <2>7. PICK T : T = DOMAIN bb \ p.taken
    OBVIOUS
  <2>8. PICK rest : rest = At(bb, T)
    OBVIOUS
  <2>9. IsList(rest) /\ \A x \in Range(rest) : \E i \in DOMAIN bb : x = bb[i]
    BY <2>6, <2>7, <2>8, AtHolds
  <2>10. PICK front : front = p.out \o rest
    OBVIOUS
  <2>11. IsList(front) /\ Range(front) = Range(p.out) \cup Range(rest)
    BY <2>6, <2>9, <2>10, ConcatList DEF PairedUpTo
  <2>12. PICK im, none : im = OfSource(s, M) /\ none = OfSource(r, M)
    OBVIOUS
  <2>13. /\ IsList(im) /\ Range(im) = {e \in Range(s) : e.source \in M}
         /\ IsList(none) /\ Range(none) = {e \in Range(r) : e.source \in M}
    BY <1>4, <2>12, ChosenFrom
  <2>14. Range(none) = {} /\ Range(im) \subseteq Range(m)
    <3>1. \A e \in Range(s) : e \in Range(r) \/ e \in Range(m)
      BY <1>5 DEF Range
    <3> QED BY <1>4, <2>2, <2>13, <3>1
  <2>15. PICK long, short : long = front \o im /\ short = front \o none
    OBVIOUS
  <2>16. /\ IsList(long) /\ \A i \in DOMAIN front : i \in DOMAIN long /\ long[i] = front[i]
         /\ \A i \in DOMAIN long \ DOMAIN front : long[i] \in Range(im)
    <3>1. After(long, front, Range(im))
      BY <2>11, <2>13, <2>15, Appended
    <3> QED BY <3>1 DEF After
  <2>17. /\ IsList(short) /\ \A i \in DOMAIN front : i \in DOMAIN short /\ short[i] = front[i]
         /\ \A i \in DOMAIN short \ DOMAIN front : short[i] \in Range(none)
    <3>1. After(short, front, Range(none))
      BY <2>11, <2>13, <2>15, Appended
    <3> QED BY <3>1 DEF After
  <2>18. DOMAIN short = DOMAIN front
    BY <2>14, <2>17
  <2>19. a = [k \in DOMAIN long |-> RestorePassed(long[k], s)]
    BY <1>9, <2>2, <2>4, <2>7, <2>8, <2>10, <2>12, <2>15 DEF CorrelateEvidence, Hybrids
  <2>20. b = [k \in DOMAIN short |-> RestorePassed(short[k], r)]
    BY <1>7, <1>9, <2>1, <2>2, <2>3, <2>7, <2>8, <2>10, <2>12, <2>15 DEF CorrelateEvidence, Hybrids
  <2>21. \A i \in DOMAIN bb : bb[i] \in Range(r) /\ Sound(bb[i]) /\ bb[i].source = "blackbox"
    <3>1. \A i \in DOMAIN bb : bb[i] \in Range(bb)
      BY DEF Range
    <3>2. Range(bb) = {e \in Range(r) : e.source \in B}
      BY <1>4, <2>3, ChosenFrom
    <3> QED BY <1>4, <2>2, <3>1, <3>2
  <2>22. \A j \in 1 .. n : ws[j] \in Range(r) /\ Sound(ws[j]) /\ ws[j].source = "whitebox"
    <3>1. \A j \in 1 .. n : ws[j] \in Range(ws)
      BY <2>5 DEF Range
    <3>2. Range(ws) = {e \in Range(r) : e.source \in W}
      BY <1>4, <2>3, ChosenFrom
    <3> QED BY <1>4, <2>2, <3>1, <3>2
  <2>23. ASSUME NEW o \in Range(front) PROVE Sound(o) /\ o.source # "imported" /\ NamedBy(o, Range(r))
    <3>1. CASE o \in Range(rest)
      BY <2>9, <2>21, <3>1 DEF NamedBy
    <3>2. ASSUME NEW j \in 1 .. n, o = PassThrough(ws[j])
          PROVE  Sound(o) /\ o.source # "imported" /\ NamedBy(o, Range(r))
      <4>1. Sound(o) /\ \A k \in EvidenceFields \ {"confidence", "unconfirmed"} : o[k] = ws[j][k]
        BY <2>22, <3>2, PassedSound
      <4>2. o.source = ws[j].source /\ o.category = ws[j].category /\ o.at = ws[j].at /\ o.title = ws[j].title
        BY <4>1 DEF EvidenceFields
      <4> QED BY <2>22, <4>1, <4>2 DEF NamedBy, Identity
    <3>3. ASSUME NEW i \in DOMAIN bb, NEW j \in 1 .. n, NEW t \in BOOLEAN, o = MergeFindings(bb[i], ws[j], t)
          PROVE  Sound(o) /\ o.source # "imported" /\ NamedBy(o, Range(r))
      <4>1. /\ Sound(o) /\ o.source = "correlated" /\ o.category = bb[i].category /\ o.at = bb[i].at
            /\ o.title = bb[i].title
        BY <2>21, <2>22, <3>3, MergedSound
      <4> QED BY <2>21, <4>1 DEF NamedBy, Identity
    <3>4. o \in Range(p.out) => \/ \E j \in 1 .. n : o = PassThrough(ws[j])
                                \/ \E i \in DOMAIN bb, j \in 1 .. n : \E t \in BOOLEAN : o = MergeFindings(bb[i], ws[j], t)
      BY <2>6 DEF PairedUpTo
    <3> QED BY <2>11, <3>1, <3>2, <3>3, <3>4
  <2>24. ASSUME NEW o, Sound(o), NEW t, IsList(t), \A e \in Range(t) : Sound(e), NEW x, x = RestorePassed(o, t)
         PROVE  x.source = o.source /\ Identity(x) = Identity(o)
    <3>1. \A k \in Public : x[k] = o[k]
      BY ONLY <2>24, PassedOn
    <3>2. {"source", "category", "at", "title"} \subseteq Public
      BY DEF Public, EvidenceFields, Internal
    <3> QED BY <3>1, <3>2 DEF Identity
  <2>25. ASSUME NEW i \in DOMAIN b
         PROVE  i \in DOMAIN a /\ a[i] = b[i] /\ b[i].source # "imported" /\ NamedBy(b[i], Range(r))
    <3>1. i \in DOMAIN front /\ i \in DOMAIN long /\ long[i] = front[i] /\ short[i] = front[i]
      BY <2>16, <2>17, <2>18, <2>20, <2>25
    <3>2. PICK o : o = front[i]
      OBVIOUS
    <3>3. Sound(o) /\ o.source # "imported" /\ NamedBy(o, Range(r))
      BY <2>23, <3>1, <3>2 DEF Range
    <3>4. a[i] = RestorePassed(o, s) /\ b[i] = RestorePassed(o, r) /\ i \in DOMAIN a
      BY <2>18, <2>19, <2>20, <3>1, <3>2
    <3>5. a[i] = b[i]
      <4>1. \A x \in Range(m) : x.source = "imported"
        BY <1>2
      <4>2. RestorePassed(o, s) = RestorePassed(o, r)
        BY ONLY <1>2, <1>3, <1>4, <3>3, <4>1, RestoredUnmoved
      <4> QED BY <3>4, <4>2
    <3>6. PICK x : x = RestorePassed(o, r)
      OBVIOUS
    <3>7. x.source = o.source /\ Identity(x) = Identity(o)
      BY <1>4, <2>24, <3>3, <3>6
    <3> QED BY <3>3, <3>4, <3>5, <3>6, <3>7 DEF NamedBy
  <2>26. ASSUME NEW i \in DOMAIN a \ DOMAIN b PROVE a[i].source = "imported" /\ NamedBy(a[i], Range(Imported(F)))
    <3>1. i \in DOMAIN long \ DOMAIN front
      BY <2>18, <2>19, <2>20, <2>26
    <3>2. PICK o : o = long[i]
      OBVIOUS
    <3>3. o \in Range(m)
      BY <2>14, <2>16, <3>1, <3>2
    <3>4. PICK x : x = RestorePassed(o, s)
      OBVIOUS
    <3>5. a[i] = x
      BY <2>19, <3>1, <3>2, <3>4
    <3>6. x.source = o.source /\ Identity(x) = Identity(o)
      BY <1>2, <1>4, <2>24, <3>3, <3>4
    <3> QED BY <1>1, <1>2, <3>3, <3>5, <3>6 DEF NamedBy
  <2>27. IsList(a) /\ IsList(b)
    <3>1. PICK h, l \in Nat : DOMAIN long = 1 .. h /\ DOMAIN short = 1 .. l
      BY <2>16, <2>17, ListShape
    <3>2. a = [k \in 1 .. h |-> a[k]] /\ b = [k \in 1 .. l |-> b[k]]
      BY <2>19, <2>20, <3>1
    <3> QED BY <3>2, ListOf
  <2> QED BY <2>25, <2>26, <2>27 DEF AddsImports
<1> QED BY <1>8, <1>9

(* Two lists of which one goes on where the other ends, and what At takes   *)
(* of them when the positions it takes of the shorter are the same.         *)
LEMMA PrefixNth ==
  ASSUME NEW I, IsFiniteSet(I), I \subseteq Nat, NEW J, J \subseteq I, \A j \in J : \A i \in I \ J : j < i
  PROVE  /\ Cardinality(J) \in Nat /\ Cardinality(I) \in Nat /\ Cardinality(J) <= Cardinality(I)
         /\ \A n \in 1 .. Cardinality(J) : Nth(I, n) = Nth(J, n) /\ Nth(J, n) \in J
         /\ \A n \in Cardinality(J) + 1 .. Cardinality(I) : Nth(I, n) \in I \ J
<1>1. IsFiniteSet(J) /\ J \subseteq Nat
  BY FS_Subset
<1>2. PICK c, d : c = Cardinality(J) /\ d = Cardinality(I)
  OBVIOUS
<1>3. /\ c \in Nat /\ \A n \in 1 .. c : Nth(J, n) \in J /\ Cardinality(Below(J, Nth(J, n))) = n - 1
      /\ \A j \in J : \E n \in 1 .. c : Nth(J, n) = j
  BY ONLY <1>1, <1>2, Numbering
<1>4. /\ d \in Nat /\ \A n \in 1 .. d : Nth(I, n) \in I /\ Cardinality(Below(I, Nth(I, n))) = n - 1
      /\ \A i, k \in I : Cardinality(Below(I, i)) = Cardinality(Below(I, k)) => i = k
  BY ONLY IsFiniteSet(I), I \subseteq Nat, <1>2, Numbering
<1>5. c <= d
  BY <1>2, FS_Subset
<1>6. \A j \in J : Below(I, j) = Below(J, j)
  <2> SUFFICES ASSUME NEW j \in J PROVE {k \in I : k < j} = {k \in J : k < j}
    BY DEF Below
  <2>1. ASSUME NEW k \in I, k < j PROVE k \in J
    <3>1. k \in Nat /\ j \in Nat
      BY <1>1, I \subseteq Nat
    <3> QED BY <2>1, <3>1
  <2> QED BY <2>1
<1>7. ASSUME NEW n \in 1 .. c PROVE Nth(I, n) = Nth(J, n)
  <2>1. PICK j \in J : j = Nth(J, n) /\ Cardinality(Below(I, j)) = n - 1
    BY <1>3, <1>6
  <2>3. n \in 1 .. d
    BY <1>3, <1>4, <1>5
  <2>2. PICK i \in I : i = Nth(I, n) /\ Cardinality(Below(I, i)) = n - 1
    BY ONLY <1>4, <2>3
  <2> QED BY <1>4, <2>1, <2>2
<1>8. ASSUME NEW n \in c + 1 .. d, Nth(I, n) \in J PROVE FALSE
  <2>4. n \in 1 .. d
    BY <1>3, <1>4
  <2>1. PICK i \in J : i = Nth(I, n) /\ Cardinality(Below(I, i)) = n - 1
    BY ONLY <1>4, <1>8, <2>4
  <2>2. PICK m \in 1 .. c : Nth(J, m) = i
    BY <1>3
  <2>3. Cardinality(Below(I, i)) = m - 1
    BY <1>3, <1>6, <2>2
  <2> QED BY <1>3, <1>4, <2>1, <2>3
<1> QED BY <1>2, <1>3, <1>4, <1>5, <1>7, <1>8

Parallel(x, y, a, b, I, J) ==
  /\ IsList(x) /\ IsList(y)
  /\ \A n \in DOMAIN y : n \in DOMAIN x /\ \E i \in J : x[n] = a[i] /\ y[n] = b[i]
  /\ \A n \in DOMAIN x \ DOMAIN y : \E i \in I \ J : x[n] = a[i]
LEMMA AtPrefix ==
  ASSUME NEW a, IsList(a), NEW b, IsList(b), DOMAIN b \subseteq DOMAIN a, NEW S, NEW T,
         NEW I, I = S \cap DOMAIN a, NEW J, J = T \cap DOMAIN b, J = I \cap DOMAIN b
  PROVE  Parallel(At(a, S), At(b, T), a, b, I, J)
<1>1. PICK x, y : x = At(a, S) /\ y = At(b, T)
  OBVIOUS
<1>2. Walks(x, a, I) /\ IsFiniteSet(I) /\ I \subseteq Nat
  BY ONLY IsList(a), I = S \cap DOMAIN a, <1>1, AtInOrder
<1>3. Walks(y, b, J)
  BY ONLY IsList(b), J = T \cap DOMAIN b, <1>1, AtInOrder
<1>4. PICK m, n \in Nat : DOMAIN a = 1 .. m /\ DOMAIN b = 1 .. n
  BY ListShape
<1>5. J \subseteq I /\ \A j \in J : \A i \in I \ J : j < i
  BY <1>4
<1>6. PICK c, d : c = Cardinality(J) /\ d = Cardinality(I)
  OBVIOUS
<1>7. /\ c \in Nat /\ d \in Nat /\ c <= d
      /\ \A k \in 1 .. c : Nth(I, k) = Nth(J, k) /\ Nth(J, k) \in J
      /\ \A k \in c + 1 .. d : Nth(I, k) \in I \ J
  BY ONLY <1>2, <1>5, <1>6, PrefixNth
<1>8. /\ DOMAIN x = 1 .. d /\ (\A k \in 1 .. d : x[k] = a[Nth(I, k)])
      /\ DOMAIN y = 1 .. c /\ (\A k \in 1 .. c : y[k] = b[Nth(J, k)])
  BY <1>2, <1>3, <1>6 DEF Walks
<1>9. ASSUME NEW k \in DOMAIN y PROVE k \in DOMAIN x /\ \E i \in J : x[k] = a[i] /\ y[k] = b[i]
  <2>1. k \in 1 .. c /\ k \in 1 .. d
    BY <1>7, <1>8
  <2> QED BY <1>7, <1>8, <2>1
<1>10. ASSUME NEW k \in DOMAIN x \ DOMAIN y PROVE \E i \in I \ J : x[k] = a[i]
  <2>1. k \in 1 .. d /\ k \in c + 1 .. d
    BY <1>7, <1>8
  <2> QED BY <1>7, <1>8, <2>1
<1> QED BY <1>1, <1>2, <1>3, <1>9, <1>10, ZenonT(40) DEF Walks, Parallel

(* Corroboration drops only imports, and changes of the rest no field but   *)
(* the tools.                                                               *)
Marked(x, e, s, i) ==
  /\ DOMAIN x = EvidenceFields
  /\ \A k \in EvidenceFields \ {"tool", "weakness", "crossTool", "tools", "refs"} : x[k] = e[k]
  /\ x.crossTool \in BOOLEAN /\ (x.crossTool <=> e.crossTool \/ Partners(s, i) # {})
  /\ (Partners(s, i) = {} => x.tools = e.tools)
  /\ (Partners(s, i) # {} => x.tools # {})
Corroborates(o, c, all, dropped, s) ==
  /\ s = Stamped(c) /\ IsList(all) /\ DOMAIN all = DOMAIN c /\ o = At(all, DOMAIN c \ dropped)
  /\ \A i \in DOMAIN c : Marked(all[i], c[i], s, i) /\ s[i].source = c[i].source
  /\ \A i \in dropped : i \in DOMAIN c /\ c[i].source = "imported"
LEMMA Corroborating ==
  ASSUME NEW c, IsList(c), \A e \in Range(c) : Sound(e), NEW o, o = CorrelateCrossTool(c)
  PROVE  \E all, dropped, s : Corroborates(o, c, all, dropped, s)
<1>1. PICK n \in Nat : DOMAIN c = 1 .. n
  BY ListShape
<1>2. PICK s : s = Stamped(c)
  OBVIOUS
<1>3. DOMAIN s = 1 .. n
  BY <1>1, <1>2 DEF Stamped
<1>4. ASSUME NEW i \in 1 .. n
      PROVE  Sound(s[i]) /\ \A k \in EvidenceFields \ {"tool", "weakness"} : s[i][k] = c[i][k]
  <2>1. Sound(c[i])
    BY <1>1 DEF Range
  <2>2. PICK x : x = StampToolID(StampWeakness(c[i]))
    OBVIOUS
  <2>3. Sound(x) /\ \A k \in EvidenceFields \ {"tool", "weakness"} : x[k] = c[i][k]
    BY <2>1, <2>2, StampedOne
  <2>4. s[i] = IF HasSource(c, "imported") THEN x ELSE c[i]
    BY <1>1, <1>2, <2>2 DEF Stamped
  <2> QED BY <2>1, <2>3, <2>4
<1>5. \A i \in 1 .. n : s[i].source = c[i].source /\ s[i].crossTool = c[i].crossTool /\ s[i].tools = c[i].tools
  BY <1>4 DEF EvidenceFields
<1>6. PICK dropped : dropped = {i \in DOMAIN s : NativePartners(s, i) # {}}
  OBVIOUS
<1>7. \A i \in dropped : i \in DOMAIN c /\ c[i].source = "imported"
  BY <1>1, <1>3, <1>5, <1>6 DEF NativePartners
<1> DEFINE refs(j) == UNION {s[i].refs : i \in {d \in dropped : Min(NativePartners(s, d)) = j}}
           seen(i) == [s[i] EXCEPT !.crossTool = @ \/ Partners(s, i) # {},
                              !.tools = IF Partners(s, i) = {} THEN @ ELSE {s[j].tool : j \in Partners(s, i)},
                              !.refs = @ \cup refs(i)]
           all == [i \in DOMAIN s |-> seen(i)]
<1>8. o = At(all, DOMAIN s \ dropped)
  BY <1>2, <1>6, ZenonT(40) DEF CorrelateCrossTool
<1>9. ASSUME NEW i \in 1 .. n, NEW x, x = seen(i)
      PROVE  Marked(x, c[i], s, i)
  <2>1. PICK y : y = s[i]
    OBVIOUS
  <2>2. Sound(y) /\ DOMAIN y = EvidenceFields
    BY <1>4, <2>1 DEF Sound
  <2>4. PICK tools : tools = IF Partners(s, i) = {} THEN y.tools ELSE {s[j].tool : j \in Partners(s, i)}
    OBVIOUS
  <2>5. PICK all_refs : all_refs = y.refs \cup refs(i)
    OBVIOUS
  <2>6. x = [y EXCEPT !.crossTool = (y.crossTool \/ Partners(s, i) # {}), !.tools = tools, !.refs = all_refs]
    BY <1>9, <2>1, <2>4, <2>5, Zenon
  <2>7. DOMAIN x = EvidenceFields /\ \A k \in EvidenceFields \ {"crossTool", "tools", "refs"} : x[k] = y[k]
    BY <2>2, <2>6
  <2>8. (x.crossTool <=> (y.crossTool \/ Partners(s, i) # {})) /\ x.tools = tools
    BY <2>2, <2>6 DEF EvidenceFields
  <2>9. x.crossTool \in BOOLEAN
    BY <2>2, <2>6 DEF EvidenceFields
  <2>10. /\ Partners(s, i) = {} => tools = c[i].tools
         /\ Partners(s, i) # {} => tools # {}
    BY <1>5, <2>1, <2>4
  <2>11. \A k \in EvidenceFields \ {"tool", "weakness", "crossTool", "tools", "refs"} : x[k] = c[i][k]
    BY <1>4, <2>1, <2>7
  <2> QED BY <1>5, <2>1, <2>7, <2>8, <2>9, <2>10, <2>11 DEF Marked
<1> HIDE DEF seen
<1>10. IsList(all) /\ DOMAIN all = 1 .. n
  <2>1. all = [i \in 1 .. n |-> all[i]] /\ DOMAIN all = 1 .. n
    BY <1>3
  <2> HIDE DEF all
  <2> QED BY <2>1, ListOf
<1>11. \A i \in 1 .. n : Marked(all[i], c[i], s, i)
  BY <1>3, <1>9
<1> HIDE DEF all
<1>12. Corroborates(o, c, all, dropped, s)
  BY <1>1, <1>2, <1>3, <1>5, <1>7, <1>8, <1>10, <1>11 DEF Corroborates
<1> QED BY <1>12


(* Native evidence with an import and without: the same but for what the    *)
(* tools that corroborate it left.                                          *)
Steady == EvidenceFields \ {"refs", "weakness", "tool", "crossTool", "tools"}
Alike(x, y) == DOMAIN x = EvidenceFields /\ DOMAIN y = EvidenceFields /\ \A k \in Steady : x[k] = y[k]
Twin(x, y) == Alike(x, y) /\ (x.tools = {} => x.crossTool = y.crossTool /\ y.tools = {})
AddsTwins(x, y, r, F) ==
  /\ IsList(x) /\ IsList(y)
  /\ \A n \in DOMAIN y : n \in DOMAIN x /\ Twin(x[n], y[n]) /\ y[n].source # "imported" /\ NamedBy(y[n], Range(r))
  /\ \A n \in DOMAIN x \ DOMAIN y : x[n].source = "imported" /\ NamedBy(x[n], Range(Imported(F)))

LEMMA CrossedAdds ==
  ASSUME NEW r, NEW F, NEW a, NEW b, AddsImports(a, b, r, F), \A e \in Range(a) : Sound(e), \A e \in Range(b) : Sound(e),
         NEW x, x = CorrelateCrossTool(a), NEW y, y = CorrelateCrossTool(b)
  PROVE  AddsTwins(x, y, r, F)
<1>1. IsList(a) /\ IsList(b)
  BY DEF AddsImports
<1>2. \E all, dropped, s : Corroborates(x, a, all, dropped, s)
  BY <1>1, Corroborating
<1>3. PICK p, dropped, s : Corroborates(x, a, p, dropped, s)
  BY <1>2
<1>4. \E all, gone, t : Corroborates(y, b, all, gone, t)
  BY <1>1, Corroborating
<1>5. PICK q, gone, t : Corroborates(y, b, q, gone, t)
  BY <1>4
<1>6. gone = {} /\ \A i \in DOMAIN b : Partners(t, i) = {}
  <2>1. \A i \in DOMAIN b : b[i].source # "imported"
    BY DEF AddsImports
  <2>2. DOMAIN t = DOMAIN b /\ \A i \in DOMAIN b : t[i].source # "imported"
    BY <1>5, <2>1 DEF Corroborates, Stamped
  <2>3. \A i \in DOMAIN b : Partners(t, i) = {}
    BY <2>2 DEF Partners, Strong
  <2> QED BY <1>5, <2>1, <2>3 DEF Corroborates
<1>7. PICK S, T : S = DOMAIN a \ dropped /\ T = DOMAIN b \ gone
  OBVIOUS
<1>8. /\ IsList(p) /\ IsList(q) /\ DOMAIN p = DOMAIN a /\ DOMAIN q = DOMAIN b
      /\ x = At(p, S) /\ y = At(q, T)
  BY <1>3, <1>5, <1>7 DEF Corroborates
<1>9. DOMAIN b \subseteq DOMAIN a /\ dropped \cap DOMAIN b = {}
  <2>1. \A i \in DOMAIN b : i \in DOMAIN a /\ a[i].source # "imported"
    BY DEF AddsImports
  <2>2. \A i \in dropped : a[i].source = "imported"
    BY <1>3 DEF Corroborates
  <2> QED BY <2>1, <2>2
<1>10. S = S \cap DOMAIN p /\ T = T \cap DOMAIN q /\ T = DOMAIN q /\ T = S \cap DOMAIN q
  BY <1>6, <1>7, <1>8, <1>9
<1>11. Parallel(x, y, p, q, S, T)
  <2>1. DOMAIN q \subseteq DOMAIN p
    BY <1>8, <1>9
  <2>2. PICK I, J : I = S /\ J = T
    OBVIOUS
  <2>3. I = S \cap DOMAIN p /\ J = T \cap DOMAIN q /\ J = I \cap DOMAIN q
    BY <1>10, <2>2
  <2>4. Parallel(At(p, S), At(q, T), p, q, I, J)
    BY ONLY <1>8, <2>1, <2>3, AtPrefix
  <2> QED BY <1>8, <2>2, <2>4
<1>12. {"source", "category", "at", "title"} \subseteq Steady
  BY DEF Steady, EvidenceFields
<1>13. ASSUME NEW i \in DOMAIN b
       PROVE  Twin(p[i], q[i]) /\ q[i].source # "imported" /\ NamedBy(q[i], Range(r))
  <2>1. i \in DOMAIN a /\ a[i] = b[i] /\ b[i].source # "imported" /\ NamedBy(b[i], Range(r))
    BY DEF AddsImports
  <2>2. Marked(p[i], a[i], s, i)
    BY <1>3, <2>1 DEF Corroborates
  <2>3. Marked(q[i], b[i], t, i)
    BY <1>5 DEF Corroborates
  <2>4. \A k \in Steady : p[i][k] = q[i][k] /\ q[i][k] = b[i][k]
    BY <2>1, <2>2, <2>3 DEF Marked, Steady
  <2>5. Alike(p[i], q[i])
    BY <2>2, <2>3, <2>4 DEF Marked, Alike
  <2>6. ASSUME p[i].tools = {} PROVE p[i].crossTool = q[i].crossTool /\ q[i].tools = {}
    <3>1. Partners(s, i) = {} /\ Partners(t, i) = {}
      BY <1>6, <2>2, <2>6 DEF Marked
    <3> QED BY <2>1, <2>2, <2>3, <2>6, <3>1 DEF Marked
  <2>7. q[i].source = b[i].source /\ Identity(q[i]) = Identity(b[i])
    BY <1>12, <2>4 DEF Identity
  <2> QED BY <2>1, <2>5, <2>6, <2>7 DEF Twin, NamedBy
<1>14. ASSUME NEW i \in DOMAIN a \ DOMAIN b PROVE p[i].source = "imported" /\ NamedBy(p[i], Range(Imported(F)))
  <2>1. a[i].source = "imported" /\ NamedBy(a[i], Range(Imported(F)))
    BY DEF AddsImports
  <2>2. \A k \in Steady : p[i][k] = a[i][k]
    BY <1>3 DEF Corroborates, Marked, Steady
  <2> QED BY <1>12, <2>1, <2>2 DEF NamedBy, Identity
<1>15. ASSUME NEW n \in DOMAIN y
       PROVE  n \in DOMAIN x /\ Twin(x[n], y[n]) /\ y[n].source # "imported" /\ NamedBy(y[n], Range(r))
  <2>1. PICK i \in T : n \in DOMAIN x /\ x[n] = p[i] /\ y[n] = q[i]
    BY <1>11 DEF Parallel
  <2> QED BY <1>7, <1>13, <2>1
<1>16. ASSUME NEW n \in DOMAIN x \ DOMAIN y PROVE x[n].source = "imported" /\ NamedBy(x[n], Range(Imported(F)))
  <2>1. PICK i \in S \ T : x[n] = p[i]
    BY <1>11 DEF Parallel
  <2>2. i \in DOMAIN a \ DOMAIN b
    BY <1>8, <1>10, <2>1
  <2> QED BY <1>14, <2>1, <2>2
<1> QED BY <1>11, <1>15, <1>16 DEF AddsTwins, Parallel

(* A list that imports lengthen: its findings are those of the other.       *)
Longer(x, y) ==
  /\ IsList(x) /\ IsList(y)
  /\ \A n \in DOMAIN y : n \in DOMAIN x /\ Alike(x[n], y[n]) /\ y[n].source # "imported"
  /\ \A n \in DOMAIN x \ DOMAIN y : DOMAIN x[n] = EvidenceFields /\ x[n].source = "imported"

LEMMA AlikeProjected ==
  ASSUME NEW x, NEW y, Alike(x, y), NEW p, p = EscalateReachable(Published(x)), NEW q, q = EscalateReachable(Published(y))
  PROVE  Alike(p, q) /\ p.source = x.source
<1>1. PICK u, v : u = Published(x) /\ v = Published(y)
  OBVIOUS
<1>2. /\ DOMAIN u = EvidenceFields /\ (\A k \in EvidenceFields \ Internal : u[k] = x[k]) /\ \A k \in Internal : u[k] = Blank[k]
      /\ DOMAIN v = EvidenceFields /\ (\A k \in EvidenceFields \ Internal : v[k] = y[k]) /\ \A k \in Internal : v[k] = Blank[k]
  BY <1>1, PublishedShape DEF Alike
<1>3. \A k \in Steady : u[k] = v[k]
  BY <1>2 DEF Steady, Alike
<1>4. {"reachable", "source", "severity"} \subseteq Steady \ Internal
  BY DEF Steady, EvidenceFields, Internal
<1>5. u.reachable = v.reachable /\ u.source = v.source /\ u.severity = v.severity /\ u.source = x.source
  BY <1>2, <1>3, <1>4 DEF Steady
<1>6. PICK s : s = EscalateSeverity(u.severity)
  OBVIOUS
<1>7. p = IF u.reachable /\ u.source # "correlated" THEN [u EXCEPT !.severity = s] ELSE u
  BY <1>1, <1>6 DEF EscalateReachable
<1>8. q = IF u.reachable /\ u.source # "correlated" THEN [v EXCEPT !.severity = s] ELSE v
  BY <1>1, <1>5, <1>6 DEF EscalateReachable
<1>9. p.source = u.source
  BY <1>2, <1>7 DEF EvidenceFields
<1>10. CASE u.reachable /\ u.source # "correlated"
  <2>1. p = [u EXCEPT !.severity = s] /\ q = [v EXCEPT !.severity = s]
    BY <1>7, <1>8, <1>10
  <2>2. \A k \in Steady : p[k] = q[k]
    BY <1>2, <1>3, <2>1 DEF Steady
  <2> QED BY <1>2, <1>5, <1>9, <2>1, <2>2 DEF Alike
<1>11. CASE ~(u.reachable /\ u.source # "correlated")
  <2>1. p = u /\ q = v
    BY <1>7, <1>8, <1>11
  <2> QED BY <1>2, <1>3, <1>5, <2>1 DEF Alike
<1> QED BY <1>10, <1>11

LEMMA ProjectedLonger ==
  ASSUME NEW r, NEW F, NEW x, NEW y, AddsTwins(x, y, r, F), \A e \in Range(x) : Sound(e), \A e \in Range(y) : Sound(e),
         NEW p, p = Projected(x), NEW q, q = Projected(y)
  PROVE  Longer(p, q)
<1>1. IsList(x) /\ IsList(y)
  BY DEF AddsTwins
<1>2. IsList(p) /\ DOMAIN p = DOMAIN x /\ \A i \in DOMAIN x : Projection(p[i], x[i])
  BY <1>1, ProjectedShape
<1>3. IsList(q) /\ DOMAIN q = DOMAIN y /\ \A i \in DOMAIN y : Projection(q[i], y[i])
  BY <1>1, ProjectedShape
<1>4. {"source"} \subseteq (Public \ {"severity"}) \cap Steady
  BY DEF Public, Steady, EvidenceFields, Internal
<1>5. \A i \in DOMAIN x : DOMAIN p[i] = EvidenceFields /\ p[i].source = x[i].source
  BY <1>2, <1>4 DEF Projection
<1>6. ASSUME NEW n \in DOMAIN q PROVE n \in DOMAIN p /\ Alike(p[n], q[n]) /\ q[n].source # "imported"
  <2>1. n \in DOMAIN x /\ n \in DOMAIN y /\ Alike(x[n], y[n]) /\ y[n].source # "imported"
    BY <1>3 DEF AddsTwins, Twin
  <2>2. p[n] = EscalateReachable(Published(x[n])) /\ q[n] = EscalateReachable(Published(y[n]))
    BY <2>1 DEF Projected
  <2>3. PICK u, v : u = p[n] /\ v = q[n]
    OBVIOUS
  <2>4. Alike(u, v) /\ u.source = x[n].source
    BY <2>1, <2>2, <2>3, AlikeProjected
  <2>5. x[n].source = y[n].source /\ u.source = v.source
    BY <1>4, <2>1, <2>4 DEF Alike
  <2> QED BY <1>2, <2>1, <2>3, <2>4, <2>5
<1>7. ASSUME NEW n \in DOMAIN p \ DOMAIN q PROVE DOMAIN p[n] = EvidenceFields /\ p[n].source = "imported"
  BY <1>2, <1>3, <1>5 DEF AddsTwins
<1> QED BY <1>2, <1>3, <1>6, <1>7 DEF Longer


LEMMA AlikeDuplicates ==
  ASSUME NEW a, NEW c, Alike(a, c), NEW b, NEW d, Alike(b, d)
  PROVE  (DuplicateLess(a, b) <=> DuplicateLess(c, d)) /\ (FindingLess(a, b) <=> FindingLess(c, d))
<1>1. {"tier", "severity", "at", "text"} \subseteq Steady
  BY DEF Steady, EvidenceFields
<1>2. /\ a.tier = c.tier /\ a.severity = c.severity /\ a.at = c.at /\ a.text = c.text
      /\ b.tier = d.tier /\ b.severity = d.severity /\ b.at = d.at /\ b.text = d.text
  BY <1>1 DEF Alike
<1> QED BY <1>2 DEF DuplicateLess, FindingLess

(* A native finding collapses with the same findings, and is kept if it was.*)
LEMMA GroupUnmoved ==
  ASSUME NEW p, NEW q, Longer(p, q), NEW i \in DOMAIN q
  PROVE  /\ CollapseGroup(p, i) = CollapseGroup(q, i) /\ CollapseGroup(q, i) \subseteq DOMAIN q
         /\ Winner(p, i) = Winner(q, i)
<1>1. {"source", "category", "at", "tier"} \subseteq Steady
  BY DEF Steady, EvidenceFields
<1>2. /\ DOMAIN q \subseteq DOMAIN p /\ \A j \in DOMAIN q : Alike(p[j], q[j])
      /\ \A j \in DOMAIN p \ DOMAIN q : p[j].source = "imported"
  BY DEF Longer
<1>3. \A j \in DOMAIN q : p[j].source = q[j].source /\ p[j].category = q[j].category /\ p[j].at = q[j].at /\ p[j].tier = q[j].tier
  BY <1>1, <1>2 DEF Alike
<1>4. PICK g : g = {j \in DOMAIN q : /\ q[i].source = "whitebox" /\ q[j].source = "whitebox"
                                     /\ q[j].category = q[i].category /\ q[j].at = q[i].at}
  OBVIOUS
<1>5. g = {j \in DOMAIN p : /\ p[i].source = "whitebox" /\ p[j].source = "whitebox"
                            /\ p[j].category = p[i].category /\ p[j].at = p[i].at}
  BY <1>2, <1>3, <1>4
<1>6. PICK tiers : tiers = {q[j].tier : j \in g}
  OBVIOUS
<1>7. tiers = {p[j].tier : j \in g}
  <2>1. \A j \in g : p[j].tier = q[j].tier
    BY <1>3, <1>4
  <2> QED BY <1>6, <2>1
<1>8. PICK G : G = IF Cardinality(tiers) > 1 THEN g ELSE {i}
  OBVIOUS
<1>9. CollapseGroup(q, i) = G
  BY <1>4, <1>6, <1>8 DEF CollapseGroup
<1>10. CollapseGroup(p, i) = G
  BY <1>5, <1>7, <1>8 DEF CollapseGroup
<1>11. G \subseteq DOMAIN q
  BY <1>4, <1>8
<1>12. PICK best : best = {j \in G : \A k \in G : ~DuplicateLess(q[k], q[j])}
  OBVIOUS
<1>13. best = {j \in G : \A k \in G : ~DuplicateLess(p[k], p[j])}
  <2>1. \A j, k \in G : DuplicateLess(p[k], p[j]) <=> DuplicateLess(q[k], q[j])
    <3> SUFFICES ASSUME NEW j \in G, NEW k \in G PROVE DuplicateLess(p[k], p[j]) <=> DuplicateLess(q[k], q[j])
      OBVIOUS
    <3>1. PICK a, b, c, d : a = p[k] /\ c = q[k] /\ b = p[j] /\ d = q[j]
      OBVIOUS
    <3>2. Alike(a, c) /\ Alike(b, d)
      BY <1>2, <1>11, <3>1
    <3> QED BY <3>1, <3>2, AlikeDuplicates
  <2> QED BY <1>12, <2>1
<1>14. Winner(q, i) = Min(best)
  BY <1>9, <1>12 DEF Winner
<1>15. Winner(p, i) = Min(best)
  BY <1>10, <1>13 DEF Winner
<1> QED BY <1>9, <1>10, <1>11, <1>14, <1>15

LEMMA CollapsedLonger ==
  ASSUME NEW p, NEW q, Longer(p, q), NEW x, x = CollapseDuplicateLocations(p), NEW y, y = CollapseDuplicateLocations(q)
  PROVE  Longer(x, y)
<1> DEFINE merged(l, i) == [l[i] EXCEPT !.refs = UNION {l[j].refs : j \in CollapseGroup(l, i)}]
<1>1. PICK a, b : a = [i \in DOMAIN p |-> merged(p, i)] /\ b = [i \in DOMAIN q |-> merged(q, i)]
  OBVIOUS
<1>2. PICK V, W : V = {i \in DOMAIN p : Winner(p, i) = i} /\ W = {i \in DOMAIN q : Winner(q, i) = i}
  OBVIOUS
<1>3. x = At(a, V) /\ y = At(b, W)
  BY <1>1, <1>2, Zenon DEF CollapseDuplicateLocations
<1>4. PICK m, n \in Nat : DOMAIN p = 1 .. m /\ DOMAIN q = 1 .. n
  BY ListShape DEF Longer
<1>5. DOMAIN a = DOMAIN p /\ DOMAIN b = DOMAIN q
  BY <1>1
<1>6. IsList(a) /\ IsList(b)
  <2>1. a = [i \in 1 .. m |-> a[i]] /\ b = [i \in 1 .. n |-> b[i]]
    BY <1>1, <1>4
  <2> QED BY <2>1, ListOf
<1>7. V = V \cap DOMAIN a /\ W = W \cap DOMAIN b /\ W = V \cap DOMAIN b /\ DOMAIN b \subseteq DOMAIN a
  <2>1. DOMAIN q \subseteq DOMAIN p
    BY DEF Longer
  <2>2. \A i \in DOMAIN q : Winner(p, i) = Winner(q, i)
    BY GroupUnmoved
  <2> QED BY <1>2, <1>5, <2>1, <2>2
<1>8. Parallel(x, y, a, b, V, W)
  <2>1. PICK I, J : I = V /\ J = W
    OBVIOUS
  <2>2. I = V \cap DOMAIN a /\ J = W \cap DOMAIN b /\ J = I \cap DOMAIN b /\ DOMAIN b \subseteq DOMAIN a
    BY <1>7, <2>1
  <2>3. Parallel(At(a, V), At(b, W), a, b, I, J)
    BY ONLY <1>6, <2>2, AtPrefix
  <2> QED BY <1>3, <2>1, <2>3
<1>9. ASSUME NEW l, NEW i, DOMAIN l[i] = EvidenceFields, NEW z, z = merged(l, i)
      PROVE  DOMAIN z = EvidenceFields /\ \A k \in EvidenceFields \ {"refs"} : z[k] = l[i][k]
  <2>1. PICK r : r = UNION {l[j].refs : j \in CollapseGroup(l, i)}
    OBVIOUS
  <2>2. z = [l[i] EXCEPT !.refs = r]
    BY <1>9, <2>1, Zenon
  <2> QED BY <1>9, <2>2
<1>10. "source" \in Steady \cap (EvidenceFields \ {"refs"}) /\ Steady \subseteq EvidenceFields \ {"refs"}
  BY DEF Steady, EvidenceFields
<1>11. ASSUME NEW i \in DOMAIN q PROVE Alike(a[i], b[i]) /\ b[i].source # "imported"
  <2>1. Alike(p[i], q[i]) /\ q[i].source # "imported" /\ i \in DOMAIN p
    BY DEF Longer
  <2>2. PICK u, v : u = merged(p, i) /\ v = merged(q, i)
    OBVIOUS
  <2>3. /\ DOMAIN u = EvidenceFields /\ \A k \in EvidenceFields \ {"refs"} : u[k] = p[i][k]
        /\ DOMAIN v = EvidenceFields /\ \A k \in EvidenceFields \ {"refs"} : v[k] = q[i][k]
    BY <1>9, <2>1, <2>2 DEF Alike
  <2>4. a[i] = u /\ b[i] = v
    BY <1>1, <2>1, <2>2
  <2> QED BY <1>10, <2>1, <2>3, <2>4 DEF Alike
<1>12. ASSUME NEW i \in DOMAIN p \ DOMAIN q PROVE DOMAIN a[i] = EvidenceFields /\ a[i].source = "imported"
  <2>1. DOMAIN p[i] = EvidenceFields /\ p[i].source = "imported"
    BY DEF Longer
  <2>2. PICK u : u = merged(p, i)
    OBVIOUS
  <2>3. DOMAIN u = EvidenceFields /\ \A k \in EvidenceFields \ {"refs"} : u[k] = p[i][k]
    BY <1>9, <2>1, <2>2
  <2> QED BY <1>1, <1>10, <2>1, <2>2, <2>3
<1>13. ASSUME NEW k \in DOMAIN y PROVE k \in DOMAIN x /\ Alike(x[k], y[k]) /\ y[k].source # "imported"
  <2>1. PICK i \in W : k \in DOMAIN x /\ x[k] = a[i] /\ y[k] = b[i]
    BY <1>8 DEF Parallel
  <2> QED BY <1>2, <1>11, <2>1
<1>14. ASSUME NEW k \in DOMAIN x \ DOMAIN y PROVE DOMAIN x[k] = EvidenceFields /\ x[k].source = "imported"
  <2>1. PICK i \in V \ W : x[k] = a[i]
    BY <1>8 DEF Parallel
  <2>2. i \in DOMAIN p \ DOMAIN q
    BY <1>2, <1>5, <1>7, <2>1
  <2> QED BY <1>12, <2>1, <2>2
<1> QED BY <1>8, <1>13, <1>14 DEF Longer, Parallel

LEMMA AlikeFolded ==
  ASSUME NEW g, NEW h, Alike(g, h), NEW f, NEW e, Alike(f, e), NEW x, x = FoldMember(g, f), NEW y, y = FoldMember(h, e)
  PROVE  Alike(x, y)
<1>1. /\ DOMAIN g = EvidenceFields /\ DOMAIN h = EvidenceFields /\ DOMAIN f = EvidenceFields /\ DOMAIN e = EvidenceFields
      /\ \A k \in Steady : g[k] = h[k] /\ f[k] = e[k]
  BY DEF Alike
<1>2. {"confidence", "source", "reachable", "provenPath", "routeConfirmed", "tier", "chain", "route", "affected"} \subseteq Steady
  BY DEF Steady, EvidenceFields
<1>3. /\ g.confidence = h.confidence /\ f.confidence = e.confidence /\ g.source = h.source /\ f.source = e.source
      /\ g.reachable = h.reachable /\ f.reachable = e.reachable /\ g.provenPath = h.provenPath /\ f.provenPath = e.provenPath
      /\ g.routeConfirmed = h.routeConfirmed /\ f.routeConfirmed = e.routeConfirmed
  BY <1>1, <1>2
<1>4. /\ g.tier = h.tier /\ f.tier = e.tier /\ g.chain = h.chain /\ f.chain = e.chain /\ g.route = h.route /\ f.route = e.route
      /\ g.affected = h.affected /\ f.affected = e.affected
  BY <1>1, <1>2
<1>5. PICK less, more \in BOOLEAN : (less <=> FindingLess(f, g)) /\ (more <=> FindingLess(g, f))
  OBVIOUS
<1>6. (FindingLess(e, h) <=> FindingLess(f, g)) /\ (FindingLess(h, e) <=> FindingLess(g, f))
  BY AlikeDuplicates
<1>7. PICK p, q : p = (IF FindingLess(f, g) THEN f ELSE g) /\ q = (IF FindingLess(e, h) THEN e ELSE h)
  OBVIOUS
<1>8. Alike(p, q)
  BY <1>6, <1>7
<1>9. PICK c : c = IF ConfidenceRank(f.confidence) > ConfidenceRank(g.confidence) THEN f.confidence ELSE g.confidence
  OBVIOUS
<1>10. PICK tier : tier = IF TrustRank(f.tier) > TrustRank(g.tier) THEN f.tier ELSE g.tier
  OBVIOUS
<1>11. PICK chain : chain = Prefer(g, f, 0, g.chain, f.chain)
  OBVIOUS
<1>12. chain = Prefer(h, e, 0, h.chain, e.chain)
  BY <1>4, <1>6, <1>11 DEF Prefer
<1>13. PICK route : route = Prefer(g, f, NoRoute, g.route, f.route)
  OBVIOUS
<1>14. route = Prefer(h, e, NoRoute, h.route, e.route)
  <2>1. PICK none : none = NoRoute
    OBVIOUS
  <2> QED BY ONLY <1>4, <1>6, <1>13, <2>1 DEF Prefer
<1>15. PICK affs, source : affs = g.affected \cup f.affected /\ source = MergeSource(g.source, f.source)
  OBVIOUS
<1>16. PICK r, s : r = g.refs \cup f.refs /\ s = h.refs \cup e.refs
  OBVIOUS
<1>17. PICK reach, proven, confirmed :
         /\ reach = (g.reachable \/ f.reachable) /\ proven = (g.provenPath \/ f.provenPath)
         /\ confirmed = (g.routeConfirmed \/ f.routeConfirmed)
  OBVIOUS
<1>18. /\ reach = (h.reachable \/ e.reachable) /\ proven = (h.provenPath \/ e.provenPath)
       /\ confirmed = (h.routeConfirmed \/ e.routeConfirmed)
  BY ONLY <1>3, <1>17, Zenon
<1>19. x = [p EXCEPT !.confidence = c, !.source = source, !.reachable = reach,
              !.provenPath = proven, !.routeConfirmed = confirmed,
              !.tier = tier, !.chain = chain, !.route = route, !.refs = r, !.affected = affs]
  BY <1>7, <1>9, <1>10, <1>11, <1>13, <1>15, <1>16, <1>17, ZenonT(40) DEF FoldMember
<1>20. y = [q EXCEPT !.confidence = c, !.source = source, !.reachable = reach,
              !.provenPath = proven, !.routeConfirmed = confirmed,
              !.tier = tier, !.chain = chain, !.route = route, !.refs = s, !.affected = affs]
  <2>1. /\ c = IF ConfidenceRank(e.confidence) > ConfidenceRank(h.confidence) THEN e.confidence ELSE h.confidence
        /\ tier = IF TrustRank(e.tier) > TrustRank(h.tier) THEN e.tier ELSE h.tier
        /\ affs = h.affected \cup e.affected /\ source = MergeSource(h.source, e.source)
    BY <1>3, <1>4, <1>9, <1>10, <1>15
  <2> QED BY <1>7, <1>12, <1>14, <1>16, <1>18, <2>1, ZenonT(40) DEF FoldMember
<1>21. DOMAIN p = EvidenceFields /\ DOMAIN q = EvidenceFields /\ \A k \in Steady : p[k] = q[k]
  BY <1>8 DEF Alike
<1>22. DOMAIN x = EvidenceFields /\ DOMAIN y = EvidenceFields
  BY <1>19, <1>20, <1>21
<1>23. \A k \in Steady : x[k] = y[k]
  BY <1>19, <1>20, <1>21 DEF Steady
<1> QED BY <1>22, <1>23 DEF Alike


LEMMA AlikeSeeds ==
  ASSUME NEW m, NEW l, Alike(m, l)
  PROVE  Alike(Seed(m), Seed(l))
<1>1. PICK u, v : u = m.affected \cup {m.at} /\ v = l.affected \cup {l.at}
  OBVIOUS
<1>2. {"affected", "at"} \subseteq Steady
  BY DEF Steady, EvidenceFields
<1>3. u = v
  BY <1>1, <1>2 DEF Alike
<1>4. PICK x, y : x = Seed(m) /\ y = Seed(l)
  OBVIOUS
<1>5. x = [m EXCEPT !.affected = u] /\ y = [l EXCEPT !.affected = u]
  BY <1>1, <1>3, <1>4 DEF Seed
<1>6. DOMAIN x = EvidenceFields /\ DOMAIN y = EvidenceFields /\ \A k \in Steady : x[k] = y[k]
  BY <1>5 DEF Alike, Steady
<1> QED BY <1>4, <1>6 DEF Alike

LEMMA AlikeKeys ==
  ASSUME NEW x, NEW y, Alike(x, y)
  PROVE  DedupKey(x) = DedupKey(y) /\ x.source = y.source
<1>1. {"severity", "category", "title", "source"} \subseteq Steady
  BY DEF Steady, EvidenceFields
<1> QED BY <1>1, KeyParts DEF Alike

(* The members a native finding is grouped with are the same.               *)
LEMMA GroupFromUnmoved ==
  ASSUME NEW p, NEW q, Longer(p, q), NEW i \in DOMAIN q, NEW x, x = GroupFrom(p, i), NEW y, y = GroupFrom(q, i)
  PROVE  Alike(x, y)
<1>1. /\ IsList(p) /\ IsList(q) /\ DOMAIN q \subseteq DOMAIN p
      /\ \A j \in DOMAIN q : Alike(p[j], q[j]) /\ q[j].source # "imported"
      /\ \A j \in DOMAIN p \ DOMAIN q : p[j].source = "imported"
  BY DEF Longer
<1>2. \A j \in DOMAIN q : DedupKey(p[j]) = DedupKey(q[j]) /\ p[j].source = q[j].source
  <2> SUFFICES ASSUME NEW j \in DOMAIN q PROVE DedupKey(p[j]) = DedupKey(q[j]) /\ p[j].source = q[j].source
    OBVIOUS
  <2>1. PICK u, v : u = p[j] /\ v = q[j]
    OBVIOUS
  <2> QED BY <1>1, <2>1, AlikeKeys
<1>3. PICK T : T = {j \in DOMAIN q : j > i /\ DedupKey(q[j]) = DedupKey(q[i])}
  OBVIOUS
<1>4. T = {j \in DOMAIN p : j > i /\ DedupKey(p[j]) = DedupKey(p[i])}
  <2>1. ASSUME NEW j \in DOMAIN p, DedupKey(p[j]) = DedupKey(p[i]) PROVE j \in DOMAIN q
    <3>1. (p[j].source = "imported") <=> (p[i].source = "imported")
      BY <2>1, KeyParts
    <3> QED BY <1>1, <1>2, <3>1
  <2> QED BY <1>1, <1>2, <1>3, <2>1
<1>5. PICK a, b : a = At(p, T) /\ b = At(q, T)
  OBVIOUS
<1>6. Parallel(a, b, p, q, T, T)
  <2>1. PICK I : I = T
    OBVIOUS
  <2>2. I = T \cap DOMAIN p /\ I = T \cap DOMAIN q /\ I = I \cap DOMAIN q
    BY <1>1, <1>3, <2>1
  <2>3. Parallel(At(p, T), At(q, T), p, q, I, I)
    BY ONLY <1>1, <2>2, AtPrefix
  <2> QED BY <1>5, <2>1, <2>3
<1>7. IsList(a) /\ IsList(b) /\ DOMAIN a = DOMAIN b
  <2>1. DOMAIN a \ DOMAIN b = {} /\ DOMAIN b \subseteq DOMAIN a
    BY <1>6 DEF Parallel
  <2> QED BY <1>6, <2>1 DEF Parallel
<1>8. PICK n \in Nat : n = Len(a) /\ DOMAIN a = 1 .. n /\ n = Len(b) /\ DOMAIN b = 1 .. n
  <2>1. PICK k, l \in Nat : k = Len(a) /\ l = Len(b) /\ DOMAIN a = 1 .. k /\ DOMAIN b = 1 .. l
    BY <1>7, ListShape
  <2>2. k = l
    <3>1. 1 .. k = 1 .. l
      BY <1>7, <2>1
    <3>2. ASSUME k < l PROVE FALSE
      <4>1. l \in 1 .. l /\ l \notin 1 .. k
        BY <3>2
      <4> QED BY ONLY <3>1, <4>1
    <3>3. ASSUME l < k PROVE FALSE
      <4>1. k \in 1 .. k /\ k \notin 1 .. l
        BY <3>3
      <4> QED BY ONLY <3>1, <4>1
    <3> QED BY <3>2, <3>3
  <2> QED BY <2>1, <2>2
<1>9. \A k \in 1 .. n : Alike(Seed(a[k]), Seed(b[k]))
  <2> SUFFICES ASSUME NEW k \in 1 .. n PROVE Alike(Seed(a[k]), Seed(b[k]))
    OBVIOUS
  <2>1. PICK j \in T : a[k] = p[j] /\ b[k] = q[j]
    BY <1>6, <1>8 DEF Parallel
  <2>2. Alike(a[k], b[k])
    BY <1>1, <1>3, <2>1
  <2> QED BY <2>2, AlikeSeeds
<1>10. PICK f, g : f = Seed(p[i]) /\ g = Seed(q[i])
  OBVIOUS
<1>11. Alike(f, g)
  BY <1>1, <1>10, AlikeSeeds
<1>12. x = GroupTable(f, a)[DOMAIN a]
  BY <1>4, <1>5, <1>10, Zenon DEF GroupFrom, GroupTable, FoldLeft, MapThenFoldSet
<1>13. y = GroupTable(g, b)[DOMAIN b]
  BY <1>3, <1>5, <1>10, Zenon DEF GroupFrom, GroupTable, FoldLeft, MapThenFoldSet
<1>14. PICK u : /\ u[0] = f /\ x = u[n]
                /\ \A k \in 1 .. n : u[k] = FoldMember(u[k - 1], Seed(a[k]))
  <2>1. PICK z : z = GroupTable(f, a)[DOMAIN a]
    OBVIOUS
  <2> QED BY <1>7, <1>8, <1>12, GroupWalk
<1>15. PICK v : /\ v[0] = g /\ y = v[n]
                /\ \A k \in 1 .. n : v[k] = FoldMember(v[k - 1], Seed(b[k]))
  <2>1. PICK z : z = GroupTable(g, b)[DOMAIN b]
    OBVIOUS
  <2> QED BY <1>7, <1>8, <1>13, GroupWalk
<1> DEFINE Q == {k \in 0 .. n : Alike(u[k], v[k])}
<1>16. 0 \in Q
  BY <1>11, <1>14, <1>15
<1>17. ASSUME NEW k \in 0 .. n - 1, k \in Q PROVE k + 1 \in Q
  <2>1. PICK m \in 1 .. n : m = k + 1 /\ k = m - 1 /\ m \in 0 .. n
    OBVIOUS
  <2>2. Alike(u[m - 1], v[m - 1]) /\ Alike(Seed(a[m]), Seed(b[m]))
    BY <1>9, <1>17, <2>1
  <2>3. u[m] = FoldMember(u[m - 1], Seed(a[m])) /\ v[m] = FoldMember(v[m - 1], Seed(b[m]))
    BY <1>14, <1>15
  <2>4. Alike(u[m], v[m])
    BY ONLY <2>2, <2>3, AlikeFolded
  <2> QED BY <2>1, <2>4
<1>18. n \in Q
  <2> HIDE DEF Q
  <2>1. \A k \in 0 .. n : k \in Q
    BY <1>16, <1>17, Climb
  <2> QED BY <2>1
<1> QED BY <1>14, <1>15, <1>18

LEMMA GroupedLonger ==
  ASSUME NEW p, NEW q, Longer(p, q), \A j \in DOMAIN p : Member(p[j]),
         NEW x, x = Deduplicate(p), NEW y, y = Deduplicate(q)
  PROVE  Longer(x, y)
<1>1. PICK a, b : a = [i \in DOMAIN p |-> Single(GroupFrom(p, i))] /\ b = [i \in DOMAIN q |-> Single(GroupFrom(q, i))]
  OBVIOUS
<1>2. PICK V, W : V = Firsts(p) /\ W = Firsts(q)
  OBVIOUS
<1>3. x = At(a, V) /\ y = At(b, W)
  BY <1>1, <1>2, Zenon DEF Deduplicate
<1>4. PICK m, n \in Nat : DOMAIN p = 1 .. m /\ DOMAIN q = 1 .. n
  BY ListShape DEF Longer
<1>5. DOMAIN a = DOMAIN p /\ DOMAIN b = DOMAIN q
  BY <1>1
<1>6. IsList(a) /\ IsList(b)
  <2>1. a = [i \in 1 .. m |-> a[i]] /\ b = [i \in 1 .. n |-> b[i]]
    BY <1>1, <1>4
  <2> QED BY <2>1, ListOf
<1>7. V = V \cap DOMAIN a /\ W = W \cap DOMAIN b /\ W = V \cap DOMAIN b /\ DOMAIN b \subseteq DOMAIN a
  <2>1. DOMAIN q \subseteq DOMAIN p
    BY DEF Longer
  <2>2. \A i \in DOMAIN q : DedupKey(p[i]) = DedupKey(q[i])
    <3> SUFFICES ASSUME NEW i \in DOMAIN q PROVE DedupKey(p[i]) = DedupKey(q[i])
      OBVIOUS
    <3>1. PICK u, v : u = p[i] /\ v = q[i]
      OBVIOUS
    <3> QED BY <3>1, AlikeKeys DEF Longer
  <2>3. \A i \in DOMAIN q : \A j \in 1 .. i - 1 : j \in DOMAIN q
    BY <1>4
  <2>4. \A i \in DOMAIN q : i \in V <=> i \in W
    BY <1>2, <2>1, <2>2, <2>3 DEF Firsts
  <2>5. V \subseteq DOMAIN p /\ W \subseteq DOMAIN q
    BY <1>2 DEF Firsts
  <2> QED BY <1>5, <2>1, <2>4, <2>5
<1>8. Parallel(x, y, a, b, V, W)
  <2>1. PICK I, J : I = V /\ J = W
    OBVIOUS
  <2>2. I = V \cap DOMAIN a /\ J = W \cap DOMAIN b /\ J = I \cap DOMAIN b /\ DOMAIN b \subseteq DOMAIN a
    BY <1>7, <2>1
  <2>3. Parallel(At(a, V), At(b, W), a, b, I, J)
    BY ONLY <1>6, <2>2, AtPrefix
  <2> QED BY <1>3, <2>1, <2>3
<1>9. {"affected", "source"} \subseteq Steady /\ Steady \subseteq EvidenceFields
  BY DEF Steady, EvidenceFields
<1>10. ASSUME NEW i \in DOMAIN q PROVE Alike(a[i], b[i]) /\ b[i].source # "imported"
  <2>1. PICK u, v : u = GroupFrom(p, i) /\ v = GroupFrom(q, i)
    OBVIOUS
  <2>2. Alike(u, v)
    BY <2>1, GroupFromUnmoved
  <2>3. PICK h, l : h = Single(u) /\ l = Single(v)
    OBVIOUS
  <2>4. u.affected = v.affected /\ u.source = v.source
    BY <1>9, <2>2 DEF Alike
  <2>5. (h = u /\ l = v) \/ (h = [u EXCEPT !.affected = {}] /\ l = [v EXCEPT !.affected = {}])
    <3>1. CASE Cardinality(u.affected) > 1
      BY <2>3, <2>4, <3>1, Zenon DEF Single
    <3>2. CASE ~(Cardinality(u.affected) > 1)
      BY <2>3, <2>4, <3>2, Zenon DEF Single
    <3> QED BY <3>1, <3>2
  <2>6. Alike(h, l) /\ h.source = u.source
    <3>1. CASE h = u /\ l = v
      BY <2>2, <3>1
    <3>2. CASE h = [u EXCEPT !.affected = {}] /\ l = [v EXCEPT !.affected = {}]
      <4>1. DOMAIN u = EvidenceFields /\ DOMAIN v = EvidenceFields /\ \A k \in Steady : u[k] = v[k]
        BY <2>2 DEF Alike
      <4>2. DOMAIN h = EvidenceFields /\ DOMAIN l = EvidenceFields /\ \A k \in Steady : h[k] = l[k]
        BY <1>9, <3>2, <4>1
      <4>3. h.source = u.source
        BY <3>2, <4>1 DEF EvidenceFields
      <4> QED BY <4>2, <4>3 DEF Alike
    <3> QED BY <2>5, <3>1, <3>2
  <2>7. a[i] = h /\ b[i] = l
    BY <1>1, <1>5, <1>7, <2>1, <2>3
  <2>8. u.source # "imported"
    <3>1. PICK ms : ms = {p[j] : j \in AtKey(p, i)}
      OBVIOUS
    <3>2. i \in DOMAIN p /\ IsList(p) /\ p[i].source # "imported"
      <4>1. i \in DOMAIN p /\ IsList(p) /\ Alike(p[i], q[i]) /\ q[i].source # "imported"
        BY DEF Longer
      <4> QED BY <4>1, AlikeKeys
    <3>3. GroupOf(u, ms)
      BY <2>1, <3>1, <3>2, GroupFromKeeps
    <3>4. p[i] \in ms
      BY <1>4, <3>1, <3>2 DEF AtKey
    <3>5. DedupKey(p[i]) = DedupKey(u)
      BY <3>3, <3>4 DEF GroupOf
    <3>6. (p[i].source = "imported") <=> (u.source = "imported")
      BY <3>5, KeyParts
    <3> QED BY <3>2, <3>6
  <2>9. l.source = h.source
    BY <1>9, <2>6 DEF Alike
  <2> QED BY <2>6, <2>7, <2>8, <2>9
<1>11. ASSUME NEW i \in DOMAIN p \ DOMAIN q PROVE DOMAIN a[i] = EvidenceFields /\ a[i].source = "imported"
  <2>1. p[i].source = "imported" /\ IsList(p)
    BY DEF Longer
  <2>2. PICK u : u = GroupFrom(p, i)
    OBVIOUS
  <2>3. PICK ms : ms = {p[j] : j \in AtKey(p, i)}
    OBVIOUS
  <2>4. GroupOf(u, ms)
    BY <2>1, <2>2, <2>3, GroupFromKeeps
  <2>5. p[i] \in ms
    BY <1>4, <2>3 DEF AtKey
  <2>6. DedupKey(p[i]) = DedupKey(u) /\ DOMAIN u = EvidenceFields
    BY <2>4, <2>5 DEF GroupOf
  <2>7. u.source = "imported"
    BY <2>1, <2>6, KeyParts
  <2>8. a[i] = Single(u)
    BY <1>1, <2>2
  <2>9. a[i] = u \/ a[i] = [u EXCEPT !.affected = {}]
    BY <2>8, Zenon DEF Single
  <2> QED BY <2>6, <2>7, <2>9 DEF EvidenceFields
<1>12. ASSUME NEW k \in DOMAIN y PROVE k \in DOMAIN x /\ Alike(x[k], y[k]) /\ y[k].source # "imported"
  <2>1. PICK i \in W : k \in DOMAIN x /\ x[k] = a[i] /\ y[k] = b[i]
    BY <1>8 DEF Parallel
  <2> QED BY <1>5, <1>7, <1>10, <2>1
<1>13. ASSUME NEW k \in DOMAIN x \ DOMAIN y PROVE DOMAIN x[k] = EvidenceFields /\ x[k].source = "imported"
  <2>1. PICK i \in V \ W : x[k] = a[i]
    BY <1>8 DEF Parallel
  <2>2. i \in DOMAIN p \ DOMAIN q
    BY <1>5, <1>7, <2>1
  <2> QED BY <1>11, <2>1, <2>2
<1> QED BY <1>8, <1>12, <1>13 DEF Longer, Parallel

LEMMA CappedLonger ==
  ASSUME NEW p, NEW q, Longer(p, q), NEW x, x = Consistently(p), NEW y, y = Consistently(q)
  PROVE  Longer(x, y)
<1>1. PICK m, n \in Nat : DOMAIN p = 1 .. m /\ DOMAIN q = 1 .. n
  BY ListShape DEF Longer
<1>2. IsList(x) /\ IsList(y) /\ DOMAIN x = DOMAIN p /\ DOMAIN y = DOMAIN q
  <2>1. x = [i \in 1 .. m |-> x[i]] /\ y = [i \in 1 .. n |-> y[i]] /\ DOMAIN x = 1 .. m /\ DOMAIN y = 1 .. n
    BY <1>1 DEF Consistently
  <2> QED BY <1>1, <2>1, ListOf
<1>3. {"severity", "confidence", "source"} \subseteq Steady /\ Steady \subseteq EvidenceFields
  BY DEF Steady, EvidenceFields
<1>4. ASSUME NEW f, DOMAIN f = EvidenceFields, NEW z, z = EnforceSeverityConsistency(f),
             NEW s, s = IF SeverityRank(f.severity) > SeverityRank(MaxSeverityForConfidence(f.confidence))
                        THEN MaxSeverityForConfidence(f.confidence) ELSE f.severity
      PROVE  DOMAIN z = EvidenceFields /\ z.severity = s /\ \A k \in EvidenceFields \ {"severity"} : z[k] = f[k]
  <2>1. CASE SeverityRank(f.severity) > SeverityRank(MaxSeverityForConfidence(f.confidence))
    <3>1. z = [f EXCEPT !.severity = s]
      BY <1>4, <2>1 DEF EnforceSeverityConsistency
    <3> QED BY <1>4, <3>1 DEF EvidenceFields
  <2>2. CASE ~(SeverityRank(f.severity) > SeverityRank(MaxSeverityForConfidence(f.confidence)))
    <3>1. z = f
      BY <1>4, <2>2 DEF EnforceSeverityConsistency
    <3> QED BY <1>4, <2>2, <3>1
  <2> QED BY <2>1, <2>2
<1>5. ASSUME NEW k \in DOMAIN y PROVE k \in DOMAIN x /\ Alike(x[k], y[k]) /\ y[k].source # "imported"
  <2>1. k \in DOMAIN p /\ k \in DOMAIN q /\ Alike(p[k], q[k]) /\ q[k].source # "imported"
    BY <1>2 DEF Longer
  <2>2. PICK f, g : f = p[k] /\ g = q[k]
    OBVIOUS
  <2>3. DOMAIN f = EvidenceFields /\ DOMAIN g = EvidenceFields /\ \A l \in Steady : f[l] = g[l]
    BY <2>1, <2>2 DEF Alike
  <2>4. PICK s : s = IF SeverityRank(f.severity) > SeverityRank(MaxSeverityForConfidence(f.confidence))
                     THEN MaxSeverityForConfidence(f.confidence) ELSE f.severity
    OBVIOUS
  <2>5. s = IF SeverityRank(g.severity) > SeverityRank(MaxSeverityForConfidence(g.confidence))
            THEN MaxSeverityForConfidence(g.confidence) ELSE g.severity
    BY <1>3, <2>3, <2>4
  <2>6. PICK u, v : u = x[k] /\ v = y[k]
    OBVIOUS
  <2>7. u = EnforceSeverityConsistency(f) /\ v = EnforceSeverityConsistency(g)
    BY <2>1, <2>2, <2>6 DEF Consistently
  <2>8. DOMAIN u = EvidenceFields /\ u.severity = s /\ \A l \in EvidenceFields \ {"severity"} : u[l] = f[l]
    BY ONLY <1>4, <2>3, <2>4, <2>7
  <2>9. DOMAIN v = EvidenceFields /\ v.severity = s /\ \A l \in EvidenceFields \ {"severity"} : v[l] = g[l]
    BY ONLY <1>4, <2>3, <2>5, <2>7
  <2>10. Alike(u, v)
    <3>1. ASSUME NEW l \in Steady PROVE u[l] = v[l]
      <4>1. CASE l = "severity"
        BY <2>8, <2>9, <4>1
      <4>2. CASE l # "severity"
        BY <1>3, <2>3, <2>8, <2>9, <3>1, <4>2
      <4> QED BY <4>1, <4>2
    <3> QED BY <2>8, <2>9, <3>1 DEF Alike
  <2>11. v.source = g.source
    BY <2>9 DEF EvidenceFields
  <2> QED BY <1>2, <2>1, <2>2, <2>6, <2>10, <2>11
<1>6. ASSUME NEW k \in DOMAIN x \ DOMAIN y PROVE DOMAIN x[k] = EvidenceFields /\ x[k].source = "imported"
  <2>1. k \in DOMAIN p /\ DOMAIN p[k] = EvidenceFields /\ p[k].source = "imported"
    BY <1>2 DEF Longer
  <2>2. PICK f : f = p[k]
    OBVIOUS
  <2>3. PICK s : s = IF SeverityRank(f.severity) > SeverityRank(MaxSeverityForConfidence(f.confidence))
                     THEN MaxSeverityForConfidence(f.confidence) ELSE f.severity
    OBVIOUS
  <2>4. PICK u : u = x[k]
    OBVIOUS
  <2>5. u = EnforceSeverityConsistency(f)
    BY <2>1, <2>2, <2>4 DEF Consistently
  <2>6. DOMAIN u = EvidenceFields /\ \A l \in EvidenceFields \ {"severity"} : u[l] = f[l]
    BY <1>4, <2>1, <2>2, <2>3, <2>5
  <2>7. u.source = f.source
    BY <2>6 DEF EvidenceFields
  <2> QED BY <2>1, <2>2, <2>4, <2>6, <2>7
<1> QED BY <1>2, <1>5, <1>6 DEF Longer

(* Documents that are not imported add nothing.                             *)
LEMMA GatheredNone ==
  ASSUME NEW r \in Seq(Native)
  PROVE  Gathered(r, {}) = r
<1>1. PICK n \in Nat : DOMAIN Documents = 1 .. n
  BY EmittersAssumption, ListShape DEF IsList
<1>2. PICK docs : docs = [d \in DOMAIN Documents |-> IF d \in {} THEN Normalize(Documents[d]) ELSE << >>]
  OBVIOUS
<1>3. docs \in Seq(Seq({}))
  <2>1. \A d \in 1 .. n : docs[d] \in Seq({})
    BY <1>1, <1>2
  <2> QED BY <1>1, <1>2, <2>1
<1>4. Imported({}) = FlattenSeq(docs)
  BY <1>2, Zenon DEF Imported
<1>5. PICK m : m = Imported({})
  OBVIOUS
<1>6. m \in Seq({})
  BY <1>3, <1>4, <1>5, FlattenType
<1>7. Len(m) = 0
  <2>1. Len(m) \in Nat /\ DOMAIN m = 1 .. Len(m) /\ \A i \in DOMAIN m : m[i] \in {}
    BY <1>6
  <2>2. 1 \notin DOMAIN m
    BY <2>1
  <2> QED BY <2>1, <2>2
<1>8. m = << >>
  BY <1>6, <1>7, NoneLeft
<1> QED BY <1>5, <1>8 DEF Gathered

(* What the stages group, and that nothing of it is filled in yet.          *)
LEMMA CollapsedMembers ==
  ASSUME NEW c, IsList(c), \A e \in Range(c) : Sound(e), NEW p, p = Projected(c),
         NEW d, d = CollapseDuplicateLocations(p)
  PROVE  IsList(d) /\ \A j \in DOMAIN d : Member(d[j])
<1>1. IsList(p) /\ DOMAIN p = DOMAIN c /\ \A i \in DOMAIN c : Projection(p[i], c[i])
  BY ProjectedShape
<1>2. {"text", "at", "source", "affected"} \subseteq Public \ {"severity"}
  BY DEF Public, EvidenceFields, Internal
<1>3. ASSUME NEW i \in DOMAIN p
      PROVE  /\ DOMAIN p[i] = EvidenceFields /\ p[i].text \in Nat /\ p[i].at.n \in Nat /\ p[i].source \in Sources
             /\ p[i].affected = {} /\ \A k \in Internal : p[i][k] = Blank[k]
  <2>1. PICK x, e : x = p[i] /\ e = c[i]
    OBVIOUS
  <2>2. Projection(x, e) /\ Sound(e)
    BY <1>1, <2>1 DEF Range
  <2>3. DOMAIN x = EvidenceFields /\ \A k \in Internal : x[k] = Blank[k]
    BY <2>2 DEF Projection
  <2>4. x.text = e.text /\ x.at = e.at /\ x.source = e.source /\ x.affected = e.affected
    BY <1>2, <2>2 DEF Projection
  <2>5. e.text \in Nat /\ e.at.n \in Nat /\ e.source \in Sources /\ e.affected = {}
    BY <2>2 DEF Sound, IsLocation
  <2> QED BY <2>1, <2>3, <2>4, <2>5
<1>4. IsList(d) /\ \A x \in Range(d) : \E i \in DOMAIN p : ButRefs(x, p[i])
  BY <1>1, <1>3, CollapsedShape
<1>5. ASSUME NEW j \in DOMAIN d PROVE Member(d[j])
  <2>1. PICK x : x = d[j]
    OBVIOUS
  <2>2. PICK i \in DOMAIN p : ButRefs(x, p[i])
    BY <1>4, <2>1 DEF Range
  <2>3. DOMAIN x = EvidenceFields /\ \A k \in EvidenceFields \ {"refs"} : x[k] = p[i][k]
    BY <1>3, <2>2 DEF ButRefs
  <2>4. x.source = p[i].source /\ x.affected = p[i].affected
    BY <2>3 DEF EvidenceFields
  <2>5. Internal \subseteq EvidenceFields \ {"refs"}
    BY DEF Internal, EvidenceFields
  <2>6. Bare(x)
    BY <1>3, <2>3, <2>5 DEF Bare
  <2> QED BY <1>3, <2>1, <2>3, <2>4, <2>6 DEF Member
<1> QED BY <1>4, <1>5

(* A scan with an import and the same one without, stage by stage.          *)
LEMMA ImportsLengthen ==
  ASSUME NEW r \in Seq(Native), NEW F, NEW x, x = Crossed(r, F), NEW y, y = Crossed(r, {})
  PROVE  /\ IsList(x) /\ IsList(y) /\ (\A e \in Range(x) : Sound(e)) /\ (\A e \in Range(y) : Sound(e))
         /\ AddsTwins(x, y, r, F)
         /\ Longer(Consistently(Grouped(x)), Consistently(Grouped(y)))
<1>1. PICK s : s = Gathered(r, F)
  OBVIOUS
<1>2. IsList(s) /\ \A e \in Range(s) : Sound(e) /\ e.source # "correlated"
  BY <1>1, GatheredShape
<1>3. PICK t : t = Gathered(r, {})
  OBVIOUS
<1>4. IsList(t) /\ \A e \in Range(t) : Sound(e) /\ e.source # "correlated"
  BY <1>3, GatheredShape
<1>5. t = r
  BY <1>3, GatheredNone
<1>6. PICK a, b : a = CorrelateEvidence(s) /\ b = CorrelateEvidence(t)
  OBVIOUS
<1>7. IsList(a) /\ (\A e \in Range(a) : Sound(e)) /\ IsList(b) /\ (\A e \in Range(b) : Sound(e))
  <2>1. IsList(a) /\ \A e \in Range(a) : Sound(e)
    BY <1>2, <1>6, CorrelatedShape
  <2>2. IsList(b) /\ \A e \in Range(b) : Sound(e)
    BY <1>4, <1>6, CorrelatedShape
  <2> QED BY <2>1, <2>2
<1>8. AddsImports(a, b, r, F)
  BY <1>1, <1>5, <1>6, CorrelatedAdds
<1>9. x = CorrelateCrossTool(a) /\ y = CorrelateCrossTool(b)
  BY <1>1, <1>3, <1>6 DEF Crossed
<1>10. AddsTwins(x, y, r, F)
  BY <1>7, <1>8, <1>9, CrossedAdds
<1>11. IsList(x) /\ (\A e \in Range(x) : Sound(e)) /\ IsList(y) /\ (\A e \in Range(y) : Sound(e))
  <2>1. IsList(x) /\ \A e \in Range(x) : Sound(e)
    BY <1>7, <1>9, CrossedShape
  <2>2. IsList(y) /\ \A e \in Range(y) : Sound(e)
    BY <1>7, <1>9, CrossedShape
  <2> QED BY <2>1, <2>2
<1>12. PICK p, q : p = Projected(x) /\ q = Projected(y)
  OBVIOUS
<1>13. Longer(p, q)
  BY <1>10, <1>11, <1>12, ProjectedLonger
<1>14. PICK d, e : d = CollapseDuplicateLocations(p) /\ e = CollapseDuplicateLocations(q)
  OBVIOUS
<1>15. Longer(d, e)
  BY <1>13, <1>14, CollapsedLonger
<1>16. \A j \in DOMAIN d : Member(d[j])
  BY <1>11, <1>12, <1>14, CollapsedMembers
<1>17. PICK g, h : g = Deduplicate(d) /\ h = Deduplicate(e)
  OBVIOUS
<1>18. Longer(g, h)
  BY <1>15, <1>16, <1>17, GroupedLonger
<1>19. g = Grouped(x) /\ h = Grouped(y)
  BY <1>12, <1>14, <1>17 DEF Grouped
<1>20. Longer(Consistently(g), Consistently(h))
  BY <1>18, CappedLonger
<1> QED BY <1>10, <1>11, <1>19, <1>20

(* What the index gives back to a finding that no tool corroborates, at     *)
(* places only native evidence is at, does not depend on the import.        *)
ButLists == EvidenceFields \ {"refs"}
LEMMA SameRestored ==
  ASSUME NEW r, NEW F, NEW x, NEW y, AddsTwins(x, y, r, F), IsList(x), \A e \in Range(x) : Sound(e),
         NEW one, one = Range(x), NEW two, two = Range(y),
         \A e \in Range(Imported(F)) : \A n \in Range(r) : Identity(n) # Identity(e),
         NEW f, DOMAIN f = EvidenceFields, Bare(f), IsFiniteSet(Places(f)),
         \A l \in Places(f) : \E n \in Range(r) : Identity(n) = <<f.category, l, f.title>>,
         NEW g, Bare(g), Alike(f, g),
         NEW u, u = Restored(one, f), ~u.crossTool, NEW v, v = Restored(two, g)
  PROVE  DOMAIN u = EvidenceFields /\ DOMAIN v = EvidenceFields /\ \A k \in ButLists : u[k] = v[k]
<1>1. {"category", "title", "at", "affected"} \subseteq Steady
  BY DEF Steady, EvidenceFields
<1>2. f.category = g.category /\ f.title = g.title /\ f.at = g.at /\ f.affected = g.affected /\ DOMAIN g = EvidenceFields
  BY <1>1 DEF Alike
<1>3. IsFiniteSet(one)
  <2>1. PICK m \in Nat : DOMAIN x = 1 .. m
    BY ListShape
  <2>2. IsFiniteSet(1 .. m) /\ one = {x[i] : i \in 1 .. m}
    BY <2>1, FS_Interval DEF Range
  <2> QED BY <2>2, ImageFinite
<1>4. Gives(u, Own(one, f)) /\ DOMAIN u = EvidenceFields
  BY <1>3, RestoredShape
<1>5. \A e \in Own(one, f) : e.tools = {}
  BY <1>4 DEF Gives
<1>6. ASSUME NEW l \in Places(f), NEW id, id = <<f.category, l, f.title>>
      PROVE  IndexAt(one, id) = IndexAt(two, id)
  <2>1. PICK X, Y : X = {e \in one : Identity(e) = id} /\ Y = {e \in two : Identity(e) = id}
    OBVIOUS
  <2>2. X \subseteq Own(one, f)
    BY <1>6, <2>1 DEF Own
  <2>3. ASSUME NEW n \in DOMAIN y
        PROVE  /\ x[n] \in X <=> y[n] \in Y
               /\ x[n] \in X => Provenance(x[n]) = Provenance(y[n])
    <3>1. PICK e, d : e = x[n] /\ d = y[n]
      OBVIOUS
    <3>2. Twin(e, d) /\ e \in one /\ d \in two
      BY <3>1 DEF AddsTwins, Range
    <3>3. e.category = d.category /\ e.title = d.title /\ e.at = d.at
      BY <1>1, <3>2 DEF Twin, Alike
    <3>4. Identity(e) = Identity(d)
      BY <3>3 DEF Identity
    <3>5. ASSUME e \in X PROVE Provenance(e) = Provenance(d)
      <4>1. e.tools = {}
        BY <1>5, <2>2, <3>5
      <4>2. e.crossTool = d.crossTool /\ d.tools = {}
        BY <3>2, <4>1 DEF Twin
      <4>3. DOMAIN NoProvenance \ {"crossTool", "tools"} \subseteq Steady /\ "inTest" \in Steady
        BY DEF NoProvenance, Steady, EvidenceFields
      <4>4. \A k \in DOMAIN NoProvenance : e[k] = d[k]
        BY <3>2, <4>1, <4>2, <4>3 DEF Twin, Alike
      <4>5. e.inTest = d.inTest
        BY <3>2, <4>3 DEF Twin, Alike
      <4>6. PICK b : b = (e.inTest \/ IsTestPath(e.at))
        OBVIOUS
      <4>7. b = (d.inTest \/ IsTestPath(d.at))
        BY <3>3, <4>5, <4>6
      <4>8. Provenance(e) = [k \in DOMAIN NoProvenance |-> IF k = "inTest" THEN b ELSE e[k]]
        BY <4>6, Zenon DEF Provenance
      <4>9. Provenance(d) = [k \in DOMAIN NoProvenance |-> IF k = "inTest" THEN b ELSE d[k]]
        BY <4>7, Zenon DEF Provenance
      <4> QED BY <4>4, <4>8, <4>9
    <3> QED BY <2>1, <3>1, <3>2, <3>4, <3>5
  <2>4. ASSUME NEW e \in X PROVE \E n \in DOMAIN y : e = x[n]
    <3>1. PICK n \in DOMAIN x : e = x[n]
      BY <2>1 DEF Range
    <3>2. ASSUME n \notin DOMAIN y PROVE FALSE
      <4>1. NamedBy(e, Range(Imported(F)))
        BY <3>1, <3>2 DEF AddsTwins
      <4>2. PICK m \in Range(Imported(F)) : Identity(e) = Identity(m)
        BY <4>1 DEF NamedBy
      <4>3. PICK h \in Range(r) : Identity(h) = id
        BY <1>6
      <4> QED BY <2>1, <4>2, <4>3
    <3> QED BY <3>1, <3>2
  <2>5. \A e \in Y : \E n \in DOMAIN y : e = y[n]
    BY <2>1 DEF Range
  <2>6. {Provenance(e) : e \in X} = {Provenance(e) : e \in Y}
    <3>1. ASSUME NEW e \in X PROVE \E d \in Y : Provenance(e) = Provenance(d)
      <4>1. PICK n \in DOMAIN y : e = x[n]
        BY <2>4
      <4> QED BY <2>3, <4>1
    <3>2. ASSUME NEW d \in Y PROVE \E e \in X : Provenance(e) = Provenance(d)
      <4>1. PICK n \in DOMAIN y : d = y[n]
        BY <2>5
      <4> QED BY <2>3, <4>1
    <3> QED BY <3>1, <3>2
  <2>7. IndexAt(one, id) = MergeAll({Provenance(e) : e \in X}) /\ IndexAt(two, id) = MergeAll({Provenance(e) : e \in Y})
    BY <2>1, Zenon DEF IndexAt
  <2> QED BY <2>6, <2>7
<1>7. Places(g) = Places(f)
  BY <1>2 DEF Places
<1>8. PICK m : m = Lookup(one, f)
  OBVIOUS
<1>9. Lookup(two, g) = m
  <2>1. PICK A, B : /\ A = {IndexAt(one, <<f.category, l, f.title>>) : l \in Places(f)}
                    /\ B = {IndexAt(two, <<g.category, l, g.title>>) : l \in Places(g)}
    OBVIOUS
  <2>2. A = B
    BY <1>2, <1>6, <1>7, <2>1
  <2>3. Lookup(one, f) = MergeAll(A)
    BY <2>1, Zenon DEF Lookup, Places
  <2>4. Lookup(two, g) = MergeAll(B)
    BY <2>1, Zenon DEF Lookup, Places
  <2> QED BY <1>8, <2>2, <2>3, <2>4
<1>10. u = [k \in EvidenceFields |-> IF k \in DOMAIN m /\ f[k] = NoProvenance[k] THEN m[k] ELSE f[k]]
  BY <1>8, Zenon DEF Restored
<1>11. v = [k \in EvidenceFields |-> IF k \in DOMAIN m /\ g[k] = NoProvenance[k] THEN m[k] ELSE g[k]]
  BY <1>2, <1>9, Zenon DEF Restored
<1>12. \A k \in ButLists : f[k] = g[k]
  <2>1. \A k \in Internal : f[k] = g[k]
    BY DEF Bare
  <2>2. ButLists \subseteq Steady \cup Internal
    BY DEF ButLists, Steady, Internal, EvidenceFields
  <2> QED BY <2>1, <2>2 DEF Alike
<1>13. ButLists \subseteq EvidenceFields
  BY DEF ButLists
<1> QED BY <1>10, <1>11, <1>12, <1>13

(* The chain, the route and the references of a finding do not decide it.   *)
LEMMA SameDecision ==
  ASSUME NEW x, NEW y, DOMAIN x = EvidenceFields, DOMAIN y = EvidenceFields,
         \A k \in ButLists \ {"chain", "route"} : x[k] = y[k],
         NEW failOn, NEW o
  PROVE  DecideWithOptions(x, failOn, o) = DecideWithOptions(y, failOn, o)
<1>1. /\ x.source = y.source /\ x.category = y.category /\ x.severity = y.severity /\ x.confidence = y.confidence
      /\ x.tier = y.tier /\ x.reachable = y.reachable /\ x.provenPath = y.provenPath
      /\ x.routeConfirmed = y.routeConfirmed /\ x.probe = y.probe /\ x.context = y.context /\ x.inTest = y.inTest
      /\ x.direct = y.direct /\ x.unconfirmed = y.unconfirmed /\ x.placeholder = y.placeholder
      /\ x.anchored = y.anchored /\ x.notImported = y.notImported /\ x.applicability = y.applicability
      /\ x.auth = y.auth /\ x.crossTool = y.crossTool
  BY DEF ButLists, EvidenceFields
<1>2. HasDeterministicDetection(x) = HasDeterministicDetection(y)
  BY <1>1 DEF HasDeterministicDetection, HasStatic
<1>3. ScoreTerms(x) = ScoreTerms(y)
  <2>1. HasStatic(x) = HasStatic(y) /\ HasRuntime(x) = HasRuntime(y)
    BY <1>1 DEF HasStatic, HasRuntime
  <2> QED BY <1>1, <1>2, <2>1, SMT DEF ScoreTerms
<1>4. Score(x) = Score(y)
  BY <1>3, Zenon DEF Score
<1>5. Independent(x) = Independent(y)
  BY <1>1, Zenon DEF Independent
<1>6. SelfEvident(x) = SelfEvident(y)
  BY <1>1, <1>2, Zenon DEF SelfEvident
<1>7. Corroborated(x) = Corroborated(y)
  BY <1>5, <1>6 DEF Corroborated
<1>8. ApplyConfidenceGate(x) = ApplyConfidenceGate(y)
  BY <1>1, <1>4, <1>5, <1>7, Zenon DEF ApplyConfidenceGate
<1>9. AboveThreshold(x, failOn) = AboveThreshold(y, failOn)
  BY <1>1 DEF AboveThreshold
<1>10. Decide0(x, failOn, o) = Decide0(y, failOn, o)
  BY <1>1, <1>8, <1>9, Zenon DEF Decide0
<1>11. ApplicabilityOf(x) = ApplicabilityOf(y)
  BY <1>1 DEF ApplicabilityOf
<1>12. \A d : ApplyApplicabilityGate(d, x, o) = ApplyApplicabilityGate(d, y, o)
  BY <1>1, <1>11, Zenon DEF ApplyApplicabilityGate
<1>13. FixtureCorroborated(x) = FixtureCorroborated(y)
  BY <1>1 DEF FixtureCorroborated
<1>14. \A d : DeescalateTests(d, x) = DeescalateTests(d, y)
  BY <1>5, <1>13, Zenon DEF DeescalateTests
<1> QED BY <1>1, <1>10, <1>12, <1>14, Zenon DEF DecideWithOptions

(* A finding that is not decided yet is bare, at finitely many places.      *)
LEMMA BareFindings ==
  ASSUME NEW c, IsList(c), \A e \in Range(c) : Sound(e), NEW p, p = Consistently(Grouped(c)), NEW i \in DOMAIN p
  PROVE  DOMAIN p[i] = EvidenceFields /\ Bare(p[i]) /\ IsFiniteSet(Places(p[i]))
<1>1. PICK g : g = Grouped(c)
  OBVIOUS
<1>2. \A f \in Range(g) : Bare(f) /\ \E es \in SUBSET Range(c) : Keeps(f, es)
  BY <1>1, GroupedFacts
<1>3. i \in DOMAIN g /\ p[i] = EnforceSeverityConsistency(g[i])
  BY <1>1 DEF Consistently
<1>4. PICK f : f = g[i]
  OBVIOUS
<1>5. Bare(f) /\ \E es \in SUBSET Range(c) : Keeps(f, es)
  BY <1>2, <1>3, <1>4 DEF Range
<1>6. DOMAIN f = EvidenceFields /\ f.severity \in Severities /\ f.confidence \in Confidences
  BY <1>5 DEF Keeps
<1>7. PICK h : h = EnforceSeverityConsistency(f)
  OBVIOUS
<1>8. DOMAIN h = EvidenceFields /\ \A k \in EvidenceFields \ {"severity"} : h[k] = f[k]
  BY <1>6, <1>7, CappedShape
<1>9. Bare(h)
  BY <1>5, <1>8 DEF Bare, Internal, EvidenceFields
<1>10. IsFiniteSet(Places(h))
  <2>1. PICK es \in SUBSET Range(c) : Keeps(f, es)
    BY <1>5
  <2>2. IsFiniteSet(es)
    <3>1. PICK m \in Nat : DOMAIN c = 1 .. m
      BY ListShape
    <3>2. IsFiniteSet(1 .. m) /\ Range(c) = {c[j] : j \in 1 .. m}
      BY <3>1, FS_Interval DEF Range
    <3>3. IsFiniteSet(Range(c))
      BY <3>2, ImageFinite
    <3> QED BY <3>3, FS_Subset
  <2>3. PICK at : at = [e \in es |-> e.at]
    OBVIOUS
  <2>4. h.at = f.at /\ h.affected = f.affected
    BY <1>8 DEF EvidenceFields
  <2>5. Places(h) = {at[e] : e \in es}
    BY <2>1, <2>3, <2>4 DEF Keeps, Places
  <2> QED BY <2>2, <2>5, ImageFinite
<1> QED BY <1>3, <1>4, <1>7, <1>8, <1>9, <1>10

LEMMA PipelineStages ==
  ASSUME NEW r, NEW F, NEW out \in Pipeline(r, F), NEW c, c = Crossed(r, F)
  PROVE  out.index = Range(c) /\ out.findings = Consistently(Grouped(c))
<1> DEFINE C == {CorrelateCrossTool(e) : e \in {CorrelateEvidence(n) : n \in {r \o Imported(F)}}}
           G(d) == {Deduplicate(l) : l \in {CollapseDuplicateLocations(p) :
                      p \in {[i \in DOMAIN d |-> EscalateReachable(Published(d[i]))]}}}
           H(d, g) == [index |-> Range(d), findings |-> [i \in DOMAIN g |-> EnforceSeverityConsistency(g[i])]]
<1>1. Pipeline(r, F) = UNION {{H(d, g) : g \in G(d)} : d \in C}
  BY DEF Pipeline
<1>2. C = {c}
  BY DEF Crossed, Gathered
<1>3. G(c) = {Grouped(c)}
  BY DEF Grouped, Projected
<1>4. H(c, Grouped(c)) = [index |-> Range(c), findings |-> Consistently(Grouped(c))]
  BY DEF Consistently
<1> HIDE DEF C, G, H
<1>5. Pipeline(r, F) = {H(c, Grouped(c))}
  BY <1>1, <1>2, <1>3
<1> QED BY <1>4, <1>5

(* An import reaches the verdict on a native finding only through a tool    *)
(* that corroborates it (ImportsNeedAStrongMatch, crosstool.go, dedupKey's  *)
(* separate key space, provenance.go): the list of findings without the     *)
(* import is a prefix of the one with it, in all that decides.              *)
THEOREM ImportsAreHarmless == Spec => []ImportsNeedAStrongMatch
<1>1. ASSUME StageInv, AtExit, \A e \in Range(Imported(files)) : \A x \in Range(raw) : Identity(x) # Identity(e),
             NEW without \in Pipeline(raw, {}), NEW i \in DOMAIN evs, ~IsImport(evs[i]), ~evs[i].crossTool
      PROVE  \E f \in Restorations(without) :
               /\ <<f.severity, f.category, f.title>> = <<evs[i].severity, evs[i].category, evs[i].title>>
               /\ decisions[i] = DecideWithOptions(f, options.failOn, options)
  <2>1. PICK x, y : x = Crossed(raw, files) /\ y = Crossed(raw, {})
    OBVIOUS
  <2>2. /\ raw \in Seq(Native) /\ stamped = Range(x) /\ evs = Refilled(stamped, Consistently(Grouped(x)))
        /\ decisions[i] = DecideWithOptions(evs[i], options.failOn, options)
    BY <1>1, <2>1 DEF StageInv, AtExit
  <2>3. PICK p, q : p = Consistently(Grouped(x)) /\ q = Consistently(Grouped(y))
    OBVIOUS
  <2>4. /\ IsList(x) /\ (\A e \in Range(x) : Sound(e)) /\ IsList(y) /\ (\A e \in Range(y) : Sound(e))
        /\ AddsTwins(x, y, raw, files) /\ Longer(p, q)
    BY <2>1, <2>2, <2>3, ImportsLengthen
  <2>5. PICK one, two : one = Range(x) /\ two = Range(y)
    OBVIOUS
  <2>6. without.index = two /\ without.findings = q
    BY <2>1, <2>3, <2>5, PipelineStages
  <2>7. PICK f : f = p[i]
    OBVIOUS
  <2>8. PICK u : u = evs[i]
    OBVIOUS
  <2>9. i \in DOMAIN p /\ u = Restored(one, f)
    BY <1>1, <2>2, <2>3, <2>5, <2>7, <2>8 DEF Refilled
  <2>10. DOMAIN f = EvidenceFields /\ Bare(f) /\ IsFiniteSet(Places(f))
    BY <2>3, <2>4, <2>7, <2>9, BareFindings
  <2>11. PICK es \in SUBSET one : Decided(u, es, one)
    <3>1. \A z \in Range(evs) : \E es \in SUBSET stamped : Decided(z, es, stamped)
      BY <1>1, <2>1, AtTheExit
    <3> QED BY <1>1, <2>2, <2>5, <2>8, <3>1 DEF Range
  <2>12. Keeps(u, es) /\ Places(u) = {e.at : e \in es}
    BY <2>11 DEF Decided, Keeps
  <2>13. IsFiniteSet(one)
    <3>1. PICK m \in Nat : DOMAIN x = 1 .. m
      BY <2>4, ListShape
    <3>2. IsFiniteSet(1 .. m) /\ one = {x[j] : j \in 1 .. m}
      BY <2>5, <3>1, FS_Interval DEF Range
    <3> QED BY <3>2, ImageFinite
  <2>14. /\ u.at = f.at /\ u.affected = f.affected /\ u.category = f.category /\ u.title = f.title
         /\ u.severity = f.severity /\ u.source = f.source /\ DOMAIN u = EvidenceFields
    <3>1. \A e \in one : Sound(e)
      BY <2>4, <2>5
    <3>2. DOMAIN u = EvidenceFields /\ \A k \in EvidenceFields \ DOMAIN NoProvenance : u[k] = f[k]
      BY <2>9, <2>10, <2>13, <3>1, RestoredShape
    <3>3. {"at", "affected", "category", "title", "severity", "source"} \subseteq EvidenceFields \ DOMAIN NoProvenance
      BY DEF EvidenceFields, NoProvenance
    <3> QED BY <3>2, <3>3
  <2>15. Places(f) = Places(u)
    BY <2>14 DEF Places
  <2>16. ASSUME NEW l \in Places(f) PROVE \E n \in Range(raw) : Identity(n) = <<f.category, l, f.title>>
    <3>1. PICK e \in es : e.at = l
      BY <2>12, <2>15, <2>16
    <3>2. u.category = e.category /\ u.title = e.title /\ e.source # "imported"
      <4>1. u.category = e.category /\ u.title = e.title /\ ((u.source = "imported") <=> (e.source = "imported"))
        BY <2>12, <3>1 DEF Keeps
      <4>2. u.source # "imported"
        BY <1>1, <2>8 DEF IsImport
      <4> QED BY <4>1, <4>2
    <3>3. PICK n \in DOMAIN x : e = x[n]
      BY <2>5, <3>1 DEF Range
    <3>4. n \in DOMAIN y /\ Alike(x[n], y[n]) /\ NamedBy(y[n], Range(raw))
      BY <2>4, <3>2, <3>3 DEF AddsTwins, Twin
    <3>5. {"category", "title", "at"} \subseteq Steady
      BY DEF Steady, EvidenceFields
    <3>6. Identity(y[n]) = <<f.category, l, f.title>>
      <4>1. x[n].category = y[n].category /\ x[n].title = y[n].title /\ x[n].at = y[n].at
        BY <3>4, <3>5 DEF Alike
      <4> QED BY <2>14, <3>1, <3>2, <3>3, <4>1 DEF Identity
    <3>7. PICK h \in Range(raw) : Identity(y[n]) = Identity(h)
      BY <3>4 DEF NamedBy
    <3> QED BY <3>6, <3>7
  <2>17. i \in DOMAIN q
    <3>1. u.source # "imported"
      BY <1>1, <2>8 DEF IsImport
    <3> QED BY <2>4, <2>7, <2>9, <2>14, <3>1 DEF Longer
  <2>18. PICK g : g = q[i]
    OBVIOUS
  <2>19. Alike(f, g)
    BY <2>4, <2>7, <2>17, <2>18 DEF Longer
  <2>20. Bare(g)
    BY <2>3, <2>4, <2>17, <2>18, BareFindings
  <2>21. PICK v : v = Restored(two, g)
    OBVIOUS
  <2>22. ~u.crossTool
    BY <1>1, <2>8
  <2>23. DOMAIN v = EvidenceFields /\ \A k \in ButLists : u[k] = v[k]
    BY ONLY <1>1, <2>4, <2>5, <2>9, <2>10, <2>13, <2>15, <2>16, <2>19, <2>20, <2>21, <2>22, SameRestored
  <2>24. v \in Restorations(without)
    BY <2>6, <2>17, <2>18, <2>21 DEF Restorations, Range
  <2>25. v.severity = u.severity /\ v.category = u.category /\ v.title = u.title
    BY <2>23 DEF ButLists, EvidenceFields
  <2>26. DecideWithOptions(u, options.failOn, options) = DecideWithOptions(v, options.failOn, options)
    BY <2>14, <2>23, SameDecision
  <2> QED BY <2>2, <2>8, <2>24, <2>25, <2>26
<1>2. StageInv => ImportsNeedAStrongMatch
  BY <1>1 DEF ImportsNeedAStrongMatch
<1> QED BY <1>2, StageInvHolds, PTL

-----------------------------------------------------------------------------
(* --- the order evidence arrives in --------------------------------------- *)
(* Two findings a user and the gates read the same.                         *)
Told == EvidenceFields \ {"chain", "route", "refs"}
Same(x, y) == DOMAIN x = EvidenceFields /\ DOMAIN y = EvidenceFields /\ \A k \in Told : x[k] = y[k]
Within(a, b) == IsList(a) /\ IsList(b) /\ \A x \in Range(a) : \E y \in Range(b) : Same(x, y)
Equal(a, b) == Within(a, b) /\ Within(b, a)

(* What corroboration makes of one of a set of stamped evidence, and which  *)
(* of it another represents.                                                *)
Beside(e, S) == {f \in S : Strong(e, f)}
Seen(x, e, S) ==
  /\ DOMAIN x = EvidenceFields
  /\ \A k \in EvidenceFields \ {"crossTool", "tools", "refs"} : x[k] = e[k]
  /\ x.crossTool = (e.crossTool \/ Beside(e, S) # {})
  /\ x.tools = IF Beside(e, S) = {} THEN e.tools ELSE {f.tool : f \in Beside(e, S)}
Represented(e, S) == e.source = "imported" /\ \E f \in S : f.source # "imported" /\ Strong(e, f)

Meeting(s, i, S) ==
  /\ s[i] \in S
  /\ Partners(s, i) = {} <=> Beside(s[i], S) = {}
  /\ {s[j].tool : j \in Partners(s, i)} = {f.tool : f \in Beside(s[i], S)}
  /\ NativePartners(s, i) # {} <=> Represented(s[i], S)

LEMMA SeenExactly ==
  ASSUME NEW c, IsList(c), \A e \in Range(c) : Sound(e), NEW S, S = Range(Stamped(c)), NEW o, o = CorrelateCrossTool(c)
  PROVE  /\ IsList(o) /\ \A x \in Range(o) : \E e \in S : ~Represented(e, S) /\ Seen(x, e, S)
         /\ \A e \in S : ~Represented(e, S) => \E x \in Range(o) : Seen(x, e, S)
<1>1. PICK n \in Nat : DOMAIN c = 1 .. n
  BY ListShape
<1>2. PICK s : s = Stamped(c)
  OBVIOUS
<1>3. DOMAIN s = 1 .. n /\ S = Range(s)
  BY <1>1, <1>2 DEF Stamped
<1>4. ASSUME NEW i \in 1 .. n PROVE DOMAIN s[i] = EvidenceFields
  <2>1. Sound(c[i])
    BY <1>1 DEF Range
  <2>2. PICK x : x = StampToolID(StampWeakness(c[i]))
    OBVIOUS
  <2>3. Sound(x)
    BY <2>1, <2>2, StampedOne
  <2>4. s[i] = IF HasSource(c, "imported") THEN x ELSE c[i]
    BY <1>1, <1>2, <2>2 DEF Stamped
  <2> QED BY <2>1, <2>3, <2>4 DEF Sound
<1>5. ASSUME NEW i \in 1 .. n PROVE Meeting(s, i, S)
  <2> PICK e, P : e = s[i] /\ P = {f \in S : Strong(e, f)}
    OBVIOUS
  <2>1. e \in S /\ \A j \in 1 .. n : s[j] \in S
    BY <1>3, <1>5 DEF Range
  <2>2. \A j \in Partners(s, i) : j \in 1 .. n /\ s[j] \in P
    BY <1>3, <1>5, <2>1 DEF Partners
  <2>3. ASSUME NEW f \in P PROVE \E j \in Partners(s, i) : f = s[j]
    <3>1. PICK j \in 1 .. n : f = s[j]
      BY <1>3, <1>5 DEF Range
    <3>2. Strong(s[i], s[j])
      BY <1>5, <3>1
    <3>3. s[i].tool # s[j].tool
      BY <3>2 DEF Strong
    <3>4. i # j
      BY <3>3
    <3> QED BY <1>3, <3>1, <3>2, <3>4 DEF Partners
  <2>4. NativePartners(s, i) # {} <=> Represented(e, S)
    <3>1. ASSUME Represented(e, S) PROVE NativePartners(s, i) # {}
      <4>1. PICK f \in P : f.source # "imported"
        BY <1>5, <3>1 DEF Represented
      <4>2. PICK j \in Partners(s, i) : f = s[j]
        BY <2>3, <4>1
      <4>3. s[i].source = "imported"
        BY <1>5, <3>1 DEF Represented
      <4> QED BY <4>1, <4>2, <4>3 DEF NativePartners
    <3>2. ASSUME NativePartners(s, i) # {} PROVE Represented(e, S)
      <4>1. s[i].source = "imported" /\ \E j \in Partners(s, i) : s[j].source # "imported"
        BY <3>2 DEF NativePartners
      <4>2. PICK j \in Partners(s, i) : s[j].source # "imported"
        BY <4>1
      <4>3. s[j] \in S /\ Strong(e, s[j])
        BY <1>5, <2>2
      <4> QED BY <1>5, <4>1, <4>2, <4>3 DEF Represented
    <3> QED BY <3>1, <3>2
  <2>5. Partners(s, i) = {} <=> P = {}
    BY <2>2, <2>3
  <2>6. {s[j].tool : j \in Partners(s, i)} = {f.tool : f \in P}
    BY <2>2, <2>3
  <2> QED BY <2>1, <2>4, <2>5, <2>6 DEF Meeting, Beside
<1>6. PICK dropped : dropped = {i \in DOMAIN s : NativePartners(s, i) # {}}
  OBVIOUS
<1> DEFINE refs(j) == UNION {s[i].refs : i \in {d \in dropped : Min(NativePartners(s, d)) = j}}
           seen(i) == [s[i] EXCEPT !.crossTool = @ \/ Partners(s, i) # {},
                              !.tools = IF Partners(s, i) = {} THEN @ ELSE {s[j].tool : j \in Partners(s, i)},
                              !.refs = @ \cup refs(i)]
           all == [i \in DOMAIN s |-> seen(i)]
<1>7. o = At(all, DOMAIN s \ dropped)
  BY <1>2, <1>6, ZenonT(40) DEF CorrelateCrossTool
<1>8. ASSUME NEW i \in 1 .. n, NEW x, x = seen(i) PROVE Seen(x, s[i], S)
  <2>1. PICK y : y = s[i]
    OBVIOUS
  <2>2. PICK P : P = Beside(y, S)
    OBVIOUS
  <2>3. (Partners(s, i) = {} <=> P = {}) /\ {s[j].tool : j \in Partners(s, i)} = {f.tool : f \in P}
    BY <1>5, <2>1, <2>2 DEF Meeting
  <2>4. PICK tools : tools = IF Partners(s, i) = {} THEN y.tools ELSE {s[j].tool : j \in Partners(s, i)}
    OBVIOUS
  <2>5. PICK all_refs : all_refs = y.refs \cup refs(i)
    OBVIOUS
  <2>6. PICK crossed : crossed = (y.crossTool \/ Partners(s, i) # {})
    OBVIOUS
  <2>7. x = [y EXCEPT !.crossTool = crossed, !.tools = tools, !.refs = all_refs]
    BY <1>8, <2>1, <2>4, <2>5, <2>6, Zenon
  <2>8. DOMAIN y = EvidenceFields
    BY <1>4, <2>1
  <2>9. /\ DOMAIN x = EvidenceFields /\ (\A k \in EvidenceFields \ {"crossTool", "tools", "refs"} : x[k] = y[k])
        /\ x.crossTool = crossed /\ x.tools = tools
    BY <2>7, <2>8 DEF EvidenceFields
  <2>10. tools = IF P = {} THEN y.tools ELSE {f.tool : f \in P}
    BY <2>3, <2>4
  <2>11. crossed = (y.crossTool \/ P # {})
    BY <2>3, <2>6, Zenon
  <2> QED BY <2>1, <2>2, <2>9, <2>10, <2>11, Zenon DEF Seen
<1> HIDE DEF seen
<1>9. IsList(all) /\ DOMAIN all = 1 .. n
  <2>1. all = [i \in 1 .. n |-> all[i]] /\ DOMAIN all = 1 .. n
    BY <1>3
  <2> HIDE DEF all
  <2> QED BY <2>1, ListOf
<1>10. \A i \in 1 .. n : Seen(all[i], s[i], S)
  BY <1>3, <1>8
<1> HIDE DEF all
<1>11. PICK I : I = DOMAIN s \ dropped
  OBVIOUS
<1>12. PICK f : f = all
  OBVIOUS
<1>13. IsList(f) /\ I \cap DOMAIN f = I /\ o = At(f, I)
  BY <1>3, <1>7, <1>9, <1>11, <1>12
<1>14. /\ IsList(At(f, I)) /\ \A i \in I \cap DOMAIN f : f[i] \in Range(At(f, I))
       /\ \A x \in Range(At(f, I)) : \E i \in I \cap DOMAIN f : x = f[i]
  BY <1>13, AtHolds
<1>15. \A i \in 1 .. n : s[i] \in S /\ (i \in I <=> ~Represented(s[i], S)) /\ Seen(f[i], s[i], S)
  <2> SUFFICES ASSUME NEW i \in 1 .. n PROVE s[i] \in S /\ (i \in I <=> ~Represented(s[i], S)) /\ Seen(f[i], s[i], S)
    OBVIOUS
  <2>1. PICK e : e = s[i]
    OBVIOUS
  <2>2. e \in S /\ (NativePartners(s, i) # {} <=> Represented(e, S))
    BY <1>5, <2>1 DEF Meeting
  <2> QED BY <1>3, <1>6, <1>10, <1>11, <1>12, <2>1, <2>2
<1>16. I \subseteq 1 .. n
  BY <1>3, <1>11
<1>17. ASSUME NEW e \in S, ~Represented(e, S) PROVE \E x \in Range(o) : Seen(x, e, S)
  <2>1. PICK i \in 1 .. n : e = s[i]
    BY <1>3 DEF Range
  <2> QED BY <1>13, <1>14, <1>15, <1>17, <2>1
<1>18. ASSUME NEW x \in Range(o) PROVE \E e \in S : ~Represented(e, S) /\ Seen(x, e, S)
  <2>1. PICK i \in I : x = f[i]
    BY <1>13, <1>14
  <2> QED BY <1>15, <1>16, <2>1
<1> QED BY <1>13, <1>14, <1>17, <1>18

(* Corroboration tells the same of the same evidence.                       *)
LEMMA SameCrossed ==
  ASSUME NEW c, IsList(c), \A e \in Range(c) : Sound(e), NEW d, IsList(d), Range(d) = Range(c),
         NEW o, o = CorrelateCrossTool(c), NEW q, q = CorrelateCrossTool(d)
  PROVE  Within(o, q)
<1>1. HasSource(c, "imported") <=> HasSource(d, "imported")
  BY DEF HasSource, Range
<1>2. Range(Stamped(c)) = Range(Stamped(d))
  <2>1. CASE HasSource(c, "imported")
    <3>1. Stamped(c) = [i \in DOMAIN c |-> StampToolID(StampWeakness(c[i]))]
      BY <2>1 DEF Stamped
    <3>2. Stamped(d) = [i \in DOMAIN d |-> StampToolID(StampWeakness(d[i]))]
      BY <1>1, <2>1 DEF Stamped
    <3>3. Range(Stamped(c)) = {StampToolID(StampWeakness(e)) : e \in Range(c)}
      BY <3>1 DEF Range
    <3>4. Range(Stamped(d)) = {StampToolID(StampWeakness(e)) : e \in Range(d)}
      BY <3>2 DEF Range
    <3> QED BY <3>3, <3>4
  <2>2. CASE ~HasSource(c, "imported")
    BY <1>1, <2>2 DEF Stamped
  <2> QED BY <2>1, <2>2
<1>3. PICK S : S = Range(Stamped(c)) /\ S = Range(Stamped(d))
  BY <1>2
<1>4. IsList(o) /\ \A x \in Range(o) : \E e \in S : ~Represented(e, S) /\ Seen(x, e, S)
  BY <1>3, SeenExactly
<1>5. IsList(q) /\ \A e \in S : ~Represented(e, S) => \E x \in Range(q) : Seen(x, e, S)
  BY <1>3, SeenExactly
<1>6. ASSUME NEW x, NEW y, NEW e, Seen(x, e, S), Seen(y, e, S) PROVE Same(x, y)
  BY <1>6 DEF Seen, Same, Told
<1>7. ASSUME NEW x \in Range(o) PROVE \E y \in Range(q) : Same(x, y)
  <2>1. PICK e \in S : ~Represented(e, S) /\ Seen(x, e, S)
    BY <1>4
  <2>2. PICK y \in Range(q) : Seen(y, e, S)
    BY <1>5, <2>1
  <2> QED BY <1>6, <2>1, <2>2
<1> QED BY <1>4, <1>5, <1>7 DEF Within

LEMMA SameParts ==
  ASSUME NEW x, NEW y, Same(x, y)
  PROVE  /\ x.source = y.source /\ x.category = y.category /\ x.title = y.title /\ x.at = y.at /\ x.tier = y.tier
         /\ x.severity = y.severity /\ x.confidence = y.confidence /\ x.text = y.text /\ x.affected = y.affected
         /\ x.reachable = y.reachable /\ x.provenPath = y.provenPath /\ x.routeConfirmed = y.routeConfirmed
         /\ x.inTest = y.inTest
         /\ \A k \in Internal : x[k] = y[k]
  BY DEF Same, Told, EvidenceFields, Internal

LEMMA SameProjection ==
  ASSUME NEW x, NEW y, DOMAIN x = EvidenceFields, DOMAIN y = EvidenceFields,
         \A k \in Public \ {"chain", "route", "refs"} : x[k] = y[k],
         NEW p, p = EscalateReachable(Published(x)), NEW q, q = EscalateReachable(Published(y))
  PROVE  Same(p, q)
<1>1. PICK u, v : u = Published(x) /\ v = Published(y)
  OBVIOUS
<1>2. /\ DOMAIN u = EvidenceFields /\ (\A k \in EvidenceFields \ Internal : u[k] = x[k]) /\ \A k \in Internal : u[k] = Blank[k]
      /\ DOMAIN v = EvidenceFields /\ (\A k \in EvidenceFields \ Internal : v[k] = y[k]) /\ \A k \in Internal : v[k] = Blank[k]
  BY <1>1, PublishedShape
<1>3. \A k \in Told : u[k] = v[k]
  BY <1>2 DEF Told, Public
<1>4. u.reachable = v.reachable /\ u.source = v.source /\ u.severity = v.severity
  BY <1>3 DEF Told, EvidenceFields
<1>5. PICK s : s = EscalateSeverity(u.severity)
  OBVIOUS
<1>6. p = IF u.reachable /\ u.source # "correlated" THEN [u EXCEPT !.severity = s] ELSE u
  BY <1>1, <1>5 DEF EscalateReachable
<1>7. q = IF u.reachable /\ u.source # "correlated" THEN [v EXCEPT !.severity = s] ELSE v
  BY <1>1, <1>4, <1>5 DEF EscalateReachable
<1>8. CASE u.reachable /\ u.source # "correlated"
  <2>1. p = [u EXCEPT !.severity = s] /\ q = [v EXCEPT !.severity = s]
    BY <1>6, <1>7, <1>8
  <2>2. \A k \in Told : p[k] = q[k]
    BY <1>2, <1>3, <2>1 DEF Told
  <2> QED BY <1>2, <2>1, <2>2 DEF Same
<1>9. CASE ~(u.reachable /\ u.source # "correlated")
  <2>1. p = u /\ q = v
    BY <1>6, <1>7, <1>9
  <2> QED BY <1>2, <1>3, <2>1 DEF Same
<1> QED BY <1>8, <1>9

LEMMA SameProjected ==
  ASSUME NEW a, NEW b, Within(a, b), \A e \in Range(a) : Sound(e), \A e \in Range(b) : Sound(e),
         NEW p, p = Projected(a), NEW q, q = Projected(b)
  PROVE  Within(p, q)
<1>1. IsList(a) /\ IsList(b) /\ \A x \in Range(a) : \E y \in Range(b) : Same(x, y)
  BY DEF Within
<1>2. IsList(p) /\ DOMAIN p = DOMAIN a
  BY <1>1, ProjectedShape
<1>3. IsList(q) /\ DOMAIN q = DOMAIN b
  BY <1>1, ProjectedShape
<1>4. ASSUME NEW x \in Range(p) PROVE \E y \in Range(q) : Same(x, y)
  <2>1. PICK i \in DOMAIN a : x = p[i]
    BY <1>2, <1>4 DEF Range
  <2>2. PICK e : e = a[i]
    OBVIOUS
  <2>3. e \in Range(a) /\ x = EscalateReachable(Published(e))
    BY <2>1, <2>2 DEF Range, Projected
  <2>4. PICK j \in DOMAIN b : Same(e, b[j])
    BY <1>1, <2>3 DEF Range
  <2>5. PICK f : f = b[j]
    OBVIOUS
  <2>6. PICK y : y = q[j]
    OBVIOUS
  <2>7. y \in Range(q) /\ y = EscalateReachable(Published(f))
    BY <1>3, <2>4, <2>5, <2>6 DEF Range, Projected
  <2>8. DOMAIN e = EvidenceFields /\ DOMAIN f = EvidenceFields /\ \A k \in Public \ {"chain", "route", "refs"} : e[k] = f[k]
    BY <2>4, <2>5 DEF Same, Told, Public
  <2>9. Same(x, y)
    BY <2>3, <2>7, <2>8, SameProjection
  <2> QED BY <2>7, <2>9
<1> QED BY <1>2, <1>3, <1>4 DEF Within

(* Whom a static finding collapses with.                                    *)
Crowded(p, i) == \E y \in DOMAIN p : Meet(p, y, i) /\ p[y].tier # p[i].tier
LEMMA GroupIs ==
  ASSUME NEW p, IsList(p), NEW i \in DOMAIN p
  PROVE  CollapseGroup(p, i) = IF Crowded(p, i) THEN {j \in DOMAIN p : Meet(p, j, i)} ELSE {i}
<1>1. PICK n \in Nat : DOMAIN p = 1 .. n
  BY ListShape
<1>2. PICK g : g = {j \in DOMAIN p : /\ p[i].source = "whitebox" /\ p[j].source = "whitebox"
                                     /\ p[j].category = p[i].category /\ p[j].at = p[i].at}
  OBVIOUS
<1>3. g = {j \in DOMAIN p : Meet(p, j, i)}
  BY <1>2 DEF Meet
<1>4. PICK tiers : tiers = {p[j].tier : j \in g}
  OBVIOUS
<1>5. CollapseGroup(p, i) = IF Cardinality(tiers) > 1 THEN g ELSE {i}
  BY <1>2, <1>4 DEF CollapseGroup
<1>6. IsFiniteSet(tiers)
  <2>1. IsFiniteSet(1 .. n) /\ g \in SUBSET (1 .. n)
    BY <1>1, <1>2, FS_Interval
  <2>2. IsFiniteSet(g)
    BY <2>1, FS_Subset
  <2>3. PICK h : h = [j \in g |-> p[j].tier]
    OBVIOUS
  <2>4. tiers = {h[j] : j \in g}
    BY <1>4, <2>3
  <2> QED BY <2>2, <2>4, ImageFinite
<1>7. CASE Crowded(p, i)
  <2>1. PICK y \in g : p[y].tier # p[i].tier
    BY <1>3, <1>7 DEF Crowded
  <2>2. i \in g
    BY <1>2, <2>1
  <2>3. PICK s, t : s = p[y].tier /\ t = p[i].tier
    OBVIOUS
  <2>4. s # t /\ {s, t} \in SUBSET tiers
    BY <1>4, <2>1, <2>2, <2>3
  <2>5. Cardinality({s, t}) <= Cardinality(tiers) /\ Cardinality(tiers) \in Nat
    BY <1>6, <2>4, FS_Subset, FS_CardinalityType
  <2>6. Cardinality({s, t}) = 2
    <3>1. IsFiniteSet({s}) /\ Cardinality({s}) = 1
      BY FS_Singleton
    <3>2. {s, t} = {s} \cup {t} /\ t \notin {s}
      BY <2>4
    <3>3. Cardinality({s} \cup {t}) = Cardinality({s}) + 1
      BY <3>1, <3>2, FS_AddElement
    <3> QED BY <3>1, <3>2, <3>3
  <2> QED BY <1>3, <1>5, <1>7, <2>5, <2>6
<1>8. CASE ~Crowded(p, i)
  <2>1. tiers \in SUBSET {p[i].tier}
    BY <1>3, <1>4, <1>8 DEF Crowded
  <2>2. PICK t : t = p[i].tier
    OBVIOUS
  <2>3. tiers = {} \/ tiers = {t}
    BY <2>1, <2>2
  <2>4. Cardinality(tiers) \in {0, 1}
    BY <2>3, FS_EmptySet, FS_Singleton
  <2> QED BY <1>5, <1>8, <2>4
<1> QED BY <1>7, <1>8

(* Static findings that neither comes before the other are told the same:   *)
(* which of them stands for the place does not matter.                      *)
Ties(q) == \A i, j \in DOMAIN q :
             Meet(q, i, j) /\ ~DuplicateLess(q[i], q[j]) /\ ~DuplicateLess(q[j], q[i]) => Same(q[i], q[j])
Ranked(p) == \A i \in DOMAIN p : DOMAIN p[i] = EvidenceFields /\ p[i].text \in Nat /\ p[i].at.n \in Nat
LEMMA SameCollapsed ==
  ASSUME NEW p, NEW q, Equal(p, q), Ranked(p), Ranked(q), Ties(q),
         NEW x, x = CollapseDuplicateLocations(p), NEW y, y = CollapseDuplicateLocations(q)
  PROVE  Within(x, y)
<1>1. /\ IsList(p) /\ (\A e \in Range(p) : \E f \in Range(q) : Same(e, f))
      /\ IsList(q) /\ (\A f \in Range(q) : \E e \in Range(p) : Same(f, e))
  BY DEF Equal, Within
<1>2. IsList(x) /\ \A e \in Range(x) : \E i \in DOMAIN p : ButRefs(e, p[i]) /\ Winner(p, i) = i
  BY <1>1, CollapsedShape DEF Ranked
<1>3. IsList(y) /\ \A j \in DOMAIN q : Winner(q, j) = j => \E f \in Range(y) : ButRefs(f, q[j])
  BY <1>1, CollapsedShape DEF Ranked
<1>4. ASSUME NEW i \in DOMAIN p, NEW j \in DOMAIN q, Same(p[i], q[j])
      PROVE  /\ p[i].source = q[j].source /\ p[i].category = q[j].category /\ p[i].at = q[j].at /\ p[i].tier = q[j].tier
             /\ p[i].severity = q[j].severity /\ p[i].text = q[j].text
  <2>1. PICK u, v : u = p[i] /\ v = q[j]
    OBVIOUS
  <2> QED BY <1>4, <2>1, SameParts
<1>5. \A i \in DOMAIN p : \E j \in DOMAIN q : Same(p[i], q[j])
  BY <1>1 DEF Range
<1>6. \A j \in DOMAIN q : \E i \in DOMAIN p : Same(p[i], q[j])
  BY <1>1 DEF Range, Same
<1>7. ASSUME NEW e \in Range(x) PROVE \E f \in Range(y) : Same(e, f)
  <2>1. PICK i \in DOMAIN p : ButRefs(e, p[i]) /\ Winner(p, i) = i
    BY <1>2
  <2>2. PICK j \in DOMAIN q : Same(p[i], q[j])
    BY <1>5
  <2>3. PICK w : w = Winner(q, j)
    OBVIOUS
  <2>4. /\ w \in DOMAIN q /\ Winner(q, w) = w
        /\ {j, w} \subseteq CollapseGroup(q, j) /\ \A k \in CollapseGroup(q, j) : ~DuplicateLess(q[k], q[w])
    BY <1>1, <2>3, WinnerStands DEF Ranked
  <2>5. \A k \in CollapseGroup(p, i) : ~DuplicateLess(p[k], p[i])
    BY <1>1, <2>1, WinnerStands DEF Ranked
  <2>6. Same(p[i], q[w])
    <3>1. CASE w = j
      BY <2>2, <3>1
    <3>2. CASE w # j
      <4>1. Crowded(q, j) /\ Meet(q, w, j)
        BY <1>1, <2>4, <3>2, GroupIs
      <4>2. PICK z \in DOMAIN q : Meet(q, z, j) /\ q[z].tier # q[j].tier
        BY <4>1 DEF Crowded
      <4>3. PICK m \in DOMAIN p : Same(p[m], q[z])
        BY <1>6
      <4>4. Crowded(p, i)
        BY <1>4, <2>2, <4>2, <4>3 DEF Crowded, Meet
      <4>5. PICK k \in DOMAIN p : Same(p[k], q[w])
        BY <1>6, <2>4
      <4>6. Meet(p, k, i)
        BY <1>4, <2>2, <2>4, <4>1, <4>5 DEF Meet
      <4>7. k \in CollapseGroup(p, i)
        BY <1>1, <4>4, <4>6, GroupIs
      <4>8. ~DuplicateLess(p[k], p[i])
        BY <2>5, <4>7
      <4>9. ~DuplicateLess(q[w], q[j])
        BY <1>4, <2>2, <2>4, <4>5, <4>8 DEF DuplicateLess, FindingLess
      <4>10. ~DuplicateLess(q[j], q[w])
        BY <2>4
      <4>11. Same(q[w], q[j])
        BY <2>4, <4>1, <4>9, <4>10 DEF Ties
      <4> QED BY <2>2, <4>11 DEF Same
    <3> QED BY <3>1, <3>2
  <2>7. PICK f \in Range(y) : ButRefs(f, q[w])
    BY <1>3, <2>4
  <2>8. Same(e, f)
    BY <2>1, <2>4, <2>6, <2>7 DEF Same, ButRefs, Told, Ranked
  <2> QED BY <2>7, <2>8
<1> QED BY <1>2, <1>3, <1>7 DEF Within

(* Two groups of members that are told the same.                            *)
Matching(ms, ns) == \A m \in ms : \E n \in ns : Same(m, n)
LEMMA SameGroup ==
  ASSUME NEW g, NEW ms, GroupOf(g, ms), Chosen(g, ms), NEW h, NEW ns, GroupOf(h, ns), Chosen(h, ns),
         Matching(ms, ns), Matching(ns, ms), \A y, z \in ms : y.source = z.source
  PROVE  Same(g, h)
<1>1. DOMAIN g = EvidenceFields /\ DOMAIN h = EvidenceFields
  BY DEF GroupOf
<1>2. ASSUME NEW m \in ms, NEW n \in ns, Same(m, n) \/ Same(n, m)
      PROVE  /\ m.source = n.source /\ m.at = n.at /\ m.tier = n.tier /\ m.severity = n.severity
             /\ m.category = n.category /\ m.title = n.title /\ m.confidence = n.confidence /\ m.text = n.text
             /\ m.reachable = n.reachable /\ m.provenPath = n.provenPath /\ m.routeConfirmed = n.routeConfirmed
  BY <1>2, SameParts
<1>3. (\A m \in ms : \E n \in ns : Same(m, n)) /\ (\A n \in ns : \E m \in ms : Same(n, m))
  BY DEF Matching
<1>4. PICK m0 \in ms : g.at = m0.at /\ g.text = m0.text
  BY DEF Chosen
<1>5. PICK n0 \in ns : h.at = n0.at /\ h.text = n0.text
  BY DEF Chosen
<1>6. g.at = h.at /\ g.text = h.text
  <2>1. PICK n1 \in ns : Same(m0, n1)
    BY <1>3
  <2>2. PICK m1 \in ms : Same(n0, m1)
    BY <1>3
  <2>3. n1.at = g.at /\ n1.text = g.text /\ m1.at = h.at /\ m1.text = h.text
    BY <1>2, <1>4, <1>5, <2>1, <2>2
  <2>4. ~FindingLess(n1, h) /\ ~FindingLess(m1, g)
    BY DEF Chosen
  <2>5. g.at \in Locations /\ h.at \in Locations /\ g.at.n \in Nat /\ h.at.n \in Nat /\ g.text \in Nat /\ h.text \in Nat
    BY <1>4, <1>5 DEF Chosen, Plain
  <2>6. g.at.n = h.at.n /\ g.text = h.text
    BY <2>3, <2>4, <2>5 DEF FindingLess
  <2> QED BY <2>5, <2>6, EmittersAssumption
<1>7. g.severity = h.severity /\ g.category = h.category /\ g.title = h.title
  <2>1. PICK n1 \in ns : Same(m0, n1)
    BY <1>3
  <2>2. DedupKey(m0) = DedupKey(g) /\ DedupKey(n1) = DedupKey(h)
    BY DEF GroupOf
  <2> QED BY <1>2, <2>1, <2>2, KeyParts
<1>8. g.source = h.source
  <2>1. PICK m1 \in ms : g.source = m1.source
    BY DEF GroupOf, Carries
  <2>2. PICK n1 \in ns : h.source = n1.source
    BY DEF GroupOf, Carries
  <2>3. PICK m2 \in ms : Same(n1, m2)
    BY <1>3
  <2> QED BY <1>2, <2>1, <2>2, <2>3
<1>9. g.confidence = h.confidence
  <2>1. PICK m1 \in ms : g.confidence = m1.confidence
    BY DEF GroupOf, Carries
  <2>2. PICK n1 \in ns : h.confidence = n1.confidence
    BY DEF GroupOf, Carries
  <2>3. PICK m2 \in ms : Same(n1, m2)
    BY <1>3
  <2>4. PICK n2 \in ns : Same(m1, n2)
    BY <1>3
  <2>5. m2.confidence = h.confidence /\ n2.confidence = g.confidence
    BY <1>2, <2>1, <2>2, <2>3, <2>4
  <2>6. /\ ConfidenceRank(g.confidence) >= ConfidenceRank(h.confidence)
        /\ ConfidenceRank(h.confidence) >= ConfidenceRank(g.confidence)
    BY <2>5 DEF Chosen
  <2>7. g.confidence \in Confidences /\ h.confidence \in Confidences
    BY <2>1, <2>2 DEF Chosen, Plain
  <2> QED BY <2>6, <2>7 DEF Confidences, ConfidenceRank
<1>10. g.tier = h.tier
  <2>1. PICK m1 \in ms : g.tier = m1.tier
    BY DEF GroupOf, Carries
  <2>2. PICK n1 \in ns : h.tier = n1.tier
    BY DEF GroupOf, Carries
  <2>3. PICK m2 \in ms : Same(n1, m2)
    BY <1>3
  <2>4. PICK n2 \in ns : Same(m1, n2)
    BY <1>3
  <2>5. m2.tier = h.tier /\ n2.tier = g.tier
    BY <1>2, <2>1, <2>2, <2>3, <2>4
  <2>6. TrustRank(g.tier) >= TrustRank(h.tier) /\ TrustRank(h.tier) >= TrustRank(g.tier)
    BY <2>5 DEF GroupOf, Carries
  <2>7. g.tier \in Tiers /\ h.tier \in Tiers
    BY <2>1, <2>2 DEF Chosen, Plain
  <2>8. PICK s, t : s = g.tier /\ t = h.tier
    OBVIOUS
  <2>9. s \in {"", "native_go", "tree_sitter", "semgrep"} /\ t \in {"", "native_go", "tree_sitter", "semgrep"}
    BY <2>7, <2>8 DEF Tiers
  <2>10. PICK a, b : a = TrustRank(s) /\ b = TrustRank(t)
    OBVIOUS
  <2>11. \A z \in {"", "native_go", "tree_sitter", "semgrep"} :
           /\ z = "" => TrustRank(z) = 1
           /\ z = "native_go" => TrustRank(z) = 2
           /\ z = "tree_sitter" => TrustRank(z) = 3
           /\ z = "semgrep" => TrustRank(z) = 0
    BY DEF TrustRank
  <2>13. /\ (s = "" => a = 1) /\ (s = "native_go" => a = 2) /\ (s = "tree_sitter" => a = 3) /\ (s = "semgrep" => a = 0)
         /\ (t = "" => b = 1) /\ (t = "native_go" => b = 2) /\ (t = "tree_sitter" => b = 3) /\ (t = "semgrep" => b = 0)
    BY <2>9, <2>10, <2>11
  <2>14. a = b
    <3>1. a \in 0 .. 3 /\ b \in 0 .. 3
      BY <2>10, Ranks
    <3>2. a >= b /\ b >= a
      BY <2>6, <2>8, <2>10
    <3> QED BY ONLY <3>1, <3>2
  <2>12. s = t
    <3>1. a = 1 \/ a = 2 \/ a = 3 \/ a = 0
      BY <2>9, <2>13
    <3>2. a = 1 => b # 2 /\ b # 3 /\ b # 0
      BY ONLY <2>14
    <3>3. a = 2 => b # 1 /\ b # 3 /\ b # 0
      BY ONLY <2>14
    <3>4. a = 3 => b # 2 /\ b # 1 /\ b # 0
      BY ONLY <2>14
    <3>5. a = 0 => b # 2 /\ b # 3 /\ b # 1
      BY ONLY <2>14
    <3>6. CASE a = 1
      <4>1. s = ""
        BY <2>9, <2>13, <2>14, <3>2, <3>6, Zenon
      <4>2. t = ""
        BY <2>9, <2>13, <2>14, <3>2, <3>6, Zenon
      <4> QED BY <4>1, <4>2
    <3>7. CASE a = 2
      <4>1. s = "native_go"
        BY <2>9, <2>13, <2>14, <3>3, <3>7, Zenon
      <4>2. t = "native_go"
        BY <2>9, <2>13, <2>14, <3>3, <3>7, Zenon
      <4> QED BY <4>1, <4>2
    <3>8. CASE a = 3
      <4>1. s = "tree_sitter"
        BY <2>9, <2>13, <2>14, <3>4, <3>8, Zenon
      <4>2. t = "tree_sitter"
        BY <2>9, <2>13, <2>14, <3>4, <3>8, Zenon
      <4> QED BY <4>1, <4>2
    <3>9. CASE a = 0
      <4>1. s = "semgrep"
        BY <2>9, <2>13, <2>14, <3>5, <3>9, Zenon
      <4>2. t = "semgrep"
        BY <2>9, <2>13, <2>14, <3>5, <3>9, Zenon
      <4> QED BY <4>1, <4>2
    <3> QED BY <3>1, <3>6, <3>7, <3>8, <3>9
  <2> QED BY <2>8, <2>12
<1>11. g.affected = h.affected
  <2>1. g.affected = {m.at : m \in ms} /\ h.affected = {n.at : n \in ns}
    BY DEF GroupOf
  <2> QED BY <1>2, <1>3, <2>1
<1>12. (g.reachable <=> h.reachable) /\ (g.provenPath <=> h.provenPath) /\ (g.routeConfirmed <=> h.routeConfirmed)
  <2>1. /\ g.reachable <=> \E m \in ms : m.reachable
        /\ g.provenPath <=> \E m \in ms : m.provenPath
        /\ g.routeConfirmed <=> \E m \in ms : m.routeConfirmed
        /\ h.reachable <=> \E m \in ns : m.reachable
        /\ h.provenPath <=> \E m \in ns : m.provenPath
        /\ h.routeConfirmed <=> \E m \in ns : m.routeConfirmed
    BY DEF GroupOf, Carries
  <2> QED BY <1>2, <1>3, <2>1
<1>13. g.reachable = h.reachable /\ g.provenPath = h.provenPath /\ g.routeConfirmed = h.routeConfirmed
  <2>1. Flags(g) /\ Flags(h)
    BY DEF Chosen
  <2>2. /\ g.reachable \in BOOLEAN /\ h.reachable \in BOOLEAN /\ g.provenPath \in BOOLEAN /\ h.provenPath \in BOOLEAN
        /\ g.routeConfirmed \in BOOLEAN /\ h.routeConfirmed \in BOOLEAN
    BY <2>1 DEF Flags
  <2> QED BY <1>12, <2>2
<1>14. \A k \in Internal : g[k] = h[k]
  BY DEF GroupOf, Bare
<1>15. Told = Internal \cup {"source", "category", "title", "severity", "confidence", "tier", "at", "affected", "text",
                            "reachable", "provenPath", "routeConfirmed"}
  BY DEF Told, EvidenceFields, Internal
<1>16. \A k \in Told : g[k] = h[k]
  BY <1>6, <1>7, <1>8, <1>9, <1>10, <1>11, <1>13, <1>14, <1>15
<1> QED BY <1>1, <1>16 DEF Same

(* Grouping: every finding is that of the first of its key, with all of it. *)
LEMMA Heads ==
  ASSUME NEW d, IsList(d), \A j \in DOMAIN d : Plain(d[j]), NEW q, q = Deduplicate(d)
  PROVE  /\ IsList(q)
         /\ \A f \in Range(q) : \E i \in DOMAIN d : \E g :
              /\ f = Single(g) /\ GroupOf(g, {d[j] : j \in {j \in DOMAIN d : DedupKey(d[j]) = DedupKey(d[i])}})
              /\ Chosen(g, {d[j] : j \in {j \in DOMAIN d : DedupKey(d[j]) = DedupKey(d[i])}})
         /\ \A i \in DOMAIN d : \E f \in Range(q) : \E g :
              /\ f = Single(g) /\ GroupOf(g, {d[j] : j \in {j \in DOMAIN d : DedupKey(d[j]) = DedupKey(d[i])}})
              /\ Chosen(g, {d[j] : j \in {j \in DOMAIN d : DedupKey(d[j]) = DedupKey(d[i])}})
<1>1. PICK n \in Nat : DOMAIN d = 1 .. n
  BY ListShape
<1>2. PICK all : all = [i \in DOMAIN d |-> Single(GroupFrom(d, i))]
  OBVIOUS
<1>3. IsList(all) /\ DOMAIN all = 1 .. n
  <2>1. all = [i \in 1 .. n |-> all[i]] /\ DOMAIN all = 1 .. n
    BY <1>1, <1>2
  <2> QED BY <2>1, ListOf
<1>4. PICK F : F = Firsts(d)
  OBVIOUS
<1>5. q = At(all, F)
  BY <1>2, <1>4, Zenon DEF Deduplicate
<1>6. /\ IsList(At(all, F)) /\ \A i \in F \cap DOMAIN all : all[i] \in Range(At(all, F))
      /\ \A x \in Range(At(all, F)) : \E i \in F \cap DOMAIN all : x = all[i]
  BY <1>3, AtHolds
<1>7. F \subseteq DOMAIN d
  BY <1>4 DEF Firsts
<1>8. ASSUME NEW i \in F, NEW ms, ms = {d[j] : j \in {j \in DOMAIN d : DedupKey(d[j]) = DedupKey(d[i])}}
      PROVE  \E g : all[i] = Single(g) /\ GroupOf(g, ms) /\ Chosen(g, ms)
  <2>1. AtKey(d, i) = {j \in DOMAIN d : DedupKey(d[j]) = DedupKey(d[i])}
    <3>1. \A j \in DOMAIN d : DedupKey(d[j]) = DedupKey(d[i]) => j >= i
      <4> SUFFICES ASSUME NEW j \in DOMAIN d, DedupKey(d[j]) = DedupKey(d[i]), ~(j >= i) PROVE FALSE
        OBVIOUS
      <4>1. j \in 1 .. i - 1
        BY <1>1, <1>7
      <4> QED BY <1>4, <1>8, <4>1 DEF Firsts
    <3> QED BY <3>1 DEF AtKey
  <2>2. PICK g : g = GroupFrom(d, i)
    OBVIOUS
  <2>3. ms = {d[j] : j \in AtKey(d, i)} /\ i \in DOMAIN d
    BY <1>7, <1>8, <2>1
  <2>4. \A j \in DOMAIN d : Member(d[j])
    BY DEF Plain
  <2>5. GroupOf(g, ms) /\ ((\A j \in DOMAIN d : Plain(d[j])) => Chosen(g, ms))
    BY ONLY <2>2, <2>3, <2>4, IsList(d), GroupFromKeeps
  <2>6. all[i] = Single(g)
    BY <1>2, <1>7, <2>2
  <2> QED BY <2>5, <2>6
<1>9. ASSUME NEW i \in DOMAIN d PROVE \E k \in F : DedupKey(d[k]) = DedupKey(d[i])
  <2>1. PICK T : T = {k \in DOMAIN d : DedupKey(d[k]) = DedupKey(d[i])}
    OBVIOUS
  <2>2. T \subseteq Nat /\ T # {}
    BY <1>1, <2>1
  <2>3. PICK k \in T : \A l \in T : k <= l
    BY <2>2, Least
  <2>4. k \in DOMAIN d /\ DedupKey(d[k]) = DedupKey(d[i])
    BY <2>1
  <2>5. ASSUME NEW l \in 1 .. k - 1 PROVE DedupKey(d[l]) # DedupKey(d[k])
    <3>1. l \in DOMAIN d /\ ~(k <= l)
      BY <1>1, <2>4
    <3> QED BY <2>1, <2>3, <2>4, <3>1
  <2>6. k \in F
    BY <1>4, <2>4, <2>5 DEF Firsts
  <2> QED BY <2>4, <2>6
<1>10. ASSUME NEW f \in Range(q)
       PROVE  \E i \in DOMAIN d : \E g :
              /\ f = Single(g) /\ GroupOf(g, {d[j] : j \in {j \in DOMAIN d : DedupKey(d[j]) = DedupKey(d[i])}})
              /\ Chosen(g, {d[j] : j \in {j \in DOMAIN d : DedupKey(d[j]) = DedupKey(d[i])}})
  <2>1. PICK i \in F : f = all[i]
    BY <1>5, <1>6
  <2> QED BY <1>7, <1>8, <2>1
<1>11. ASSUME NEW i \in DOMAIN d
       PROVE  \E f \in Range(q) : \E g :
              /\ f = Single(g) /\ GroupOf(g, {d[j] : j \in {j \in DOMAIN d : DedupKey(d[j]) = DedupKey(d[i])}})
              /\ Chosen(g, {d[j] : j \in {j \in DOMAIN d : DedupKey(d[j]) = DedupKey(d[i])}})
  <2>1. PICK k \in F : DedupKey(d[k]) = DedupKey(d[i])
    BY <1>9
  <2>2. all[k] \in Range(q)
    BY <1>1, <1>3, <1>5, <1>6, <1>7
  <2>3. PICK ms : ms = {d[j] : j \in {j \in DOMAIN d : DedupKey(d[j]) = DedupKey(d[k])}}
    OBVIOUS
  <2>4. PICK g : all[k] = Single(g) /\ GroupOf(g, ms) /\ Chosen(g, ms)
    BY <1>8, <2>3
  <2>5. ms = {d[j] : j \in {j \in DOMAIN d : DedupKey(d[j]) = DedupKey(d[i])}}
    BY <2>1, <2>3
  <2> QED BY <2>2, <2>4, <2>5
<1> QED BY <1>5, <1>6, <1>10, <1>11

LEMMA SameGrouped ==
  ASSUME NEW d, NEW e, Equal(d, e), \A j \in DOMAIN d : Plain(d[j]), \A j \in DOMAIN e : Plain(e[j]),
         \A i, j \in DOMAIN d : DedupKey(d[i]) = DedupKey(d[j]) => d[i].source = d[j].source,
         NEW x, x = Deduplicate(d), NEW y, y = Deduplicate(e)
  PROVE  Within(x, y)
<1>1. /\ IsList(d) /\ (\A u \in Range(d) : \E v \in Range(e) : Same(u, v))
      /\ IsList(e) /\ (\A v \in Range(e) : \E u \in Range(d) : Same(v, u))
  BY DEF Equal, Within
<1> DEFINE M(i) == {d[j] : j \in {j \in DOMAIN d : DedupKey(d[j]) = DedupKey(d[i])}}
           N(i) == {e[j] : j \in {j \in DOMAIN e : DedupKey(e[j]) = DedupKey(e[i])}}
<1>2. IsList(x) /\ \A f \in Range(x) : \E i \in DOMAIN d : \E g : f = Single(g) /\ GroupOf(g, M(i)) /\ Chosen(g, M(i))
  BY <1>1, Heads
<1>3. IsList(y) /\ \A i \in DOMAIN e : \E f \in Range(y) : \E g : f = Single(g) /\ GroupOf(g, N(i)) /\ Chosen(g, N(i))
  BY <1>1, Heads
<1>4. \A u, v : Same(u, v) => DedupKey(u) = DedupKey(v)
  BY SameParts, KeyParts
<1>5. ASSUME NEW i \in DOMAIN d, NEW j \in DOMAIN e, DedupKey(d[i]) = DedupKey(e[j])
      PROVE  Matching(M(i), N(j)) /\ Matching(N(j), M(i)) /\ \A u, v \in M(i) : u.source = v.source
  <2>1. ASSUME NEW u \in M(i) PROVE \E v \in N(j) : Same(u, v)
    <3>1. PICK k \in DOMAIN d : u = d[k] /\ DedupKey(d[k]) = DedupKey(d[i])
      BY <2>1
    <3>2. PICK l \in DOMAIN e : Same(u, e[l])
      BY <1>1, <3>1 DEF Range
    <3> QED BY <1>4, <1>5, <3>1, <3>2
  <2>2. ASSUME NEW v \in N(j) PROVE \E u \in M(i) : Same(v, u)
    <3>1. PICK k \in DOMAIN e : v = e[k] /\ DedupKey(e[k]) = DedupKey(e[j])
      BY <2>2
    <3>2. PICK l \in DOMAIN d : Same(v, d[l])
      BY <1>1, <3>1 DEF Range
    <3> QED BY <1>4, <1>5, <3>1, <3>2
  <2>3. \A u, v \in M(i) : u.source = v.source
    OBVIOUS
  <2> HIDE DEF M, N
  <2> QED BY <2>1, <2>2, <2>3 DEF Matching
<1>6. ASSUME NEW g, NEW h, Same(g, h) PROVE Same(Single(g), Single(h))
  <2>1. g.affected = h.affected /\ DOMAIN g = EvidenceFields /\ DOMAIN h = EvidenceFields /\ \A k \in Told : g[k] = h[k]
    BY <1>6, SameParts DEF Same
  <2>2. CASE Cardinality(g.affected) > 1
    <3>1. Single(g) = g /\ Single(h) = h
      BY <2>1, <2>2, Zenon DEF Single
    <3> QED BY <1>6, <3>1
  <2>3. CASE ~(Cardinality(g.affected) > 1)
    <3>1. Single(g) = [g EXCEPT !.affected = {}] /\ Single(h) = [h EXCEPT !.affected = {}]
      BY <2>1, <2>3, Zenon DEF Single
    <3> QED BY <2>1, <3>1 DEF Same, Told
  <2> QED BY <2>2, <2>3
<1> HIDE DEF M, N
<1>7. ASSUME NEW f \in Range(x) PROVE \E k \in Range(y) : Same(f, k)
  <2>1. PICK i \in DOMAIN d : \E g : f = Single(g) /\ GroupOf(g, M(i)) /\ Chosen(g, M(i))
    BY <1>2
  <2>2. PICK g : f = Single(g) /\ GroupOf(g, M(i)) /\ Chosen(g, M(i))
    BY <2>1
  <2>3. PICK j \in DOMAIN e : Same(d[i], e[j])
    BY <1>1 DEF Range
  <2>4. PICK k \in Range(y) : \E h : k = Single(h) /\ GroupOf(h, N(j)) /\ Chosen(h, N(j))
    BY <1>3
  <2>5. PICK h : k = Single(h) /\ GroupOf(h, N(j)) /\ Chosen(h, N(j))
    BY <2>4
  <2>6. PICK ms, ns : ms = M(i) /\ ns = N(j)
    OBVIOUS
  <2>7. Matching(ms, ns) /\ Matching(ns, ms) /\ \A u, v \in ms : u.source = v.source
    BY <1>4, <1>5, <2>3, <2>6
  <2>8. Same(g, h)
    BY <2>2, <2>5, <2>6, <2>7, SameGroup
  <2> QED BY <1>6, <2>2, <2>5, <2>8
<1> QED BY <1>2, <1>3, <1>7 DEF Within

(* Capping tells the same of the same finding.                              *)
LEMMA SameCapped ==
  ASSUME NEW f, NEW g, Same(f, g), NEW x, x = EnforceSeverityConsistency(f), NEW y, y = EnforceSeverityConsistency(g)
  PROVE  Same(x, y)
<1>1. PICK cap : cap = MaxSeverityForConfidence(f.confidence)
  OBVIOUS
<1>2. f.severity = g.severity /\ f.confidence = g.confidence
  BY SameParts
<1>3. CASE SeverityRank(f.severity) > SeverityRank(cap)
  <2>1. x = [f EXCEPT !.severity = cap] /\ y = [g EXCEPT !.severity = cap]
    BY <1>1, <1>2, <1>3 DEF EnforceSeverityConsistency
  <2>2. DOMAIN x = EvidenceFields /\ DOMAIN y = EvidenceFields /\ x.severity = cap /\ y.severity = cap
    BY <2>1 DEF Same, EvidenceFields
  <2>3. \A k \in Told : k # "severity" => x[k] = f[k] /\ y[k] = g[k]
    BY <2>1 DEF Same, Told
  <2> QED BY <2>2, <2>3 DEF Same
<1>4. CASE ~(SeverityRank(f.severity) > SeverityRank(cap))
  BY <1>1, <1>2, <1>4 DEF EnforceSeverityConsistency
<1> QED BY <1>3, <1>4
LEMMA SameConsistent ==
  ASSUME NEW a, NEW b, Within(a, b), NEW p, p = Consistently(a), NEW q, q = Consistently(b)
  PROVE  Within(p, q)
<1>1. PICK m, n \in Nat : DOMAIN a = 1 .. m /\ DOMAIN b = 1 .. n
  BY ListShape DEF Within
<1>2. IsList(p) /\ IsList(q) /\ DOMAIN p = DOMAIN a /\ DOMAIN q = DOMAIN b
  <2>1. p = [i \in 1 .. m |-> p[i]] /\ q = [i \in 1 .. n |-> q[i]] /\ DOMAIN p = 1 .. m /\ DOMAIN q = 1 .. n
    BY <1>1 DEF Consistently
  <2> QED BY <1>1, <2>1, ListOf
<1>3. ASSUME NEW i \in DOMAIN p PROVE \E y \in Range(q) : Same(p[i], y)
  <2>1. a[i] \in Range(a)
    BY <1>2 DEF Range
  <2>2. PICK j \in DOMAIN b : Same(a[i], b[j])
    BY <2>1 DEF Within, Range
  <2>3. PICK f, g : f = a[i] /\ g = b[j]
    OBVIOUS
  <2>4. PICK x, y : x = p[i] /\ y = q[j]
    OBVIOUS
  <2>5. x = EnforceSeverityConsistency(f) /\ y = EnforceSeverityConsistency(g)
    BY <1>2, <2>2, <2>3, <2>4 DEF Consistently
  <2>6. Same(x, y)
    BY <2>2, <2>3, <2>5, SameCapped
  <2> QED BY <1>2, <2>2, <2>4, <2>6 DEF Range
<1> QED BY <1>2, <1>3 DEF Within, Range

(* The index answers the same for evidence that is told the same.           *)
LEMMA SameIndexed ==
  ASSUME NEW x, NEW y, Equal(x, y), NEW one, one = Range(x), NEW two, two = Range(y), NEW id
  PROVE  IndexAt(one, id) = IndexAt(two, id)
<1>1. PICK X, Y : X = {e \in one : Identity(e) = id} /\ Y = {e \in two : Identity(e) = id}
  OBVIOUS
<1>2. ASSUME NEW e, NEW d, Same(e, d) PROVE Identity(e) = Identity(d) /\ Provenance(e) = Provenance(d)
  <2>1. e.category = d.category /\ e.title = d.title /\ e.at = d.at /\ e.inTest = d.inTest
    BY <1>2, SameParts
  <2>2. DOMAIN NoProvenance \subseteq Internal /\ \A k \in Internal : e[k] = d[k]
    BY <1>2, SameParts, ProvenanceFields
  <2>3. PICK b : b = (e.inTest \/ IsTestPath(e.at))
    OBVIOUS
  <2>4. b = (d.inTest \/ IsTestPath(d.at))
    BY <2>1, <2>3
  <2>5. Provenance(e) = [k \in DOMAIN NoProvenance |-> IF k = "inTest" THEN b ELSE e[k]]
    BY <2>3, Zenon DEF Provenance
  <2>6. Provenance(d) = [k \in DOMAIN NoProvenance |-> IF k = "inTest" THEN b ELSE d[k]]
    BY <2>4, Zenon DEF Provenance
  <2>7. Provenance(e) = Provenance(d)
    BY <2>2, <2>5, <2>6
  <2> QED BY <2>1, <2>7 DEF Identity
<1>3. ASSUME NEW e \in X PROVE \E d \in Y : Provenance(e) = Provenance(d)
  <2>1. PICK d \in two : Same(e, d)
    BY <1>1 DEF Equal, Within
  <2> QED BY <1>1, <1>2, <2>1
<1>4. ASSUME NEW d \in Y PROVE \E e \in X : Provenance(e) = Provenance(d)
  <2>1. PICK e \in one : Same(d, e)
    BY <1>1 DEF Equal, Within
  <2>2. Identity(d) = Identity(e) /\ Provenance(d) = Provenance(e)
    BY <1>2, <2>1
  <2> QED BY <1>1, <2>1, <2>2
<1>5. {Provenance(e) : e \in X} = {Provenance(e) : e \in Y}
  BY <1>3, <1>4
<1>6. IndexAt(one, id) = MergeAll({Provenance(e) : e \in X}) /\ IndexAt(two, id) = MergeAll({Provenance(e) : e \in Y})
  BY <1>1, Zenon DEF IndexAt
<1> QED BY <1>5, <1>6
LEMMA SameRefilled ==
  ASSUME NEW x, NEW y, Equal(x, y), NEW one, one = Range(x), NEW two, two = Range(y),
         NEW f, NEW g, Same(f, g), NEW u, u = Restored(one, f), NEW v, v = Restored(two, g)
  PROVE  Same(u, v)
<1>1. f.category = g.category /\ f.title = g.title /\ f.at = g.at /\ f.affected = g.affected
  BY SameParts
<1>2. PICK m : m = Lookup(one, f)
  OBVIOUS
<1>3. Lookup(two, g) = m
  <2>1. PICK A, B : /\ A = {IndexAt(one, <<f.category, l, f.title>>) : l \in Places(f)}
                    /\ B = {IndexAt(two, <<g.category, l, g.title>>) : l \in Places(g)}
    OBVIOUS
  <2>2. Places(f) = Places(g)
    BY <1>1 DEF Places
  <2>3. ASSUME NEW l PROVE IndexAt(one, <<f.category, l, f.title>>) = IndexAt(two, <<g.category, l, g.title>>)
    <3>1. PICK id : id = <<f.category, l, f.title>>
      OBVIOUS
    <3>2. IndexAt(one, id) = IndexAt(two, id)
      BY SameIndexed
    <3> QED BY <1>1, <3>1, <3>2
  <2>4. A = B
    BY <2>1, <2>2, <2>3
  <2>5. Lookup(one, f) = MergeAll(A)
    BY <2>1, Zenon DEF Lookup, Places
  <2>6. Lookup(two, g) = MergeAll(B)
    BY <2>1, Zenon DEF Lookup, Places
  <2> QED BY <1>2, <2>4, <2>5, <2>6
<1>4. DOMAIN f = EvidenceFields /\ DOMAIN g = EvidenceFields /\ Told \subseteq EvidenceFields
  BY DEF Same, Told
<1>5. u = [k \in EvidenceFields |-> IF k \in DOMAIN m /\ f[k] = NoProvenance[k] THEN m[k] ELSE f[k]]
  BY <1>2, <1>4, Zenon DEF Restored
<1>6. v = [k \in EvidenceFields |-> IF k \in DOMAIN m /\ g[k] = NoProvenance[k] THEN m[k] ELSE g[k]]
  BY <1>3, <1>4, Zenon DEF Restored
<1>7. \A k \in Told : u[k] = v[k]
  BY <1>4, <1>5, <1>6 DEF Same
<1> QED BY <1>5, <1>6, <1>7 DEF Same

(* Without a pairing the correlator changes nothing, and what is grouped    *)
(* says what an engine may say.                                             *)
LEMMA Unpaired ==
  ASSUME NEW r \in Seq(Native), ~Hybrids(r), NEW F, NEW s, s = Gathered(r, F)
  PROVE  CorrelateEvidence(s) = s /\ \A x, y \in Range(s) : (x.source = "imported" <=> y.source = "imported") => x.source = y.source
<1>1. /\ IsList(s) /\ \A e \in Range(s) : e.source \in {"whitebox", "blackbox"} => e \in Range(r)
      /\ \A e \in Range(s) : Sound(e) /\ e.source # "correlated"
  BY GatheredShape
<1>2. ~Hybrids(s)
  BY <1>1 DEF Hybrids, HasSource, Range
<1>3. CorrelateEvidence(s) = s
  BY <1>2, Zenon DEF CorrelateEvidence, Hybrids
<1>4. \A x \in Range(s) : x.source \in {"whitebox", "blackbox", "imported"}
  BY <1>1 DEF Sound, Sources
<1>5. ~(HasSource(s, "whitebox") /\ HasSource(s, "blackbox"))
  BY <1>2 DEF Hybrids
<1>6. ASSUME NEW x \in Range(s), NEW y \in Range(s) PROVE ~(x.source = "whitebox" /\ y.source = "blackbox")
  BY <1>5 DEF HasSource, Range
<1> QED BY <1>3, <1>4, <1>6

LEMMA PlainCollapsed ==
  ASSUME NEW c, IsList(c), \A e \in Range(c) : Sound(e) /\ Fit(e),
         \A x, y \in Range(c) : (x.source = "imported" <=> y.source = "imported") => x.source = y.source,
         NEW p, p = Projected(c), NEW d, d = CollapseDuplicateLocations(p)
  PROVE  /\ Ranked(p) /\ \A j \in DOMAIN d : Plain(d[j])
         /\ \A i, j \in DOMAIN d : DedupKey(d[i]) = DedupKey(d[j]) => d[i].source = d[j].source
<1>1. IsList(p) /\ DOMAIN p = DOMAIN c /\ \A i \in DOMAIN c : Projection(p[i], c[i])
  BY ProjectedShape
<1>2. {"text", "at", "source", "tier", "confidence", "reachable", "provenPath", "routeConfirmed"} \subseteq Public \ {"severity"}
  BY DEF Public, EvidenceFields, Internal
<1>3. ASSUME NEW i \in DOMAIN p
      PROVE  /\ DOMAIN p[i] = EvidenceFields /\ p[i].text \in Nat /\ p[i].at.n \in Nat /\ p[i].at \in Locations
             /\ p[i].tier \in Tiers /\ p[i].confidence \in Confidences /\ Flags(p[i])
             /\ p[i].source = c[i].source /\ c[i] \in Range(c)
  <2>1. PICK x, e : x = p[i] /\ e = c[i]
    OBVIOUS
  <2>2. Projection(x, e) /\ Sound(e) /\ Fit(e) /\ e \in Range(c)
    BY <1>1, <2>1 DEF Range
  <2>3. /\ DOMAIN x = EvidenceFields /\ x.text = e.text /\ x.at = e.at /\ x.source = e.source /\ x.tier = e.tier
        /\ x.confidence = e.confidence /\ x.reachable = e.reachable /\ x.provenPath = e.provenPath
        /\ x.routeConfirmed = e.routeConfirmed
    BY <1>2, <2>2 DEF Projection
  <2>4. e.text \in Nat /\ e.at.n \in Nat /\ e.confidence \in Confidences
    BY <2>2 DEF Sound, IsLocation
  <2>5. Flags(x)
    BY <2>2, <2>3 DEF Fit, Flags
  <2> QED BY <2>1, <2>2, <2>3, <2>4, <2>5 DEF Fit
<1>4. IsList(d) /\ \A x \in Range(d) : \E i \in DOMAIN p : ButRefs(x, p[i])
  BY <1>1, <1>3, CollapsedShape
<1>5. \A j \in DOMAIN d : Member(d[j])
  BY CollapsedMembers
<1>6. ASSUME NEW j \in DOMAIN d PROVE Plain(d[j]) /\ \E e \in Range(c) : d[j].source = e.source
  <2>1. PICK x : x = d[j]
    OBVIOUS
  <2>2. PICK i \in DOMAIN p : ButRefs(x, p[i])
    BY <1>4, <2>1 DEF Range
  <2>3. PICK y : y = p[i]
    OBVIOUS
  <2>4. /\ x.text = y.text /\ x.at = y.at /\ x.source = y.source /\ x.tier = y.tier
        /\ x.confidence = y.confidence /\ x.reachable = y.reachable /\ x.provenPath = y.provenPath
        /\ x.routeConfirmed = y.routeConfirmed
    BY <2>2, <2>3 DEF ButRefs, EvidenceFields
  <2>5. Flags(x)
    BY <1>3, <2>3, <2>4 DEF Flags
  <2> QED BY <1>3, <1>5, <2>1, <2>3, <2>4, <2>5 DEF Plain
<1>7. ASSUME NEW i \in DOMAIN d, NEW j \in DOMAIN d, DedupKey(d[i]) = DedupKey(d[j])
      PROVE  d[i].source = d[j].source
  <2>1. d[i].source = "imported" <=> d[j].source = "imported"
    BY <1>7, KeyParts
  <2> QED BY <1>6, <2>1
<1>8. Ranked(p)
  BY <1>3 DEF Ranked
<1> QED BY <1>6, <1>7, <1>8

LEMMA FactsTold ==
  ASSUME NEW x, NEW y, DOMAIN x = EvidenceFields, DOMAIN y = EvidenceFields
  PROVE  Facts(x) = Facts(y) <=> Same(x, y)
<1>1. PICK f, g : f = Facts(x) /\ g = Facts(y)
  OBVIOUS
<1>2. f = [k \in Told |-> x[k]] /\ g = [k \in Told |-> y[k]]
  BY <1>1 DEF Facts, Told
<1>3. f = g <=> \A k \in Told : x[k] = y[k]
  BY <1>2
<1> QED BY <1>1, <1>3 DEF Same

LEMMA TiesTold ==
  ASSUME NEW S, Untied(S), NEW c, IsList(c), \A e \in Range(c) : Sound(e),
         \A x \in Range(c) : x.source = "whitebox" => \E e \in S : Sound(e) /\ SameNamed(x, e),
         NEW p, p = Projected(c)
  PROVE  Ties(p)
<1>1. IsList(p) /\ DOMAIN p = DOMAIN c /\ \A i \in DOMAIN c : Projection(p[i], c[i])
  BY ProjectedShape
<1>2. {"source", "category", "at"} \subseteq Public \ {"refs"} /\ "source" \in Public \ {"severity"}
  BY DEF Public, EvidenceFields, Internal
<1>3. ASSUME NEW i \in DOMAIN p, p[i].source = "whitebox"
      PROVE  \E e \in S : \E x : /\ x = EscalateReachable(Published(e)) /\ Same(p[i], x) /\ DOMAIN x = EvidenceFields
                                 /\ e.source = "whitebox" /\ e.category = p[i].category /\ e.at = p[i].at
  <2>1. PICK u, v : u = c[i] /\ v = p[i]
    OBVIOUS
  <2>2. u \in Range(c) /\ Sound(u) /\ v = EscalateReachable(Published(u)) /\ Projection(v, u)
    BY <1>1, <2>1 DEF Range, Projected
  <2>3. u.source = "whitebox"
    BY <1>2, <1>3, <2>1, <2>2 DEF Projection
  <2>4. PICK e \in S : Sound(e) /\ SameNamed(u, e)
    BY <2>2, <2>3
  <2>5. PICK x : x = EscalateReachable(Published(e))
    OBVIOUS
  <2>6. DOMAIN u = EvidenceFields /\ DOMAIN e = EvidenceFields /\ \A k \in Public \ {"chain", "route", "refs"} : u[k] = e[k]
    BY <2>2, <2>4 DEF Sound, SameNamed
  <2>7. Same(v, x)
    BY <2>2, <2>5, <2>6, SameProjection
  <2>8. e.source = u.source /\ e.category = u.category /\ e.at = u.at
    BY <1>2, <2>4 DEF SameNamed
  <2>9. v.category = u.category /\ v.at = u.at
    BY <2>2 DEF Projection, Public, EvidenceFields, Internal
  <2> QED BY <2>1, <2>3, <2>5, <2>7, <2>8, <2>9 DEF Same
<1>4. ASSUME NEW i \in DOMAIN p, NEW j \in DOMAIN p, Meet(p, i, j), ~DuplicateLess(p[i], p[j]), ~DuplicateLess(p[j], p[i])
      PROVE  Same(p[i], p[j])
  <2>1. PICK u, v : u = p[i] /\ v = p[j]
    OBVIOUS
  <2>2. u.source = "whitebox" /\ v.source = "whitebox" /\ u.category = v.category /\ u.at = v.at
    BY <1>4, <2>1 DEF Meet
  <2>3. PICK a \in S : \E x : /\ x = EscalateReachable(Published(a)) /\ Same(u, x) /\ DOMAIN x = EvidenceFields
                              /\ a.source = "whitebox" /\ a.category = u.category /\ a.at = u.at
    BY <1>3, <2>1, <2>2
  <2>4. PICK b \in S : \E y : /\ y = EscalateReachable(Published(b)) /\ Same(v, y) /\ DOMAIN y = EvidenceFields
                              /\ b.source = "whitebox" /\ b.category = v.category /\ b.at = v.at
    BY <1>3, <2>1, <2>2
  <2>5. PICK x, y : /\ x = EscalateReachable(Published(a)) /\ y = EscalateReachable(Published(b))
                    /\ Same(u, x) /\ Same(v, y) /\ DOMAIN x = EvidenceFields /\ DOMAIN y = EvidenceFields
    BY <2>3, <2>4
  <2>6. ~DuplicateLess(x, y) /\ ~DuplicateLess(y, x)
    <3>1. x.tier = u.tier /\ x.severity = u.severity /\ x.at = u.at /\ x.text = u.text
      BY <2>5, SameParts
    <3>2. y.tier = v.tier /\ y.severity = v.severity /\ y.at = v.at /\ y.text = v.text
      BY <2>5, SameParts
    <3>3. ~DuplicateLess(u, v) /\ ~DuplicateLess(v, u)
      BY <1>4, <2>1
    <3> QED BY <3>1, <3>2, <3>3 DEF DuplicateLess, FindingLess
  <2>7. Facts(x) = Facts(y)
    BY <2>2, <2>3, <2>4, <2>5, <2>6 DEF Untied
  <2>8. Same(x, y)
    BY <2>5, <2>7, FactsTold
  <2> QED BY <2>1, <2>5, <2>8 DEF Same
<1> QED BY <1>4 DEF Ties

(* The stages tell the same of what was reported in another order.          *)
LEMMA OrderFree ==
  ASSUME NEW r \in Seq(Native), NEW t \in Seq(Native), Range(r) = Range(t), ~Hybrids(r), Untied(Range(r)), NEW F,
         NEW x, x = Crossed(r, F), NEW y, y = Crossed(t, F),
         NEW p, p = Consistently(Grouped(x)), NEW q, q = Consistently(Grouped(y))
  PROVE  Equal(x, y) /\ Equal(p, q)
<1>1. PICK s, w : s = Gathered(r, F) /\ w = Gathered(t, F)
  OBVIOUS
<1>2. ~Hybrids(t)
  BY DEF Hybrids, HasSource, Range
<1>3. /\ IsList(s) /\ IsList(w) /\ (\A e \in Range(s) : Sound(e) /\ Fit(e)) /\ (\A e \in Range(w) : Sound(e) /\ Fit(e))
      /\ \A e \in Range(s) : e.source = "whitebox" => e \in Range(r)
      /\ \A e \in Range(w) : e.source = "whitebox" => e \in Range(r)
  BY <1>1, GatheredShape
<1>4. /\ CorrelateEvidence(s) = s /\ CorrelateEvidence(w) = w
      /\ \A e, f \in Range(s) : (e.source = "imported" <=> f.source = "imported") => e.source = f.source
      /\ \A e, f \in Range(w) : (e.source = "imported" <=> f.source = "imported") => e.source = f.source
  BY <1>1, <1>2, Unpaired
<1>5. x = CorrelateCrossTool(s) /\ y = CorrelateCrossTool(w)
  BY <1>1, <1>4 DEF Crossed
<1>6. Range(s) = Range(w)
  <2>1. PICK m : m = Imported(F)
    OBVIOUS
  <2>2. IsList(m) /\ IsList(r) /\ IsList(t)
    BY <2>1, ImportedList, GatheredShape
  <2>3. s = r \o m /\ w = t \o m
    BY <1>1, <2>1 DEF Gathered
  <2>4. Range(s) = Range(r) \cup Range(m)
    BY <2>2, <2>3, ConcatList
  <2>5. Range(w) = Range(t) \cup Range(m)
    BY <2>2, <2>3, ConcatList
  <2> QED BY <2>4, <2>5
<1>7. Equal(x, y)
  BY <1>3, <1>5, <1>6, SameCrossed DEF Equal
<1>8. ASSUME NEW a, NEW b, IsList(a), \A e \in Range(a) : Sound(e) /\ Fit(e),
             \A e, f \in Range(a) : (e.source = "imported" <=> f.source = "imported") => e.source = f.source,
             \A e \in Range(a) : e.source = "whitebox" => e \in Range(r), b = CorrelateCrossTool(a)
      PROVE  /\ IsList(b) /\ \A e \in Range(b) : Sound(e) /\ Fit(e)
             /\ \A e, f \in Range(b) : (e.source = "imported" <=> f.source = "imported") => e.source = f.source
             /\ Ties(Projected(b))
  <2>1. IsList(b) /\ (\A e \in Range(b) : Sound(e)) /\ \A e \in Range(b) : \E f \in Range(a) : SameNamed(e, f)
    BY <1>8, CrossedShape
  <2>2. {"source", "at", "tier", "reachable", "provenPath", "routeConfirmed"} \subseteq Public \ {"refs"}
    BY DEF Public, EvidenceFields, Internal
  <2>3. ASSUME NEW e \in Range(b) PROVE \E f \in Range(a) : SameNamed(e, f) /\ e.source = f.source /\ Fit(e)
    <3>1. PICK f \in Range(a) : SameNamed(e, f)
      BY <2>1
    <3>2. /\ e.source = f.source /\ e.at = f.at /\ e.tier = f.tier /\ e.reachable = f.reachable
          /\ e.provenPath = f.provenPath /\ e.routeConfirmed = f.routeConfirmed
      BY <2>2, <3>1 DEF SameNamed
    <3>3. Fit(f)
      BY <1>8
    <3> QED BY <3>1, <3>2, <3>3 DEF Fit, Flags
  <2>4. \A e, f \in Range(b) : (e.source = "imported" <=> f.source = "imported") => e.source = f.source
    BY <1>8, <2>3
  <2>5. \A e \in Range(b) : e.source = "whitebox" => \E f \in Range(r) : Sound(f) /\ SameNamed(e, f)
    BY <1>8, <2>3
  <2>6. Ties(Projected(b))
    BY <2>1, <2>5, TiesTold
  <2> QED BY <2>1, <2>3, <2>4, <2>6
<1>9. PICK j, k : j = Projected(x) /\ k = Projected(y)
  OBVIOUS
<1>10. /\ (\A e \in Range(x) : Sound(e)) /\ (\A e \in Range(y) : Sound(e)) /\ Ties(j) /\ Ties(k)
       /\ IsList(x) /\ IsList(y) /\ (\A e \in Range(x) : Fit(e)) /\ (\A e \in Range(y) : Fit(e))
       /\ \A e, f \in Range(x) : (e.source = "imported" <=> f.source = "imported") => e.source = f.source
       /\ \A e, f \in Range(y) : (e.source = "imported" <=> f.source = "imported") => e.source = f.source
  BY <1>3, <1>4, <1>5, <1>8, <1>9
<1>11. Equal(j, k)
  BY <1>7, <1>9, <1>10, SameProjected DEF Equal
<1>12. PICK d, e : d = CollapseDuplicateLocations(j) /\ e = CollapseDuplicateLocations(k)
  OBVIOUS
<1>13. /\ Ranked(j) /\ (\A n \in DOMAIN d : Plain(d[n]))
       /\ \A m, n \in DOMAIN d : DedupKey(d[m]) = DedupKey(d[n]) => d[m].source = d[n].source
  BY <1>9, <1>10, <1>12, PlainCollapsed
<1>14. /\ Ranked(k) /\ (\A n \in DOMAIN e : Plain(e[n]))
       /\ \A m, n \in DOMAIN e : DedupKey(e[m]) = DedupKey(e[n]) => e[m].source = e[n].source
  BY <1>9, <1>10, <1>12, PlainCollapsed
<1>15. Equal(d, e) /\ Equal(e, d)
  <2>1. Equal(k, j)
    BY <1>11 DEF Equal
  <2>2. Within(d, e)
    BY <1>10, <1>11, <1>12, <1>13, <1>14, SameCollapsed
  <2>3. Within(e, d)
    BY <1>10, <1>12, <1>13, <1>14, <2>1, SameCollapsed
  <2> QED BY <2>2, <2>3 DEF Equal
<1>16. PICK g, h : g = Deduplicate(d) /\ h = Deduplicate(e)
  OBVIOUS
<1>17. Within(g, h) /\ Within(h, g)
  <2>1. Within(g, h)
    BY <1>13, <1>14, <1>15, <1>16, SameGrouped
  <2>2. Within(h, g)
    BY <1>13, <1>14, <1>15, <1>16, SameGrouped
  <2> QED BY <2>1, <2>2
<1>18. g = Grouped(x) /\ h = Grouped(y)
  BY <1>9, <1>12, <1>16 DEF Grouped
<1>19. Within(p, q) /\ Within(q, p)
  BY <1>17, <1>18, SameConsistent
<1> QED BY <1>7, <1>19 DEF Equal

(* Evidence that arrives in another order is told and decided the same, when*)
(* nothing pairs (StatusIgnoresOrder: "F-L6", the total orders of dedup.go  *)
(* and collapse.go, the agreement of scoring_provenance.go) and no two      *)
(* static findings tie for their place: of those collapsing keeps the first.*)
(* A scan without static findings has none, whatever its order.             *)
THEOREM OrderIsIgnored == Spec => [](Untied(Range(raw)) => StatusIgnoresOrder)
<1>1. ASSUME StageInv, AtExit, ~Hybrid, Untied(Range(raw)), NEW perm \in Bijection(DOMAIN raw, DOMAIN raw),
             NEW other \in Pipeline([i \in DOMAIN raw |-> raw[perm[i]]], files)
      PROVE  {<<Facts(f), DecideWithOptions(f, options.failOn, options)>> : f \in Restorations(other)}
               = {<<Facts(evs[i]), decisions[i]>> : i \in DOMAIN evs}
  <2>1. PICK t : t = [i \in DOMAIN raw |-> raw[perm[i]]]
    OBVIOUS
  <2>2. raw \in Seq(Native) /\ t \in Seq(Native) /\ Range(t) = Range(raw)
    <3>1. raw \in Seq(Native)
      BY <1>1 DEF StageInv
    <3>2. perm \in [DOMAIN raw -> DOMAIN raw] /\ \A w \in DOMAIN raw : \E v \in DOMAIN raw : perm[v] = w
      BY <1>1 DEF Bijection, Injection, Surjection
    <3>3. PICK n \in Nat : DOMAIN raw = 1 .. n /\ \A i \in 1 .. n : raw[i] \in Native
      BY <3>1
    <3>4. DOMAIN t = 1 .. n /\ t = [i \in 1 .. n |-> t[i]] /\ \A i \in 1 .. n : t[i] \in Native
      BY <2>1, <3>2, <3>3
    <3>5. t \in Seq(Native)
      BY <3>4
    <3>6. \A e \in Range(t) : e \in Range(raw)
      BY <2>1, <3>2 DEF Range
    <3>7. ASSUME NEW e \in Range(raw) PROVE e \in Range(t)
      <4>1. PICK w \in DOMAIN raw : e = raw[w]
        BY DEF Range
      <4>2. PICK v \in DOMAIN raw : perm[v] = w
        BY <3>2
      <4> QED BY <2>1, <4>1, <4>2 DEF Range
    <3> QED BY <3>1, <3>5, <3>6, <3>7
  <2>3. PICK x, y : x = Crossed(raw, files) /\ y = Crossed(t, files)
    OBVIOUS
  <2>4. PICK p, q : p = Consistently(Grouped(x)) /\ q = Consistently(Grouped(y))
    OBVIOUS
  <2>5. Equal(x, y) /\ Equal(p, q)
    <3>1. ~Hybrids(raw)
      BY <1>1 DEF Hybrid, Hybrids
    <3> QED BY <1>1, <2>2, <2>3, <2>4, <3>1, OrderFree
  <2>6. PICK one, two : one = Range(x) /\ two = Range(y)
    OBVIOUS
  <2>7. other.index = two /\ other.findings = q
    BY <1>1, <2>1, <2>3, <2>4, <2>6, PipelineStages
  <2>8. /\ evs = Refilled(one, p) /\ DOMAIN evs = DOMAIN p /\ \A i \in DOMAIN p : evs[i] = Restored(one, p[i])
        /\ \A i \in DOMAIN p : decisions[i] = DecideWithOptions(evs[i], options.failOn, options)
    BY <1>1, <2>3, <2>4, <2>6 DEF StageInv, AtExit, Refilled
  <2>9. ASSUME NEW u, NEW v, Same(u, v)
        PROVE  <<Facts(u), DecideWithOptions(u, options.failOn, options)>>
                 = <<Facts(v), DecideWithOptions(v, options.failOn, options)>>
    <3>1. \A k \in ButLists \ {"chain", "route"} : u[k] = v[k]
      BY <2>9 DEF Same, Told, ButLists
    <3>2. DOMAIN u = EvidenceFields /\ DOMAIN v = EvidenceFields
      BY <2>9 DEF Same
    <3>3. DecideWithOptions(u, options.failOn, options) = DecideWithOptions(v, options.failOn, options)
      BY <3>1, <3>2, SameDecision
    <3>4. Facts(u) = Facts(v)
      BY <2>9, <3>2, FactsTold
    <3> QED BY <3>3, <3>4
  <2>10. ASSUME NEW f \in Restorations(other) PROVE \E i \in DOMAIN evs : Same(f, evs[i])
    <3>1. PICK g \in Range(q) : f = Restored(two, g)
      BY <2>7 DEF Restorations
    <3>2. PICK i \in DOMAIN p : Same(g, p[i])
      BY <2>5 DEF Equal, Within, Range
    <3>3. PICK h, u : h = p[i] /\ u = evs[i]
      OBVIOUS
    <3>4. u = Restored(one, h)
      BY <2>8, <3>3
    <3>5. Equal(y, x)
      BY <2>5 DEF Equal
    <3>6. Same(f, u)
      BY <2>6, <3>1, <3>2, <3>3, <3>4, <3>5, SameRefilled
    <3> QED BY <2>8, <3>3, <3>6
  <2>11. ASSUME NEW i \in DOMAIN evs PROVE \E f \in Restorations(other) : Same(evs[i], f)
    <3>1. p[i] \in Range(p)
      BY <2>8 DEF Range
    <3>2. PICK g \in Range(q) : Same(p[i], g)
      BY <2>5, <3>1 DEF Equal, Within
    <3>3. PICK f : f = Restored(two, g)
      OBVIOUS
    <3>4. PICK h, u : h = p[i] /\ u = evs[i]
      OBVIOUS
    <3>5. u = Restored(one, h)
      BY <2>8, <3>4
    <3>6. Same(u, f)
      BY <2>5, <2>6, <3>2, <3>3, <3>4, <3>5, SameRefilled
    <3> QED BY <2>7, <3>2, <3>3, <3>4, <3>6 DEF Restorations
  <2>12. ASSUME NEW f \in Restorations(other)
         PROVE  \E i \in DOMAIN evs : <<Facts(f), DecideWithOptions(f, options.failOn, options)>> = <<Facts(evs[i]), decisions[i]>>
    <3>1. PICK i \in DOMAIN evs : Same(f, evs[i])
      BY <2>10
    <3>2. decisions[i] = DecideWithOptions(evs[i], options.failOn, options)
      BY <2>8
    <3> QED BY <2>9, <3>1, <3>2
  <2>13. ASSUME NEW i \in DOMAIN evs
         PROVE  \E f \in Restorations(other) :
                  <<Facts(f), DecideWithOptions(f, options.failOn, options)>> = <<Facts(evs[i]), decisions[i]>>
    <3>1. PICK f \in Restorations(other) : Same(evs[i], f)
      BY <2>11
    <3>2. decisions[i] = DecideWithOptions(evs[i], options.failOn, options)
      BY <2>8
    <3> QED BY <2>9, <3>1, <3>2
  <2> QED BY <2>12, <2>13
<1>2. StageInv => (Untied(Range(raw)) => StatusIgnoresOrder)
  BY <1>1 DEF StatusIgnoresOrder
<1> QED BY <1>2, StageInvHolds, PTL

-----------------------------------------------------------------------------
(* --- a relaxed run says what it overrode --------------------------------- *)
LEMMA OverrideSaid ==
  ASSUME NEW e, NEW failOn, NEW o, "enforce" \in DOMAIN o, ~o.enforce, NEW r, r = [o EXCEPT !.enforce = TRUE]
  PROVE  DecideWithOptions(e, failOn, o).override
           <=> /\ DecideWithOptions(e, failOn, o).status = "BLOCK"
               /\ DecideWithOptions(e, failOn, r).status # "BLOCK"
<1> DEFINE above == AboveThreshold(e, failOn)
           gate == ApplyConfidenceGate(e)
           alone == Independent(e) = {}
           held(d, x) == /\ d.above /\ ~x.blockInapplicable /\ d.status \in {"BLOCK", "WARN"}
                         /\ e.category = "deps" /\ ApplicabilityOf(e) = "evidence_against"
           Settled(d) == SettleOverride(IF o.deescalate /\ e.inTest THEN DeescalateTests(d, e) ELSE d)
<1>1. r.enforce = TRUE /\ r.blockInapplicable = o.blockInapplicable /\ r.deescalate = o.deescalate
  OBVIOUS
<1>2. gate \in {"WARN", "BLOCK"}
  BY DEF ApplyConfidenceGate
<1>3. PICK d : d = ApplyApplicabilityGate(Decide0(e, failOn, o), e, o)
  OBVIOUS
<1>4. PICK q : q = ApplyApplicabilityGate(Decide0(e, failOn, r), e, r)
  OBVIOUS
<1>5. DecideWithOptions(e, failOn, o) = Settled(d) /\ DecideWithOptions(e, failOn, r) = Settled(q)
  BY <1>1, <1>3, <1>4 DEF DecideWithOptions
<1>6. CASE ~above
  <2>1. PICK s \in {"WARN", "INFO"} : /\ Decide0(e, failOn, o) = [status |-> s, override |-> FALSE, above |-> FALSE]
    BY <1>6 DEF Decide0, AboveThreshold
  <2>2. d = [status |-> s, override |-> FALSE, above |-> FALSE]
    BY <1>3, <2>1 DEF ApplyApplicabilityGate
  <2>3. Settled(d).override = FALSE /\ Settled(d).status # "BLOCK"
    BY <2>2 DEF SettleOverride, DeescalateTests
  <2> QED BY <1>5, <2>3
<1>7. CASE above
  <2>1. PICK b \in BOOLEAN : b = (gate # "BLOCK")
    OBVIOUS
  <2>2. PICK a : a = above /\ a
    BY <1>7
  <2>3. Decide0(e, failOn, o) = [status |-> "BLOCK", override |-> b, above |-> TRUE]
    BY <1>7, <2>1, <2>2 DEF Decide0
  <2>4. Decide0(e, failOn, r) = [status |-> gate, override |-> FALSE, above |-> TRUE]
    BY <1>1, <1>7, <2>2 DEF Decide0
  <2> DEFINE h == ~o.blockInapplicable /\ e.category = "deps" /\ ApplicabilityOf(e) = "evidence_against"
  <2>5. CASE h
    <3>1. /\ d \in [status : {"WARN"}, override : BOOLEAN, above : BOOLEAN]
          /\ q \in [status : {"WARN"}, override : BOOLEAN, above : BOOLEAN]
      <4>1. Decide0(e, failOn, o) \in [status : {"BLOCK"}, override : BOOLEAN, above : BOOLEAN]
        BY <2>1, <2>3
      <4>2. Decide0(e, failOn, r) \in [status : {"BLOCK", "WARN"}, override : BOOLEAN, above : BOOLEAN]
        <5>1. PICK no \in BOOLEAN : no = FALSE
          OBVIOUS
        <5>2. CASE gate = "WARN"
          <6>1. Decide0(e, failOn, r) = [status |-> "WARN", override |-> no, above |-> TRUE]
            BY <2>4, <5>1, <5>2
          <6> QED BY ONLY <5>1, <6>1
        <5>3. CASE gate = "BLOCK"
          <6>1. Decide0(e, failOn, r) = [status |-> "BLOCK", override |-> no, above |-> TRUE]
            BY <2>4, <5>1, <5>3
          <6> QED BY ONLY <5>1, <6>1
        <5> HIDE DEF gate
        <5> QED BY <1>2, <5>2, <5>3
      <4>3. d = [Decide0(e, failOn, o) EXCEPT !.status = "WARN"]
        BY <1>3, <2>2, <2>3, <2>5 DEF ApplyApplicabilityGate
      <4>4. q = [Decide0(e, failOn, r) EXCEPT !.status = "WARN"]
        BY <1>1, <1>2, <1>4, <2>2, <2>4, <2>5 DEF ApplyApplicabilityGate
      <4> QED BY <4>1, <4>2, <4>3, <4>4
    <3> QED BY <1>5, <3>1 DEF SettleOverride, DeescalateTests
  <2>6. CASE ~h
    <3>1. d = [status |-> "BLOCK", override |-> b, above |-> TRUE] /\ q = [status |-> gate, override |-> FALSE, above |-> TRUE]
      BY <1>1, <1>3, <1>4, <2>3, <2>4, <2>6 DEF ApplyApplicabilityGate
    <3> QED BY <1>2, <1>5, <2>1, <2>2, <3>1 DEF SettleOverride, DeescalateTests
  <2> QED BY <2>5, <2>6
<1> QED BY <1>6, <1>7

(* A relaxed run says of a block that the shipped policy would have held it *)
(* exactly when it would (RelaxedSaysWhatItOverrode, settleOverride).       *)
THEOREM RelaxedIsFrank == Spec => []RelaxedSaysWhatItOverrode
<1>1. StageInv => RelaxedSaysWhatItOverrode
  <2> SUFFICES ASSUME StageInv, AtExit, ~options.enforce, NEW i \in DOMAIN evs
               PROVE  decisions[i].override <=>
                        /\ decisions[i].status = "BLOCK"
                        /\ DecideWithOptions(evs[i], options.failOn, [options EXCEPT !.enforce = TRUE]).status # "BLOCK"
    BY DEF RelaxedSaysWhatItOverrode
  <2>1. decisions[i] = DecideWithOptions(evs[i], options.failOn, options) /\ "enforce" \in DOMAIN options
    BY DEF StageInv, AtExit, Defaults
  <2>2. PICK r : r = [options EXCEPT !.enforce = TRUE]
    OBVIOUS
  <2> QED BY <2>1, <2>2, OverrideSaid
<1> QED BY <1>1, StageInvHolds, PTL
=============================================================================
