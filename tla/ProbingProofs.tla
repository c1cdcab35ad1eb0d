--------------------------- MODULE ProbingProofs ---------------------------
(***************************************************************************)
(* Proofs about Probing.                                                   *)
(***************************************************************************)
EXTENDS Probing, FiniteSetTheorems, TLAPS

-----------------------------------------------------------------------------
(* --- plans ---------------------------------------------------------------- *)
LEMMA Least == ASSUME NEW T, T \subseteq Nat, T # {} PROVE \E x \in T : \A y \in T : x <= y
<1>1. \E R : IsWellFoundedOn(R, Nat) /\ \A x, y \in Nat : x < y => <<x, y>> \in R
  <2>1. \A x, y \in Nat : x < y => <<x, y>> \in OpToRel(<, Nat)
    BY DEF OpToRel
  <2> QED BY NatLessThanWellFounded, <2>1, Zenon
<1>2. PICK R : IsWellFoundedOn(R, Nat) /\ \A x, y \in Nat : x < y => <<x, y>> \in R
  BY <1>1
<1>5. IsWellFoundedOn(R, Nat)
  BY <1>2
<1>6. \E x \in T : \A y \in T : ~(<<y, x>> \in R)
  BY ONLY <1>5, T \subseteq Nat, T # {}, WFMin, Zenon
<1>3. PICK x \in T : \A y \in T : ~(<<y, x>> \in R)
  BY <1>6
<1>4. x \in Nat /\ \A y \in T : y \in Nat /\ ~(y < x)
  BY <1>2, <1>3
<1> QED BY <1>4

LEMMA Division ==
  ASSUME NEW k \in Nat \ {0}, NEW a \in Nat
  PROVE  a \div k \in Nat /\ a % k \in 0..(k - 1) /\ a = k * (a \div k) + (a % k)
BY SMT

LEMMA Place ==
  ASSUME NEW k \in Nat \ {0}, NEW q \in Nat, NEW r \in 0..(k - 1), NEW q2 \in Nat, NEW r2 \in 0..(k - 1),
         k * q + r = k * q2 + r2
  PROVE  q = q2 /\ r = r2
<1>1. ASSUME NEW x \in Nat, NEW y \in Nat, x < y
      PROVE  k * x + k <= k * y
  <2>1. PICK d \in Nat : y = x + 1 + d
    <3>1. y - x - 1 \in Nat
      BY <1>1
    <3> QED BY <3>1
  <2>2. k * y = k * x + k + k * d /\ k * d \in Nat
    BY <2>1
  <2> QED BY <2>2
<1>2. ~(q < q2)
  BY <1>1
<1>3. ~(q2 < q)
  BY <1>1
<1> QED BY <1>2, <1>3

(* The place in the plan of the j-th kind for parameter t.                  *)
Slot(k, t, j) == k * (t - 1) + j

LEMMA SlotsAreOwn ==
  ASSUME NEW k \in Nat \ {0}, NEW t \in Nat \ {0}, NEW j \in 1..k, NEW t2 \in Nat \ {0}, NEW j2 \in 1..k,
         Slot(k, t, j) = Slot(k, t2, j2)
  PROVE  t = t2 /\ j = j2
<1>1. t - 1 \in Nat /\ t2 - 1 \in Nat /\ j - 1 \in 0..(k - 1) /\ j2 - 1 \in 0..(k - 1)
  OBVIOUS
<1>2. k * (t - 1) \in Nat /\ k * (t2 - 1) \in Nat
  BY <1>1
<1>3. k * (t - 1) + (j - 1) = k * (t2 - 1) + (j2 - 1)
  BY <1>2 DEF Slot
<1>4. t - 1 = t2 - 1 /\ j - 1 = j2 - 1
  BY <1>1, <1>3, Place
<1> QED BY <1>4

LEMMA SlotInPlan ==
  ASSUME NEW n \in Nat, NEW k \in Nat \ {0}, NEW t \in 1..n, NEW j \in 1..k
  PROVE  Slot(k, t, j) \in 1..(n * k)
<1>1. PICK d \in Nat : n = t + d
  <2>1. n - t \in Nat
    OBVIOUS
  <2> QED BY <2>1
<1>2. n * k = k * (t - 1) + k + k * d
  BY <1>1
<1>3. k * (t - 1) \in Nat /\ k * d \in Nat
  OBVIOUS
<1> QED BY <1>2, <1>3 DEF Slot

LEMMA SlotsInOrder ==
  ASSUME NEW k \in Nat, NEW t \in Nat \ {0}, NEW j \in Nat, NEW j2 \in Nat, j < j2
  PROVE  Slot(k, t, j) < Slot(k, t, j2)
<1>1. k * (t - 1) \in Nat
  OBVIOUS
<1> QED BY <1>1 DEF Slot

LEMMA PlanForAt ==
  ASSUME NEW n \in Nat, NEW kinds, NEW k \in Nat \ {0}, Len(kinds) = k
  PROVE  /\ PlanFor(n, kinds) \in Seq(Range(PlanFor(n, kinds)))
         /\ Len(PlanFor(n, kinds)) = n * k /\ DOMAIN PlanFor(n, kinds) = 1..(n * k)
         /\ \A t \in 1..n, j \in 1..k : PlanFor(n, kinds)[Slot(k, t, j)] = Probe(kinds[j], t)
         /\ \A i \in DOMAIN PlanFor(n, kinds) : \E t \in 1..n, j \in 1..k : i = Slot(k, t, j)
<1> DEFINE P == PlanFor(n, kinds)
<1>1. n * k \in Nat
  OBVIOUS
<1>2. P = [i \in 1..(n * k) |-> Probe(kinds[((i - 1) % k) + 1], ((i - 1) \div k) + 1)]
  BY DEF PlanFor
<1>3. P \in Seq(Range(P)) /\ Len(P) = n * k /\ DOMAIN P = 1..(n * k)
  <2>1. PICK m \in Nat : m = n * k
    BY <1>1
  <2>2. DOMAIN P = 1..m
    BY <1>2, <2>1
  <2>3. P \in [1..m -> Range(P)]
    BY <1>2, <2>1, <2>2 DEF Range
  <2>4. P \in Seq(Range(P)) /\ Len(P) = m
    BY <2>2, <2>3
  <2> QED BY <2>1, <2>2, <2>4
<1>4. ASSUME NEW t \in 1..n, NEW j \in 1..k PROVE P[Slot(k, t, j)] = Probe(kinds[j], t)
  <2>1. PICK i : i = Slot(k, t, j)
    OBVIOUS
  <2>2. i \in 1..(n * k)
    BY <2>1, SlotInPlan
  <2>3. PICK a \in Nat : a = i - 1
    <3>1. i - 1 \in Nat
      BY <2>2, <1>1
    <3> QED BY <3>1
  <2>4. PICK q \in Nat, r \in 0..(k - 1) : q = a \div k /\ r = a % k /\ a = k * q + r
    BY Division, ZenonT(40)
  <2>5. t - 1 \in Nat /\ j - 1 \in 0..(k - 1) /\ k * (t - 1) \in Nat
    OBVIOUS
  <2>6. PICK x \in Nat, y \in 0..(k - 1) : x = t - 1 /\ y = j - 1
    BY <2>5
  <2>7. k * x + y = k * q + r
    BY <2>1, <2>2, <2>3, <2>4, <2>5, <2>6, <1>1 DEF Slot
  <2>8. x = q /\ y = r
    BY <2>7, Place
  <2>9. t = q + 1 /\ j = r + 1
    BY <2>6, <2>8
  <2>10. P[i] = Probe(kinds[r + 1], q + 1)
    BY <1>2, <2>2, <2>3, <2>4
  <2> QED BY <2>1, <2>9, <2>10
<1>5. ASSUME NEW i \in 1..(n * k) PROVE \E t \in 1..n, j \in 1..k : i = Slot(k, t, j)
  <2>1. i - 1 \in Nat
    BY <1>1
  <2>2. PICK q \in Nat, r \in 0..(k - 1) : i - 1 = k * q + r
    BY <2>1, Division, ZenonT(40)
  <2>3. q < n
    <3>1. SUFFICES ASSUME q >= n PROVE FALSE
      OBVIOUS
    <3>2. PICK d \in Nat : q = n + d
      <4>1. q - n \in Nat
        BY <3>1
      <4> QED BY <4>1
    <3>3. k * q = n * k + k * d /\ k * d \in Nat
      BY <3>2
    <3> QED BY <3>3, <2>2, <1>1
  <2>4. i = Slot(k, q + 1, r + 1)
    BY <2>2 DEF Slot
  <2> QED BY <2>3, <2>4
<1> QED BY <1>3, <1>4, <1>5

(* A plan names each of its requests once, so that a probe has one place.   *)
ProperPlan(P) ==
    /\ Len(P) \in Nat /\ DOMAIN P = 1..Len(P)
    /\ \A i, j \in DOMAIN P : P[i] = P[j] => i = j
    /\ \A i \in DOMAIN P : P[i] # NoProbe

LEMMA ProbeParts ==
  ASSUME NEW k, NEW t, NEW k2, NEW t2, Probe(k, t) = Probe(k2, t2)
  PROVE  k = k2 /\ t = t2
BY DEF Probe

LEMMA PlanForEach ==
  ASSUME NEW n \in Nat, NEW kinds, NEW k \in Nat \ {0}, Len(kinds) = k, NEW x \in DOMAIN PlanFor(n, kinds)
  PROVE  \E t \in 1..n, j \in 1..k : x = Slot(k, t, j) /\ PlanFor(n, kinds)[x] = Probe(kinds[j], t)
<1>1. \A y \in DOMAIN PlanFor(n, kinds) : \E t \in 1..n, j \in 1..k : y = Slot(k, t, j)
  BY PlanForAt
<1>2. PICK t \in 1..n, j \in 1..k : x = Slot(k, t, j)
  BY <1>1
<1>3. PlanFor(n, kinds)[Slot(k, t, j)] = Probe(kinds[j], t)
  BY PlanForAt, SMTT(30)
<1> QED BY <1>2, <1>3

LEMMA PlanForProper ==
  ASSUME NEW n \in Nat, NEW kinds, NEW k \in Nat \ {0}, Len(kinds) = k,
         \A i, j \in 1..k : kinds[i] = kinds[j] => i = j, \A i \in 1..k : kinds[i] # "none"
  PROVE  ProperPlan(PlanFor(n, kinds))
<1> DEFINE P == PlanFor(n, kinds)
<1>1. PICK m \in Nat : m = n * k
  OBVIOUS
<1>2. Len(P) = m /\ DOMAIN P = 1..m
  BY <1>1, PlanForAt
<1>3. ASSUME NEW i \in 1..m PROVE \E t \in 1..n, j \in 1..k : i = Slot(k, t, j) /\ P[i] = Probe(kinds[j], t)
  <2>0. \A x \in DOMAIN P : \E t \in 1..n, j \in 1..k : x = Slot(k, t, j)
    BY PlanForAt
  <2>01. i \in DOMAIN P
    BY <1>2
  <2>1. PICK t \in 1..n, j \in 1..k : i = Slot(k, t, j)
    <3> HIDE DEF P
    <3> QED BY <2>01, <2>0
  <2>2. P[Slot(k, t, j)] = Probe(kinds[j], t)
    BY PlanForAt
  <2> QED BY <2>1, <2>2
<1>4. ASSUME NEW i \in 1..m PROVE P[i] # NoProbe
  <2>1. PICK t \in 1..n, j \in 1..k : P[i] = Probe(kinds[j], t)
    BY <1>3
  <2> QED BY <2>1 DEF NoProbe, Probe
<1>5. ASSUME NEW i \in 1..m, NEW i2 \in 1..m, P[i] = P[i2] PROVE i = i2
  <2>1. PICK t \in 1..n, j \in 1..k : i = Slot(k, t, j) /\ P[i] = Probe(kinds[j], t)
    BY <1>3
  <2>2. PICK t2 \in 1..n, j2 \in 1..k : i2 = Slot(k, t2, j2) /\ P[i2] = Probe(kinds[j2], t2)
    BY <1>3
  <2>3. kinds[j] = kinds[j2] /\ t = t2
    BY <1>5, <2>1, <2>2, ProbeParts
  <2> QED BY <2>1, <2>2, <2>3
<1> QED BY <1>2, <1>4, <1>5 DEF ProperPlan

LEMMA PlanAfter ==
  ASSUME NEW p, NEW P, P \in Seq(Range(P)), ProperPlan(P), p # NoProbe, \A i \in DOMAIN P : P[i] # p
  PROVE  /\ ProperPlan(<<p>> \o P) /\ Len(<<p>> \o P) = Len(P) + 1 /\ (<<p>> \o P)[1] = p
         /\ \A i \in DOMAIN P : (<<p>> \o P)[i + 1] = P[i]
         /\ \A i \in 1..(Len(P) + 1) : i = 1 \/ (i - 1 \in DOMAIN P /\ (<<p>> \o P)[i] = P[i - 1])
<1> DEFINE Q == <<p>> \o P
           S == Range(P) \cup {p}
<1>1. PICK m \in Nat : m = Len(P) /\ DOMAIN P = 1..m
  BY DEF ProperPlan
<1>2. P \in Seq(S) /\ <<p>> \in Seq(S)
  OBVIOUS
<1>3. Len(Q) = m + 1 /\ DOMAIN Q = 1..(m + 1) /\ Q[1] = p /\ \A i \in 1..m : Q[i + 1] = P[i]
  BY <1>1, <1>2
<1>4. \A i \in 1..(m + 1) : i = 1 \/ (i - 1 \in 1..m /\ Q[i] = P[i - 1])
  BY <1>3
<1>5. \A i, j \in 1..(m + 1) : Q[i] = Q[j] => i = j
  <2> SUFFICES ASSUME NEW i \in 1..(m + 1), NEW j \in 1..(m + 1), Q[i] = Q[j] PROVE i = j
    OBVIOUS
  <2>1. CASE i = 1
    <3>1. Q[j] = p
      BY <2>1, <1>3
    <3>2. \A x \in 1..m : P[x] # p
      BY <1>1
    <3> QED BY <3>1, <3>2, <2>1, <1>4
  <2>3. CASE j = 1
    <3>1. Q[i] = p
      BY <2>3, <1>3
    <3>2. \A x \in 1..m : P[x] # p
      BY <1>1
    <3> QED BY <3>1, <3>2, <2>3, <1>4
  <2>2. CASE i # 1 /\ j # 1
    <3>1. i - 1 \in 1..m /\ j - 1 \in 1..m /\ P[i - 1] = P[j - 1]
      BY <2>2, <1>4
    <3>2. i - 1 = j - 1
      BY <3>1, <1>1 DEF ProperPlan
    <3> QED BY <3>2
  <2> QED BY <2>1, <2>2, <2>3
<1>6. \A i \in 1..(m + 1) : Q[i] # NoProbe
  BY <1>1, <1>3, <1>4 DEF ProperPlan
<1> QED BY <1>1, <1>3, <1>4, <1>5, <1>6 DEF ProperPlan

LEMMA InjectionPlanProper ==
  ASSUME NEW s, Len(TargetsForEndpoint(s)) \in Nat
  PROVE  ProperPlan(InjectionPlan(s))
<1> DEFINE kinds == <<"base", "time1", "again1", "time2", "again2", "error",
                       "control1", "control2", "true", "false", "cmdi", "crlf">>
<1>1. Len(kinds) = 12 /\ (\A i \in 1..12 : kinds[i] # "none")
  OBVIOUS
<1>2. \A i, j \in 1..12 : kinds[i] = kinds[j] => i = j
  BY SMTT(30)
<1>3. PICK K : K = kinds
  OBVIOUS
<1> DEFINE k == 12
<1>4. k \in Nat \ {0} /\ Len(K) = k /\ (\A i \in 1..k : K[i] # "none") /\ \A i, j \in 1..k : K[i] = K[j] => i = j
  BY <1>1, <1>2, <1>3
<1>5. ProperPlan(PlanFor(Len(TargetsForEndpoint(s)), K))
  <2> HIDE DEF k, kinds
  <2> QED BY <1>4, PlanForProper
<1> QED BY <1>3, <1>5 DEF InjectionPlan, ForEachTarget

LEMMA XssPlanProper ==
  ASSUME NEW s, Len(TargetsForEndpoint(s)) \in Nat
  PROVE  ProperPlan(XssPlan(s))
<1>1. PICK K : K = <<"xss">>
  OBVIOUS
<1>2. Len(K) = 1 /\ (\A i \in 1..1 : K[i] # "none") /\ \A i, j \in 1..1 : K[i] = K[j] => i = j
  BY <1>1
<1>3. ProperPlan(PlanFor(Len(TargetsForEndpoint(s)), K))
  BY <1>2, PlanForProper, SMTT(30)
<1> QED BY <1>1, <1>3 DEF XssPlan, ForEachTarget

LEMMA RedirectPlanProper == ASSUME NEW s PROVE ProperPlan(RedirectPlan(s))
<1>1. PICK K : K = <<"plain", "suffix", "scheme">>
  OBVIOUS
<1>2. Len(K) = 3 /\ (\A i \in 1..3 : K[i] # "none") /\ \A i, j \in 1..3 : K[i] = K[j] => i = j
  BY <1>1
<1>3. PICK n \in Nat, k \in Nat \ {0} : n = 2 /\ k = 3
  OBVIOUS
<1>4. Len(K) = k /\ (\A i \in 1..k : K[i] # "none") /\ \A i, j \in 1..k : K[i] = K[j] => i = j
  BY <1>2, <1>3
<1>5. ProperPlan(PlanFor(n, K))
  BY <1>4, PlanForProper
<1> QED BY <1>1, <1>3, <1>5 DEF RedirectPlan, RedirectParams

LEMMA SsrfPlanIs ==
  ASSUME NEW s, NEW n \in Nat, n = Len(TargetsForEndpoint(s)),
         NEW K, K = <<"canary", "testnet", "redirect", "timing-base", "timing1", "timing2">>,
         NEW Q, Q = PlanFor(n, K)
  PROVE  /\ SsrfPlan(s) = <<Probe("ssrf-base", 0)>> \o Q /\ Q \in Seq(Range(Q)) /\ ProperPlan(Q)
         /\ \A i \in DOMAIN Q : Q[i] # Probe("ssrf-base", 0)
<1>2. Len(K) = 6 /\ (\A i \in 1..6 : K[i] # "none" /\ K[i] # "ssrf-base")
      /\ \A i, j \in 1..6 : K[i] = K[j] => i = j
  OBVIOUS
<1>0. PICK k \in Nat \ {0} : k = 6
  OBVIOUS
<1>3. Len(K) = k /\ (\A i \in 1..k : K[i] # "none" /\ K[i] # "ssrf-base")
      /\ \A i, j \in 1..k : K[i] = K[j] => i = j
  BY <1>0, <1>2
<1>4. ProperPlan(Q) /\ Q \in Seq(Range(Q))
  BY <1>3, PlanForProper, PlanForAt, ZenonT(40)
<1>5. ASSUME NEW i \in DOMAIN Q PROVE Q[i] # Probe("ssrf-base", 0)
  <2>4. Len(K) = k
    BY <1>3
  <2>1. \A x \in DOMAIN Q : \E t \in 1..n, j \in 1..k : x = Slot(k, t, j)
    <3>1. \A x \in DOMAIN PlanFor(n, K) : \E t \in 1..n, j \in 1..k : x = Slot(k, t, j)
      BY ONLY <2>4, n \in Nat, k \in Nat \ {0}, PlanForAt
    <3> QED BY <3>1
  <2>5. \A t \in 1..n, j \in 1..k : Q[Slot(k, t, j)] = Probe(K[j], t)
    <3>1. \A t \in 1..n, j \in 1..k : PlanFor(n, K)[Slot(k, t, j)] = Probe(K[j], t)
      BY ONLY <2>4, n \in Nat, k \in Nat \ {0}, PlanForAt
    <3> QED BY <3>1
  <2>2. PICK t \in 1..n, j \in 1..k : i = Slot(k, t, j)
    BY <2>1
  <2>3. Q[Slot(k, t, j)] = Probe(K[j], t)
    BY <2>5
  <2> QED BY <2>2, <2>3, <1>3 DEF Probe
<1>6. SsrfPlan(s) = <<Probe("ssrf-base", 0)>> \o Q
  BY DEF SsrfPlan, ForEachTarget
<1> QED BY <1>4, <1>5, <1>6

LEMMA SsrfPlanProper ==
  ASSUME NEW s, Len(TargetsForEndpoint(s)) \in Nat
  PROVE  ProperPlan(SsrfPlan(s))
<1>1. PICK K : K = <<"canary", "testnet", "redirect", "timing-base", "timing1", "timing2">>
  OBVIOUS
<1>2. PICK n \in Nat : n = Len(TargetsForEndpoint(s))
  OBVIOUS
<1>3. PICK Q : Q = PlanFor(n, K)
  OBVIOUS
<1>4. /\ SsrfPlan(s) = <<Probe("ssrf-base", 0)>> \o Q /\ Q \in Seq(Range(Q)) /\ ProperPlan(Q)
      /\ \A i \in DOMAIN Q : Q[i] # Probe("ssrf-base", 0)
  BY <1>1, <1>2, <1>3, SsrfPlanIs
<1>5. Probe("ssrf-base", 0) # NoProbe
  BY DEF Probe, NoProbe
<1> QED BY <1>4, <1>5, PlanAfter

LEMMA HostHeaderPlanIs ==
  ASSUME NEW s
  PROVE  HostHeaderPlan(s) = <<Probe("hh-base", 0), Probe("host", 0), Probe("x-forwarded-host", 0),
                               Probe("x-forwarded-server", 0), Probe("forwarded", 0)>>
BY DEF HostHeaderPlan, HostHeaderVectors

LEMMA MethodTamperPlanIs ==
  ASSUME NEW s
  PROVE  MethodTamperPlan(s) = <<Probe("canonical", 0), Probe("canonical-bare", 0), Probe("GET", 0), Probe("POST", 0),
                                 Probe("HEAD", 0), Probe("OPTIONS", 0), Probe("PUT", 0), Probe("TRACE", 0),
                                 Probe("danger-PUT", 0), Probe("danger-DELETE", 0)>>
BY DEF MethodTamperPlan

LEMMA AuthPlanIs ==
  ASSUME NEW s
  PROVE  AuthPlan(s) = <<Probe("anonymous", 0), Probe("garbage", 0), Probe("real", 0), Probe("malformed", 0),
                         Probe("expired", 0), Probe("alg-none", 0)>>
BY DEF AuthPlan

LEMMA CorsPlanIs ==
  ASSUME NEW s
  PROVE  \/ CorsPlan(s) = <<Probe("preflight", 1), Probe("preflight", 2), Probe("preflight", 3)>>
         \/ CorsPlan(s) = <<Probe("preflight", 1), Probe("preflight", 2), Probe("preflight", 3),
                            Probe("simple", 1), Probe("simple", 2), Probe("simple", 3)>>
<1>1. 0 % 3 = 0 /\ 1 % 3 = 1 /\ 2 % 3 = 2 /\ 3 % 3 = 0 /\ 4 % 3 = 1 /\ 5 % 3 = 2
  BY SMT
<1> QED BY <1>1 DEF CorsPlan

LEMMA RateLimitPlanIs ==
  ASSUME NEW s
  PROVE  RateLimitPlan(s) = <<Probe("burst", 1), Probe("burst", 2), Probe("burst", 3), Probe("burst", 4)>>
BY DEF RateLimitPlan, RateLimitProbeCount

LEMMA GraphqlPlanIs ==
  ASSUME NEW s, NEW ep, NEW sweep
  PROVE  \/ ~sweep /\ GraphqlPlan(s, ep, sweep) = << >>
         \/ ~sweep /\ GraphqlPlan(s, ep, sweep) = <<Probe("introspect", 3), Probe("get", 3)>>
         \/ sweep /\ GraphqlPlan(s, ep, sweep) = <<Probe("introspect", 1), Probe("get", 1),
                                                   Probe("introspect", 2), Probe("get", 2)>>
         \/ sweep /\ GraphqlPlan(s, ep, sweep) = <<Probe("introspect", 1), Probe("get", 1), Probe("introspect", 2),
                                                   Probe("get", 2), Probe("introspect", 3), Probe("get", 3)>>
<1> DEFINE C == GraphqlCandidates(s, ep, sweep)
           G == [i \in 1..(2 * Len(C)) |-> Probe(IF i % 2 = 1 THEN "introspect" ELSE "get", C[(i + 1) \div 2])]
           K == [i \in 1..2 |-> i]
<1>1. 1 % 2 = 1 /\ 2 % 2 = 0 /\ 3 % 2 = 1 /\ 4 % 2 = 0 /\ 5 % 2 = 1 /\ 6 % 2 = 0
      /\ 2 \div 2 = 1 /\ 3 \div 2 = 1 /\ 4 \div 2 = 2 /\ 5 \div 2 = 2 /\ 6 \div 2 = 3 /\ 7 \div 2 = 3
  BY SMT
<1>2. PICK k : k = IF sweep THEN K ELSE << >>
  OBVIOUS
<1>3. k \in Seq(Nat) /\ (sweep => Len(k) = 2 /\ k[1] = 1 /\ k[2] = 2) /\ (~sweep => Len(k) = 0)
  BY <1>2
<1>9. C = k \/ C = Append(k, 3)
  BY <1>2 DEF GraphqlCandidates, OwnPath, KnownPaths
<1>10. Append(k, 3) \in Seq(Nat) /\ Len(Append(k, 3)) = Len(k) + 1 /\ Append(k, 3)[Len(k) + 1] = 3
       /\ \A i \in 1..Len(k) : Append(k, 3)[i] = k[i]
  BY <1>3
<1>11. \/ ~sweep /\ Len(C) = 0
       \/ ~sweep /\ Len(C) = 1 /\ C[1] = 3
       \/ sweep /\ Len(C) = 2 /\ C[1] = 1 /\ C[2] = 2
       \/ sweep /\ Len(C) = 3 /\ C[1] = 1 /\ C[2] = 2 /\ C[3] = 3
  <2> HIDE DEF C, K
  <2>1. PICK A : A = Append(k, 3)
    OBVIOUS
  <2>2. Len(A) = Len(k) + 1 /\ A[Len(k) + 1] = 3 /\ \A i \in 1..Len(k) : A[i] = k[i]
    BY <1>10, <2>1
  <2>3. CASE sweep
    <3>1. Len(k) = 2
      BY <1>3, <2>3
    <3>2. Len(A) = 3 /\ A[3] = 3 /\ A[1] = 1 /\ A[2] = 2
      BY <2>2, <3>1, <1>3, <2>3
    <3> QED BY <3>1, <3>2, <2>1, <1>9, <1>3, <2>3
  <2>4. CASE ~sweep
    <3>1. Len(A) = 1 /\ A[1] = 3
      BY <2>2, <1>3, <2>4
    <3> QED BY <3>1, <2>1, <1>9, <1>3, <2>4
  <2> QED BY <2>3, <2>4
<1>4. GraphqlPlan(s, ep, sweep) = G
  BY DEF GraphqlPlan
<1> HIDE DEF C
<1>5. CASE ~sweep /\ Len(C) = 0
  BY <1>4, <1>5
<1>6. CASE ~sweep /\ Len(C) = 1 /\ C[1] = 3
  BY <1>1, <1>4, <1>6
<1>7. CASE sweep /\ Len(C) = 2 /\ C[1] = 1 /\ C[2] = 2
  BY <1>1, <1>4, <1>7
<1>8. CASE sweep /\ Len(C) = 3 /\ C[1] = 1 /\ C[2] = 2 /\ C[3] = 3
  BY <1>1, <1>4, <1>8
<1> QED BY <1>11, <1>5, <1>6, <1>7, <1>8

LEMMA KindsProper ==
  ASSUME NEW n \in Nat, NEW P, NEW K, P = [i \in 1..n |-> Probe(K[i], 0)],
         \A i, j \in 1..n : K[i] = K[j] => i = j, \A i \in 1..n : K[i] # "none"
  PROVE  ProperPlan(P)
BY ProbeParts DEF ProperPlan, NoProbe

LEMMA ShortPlansProper ==
  ASSUME NEW s, NEW ep, NEW sweep
  PROVE  /\ ProperPlan(HostHeaderPlan(s)) /\ ProperPlan(MethodTamperPlan(s)) /\ ProperPlan(AuthPlan(s))
         /\ ProperPlan(CorsPlan(s)) /\ ProperPlan(RateLimitPlan(s)) /\ ProperPlan(GraphqlPlan(s, ep, sweep))
         /\ ProperPlan(IdorPlan(s)) /\ ProperPlan(ConfigLeakPlan(s)) /\ ProperPlan(HeadersPlan(s))
         /\ ProperPlan(ExposurePlan(s)) /\ ProperPlan(CookiePlan(s))
<1>1. ProperPlan(HostHeaderPlan(s))
  <2>1. PICK K : K = <<"hh-base", "host", "x-forwarded-host", "x-forwarded-server", "forwarded">>
    OBVIOUS
  <2>2. HostHeaderPlan(s) = [i \in 1..5 |-> Probe(K[i], 0)]
    BY <2>1, HostHeaderPlanIs
  <2>3. (\A i, j \in 1..5 : K[i] = K[j] => i = j) /\ \A i \in 1..5 : K[i] # "none"
    BY <2>1
  <2>4. PICK n \in Nat : n = 5
    OBVIOUS
  <2>7. PICK P : P = HostHeaderPlan(s)
    OBVIOUS
  <2>5. P = [i \in 1..n |-> Probe(K[i], 0)] /\ (\A i \in 1..n : K[i] # "none")
        /\ \A i, j \in 1..n : K[i] = K[j] => i = j
    BY <2>2, <2>3, <2>4, <2>7
  <2>6. ProperPlan(P)
    BY <2>5, KindsProper
  <2> QED BY <2>7, <2>6
<1>2. ProperPlan(MethodTamperPlan(s))
  <2>1. PICK K : K = <<"canonical", "canonical-bare", "GET", "POST", "HEAD", "OPTIONS", "PUT",
                       "TRACE", "danger-PUT", "danger-DELETE">>
    OBVIOUS
  <2>2. MethodTamperPlan(s) = [i \in 1..10 |-> Probe(K[i], 0)]
    BY <2>1 DEF MethodTamperPlan
  <2>3. (\A i, j \in 1..10 : K[i] = K[j] => i = j) /\ \A i \in 1..10 : K[i] # "none"
    BY <2>1
  <2>4. PICK n \in Nat : n = 10
    OBVIOUS
  <2>7. PICK P : P = MethodTamperPlan(s)
    OBVIOUS
  <2>5. P = [i \in 1..n |-> Probe(K[i], 0)] /\ (\A i \in 1..n : K[i] # "none")
        /\ \A i, j \in 1..n : K[i] = K[j] => i = j
    BY <2>2, <2>3, <2>4, <2>7
  <2>6. ProperPlan(P)
    BY <2>5, KindsProper
  <2> QED BY <2>7, <2>6
<1>3. ProperPlan(AuthPlan(s))
  <2>1. PICK K : K = <<"anonymous", "garbage", "real", "malformed", "expired", "alg-none">>
    OBVIOUS
  <2>2. AuthPlan(s) = [i \in 1..6 |-> Probe(K[i], 0)]
    BY <2>1 DEF AuthPlan
  <2>3. (\A i, j \in 1..6 : K[i] = K[j] => i = j) /\ \A i \in 1..6 : K[i] # "none"
    BY <2>1
  <2>4. PICK n \in Nat : n = 6
    OBVIOUS
  <2>7. PICK P : P = AuthPlan(s)
    OBVIOUS
  <2>5. P = [i \in 1..n |-> Probe(K[i], 0)] /\ (\A i \in 1..n : K[i] # "none")
        /\ \A i, j \in 1..n : K[i] = K[j] => i = j
    BY <2>2, <2>3, <2>4, <2>7
  <2>6. ProperPlan(P)
    BY <2>5, KindsProper
  <2> QED BY <2>7, <2>6
<1>4. ProperPlan(CorsPlan(s))
  BY CorsPlanIs DEF ProperPlan, Probe, NoProbe
<1>5. ProperPlan(RateLimitPlan(s))
  BY RateLimitPlanIs, SMTT(30) DEF ProperPlan, Probe, NoProbe
<1>6. ProperPlan(GraphqlPlan(s, ep, sweep))
  BY GraphqlPlanIs, SMTT(30) DEF ProperPlan, Probe, NoProbe
<1>7. ProperPlan(IdorPlan(s))
  BY DEF IdorPlan, ProperPlan, Probe, NoProbe
<1>8. ProperPlan(ConfigLeakPlan(s)) /\ ProperPlan(HeadersPlan(s))
  BY DEF ConfigLeakPlan, HeadersPlan, ProperPlan, Probe, NoProbe
<1>9. ProperPlan(ExposurePlan(s)) /\ ProperPlan(CookiePlan(s))
  BY DEF ExposurePlan, CookiePlan, ProperPlan, Probe, NoProbe
<1> QED BY <1>1, <1>2, <1>3, <1>4, <1>5, <1>6, <1>7, <1>8, <1>9

LEMMA TargetsListed ==
  ASSUME NEW s, IsScene(s)
  PROVE  Len(TargetsForEndpoint(s)) \in Nat \ {0} /\ DOMAIN TargetsForEndpoint(s) = 1..Len(TargetsForEndpoint(s))
<1>1. Len(s.targets) \in Nat /\ DOMAIN s.targets = 1..Len(s.targets)
  BY DEF IsScene
<1>2. CASE \E i \in DOMAIN s.targets : Sendable(s, s.targets[i])
  <2>1. TargetsForEndpoint(s) = s.targets
    BY <1>2 DEF TargetsForEndpoint
  <2> QED BY <2>1, <1>1, <1>2
<1>3. CASE ~\E i \in DOMAIN s.targets : Sendable(s, s.targets[i])
  <2>1. PICK r : TargetsForEndpoint(s) = <<r>>
    BY <1>3 DEF TargetsForEndpoint
  <2> QED BY <2>1
<1> QED BY <1>2, <1>3

LEMMA PlanProper ==
  ASSUME NEW s, IsScene(s), NEW c, c.check \in ActiveTier \cup PassiveTier, NEW sweep
  PROVE  ProperPlan(Plan(s, c, sweep))
<1>1. /\ ProperPlan(InjectionPlan(s)) /\ ProperPlan(XssPlan(s))
      /\ ProperPlan(SsrfPlan(s)) /\ ProperPlan(RedirectPlan(s))
  BY TargetsListed, InjectionPlanProper, XssPlanProper, SsrfPlanProper, RedirectPlanProper
<1>2. PICK ep, k : ep = c.ep /\ k = c.check
  OBVIOUS
<1>3. ProperPlan(GraphqlPlan(s, ep, sweep))
  BY ShortPlansProper
<1> QED BY <1>1, <1>2, <1>3, ShortPlansProper DEF Plan, ActiveTier, PassiveTier

-----------------------------------------------------------------------------
(* --- what a check has done so far -------------------------------------- *)
(* What the check knew when it came to the i-th request of its plan.        *)
Upto(steps, seen, i) == [q \in {steps[k] : k \in 1..(i - 1)} \cap DOMAIN seen |-> seen[q]]

\* A request that failed, or was not sent.
Lost == {NoAnswer, Answer(0, {"cut"})}

(* The check got past the first n - 1 requests of its plan: it settled those *)
(* that what it knew called for, each with an answer of the target or none,  *)
(* and left out the others.                                                  *)
Settled(s, c, steps, seen, i) ==
    /\ Wanted(s, c, Upto(steps, seen, i), steps[i])
    /\ seen[steps[i]] \in Answers(s, c, Upto(steps, seen, i), steps[i]) \cup Lost

Follows(s, c, steps, seen, n) ==
    /\ \A q \in DOMAIN seen : \E i \in 1..(n - 1) : q = steps[i]
    /\ \A i \in 1..(n - 1) : steps[i] \in DOMAIN seen => Settled(s, c, steps, seen, i)
    /\ \A i \in 1..(n - 1) : steps[i] \notin DOMAIN seen => ~Wanted(s, c, Upto(steps, seen, i), steps[i])
    /\ seen = [q \in DOMAIN seen |-> seen[q]]

LEMMA UptoAll ==
  ASSUME NEW s, NEW c, NEW steps, NEW seen, NEW n \in Nat, Follows(s, c, steps, seen, n), NEW i \in Nat, n <= i
  PROVE  Upto(steps, seen, i) = seen
<1>1. \A q \in DOMAIN seen : q \in {steps[k] : k \in 1..(i - 1)}
  BY DEF Follows
<1>2. {steps[k] : k \in 1..(i - 1)} \cap DOMAIN seen = DOMAIN seen
  BY <1>1
<1>3. seen = [q \in DOMAIN seen |-> seen[q]]
  BY DEF Follows
<1> QED BY <1>2, <1>3 DEF Upto

LEMMA Extended ==
  ASSUME NEW p, NEW a, NEW f, p \notin DOMAIN f
  PROVE  /\ DOMAIN With(f, p, a) = DOMAIN f \cup {p}
         /\ With(f, p, a)[p] = a
         /\ \A q \in DOMAIN f : With(f, p, a)[q] = f[q]
         /\ With(f, p, a) = [q \in DOMAIN With(f, p, a) |-> With(f, p, a)[q]]
BY DEF With

LEMMA UptoKept ==
  ASSUME NEW steps, ProperPlan(steps), NEW seen, NEW m \in DOMAIN steps, NEW a,
         seen = [q \in DOMAIN seen |-> seen[q]], steps[m] \notin DOMAIN seen, NEW i \in 1..m
  PROVE  Upto(steps, With(seen, steps[m], a), i) = Upto(steps, seen, i)
<1> DEFINE T == {steps[k] : k \in 1..(i - 1)}
           new == With(seen, steps[m], a)
<1>1. DOMAIN new = DOMAIN seen \cup {steps[m]} /\ \A q \in DOMAIN seen : new[q] = seen[q]
  BY DEF With
<1>2. steps[m] \notin T
  BY DEF ProperPlan
<1> HIDE DEF new
<1>3. T \cap DOMAIN new = T \cap DOMAIN seen
  BY <1>1, <1>2
<1>4. \A q \in T \cap DOMAIN seen : new[q] = seen[q]
  BY <1>1
<1>5. Upto(steps, new, i) = [q \in T \cap DOMAIN new |-> new[q]] /\ Upto(steps, seen, i) = [q \in T \cap DOMAIN seen |-> seen[q]]
  BY DEF Upto
<1>6. Upto(steps, new, i) = Upto(steps, seen, i)
  BY <1>3, <1>4, <1>5
<1> QED BY <1>6 DEF new

LEMMA FollowsOn ==
  ASSUME NEW s, NEW c, NEW steps, NEW seen, NEW n \in Nat, Follows(s, c, steps, seen, n),
         n >= 1, NEW m \in Nat, n <= m, ProperPlan(steps), m <= Len(steps) + 1,
         \A i \in n..(m - 1) : ~Wanted(s, c, seen, steps[i])
  PROVE  Follows(s, c, steps, seen, m)
<1>1. \A q \in DOMAIN seen : \E i \in 1..(m - 1) : q = steps[i]
  BY DEF Follows
<1>2. ASSUME NEW i \in 1..(m - 1), i >= n
      PROVE  ~Wanted(s, c, Upto(steps, seen, i), steps[i])
  <2>1. Upto(steps, seen, i) = seen
    BY <1>2, UptoAll
  <2> QED BY <2>1, <1>2
<1>3. ASSUME NEW i \in 1..(m - 1), steps[i] \in DOMAIN seen PROVE Settled(s, c, steps, seen, i)
  <2>1. CASE i < n
    BY <2>1, <1>3 DEF Follows
  <2>2. CASE i >= n
    <3>1. PICK k \in 1..(n - 1) : steps[i] = steps[k]
      BY <1>3 DEF Follows
    <3>2. i \in DOMAIN steps /\ k \in DOMAIN steps
      BY <2>2 DEF ProperPlan
    <3>3. i = k
      BY <3>1, <3>2 DEF ProperPlan
    <3> QED BY <3>3, <2>2
  <2> QED BY <2>1, <2>2
<1>4. \A i \in 1..(m - 1) : steps[i] \notin DOMAIN seen => ~Wanted(s, c, Upto(steps, seen, i), steps[i])
  <2> SUFFICES ASSUME NEW i \in 1..(m - 1), steps[i] \notin DOMAIN seen
               PROVE  ~Wanted(s, c, Upto(steps, seen, i), steps[i])
    OBVIOUS
  <2>1. CASE i < n
    BY <2>1 DEF Follows
  <2>2. CASE i >= n
    BY <2>2, <1>2
  <2> QED BY <2>1, <2>2
<1>5. seen = [q \in DOMAIN seen |-> seen[q]]
  BY DEF Follows
<1> QED BY <1>1, <1>3, <1>4, <1>5 DEF Follows

LEMMA FollowsOneMore ==
  ASSUME NEW s, NEW c, NEW steps, ProperPlan(steps), NEW seen, NEW m \in DOMAIN steps, NEW a,
         Follows(s, c, steps, seen, m), Wanted(s, c, seen, steps[m]),
         a \in Answers(s, c, seen, steps[m]) \cup Lost
  PROVE  Follows(s, c, steps, With(seen, steps[m], a), m + 1)
<1> DEFINE new == With(seen, steps[m], a)
<1>1. m \in Nat /\ Len(steps) \in Nat /\ DOMAIN steps = 1..Len(steps)
  BY DEF ProperPlan
<1>2. steps[m] \notin DOMAIN seen
  <2>1. \A i \in 1..(m - 1) : i \in DOMAIN steps /\ steps[i] # steps[m]
    BY <1>1 DEF ProperPlan
  <2> QED BY <2>1 DEF Follows
<1>3. seen = [q \in DOMAIN seen |-> seen[q]]
  BY DEF Follows
<1>4. /\ DOMAIN new = DOMAIN seen \cup {steps[m]} /\ new[steps[m]] = a
      /\ \A q \in DOMAIN seen : new[q] = seen[q]
      /\ new = [q \in DOMAIN new |-> new[q]]
  BY <1>2 DEF With
<1>5. \A i \in 1..m : Upto(steps, new, i) = Upto(steps, seen, i)
  BY <1>2, <1>3, UptoKept
<1>6. Upto(steps, new, m) = seen
  <2>1. Upto(steps, seen, m) = seen
    BY <1>1, UptoAll
  <2> QED BY <2>1, <1>5, <1>1
<1> HIDE DEF new
<1>7. \A q \in DOMAIN new : \E i \in 1..m : q = steps[i]
  <2>1. \A q \in DOMAIN seen : \E i \in 1..(m - 1) : q = steps[i]
    BY DEF Follows
  <2> QED BY <2>1, <1>1, <1>4
<1>8. ASSUME NEW i \in 1..m, steps[i] \in DOMAIN new PROVE Settled(s, c, steps, new, i)
  <2>1. CASE i = m
    BY <2>1, <1>4, <1>6 DEF Settled
  <2>2. CASE i # m
    <3>1. i \in 1..(m - 1) /\ steps[i] # steps[m]
      BY <2>2, <1>1 DEF ProperPlan
    <3>2. steps[i] \in DOMAIN seen
      BY <3>1, <1>8, <1>4
    <3>3. Settled(s, c, steps, seen, i)
      BY <3>1, <3>2 DEF Follows
    <3> QED BY <3>2, <3>3, <1>4, <1>5 DEF Settled
  <2> QED BY <2>1, <2>2
<1>9. ASSUME NEW i \in 1..m, steps[i] \notin DOMAIN new PROVE ~Wanted(s, c, Upto(steps, new, i), steps[i])
  <2>1. i \in 1..(m - 1) /\ steps[i] \notin DOMAIN seen
    BY <1>1, <1>4, <1>9
  <2>2. ~Wanted(s, c, Upto(steps, seen, i), steps[i])
    BY <2>1 DEF Follows
  <2> QED BY <2>2, <1>5
<1>10. Follows(s, c, steps, new, m + 1)
  <2>1. (m + 1) - 1 = m
    BY <1>1
  <2> QED BY <2>1, <1>4, <1>7, <1>8, <1>9 DEF Follows
<1> QED BY <1>10 DEF new

(* The next request is the first one left that is called for.               *)
LEMMA NextProbeIs ==
  ASSUME NEW c, NEW n \in Nat \ {0}, ProperPlan(plan[c]), n <= Len(plan[c]) + 1,
         Follows(scene, c, plan[c], log[c], n)
  PROVE  /\ NextProbe(c) = NoProbe => Follows(scene, c, plan[c], log[c], Len(plan[c]) + 1)
         /\ NextProbe(c) # NoProbe =>
              \E m \in DOMAIN plan[c] : /\ NextProbe(c) = plan[c][m] /\ Wanted(scene, c, log[c], plan[c][m])
                                        /\ Follows(scene, c, plan[c], log[c], m)
<1> DEFINE P == plan[c]
           L == log[c]
           past == {i \in DOMAIN P : P[i] \in DOMAIN L}
           todo == {i \in DOMAIN P : (\A j \in past : j < i) /\ Wanted(scene, c, L, P[i])}
<1>1. NextProbe(c) = IF todo = {} THEN NoProbe ELSE P[Min(todo)]
  BY DEF NextProbe
<1>2. PICK len \in Nat : len = Len(P) /\ DOMAIN P = 1..len
  BY DEF ProperPlan
<1>3. \A i \in past : i < n
  <2> SUFFICES ASSUME NEW i \in past PROVE i < n
    OBVIOUS
  <2>1. PICK k \in 1..(n - 1) : P[i] = P[k]
    BY DEF Follows
  <2>2. k \in DOMAIN P
    BY <1>2, <2>1
  <2>3. i = k
    BY <2>1, <2>2 DEF ProperPlan
  <2> QED BY <2>3
<1>4. \A i \in 1..len : i >= n /\ Wanted(scene, c, L, P[i]) => i \in todo
  BY <1>2, <1>3
<1>5. CASE todo = {}
  <2>1. NextProbe(c) = NoProbe
    BY <1>1, <1>5
  <2>2. \A i \in n..len : ~Wanted(scene, c, L, P[i])
    BY <1>4, <1>5
  <2>3. len + 1 \in Nat /\ n <= len + 1 /\ (len + 1) - 1 = len
    BY <1>2
  <2>4. Follows(scene, c, P, L, len + 1)
    BY <2>2, <2>3, <1>2, FollowsOn
  <2> QED BY <2>1, <2>4, <1>2
<1>6. CASE todo # {}
  <2>1. todo \subseteq Nat
    BY <1>2
  <2>2. PICK x \in todo : \A y \in todo : x <= y
    BY <2>1, <1>6, Least
  <2>3. Min(todo) = x
    BY <2>1, <2>2 DEF Min
  <2>4. NextProbe(c) = P[x] /\ x \in DOMAIN P /\ Wanted(scene, c, L, P[x])
    BY <1>1, <1>6, <2>3
  <2>5. NextProbe(c) # NoProbe
    BY <2>4 DEF ProperPlan
  <2>6. x >= n
    <3>1. SUFFICES ASSUME x < n PROVE FALSE
      BY <2>1
    <3>2. x \notin past
      <4>1. x \in Nat /\ ~(x < x)
        BY <2>1
      <4>2. \A j \in past : j < x
        BY <2>2
      <4> QED BY <4>1, <4>2
    <3>3. P[x] \notin DOMAIN L
      BY <3>2, <2>4
    <3>4. x \in 1..(n - 1)
      BY <3>1, <2>4, <1>2
    <3>5. ~Wanted(scene, c, Upto(P, L, x), P[x])
      BY <3>3, <3>4 DEF Follows
    <3>6. Upto(P, L, x) = L
      <4>1. \A q \in DOMAIN L : q \in {P[k] : k \in 1..(x - 1)}
        <5> SUFFICES ASSUME NEW q \in DOMAIN L PROVE \E k \in 1..(x - 1) : q = P[k]
          OBVIOUS
        <5>1. PICK k \in 1..(n - 1) : q = P[k]
          BY DEF Follows
        <5>2. k \in past
          BY <5>1, <1>2
        <5>3. k < x
          BY <5>2
        <5> QED BY <5>1, <5>3, <1>2, <2>4
      <4>2. {P[k] : k \in 1..(x - 1)} \cap DOMAIN L = DOMAIN L
        BY <4>1
      <4>3. L = [q \in DOMAIN L |-> L[q]]
        BY DEF Follows
      <4> QED BY <4>2, <4>3 DEF Upto
    <3> QED BY <3>5, <3>6, <2>4
  <2>7. \A i \in n..(x - 1) : ~Wanted(scene, c, L, P[i])
    <3> SUFFICES ASSUME NEW i \in n..(x - 1), Wanted(scene, c, L, P[i]) PROVE FALSE
      OBVIOUS
    <3>1. i \in 1..len
      BY <1>2, <2>4
    <3>2. i \in todo
      BY <3>1, <1>4
    <3> QED BY <3>2, <2>2, <2>1
  <2>8. x \in Nat /\ x <= Len(P) + 1
    BY <1>2, <2>4
  <2>9. Follows(scene, c, P, L, x)
    <3> HIDE DEF P, L
    <3> QED BY <2>6, <2>7, <2>8, FollowsOn DEF P, L
  <2> QED BY <2>4, <2>5, <2>9
<1> QED BY <1>5, <1>6

-----------------------------------------------------------------------------
(* --- the invariant --------------------------------------------------------- *)
(* A check under way has followed its plan; one that is done has followed it *)
(* to the end and reports what its log shows.                                *)
CheckInv(s, c, sweep, st, P, L, F, R) ==
    /\ st \in {"idle", "ready", "flight", "done"}
    /\ st = "idle" => L = << >>
    /\ st # "idle" =>
         /\ P = Plan(s, c, sweep)
         /\ \E n \in 1..(Len(P) + 1) :
               /\ Follows(s, c, P, L, n)
               /\ st = "flight" => n <= Len(P) /\ F = P[n] /\ Wanted(s, c, L, P[n])
               /\ st = "done" => n = Len(P) + 1 /\ R = FindingsOf(s, c, L)

Shape ==
    /\ scene \in Scenes
    /\ stage = [c \in Running |-> stage[c]] /\ plan = [c \in Running |-> plan[c]]
    /\ log = [c \in Running |-> log[c]] /\ flight = [c \in Running |-> flight[c]]
    /\ found = [c \in Running |-> found[c]]
    /\ audit \in [Urls -> Nat]

\* At most one GraphQL check sweeps, and it has its plan.
SweepInv ==
    /\ \A c \in sweeps : c \in Running /\ c.check = "graphql" /\ stage[c] # "idle"
    /\ \A c, d \in sweeps : c = d

EachInv == \A c \in Running : CheckInv(scene, c, c \in sweeps, stage[c], plan[c], log[c], flight[c], found[c])

PInv == Shape /\ SweepInv /\ EachInv

\* A step of one check leaves the others as they are.
Apart(c) ==
    /\ scene' = scene
    /\ \A d \in Running \ {c} :
          /\ stage'[d] = stage[d] /\ plan'[d] = plan[d] /\ log'[d] = log[d]
          /\ flight'[d] = flight[d] /\ found'[d] = found[d]
          /\ d \in sweeps' <=> d \in sweeps

LEMMA SceneIs ==
  ASSUME Shape
  PROVE  IsScene(scene) /\ \A c \in Running : c.check \in ActiveTier \cup PassiveTier
BY ProbingAssumption DEF Shape, IsScene, Running

LEMMA RunningProper ==
  ASSUME PInv, NEW c \in Running, stage[c] # "idle"
  PROVE  ProperPlan(plan[c])
<1>1. plan[c] = Plan(scene, c, c \in sweeps)
  BY DEF PInv, EachInv, CheckInv
<1>2. IsScene(scene) /\ c.check \in ActiveTier \cup PassiveTier
  BY SceneIs DEF PInv
<1>3. PICK sw : sw = (c \in sweeps)
  OBVIOUS
<1>4. ProperPlan(Plan(scene, c, sw))
  BY <1>2, PlanProper
<1> QED BY <1>1, <1>3, <1>4

LEMMA FollowsNothing ==
  ASSUME NEW s, NEW c, NEW P
  PROVE  Follows(s, c, P, << >>, 1)
<1>1. PICK L : L = << >>
  OBVIOUS
<1>2. DOMAIN L = {} /\ L = [q \in DOMAIN L |-> L[q]]
  BY <1>1
<1>3. Follows(s, c, P, L, 1)
  BY <1>2 DEF Follows
<1> QED BY <1>1, <1>3

LEMMA EachKept ==
  ASSUME PInv, NEW c \in Running, Apart(c),
         CheckInv(scene, c, c \in sweeps', stage'[c], plan'[c], log'[c], flight'[c], found'[c])
  PROVE  EachInv'
<1>1. scene' = scene /\ Running' = Running
  BY DEF Apart, Running
<1>2. ASSUME NEW d \in Running
      PROVE  CheckInv(scene', d, d \in sweeps', stage'[d], plan'[d], log'[d], flight'[d], found'[d])
  <2>1. CASE d = c
    BY <2>1, <1>1
  <2>2. CASE d # c
    <3>1. /\ stage'[d] = stage[d] /\ plan'[d] = plan[d] /\ log'[d] = log[d]
          /\ flight'[d] = flight[d] /\ found'[d] = found[d]
          /\ (d \in sweeps') = (d \in sweeps)
      BY <2>2 DEF Apart
    <3>2. CheckInv(scene, d, d \in sweeps, stage[d], plan[d], log[d], flight[d], found[d])
      BY DEF PInv, EachInv
    <3> QED BY <3>1, <3>2, <1>1
  <2> QED BY <2>1, <2>2
<1> QED BY <1>1, <1>2 DEF EachInv

LEMMA InitPInv == ASSUME Init PROVE PInv
<1>1. Shape
  BY DEF Init, Shape
<1>2. SweepInv
  BY DEF Init, SweepInv
<1>3. EachInv
  BY DEF Init, EachInv, CheckInv
<1> QED BY <1>1, <1>2, <1>3 DEF PInv

LEMMA StartKeeps ==
  ASSUME PInv, NEW c \in Running, Start(c)
  PROVE  PInv'
<1>1. /\ scene' = scene /\ log' = log /\ flight' = flight /\ audit' = audit /\ found' = found
      /\ stage[c] = "idle" /\ stage' = [stage EXCEPT ![c] = "ready"]
  BY DEF Start
<1>2. /\ sweeps' = IF c.check = "graphql" /\ sweeps = {} THEN {c} ELSE sweeps
      /\ plan' = [plan EXCEPT ![c] = Plan(scene, c, c.check = "graphql" /\ sweeps = {})]
  BY DEF Start
<1>3. Running' = Running /\ Urls' = Urls
  BY <1>1 DEF Running, Urls
<1>4. c \notin sweeps /\ (c \in sweeps' <=> (c.check = "graphql" /\ sweeps = {}))
  BY <1>1, <1>2 DEF PInv, SweepInv
<1>5. Shape'
  BY <1>1, <1>2, <1>3 DEF PInv, Shape
<1>6. stage'[c] = "ready" /\ plan'[c] = Plan(scene, c, c \in sweeps') /\ log'[c] = << >>
  <2>1. log[c] = << >>
    BY <1>1 DEF PInv, EachInv, CheckInv
  <2>2. Plan(scene, c, c \in sweeps') = Plan(scene, c, c.check = "graphql" /\ sweeps = {})
    BY <1>4
  <2> QED BY <2>1, <2>2, <1>1, <1>2 DEF PInv, Shape
<1>7. Apart(c)
  BY <1>1, <1>2 DEF Apart, PInv, Shape
<1>8. SweepInv'
  BY <1>1, <1>2, <1>3 DEF PInv, SweepInv, Shape
<1>9. CheckInv(scene, c, c \in sweeps', stage'[c], plan'[c], log'[c], flight'[c], found'[c])
  <2>0. PICK sw : sw = (c \in sweeps')
    OBVIOUS
  <2>1. PICK P : P = Plan(scene, c, sw)
    OBVIOUS
  <2>2. IsScene(scene) /\ c.check \in ActiveTier \cup PassiveTier
    BY SceneIs DEF PInv
  <2>3. ProperPlan(P)
    BY <2>1, <2>2, PlanProper
  <2>4. 1 \in 1..(Len(P) + 1)
    BY <2>3 DEF ProperPlan
  <2>5. Follows(scene, c, P, << >>, 1)
    BY FollowsNothing
  <2> QED BY <2>0, <2>1, <2>4, <2>5, <1>6 DEF CheckInv
<1>10. EachInv'
  BY <1>7, <1>9, EachKept
<1> QED BY <1>5, <1>8, <1>10 DEF PInv

(* The steps of a check between its start and its return.                    *)
LEMMA PlaceOf ==
  ASSUME PInv, NEW c \in Running, stage[c] # "idle"
  PROVE  /\ plan[c] = Plan(scene, c, c \in sweeps) /\ ProperPlan(plan[c])
         /\ \E n \in 1..(Len(plan[c]) + 1) :
               /\ Follows(scene, c, plan[c], log[c], n)
               /\ stage[c] = "flight" => n <= Len(plan[c]) /\ flight[c] = plan[c][n] /\ Wanted(scene, c, log[c], plan[c][n])
               /\ stage[c] = "done" => n = Len(plan[c]) + 1 /\ found[c] = FindingsOf(scene, c, log[c])
<1>1. CheckInv(scene, c, c \in sweeps, stage[c], plan[c], log[c], flight[c], found[c])
  BY DEF PInv, EachInv
<1> QED BY <1>1, RunningProper DEF CheckInv

LEMMA NextPlace ==
  ASSUME PInv, NEW c \in Running, stage[c] = "ready"
  PROVE  /\ NextProbe(c) = NoProbe => Follows(scene, c, plan[c], log[c], Len(plan[c]) + 1)
         /\ NextProbe(c) # NoProbe =>
              \E m \in DOMAIN plan[c] : /\ NextProbe(c) = plan[c][m] /\ Wanted(scene, c, log[c], plan[c][m])
                                        /\ Follows(scene, c, plan[c], log[c], m)
<1>1. PICK n \in 1..(Len(plan[c]) + 1) : Follows(scene, c, plan[c], log[c], n)
  BY PlaceOf
<1>2. ProperPlan(plan[c])
  BY PlaceOf
<1>3. n \in Nat \ {0} /\ n <= Len(plan[c]) + 1
  BY <1>2 DEF ProperPlan
<1> QED BY <1>1, <1>2, <1>3, NextProbeIs

\* With the plan of a started check in hand, its place is all there is to show.
LEMMA Resumed ==
  ASSUME NEW s, NEW c, NEW sweep, NEW st \in {"ready", "flight", "done"}, NEW P, NEW L, NEW F, NEW R,
         P = Plan(s, c, sweep), ProperPlan(P), NEW n \in 1..(Len(P) + 1), Follows(s, c, P, L, n),
         st = "flight" => n <= Len(P) /\ F = P[n] /\ Wanted(s, c, L, P[n]),
         st = "done" => n = Len(P) + 1 /\ R = FindingsOf(s, c, L)
  PROVE  CheckInv(s, c, sweep, st, P, L, F, R)
BY DEF CheckInv

LEMMA UrlKnown == ASSUME NEW c \in Running, NEW p PROVE UrlOf(c, p) \in Urls
BY DEF UrlOf, Urls, ToSet, KnownPaths

LEMMA Counting ==
  ASSUME NEW U, NEW A \in [U -> Nat], NEW u \in U, NEW b \in BOOLEAN, NEW B, B = [A EXCEPT ![u] = IF b THEN @ + 1 ELSE @]
  PROVE  /\ B \in [U -> Nat]
         /\ \A v \in U : (v = u /\ b = TRUE) => B[v] = A[v] + 1
         /\ \A v \in U : ~(v = u /\ b = TRUE) => B[v] = A[v]
<1>1. CASE b = TRUE
  <2>1. B = [A EXCEPT ![u] = @ + 1]
    BY <1>1
  <2> QED BY <2>1, <1>1
<1>2. CASE b = FALSE
  <2>1. B = [A EXCEPT ![u] = @]
    BY <1>2
  <2> QED BY <2>1, <1>2
<1> QED BY <1>1, <1>2

LEMMA SendKeeps ==
  ASSUME PInv, NEW c \in Running, Send(c)
  PROVE  PInv'
<1>1. /\ scene' = scene /\ plan' = plan /\ log' = log /\ sweeps' = sweeps /\ audit' = audit /\ found' = found
      /\ stage[c] = "ready" /\ NextProbe(c) # NoProbe
      /\ stage' = [stage EXCEPT ![c] = "flight"] /\ flight' = [flight EXCEPT ![c] = NextProbe(c)]
  BY DEF Send
<1>2. Running' = Running /\ Urls' = Urls
  BY <1>1 DEF Running, Urls
<1>3. Shape'
  BY <1>1, <1>2 DEF PInv, Shape
<1>4. Apart(c) /\ stage'[c] = "flight" /\ flight'[c] = NextProbe(c)
  BY <1>1 DEF Apart, PInv, Shape
<1>5. SweepInv'
  BY <1>1, <1>2 DEF PInv, SweepInv, Shape
<1>6. CheckInv(scene, c, c \in sweeps', stage'[c], plan'[c], log'[c], flight'[c], found'[c])
  <2>1. PICK m \in DOMAIN plan[c] : /\ NextProbe(c) = plan[c][m] /\ Wanted(scene, c, log[c], plan[c][m])
                                    /\ Follows(scene, c, plan[c], log[c], m)
    BY <1>1, NextPlace
  <2>2. plan[c] = Plan(scene, c, c \in sweeps) /\ ProperPlan(plan[c])
    BY <1>1, PlaceOf
  <2>3. m \in 1..(Len(plan[c]) + 1) /\ m <= Len(plan[c])
    BY <2>2 DEF ProperPlan
  <2> QED BY <1>1, <1>4, <2>1, <2>2, <2>3 DEF CheckInv
<1>7. EachInv'
  BY <1>4, <1>6, EachKept
<1> QED BY <1>3, <1>5, <1>7 DEF PInv

LEMMA PassOverKeeps ==
  ASSUME PInv, NEW c \in Running, PassOver(c)
  PROVE  PInv'
<1>1. /\ scene' = scene /\ plan' = plan /\ stage' = stage /\ sweeps' = sweeps /\ found' = found /\ flight' = flight
      /\ stage[c] = "ready" /\ NextProbe(c) # NoProbe
  BY DEF PassOver
<1>2. PICK a \in Lost : log' = [log EXCEPT ![c] = With(@, NextProbe(c), a)]
  BY DEF PassOver, Lost
<1>3. Running' = Running /\ Urls' = Urls
  BY <1>1 DEF Running, Urls
<1>4. audit' \in [Urls -> Nat]
  <2>1. PICK u \in Urls : u = UrlOf(c, NextProbe(c))
    BY UrlKnown
  <2>2. PICK b \in BOOLEAN : audit' = [audit EXCEPT ![u] = IF b THEN @ + 1 ELSE @]
    BY <2>1 DEF PassOver
  <2>3. audit \in [Urls -> Nat]
    BY DEF PInv, Shape
  <2> QED BY <2>2, <2>3, Counting
<1>5. Shape'
  BY <1>1, <1>2, <1>3, <1>4 DEF PInv, Shape
<1>6. Apart(c) /\ log'[c] = With(log[c], NextProbe(c), a)
  BY <1>1, <1>2 DEF Apart, PInv, Shape
<1>7. SweepInv'
  BY <1>1, <1>3 DEF PInv, SweepInv, Shape
<1>8. CheckInv(scene, c, c \in sweeps', stage'[c], plan'[c], log'[c], flight'[c], found'[c])
  <2>1. PICK m \in DOMAIN plan[c] : /\ NextProbe(c) = plan[c][m] /\ Wanted(scene, c, log[c], plan[c][m])
                                    /\ Follows(scene, c, plan[c], log[c], m)
    BY <1>1, NextPlace
  <2>2. plan[c] = Plan(scene, c, c \in sweeps) /\ ProperPlan(plan[c])
    BY <1>1, PlaceOf
  <2>3. m + 1 \in 1..(Len(plan[c]) + 1)
    BY <2>2 DEF ProperPlan
  <2>4. Follows(scene, c, plan[c], With(log[c], plan[c][m], a), m + 1)
    BY <2>1, <2>2, FollowsOneMore
  <2> QED BY <1>1, <1>6, <2>1, <2>2, <2>3, <2>4 DEF CheckInv
<1>9. EachInv'
  BY <1>6, <1>8, EachKept
<1> QED BY <1>5, <1>7, <1>9 DEF PInv

LEMMA SettleKeeps ==
  ASSUME PInv, NEW c \in Running, NEW a \in Answers(scene, c, log[c], flight[c]) \cup Lost, Settle(c, a)
  PROVE  PInv'
<1>1. /\ scene' = scene /\ plan' = plan /\ sweeps' = sweeps /\ found' = found
      /\ stage[c] = "flight" /\ stage' = [stage EXCEPT ![c] = "ready"]
      /\ log' = [log EXCEPT ![c] = With(@, flight[c], a)] /\ flight' = [flight EXCEPT ![c] = NoProbe]
  BY DEF Settle
<1>2. Running' = Running /\ Urls' = Urls
  BY <1>1 DEF Running, Urls
<1>3. audit' \in [Urls -> Nat]
  <2>1. PICK u \in Urls : u = UrlOf(c, flight[c])
    BY UrlKnown
  <2>2. PICK b \in BOOLEAN : audit' = [audit EXCEPT ![u] = IF b THEN @ + 1 ELSE @]
    BY <2>1 DEF Settle
  <2>3. audit \in [Urls -> Nat]
    BY DEF PInv, Shape
  <2> QED BY <2>2, <2>3, Counting
<1>4. Shape'
  BY <1>1, <1>2, <1>3 DEF PInv, Shape
<1>5. Apart(c) /\ log'[c] = With(log[c], flight[c], a) /\ stage'[c] = "ready"
  BY <1>1 DEF Apart, PInv, Shape
<1>6. SweepInv'
  BY <1>1, <1>2 DEF PInv, SweepInv, Shape
<1>7. CheckInv(scene, c, c \in sweeps', stage'[c], plan'[c], log'[c], flight'[c], found'[c])
  <2>1. PICK n \in 1..(Len(plan[c]) + 1) :
            /\ Follows(scene, c, plan[c], log[c], n) /\ n <= Len(plan[c])
            /\ flight[c] = plan[c][n] /\ Wanted(scene, c, log[c], plan[c][n])
    BY <1>1, PlaceOf
  <2>2. plan[c] = Plan(scene, c, c \in sweeps) /\ ProperPlan(plan[c])
    BY <1>1, PlaceOf
  <2>3. n \in DOMAIN plan[c] /\ n + 1 \in 1..(Len(plan[c]) + 1)
    BY <2>1, <2>2 DEF ProperPlan
  <2>4. Follows(scene, c, plan[c], With(log[c], plan[c][n], a), n + 1)
    BY <2>1, <2>2, <2>3, FollowsOneMore
  <2> QED BY <1>1, <1>5, <2>1, <2>2, <2>3, <2>4 DEF CheckInv
<1>8. EachInv'
  BY <1>5, <1>7, EachKept
<1> QED BY <1>4, <1>6, <1>8 DEF PInv

LEMMA ReturnKeeps ==
  ASSUME PInv, NEW c \in Running, Return(c)
  PROVE  PInv'
<1>1. /\ scene' = scene /\ plan' = plan /\ log' = log /\ sweeps' = sweeps /\ audit' = audit /\ flight' = flight
      /\ stage[c] = "ready" /\ NextProbe(c) = NoProbe
      /\ stage' = [stage EXCEPT ![c] = "done"] /\ found' = [found EXCEPT ![c] = FindingsOf(scene, c, log[c])]
  BY DEF Return
<1>2. Running' = Running /\ Urls' = Urls
  BY <1>1 DEF Running, Urls
<1>3. Shape'
  BY <1>1, <1>2 DEF PInv, Shape
<1>4. Apart(c) /\ stage'[c] = "done" /\ found'[c] = FindingsOf(scene, c, log[c])
  BY <1>1 DEF Apart, PInv, Shape
<1>5. SweepInv'
  BY <1>1, <1>2 DEF PInv, SweepInv, Shape
<1>6. CheckInv(scene, c, c \in sweeps', stage'[c], plan'[c], log'[c], flight'[c], found'[c])
  <2>1. Follows(scene, c, plan[c], log[c], Len(plan[c]) + 1)
    BY <1>1, NextPlace
  <2>2. plan[c] = Plan(scene, c, c \in sweeps) /\ ProperPlan(plan[c])
    BY <1>1, PlaceOf
  <2>3. Len(plan[c]) + 1 \in 1..(Len(plan[c]) + 1)
    BY <2>2 DEF ProperPlan
  <2> QED BY <1>1, <1>4, <2>1, <2>2, <2>3 DEF CheckInv
<1>7. EachInv'
  BY <1>4, <1>6, EachKept
<1> QED BY <1>3, <1>5, <1>7 DEF PInv

LEMMA NextPInv == ASSUME PInv, [Next]_vars PROVE PInv'
<1>1. CASE UNCHANGED vars
  <2>1. /\ scene' = scene /\ stage' = stage /\ plan' = plan /\ log' = log /\ flight' = flight
        /\ sweeps' = sweeps /\ audit' = audit /\ found' = found
    BY <1>1 DEF vars
  <2> QED BY <2>1 DEF PInv, Shape, SweepInv, EachInv, Running, Urls
<1>2. CASE Cancel
  <2>1. /\ scene' = scene /\ stage' = stage /\ plan' = plan /\ log' = log /\ flight' = flight
        /\ sweeps' = sweeps /\ audit' = audit /\ found' = found
    BY <1>2 DEF Cancel
  <2> QED BY <2>1 DEF PInv, Shape, SweepInv, EachInv, Running, Urls
<1>3. ASSUME NEW c \in Running, stage[c] = "flight", Receive(c) PROVE PInv'
  BY <1>3, SettleKeeps DEF Receive
<1>4. ASSUME NEW c \in Running, Fail(c) PROVE PInv'
  BY <1>4, SettleKeeps DEF Fail, Lost
<1> QED BY <1>1, <1>2, <1>3, <1>4, StartKeeps, SendKeeps, PassOverKeeps, ReturnKeeps DEF Next

(* Whatever the scene, a check under way has followed its plan and what it   *)
(* reports is read off the answers to the requests of that plan.             *)
THEOREM PInvHolds == Spec => []PInv
<1>1. Init => PInv
  BY InitPInv
<1>2. PInv /\ [Next]_vars => PInv'
  BY NextPInv
<1> QED BY <1>1, <1>2, PTL DEF Spec

-----------------------------------------------------------------------------
(* --- one sweep ------------------------------------------------------------- *)
LEMMA LogInPlan ==
  ASSUME PInv, NEW c \in Running, NEW p \in DOMAIN log[c]
  PROVE  stage[c] # "idle" /\ \E i \in DOMAIN plan[c] : p = plan[c][i]
<1>1. stage[c] # "idle"
  BY DEF PInv, EachInv, CheckInv
<1>2. PICK n \in 1..(Len(plan[c]) + 1) : Follows(scene, c, plan[c], log[c], n)
  BY <1>1, PlaceOf
<1>3. ProperPlan(plan[c])
  BY <1>1, PlaceOf
<1>4. PICK i \in 1..(n - 1) : p = plan[c][i]
  BY <1>2 DEF Follows
<1> QED BY <1>1, <1>3, <1>4 DEF ProperPlan

LEMMA OnlySweepersAsk ==
  ASSUME PInv, NEW c \in Running, c.check = "graphql", NEW p \in DOMAIN log[c], p.t \in 1..Len(KnownPaths)
  PROVE  c \in sweeps
<1>1. SUFFICES ASSUME c \notin sweeps PROVE FALSE
  OBVIOUS
<1>2. PICK i \in DOMAIN plan[c] : p = plan[c][i]
  BY LogInPlan
<1>3. plan[c] = Plan(scene, c, c \in sweeps)
  BY LogInPlan, PlaceOf
<1>4. plan[c] = GraphqlPlan(scene, c.ep, c \in sweeps)
  BY <1>3 DEF Plan
<1>5. PICK ep, sweep : ep = c.ep /\ sweep = (c \in sweeps)
  OBVIOUS
<1>6. ~sweep
  BY <1>1, <1>5
<1>7. GraphqlPlan(scene, ep, sweep) = << >> \/ GraphqlPlan(scene, ep, sweep) = <<Probe("introspect", 3), Probe("get", 3)>>
  BY <1>6, GraphqlPlanIs
<1>8. plan[c] = << >> \/ plan[c] = <<Probe("introspect", 3), Probe("get", 3)>>
  BY <1>4, <1>5, <1>7
<1>9. p.t = 3
  BY <1>2, <1>8 DEF Probe
<1> QED BY <1>9 DEF KnownPaths

(* The known GraphQL paths of the origin are asked for by one check only     *)
(* (graphql.go, markOriginSwept).                                            *)
THEOREM KnownPathsSweptOnce == Spec => []SweptOnce
<1>1. PInv => SweptOnce
  <2> SUFFICES ASSUME PInv, NEW c \in Running, NEW d \in Running, c # d, c.check = "graphql", d.check = "graphql",
                      NEW p \in DOMAIN log[c] \cap DOMAIN log[d], p.t \in 1..Len(KnownPaths)
               PROVE  FALSE
    BY DEF SweptOnce
  <2>1. c \in sweeps /\ d \in sweeps
    BY OnlySweepersAsk
  <2> QED BY <2>1 DEF PInv, SweepInv
<1> QED BY <1>1, PInvHolds, PTL

-----------------------------------------------------------------------------
(* --- the gravest origin ---------------------------------------------------- *)
Reflects(L) == Saw(L, "origin", FALSE)
ReflectsWithCredentials(L) == Saw(L, "origin", TRUE)
AllowsNull(L) == Saw(L, "null", FALSE)
AllowsNullWithCredentials(L) == Saw(L, "null", TRUE)

Candidate(rank, rule, severity) == [rank |-> rank, finding |-> Finding(rule, severity, "HIGH")]

LEMMA TopCandidateKept ==
  ASSUME NEW s, NEW L, NEW x \in CorsCandidates(s, L), \A d \in CorsCandidates(s, L) : d.rank <= x.rank
  PROVE  x.finding \in CorsFindings(s, L)
BY DEF CorsFindings

LEMMA CandidatesAre ==
  ASSUME NEW s, NEW L
  PROVE  /\ \A d \in CorsCandidates(s, L) :
              \/ d = Candidate(40, "cors/wildcard-with-credentials", "MEDIUM")
              \/ d = Candidate(30, "cors/wildcard-origin", "MEDIUM")
              \/ /\ Reflects(L) /\ ReflectsWithCredentials(L)
                 /\ \/ s.expect # "public" /\ d = Candidate(90, "cors/reflects-origin-with-credentials", "CRITICAL")
                    \/ s.expect = "public" /\ d = Candidate(75, "cors/reflects-origin-with-credentials", "HIGH")
              \/ /\ Reflects(L) /\ ~ReflectsWithCredentials(L)
                 /\ d = Candidate(70, "cors/reflects-origin", "HIGH")
              \/ /\ AllowsNull(L) /\ ~Reflects(L)
                 /\ \/ AllowsNullWithCredentials(L) /\ d = Candidate(85, "cors/null-origin", "CRITICAL")
                    \/ ~AllowsNullWithCredentials(L) /\ d = Candidate(60, "cors/null-origin", "HIGH")
         /\ (Reflects(L) /\ ReflectsWithCredentials(L) /\ s.expect # "public") =>
              Candidate(90, "cors/reflects-origin-with-credentials", "CRITICAL") \in CorsCandidates(s, L)
         /\ (Reflects(L) /\ ReflectsWithCredentials(L) /\ s.expect = "public") =>
              Candidate(75, "cors/reflects-origin-with-credentials", "HIGH") \in CorsCandidates(s, L)
         /\ (Reflects(L) /\ ~ReflectsWithCredentials(L)) =>
              Candidate(70, "cors/reflects-origin", "HIGH") \in CorsCandidates(s, L)
         /\ (AllowsNull(L) /\ ~Reflects(L) /\ AllowsNullWithCredentials(L)) =>
              Candidate(85, "cors/null-origin", "CRITICAL") \in CorsCandidates(s, L)
         /\ (AllowsNull(L) /\ ~Reflects(L) /\ ~AllowsNullWithCredentials(L)) =>
              Candidate(60, "cors/null-origin", "HIGH") \in CorsCandidates(s, L)
BY ZenonT(40) DEF CorsCandidates, Candidate, Reflects, ReflectsWithCredentials, AllowsNull, AllowsNullWithCredentials

LEMMA RanksAre ==
  ASSUME NEW s, NEW L, NEW d \in CorsCandidates(s, L)
  PROVE  \/ d.rank = 40
         \/ d.rank = 30
         \/ Reflects(L) /\ ReflectsWithCredentials(L) /\ s.expect # "public" /\ d.rank = 90
         \/ Reflects(L) /\ ReflectsWithCredentials(L) /\ s.expect = "public" /\ d.rank = 75
         \/ Reflects(L) /\ ~ReflectsWithCredentials(L) /\ d.rank = 70
         \/ AllowsNull(L) /\ ~Reflects(L) /\ AllowsNullWithCredentials(L) /\ d.rank = 85
         \/ AllowsNull(L) /\ ~Reflects(L) /\ ~AllowsNullWithCredentials(L) /\ d.rank = 60
<1>1. \A r, u, v : Candidate(r, u, v).rank = r
  BY DEF Candidate
<1>2. \/ d = Candidate(40, "cors/wildcard-with-credentials", "MEDIUM")
      \/ d = Candidate(30, "cors/wildcard-origin", "MEDIUM")
      \/ /\ Reflects(L) /\ ReflectsWithCredentials(L)
         /\ \/ s.expect # "public" /\ d = Candidate(90, "cors/reflects-origin-with-credentials", "CRITICAL")
            \/ s.expect = "public" /\ d = Candidate(75, "cors/reflects-origin-with-credentials", "HIGH")
      \/ /\ Reflects(L) /\ ~ReflectsWithCredentials(L)
         /\ d = Candidate(70, "cors/reflects-origin", "HIGH")
      \/ /\ AllowsNull(L) /\ ~Reflects(L)
         /\ \/ AllowsNullWithCredentials(L) /\ d = Candidate(85, "cors/null-origin", "CRITICAL")
            \/ ~AllowsNullWithCredentials(L) /\ d = Candidate(60, "cors/null-origin", "HIGH")
  BY CandidatesAre
<1> QED BY <1>1, <1>2

LEMMA CredentialsImply ==
  ASSUME NEW L
  PROVE  /\ ReflectsWithCredentials(L) => Reflects(L)
         /\ AllowsNullWithCredentials(L) => AllowsNull(L)
BY DEF Saw, Reflects, ReflectsWithCredentials, AllowsNull, AllowsNullWithCredentials

LEMMA GravestOfLog ==
  ASSUME NEW s, NEW L
  PROVE  /\ (ReflectsWithCredentials(L) /\ s.expect # "public") => \E f \in CorsFindings(s, L) : f.severity = "CRITICAL"
         /\ (AllowsNullWithCredentials(L) /\ ~Reflects(L)) => \E f \in CorsFindings(s, L) : f.severity = "CRITICAL"
         /\ (Reflects(L) \/ AllowsNull(L)) =>
              \E f \in CorsFindings(s, L) : f.severity \in {"HIGH", "CRITICAL"}
<1> DEFINE Top(x) == x \in CorsCandidates(s, L) /\ \A d \in CorsCandidates(s, L) : d.rank <= x.rank
<1>1. CASE Reflects(L) /\ ReflectsWithCredentials(L) /\ s.expect # "public"
  <2>1. PICK x : x = Candidate(90, "cors/reflects-origin-with-credentials", "CRITICAL")
    OBVIOUS
  <2>2. Top(x)
    <3>1. x \in CorsCandidates(s, L)
      BY <1>1, <2>1, CandidatesAre
    <3>2. x.rank = 90
      BY <2>1 DEF Candidate
    <3>3. ASSUME NEW d \in CorsCandidates(s, L) PROVE d.rank <= x.rank
      BY <1>1, <3>2, RanksAre
    <3> QED BY <3>1, <3>3
  <2>3. x.finding \in CorsFindings(s, L) /\ x.finding.severity = "CRITICAL"
    BY <2>1, <2>2, TopCandidateKept DEF Candidate, Finding
  <2> QED BY <1>1, <2>3
<1>2. CASE Reflects(L) /\ ReflectsWithCredentials(L) /\ s.expect = "public"
  <2>1. PICK x : x = Candidate(75, "cors/reflects-origin-with-credentials", "HIGH")
    OBVIOUS
  <2>2. Top(x)
    <3>1. x \in CorsCandidates(s, L)
      BY <1>2, <2>1, CandidatesAre
    <3>2. x.rank = 75
      BY <2>1 DEF Candidate
    <3>3. ASSUME NEW d \in CorsCandidates(s, L) PROVE d.rank <= x.rank
      BY <1>2, <3>2, RanksAre
    <3> QED BY <3>1, <3>3
  <2>3. x.finding \in CorsFindings(s, L) /\ x.finding.severity = "HIGH"
    BY <2>1, <2>2, TopCandidateKept DEF Candidate, Finding
  <2> QED BY <1>2, <2>3
<1>3. CASE Reflects(L) /\ ~ReflectsWithCredentials(L)
  <2>1. PICK x : x = Candidate(70, "cors/reflects-origin", "HIGH")
    OBVIOUS
  <2>2. Top(x)
    <3>1. x \in CorsCandidates(s, L)
      BY <1>3, <2>1, CandidatesAre
    <3>2. x.rank = 70
      BY <2>1 DEF Candidate
    <3>3. ASSUME NEW d \in CorsCandidates(s, L) PROVE d.rank <= x.rank
      BY <1>3, <3>2, RanksAre
    <3> QED BY <3>1, <3>3
  <2>3. x.finding \in CorsFindings(s, L) /\ x.finding.severity = "HIGH"
    BY <2>1, <2>2, TopCandidateKept DEF Candidate, Finding
  <2> QED BY <1>3, <2>3
<1>4. CASE AllowsNull(L) /\ ~Reflects(L) /\ AllowsNullWithCredentials(L)
  <2>1. PICK x : x = Candidate(85, "cors/null-origin", "CRITICAL")
    OBVIOUS
  <2>2. Top(x)
    <3>1. x \in CorsCandidates(s, L)
      BY <1>4, <2>1, CandidatesAre
    <3>2. x.rank = 85
      BY <2>1 DEF Candidate
    <3>3. ASSUME NEW d \in CorsCandidates(s, L) PROVE d.rank <= x.rank
      BY <1>4, <3>2, RanksAre
    <3> QED BY <3>1, <3>3
  <2>3. x.finding \in CorsFindings(s, L) /\ x.finding.severity = "CRITICAL"
    BY <2>1, <2>2, TopCandidateKept DEF Candidate, Finding
  <2> QED BY <1>4, <2>3, CredentialsImply
<1>5. CASE AllowsNull(L) /\ ~Reflects(L) /\ ~AllowsNullWithCredentials(L)
  <2>1. PICK x : x = Candidate(60, "cors/null-origin", "HIGH")
    OBVIOUS
  <2>2. Top(x)
    <3>1. x \in CorsCandidates(s, L)
      BY <1>5, <2>1, CandidatesAre
    <3>2. x.rank = 60
      BY <2>1 DEF Candidate
    <3>3. ASSUME NEW d \in CorsCandidates(s, L) PROVE d.rank <= x.rank
      BY <1>5, <3>2, RanksAre
    <3> QED BY <3>1, <3>3
  <2>3. x.finding \in CorsFindings(s, L) /\ x.finding.severity = "HIGH"
    BY <2>1, <2>2, TopCandidateKept DEF Candidate, Finding
  <2> QED BY <1>5, <2>3, CredentialsImply
<1> QED BY <1>1, <1>2, <1>3, <1>4, <1>5, CredentialsImply

LEMMA DoneReports ==
  ASSUME PInv, NEW c \in Running, Done(c)
  PROVE  /\ found[c] = FindingsOf(scene, c, log[c])
         /\ plan[c] = Plan(scene, c, c \in sweeps) /\ ProperPlan(plan[c])
         /\ Follows(scene, c, plan[c], log[c], Len(plan[c]) + 1)
BY PlaceOf DEF Done

(* The one origin finding CORS reports is the gravest of what the answers    *)
(* show (cors.go, the ranked candidates of corsCheck.Run).                   *)
THEOREM CorsReportsTheGravest == Spec => []GravestOriginKept
<1>1. PInv => GravestOriginKept
  <2> SUFFICES ASSUME PInv, NEW c \in Running, Done(c), c.check = "cors"
               PROVE  /\ (Saw(log[c], "origin", TRUE) /\ scene.expect # "public")
                            => \E f \in found[c] : f.severity = "CRITICAL"
                      /\ (Saw(log[c], "null", TRUE) /\ ~Saw(log[c], "origin", FALSE))
                            => \E f \in found[c] : f.severity = "CRITICAL"
                      /\ (Saw(log[c], "origin", FALSE) \/ Saw(log[c], "null", FALSE))
                            => \E f \in found[c] : SeverityRank[f.severity] >= SeverityRank["HIGH"]
    BY DEF GravestOriginKept
  <2>1. found[c] = CorsFindings(scene, log[c])
    BY DoneReports DEF FindingsOf
  <2>2. \A v : v \in {"HIGH", "CRITICAL"} => SeverityRank[v] >= SeverityRank["HIGH"]
    BY DEF SeverityRank
  <2> QED BY <2>1, <2>2, GravestOfLog, ZenonT(40) DEF Reflects, ReflectsWithCredentials, AllowsNull, AllowsNullWithCredentials
<1> QED BY <1>1, PInvHolds, PTL

-----------------------------------------------------------------------------
(* --- the cap --------------------------------------------------------------- *)
\* A probe that asks for the cap and is counted against it.
Asks(c, p) == Counted(c, p) /\ p.kind \notin UnaskedKinds

Asking(u) == {c \in Running : stage[c] = "flight" /\ Asks(c, flight[c]) /\ UrlOf(c, flight[c]) = u}

UnaskedSet(u) == {cp \in UNION {{c} \X DOMAIN log[c] : c \in Running} :
                     cp[2].kind \in UnaskedKinds /\ UrlOf(cp[1], cp[2]) = u}

\* The probes recorded and those about to be, but for the ones that do not ask.
CapInv == \A u \in Urls :
    /\ IsFiniteSet(UnaskedSet(u))
    /\ audit[u] + Cardinality(Asking(u)) <= MaxProbes + (Cardinality(Running) - 1) + Cardinality(UnaskedSet(u))

LEMMA ActivePlans ==
  ASSUME NEW s, IsScene(s), NEW c, c.check \in ActiveTier, NEW sweep, NEW i \in DOMAIN Plan(s, c, sweep)
  PROVE  Plan(s, c, sweep)[i].kind # "burst"
<1>1. PICK n \in Nat : n = Len(TargetsForEndpoint(s))
  BY TargetsListed
<1>2. ASSUME NEW K, NEW k \in Nat \ {0}, Len(K) = k, \A j \in 1..k : K[j] # "burst", NEW m \in Nat
      PROVE  \A x \in DOMAIN PlanFor(m, K) : PlanFor(m, K)[x].kind # "burst"
  <2> SUFFICES ASSUME NEW x \in DOMAIN PlanFor(m, K) PROVE PlanFor(m, K)[x].kind # "burst"
    OBVIOUS
  <2>1. PICK t \in 1..m, j \in 1..k : PlanFor(m, K)[x] = Probe(K[j], t)
    BY <1>2, PlanForEach
  <2> QED BY <2>1, <1>2 DEF Probe
<1>3. CASE c.check = "injection"
  <2>1. PICK K : K = <<"base", "time1", "again1", "time2", "again2", "error",
                       "control1", "control2", "true", "false", "cmdi", "crlf">>
    OBVIOUS
  <2>2. Len(K) = 12 /\ \A j \in 1..12 : K[j] # "burst"
    BY <2>1
  <2>3. PICK k \in Nat \ {0} : k = 12
    OBVIOUS
  <2>4. \A x \in DOMAIN PlanFor(n, K) : PlanFor(n, K)[x].kind # "burst"
    BY <1>2, <2>2, <2>3
  <2> QED BY <1>1, <1>3, <2>1, <2>4 DEF Plan, InjectionPlan, ForEachTarget
<1>4. CASE c.check = "xss"
  <2>1. PICK K : K = <<"xss">>
    OBVIOUS
  <2>2. Len(K) = 1 /\ \A j \in 1..1 : K[j] # "burst"
    BY <2>1
  <2>3. PICK k \in Nat \ {0} : k = 1
    OBVIOUS
  <2>4. \A x \in DOMAIN PlanFor(n, K) : PlanFor(n, K)[x].kind # "burst"
    BY <1>2, <2>2, <2>3
  <2> QED BY <1>1, <1>4, <2>1, <2>4 DEF Plan, XssPlan, ForEachTarget
<1>5. CASE c.check = "open-redirect"
  <2>1. PICK K : K = <<"plain", "suffix", "scheme">>
    OBVIOUS
  <2>2. Len(K) = 3 /\ \A j \in 1..3 : K[j] # "burst"
    BY <2>1
  <2>3. PICK k \in Nat \ {0} : k = 3
    OBVIOUS
  <2>4. \A x \in DOMAIN PlanFor(2, K) : PlanFor(2, K)[x].kind # "burst"
    BY <1>2, <2>2, <2>3
  <2> QED BY <1>5, <2>1, <2>4 DEF Plan, RedirectPlan, RedirectParams
<1>6. CASE c.check = "ssrf"
  <2>1. PICK K : K = <<"canary", "testnet", "redirect", "timing-base", "timing1", "timing2">>
    OBVIOUS
  <2>2. Len(K) = 6 /\ \A j \in 1..6 : K[j] # "burst"
    BY <2>1
  <2>3. PICK k \in Nat \ {0} : k = 6
    OBVIOUS
  <2>4. \A x \in DOMAIN PlanFor(n, K) : PlanFor(n, K)[x].kind # "burst"
    BY <1>2, <2>2, <2>3
  <2>5. PlanFor(n, K) \in Seq(Range(PlanFor(n, K)))
    BY <2>2, <2>3, PlanForAt
  <2>6. PICK P : P = PlanFor(n, K) /\ P \in Seq(Range(P))
    BY <2>5
  <2>7. \A x \in DOMAIN (<<Probe("ssrf-base", 0)>> \o P) : (<<Probe("ssrf-base", 0)>> \o P)[x].kind # "burst"
    BY <2>4, <2>6 DEF Probe
  <2> QED BY <1>1, <1>6, <2>1, <2>6, <2>7 DEF Plan, SsrfPlan, ForEachTarget
<1>7. CASE c.check = "host-header"
  BY <1>7, HostHeaderPlanIs DEF Plan, Probe
<1>8. CASE c.check = "graphql"
  <2>1. PICK ep : ep = c.ep
    OBVIOUS
  <2>2. \A x \in DOMAIN GraphqlPlan(s, ep, sweep) : GraphqlPlan(s, ep, sweep)[x].kind # "burst"
    BY GraphqlPlanIs DEF Probe
  <2> QED BY <1>8, <2>1, <2>2 DEF Plan
<1>9. CASE c.check = "method-tamper"
  BY <1>9, MethodTamperPlanIs DEF Plan, Probe
<1> QED BY <1>3, <1>4, <1>5, <1>6, <1>7, <1>8, <1>9 DEF ActiveTier

LEMMA Fresh ==
  ASSUME NEW s, NEW c, NEW steps, ProperPlan(steps), NEW seen, NEW m \in DOMAIN steps, Follows(s, c, steps, seen, m)
  PROVE  steps[m] \notin DOMAIN seen
<1>1. m \in Nat /\ DOMAIN steps = 1..Len(steps)
  BY DEF ProperPlan
<1>2. \A i \in 1..(m - 1) : i \in DOMAIN steps /\ steps[i] # steps[m]
  BY <1>1 DEF ProperPlan
<1> QED BY <1>2 DEF Follows

LEMMA RunningFinite ==
  ASSUME Shape, NEW u
  PROVE  /\ IsFiniteSet(Running) /\ Cardinality(Running) \in Nat
         /\ IsFiniteSet(Asking(u)) /\ Cardinality(Asking(u)) \in Nat /\ Cardinality(Asking(u)) <= Cardinality(Running)
<1>1. IsFiniteSet(Running)
  BY SceneIs DEF IsScene, Running
<1>2. PICK T : T = Asking(u) /\ T \in SUBSET Running
  BY DEF Asking
<1>3. IsFiniteSet(T) /\ Cardinality(T) <= Cardinality(Running)
  BY <1>1, <1>2, FS_Subset
<1> QED BY <1>1, <1>2, <1>3, FS_CardinalityType

\* A settled probe adds itself to those that did not ask, if it is one.
LEMMA Tally ==
  ASSUME Shape, NEW c \in Running, NEW p, NEW a, p \notin DOMAIN log[c], scene' = scene,
         log' = [log EXCEPT ![c] = With(@, p, a)], NEW u
  PROVE  /\ (p.kind \in UnaskedKinds /\ UrlOf(c, p) = u) =>
              UnaskedSet(u)' = UnaskedSet(u) \cup {<<c, p>>} /\ <<c, p>> \notin UnaskedSet(u)
         /\ ~(p.kind \in UnaskedKinds /\ UrlOf(c, p) = u) => UnaskedSet(u)' = UnaskedSet(u)
<1>1. DOMAIN log = Running /\ Running' = Running
  BY DEF Shape, Running
<1>2. DOMAIN log'[c] = DOMAIN log[c] \cup {p} /\ \A d \in Running \ {c} : log'[d] = log[d]
  BY <1>1 DEF With
<1>3. PICK old, new : old = UnaskedSet(u) /\ new = UnaskedSet(u)'
  OBVIOUS
<1>4. \A cp : cp \in old <=> \E d \in Running : \E q \in DOMAIN log[d] : cp = <<d, q>> /\ q.kind \in UnaskedKinds /\ UrlOf(d, q) = u
  BY <1>3 DEF UnaskedSet
<1>5. \A cp : cp \in new <=> \E d \in Running : \E q \in DOMAIN log'[d] : cp = <<d, q>> /\ q.kind \in UnaskedKinds /\ UrlOf(d, q) = u
  BY <1>1, <1>3 DEF UnaskedSet
<1>6. \A cp \in old : cp \in new
  BY <1>2, <1>4, <1>5
<1>7. \A cp \in new : cp \in old \/ (cp = <<c, p>> /\ p.kind \in UnaskedKinds /\ UrlOf(c, p) = u)
  BY <1>2, <1>4, <1>5
<1>8. (p.kind \in UnaskedKinds /\ UrlOf(c, p) = u) => <<c, p>> \in new
  BY <1>2, <1>5
<1>9. <<c, p>> \notin old
  BY <1>4
<1> QED BY <1>3, <1>6, <1>7, <1>8, <1>9

\* What a probe that asked found before it was let through.
LEMMA AskedInTime ==
  ASSUME PInv, NEW c \in Running, stage[c] # "idle", NEW p, NEW i \in DOMAIN plan[c], p = plan[c][i],
         Asks(c, p), GateOpen(c, p)
  PROVE  audit[UrlOf(c, p)] < MaxProbes
<1>1. c.check \in ActiveTier
  BY DEF Asks, Counted
<1>2. IsScene(scene)
  BY SceneIs DEF PInv
<1>3. p.kind # "burst"
  <2>1. plan[c] = Plan(scene, c, c \in sweeps)
    BY PlaceOf
  <2>2. PICK sw, P : sw = (c \in sweeps) /\ P = Plan(scene, c, sw)
    OBVIOUS
  <2>3. \A x \in DOMAIN Plan(scene, c, sw) : Plan(scene, c, sw)[x].kind # "burst"
    BY <1>1, <1>2, ActivePlans
  <2> QED BY <2>1, <2>2, <2>3
<1>4. Gate(c, p) \in {"cap", "reserve"}
  BY <1>1, <1>3 DEF Gate, Asks, Counted, UnaskedKinds
<1>5. audit[UrlOf(c, p)] \in Nat /\ MaxProbes \in Nat
  <2>1. UrlOf(c, p) \in Urls
    BY UrlKnown
  <2> QED BY <2>1, ProbingAssumption DEF PInv, Shape
<1>6. CASE Gate(c, p) = "cap"
  BY <1>6 DEF GateOpen
<1>7. CASE Gate(c, p) = "reserve"
  <2>1. audit[UrlOf(c, p)] + 4 <= MaxProbes
    BY <1>7 DEF GateOpen
  <2> QED BY <2>1, <1>5
<1> QED BY <1>4, <1>6, <1>7

LEMMA PassedCounted ==
  ASSUME NEW c, NEW p, c.check \in ActiveTier, GateOpen(c, p), cancelled
  PROVE  p.kind \in UnaskedKinds
<1>1. Gate(c, p) = "none"
  <2>1. Gate(c, p) \in {"none", "ctx", "cap", "reserve"}
    BY DEF Gate
  <2> QED BY <2>1 DEF GateOpen
<1> QED BY <1>1 DEF Gate, UnaskedKinds

(* What a step of check c does to the tally of a URL.                        *)
LEMMA AskingKept ==
  ASSUME Shape, NEW c \in Running, Apart(c), NEW u,
         ~(stage'[c] = "flight" /\ Asks(c, flight'[c]) /\ UrlOf(c, flight'[c]) = u)
  PROVE  Asking(u)' = Asking(u) \ {c}
<1>1. Running' = Running
  BY DEF Apart, Running
<1>2. \A d \in Running \ {c} : stage'[d] = stage[d] /\ flight'[d] = flight[d]
  BY DEF Apart
<1> QED BY <1>1, <1>2 DEF Asking

LEMMA CapKept ==
  ASSUME PInv, CapInv, scene' = scene, NEW u \in Urls,
         IsFiniteSet(UnaskedSet(u)'),
         audit'[u] \in Nat, Cardinality(Asking(u)') \in Nat, Cardinality(UnaskedSet(u)') \in Nat,
         audit'[u] + Cardinality(Asking(u)') + Cardinality(UnaskedSet(u)) <=
            audit[u] + Cardinality(Asking(u)) + Cardinality(UnaskedSet(u)')
  PROVE  /\ IsFiniteSet(UnaskedSet(u)')
         /\ audit'[u] + Cardinality(Asking(u)') <= MaxProbes + (Cardinality(Running') - 1) + Cardinality(UnaskedSet(u)')
<1>1. PICK a, n, k, r, b, m, l, x \in Nat :
        /\ a = audit[u] /\ n = Cardinality(Asking(u)) /\ k = Cardinality(UnaskedSet(u)) /\ r = Cardinality(Running)
        /\ b = audit'[u] /\ m = Cardinality(Asking(u)') /\ l = Cardinality(UnaskedSet(u)') /\ x = MaxProbes
  <2>1. audit[u] \in Nat
    BY DEF PInv, Shape
  <2>2. Cardinality(Asking(u)) \in Nat /\ Cardinality(Running) \in Nat
    BY RunningFinite DEF PInv
  <2>3. Cardinality(UnaskedSet(u)) \in Nat
    BY FS_CardinalityType DEF CapInv
  <2>4. MaxProbes \in Nat
    BY ProbingAssumption
  <2> QED BY <2>1, <2>2, <2>3, <2>4
<1>2. a + n <= x + (r - 1) + k
  BY <1>1 DEF CapInv
<1>3. b + m + k <= a + n + l
  BY <1>1
<1>4. b + m <= x + (r - 1) + l
  BY <1>2, <1>3
<1>5. Cardinality(Running') = r
  BY <1>1 DEF Running
<1> QED BY <1>1, <1>4, <1>5

\* Sending: room was seen, or nothing that asks is sent to u.
LEMMA SendCap ==
  ASSUME PInv, PInv', CapInv, NEW c \in Running, Send(c)
  PROVE  CapInv'
<1>1. /\ scene' = scene /\ audit' = audit /\ log' = log /\ stage[c] = "ready" /\ NextProbe(c) # NoProbe
      /\ GateOpen(c, NextProbe(c))
      /\ stage' = [stage EXCEPT ![c] = "flight"] /\ flight' = [flight EXCEPT ![c] = NextProbe(c)]
  BY DEF Send
<1>2. Urls' = Urls /\ Running' = Running /\ UnaskedKinds' = UnaskedKinds
  BY <1>1 DEF Urls, Running
<1>3. Apart(c) /\ stage'[c] = "flight" /\ flight'[c] = NextProbe(c)
  BY <1>1 DEF Apart, PInv, Shape, Send
<1> SUFFICES ASSUME NEW u \in Urls
             PROVE  /\ IsFiniteSet(UnaskedSet(u)')
                    /\ audit'[u] + Cardinality(Asking(u)') <=
                         MaxProbes + (Cardinality(Running') - 1) + Cardinality(UnaskedSet(u)')
  BY <1>2 DEF CapInv
<1>4. UnaskedSet(u)' = UnaskedSet(u)
  BY <1>1, <1>2 DEF UnaskedSet
<1>5. IsFiniteSet(UnaskedSet(u)) /\ Cardinality(UnaskedSet(u)) \in Nat
  BY FS_CardinalityType DEF CapInv
<1>6. Shape'
  BY DEF PInv
<1>7. Cardinality(Asking(u)') \in Nat /\ Cardinality(Asking(u)') <= Cardinality(Running)
  <2>1. IsFiniteSet(Running) /\ Cardinality(Running) \in Nat
    BY RunningFinite DEF PInv
  <2>2. PICK T : T = Asking(u)' /\ T \in SUBSET Running
    BY <1>2 DEF Asking
  <2>3. IsFiniteSet(T) /\ Cardinality(T) <= Cardinality(Running)
    BY <2>1, <2>2, FS_Subset
  <2> QED BY <2>2, <2>3, FS_CardinalityType
<1>8. audit[u] \in Nat /\ MaxProbes \in Nat /\ Cardinality(Running) \in Nat
  BY ProbingAssumption, RunningFinite DEF PInv, Shape
<1>9. CASE Asks(c, NextProbe(c)) /\ UrlOf(c, NextProbe(c)) = u
  <2>1. PICK i \in DOMAIN plan[c] : NextProbe(c) = plan[c][i]
    BY <1>1, NextPlace
  <2>2. audit[u] < MaxProbes
    BY <1>1, <1>9, <2>1, AskedInTime
  <2>3. audit[u] + Cardinality(Asking(u)') <= MaxProbes + (Cardinality(Running) - 1) + Cardinality(UnaskedSet(u))
    BY <2>2, <1>5, <1>7, <1>8
  <2> QED BY <2>3, <1>1, <1>2, <1>4, <1>5
<1>10. CASE ~(Asks(c, NextProbe(c)) /\ UrlOf(c, NextProbe(c)) = u)
  <2>1. Asking(u)' = Asking(u) \ {c}
    BY <1>3, <1>10, AskingKept DEF PInv
  <2>2. IsFiniteSet(Asking(u)) /\ Cardinality(Asking(u)) \in Nat
    BY RunningFinite DEF PInv
  <2>3. Cardinality(Asking(u) \ {c}) <= Cardinality(Asking(u))
    BY <2>2, FS_RemoveElement
  <2>4. audit'[u] + Cardinality(Asking(u)') + Cardinality(UnaskedSet(u)) <=
            audit[u] + Cardinality(Asking(u)) + Cardinality(UnaskedSet(u)')
    BY <1>1, <1>4, <1>5, <1>7, <1>8, <2>1, <2>2, <2>3
  <2> QED BY <1>1, <1>4, <1>5, <1>7, <1>8, <2>4, CapKept
<1> QED BY <1>9, <1>10

LEMMA PassOverCap ==
  ASSUME PInv, PInv', CapInv, NEW c \in Running, PassOver(c)
  PROVE  CapInv'
<1>1. /\ scene' = scene /\ stage' = stage /\ flight' = flight /\ stage[c] = "ready" /\ NextProbe(c) # NoProbe
      /\ ~GateOpen(c, NextProbe(c)) \/ cancelled
      /\ audit' = [audit EXCEPT ![UrlOf(c, NextProbe(c))] =
                       IF GateOpen(c, NextProbe(c)) /\ Counted(c, NextProbe(c)) THEN @ + 1 ELSE @]
  BY DEF PassOver
<1>2. PICK a : log' = [log EXCEPT ![c] = With(@, NextProbe(c), a)]
  BY DEF PassOver
<1>3. Urls' = Urls /\ Running' = Running
  BY <1>1 DEF Urls, Running
<1>4. PICK p : p = NextProbe(c)
  OBVIOUS
<1>5. PICK m \in DOMAIN plan[c] : p = plan[c][m] /\ Follows(scene, c, plan[c], log[c], m)
  BY <1>1, <1>4, NextPlace
<1>6. p \notin DOMAIN log[c]
  BY <1>1, <1>5, PlaceOf, Fresh
<1> SUFFICES ASSUME NEW u \in Urls
             PROVE  /\ IsFiniteSet(UnaskedSet(u)')
                    /\ audit'[u] + Cardinality(Asking(u)') <=
                         MaxProbes + (Cardinality(Running') - 1) + Cardinality(UnaskedSet(u)')
  BY <1>3 DEF CapInv
<1>7. Asking(u)' = Asking(u)
  BY <1>1, <1>3 DEF Asking
<1>8. IsFiniteSet(UnaskedSet(u)) /\ Cardinality(UnaskedSet(u)) \in Nat
  BY FS_CardinalityType DEF CapInv
<1>9. Cardinality(Asking(u)) \in Nat
  BY RunningFinite DEF PInv
<1>10. audit \in [Urls -> Nat] /\ audit[u] \in Nat
  BY DEF PInv, Shape
<1>11. PICK b \in BOOLEAN : b = (GateOpen(c, p) /\ Counted(c, p))
  OBVIOUS
<1>12. PICK v \in Urls : v = UrlOf(c, p)
  BY UrlKnown
<1>13. audit' = [audit EXCEPT ![v] = IF b THEN @ + 1 ELSE @]
  BY <1>1, <1>4, <1>11, <1>12
<1>14. /\ (u = v /\ b = TRUE) => audit'[u] = audit[u] + 1
       /\ ~(u = v /\ b = TRUE) => audit'[u] = audit[u]
  BY <1>10, <1>13, Counting
<1>15. b = TRUE => p.kind \in UnaskedKinds
  <2> SUFFICES ASSUME b = TRUE PROVE p.kind \in UnaskedKinds
    OBVIOUS
  <2>1. GateOpen(c, p) /\ Counted(c, p) /\ cancelled
    BY <1>1, <1>4, <1>11
  <2>2. c.check \in ActiveTier
    BY <2>1 DEF Counted
  <2> QED BY <2>1, <2>2, PassedCounted
<1>16. /\ (p.kind \in UnaskedKinds /\ v = u) =>
              UnaskedSet(u)' = UnaskedSet(u) \cup {<<c, p>>} /\ <<c, p>> \notin UnaskedSet(u)
       /\ ~(p.kind \in UnaskedKinds /\ v = u) => UnaskedSet(u)' = UnaskedSet(u)
  BY <1>1, <1>2, <1>4, <1>6, <1>12, Tally DEF PInv
<1>17. CASE p.kind \in UnaskedKinds /\ v = u
  <2>1. IsFiniteSet(UnaskedSet(u)') /\ Cardinality(UnaskedSet(u)') = Cardinality(UnaskedSet(u)) + 1
    BY <1>8, <1>16, <1>17, FS_AddElement
  <2>2. audit'[u] \in Nat /\ audit'[u] <= audit[u] + 1
    BY <1>10, <1>14
  <2>3. audit'[u] + Cardinality(Asking(u)') + Cardinality(UnaskedSet(u)) <=
            audit[u] + Cardinality(Asking(u)) + Cardinality(UnaskedSet(u)')
    BY <2>1, <2>2, <1>7, <1>8, <1>9, <1>10
  <2> QED BY <1>1, <1>7, <1>8, <1>9, <2>1, <2>2, <2>3, CapKept
<1>18. CASE ~(p.kind \in UnaskedKinds /\ v = u)
  <2>1. UnaskedSet(u)' = UnaskedSet(u) /\ audit'[u] = audit[u]
    BY <1>14, <1>15, <1>16, <1>18
  <2>2. audit'[u] + Cardinality(Asking(u)') + Cardinality(UnaskedSet(u)) <=
            audit[u] + Cardinality(Asking(u)) + Cardinality(UnaskedSet(u)')
    BY <2>1, <1>7, <1>8, <1>9, <1>10
  <2> QED BY <1>1, <1>7, <1>8, <1>9, <1>10, <2>1, <2>2, CapKept
<1> QED BY <1>17, <1>18

\* Settling: what is recorded asked for the cap, or counts as not having asked.
LEMMA SettleCap ==
  ASSUME PInv, PInv', CapInv, NEW c \in Running, NEW a, Settle(c, a)
  PROVE  CapInv'
<1>1. /\ scene' = scene /\ plan' = plan /\ sweeps' = sweeps /\ found' = found
      /\ stage[c] = "flight" /\ stage' = [stage EXCEPT ![c] = "ready"]
      /\ log' = [log EXCEPT ![c] = With(@, flight[c], a)] /\ flight' = [flight EXCEPT ![c] = NoProbe]
  BY DEF Settle
<1>2. Urls' = Urls /\ Running' = Running
  BY <1>1 DEF Urls, Running
<1>3. Apart(c) /\ stage'[c] = "ready"
  BY <1>1 DEF Apart, PInv, Shape
<1>4. PICK p : p = flight[c]
  OBVIOUS
<1>5. PICK n \in 1..(Len(plan[c]) + 1) : n <= Len(plan[c]) /\ p = plan[c][n] /\ Follows(scene, c, plan[c], log[c], n)
  BY <1>1, <1>4, PlaceOf
<1>6. p \notin DOMAIN log[c]
  <2>1. ProperPlan(plan[c])
    BY <1>1, PlaceOf
  <2>2. n \in DOMAIN plan[c]
    BY <2>1, <1>5 DEF ProperPlan
  <2> QED BY <2>1, <2>2, <1>5, Fresh
<1> SUFFICES ASSUME NEW u \in Urls
             PROVE  /\ IsFiniteSet(UnaskedSet(u)')
                    /\ audit'[u] + Cardinality(Asking(u)') <=
                         MaxProbes + (Cardinality(Running') - 1) + Cardinality(UnaskedSet(u)')
  BY <1>2 DEF CapInv
<1>7. Asking(u)' = Asking(u) \ {c}
  BY <1>3, AskingKept DEF PInv
<1>8. IsFiniteSet(UnaskedSet(u)) /\ Cardinality(UnaskedSet(u)) \in Nat
  BY FS_CardinalityType DEF CapInv
<1>9. /\ Cardinality(Asking(u)) \in Nat /\ Cardinality(Asking(u) \ {c}) \in Nat
      /\ Cardinality(Asking(u) \ {c}) <= Cardinality(Asking(u))
      /\ c \in Asking(u) => Cardinality(Asking(u) \ {c}) = Cardinality(Asking(u)) - 1
  <2>1. PICK T : T = Asking(u) /\ IsFiniteSet(T) /\ Cardinality(T) \in Nat
    BY RunningFinite DEF PInv
  <2>2. IsFiniteSet(T \ {c}) /\ Cardinality(T \ {c}) = IF c \in T THEN Cardinality(T) - 1 ELSE Cardinality(T)
    BY <2>1, FS_RemoveElement
  <2>3. Cardinality(T \ {c}) \in Nat
    BY <2>2, FS_CardinalityType
  <2> QED BY <2>1, <2>2, <2>3
<1>10. audit \in [Urls -> Nat] /\ audit[u] \in Nat
  BY DEF PInv, Shape
<1>11. PICK b \in BOOLEAN : b = (Counted(c, p) /\ ~(p.kind \in {"again1", "again2"} /\ a = NoAnswer))
  OBVIOUS
<1>12. PICK v \in Urls : v = UrlOf(c, p)
  BY UrlKnown
<1>13. audit' = [audit EXCEPT ![v] = IF b THEN @ + 1 ELSE @]
  BY <1>4, <1>11, <1>12 DEF Settle
<1>14. /\ (u = v /\ b = TRUE) => audit'[u] = audit[u] + 1
       /\ ~(u = v /\ b = TRUE) => audit'[u] = audit[u]
  BY <1>10, <1>13, Counting
<1>15. (b = TRUE /\ u = v) => (p.kind \in UnaskedKinds \/ c \in Asking(u))
  BY <1>1, <1>4, <1>11, <1>12 DEF Asking, Asks
<1>16. /\ (p.kind \in UnaskedKinds /\ v = u) =>
              UnaskedSet(u)' = UnaskedSet(u) \cup {<<c, p>>} /\ <<c, p>> \notin UnaskedSet(u)
       /\ ~(p.kind \in UnaskedKinds /\ v = u) => UnaskedSet(u)' = UnaskedSet(u)
  <2>1. Shape /\ scene' = scene /\ log' = [log EXCEPT ![c] = With(@, p, a)]
    BY <1>1, <1>4 DEF PInv
  <2> QED BY <2>1, <1>6, <1>12, Tally
<1>17. CASE p.kind \in UnaskedKinds /\ v = u
  <2>1. IsFiniteSet(UnaskedSet(u)') /\ Cardinality(UnaskedSet(u)') = Cardinality(UnaskedSet(u)) + 1
    BY <1>8, <1>16, <1>17, FS_AddElement
  <2>2. audit'[u] \in Nat /\ audit'[u] <= audit[u] + 1
    BY <1>10, <1>14
  <2>3. audit'[u] + Cardinality(Asking(u)') + Cardinality(UnaskedSet(u)) <=
            audit[u] + Cardinality(Asking(u)) + Cardinality(UnaskedSet(u)')
    BY <2>1, <2>2, <1>7, <1>8, <1>9, <1>10
  <2>4. Cardinality(Asking(u)') \in Nat /\ Cardinality(UnaskedSet(u)') \in Nat
    BY <2>1, <1>7, <1>8, <1>9
  <2> QED BY <1>1, <2>1, <2>2, <2>3, <2>4, CapKept
<1>18. CASE ~(p.kind \in UnaskedKinds /\ v = u)
  <2>1. UnaskedSet(u)' = UnaskedSet(u)
    BY <1>16, <1>18
  <2>2. audit'[u] \in Nat /\ audit'[u] + Cardinality(Asking(u) \ {c}) <= audit[u] + Cardinality(Asking(u))
    BY <1>9, <1>10, <1>14, <1>15, <1>18
  <2>3. audit'[u] + Cardinality(Asking(u)') + Cardinality(UnaskedSet(u)) <=
            audit[u] + Cardinality(Asking(u)) + Cardinality(UnaskedSet(u)')
    BY <2>1, <2>2, <1>7, <1>8, <1>9, <1>10
  <2> QED BY <1>1, <1>7, <1>8, <1>9, <1>10, <2>1, <2>2, <2>3, CapKept
<1> QED BY <1>17, <1>18

\* A step that records nothing and sends nothing leaves the tally alone.
LEMMA TallyAlone ==
  ASSUME PInv, CapInv, scene' = scene, log' = log, flight' = flight, audit' = audit,
         \A d \in Running : stage'[d] = "flight" => stage[d] = "flight"
  PROVE  CapInv'
<1>1. Urls' = Urls /\ Running' = Running
  BY DEF Urls, Running
<1> SUFFICES ASSUME NEW u \in Urls
             PROVE  /\ IsFiniteSet(UnaskedSet(u)')
                    /\ audit'[u] + Cardinality(Asking(u)') <=
                         MaxProbes + (Cardinality(Running') - 1) + Cardinality(UnaskedSet(u)')
  BY <1>1 DEF CapInv
<1>2. UnaskedSet(u)' = UnaskedSet(u)
  BY <1>1 DEF UnaskedSet
<1>3. IsFiniteSet(UnaskedSet(u)) /\ Cardinality(UnaskedSet(u)) \in Nat
  BY FS_CardinalityType DEF CapInv
<1>4. PICK T, V : T = Asking(u) /\ V = Asking(u)' /\ IsFiniteSet(T) /\ Cardinality(T) \in Nat
  BY RunningFinite DEF PInv
<1>5. V \in SUBSET T
  BY <1>1, <1>4 DEF Asking
<1>6. Cardinality(V) \in Nat /\ Cardinality(V) <= Cardinality(T)
  BY <1>4, <1>5, FS_Subset, FS_CardinalityType
<1>7. audit[u] \in Nat
  BY DEF PInv, Shape
<1>8. audit'[u] + Cardinality(Asking(u)') + Cardinality(UnaskedSet(u)) <=
            audit[u] + Cardinality(Asking(u)) + Cardinality(UnaskedSet(u)')
  BY <1>2, <1>3, <1>4, <1>6, <1>7
<1> QED BY <1>2, <1>3, <1>4, <1>6, <1>7, <1>8, CapKept

LEMMA InitCapInv == ASSUME Init PROVE CapInv
<1>1. PInv
  BY InitPInv
<1>2. Cardinality(Running) \in Nat
  BY <1>1, RunningFinite DEF PInv
<1>3. MaxProbes \in Nat /\ MaxProbes >= 1
  BY ProbingAssumption
<1> SUFFICES ASSUME NEW u \in Urls
             PROVE  /\ IsFiniteSet(UnaskedSet(u))
                    /\ audit[u] + Cardinality(Asking(u)) <= MaxProbes + (Cardinality(Running) - 1) + Cardinality(UnaskedSet(u))
  BY DEF CapInv
<1>4. audit[u] = 0 /\ Asking(u) = {}
  BY DEF Init, Asking
<1>5. UnaskedSet(u) = {}
  BY DEF Init, UnaskedSet
<1>6. IsFiniteSet({}) /\ Cardinality({}) = 0
  BY FS_EmptySet
<1> QED BY <1>2, <1>3, <1>4, <1>5, <1>6

LEMMA NextCapInv == ASSUME PInv, PInv', CapInv, [Next]_vars PROVE CapInv'
<1>1. CASE UNCHANGED vars
  BY <1>1, TallyAlone DEF vars
<1>2. CASE Cancel
  BY <1>2, TallyAlone DEF Cancel
<1>3. ASSUME NEW c \in Running, Start(c) PROVE CapInv'
  <2>1. scene' = scene /\ log' = log /\ flight' = flight /\ audit' = audit /\ stage' = [stage EXCEPT ![c] = "ready"]
    BY <1>3 DEF Start
  <2>2. \A d \in Running : stage'[d] = "flight" => stage[d] = "flight"
    BY <2>1 DEF PInv, Shape
  <2> QED BY <2>1, <2>2, TallyAlone
<1>4. ASSUME NEW c \in Running, Return(c) PROVE CapInv'
  <2>1. scene' = scene /\ log' = log /\ flight' = flight /\ audit' = audit /\ stage' = [stage EXCEPT ![c] = "done"]
    BY <1>4 DEF Return
  <2>2. \A d \in Running : stage'[d] = "flight" => stage[d] = "flight"
    BY <2>1 DEF PInv, Shape
  <2> QED BY <2>1, <2>2, TallyAlone
<1>5. ASSUME NEW c \in Running, stage[c] = "flight", Receive(c) PROVE CapInv'
  BY <1>5, SettleCap DEF Receive
<1>6. ASSUME NEW c \in Running, Fail(c) PROVE CapInv'
  BY <1>6, SettleCap DEF Fail
<1> QED BY <1>1, <1>2, <1>3, <1>4, <1>5, <1>6, SendCap, PassOverCap DEF Next

(* The cap on active probes per URL bounds what asks for it                  *)
(* (probe_audit_log.go, CountFor and Record around every send).              *)
THEOREM TheCapHolds == Spec => []CapHolds
<1>1. Init => CapInv
  BY InitCapInv
<1>2. PInv /\ PInv' /\ CapInv /\ [Next]_vars => CapInv'
  BY NextCapInv
<1>3. PInv /\ CapInv => CapHolds
  <2> SUFFICES ASSUME PInv, CapInv, NEW u \in Urls
               PROVE  audit[u] <= MaxProbes + (Cardinality(Running) - 1) + Unasked(u)
    BY DEF CapHolds
  <2>1. Unasked(u) = Cardinality(UnaskedSet(u))
    BY DEF Unasked, UnaskedSet
  <2>2. PICK a, n, k, r, x \in Nat :
            /\ a = audit[u] /\ n = Cardinality(Asking(u)) /\ k = Cardinality(UnaskedSet(u))
            /\ r = Cardinality(Running) /\ x = MaxProbes
    <3>1. audit[u] \in Nat
      BY DEF PInv, Shape
    <3>2. Cardinality(UnaskedSet(u)) \in Nat
      BY FS_CardinalityType DEF CapInv
    <3> QED BY <3>1, <3>2, RunningFinite, ProbingAssumption DEF PInv
  <2>3. a + n <= x + (r - 1) + k
    BY <2>2 DEF CapInv
  <2>4. a <= x + (r - 1) + k
    BY <2>3
  <2> QED BY <2>1, <2>2, <2>4
<1> QED BY <1>1, <1>2, <1>3, PInvHolds, PTL DEF Spec

-----------------------------------------------------------------------------
(* --- only real flaws ------------------------------------------------------- *)
(* Whatever a check was told, it was told in answer to a request it had      *)
(* reason to send.                                                           *)
Told(s, c, P, L) == \A p \in DOMAIN L : \E i \in DOMAIN P : p = P[i] /\ Settled(s, c, P, L, i)

\* Warranted, of any log on any scene.
Warrant(s, L, f) ==
    \/ \A w \in Warrants : w[1] # f.rule
    \/ \E w \in Warrants : w[1] = f.rule /\ Has(s, w[2])
    \/ f.confidence = "MEDIUM" /\ \E m \in Misleads : m[1] = f.rule /\ Has(s, m[2])
    \/ /\ f.rule \in {JwtRule[k] : k \in DOMAIN JwtRule}
       /\ Has(s, "open") /\ ~Answered(L, Probe("garbage", 0))
    \/ f.rule = "ssrf/error-leakage" /\ Has(s, "echo") /\ Has(s, "backend")

LEMMA DoneTold ==
  ASSUME PInv, NEW c \in Running, Done(c)
  PROVE  Told(scene, c, plan[c], log[c]) /\ ProperPlan(plan[c]) /\ found[c] = FindingsOf(scene, c, log[c])
<1>1. PICK P, L, n : P = plan[c] /\ L = log[c] /\ n = Len(P) + 1 /\ ProperPlan(P) /\ Follows(scene, c, P, L, n)
  BY DoneReports
<1>2. Len(P) \in Nat /\ DOMAIN P = 1..Len(P)
  BY <1>1 DEF ProperPlan
<1>3. ASSUME NEW p \in DOMAIN L PROVE \E i \in DOMAIN P : p = P[i] /\ Settled(scene, c, P, L, i)
  <2>1. PICK i \in 1..(n - 1) : p = P[i]
    BY <1>1 DEF Follows
  <2>2. Settled(scene, c, P, L, i)
    BY <1>1, <2>1 DEF Follows
  <2>3. i \in DOMAIN P
    BY <1>1, <1>2
  <2> QED BY <2>1, <2>2, <2>3
<1> QED BY <1>1, <1>3, DoneReports DEF Told

LEMMA NotLost ==
  ASSUME NEW a, a.code # 0 \/ \E m \in a.marks : m # "cut"
  PROVE  a \notin Lost
BY DEF Lost, NoAnswer, Answer

LEMMA Replied ==
  ASSUME NEW s, NEW c, NEW P, NEW L, Told(s, c, P, L), NEW p, Got(L, p) \notin Lost
  PROVE  /\ p \in DOMAIN L /\ Got(L, p) = L[p]
         /\ \E i \in DOMAIN P : /\ p = P[i] /\ Wanted(s, c, Upto(P, L, i), p)
                                /\ L[p] \in Answers(s, c, Upto(P, L, i), p)
<1>1. p \in DOMAIN L /\ Got(L, p) = L[p]
  BY DEF Got, Lost
<1>2. PICK i \in DOMAIN P : p = P[i] /\ Settled(s, c, P, L, i)
  BY <1>1 DEF Told
<1> QED BY <1>1, <1>2 DEF Settled

\* What was known at the i-th request is known at the end.
LEMMA UptoGot ==
  ASSUME NEW P, NEW L, NEW i, NEW q
  PROVE  /\ Got(Upto(P, L, i), q) # NoAnswer => Got(Upto(P, L, i), q) = Got(L, q)
         /\ \A j \in 1..(i - 1) : q = P[j] => Got(Upto(P, L, i), q) = Got(L, q)
         /\ \A r \in DOMAIN Upto(P, L, i) : r \in DOMAIN L /\ Upto(P, L, i)[r] = L[r]
BY DEF Got, Upto

LEMMA XssIsReal ==
  ASSUME NEW s, NEW c, c.check = "xss", NEW P, NEW L, Told(s, c, P, L), NEW f \in XssFindings(s, L)
  PROVE  Warrant(s, L, f)
<1>1. f.rule = "xss/reflected"
  BY DEF XssFindings, FindingIf, Finding
<1>2. PICK t : XssConfirmed(Got(L, Probe("xss", t)))
  BY DEF XssFindings, FindingIf
<1>3. PICK a, p : p = Probe("xss", t) /\ a = Got(L, p) /\ a.code < 400 /\ "html" \in a.marks /\ "raw" \in a.marks
  BY <1>2 DEF XssConfirmed
<1>4. a \notin Lost
  BY <1>3, NotLost
<1>5. PICK U : a \in Answers(s, c, U, p)
  BY <1>3, <1>4, Replied
<1>6. a \in XssAnswers(s, p)
  BY <1>5 DEF Answers
<1>7. Has(s, "xssRaw")
  BY <1>3, <1>6 DEF XssAnswers, Answer
<1>8. <<"xss/reflected", "xssRaw">> \in Warrants
  BY DEF Warrants
<1> QED BY <1>1, <1>7, <1>8 DEF Warrant

\* The finding names a flaw the target has.
LEMMA Guilty ==
  ASSUME NEW s, NEW L, NEW f, NEW trait, <<f.rule, trait>> \in Warrants, Has(s, trait)
  PROVE  Warrant(s, L, f)
BY DEF Warrant

LEMMA KindsInPlan ==
  ASSUME NEW n \in Nat, NEW kinds, NEW k \in Nat \ {0}, Len(kinds) = k, NEW x \in DOMAIN PlanFor(n, kinds)
  PROVE  \E j \in 1..k : PlanFor(n, kinds)[x].kind = kinds[j]
<1>1. PICK t \in 1..n, j \in 1..k : PlanFor(n, kinds)[x] = Probe(kinds[j], t)
  BY PlanForEach
<1> QED BY <1>1 DEF Probe

LEMMA RedirectKinds ==
  ASSUME NEW s, NEW x \in DOMAIN RedirectPlan(s)
  PROVE  RedirectPlan(s)[x].kind \in {"plain", "suffix", "scheme"}
<1>1. PICK K : K = <<"plain", "suffix", "scheme">>
  OBVIOUS
<1>2. Len(K) = 3 /\ \A j \in 1..3 : K[j] \in {"plain", "suffix", "scheme"}
  BY <1>1
<1>3. PICK n \in Nat, k \in Nat \ {0} : n = 2 /\ k = 3
  OBVIOUS
<1>4. PICK Q : Q = PlanFor(n, K) /\ Q = RedirectPlan(s)
  BY <1>1, <1>3 DEF RedirectPlan, RedirectParams
<1>5. Len(K) = k /\ x \in DOMAIN PlanFor(n, K)
  BY <1>2, <1>3, <1>4
<1>6. \E j \in 1..k : PlanFor(n, K)[x].kind = K[j]
  BY <1>5, KindsInPlan
<1> QED BY <1>2, <1>3, <1>4, <1>6

LEMMA RedirectsAreReal ==
  ASSUME NEW s, NEW c, c.check = "open-redirect", NEW P, P = RedirectPlan(s),
         NEW L, Told(s, c, P, L), NEW f \in RedirectFindings(L)
  PROVE  Warrant(s, L, f)
<1>1. PICK p \in DOMAIN L : RedirectHit(L, p) /\ f.rule = "openredirect/confirmed"
  BY DEF RedirectFindings, FindingIf, Finding
<1>2. PICK a : a = Got(L, p) /\ a.code \in 300..399
  BY <1>1 DEF RedirectHit, Is3xx
<1>3. a \notin Lost
  BY <1>2, NotLost
<1>4. PICK i \in DOMAIN P : p = P[i] /\ a \in Answers(s, c, Upto(P, L, i), p)
  BY <1>2, <1>3, Replied
<1>5. a \in RedirectAnswers(s, p)
  BY <1>4 DEF Answers
<1>6. p.kind \in {"plain", "suffix", "scheme"}
  BY <1>4, RedirectKinds
<1>7. "sentinel" \in a.marks \/ "subdomain" \in a.marks \/ "runs" \in a.marks
  BY <1>1, <1>2, <1>6 DEF RedirectHit, Shows
<1>8. Has(s, "redirOpen") \/ Has(s, "redirSuffix") \/ Has(s, "redirScheme")
  BY <1>5, <1>6, <1>7 DEF RedirectAnswers, Answer
<1>9. \A t \in {"redirOpen", "redirSuffix", "redirScheme"} : <<"openredirect/confirmed", t>> \in Warrants
  BY DEF Warrants
<1> QED BY <1>1, <1>8, <1>9, Guilty

LEMMA GraphqlIsReal ==
  ASSUME NEW s, NEW c, c.check = "graphql", NEW P, NEW L, Told(s, c, P, L), NEW f \in GraphqlFindings(L)
  PROVE  Warrant(s, L, f)
<1>1. ASSUME NEW p, {"json", "schema"} \subseteq Got(L, p).marks
      PROVE  Has(s, "introspects") /\ (p.kind = "get" => Has(s, "viaGet"))
  <2>1. PICK a : a = Got(L, p) /\ "json" \in a.marks
    BY <1>1
  <2>2. a \notin Lost
    BY <2>1, NotLost
  <2>3. PICK U : a \in Answers(s, c, U, p)
    BY <2>1, <2>2, Replied
  <2>4. a \in GraphqlAnswers(s, p)
    BY <2>3 DEF Answers
  <2> QED BY <2>1, <2>4 DEF GraphqlAnswers, Answer
<1>2. CASE /\ f.rule = "graphql/introspection-enabled"
           /\ \E p \in DOMAIN L : Introspected(L, p.t)
  <2>1. Has(s, "introspects")
    BY <1>1, <1>2 DEF Introspected
  <2>2. <<f.rule, "introspects">> \in Warrants
    BY <1>2 DEF Warrants
  <2> QED BY <2>1, <2>2, Guilty
<1>3. CASE /\ f.rule = "graphql/get-execution"
           /\ \E p \in DOMAIN L : p.kind = "get" /\ {"json", "schema"} \subseteq L[p].marks
  <2>1. Has(s, "viaGet")
    BY <1>1, <1>3 DEF Got
  <2>2. <<f.rule, "viaGet">> \in Warrants
    BY <1>3 DEF Warrants
  <2> QED BY <2>1, <2>2, Guilty
<1> QED BY <1>2, <1>3 DEF GraphqlFindings, FindingIf, Finding

LEMMA ConfigLeakIsReal ==
  ASSUME NEW s, NEW c, c.check = "configleak", NEW P, NEW L, Told(s, c, P, L), NEW f \in ConfigLeakFindings(L)
  PROVE  Warrant(s, L, f)
<1>1. f.rule = "configleak"
  BY DEF ConfigLeakFindings, FindingIf, Finding
<1>2. PICK p, a : p = Probe("leak", 0) /\ a = Got(L, p) /\ a.code \in 200..299 /\ a.marks \cap {"html", "json"} = {}
  BY DEF ConfigLeakFindings, FindingIf, Is2xx
<1>3. a \notin Lost
  BY <1>2, NotLost
<1>4. PICK U : a \in Answers(s, c, U, p)
  BY <1>2, <1>3, Replied
<1>5. a \in ConfigLeakAnswers(s)
  BY <1>4 DEF Answers
<1>6. Has(s, "leaks")
  BY <1>2, <1>5 DEF ConfigLeakAnswers, Answer
<1>7. <<f.rule, "leaks">> \in Warrants
  BY <1>1 DEF Warrants
<1> QED BY <1>6, <1>7, Guilty

LEMMA IdorIsReal ==
  ASSUME NEW s, NEW c, c.check = "idor", NEW P, NEW L, Told(s, c, P, L), NEW f \in IdorFindings(s, L)
  PROVE  Warrant(s, L, f)
<1>1. PICK p, a, b : /\ p = Probe("user2", 0) /\ a = Got(L, Probe("user1", 0)) /\ b = Got(L, p)
                     /\ a.code \in 200..299 /\ b.code # 0
  BY DEF IdorFindings, Is2xx, Answered
<1>2. a \notin Lost /\ b \notin Lost
  BY <1>1, NotLost
<1>3. PICK U : b \in Answers(s, c, U, p)
  BY <1>1, <1>2, Replied
<1>4. PICK V : a \in Answers(s, c, V, Probe("user1", 0))
  BY <1>1, <1>2, Replied
<1>5. a \in IdorAnswers(s, Probe("user1", 0)) /\ b \in IdorAnswers(s, p)
  BY <1>3, <1>4 DEF Answers
<1>6. CASE s.objectId
  <2>1. f.rule = "idor/cross-tenant-access" /\ b.code \in 200..299
    BY <1>1, <1>6 DEF IdorFindings, FindingIf, Finding, Is2xx, Answered
  <2>2. Has(s, "noOwner")
    BY <1>1, <1>5, <1>6, <2>1 DEF IdorAnswers, Answer, Probe
  <2>3. <<f.rule, "noOwner">> \in Warrants
    BY <2>1 DEF Warrants
  <2> QED BY <2>2, <2>3, Guilty
<1>7. CASE ~s.objectId
  <2>1. f.rule = "idor/identical-responses" /\ f.confidence = "MEDIUM" /\ StructurallyIdentical(a, b)
    BY <1>1, <1>7 DEF IdorFindings, FindingIf, Finding, Is2xx, Answered
  <2>2. a.marks = b.marks /\ "empty" \notin a.marks
    BY <2>1 DEF StructurallyIdentical
  <2>3. Has(s, "noOwner") \/ Has(s, "sameForAll")
    BY <1>1, <1>5, <1>7, <2>2 DEF IdorAnswers, Answer, Probe
  <2>4. <<f.rule, "noOwner">> \in Warrants
    BY <2>1 DEF Warrants
  <2>5. <<f.rule, "sameForAll">> \in Misleads
    BY <2>1 DEF Misleads
  <2> QED BY <2>1, <2>3, <2>4, <2>5, Guilty DEF Warrant
<1> QED BY <1>6, <1>7

LEMMA AuthIsReal ==
  ASSUME NEW s, NEW c, c.check = "auth", NEW P, P = AuthPlan(s), NEW L, Told(s, c, P, L), NEW f \in AuthFindings(s, L)
  PROVE  Warrant(s, L, f)
<1> DEFINE anonymous == Probe("anonymous", 0)
           garbage == Probe("garbage", 0)
           real == Probe("real", 0)
           \* a request the target answered, and why it was sent
           Reply(p, i) == /\ i \in DOMAIN P /\ p = P[i] /\ Got(L, p) \in AuthAnswers(s, p)
                          /\ AuthWanted(s, Upto(P, L, i), p)
<1>1. ASSUME NEW p, Got(L, p).code # 0 PROVE \E i : Reply(p, i)
  <2>1. Got(L, p) \notin Lost
    BY <1>1, NotLost
  <2>2. PICK i \in DOMAIN P : /\ p = P[i] /\ Wanted(s, c, Upto(P, L, i), p)
                              /\ Got(L, p) \in Answers(s, c, Upto(P, L, i), p)
    BY <2>1, Replied
  <2> QED BY <2>2 DEF Wanted, Answers
<1>2. P[1] = anonymous /\ P[2] = garbage /\ P[3] = real /\ \A i \in DOMAIN P : P[i] = real => i = 3
  BY AuthPlanIs DEF Probe
<1>3. CASE f \in UnauthenticatedFinding(s, L)
  <2>1. f.rule = "auth/unauthenticated-access" /\ Got(L, anonymous).code \in 200..299
    BY <1>3 DEF UnauthenticatedFinding, FindingIf, Finding, Accepted, Is2xx
  <2>2. PICK a : a = Got(L, anonymous) /\ a.code \in 200..299 /\ a \in AuthAnswers(s, anonymous)
    BY <2>1, <1>1
  <2>3. Has(s, "open")
    BY <2>2 DEF AuthAnswers, Answer, Probe
  <2>4. <<f.rule, "open">> \in Warrants
    BY <2>1 DEF Warrants
  <2> QED BY <2>3, <2>4, Guilty
<1>4. CASE f \notin UnauthenticatedFinding(s, L)
  <2>1. PICK k \in DOMAIN JwtRule : f.rule = JwtRule[k] /\ Got(L, Probe(k, 0)).code \in 200..299
    BY <1>4 DEF AuthFindings, FindingIf, Finding, Accepted, Is2xx
  <2>2. k \in {"malformed", "expired", "alg-none"}
    BY DEF JwtRule
  <2>3. PICK p, a, i : p = Probe(k, 0) /\ a = Got(L, p) /\ a.code \in 200..299 /\ Reply(p, i)
    BY <2>1, <1>1
  <2>4. p.kind = k
    BY <2>3 DEF Probe
  <2>5. ~Has(s, "gone")
    BY <2>3 DEF AuthAnswers, Answer
  <2>6. CASE Has(s, "anyToken")
    <3>1. <<JwtRule[k], "anyToken">> \in Warrants
      BY <2>2 DEF Warrants, JwtRule
    <3> QED BY <3>1, <2>1, <2>6, Guilty
  <2>7. CASE ~Has(s, "anyToken") /\ ~Has(s, "open")
    <3>1. (k = "expired" /\ Has(s, "noExpiry")) \/ (k = "alg-none" /\ Has(s, "algNone"))
      BY <2>2, <2>3, <2>4, <2>7 DEF AuthAnswers, Answer
    <3>2. <<JwtRule["expired"], "noExpiry">> \in Warrants /\ <<JwtRule["alg-none"], "algNone">> \in Warrants
      BY DEF Warrants, JwtRule
    <3> QED BY <3>1, <3>2, <2>1, Guilty
  <2>8. CASE Has(s, "open")
    <3>1. SUFFICES ASSUME Answered(L, garbage) PROVE FALSE
      BY <2>1, <2>8 DEF Warrant
    <3>2. PICK g, j : g = Got(L, garbage) /\ g.code # 0 /\ Reply(garbage, j)
      BY <3>1, <1>1 DEF Answered
    <3>3. g.code = 200
      BY <3>2, <2>5, <2>8 DEF AuthAnswers, Answer, Probe
    <3>4. Accepted(L, "garbage")
      BY <3>2, <3>3 DEF Accepted, Is2xx
    <3>5. Accepted(Upto(P, L, j), "anonymous")
      BY <3>2 DEF AuthWanted, Probe
    <3>6. Accepted(L, "anonymous")
      <4>1. Got(Upto(P, L, j), anonymous) # NoAnswer
        BY <3>5 DEF Accepted, Is2xx, NoAnswer, Answer
      <4>2. Got(Upto(P, L, j), anonymous) = Got(L, anonymous)
        BY <4>1, UptoGot
      <4> QED BY <3>5, <4>2 DEF Accepted
    <3>7. Accepted(Upto(P, L, i), "real")
      BY <2>2, <2>3, <2>4 DEF AuthWanted
    <3>8. Got(L, real).code # 0
      <4>1. Got(Upto(P, L, i), real) # NoAnswer /\ Got(Upto(P, L, i), real).code # 0
        BY <3>7 DEF Accepted, Is2xx, NoAnswer, Answer
      <4> QED BY <4>1, UptoGot
    <3>9. PICK r : Reply(real, r)
      BY <3>8, <1>1
    <3>10. r = 3
      BY <3>9, <1>2
    <3>11. ~EndpointAcceptsGarbage(Upto(P, L, 3))
      BY <3>9, <3>10 DEF AuthWanted, Probe
    <3>12. Got(Upto(P, L, 3), anonymous) = Got(L, anonymous) /\ Got(Upto(P, L, 3), garbage) = Got(L, garbage)
      BY <1>2, UptoGot
    <3> QED BY <3>4, <3>6, <3>11, <3>12 DEF EndpointAcceptsGarbage, Accepted
  <2> QED BY <2>6, <2>7, <2>8
<1> QED BY <1>3, <1>4

LEMMA SsrfIsReal ==
  ASSUME NEW s, NEW c, c.check = "ssrf", NEW P, NEW L, Told(s, c, P, L), NEW f \in SsrfFindings(s, L)
  PROVE  Warrant(s, L, f)
<1>1. PICK t : f = SsrfHit(L, t) /\ f # Finding("none", "INFO", "LOW")
  BY DEF SsrfFindings
<1>2. ASSUME NEW p, Got(L, p) \notin Lost PROVE \E U : Got(L, p) \in SsrfAnswers(s, U, p)
  <2>1. PICK U : Got(L, p) \in Answers(s, c, U, p)
    BY <1>2, Replied
  <2> QED BY <2>1 DEF Answers
<1>3. CASE \E k \in {"canary", "testnet"} : ErrorLeak(Got(L, Probe(k, t)))
  <2>1. f.rule = "ssrf/error-leakage"
    BY <1>1, <1>3 DEF SsrfHit, Finding
  <2>2. PICK k \in {"canary", "testnet"} : ErrorLeak(Got(L, Probe(k, t)))
    BY <1>3
  <2>3. PICK p, a : p = Probe(k, t) /\ a = Got(L, p) /\ "fetcherror" \in a.marks /\ "canaryhost" \in a.marks
    BY <2>2 DEF ErrorLeak
  <2>4. a \notin Lost
    BY <2>3, NotLost
  <2>5. PICK U : a \in SsrfAnswers(s, U, p)
    BY <2>3, <2>4, <1>2
  <2>6. p.kind \in {"canary", "testnet"}
    BY <2>3 DEF Probe
  <2>7. Has(s, "ssrfLeak") \/ (Has(s, "echo") /\ Has(s, "backend"))
    BY <2>3, <2>5, <2>6 DEF SsrfAnswers, Answer
  <2>8. <<f.rule, "ssrfLeak">> \in Warrants
    BY <2>1 DEF Warrants
  <2> QED BY <2>1, <2>7, <2>8, Guilty DEF Warrant
<1>4. CASE (~\E k \in {"canary", "testnet"} : ErrorLeak(Got(L, Probe(k, t)))) /\ RedirectEcho(Got(L, Probe("redirect", t)))
  <2>1. f.rule = "ssrf/confirmed-fetch"
    BY <1>1, <1>4 DEF SsrfHit, Finding
  <2>2. PICK p, a : p = Probe("redirect", t) /\ a = Got(L, p) /\ a.code \in 300..399
    BY <1>4 DEF RedirectEcho, Is3xx
  <2>3. a \notin Lost
    BY <2>2, NotLost
  <2>4. PICK U : a \in SsrfAnswers(s, U, p)
    BY <2>2, <2>3, <1>2
  <2>5. Has(s, "ssrfForward")
    BY <2>2, <2>4 DEF SsrfAnswers, Answer, Probe
  <2>6. <<f.rule, "ssrfForward">> \in Warrants
    BY <2>1 DEF Warrants
  <2> QED BY <2>5, <2>6, Guilty
<1>5. CASE ~(\E k \in {"canary", "testnet"} : ErrorLeak(Got(L, Probe(k, t)))) /\ ~RedirectEcho(Got(L, Probe("redirect", t)))
  <2>1. f.rule = "ssrf/timing-differential" /\ f.confidence = "MEDIUM" /\ FetchBlocks(L, t)
    BY <1>1, <1>5 DEF SsrfHit, Finding
  <2>2. PICK k \in {"timing1", "timing2"} : LET a == Got(L, Probe(k, t)) IN "slow" \in a.marks \/ "stuck" \in a.marks
    BY <2>1 DEF FetchBlocks, Shows
  <2>3. PICK p, a : p = Probe(k, t) /\ a = Got(L, p) /\ ("slow" \in a.marks \/ "stuck" \in a.marks)
    BY <2>2
  <2>4. a \notin Lost
    BY <2>3, NotLost
  <2>5. PICK U : a \in SsrfAnswers(s, U, p)
    BY <2>3, <2>4, <1>2
  <2>6. p.kind \in {"timing1", "timing2"}
    BY <2>3 DEF Probe
  <2>7. Has(s, "ssrfBlocks") \/ Has(s, "laggy")
    BY <2>3, <2>5, <2>6 DEF SsrfAnswers, Hiccups, Answer
  <2>8. <<f.rule, "ssrfBlocks">> \in Warrants /\ <<f.rule, "laggy">> \in Misleads
    BY <2>1 DEF Warrants, Misleads
  <2> QED BY <2>1, <2>7, <2>8, Guilty DEF Warrant
<1> QED BY <1>3, <1>4, <1>5

LEMMA HostHeaderIsReal ==
  ASSUME NEW s, NEW c, c.check = "host-header", NEW P, NEW L, Told(s, c, P, L), NEW f \in HostHeaderFindings(L)
  PROVE  Warrant(s, L, f)
<1> DEFINE base == Probe("hh-base", 0)
<1>1. ASSUME NEW p, Got(L, p) \notin Lost
      PROVE  /\ Got(L, p) \in HostHeaderAnswers(s, p)
             /\ p.kind # "hh-base" => Got(L, base).code # 0
  <2>1. PICK i \in DOMAIN P : /\ p = P[i] /\ Wanted(s, c, Upto(P, L, i), p)
                              /\ Got(L, p) \in Answers(s, c, Upto(P, L, i), p)
    BY <1>1, Replied
  <2>2. Got(L, p) \in HostHeaderAnswers(s, p) /\ HostHeaderWanted(Upto(P, L, i), p)
    BY <2>1 DEF Wanted, Answers
  <2>3. p.kind # "hh-base" => Got(Upto(P, L, i), base).code # 0
    BY <2>2 DEF HostHeaderWanted, Answered
  <2>4. Got(Upto(P, L, i), base) # NoAnswer => Got(Upto(P, L, i), base) = Got(L, base)
    BY UptoGot
  <2> QED BY <2>2, <2>3, <2>4 DEF NoAnswer, Answer
<1>2. CASE f.rule = "hostheader/redirect-host" /\ RedirectVector(L) # 0
  <2>1. PICK v : PoisonedRedirect(L, v)
    BY <1>2 DEF RedirectVector, SelectInSeq
  <2>2. PICK p, a : p = Probe(v, 0) /\ a = Got(L, p) /\ a.code \in 300..399
    BY <2>1 DEF PoisonedRedirect, Is3xx
  <2>3. a \in HostHeaderAnswers(s, p)
    BY <2>2, <1>1, NotLost
  <2>4. Has(s, "hhRedirect")
    BY <2>2, <2>3 DEF HostHeaderAnswers, Answer
  <2>5. <<f.rule, "hhRedirect">> \in Warrants
    BY <1>2 DEF Warrants
  <2> QED BY <2>4, <2>5, Guilty
<1>3. CASE f.rule = "hostheader/absolute-link" /\ LinkVector(L) # 0
  <2>1. PICK n \in 1..4 : PoisonedLink(L, HostHeaderVectors[n])
    BY <1>3 DEF LinkVector
  <2>2. PICK v : v = HostHeaderVectors[n] /\ v # "hh-base" /\ PoisonedLink(L, v)
    BY <2>1 DEF HostHeaderVectors
  <2>3. PICK p, a : p = Probe(v, 0) /\ a = Got(L, p) /\ "link" \in a.marks /\ "link" \notin Got(L, base).marks
    BY <2>2 DEF PoisonedLink, Shows
  <2>4. a \notin Lost
    BY <2>3, NotLost
  <2>5. p.kind # "hh-base"
    BY <2>2, <2>3 DEF Probe
  <2>6. a \in HostHeaderAnswers(s, p) /\ Got(L, base).code # 0
    BY <2>3, <2>4, <2>5, <1>1
  <2>7. PICK b : b = Got(L, base) /\ b \in HostHeaderAnswers(s, base)
    BY <2>6, <1>1, NotLost
  <2>8. ~Has(s, "mention")
    BY <2>3, <2>7 DEF HostHeaderAnswers, Answer
  <2>9. Has(s, "hhLink")
    BY <2>3, <2>6, <2>8 DEF HostHeaderAnswers, Answer
  <2>10. <<f.rule, "hhLink">> \in Warrants
    BY <1>3 DEF Warrants
  <2> QED BY <2>9, <2>10, Guilty
<1> QED BY <1>2, <1>3 DEF HostHeaderFindings, FindingIf, Finding

LEMMA MethodTamperIsReal ==
  ASSUME NEW s, NEW c, c.check = "method-tamper", NEW P, NEW L, Told(s, c, P, L), NEW f \in MethodTamperFindings(L)
  PROVE  Warrant(s, L, f)
<1> DEFINE canonical == Probe("canonical", 0)
           bare == Probe("canonical-bare", 0)
<1>1. ASSUME NEW p, Got(L, p).code # 0
      PROVE  /\ Got(L, p) \in MethodTamperAnswers(s, p)
             /\ p.kind \in AltVerbs => Got(L, bare).code \in {401, 403}
             /\ p.kind # "canonical" => Got(L, canonical).code # 0
  <2>1. Got(L, p) \notin Lost
    BY <1>1, NotLost
  <2>2. PICK i \in DOMAIN P : /\ p = P[i] /\ Wanted(s, c, Upto(P, L, i), p)
                              /\ Got(L, p) \in Answers(s, c, Upto(P, L, i), p)
    BY <2>1, Replied
  <2>3. Got(L, p) \in MethodTamperAnswers(s, p) /\ MethodTamperWanted(s, Upto(P, L, i), p)
    BY <2>2 DEF Wanted, Answers
  <2>4. p.kind \in AltVerbs => Got(Upto(P, L, i), bare).code \in {401, 403}
    BY <2>3 DEF MethodTamperWanted, Gated, AltVerbs
  <2>5. p.kind # "canonical" => Got(Upto(P, L, i), canonical).code # 0
    BY <2>3 DEF MethodTamperWanted, Answered
  <2>6. \A q : Got(Upto(P, L, i), q) # NoAnswer => Got(Upto(P, L, i), q) = Got(L, q)
    BY UptoGot
  <2>7. \A q : Got(Upto(P, L, i), q).code # 0 => Got(Upto(P, L, i), q) = Got(L, q)
    BY <2>6 DEF NoAnswer, Answer
  <2>8. p.kind \in AltVerbs => Got(L, bare).code \in {401, 403}
    <3>1. \A x \in {401, 403} : x # 0
      OBVIOUS
    <3> QED BY <2>4, <2>7, <3>1
  <2> QED BY <2>3, <2>5, <2>7, <2>8
<1>2. CASE f.rule = "methodtamper/access-control-bypass" /\ BypassVerbs(L) # {}
  <2>1. PICK v \in {"GET", "POST", "PUT"} : Is2xx(Got(L, Probe(v, 0))) /\ Shows(Got(L, Probe(v, 0)), "body")
    BY <1>2 DEF BypassVerbs
  <2>2. PICK p, a : p = Probe(v, 0) /\ a = Got(L, p) /\ a.code # 0 /\ a.code \in 200..299 /\ "body" \in a.marks
    BY <2>1 DEF Is2xx, Shows
  <2>3. p.kind = v /\ v \in AltVerbs
    BY <2>2 DEF Probe, AltVerbs
  <2>4. a \in MethodTamperAnswers(s, p) /\ Got(L, bare).code \in {401, 403}
    BY <2>2, <2>3, <1>1
  <2>5. PICK b : b = Got(L, bare) /\ b.code \in {401, 403} /\ b \in MethodTamperAnswers(s, bare)
    BY <2>4, <1>1
  <2>6. ~Has(s, "catchAll")
    BY <2>5 DEF MethodTamperAnswers, Answer
  <2>7. Has(s, "verbHole")
    BY <2>2, <2>3, <2>4, <2>6 DEF MethodTamperAnswers, Answer
  <2>8. <<f.rule, "verbHole">> \in Warrants
    BY <1>2 DEF Warrants
  <2> QED BY <2>7, <2>8, Guilty
<1>3. CASE f.rule = "methodtamper/dangerous-method" /\ EnabledVerbs(L) # {}
  <2>1. PICK v \in DangerousVerbs : v \in EnabledVerbs(L)
    BY <1>3 DEF EnabledVerbs
  <2>2. PICK p, a : /\ p = Probe(v, 0) /\ a = Got(L, p) /\ a.code # 0 /\ a.code \in 200..299
                    /\ v = "TRACE" => "traced" \in a.marks
                    /\ v # "TRACE" => ~(Got(L, canonical).code \in 200..299 /\ a = Got(L, canonical))
    BY <2>1 DEF EnabledVerbs, Is2xx, Shows
  <2>3. p.kind = v /\ v \in {"TRACE", "danger-PUT", "danger-DELETE"}
    BY <2>2 DEF Probe, DangerousVerbs
  <2>4. a \in MethodTamperAnswers(s, p) /\ Got(L, canonical).code # 0
    BY <2>2, <2>3, <1>1
  <2>5. PICK b : b = Got(L, canonical) /\ b \in MethodTamperAnswers(s, canonical)
    BY <2>4, <1>1
  <2>6. Has(s, "traces") \/ Has(s, "writable") \/ Has(s, "verbHole")
    <3>1. CASE v = "TRACE"
      BY <3>1, <2>2, <2>3, <2>4 DEF MethodTamperAnswers, Answer
    <3>2. CASE v # "TRACE"
      <4>1. ~Has(s, "catchAll")
        <5>1. SUFFICES ASSUME Has(s, "catchAll") PROVE FALSE
          OBVIOUS
        <5>2. a = b /\ b.code = 200
          BY <5>1, <2>4, <2>5 DEF MethodTamperAnswers, Answer
        <5> QED BY <5>2, <3>2, <2>2, <2>5
      <4> QED BY <4>1, <3>2, <2>2, <2>3, <2>4 DEF MethodTamperAnswers, Answer
    <3> QED BY <3>1, <3>2
  <2>7. \A t \in {"traces", "writable", "verbHole"} : <<f.rule, t>> \in Warrants
    BY <1>3 DEF Warrants
  <2> QED BY <2>6, <2>7, Guilty
<1> QED BY <1>2, <1>3 DEF MethodTamperFindings, FindingIf, Finding

\* A target is late by accident once at most.
LEMMA OneHiccup ==
  ASSUME NEW s, NEW c, NEW P, ProperPlan(P), NEW L, NEW i \in DOMAIN P, NEW j \in DOMAIN P, i # j,
         P[i] \in DOMAIN L, P[j] \in DOMAIN L, "slow" \in L[P[i]].marks, "slow" \in L[P[j]].marks,
         NEW m \in Hiccups(s, Upto(P, L, i)), NEW n \in Hiccups(s, Upto(P, L, j))
  PROVE  FALSE
<1>1. i \in Nat /\ j \in Nat /\ i >= 1 /\ j >= 1
  BY DEF ProperPlan
<1>2. ASSUME NEW x \in DOMAIN P, NEW y \in DOMAIN P, x < y, P[x] \in DOMAIN L, "slow" \in L[P[x]].marks
      PROVE  Hiccups(s, Upto(P, L, y)) = {}
  <2>1. x \in 1..(y - 1)
    BY <1>2 DEF ProperPlan
  <2>2. P[x] \in DOMAIN Upto(P, L, y) /\ Upto(P, L, y)[P[x]] = L[P[x]]
    BY <1>2, <2>1 DEF Upto
  <2>3. \E p \in DOMAIN Upto(P, L, y) : Shows(Upto(P, L, y)[p], "slow")
    BY <1>2, <2>2 DEF Shows
  <2> QED BY <2>3 DEF Hiccups
<1>3. i < j \/ j < i
  BY <1>1
<1> QED BY <1>2, <1>3

LEMMA InjectionIsReal ==
  ASSUME NEW s, NEW c, c.check = "injection", NEW P, ProperPlan(P), NEW L, Told(s, c, P, L),
         NEW f \in InjectionFindings(s, L)
  PROVE  Warrant(s, L, f)
<1>1. PICK t : f \in TimeBasedFindings(L, t) \cup ErrorBasedFindings(L, t)
                       \cup BooleanFindings(L, t) \cup CmdiFindings(L, t) \cup CrlfFindings(L, t)
  BY DEF InjectionFindings
<1>2. ASSUME NEW p, Got(L, p) \notin Lost
      PROVE  /\ p \in DOMAIN L /\ Got(L, p) = L[p]
             /\ \E i \in DOMAIN P : p = P[i] /\ Got(L, p) \in InjectionAnswers(s, Upto(P, L, i), p)
  <2>1. PICK i \in DOMAIN P : p = P[i] /\ L[p] \in Answers(s, c, Upto(P, L, i), p)
    BY <1>2, Replied
  <2>2. p \in DOMAIN L /\ Got(L, p) = L[p]
    BY <1>2, Replied
  <2> QED BY <2>1, <2>2 DEF Answers
<1>3. ASSUME NEW kind \in {"error", "cmdi", "crlf"}, NEW m \in {"dberror", "computed", "cookie"},
             m \in Got(L, Probe(kind, t)).marks
      PROVE  \/ kind = "error" /\ m = "dberror" /\ Has(s, "sqliError")
             \/ kind = "cmdi" /\ m = "computed" /\ Has(s, "cmdi")
             \/ kind = "crlf" /\ m = "cookie" /\ Has(s, "crlf")
  <2>1. PICK p, a : p = Probe(kind, t) /\ a = Got(L, p) /\ m \in a.marks
    BY <1>3
  <2>2. a \notin Lost
    BY <2>1, NotLost
  <2>3. PICK U : a \in InjectionAnswers(s, U, p)
    BY <2>1, <2>2, <1>2
  <2>4. p.kind = kind
    BY <2>1 DEF Probe
  <2> QED BY <2>1, <2>3, <2>4 DEF InjectionAnswers, Answer
<1>4. CASE f \in ErrorBasedFindings(L, t)
  <2>1. f.rule = "injection/sqli-error-based" /\ "dberror" \in Got(L, Probe("error", t)).marks
    BY <1>4 DEF ErrorBasedFindings, FindingIf, Finding, Shows
  <2>2. Has(s, "sqliError")
    BY <2>1, <1>3
  <2>3. <<f.rule, "sqliError">> \in Warrants
    BY <2>1 DEF Warrants
  <2> QED BY <2>2, <2>3, Guilty
<1>5. CASE f \in CmdiFindings(L, t)
  <2>1. f.rule = "injection/command-injection" /\ "computed" \in Got(L, Probe("cmdi", t)).marks
    BY <1>5 DEF CmdiFindings, FindingIf, Finding, Shows
  <2>2. Has(s, "cmdi")
    BY <2>1, <1>3
  <2>3. <<f.rule, "cmdi">> \in Warrants
    BY <2>1 DEF Warrants
  <2> QED BY <2>2, <2>3, Guilty
<1>6. CASE f \in CrlfFindings(L, t)
  <2>1. f.rule = "injection/header-crlf" /\ "cookie" \in Got(L, Probe("crlf", t)).marks
    BY <1>6 DEF CrlfFindings, FindingIf, Finding, Shows
  <2>2. Has(s, "crlf")
    BY <2>1, <1>3
  <2>3. <<f.rule, "crlf">> \in Warrants
    BY <2>1 DEF Warrants
  <2> QED BY <2>2, <2>3, Guilty
<1>7. CASE f \in BooleanFindings(L, t)
  <2> DEFINE yes == Got(L, Probe("true", t))
             no == Got(L, Probe("false", t))
  <2>1. /\ f.rule = "injection/sqli-boolean-based" /\ f.confidence = "MEDIUM"
        /\ yes.code # 0 /\ no.code # 0
        /\ yes.code # no.code \/ yes.marks \cap Lengths # no.marks \cap Lengths
    BY <1>7 DEF BooleanFindings, FindingIf, Finding, Answered, BodyLen
  <2>2. yes \notin Lost /\ no \notin Lost
    BY <2>1, NotLost
  <2>3. PICK U : yes \in InjectionAnswers(s, U, Probe("true", t))
    BY <2>2, <1>2
  <2>4. PICK V : no \in InjectionAnswers(s, V, Probe("false", t))
    BY <2>2, <1>2
  <2>5. ASSUME ~Has(s, "dynamic") PROVE yes = Answer(200, {"len1"})
    BY <2>3, <2>5 DEF InjectionAnswers, Probe
  <2>6. ASSUME ~Has(s, "dynamic"), ~Has(s, "sqliBool") PROVE no = Answer(200, {"len1"})
    BY <2>4, <2>6 DEF InjectionAnswers, Probe
  <2>7. Has(s, "dynamic") \/ Has(s, "sqliBool")
    BY <2>1, <2>5, <2>6
  <2>8. <<f.rule, "sqliBool">> \in Warrants /\ <<f.rule, "dynamic">> \in Misleads
    BY <2>1 DEF Warrants, Misleads
  <2> QED BY <2>1, <2>7, <2>8, Guilty DEF Warrant
<1>8. CASE f \in TimeBasedFindings(L, t)
  <2>1. PICK pair \in {<<"time1", "again1">>, <<"time2", "again2">>} :
            /\ f.rule = "injection/sqli-time-based" /\ Slow(L, pair[1], t)
            /\ f.confidence = IF Slow(L, pair[2], t) THEN "HIGH" ELSE "MEDIUM"
    BY <1>8 DEF TimeBasedFindings, FindingIf, Finding
  <2>2. PICK k1, k2 : /\ k1 \in {"time1", "time2"} /\ k2 \in {"again1", "again2"}
                      /\ "slow" \in Got(L, Probe(k1, t)).marks
                      /\ f.confidence = "MEDIUM" \/ "slow" \in Got(L, Probe(k2, t)).marks
    BY <2>1 DEF Slow, Shows
  <2>3. <<f.rule, "sqliTime">> \in Warrants /\ <<f.rule, "laggy">> \in Misleads
    BY <2>1 DEF Warrants, Misleads
  <2>4. CASE Has(s, "sqliTime")
    BY <2>3, <2>4, Guilty
  <2>5. CASE ~Has(s, "sqliTime")
    <3>1. ASSUME NEW k \in {"time1", "time2", "again1", "again2"}, "slow" \in Got(L, Probe(k, t)).marks
          PROVE  \E i \in DOMAIN P : /\ Probe(k, t) = P[i] /\ P[i] \in DOMAIN L /\ "slow" \in L[P[i]].marks
                                     /\ \E m : m \in Hiccups(s, Upto(P, L, i))
      <4>1. PICK p, a : p = Probe(k, t) /\ a = Got(L, p) /\ "slow" \in a.marks
        BY <3>1
      <4>2. a \notin Lost
        BY <4>1, NotLost
      <4>3. p \in DOMAIN L /\ a = L[p]
        BY <4>1, <4>2, <1>2
      <4>4. PICK i \in DOMAIN P : p = P[i] /\ a \in InjectionAnswers(s, Upto(P, L, i), p)
        BY <4>1, <4>2, <1>2
      <4>5. PICK H : H = Hiccups(s, Upto(P, L, i))
        OBVIOUS
      <4>6. p.kind = k
        BY <4>1 DEF Probe
      <4>7. a.marks \in {{}} \cup H
        BY <4>4, <4>5, <4>6, <2>5 DEF InjectionAnswers, Answer
      <4> QED BY <4>1, <4>3, <4>4, <4>5, <4>7
    <3>2. PICK i \in DOMAIN P : /\ Probe(k1, t) = P[i] /\ P[i] \in DOMAIN L /\ "slow" \in L[P[i]].marks
                                /\ \E m : m \in Hiccups(s, Upto(P, L, i))
      BY <2>2, <3>1
    <3>3. Has(s, "laggy")
      BY <3>2 DEF Hiccups
    <3>4. f.confidence = "MEDIUM"
      <4>1. SUFFICES ASSUME "slow" \in Got(L, Probe(k2, t)).marks PROVE FALSE
        BY <2>2
      <4>2. PICK j \in DOMAIN P : /\ Probe(k2, t) = P[j] /\ P[j] \in DOMAIN L /\ "slow" \in L[P[j]].marks
                                  /\ \E m : m \in Hiccups(s, Upto(P, L, j))
        BY <2>2, <3>1, <4>1
      <4>3. i # j
        BY <2>2, <3>2, <4>2, ProbeParts
      <4> QED BY <3>2, <4>2, <4>3, OneHiccup
    <3> QED BY <2>3, <3>3, <3>4 DEF Warrant
  <2> QED BY <2>4, <2>5
<1> QED BY <1>1, <1>4, <1>5, <1>6, <1>7, <1>8

\* What the other checks report speaks of no trait.
Accusing == {w[1] : w \in Warrants}

LEMMA RemarksAccuseNobody ==
  ASSUME NEW s, NEW c, c.check \in {"headers", "cors", "exposure", "ratelimit", "cookie-flags"}, NEW L,
         NEW f \in FindingsOf(s, c, L)
  PROVE  Warrant(s, L, f)
<1>1. SUFFICES f.rule \notin Accusing
  BY DEF Warrant, Accusing
<1>2. Accusing = {"injection/sqli-time-based", "injection/sqli-error-based", "injection/sqli-boolean-based",
                  "injection/command-injection", "injection/header-crlf", "xss/reflected", "openredirect/confirmed",
                  "ssrf/error-leakage", "ssrf/confirmed-fetch", "ssrf/timing-differential",
                  "hostheader/redirect-host", "hostheader/absolute-link", "graphql/introspection-enabled",
                  "graphql/get-execution", "auth/unauthenticated-access", "auth/jwt-not-validated",
                  "auth/expired-jwt-accepted", "auth/jwt-alg-none", "idor/cross-tenant-access",
                  "idor/identical-responses", "methodtamper/access-control-bypass",
                  "methodtamper/dangerous-method", "configleak"}
  BY DEF Accusing, Warrants
<1>3. CASE c.check = "headers"
  <2>1. f \in HeadersFindings(L)
    BY <1>3 DEF FindingsOf
  <2>2. PICK r \in HeaderRules \cup HstsRules \cup CspRules : f.rule = r.rule
    BY <2>1 DEF HeadersFindings, Finding
  <2> QED BY <1>2, <2>2 DEF HeaderRules, HstsRules, CspRules, HeaderRule
<1>4. CASE c.check = "cors"
  <2>1. f \in CorsFindings(s, L)
    BY <1>4 DEF FindingsOf
  <2>2. f \in MethodFindings(L) \/ \E d \in CorsCandidates(s, L) : f = d.finding
    BY <2>1 DEF CorsFindings
  <2>3. f.rule \in {"cors/wildcard-with-credentials", "cors/reflects-origin-with-credentials",
                    "cors/reflects-origin", "cors/null-origin", "cors/wildcard-origin",
                    "cors/wildcard-methods", "cors/nonstandard-method"}
    <3>1. CASE f \in MethodFindings(L)
      BY <3>1 DEF MethodFindings, FindingIf, Finding
    <3>2. CASE \E d \in CorsCandidates(s, L) : f = d.finding
      <4>1. PICK d \in CorsCandidates(s, L) : f = d.finding
        BY <3>2
      <4>2. \E rank, severity : \E rule \in {"cors/wildcard-with-credentials", "cors/reflects-origin-with-credentials",
                                            "cors/reflects-origin", "cors/null-origin", "cors/wildcard-origin"} :
               d = Candidate(rank, rule, severity)
        <5> HIDE DEF Candidate
        <5> QED BY CandidatesAre
      <4> QED BY <4>1, <4>2 DEF Candidate, Finding
    <3> QED BY <2>2, <3>1, <3>2
  <2> QED BY <1>2, <2>3
<1>5. CASE c.check = "exposure"
  <2>1. f \in ExposureFindings(L)
    BY <1>5 DEF FindingsOf
  <2>2. PICK r \in ExposurePatterns : f.rule = r.rule
    BY <2>1 DEF ExposureFindings, Finding
  <2> QED BY <1>2, <2>2 DEF ExposurePatterns, ExposurePattern
<1>6. CASE c.check = "ratelimit"
  <2>1. f \in RateLimitFindings(s, L)
    BY <1>6 DEF FindingsOf
  <2>2. f.rule \in {"ratelimit.not-tested", "ratelimit/none-observed"}
    BY <2>1 DEF RateLimitFindings, FindingIf, Finding
  <2> QED BY <1>2, <2>2
<1>7. CASE c.check = "cookie-flags"
  <2>1. f \in CookieFindings(s, L)
    BY <1>7 DEF FindingsOf
  <2>2. f.rule \in {"cookies/csrf-no-httponly", "cookies/session-no-httponly", "cookies/session-no-secure",
                    "cookies/session-weak-samesite"}
    BY <2>1 DEF CookieFindings, FindingIf, Finding
  <2> QED BY <1>2, <2>2
<1> QED BY <1>3, <1>4, <1>5, <1>6, <1>7

(* A check never accuses a target that has not the flaw, however many of its *)
(* requests fail, are cut short or are refused by the cap (the guards of the *)
(* checks under go/internal/scanner).                                        *)
THEOREM NobodyIsFramed == Spec => []OnlyRealFlaws
<1>1. PInv => OnlyRealFlaws
  <2> SUFFICES ASSUME PInv, NEW c \in Running, Done(c), NEW f \in found[c] PROVE Warranted(c, f)
    BY DEF OnlyRealFlaws
  <2>1. PICK s, P, L : s = scene /\ P = plan[c] /\ L = log[c]
    OBVIOUS
  <2>2. /\ Told(s, c, P, L) /\ ProperPlan(P) /\ f \in FindingsOf(s, c, L)
        /\ P = Plan(s, c, c \in sweeps)
    BY <2>1, DoneTold, DoneReports
  <2>3. c.check \in ActiveTier \cup PassiveTier
    BY SceneIs DEF PInv
  <2>4. Warrant(s, L, f)
    <3>1. CASE c.check = "injection"
      BY <3>1, <2>2, InjectionIsReal DEF FindingsOf
    <3>2. CASE c.check = "xss"
      BY <3>2, <2>2, XssIsReal DEF FindingsOf
    <3>3. CASE c.check = "open-redirect"
      <4>1. P = RedirectPlan(s)
        BY <3>3, <2>2 DEF Plan
      <4> QED BY <3>3, <4>1, <2>2, RedirectsAreReal DEF FindingsOf
    <3>4. CASE c.check = "ssrf"
      BY <3>4, <2>2, SsrfIsReal DEF FindingsOf
    <3>5. CASE c.check = "host-header"
      BY <3>5, <2>2, HostHeaderIsReal DEF FindingsOf
    <3>6. CASE c.check = "graphql"
      BY <3>6, <2>2, GraphqlIsReal DEF FindingsOf
    <3>7. CASE c.check = "method-tamper"
      BY <3>7, <2>2, MethodTamperIsReal DEF FindingsOf
    <3>8. CASE c.check = "auth"
      <4>1. P = AuthPlan(s)
        BY <3>8, <2>2 DEF Plan
      <4> QED BY <3>8, <4>1, <2>2, AuthIsReal DEF FindingsOf
    <3>9. CASE c.check = "idor"
      BY <3>9, <2>2, IdorIsReal DEF FindingsOf
    <3>10. CASE c.check = "configleak"
      BY <3>10, <2>2, ConfigLeakIsReal DEF FindingsOf
    <3>11. CASE c.check \in {"headers", "cors", "exposure", "ratelimit", "cookie-flags"}
      BY <3>11, <2>2, RemarksAccuseNobody
    <3> QED BY <2>3, <3>1, <3>2, <3>3, <3>4, <3>5, <3>6, <3>7, <3>8, <3>9, <3>10, <3>11 DEF ActiveTier, PassiveTier
  <2> QED BY <2>1, <2>4 DEF Warrant, Warranted
<1> QED BY <1>1, PInvHolds, PTL

-----------------------------------------------------------------------------
(* --- flaws are found ------------------------------------------------------- *)
(* A check that was answered whenever it asked sent everything it wanted.    *)
Thorough(s, c, P, L) ==
    /\ ProperPlan(P)
    /\ \A p \in DOMAIN L : \E i \in DOMAIN P : p = P[i]
    /\ \A i \in DOMAIN P : Wanted(s, c, Upto(P, L, i), P[i]) => P[i] \in DOMAIN L
    /\ \A i \in DOMAIN P : P[i] \in DOMAIN L => L[P[i]] \in Answers(s, c, Upto(P, L, i), P[i])

Before(P, p, q) == \E i, j \in DOMAIN P : i < j /\ P[i] = p /\ P[j] = q

\* U is what the check knew when it came to p.
Known(P, L, p, U) ==
    /\ \A q : Before(P, q, p) => Got(U, q) = Got(L, q)
    /\ \A q : Got(U, q) # NoAnswer => Got(U, q) = Got(L, q) /\ Before(P, q, p)
    /\ \A q \in DOMAIN U : q \in DOMAIN L /\ Before(P, q, p) /\ U[q] = L[q]

LEMMA DoneThorough ==
  ASSUME PInv, NEW c \in Running, Done(c), \A p \in DOMAIN log[c] : Answered(log[c], p)
  PROVE  Thorough(scene, c, plan[c], log[c])
<1>1. PICK P, L, n : P = plan[c] /\ L = log[c] /\ n = Len(P) + 1 /\ ProperPlan(P) /\ Follows(scene, c, P, L, n)
  BY DoneReports
<1>2. Len(P) \in Nat /\ DOMAIN P = 1..Len(P)
  BY <1>1 DEF ProperPlan
<1>3. DOMAIN P = 1..(n - 1)
  BY <1>1, <1>2
<1>4. ASSUME NEW i \in DOMAIN P, Wanted(scene, c, Upto(P, L, i), P[i]) PROVE P[i] \in DOMAIN L
  BY <1>1, <1>3, <1>4 DEF Follows
<1>6. ASSUME NEW i \in DOMAIN P, P[i] \in DOMAIN L PROVE L[P[i]] \in Answers(scene, c, Upto(P, L, i), P[i])
  <2>2. Settled(scene, c, P, L, i)
    BY <1>1, <1>3, <1>6 DEF Follows
  <2>3. L[P[i]].code # 0
    BY <1>1, <1>6 DEF Answered, Got
  <2>4. L[P[i]] \notin Lost
    BY <2>3 DEF Lost, NoAnswer, Answer
  <2> QED BY <2>2, <2>4 DEF Settled
<1>5. \A p \in DOMAIN L : \E i \in DOMAIN P : p = P[i]
  BY <1>1, <1>3 DEF Follows
<1> QED BY <1>1, <1>4, <1>5, <1>6 DEF Thorough

LEMMA Asked ==
  ASSUME NEW s, NEW c, NEW P, NEW L, Thorough(s, c, P, L), NEW p, \E i \in DOMAIN P : P[i] = p
  PROVE  \E U : /\ Known(P, L, p, U)
                /\ Wanted(s, c, U, p) => p \in DOMAIN L /\ Got(L, p) \in Answers(s, c, U, p)
<1>9. PICK i \in DOMAIN P : P[i] = p
  OBVIOUS
<1> DEFINE U == Upto(P, L, i)
<1>1. \A j \in 1..(i - 1) : j \in DOMAIN P /\ j < i
  BY DEF Thorough, ProperPlan
<1>2. \A q \in DOMAIN U : q \in DOMAIN L /\ Before(P, q, P[i]) /\ U[q] = L[q]
  BY <1>1 DEF Upto, Before
<1>3. ASSUME NEW q, Before(P, q, P[i]) PROVE Got(U, q) = Got(L, q)
  <2>1. PICK j \in DOMAIN P : \E k \in DOMAIN P : j < k /\ P[j] = q /\ P[k] = P[i]
    BY <1>3 DEF Before
  <2>2. j < i
    BY <2>1 DEF Thorough, ProperPlan
  <2>3. j \in 1..(i - 1)
    BY <2>2 DEF Thorough, ProperPlan
  <2> QED BY <2>1, <2>3, UptoGot
<1>4. ASSUME NEW q, Got(U, q) # NoAnswer PROVE Got(U, q) = Got(L, q) /\ Before(P, q, P[i])
  <2>1. q \in DOMAIN U
    BY <1>4 DEF Got
  <2> HIDE DEF U
  <2> QED BY <2>1, <1>2, <1>3
<1>5. Wanted(s, c, U, P[i]) => P[i] \in DOMAIN L /\ Got(L, P[i]) \in Answers(s, c, U, P[i])
  BY DEF Thorough, Got
<1> HIDE DEF U
<1>6. Known(P, L, P[i], U)
  BY <1>2, <1>3, <1>4 DEF Known
<1> QED BY <1>5, <1>6, <1>9

LEMMA AnswersOf ==
  ASSUME NEW s, NEW c, NEW P, NEW L, Thorough(s, c, P, L), NEW p, Got(L, p) # NoAnswer
  PROVE  \E U : Got(L, p) \in Answers(s, c, U, p)
<1>1. p \in DOMAIN L /\ Got(L, p) = L[p]
  BY DEF Got
<1>2. PICK i \in DOMAIN P : p = P[i]
  BY <1>1 DEF Thorough
<1>3. L[p] \in Answers(s, c, Upto(P, L, i), p)
  BY <1>1, <1>2 DEF Thorough
<1> QED BY <1>1, <1>3

LEMMA BeforeOnce ==
  ASSUME NEW P, ProperPlan(P), NEW p, NEW q, Before(P, p, q)
  PROVE  ~Before(P, q, p)
BY DEF Before, ProperPlan

\* The requests for one parameter come in the order of their kinds.
LEMMA PlanForOrder ==
  ASSUME NEW n \in Nat, NEW kinds, NEW k \in Nat \ {0}, Len(kinds) = k, NEW P, P = PlanFor(n, kinds),
         NEW t \in 1..n, NEW j \in 1..k
  PROVE  /\ \E i \in DOMAIN P : P[i] = Probe(kinds[j], t)
         /\ \A j2 \in 1..k : j < j2 => Before(P, Probe(kinds[j], t), Probe(kinds[j2], t))
<1>1. ASSUME NEW x \in 1..k
      PROVE  Slot(k, t, x) \in DOMAIN P /\ P[Slot(k, t, x)] = Probe(kinds[x], t)
  <2>1. Slot(k, t, x) \in 1..(n * k)
    BY SlotInPlan
  <2>2. DOMAIN PlanFor(n, kinds) = 1..(n * k) /\ PlanFor(n, kinds)[Slot(k, t, x)] = Probe(kinds[x], t)
    BY PlanForAt
  <2> QED BY <2>1, <2>2
<1>2. \A x \in 1..k : j < x => Slot(k, t, j) < Slot(k, t, x)
  BY SlotsInOrder
<1>3. \A j2 \in 1..k : j < j2 => Before(P, Probe(kinds[j], t), Probe(kinds[j2], t))
  BY <1>1, <1>2 DEF Before
<1>4. Slot(k, t, j) \in DOMAIN P /\ P[Slot(k, t, j)] = Probe(kinds[j], t)
  BY <1>1
<1> QED BY <1>3, <1>4

\* The finding names the flaw, or one stands for it.
Telling(s, c, L, R, t) ==
    \/ \E f \in R : <<f.rule, t>> \in Warrants
    \/ c.check = "ssrf" /\ R # {}
    \/ c.check = "auth" /\ \E f \in R : f.rule = "auth/unauthenticated-access"
    \/ t = "hhLink" /\ Has(s, "hhRedirect")
    \/ t = "xssRaw" /\ ~\E p \in DOMAIN L : XssConfirmed(L[p])

LEMMA PartsInPlan ==
  ASSUME NEW n \in Nat, NEW kinds, NEW k \in Nat \ {0}, Len(kinds) = k, NEW x \in DOMAIN PlanFor(n, kinds)
  PROVE  \E t \in 1..n : \E j \in 1..k : PlanFor(n, kinds)[x] = Probe(kinds[j], t)
<1>1. PICK t \in 1..n, j \in 1..k : PlanFor(n, kinds)[x] = Probe(kinds[j], t)
  BY PlanForEach
<1> QED BY <1>1

LEMMA XssIsFound ==
  ASSUME NEW s, NEW c, c.check = "xss", NEW P, P = XssPlan(s), NEW L, Thorough(s, c, P, L), IsScene(s)
  PROVE  Telling(s, c, L, XssFindings(s, L), "xssRaw")
<1>1. SUFFICES ASSUME NEW p \in DOMAIN L, XssConfirmed(L[p]) PROVE \E f \in XssFindings(s, L) : <<f.rule, "xssRaw">> \in Warrants
  BY DEF Telling
<1>2. PICK n \in Nat : n = Len(TargetsForEndpoint(s))
  BY TargetsListed
<1>3. PICK K : K = <<"xss">>
  OBVIOUS
<1>4. Len(K) = 1 /\ P = PlanFor(n, K)
  BY <1>2, <1>3 DEF XssPlan, ForEachTarget
<1>5. PICK i \in DOMAIN PlanFor(n, K) : p = PlanFor(n, K)[i]
  BY <1>4 DEF Thorough
<1>6. PICK k \in Nat \ {0} : k = 1 /\ Len(K) = k
  BY <1>4
<1>9. \E t \in 1..n : \E j \in 1..k : PlanFor(n, K)[i] = Probe(K[j], t)
  <2>1. Len(K) = k
    BY <1>6
  <2> QED BY ONLY <2>1, n \in Nat, k \in Nat \ {0}, i \in DOMAIN PlanFor(n, K), PartsInPlan
<1>10. PICK t \in 1..n : \E j \in 1..k : PlanFor(n, K)[i] = Probe(K[j], t)
  BY <1>9
<1>7. p = Probe("xss", t)
  BY <1>3, <1>5, <1>6, <1>10
<1>8. XssConfirmed(Got(L, Probe("xss", t)))
  BY <1>1, <1>7 DEF Got
<1>11. Finding("xss/reflected", "HIGH", "HIGH") \in XssFindings(s, L)
  BY <1>2, <1>8 DEF XssFindings, FindingIf
<1> QED BY <1>11 DEF Finding, Warrants

LEMMA ConfigLeakIsFound ==
  ASSUME NEW s, NEW c, c.check = "configleak", NEW P, P = ConfigLeakPlan(s), NEW L, Thorough(s, c, P, L),
         s.leakPath, Has(s, "leaks")
  PROVE  Telling(s, c, L, ConfigLeakFindings(L), "leaks")
<1>1. 1 \in DOMAIN P /\ P[1] = Probe("leak", 0)
  BY DEF ConfigLeakPlan
<1>2. PICK U : Wanted(s, c, U, P[1]) => Got(L, P[1]) \in Answers(s, c, U, P[1])
  BY <1>1, Asked
<1>3. Wanted(s, c, U, P[1])
  BY DEF Wanted, ConfigLeakWanted
<1>4. Got(L, Probe("leak", 0)) = Answer(200, {})
  BY <1>1, <1>2, <1>3 DEF Answers, ConfigLeakAnswers
<1>5. Finding("configleak", "CRITICAL", "HIGH") \in ConfigLeakFindings(L)
  BY <1>4 DEF ConfigLeakFindings, FindingIf, Is2xx, Answer
<1> QED BY <1>5 DEF Telling, Finding, Warrants

LEMMA IdorIsFound ==
  ASSUME NEW s, NEW c, c.check = "idor", NEW P, P = IdorPlan(s), NEW L, Thorough(s, c, P, L),
         HasAuth(s), s.user2, Has(s, "noOwner"), ~Has(s, "empty")
  PROVE  Telling(s, c, L, IdorFindings(s, L), "noOwner")
<1> DEFINE one == Got(L, Probe("user1", 0))
           two == Got(L, Probe("user2", 0))
<1>1. 1 \in DOMAIN P /\ 2 \in DOMAIN P /\ P[1] = Probe("user1", 0) /\ P[2] = Probe("user2", 0)
  BY DEF IdorPlan
<1>2. PICK U : Wanted(s, c, U, P[1]) => one \in Answers(s, c, U, P[1])
  BY <1>1, Asked
<1>3. Wanted(s, c, U, P[1])
  BY <1>1 DEF Wanted, IdorWanted, Probe
<1>4. one = Answer(200, {"of-user1"})
  BY <1>1, <1>2, <1>3 DEF Answers, IdorAnswers, Probe
<1>5. PICK V : Known(P, L, P[2], V) /\ (Wanted(s, c, V, P[2]) => two \in Answers(s, c, V, P[2]))
  BY <1>1, Asked
<1>6. Before(P, P[1], P[2])
  BY <1>1 DEF Before
<1>7. Got(V, Probe("user1", 0)) = one
  BY <1>1, <1>5, <1>6 DEF Known
<1>8. Wanted(s, c, V, P[2])
  BY <1>1, <1>4, <1>7 DEF Wanted, IdorWanted, Probe, Accepted, Is2xx, Answer
<1>9. two = Answer(200, {"of-user1"})
  BY <1>1, <1>5, <1>8 DEF Answers, IdorAnswers, Probe
<1>10. \E f \in IdorFindings(s, L) : f.rule \in {"idor/cross-tenant-access", "idor/identical-responses"}
  <2>1. Is2xx(one) /\ Is2xx(two) /\ Answered(L, Probe("user2", 0)) /\ StructurallyIdentical(one, two) /\ one.code = two.code
    BY <1>4, <1>9 DEF Is2xx, Answered, StructurallyIdentical, Answer
  <2>2. CASE s.objectId
    BY <2>1, <2>2 DEF IdorFindings, FindingIf, Finding
  <2>3. CASE ~s.objectId
    BY <2>1, <2>3 DEF IdorFindings, FindingIf, Finding
  <2> QED BY <2>2, <2>3
<1> QED BY <1>10 DEF Telling, Warrants

\* What the sweep sends before it comes to the first known path, and to the second.
SweepInOrder(P) ==
    /\ \E i \in DOMAIN P : P[i] = Probe("introspect", 1)
    /\ \E i \in DOMAIN P : P[i] = Probe("introspect", 2)
    /\ \A q : ~Before(P, q, Probe("introspect", 1))
    /\ \A q : Before(P, q, Probe("introspect", 2)) => q.t = 1

LEMMA FourInOrder ==
  ASSUME NEW P, P = <<Probe("introspect", 1), Probe("get", 1), Probe("introspect", 2), Probe("get", 2)>>
  PROVE  SweepInOrder(P)
<1>1. DOMAIN P = 1..4 /\ P[1] = Probe("introspect", 1) /\ P[2] = Probe("get", 1)
      /\ P[3] = Probe("introspect", 2) /\ P[4] = Probe("get", 2)
  OBVIOUS
<1>2. \A j \in DOMAIN P : (P[j] = Probe("introspect", 1) => j = 1) /\ (P[j] = Probe("introspect", 2) => j = 3)
  BY <1>1 DEF Probe
<1>3. \A i \in DOMAIN P : i < 3 => P[i].t = 1
  BY <1>1 DEF Probe
<1> QED BY <1>1, <1>2, <1>3 DEF Before, SweepInOrder

LEMMA SixInOrder ==
  ASSUME NEW P, P = <<Probe("introspect", 1), Probe("get", 1), Probe("introspect", 2), Probe("get", 2),
                      Probe("introspect", 3), Probe("get", 3)>>
  PROVE  SweepInOrder(P)
<1>1. DOMAIN P = 1..6 /\ P[1] = Probe("introspect", 1) /\ P[2] = Probe("get", 1) /\ P[3] = Probe("introspect", 2)
      /\ P[4] = Probe("get", 2) /\ P[5] = Probe("introspect", 3) /\ P[6] = Probe("get", 3)
  OBVIOUS
<1>2. \A j \in DOMAIN P : (P[j] = Probe("introspect", 1) => j = 1) /\ (P[j] = Probe("introspect", 2) => j = 3)
  BY <1>1 DEF Probe
<1>3. \A i \in DOMAIN P : i < 3 => P[i].t = 1
  BY <1>1 DEF Probe
<1> QED BY <1>1, <1>2, <1>3 DEF Before, SweepInOrder

LEMMA SweepOrder ==
  ASSUME NEW s, NEW ep, NEW sweep, sweep, NEW P, P = GraphqlPlan(s, ep, sweep)
  PROVE  SweepInOrder(P)
<1>1. \/ P = <<Probe("introspect", 1), Probe("get", 1), Probe("introspect", 2), Probe("get", 2)>>
      \/ P = <<Probe("introspect", 1), Probe("get", 1), Probe("introspect", 2), Probe("get", 2),
               Probe("introspect", 3), Probe("get", 3)>>
  BY GraphqlPlanIs, Zenon
<1> QED BY <1>1, FourInOrder, SixInOrder, Zenon

LEMMA GraphqlIsFound ==
  ASSUME NEW s, NEW c, c.check = "graphql", NEW ep, NEW sweep, sweep, NEW P, P = GraphqlPlan(s, ep, sweep),
         NEW L, Thorough(s, c, P, L), Has(s, "introspects")
  PROVE  Telling(s, c, L, GraphqlFindings(L), "introspects")
<1> DEFINE first == Probe("introspect", 1)
           second == Probe("introspect", 2)
<1>9. /\ \E i \in DOMAIN P : P[i] = first
      /\ \E i \in DOMAIN P : P[i] = second
      /\ \A q : ~Before(P, q, first)
      /\ \A q : Before(P, q, second) => q.t = 1
  <2>1. SweepInOrder(P)
    BY SweepOrder, Zenon
  <2> QED BY <2>1 DEF SweepInOrder
<1>1. PICK V : Known(P, L, first, V) /\ (Wanted(s, c, V, first) => first \in DOMAIN L /\ Got(L, first) \in Answers(s, c, V, first))
  BY <1>9, Asked, Zenon
<1>2. PICK U : Known(P, L, second, U)
               /\ (Wanted(s, c, U, second) => second \in DOMAIN L /\ Got(L, second) \in Answers(s, c, U, second))
  BY <1>9, Asked, Zenon
<1>3. "json" \notin Got(L, first).marks
  <2>1. \A q \in DOMAIN V : FALSE
    BY <1>1, <1>9 DEF Known
  <2>2. Wanted(s, c, V, first)
    BY <2>1 DEF Wanted, GraphqlWanted, Probe
  <2>3. Got(L, first) \in GraphqlAnswers(s, first)
    BY <1>1, <2>2 DEF Answers
  <2> QED BY <2>3 DEF GraphqlAnswers, Probe, Answer
<1>4. \A q \in DOMAIN U : ~Introspected(U, q.t)
  <2> SUFFICES ASSUME NEW q \in DOMAIN U, Introspected(U, q.t) PROVE FALSE
    OBVIOUS
  <2>1. q.t = 1
    BY <1>2, <1>9 DEF Known
  <2>2. "json" \in Got(U, first).marks
    BY <2>1 DEF Introspected
  <2>3. Got(U, first) # NoAnswer
    BY <2>2 DEF NoAnswer, Answer
  <2>4. Got(U, first) = Got(L, first)
    BY <2>3, <1>2 DEF Known
  <2> QED BY <1>3, <2>2, <2>4
<1>5. Wanted(s, c, U, second)
  BY <1>4 DEF Wanted, GraphqlWanted, Probe
<1>6. second \in DOMAIN L /\ Got(L, second) = Answer(200, {"json", "schema"})
  BY <1>2, <1>5 DEF Answers, GraphqlAnswers, Probe
<1>7. Introspected(L, second.t)
  BY <1>6 DEF Introspected, Probe, Answer
<1>8. Finding("graphql/introspection-enabled", "HIGH", "HIGH") \in GraphqlFindings(L)
  BY <1>6, <1>7 DEF GraphqlFindings, FindingIf
<1> QED BY <1>8 DEF Telling, Finding, Warrants

LEMMA RedirectsAreFound ==
  ASSUME NEW s, NEW c, c.check = "open-redirect", NEW P, P = RedirectPlan(s), NEW L, Thorough(s, c, P, L),
         NEW t \in {"redirOpen", "redirSuffix", "redirScheme"}, Has(s, t)
  PROVE  Telling(s, c, L, RedirectFindings(L), t)
<1>1. ASSUME NEW q \in DOMAIN L, RedirectHit(L, q)
      PROVE  Telling(s, c, L, RedirectFindings(L), t)
  <2>3. PICK severity, confidence : FindingIf(RedirectHit(L, q), "openredirect/confirmed", severity, confidence)
                                      \subseteq RedirectFindings(L)
    BY DEF RedirectFindings
  <2>4. Finding("openredirect/confirmed", severity, confidence) \in RedirectFindings(L)
    BY <1>1, <2>3 DEF FindingIf
  <2>1. PICK f \in RedirectFindings(L) : f.rule = "openredirect/confirmed"
    BY <2>4 DEF Finding
  <2>2. <<f.rule, t>> \in Warrants
    BY <2>1 DEF Warrants
  <2> QED BY <2>1, <2>2 DEF Telling
<1>2. PICK K : K = <<"plain", "suffix", "scheme">>
  OBVIOUS
<1>3. PICK n \in Nat, k \in Nat \ {0} : n = 2 /\ k = 3
  OBVIOUS
<1>4. P = PlanFor(n, K) /\ Len(K) = k
  BY <1>2, <1>3 DEF RedirectPlan, RedirectParams
<1>5. PICK j \in 1..k : /\ t = "redirOpen" => K[j] = "plain"
                        /\ t = "redirSuffix" => K[j] = "suffix"
                        /\ t = "redirScheme" => K[j] = "scheme"
  BY <1>2, <1>3
<1>6. PICK one \in 1..n : one = 1
  BY <1>3
<1>7. PICK p : p = Probe(K[j], one)
  OBVIOUS
<1>8. \E i \in DOMAIN P : P[i] = p
  <2>1. P = PlanFor(n, K)
    BY <1>4
  <2>2. Len(K) = k
    BY <1>4
  <2>3. \E i \in DOMAIN P : P[i] = Probe(K[j], one)
    BY ONLY <2>1, <2>2, n \in Nat, k \in Nat \ {0}, one \in 1..n, j \in 1..k, PlanForOrder
  <2> QED BY <2>3, <1>7
<1>9. PICK U : /\ Known(P, L, p, U)
               /\ Wanted(s, c, U, p) => p \in DOMAIN L /\ Got(L, p) \in Answers(s, c, U, p)
  BY <1>8, Asked
<1>10. CASE ~Wanted(s, c, U, p)
  <2>1. PICK q \in DOMAIN U : RedirectHit(U, q)
    BY <1>10 DEF Wanted, RedirectWanted
  <2>2. q \in DOMAIN L /\ Got(U, q) = Got(L, q)
    BY <2>1, <1>9 DEF Known, Got
  <2>3. RedirectHit(L, q)
    BY <2>1, <2>2 DEF RedirectHit
  <2> QED BY <2>2, <2>3, <1>1
<1>11. CASE Wanted(s, c, U, p)
  <2>1. p \in DOMAIN L /\ Got(L, p) \in RedirectAnswers(s, p)
    BY <1>9, <1>11 DEF Answers
  <2>2. p.kind = K[j]
    BY <1>7 DEF Probe
  <2>3. PICK a : a = Got(L, p)
    OBVIOUS
  <2>4. /\ p.kind = "plain" => a = Answer(302, {"sentinel"})
        /\ p.kind = "suffix" => a = Answer(302, {"subdomain"})
        /\ p.kind = "scheme" => a = Answer(302, {"runs"})
    <3>1. CASE t = "redirOpen"
      BY <3>1, <1>5, <2>1, <2>2, <2>3 DEF RedirectAnswers
    <3>2. CASE t = "redirSuffix"
      BY <3>2, <1>5, <2>1, <2>2, <2>3 DEF RedirectAnswers
    <3>3. CASE t = "redirScheme"
      BY <3>3, <1>5, <2>1, <2>2, <2>3 DEF RedirectAnswers
    <3> QED BY <3>1, <3>2, <3>3
  <2>5. p.kind \in {"plain", "suffix", "scheme"}
    BY <1>5, <2>2
  <2>6. RedirectHit(L, p)
    BY <2>3, <2>4, <2>5 DEF RedirectHit, Is3xx, Shows, Answer
  <2> QED BY <2>1, <2>6, <1>1
<1> QED BY <1>10, <1>11

LEMMA VectorsAre ==
  ASSUME NEW L
  PROVE  /\ (\E i \in 1..4 : PoisonedRedirect(L, HostHeaderVectors[i])) => RedirectVector(L) # 0
         /\ RedirectVector(L) # 0 => \E i \in 1..4 : PoisonedRedirect(L, HostHeaderVectors[i])
         /\ \A i \in 1..4 : i # RedirectVector(L) /\ PoisonedLink(L, HostHeaderVectors[i]) => LinkVector(L) # 0
<1> DEFINE I == {i \in 1..4 : PoisonedRedirect(L, HostHeaderVectors[i])}
           J == {i \in 1..4 : i # RedirectVector(L) /\ PoisonedLink(L, HostHeaderVectors[i])}
<1>1. ASSUME NEW T, T \subseteq 1..4, T # {} PROVE Min(T) \in 1..4
  <2>1. PICK x \in T : \A y \in T : x <= y
    <3>1. T \subseteq Nat
      BY <1>1
    <3> QED BY <3>1, <1>1, Least
  <2>2. Min(T) \in T
    BY <2>1 DEF Min
  <2> QED BY <2>2, <1>1
<1>2. Len(HostHeaderVectors) = 4
  BY DEF HostHeaderVectors
<1>3. RedirectVector(L) = IF I # {} THEN Min(I) ELSE 0
  BY <1>2 DEF RedirectVector, SelectInSeq
<1>4. LinkVector(L) = IF J = {} THEN 0 ELSE Min(J)
  BY DEF LinkVector
<1>5. I \subseteq 1..4 /\ J \subseteq 1..4
  OBVIOUS
<1>6. (I # {} => RedirectVector(L) \in 1..4) /\ (I = {} => RedirectVector(L) = 0)
  <2> HIDE DEF I
  <2> QED BY <1>1, <1>3, <1>5
<1>7. J # {} => LinkVector(L) \in 1..4
  <2> HIDE DEF J
  <2> QED BY <1>1, <1>4, <1>5
<1> QED BY <1>6, <1>7

LEMMA HostHeaderIsFound ==
  ASSUME NEW s, NEW c, c.check = "host-header", NEW P, P = HostHeaderPlan(s), NEW L, Thorough(s, c, P, L),
         NEW t \in {"hhRedirect", "hhLink"}, Has(s, t), ~Has(s, "absent"), ~Has(s, "mention")
  PROVE  Telling(s, c, L, HostHeaderFindings(L), t)
<1> DEFINE base == Probe("hh-base", 0)
           host == Probe("host", 0)
           xfh == Probe("x-forwarded-host", 0)
<1>1. DOMAIN P = 1..5 /\ P[1] = base /\ P[2] = host /\ P[3] = xfh
      /\ P[4] = Probe("x-forwarded-server", 0) /\ P[5] = Probe("forwarded", 0)
  BY HostHeaderPlanIs
<1>2. Before(P, base, host) /\ Before(P, base, xfh) /\ Before(P, host, xfh)
  BY <1>1 DEF Before
<1>3. Got(L, base) = Answer(200, {}) \/ Got(L, base) = Answer(200, {"reset"})
  <2>1. PICK U : Wanted(s, c, U, base) => Got(L, base) \in Answers(s, c, U, base)
    BY <1>1, Asked
  <2>2. Wanted(s, c, U, base)
    BY DEF Wanted, HostHeaderWanted, Probe
  <2>3. Got(L, base) \in HostHeaderAnswers(s, base)
    BY <2>1, <2>2 DEF Answers
  <2> QED BY <2>3 DEF HostHeaderAnswers, Probe
<1>4. PICK U : Known(P, L, xfh, U) /\ (Wanted(s, c, U, xfh) => Got(L, xfh) \in Answers(s, c, U, xfh))
  BY <1>1, Asked
<1>5. Got(U, base) = Got(L, base)
  BY <1>2, <1>4 DEF Known
<1>6. \A v \in {"x-forwarded-host", "x-forwarded-server", "forwarded"} : Got(U, Probe(v, 0)) = NoAnswer
  <2> SUFFICES ASSUME NEW v \in {"x-forwarded-host", "x-forwarded-server", "forwarded"}, Got(U, Probe(v, 0)) # NoAnswer
               PROVE  FALSE
    OBVIOUS
  <2>1. Before(P, Probe(v, 0), xfh)
    BY <1>4 DEF Known
  <2>2. PICK i \in DOMAIN P : \E j \in DOMAIN P : i < j /\ P[i] = Probe(v, 0) /\ P[j] = xfh
    BY <2>1 DEF Before
  <2>3. i \in 1..2
    BY <2>2, <1>1 DEF Probe
  <2> QED BY <2>2, <2>3, <1>1 DEF Probe
<1>7. Got(U, host) = NoAnswer \/ Got(U, host).code = 200
  <2>1. SUFFICES ASSUME Got(U, host) # NoAnswer PROVE Got(U, host).code = 200
    OBVIOUS
  <2>2. Got(U, host) = Got(L, host)
    BY <2>1, <1>4 DEF Known
  <2>3. PICK V : Got(L, host) \in Answers(s, c, V, host)
    BY <2>1, <2>2, AnswersOf
  <2>4. Got(L, host) \in HostHeaderAnswers(s, host)
    BY <2>3 DEF Answers
  <2> QED BY <2>2, <2>4 DEF HostHeaderAnswers, Probe, Answer
<1>8. Wanted(s, c, U, xfh)
  <2>1. ASSUME NEW i \in 1..4 PROVE ~PoisonedRedirect(U, HostHeaderVectors[i])
    <3>1. Got(U, Probe(HostHeaderVectors[i], 0)).code \in {0, 200}
      BY <1>6, <1>7 DEF HostHeaderVectors, NoAnswer, Answer
    <3> QED BY <3>1 DEF PoisonedRedirect, Is3xx
  <2>2. RedirectVector(U) = 0
    BY <2>1, VectorsAre
  <2>3. Got(U, base).code = 200
    BY <1>3, <1>5 DEF Answer
  <2> QED BY <2>2, <2>3 DEF Wanted, HostHeaderWanted, Answered
<1>9. Got(L, xfh) \in HostHeaderAnswers(s, xfh)
  BY <1>4, <1>8 DEF Answers
<1>10. HostHeaderVectors[2] = "x-forwarded-host"
  BY DEF HostHeaderVectors
<1>11. CASE Has(s, "hhRedirect") /\ t = "hhRedirect"
  <2>1. PICK a : a = Got(L, xfh) /\ a.code = 302 /\ "sentinel" \in a.marks
    BY <1>9, <1>11 DEF HostHeaderAnswers, Probe, Answer
  <2>2. "sentinel" \notin Got(L, base).marks
    BY <1>3 DEF Answer
  <2>3. PoisonedRedirect(L, "x-forwarded-host")
    BY <2>1, <2>2 DEF PoisonedRedirect, Is3xx, Shows
  <2>4. RedirectVector(L) # 0
    BY <2>3, <1>10, VectorsAre
  <2>5. Finding("hostheader/redirect-host", "HIGH", "HIGH") \in HostHeaderFindings(L)
    BY <2>4 DEF HostHeaderFindings, FindingIf
  <2> QED BY <2>5, <1>11 DEF Telling, Finding, Warrants
<1>12. CASE ~Has(s, "hhRedirect") /\ t = "hhLink"
  <2>1. ASSUME NEW i \in 1..4 PROVE ~PoisonedRedirect(L, HostHeaderVectors[i])
    <3>1. SUFFICES ASSUME PoisonedRedirect(L, HostHeaderVectors[i]) PROVE FALSE
      OBVIOUS
    <3>2. PICK p, a : p = Probe(HostHeaderVectors[i], 0) /\ a = Got(L, p) /\ a.code \in 300..399
      BY <3>1 DEF PoisonedRedirect, Is3xx
    <3>3. a # NoAnswer
      BY <3>2 DEF NoAnswer, Answer
    <3>4. \E V : a \in Answers(s, c, V, p)
      BY <3>2, <3>3, AnswersOf
    <3>5. a \in HostHeaderAnswers(s, p)
      BY <3>4 DEF Answers
    <3> QED BY <3>2, <3>5, <1>12 DEF HostHeaderAnswers, Answer
  <2>2. RedirectVector(L) = 0
    BY <2>1, VectorsAre
  <2>3. PICK a : a = Got(L, xfh) /\ "link" \in a.marks
    BY <1>9, <1>12 DEF HostHeaderAnswers, Probe, Answer
  <2>4. "link" \notin Got(L, base).marks
    BY <1>3 DEF Answer
  <2>5. PoisonedLink(L, "x-forwarded-host")
    BY <2>3, <2>4 DEF PoisonedLink, Shows
  <2>6. LinkVector(L) # 0
    BY <2>2, <2>5, <1>10, VectorsAre
  <2>7. PICK grade : Finding("hostheader/absolute-link", grade, grade) \in HostHeaderFindings(L)
    BY <2>6 DEF HostHeaderFindings, FindingIf
  <2> QED BY <2>7, <1>12 DEF Telling, Finding, Warrants
<1>13. CASE Has(s, "hhRedirect") /\ t = "hhLink"
  BY <1>13 DEF Telling
<1> QED BY <1>11, <1>12, <1>13

LEMMA MethodTamperIsFound ==
  ASSUME NEW s, NEW c, c.check = "method-tamper", NEW P, P = MethodTamperPlan(s), NEW L, Thorough(s, c, P, L),
         NEW t \in {"verbHole", "writable", "traces"}, Has(s, t), ~Has(s, "catchAll")
  PROVE  Telling(s, c, L, MethodTamperFindings(L), t)
<1> DEFINE canonical == Probe("canonical", 0)
<1>1. DOMAIN P = 1..10 /\ P[1] = canonical /\ P[8] = Probe("TRACE", 0) /\ P[9] = Probe("danger-PUT", 0)
  BY MethodTamperPlanIs
<1>2. Got(L, canonical) = Answer(200, {"body"}) \/ Got(L, canonical) = Answer(401, {"body"})
  <2>1. PICK U : Wanted(s, c, U, canonical) => Got(L, canonical) \in Answers(s, c, U, canonical)
    BY <1>1, Asked
  <2>2. Wanted(s, c, U, canonical)
    BY DEF Wanted, MethodTamperWanted, Probe
  <2>3. Got(L, canonical) \in MethodTamperAnswers(s, canonical)
    BY <2>1, <2>2 DEF Answers
  <2> QED BY <2>3 DEF MethodTamperAnswers, Probe
<1>3. ASSUME NEW v \in {"TRACE", "danger-PUT"}
      PROVE  Got(L, Probe(v, 0)) \in MethodTamperAnswers(s, Probe(v, 0))
  <2> DEFINE p == Probe(v, 0)
  <2>1. Before(P, canonical, p) /\ \E i \in DOMAIN P : P[i] = p
    BY <1>1 DEF Before
  <2>2. PICK U : Known(P, L, p, U) /\ (Wanted(s, c, U, p) => Got(L, p) \in Answers(s, c, U, p))
    BY <2>1, Asked
  <2>3. Got(U, canonical) = Got(L, canonical)
    BY <2>1, <2>2 DEF Known
  <2>4. Answered(U, canonical)
    BY <2>3, <1>2 DEF Answered, Answer
  <2>5. Wanted(s, c, U, p)
    BY <2>4 DEF Wanted, MethodTamperWanted, AltVerbs, Probe
  <2> QED BY <2>2, <2>5 DEF Answers
<1>4. \E v \in DangerousVerbs : v \in EnabledVerbs(L)
  <2>1. CASE t = "traces"
    <3>1. Got(L, Probe("TRACE", 0)) = Answer(200, {"traced"})
      BY <1>3, <2>1 DEF MethodTamperAnswers, Probe
    <3>2. "TRACE" \in EnabledVerbs(L)
      BY <3>1 DEF EnabledVerbs, DangerousVerbs, Is2xx, Shows, Answer
    <3> QED BY <3>2 DEF DangerousVerbs
  <2>2. CASE Has(s, "writable") /\ t # "traces"
    <3>1. Got(L, Probe("danger-PUT", 0)) = Answer(204, {})
      BY <1>3, <2>2 DEF MethodTamperAnswers, Probe
    <3>2. "danger-PUT" \in EnabledVerbs(L)
      BY <3>1, <1>2 DEF EnabledVerbs, DangerousVerbs, Is2xx, Answer
    <3> QED BY <3>2 DEF DangerousVerbs
  <2>3. CASE ~Has(s, "writable") /\ t # "traces"
    <3>1. Got(L, Probe("danger-PUT", 0)) = Answer(200, {"body", "other"})
      BY <1>3, <2>3 DEF MethodTamperAnswers, Probe
    <3>2. "danger-PUT" \in EnabledVerbs(L)
      BY <3>1, <1>2 DEF EnabledVerbs, DangerousVerbs, Is2xx, Answer
    <3> QED BY <3>2 DEF DangerousVerbs
  <2> QED BY <2>1, <2>2, <2>3
<1>5. Finding("methodtamper/dangerous-method", "MEDIUM", "MEDIUM") \in MethodTamperFindings(L)
  BY <1>4 DEF MethodTamperFindings, FindingIf
<1> QED BY <1>5 DEF Telling, Finding, Warrants

LEMMA AuthIsFound ==
  ASSUME NEW s, NEW c, c.check = "auth", NEW P, P = AuthPlan(s), NEW L, Thorough(s, c, P, L),
         NEW t \in {"open", "anyToken", "noExpiry", "algNone"}, Has(s, t), ~Has(s, "gone"),
         HasAuth(s), t # "open" => IsJwtAuth(s)
  PROVE  Telling(s, c, L, AuthFindings(s, L), t)
<1> DEFINE anonymous == Probe("anonymous", 0)
           garbage == Probe("garbage", 0)
           real == Probe("real", 0)
<1>1. DOMAIN P = 1..6 /\ P[1] = anonymous /\ P[2] = garbage /\ P[3] = real /\ P[4] = Probe("malformed", 0)
      /\ P[5] = Probe("expired", 0) /\ P[6] = Probe("alg-none", 0)
  BY AuthPlanIs
<1>2. Got(L, anonymous) \in AuthAnswers(s, anonymous)
  <2>1. PICK U : Wanted(s, c, U, anonymous) => Got(L, anonymous) \in Answers(s, c, U, anonymous)
    BY <1>1, Asked
  <2>2. Wanted(s, c, U, anonymous)
    BY DEF Wanted, AuthWanted, Probe
  <2> QED BY <2>1, <2>2 DEF Answers
<1>3. CASE Has(s, "open")
  <2>1. Accepted(L, "anonymous")
    BY <1>2, <1>3 DEF AuthAnswers, Accepted, Is2xx, Answer, Probe
  <2>2. PICK severity, confidence :
            FindingIf(TRUE, "auth/unauthenticated-access", severity, confidence) \subseteq AuthFindings(s, L)
    BY <2>1 DEF AuthFindings, UnauthenticatedFinding, FindingIf
  <2> QED BY <2>2 DEF Telling, FindingIf, Finding
<1>4. CASE ~Has(s, "open")
  <2>1. t # "open" /\ IsJwtAuth(s)
    BY <1>4
  <2>2. ~Accepted(L, "anonymous")
    BY <1>2, <1>4 DEF AuthAnswers, Accepted, Is2xx, Answer, Probe
  <2>3. Got(L, real) \in AuthAnswers(s, real)
    <3>1. Before(P, anonymous, real)
      BY <1>1 DEF Before
    <3>2. PICK U : Known(P, L, real, U) /\ (Wanted(s, c, U, real) => Got(L, real) \in Answers(s, c, U, real))
      BY <1>1, Asked
    <3>3. Got(U, anonymous) = Got(L, anonymous)
      BY <3>1, <3>2 DEF Known
    <3>4. ~Accepted(U, "anonymous")
      BY <3>3, <2>2 DEF Accepted
    <3>5. Wanted(s, c, U, real)
      BY <2>1, <3>4 DEF Wanted, AuthWanted, EndpointAcceptsGarbage, Probe
    <3> QED BY <3>2, <3>5 DEF Answers
  <2>4. Accepted(L, "real")
    BY <2>3 DEF AuthAnswers, Accepted, Is2xx, Answer, Probe
  <2>5. ASSUME NEW k \in {"malformed", "expired", "alg-none"}
        PROVE  Got(L, Probe(k, 0)) \in AuthAnswers(s, Probe(k, 0))
    <3> DEFINE p == Probe(k, 0)
    <3>1. Before(P, real, p) /\ \E i \in DOMAIN P : P[i] = p
      BY <1>1 DEF Before
    <3>2. PICK U : Known(P, L, p, U) /\ (Wanted(s, c, U, p) => Got(L, p) \in Answers(s, c, U, p))
      BY <3>1, Asked
    <3>3. Got(U, real) = Got(L, real)
      BY <3>1, <3>2 DEF Known
    <3>4. Accepted(U, "real")
      BY <3>3, <2>4 DEF Accepted
    <3>5. Wanted(s, c, U, p)
      BY <3>4 DEF Wanted, AuthWanted, Probe
    <3> QED BY <3>2, <3>5 DEF Answers
  <2>6. PICK k \in {"malformed", "expired", "alg-none"} : /\ t = "anyToken" => k = "malformed"
                                                          /\ t = "noExpiry" => k = "expired"
                                                          /\ t = "algNone" => k = "alg-none"
    OBVIOUS
  <2>7. Accepted(L, k)
    <3>1. PICK p, a : p = Probe(k, 0) /\ a = Got(L, p) /\ a \in AuthAnswers(s, p)
      BY <2>5
    <3>2. a \in {Answer(200, {"body"}), Answer(200, {})}
      <4>1. p.kind = k
        BY <3>1 DEF Probe
      <4>2. CASE t = "anyToken"
        BY <4>1, <4>2, <2>6, <3>1 DEF AuthAnswers
      <4>3. CASE t = "noExpiry"
        BY <4>1, <4>3, <2>6, <3>1 DEF AuthAnswers
      <4>4. CASE t = "algNone"
        BY <4>1, <4>4, <2>6, <3>1 DEF AuthAnswers
      <4> QED BY <4>2, <4>3, <4>4, <2>1
    <3> QED BY <3>1, <3>2 DEF Accepted, Is2xx, Answer
  <2>8. PICK rule, confidence : rule = JwtRule[k] /\ Finding(rule, "CRITICAL", confidence) \in AuthFindings(s, L)
    BY <2>7 DEF AuthFindings, FindingIf, JwtRule
  <2>9. <<rule, t>> \in Warrants
    BY <2>1, <2>6, <2>8 DEF JwtRule, Warrants
  <2> QED BY <2>8, <2>9 DEF Telling, Finding
<1> QED BY <1>3, <1>4

\* There is always a parameter to probe, and one in the query when none is declared.
LEMMA SomeTarget ==
  ASSUME NEW s, IsScene(s)
  PROVE  /\ \E t \in 1..Len(TargetsForEndpoint(s)) : Targeted(s, t)
         /\ (\E i \in DOMAIN s.targets : s.targets[i].at = "query") \/ ~(\E i \in DOMAIN s.targets : Sendable(s, s.targets[i]))
              => \E t \in 1..Len(TargetsForEndpoint(s)) : Targeted(s, t) /\ TargetsForEndpoint(s)[t].at = "query"
<1>1. DOMAIN TargetsForEndpoint(s) = 1..Len(TargetsForEndpoint(s))
  BY TargetsListed
<1>2. CASE \E i \in DOMAIN s.targets : Sendable(s, s.targets[i])
  <2>1. TargetsForEndpoint(s) = s.targets
    BY <1>2 DEF TargetsForEndpoint
  <2>2. \A i \in DOMAIN s.targets : s.targets[i].at = "query" => Sendable(s, s.targets[i])
    BY DEF Sendable
  <2> QED BY <1>1, <1>2, <2>1, <2>2 DEF Targeted
<1>3. CASE ~\E i \in DOMAIN s.targets : Sendable(s, s.targets[i])
  <2>1. PICK x : x = [at |-> "query", url |-> FALSE]
    OBVIOUS
  <2>2. TargetsForEndpoint(s) = <<x>> /\ x.at = "query"
    BY <1>3, <2>1 DEF TargetsForEndpoint
  <2>3. Sendable(s, x)
    BY <2>2 DEF Sendable
  <2>4. Len(TargetsForEndpoint(s)) = 1 /\ TargetsForEndpoint(s)[1] = x
    BY <2>2
  <2> QED BY <2>2, <2>3, <2>4 DEF Targeted
<1> QED BY <1>2, <1>3

LEMMA InjectionOrder ==
  ASSUME NEW s, IsScene(s), NEW P, P = InjectionPlan(s), NEW t \in 1..Len(TargetsForEndpoint(s))
  PROVE  /\ \A kind \in {"base", "time1", "time2", "error", "control1", "control2", "true", "false", "cmdi", "crlf"} :
              \E i \in DOMAIN P : P[i] = Probe(kind, t)
         /\ Before(P, Probe("base", t), Probe("time1", t)) /\ Before(P, Probe("base", t), Probe("time2", t))
         /\ Before(P, Probe("time1", t), Probe("time2", t))
         /\ Before(P, Probe("control1", t), Probe("control2", t)) /\ Before(P, Probe("control1", t), Probe("true", t))
         /\ Before(P, Probe("control2", t), Probe("true", t)) /\ Before(P, Probe("true", t), Probe("false", t))
<1>1. PICK n \in Nat : n = Len(TargetsForEndpoint(s))
  BY TargetsListed
<1>2. PICK K : K = <<"base", "time1", "again1", "time2", "again2", "error",
                     "control1", "control2", "true", "false", "cmdi", "crlf">>
  OBVIOUS
<1>3. PICK k \in Nat \ {0} : k = 12
  OBVIOUS
<1>4. P = PlanFor(n, K)
  BY <1>1, <1>2 DEF InjectionPlan, ForEachTarget
<1>5. Len(K) = k
  BY <1>2, <1>3
<1>6. PICK u \in 1..n : u = t
  BY <1>1
<1>7. ASSUME NEW x \in 1..k
      PROVE  /\ \E i \in DOMAIN P : P[i] = Probe(K[x], u)
             /\ \A y \in 1..k : x < y => Before(P, Probe(K[x], u), Probe(K[y], u))
  BY ONLY <1>4, <1>5, n \in Nat, k \in Nat \ {0}, u \in 1..n, x \in 1..k, PlanForOrder
<1>8. /\ K[1] = "base" /\ K[2] = "time1" /\ K[4] = "time2" /\ K[6] = "error" /\ K[7] = "control1" /\ K[8] = "control2"
      /\ K[9] = "true" /\ K[10] = "false" /\ K[11] = "cmdi" /\ K[12] = "crlf"
  BY <1>2
<1>9. \A x \in 1..12 : \E i \in DOMAIN P : P[i] = Probe(K[x], t)
  BY <1>3, <1>6, <1>7
<1>10. \A x, y \in 1..12 : x < y => Before(P, Probe(K[x], t), Probe(K[y], t))
  BY <1>3, <1>6, <1>7
<1>11. \A kind \in {"base", "time1", "time2", "error", "control1", "control2", "true", "false", "cmdi", "crlf"} :
          \E x \in 1..12 : kind = K[x]
  BY <1>8
<1>12. \A kind \in {"base", "time1", "time2", "error", "control1", "control2", "true", "false", "cmdi", "crlf"} :
          \E i \in DOMAIN P : P[i] = Probe(kind, t)
  BY <1>9, <1>11, SMTT(30)
<1>13. Before(P, Probe("base", t), Probe("time1", t)) /\ Before(P, Probe("base", t), Probe("time2", t))
       /\ Before(P, Probe("time1", t), Probe("time2", t))
  <2>1. 1 < 2 /\ 1 < 4 /\ 2 < 4 /\ 1 \in 1..12 /\ 2 \in 1..12 /\ 4 \in 1..12
    OBVIOUS
  <2> QED BY <2>1, <1>8, <1>10
<1>14. Before(P, Probe("control1", t), Probe("control2", t)) /\ Before(P, Probe("control1", t), Probe("true", t))
       /\ Before(P, Probe("control2", t), Probe("true", t)) /\ Before(P, Probe("true", t), Probe("false", t))
  <2>1. 7 < 8 /\ 7 < 9 /\ 8 < 9 /\ 9 < 10 /\ 7 \in 1..12 /\ 8 \in 1..12 /\ 9 \in 1..12 /\ 10 \in 1..12
    OBVIOUS
  <2> QED BY <2>1, <1>8, <1>10
<1> QED BY <1>12, <1>13, <1>14

\* What a steady target answers.
LEMMA SteadyAnswers ==
  ASSUME NEW s, ~Has(s, "laggy"), ~Has(s, "dynamic"), NEW U, NEW p, NEW a \in InjectionAnswers(s, U, p)
  PROVE  /\ p.kind \in {"base", "time1"} => a = Answer(200, {})
         /\ p.kind = "time2" /\ Has(s, "sqliTime") => a = Answer(200, {"slow"})
         /\ p.kind = "error" /\ Has(s, "sqliError") => a = Answer(200, {"dberror"})
         /\ p.kind \in {"control1", "control2", "true"} => a = Answer(200, {"len1"})
         /\ p.kind = "false" /\ Has(s, "sqliBool") => a = Answer(200, {"len2"})
         /\ p.kind = "cmdi" /\ Has(s, "cmdi") => a = Answer(200, {"computed"})
         /\ p.kind = "crlf" /\ Has(s, "crlf") => a = Answer(200, {"cookie"})
<1>1. PICK H : H = Hiccups(s, U) /\ H = {}
  BY DEF Hiccups
<1>2. p.kind \in {"base", "time1"} => a = Answer(200, {})
  BY <1>1 DEF InjectionAnswers
<1>3. p.kind = "time2" /\ Has(s, "sqliTime") => a = Answer(200, {"slow"})
  BY <1>1 DEF InjectionAnswers
<1>4. p.kind = "error" /\ Has(s, "sqliError") => a = Answer(200, {"dberror"})
  BY DEF InjectionAnswers
<1>5. p.kind \in {"control1", "control2", "true"} => a = Answer(200, {"len1"})
  BY DEF InjectionAnswers
<1>6. p.kind = "false" /\ Has(s, "sqliBool") => a = Answer(200, {"len2"})
  BY DEF InjectionAnswers
<1>7. p.kind = "cmdi" /\ Has(s, "cmdi") => a = Answer(200, {"computed"})
  BY DEF InjectionAnswers
<1>8. p.kind = "crlf" /\ Has(s, "crlf") => a = Answer(200, {"cookie"})
  BY DEF InjectionAnswers
<1> QED BY <1>2, <1>3, <1>4, <1>5, <1>6, <1>7, <1>8

LEMMA InjectionsAreFound ==
  ASSUME NEW s, IsScene(s), NEW c, c.check = "injection", NEW P, P = InjectionPlan(s), NEW L, Thorough(s, c, P, L),
         NEW flaw \in {"sqliTime", "sqliError", "sqliBool", "cmdi", "crlf"}, Has(s, flaw),
         ~Has(s, "laggy"), ~Has(s, "dynamic"),
         flaw = "crlf" => \/ \E i \in DOMAIN s.targets : s.targets[i].at = "query"
                          \/ ~\E i \in DOMAIN s.targets : Sendable(s, s.targets[i])
  PROVE  Telling(s, c, L, InjectionFindings(s, L), flaw)
<1>1. PICK t \in 1..Len(TargetsForEndpoint(s)) : /\ Targeted(s, t)
                                                 /\ flaw = "crlf" => TargetsForEndpoint(s)[t].at = "query"
  BY SomeTarget
<1> DEFINE Of(kind) == Got(L, Probe(kind, t))
           Kinds == {"base", "time1", "time2", "error", "control1", "control2", "true", "false", "cmdi", "crlf"}
<1>2. ASSUME NEW kind \in Kinds
      PROVE  \E U : /\ Known(P, L, Probe(kind, t), U)
                    /\ InjectionWanted(s, U, Probe(kind, t)) => Of(kind) \in InjectionAnswers(s, U, Probe(kind, t))
  <2>1. \E i \in DOMAIN P : P[i] = Probe(kind, t)
    BY InjectionOrder
  <2>2. PICK U : /\ Known(P, L, Probe(kind, t), U)
                 /\ Wanted(s, c, U, Probe(kind, t)) => Got(L, Probe(kind, t)) \in Answers(s, c, U, Probe(kind, t))
    BY <2>1, Asked
  <2> QED BY <2>2 DEF Wanted, Answers
<1>3. ASSUME NEW kind \in Kinds, NEW U, Of(kind) \in InjectionAnswers(s, U, Probe(kind, t))
      PROVE  /\ kind \in {"base", "time1"} => Of(kind) = Answer(200, {})
             /\ kind = "time2" /\ Has(s, "sqliTime") => Of(kind) = Answer(200, {"slow"})
             /\ kind = "error" /\ Has(s, "sqliError") => Of(kind) = Answer(200, {"dberror"})
             /\ kind \in {"control1", "control2", "true"} => Of(kind) = Answer(200, {"len1"})
             /\ kind = "false" /\ Has(s, "sqliBool") => Of(kind) = Answer(200, {"len2"})
             /\ kind = "cmdi" /\ Has(s, "cmdi") => Of(kind) = Answer(200, {"computed"})
             /\ kind = "crlf" /\ Has(s, "crlf") => Of(kind) = Answer(200, {"cookie"})
  <2>1. PICK p, a : p = Probe(kind, t) /\ a = Got(L, p) /\ a \in InjectionAnswers(s, U, p)
    BY <1>3
  <2>2. p.kind = kind
    BY <2>1 DEF Probe
  <2> QED BY <2>1, <2>2, SteadyAnswers
<1>4. ASSUME NEW f \in TimeBasedFindings(L, t) \cup ErrorBasedFindings(L, t)
                        \cup BooleanFindings(L, t) \cup CmdiFindings(L, t) \cup CrlfFindings(L, t),
             <<f.rule, flaw>> \in Warrants
      PROVE  Telling(s, c, L, InjectionFindings(s, L), flaw)
  <2>1. f \in InjectionFindings(s, L)
    BY <1>4 DEF InjectionFindings
  <2> QED BY <2>1, <1>4 DEF Telling
<1>5. CASE flaw \in {"sqliError", "cmdi", "crlf"}
  <2>1. PICK kind \in {"error", "cmdi", "crlf"} : /\ flaw = "sqliError" => kind = "error"
                                                  /\ flaw = "cmdi" => kind = "cmdi"
                                                  /\ flaw = "crlf" => kind = "crlf"
    BY <1>5
  <2>2. PICK U : InjectionWanted(s, U, Probe(kind, t)) => Of(kind) \in InjectionAnswers(s, U, Probe(kind, t))
    BY <1>2
  <2>3. InjectionWanted(s, U, Probe(kind, t))
    BY <1>1, <1>5, <2>1 DEF InjectionWanted, CrlfWanted, Probe
  <2>4. /\ flaw = "sqliError" => Of("error") = Answer(200, {"dberror"})
        /\ flaw = "cmdi" => Of("cmdi") = Answer(200, {"computed"})
        /\ flaw = "crlf" => Of("crlf") = Answer(200, {"cookie"})
    BY <1>3, <1>5, <2>1, <2>2, <2>3
  <2>5. CASE flaw = "sqliError"
    <3>1. Finding("injection/sqli-error-based", "HIGH", "HIGH") \in ErrorBasedFindings(L, t)
      BY <2>4, <2>5 DEF ErrorBasedFindings, FindingIf, Shows, Answer
    <3> QED BY <3>1, <2>5, <1>4 DEF Finding, Warrants
  <2>6. CASE flaw = "cmdi"
    <3>1. Finding("injection/command-injection", "CRITICAL", "HIGH") \in CmdiFindings(L, t)
      BY <2>4, <2>6 DEF CmdiFindings, FindingIf, Shows, Answer
    <3> QED BY <3>1, <2>6, <1>4 DEF Finding, Warrants
  <2>7. CASE flaw = "crlf"
    <3>1. Finding("injection/header-crlf", "HIGH", "HIGH") \in CrlfFindings(L, t)
      BY <2>4, <2>7 DEF CrlfFindings, FindingIf, Shows, Answer
    <3> QED BY <3>1, <2>7, <1>4 DEF Finding, Warrants
  <2> QED BY <1>5, <2>5, <2>6, <2>7
<1>6. CASE flaw = "sqliTime"
  <2>1. Of("base") = Answer(200, {})
    <3>1. PICK U : InjectionWanted(s, U, Probe("base", t)) => Of("base") \in InjectionAnswers(s, U, Probe("base", t))
      BY <1>2
    <3>2. InjectionWanted(s, U, Probe("base", t))
      BY <1>1 DEF InjectionWanted, TimeBasedWanted, Probe
    <3> QED BY <3>1, <3>2, <1>3
  <2>2. Of("time1") = Answer(200, {})
    <3>1. PICK U : /\ Known(P, L, Probe("time1", t), U)
                   /\ InjectionWanted(s, U, Probe("time1", t)) => Of("time1") \in InjectionAnswers(s, U, Probe("time1", t))
      BY <1>2
    <3>2. Got(U, Probe("base", t)) = Of("base")
      BY <3>1, InjectionOrder DEF Known
    <3>3. Answered(U, Probe("base", t))
      BY <3>2, <2>1 DEF Answered, Answer
    <3>4. InjectionWanted(s, U, Probe("time1", t))
      BY <3>3, <1>1 DEF InjectionWanted, TimeBasedWanted, Probe
    <3> QED BY <3>1, <3>4, <1>3
  <2>3. Of("time2") = Answer(200, {"slow"})
    <3>1. PICK U : /\ Known(P, L, Probe("time2", t), U)
                   /\ InjectionWanted(s, U, Probe("time2", t)) => Of("time2") \in InjectionAnswers(s, U, Probe("time2", t))
      BY <1>2
    <3>2. Got(U, Probe("base", t)) = Of("base") /\ Got(U, Probe("time1", t)) = Of("time1")
      BY <3>1, InjectionOrder DEF Known
    <3>3. Answered(U, Probe("base", t)) /\ ~Slow(U, "time1", t)
      BY <3>2, <2>1, <2>2 DEF Answered, Slow, Shows, Answer
    <3>4. InjectionWanted(s, U, Probe("time2", t))
      BY <3>3, <1>1 DEF InjectionWanted, TimeBasedWanted, Probe
    <3> QED BY <3>1, <3>4, <1>3, <1>6
  <2>4. Slow(L, "time2", t)
    BY <2>1, <2>3 DEF Slow, Shows, Answer
  <2>5. PICK confidence : Finding("injection/sqli-time-based", "HIGH", confidence) \in TimeBasedFindings(L, t)
    BY <2>4 DEF TimeBasedFindings, FindingIf
  <2> QED BY <2>5, <1>4, <1>6 DEF Finding, Warrants
<1>7. CASE flaw = "sqliBool"
  <2>1. Of("control1") = Answer(200, {"len1"})
    <3>1. PICK U : InjectionWanted(s, U, Probe("control1", t)) => Of("control1") \in InjectionAnswers(s, U, Probe("control1", t))
      BY <1>2
    <3>2. InjectionWanted(s, U, Probe("control1", t))
      BY <1>1 DEF InjectionWanted, BooleanWanted, Probe
    <3> QED BY <3>1, <3>2, <1>3
  <2>2. Of("control2") = Answer(200, {"len1"})
    <3>1. PICK U : /\ Known(P, L, Probe("control2", t), U)
                   /\ InjectionWanted(s, U, Probe("control2", t)) => Of("control2") \in InjectionAnswers(s, U, Probe("control2", t))
      BY <1>2
    <3>2. Got(U, Probe("control1", t)) = Of("control1")
      BY <3>1, InjectionOrder DEF Known
    <3>3. Answered(U, Probe("control1", t))
      BY <3>2, <2>1 DEF Answered, Answer
    <3>4. InjectionWanted(s, U, Probe("control2", t))
      BY <3>3, <1>1 DEF InjectionWanted, BooleanWanted, Probe
    <3> QED BY <3>1, <3>4, <1>3
  <2>3. Of("true") = Answer(200, {"len1"})
    <3>1. PICK U : /\ Known(P, L, Probe("true", t), U)
                   /\ InjectionWanted(s, U, Probe("true", t)) => Of("true") \in InjectionAnswers(s, U, Probe("true", t))
      BY <1>2
    <3>2. Got(U, Probe("control1", t)) = Of("control1") /\ Got(U, Probe("control2", t)) = Of("control2")
      BY <3>1, InjectionOrder DEF Known
    <3>3. Answered(U, Probe("control2", t)) /\ BodyLen(U, "control1", t) = BodyLen(U, "control2", t)
      BY <3>2, <2>1, <2>2 DEF Answered, Answer, BodyLen
    <3>4. InjectionWanted(s, U, Probe("true", t))
      BY <3>3, <1>1 DEF InjectionWanted, BooleanWanted, Probe
    <3> QED BY <3>1, <3>4, <1>3
  <2>4. Of("false") = Answer(200, {"len2"})
    <3>1. PICK U : /\ Known(P, L, Probe("false", t), U)
                   /\ InjectionWanted(s, U, Probe("false", t)) => Of("false") \in InjectionAnswers(s, U, Probe("false", t))
      BY <1>2
    <3>2. Got(U, Probe("true", t)) = Of("true")
      BY <3>1, InjectionOrder DEF Known
    <3>3. Answered(U, Probe("true", t))
      BY <3>2, <2>3 DEF Answered, Answer
    <3>4. InjectionWanted(s, U, Probe("false", t))
      BY <3>3, <1>1 DEF InjectionWanted, BooleanWanted, Probe
    <3> QED BY <3>1, <3>4, <1>3, <1>7
  <2>5. /\ BodyLen(L, "control1", t) = {"len1"} /\ BodyLen(L, "true", t) = {"len1"} /\ BodyLen(L, "false", t) = {"len2"}
        /\ Answered(L, Probe("true", t)) /\ Answered(L, Probe("false", t))
    BY <2>1, <2>3, <2>4 DEF BodyLen, Lengths, Answered, Answer
  <2>6. Finding("injection/sqli-boolean-based", "HIGH", "MEDIUM") \in BooleanFindings(L, t)
    BY <2>5 DEF BooleanFindings, FindingIf
  <2> QED BY <2>6, <1>4, <1>7 DEF Finding, Warrants
<1> QED BY <1>5, <1>6, <1>7

LEMMA SsrfOrder ==
  ASSUME NEW s, IsScene(s), NEW P, P = SsrfPlan(s), NEW t \in 1..Len(TargetsForEndpoint(s))
  PROVE  /\ \E i \in DOMAIN P : P[i] = Probe("ssrf-base", 0)
         /\ \A kind \in {"canary", "redirect", "timing-base", "timing1", "timing2"} :
              /\ \E i \in DOMAIN P : P[i] = Probe(kind, t)
              /\ Before(P, Probe("ssrf-base", 0), Probe(kind, t))
         /\ \A kind \in {"canary", "redirect", "timing-base"} :
              Before(P, Probe(kind, t), Probe("timing1", t)) /\ Before(P, Probe(kind, t), Probe("timing2", t))
         /\ Before(P, Probe("timing1", t), Probe("timing2", t))
<1>1. PICK n \in Nat : n = Len(TargetsForEndpoint(s))
  BY TargetsListed
<1>2. PICK K : K = <<"canary", "testnet", "redirect", "timing-base", "timing1", "timing2">>
  OBVIOUS
<1>3. PICK k \in Nat \ {0} : k = 6
  OBVIOUS
<1>4. PICK Q : Q = PlanFor(n, K)
  OBVIOUS
<1>5. Len(K) = k
  BY <1>2, <1>3
<1>6. PICK u \in 1..n : u = t
  BY <1>1
<1>7. ASSUME NEW x \in 1..k
      PROVE  /\ \E i \in DOMAIN Q : Q[i] = Probe(K[x], u)
             /\ \A y \in 1..k : x < y => Before(Q, Probe(K[x], u), Probe(K[y], u))
  BY ONLY <1>4, <1>5, n \in Nat, k \in Nat \ {0}, u \in 1..n, x \in 1..k, PlanForOrder
<1>8. K[1] = "canary" /\ K[3] = "redirect" /\ K[4] = "timing-base" /\ K[5] = "timing1" /\ K[6] = "timing2"
  BY <1>2
<1>9. /\ P = <<Probe("ssrf-base", 0)>> \o Q /\ Q \in Seq(Range(Q)) /\ ProperPlan(Q)
      /\ \A i \in DOMAIN Q : Q[i] # Probe("ssrf-base", 0)
  BY <1>1, <1>2, <1>4, SsrfPlanIs
<1>10. /\ ProperPlan(P) /\ Len(P) = Len(Q) + 1 /\ P[1] = Probe("ssrf-base", 0)
       /\ \A i \in DOMAIN Q : P[i + 1] = Q[i]
  <2>1. Probe("ssrf-base", 0) # NoProbe
    BY DEF Probe, NoProbe
  <2> QED BY <2>1, <1>9, PlanAfter
<1>11. \A i \in DOMAIN Q : i \in Nat \ {0} /\ i + 1 \in DOMAIN P
  BY <1>9, <1>10 DEF ProperPlan
<1>12. 1 \in DOMAIN P
  BY <1>9, <1>10 DEF ProperPlan
<1>13. ASSUME NEW p, \E i \in DOMAIN Q : Q[i] = p
       PROVE  (\E i \in DOMAIN P : P[i] = p) /\ Before(P, Probe("ssrf-base", 0), p)
  <2>1. PICK i \in DOMAIN Q : Q[i] = p
    BY <1>13
  <2>2. i + 1 \in DOMAIN P /\ P[i + 1] = p /\ 1 < i + 1
    BY <2>1, <1>10, <1>11
  <2> QED BY <2>2, <1>10, <1>12 DEF Before
<1>14. ASSUME NEW p, NEW q, Before(Q, p, q) PROVE Before(P, p, q)
  <2>1. PICK i \in DOMAIN Q : \E j \in DOMAIN Q : i < j /\ Q[i] = p /\ Q[j] = q
    BY <1>14 DEF Before
  <2>2. PICK j \in DOMAIN Q : i < j /\ Q[i] = p /\ Q[j] = q
    BY <2>1
  <2>3. i + 1 \in DOMAIN P /\ j + 1 \in DOMAIN P /\ i + 1 < j + 1 /\ P[i + 1] = p /\ P[j + 1] = q
    BY <2>2, <1>10, <1>11
  <2> QED BY <2>3 DEF Before
<1>15. \A x \in 1..6 : \E i \in DOMAIN Q : Q[i] = Probe(K[x], t)
  BY <1>3, <1>6, <1>7
<1>16. \A x, y \in 1..6 : x < y => Before(P, Probe(K[x], t), Probe(K[y], t))
  BY <1>3, <1>6, <1>7, <1>14
<1>17. \A kind \in {"canary", "redirect", "timing-base", "timing1", "timing2"} : \E x \in 1..6 : kind = K[x]
  BY <1>8
<1>18. \A kind \in {"canary", "redirect", "timing-base", "timing1", "timing2"} : \E i \in DOMAIN Q : Q[i] = Probe(kind, t)
  BY <1>15, <1>17
<1>19. \A kind \in {"canary", "redirect", "timing-base"} : \E x \in 1..4 : kind = K[x]
  BY <1>8
<1>20. \A kind \in {"canary", "redirect", "timing-base"} :
          Before(P, Probe(kind, t), Probe("timing1", t)) /\ Before(P, Probe(kind, t), Probe("timing2", t))
  <2>1. 5 \in 1..6 /\ 6 \in 1..6 /\ \A x \in 1..4 : x < 5 /\ x < 6 /\ x \in 1..6
    OBVIOUS
  <2> QED BY <2>1, <1>8, <1>16, <1>19
<1>21. Before(P, Probe("timing1", t), Probe("timing2", t))
  <2>1. 5 \in 1..6 /\ 6 \in 1..6 /\ 5 < 6
    OBVIOUS
  <2> QED BY <2>1, <1>8, <1>16
<1> QED BY <1>10, <1>12, <1>13, <1>18, <1>20, <1>21

LEMMA SsrfIsFound ==
  ASSUME NEW s, IsScene(s), NEW c, c.check = "ssrf", NEW P, P = SsrfPlan(s), NEW L, Thorough(s, c, P, L),
         NEW flaw \in {"ssrfLeak", "ssrfForward", "ssrfBlocks"}, Has(s, flaw), ~Has(s, "laggy"), ~Has(s, "down"),
         \E i \in DOMAIN s.targets : s.targets[i].url /\ Sendable(s, s.targets[i])
  PROVE  Telling(s, c, L, SsrfFindings(s, L), flaw)
<1>1. PICK t \in 1..Len(TargetsForEndpoint(s)) : UrlTarget(s, t)
  <2>1. TargetsForEndpoint(s) = s.targets
    BY DEF TargetsForEndpoint
  <2>2. DOMAIN s.targets = 1..Len(TargetsForEndpoint(s))
    BY <2>1, TargetsListed
  <2> QED BY <2>1, <2>2 DEF UrlTarget, Targeted, IsUrlShapedParam
<1> DEFINE base == Probe("ssrf-base", 0)
           Of(kind) == Got(L, Probe(kind, t))
<1>2. Got(L, base) = Answer(200, {})
  <2>1. \E i \in DOMAIN P : P[i] = base
    BY SsrfOrder
  <2>2. PICK U : Wanted(s, c, U, base) => Got(L, base) \in Answers(s, c, U, base)
    BY <2>1, Asked
  <2>3. Wanted(s, c, U, base)
    BY <1>1 DEF Wanted, SsrfWanted, Probe
  <2>4. Got(L, base) \in SsrfAnswers(s, U, base)
    BY <2>2, <2>3 DEF Answers
  <2> QED BY <2>4 DEF SsrfAnswers, Probe
<1>3. SUFFICES ASSUME SsrfHit(L, t) = Finding("none", "INFO", "LOW") PROVE FALSE
  BY DEF Telling, SsrfFindings
<1>4. /\ \A k \in {"canary", "testnet"} : ~ErrorLeak(Of(k))
      /\ ~RedirectEcho(Of("redirect"))
      /\ ~FetchBlocks(L, t)
  BY <1>3 DEF SsrfHit, Finding
<1>5. ASSUME NEW kind \in {"canary", "redirect", "timing-base", "timing1", "timing2"}
      PROVE  \E U : /\ Known(P, L, Probe(kind, t), U)
                    /\ SsrfWanted(s, U, Probe(kind, t)) => Of(kind) \in SsrfAnswers(s, U, Probe(kind, t))
  <2>1. \E i \in DOMAIN P : P[i] = Probe(kind, t)
    BY SsrfOrder
  <2>2. PICK U : /\ Known(P, L, Probe(kind, t), U)
                 /\ Wanted(s, c, U, Probe(kind, t)) => Got(L, Probe(kind, t)) \in Answers(s, c, U, Probe(kind, t))
    BY <2>1, Asked
  <2> QED BY <2>2 DEF Wanted, Answers
<1>6. ASSUME NEW kind \in {"canary", "redirect", "timing-base"}
      PROVE  \E U : Of(kind) \in SsrfAnswers(s, U, Probe(kind, t))
  <2>1. PICK U : /\ Known(P, L, Probe(kind, t), U)
                 /\ SsrfWanted(s, U, Probe(kind, t)) => Of(kind) \in SsrfAnswers(s, U, Probe(kind, t))
    BY <1>5
  <2>2. Got(U, base) = Got(L, base)
    BY <2>1, SsrfOrder DEF Known
  <2>3. SsrfBaselineServiceable(U)
    BY <1>2, <2>2 DEF SsrfBaselineServiceable, Is2xx, Answer
  <2>4. \A q : Got(U, q) = NoAnswer \/ Got(U, q) = Got(L, q)
    BY <2>1 DEF Known
  <2>5. \A k \in {"canary", "testnet"} : ~ErrorLeak(Got(U, Probe(k, t)))
    BY <2>4, <1>4 DEF ErrorLeak, NoAnswer, Answer
  <2>6. ~RedirectEcho(Got(U, Probe("redirect", t)))
    <3>1. NoAnswer.code \notin 300..399
      BY DEF NoAnswer, Answer
    <3> QED BY <3>1, <2>4, <1>4 DEF RedirectEcho, Is3xx
  <2>7. Got(U, Probe("timing1", t)) = NoAnswer
    <3>1. Before(P, Probe(kind, t), Probe("timing1", t))
      BY SsrfOrder
    <3>2. ~Before(P, Probe("timing1", t), Probe(kind, t))
      BY <3>1, BeforeOnce DEF Thorough
    <3> QED BY <3>2, <2>1 DEF Known
  <2>8. ~FetchBlocks(U, t)
    BY <2>7 DEF FetchBlocks, NoAnswer, Answer
  <2>9. SsrfHit(U, t).rule = "none"
    BY <2>5, <2>6, <2>8 DEF SsrfHit, Finding
  <2>10. SsrfWanted(s, U, Probe(kind, t))
    BY <1>1, <2>3, <2>9 DEF SsrfWanted, Probe
  <2> QED BY <2>1, <2>10
<1>7. CASE flaw = "ssrfLeak"
  <2>1. PICK U : Of("canary") \in SsrfAnswers(s, U, Probe("canary", t))
    BY <1>6
  <2>2. Of("canary") = Answer(200, {"canaryhost", "fetcherror"})
    BY <2>1, <1>7 DEF SsrfAnswers, Probe
  <2> QED BY <2>2, <1>4 DEF ErrorLeak, Answer
<1>8. CASE flaw = "ssrfForward"
  <2>1. PICK U : Of("redirect") \in SsrfAnswers(s, U, Probe("redirect", t))
    BY <1>6
  <2>2. Of("redirect") = Answer(302, {"canaryhost"})
    BY <2>1, <1>8 DEF SsrfAnswers, Probe
  <2>3. PICK a : a = Of("redirect") /\ a.code = 302 /\ "canaryhost" \in a.marks
    BY <2>2 DEF Answer
  <2>4. RedirectEcho(Of("redirect"))
    BY <2>3 DEF RedirectEcho, Is3xx, Shows
  <2> QED BY <2>4, <1>4
<1>9. CASE flaw = "ssrfBlocks"
  <2>1. \A U : Hiccups(s, U) = {}
    BY DEF Hiccups
  <2>2. Of("timing-base") = Answer(200, {})
    <3>1. PICK U : Of("timing-base") \in SsrfAnswers(s, U, Probe("timing-base", t))
      BY <1>6
    <3>2. PICK H : H = Hiccups(s, U) /\ H = {}
      BY <2>1
    <3> QED BY <3>1, <3>2 DEF SsrfAnswers, Probe
  <2>3. Of("timing1") = Answer(200, {"slow"})
    <3>1. PICK U : /\ Known(P, L, Probe("timing1", t), U)
                   /\ SsrfWanted(s, U, Probe("timing1", t)) => Of("timing1") \in SsrfAnswers(s, U, Probe("timing1", t))
      BY <1>5
    <3>2. Got(U, Probe("timing-base", t)) = Of("timing-base")
      BY <3>1, SsrfOrder DEF Known
    <3>3. SsrfWanted(s, U, Probe("timing1", t))
      BY <3>2, <2>2 DEF SsrfWanted, Answered, Probe, Answer
    <3>4. PICK H : H = Hiccups(s, U) /\ H = {}
      BY <2>1
    <3> QED BY <3>1, <3>3, <3>4, <1>9 DEF SsrfAnswers, Probe
  <2>4. Of("timing2") = Answer(200, {"slow"})
    <3>1. PICK U : /\ Known(P, L, Probe("timing2", t), U)
                   /\ SsrfWanted(s, U, Probe("timing2", t)) => Of("timing2") \in SsrfAnswers(s, U, Probe("timing2", t))
      BY <1>5
    <3>2. Got(U, Probe("timing1", t)) = Of("timing1")
      BY <3>1, SsrfOrder DEF Known
    <3>3. SsrfWanted(s, U, Probe("timing2", t))
      BY <3>2, <2>3 DEF SsrfWanted, Answered, Probe, Answer
    <3>4. PICK H : H = Hiccups(s, U) /\ H = {}
      BY <2>1
    <3> QED BY <3>1, <3>3, <3>4, <1>9 DEF SsrfAnswers, Probe
  <2>5. FetchBlocks(L, t)
    BY <2>2, <2>3, <2>4 DEF FetchBlocks, Shows, Answer
  <2> QED BY <2>5, <1>4
<1> QED BY <1>7, <1>8, <1>9

-----------------------------------------------------------------------------
(* A check that could send everything it wanted and was answered every time  *)
(* finds each flaw it is for, whatever the endpoint, its parameters and the  *)
(* other traits of the target (FlawsAreFound, the early returns and breaks   *)
(* of the checks): no answer sends a check past a request that would have    *)
(* told.                                                                     *)
THEOREM AnsweredChecksFindFlaws == Spec => []FlawsAreFound
<1>1. PInv => FlawsAreFound
  <2> SUFFICES ASSUME PInv, NEW c \in Running, Done(c), scene.traits \cap Hides = {},
                      \A p \in DOMAIN log[c] : Answered(log[c], p),
                      NEW t \in scene.traits \cap FlawsOf(c.check), LooksFor(c, t)
               PROVE  Tells(c, t)
    BY DEF FlawsAreFound
  <2>1. Thorough(scene, c, plan[c], log[c]) /\ found[c] = FindingsOf(scene, c, log[c])
    BY DoneThorough, DoneReports
  <2>2. plan[c] = Plan(scene, c, c \in sweeps)
    BY DoneReports
  <2>3. IsScene(scene) /\ c.check \in ActiveTier \cup PassiveTier
    BY SceneIs DEF PInv
  <2>4. Has(scene, t) /\ t \in FlawsOf(c.check) /\ \A h \in Hides : ~Has(scene, h)
    BY DEF Has
  <2>5. Telling(scene, c, log[c], found[c], t) => Tells(c, t)
    BY DEF Telling, Tells, Rules
  <2>6. PICK P, L, R : P = plan[c] /\ L = log[c] /\ R = found[c]
    OBVIOUS
  <2>7. PICK s : s = scene
    OBVIOUS
  <2>8. Thorough(s, c, P, L) /\ R = FindingsOf(s, c, L) /\ IsScene(s)
    BY <2>1, <2>3, <2>6, <2>7
  <2>9. Telling(s, c, L, R, t)
    <3>1. CASE c.check = "injection"
      <4>1. P = InjectionPlan(s) /\ R = InjectionFindings(s, L)
        BY <3>1, <2>2, <2>6, <2>7, <2>8 DEF Plan, FindingsOf
      <4>2. t \in {"sqliTime", "sqliError", "sqliBool", "cmdi", "crlf"} /\ Has(s, t) /\ ~Has(s, "laggy") /\ ~Has(s, "dynamic")
        BY <3>1, <2>4, <2>7 DEF FlawsOf, Hides
      <4>3. t = "crlf" => \/ \E i \in DOMAIN s.targets : s.targets[i].at = "query"
                         \/ ~\E i \in DOMAIN s.targets : Sendable(s, s.targets[i])
        BY <3>1, <2>7 DEF LooksFor
      <4> QED BY <3>1, <4>1, <4>2, <4>3, <2>8, InjectionsAreFound
    <3>2. CASE c.check = "xss"
      <4>1. P = XssPlan(s) /\ R = XssFindings(s, L)
        BY <3>2, <2>2, <2>6, <2>7, <2>8 DEF Plan, FindingsOf
      <4>2. t = "xssRaw"
        BY <3>2, <2>4, <2>7 DEF FlawsOf, Hides
      <4> QED BY <3>2, <4>1, <4>2, <2>8, XssIsFound
    <3>3. CASE c.check = "open-redirect"
      <4>1. P = RedirectPlan(s) /\ R = RedirectFindings(L)
        BY <3>3, <2>2, <2>6, <2>7, <2>8 DEF Plan, FindingsOf
      <4>2. t \in {"redirOpen", "redirSuffix", "redirScheme"} /\ Has(s, t)
        BY <3>3, <2>4, <2>7 DEF FlawsOf, Hides
      <4> QED BY <3>3, <4>1, <4>2, <2>8, RedirectsAreFound
    <3>4. CASE c.check = "ssrf"
      <4>1. P = SsrfPlan(s) /\ R = SsrfFindings(s, L)
        BY <3>4, <2>2, <2>6, <2>7, <2>8 DEF Plan, FindingsOf
      <4>2. t \in {"ssrfLeak", "ssrfForward", "ssrfBlocks"} /\ Has(s, t) /\ ~Has(s, "laggy") /\ ~Has(s, "down")
        BY <3>4, <2>4, <2>7 DEF FlawsOf, Hides
      <4>3. \E i \in DOMAIN s.targets : s.targets[i].url /\ Sendable(s, s.targets[i])
        BY <3>4, <2>7 DEF LooksFor
      <4>4. IsScene(s) /\ Thorough(s, c, P, L)
        BY <2>8
      <4>5. Telling(s, c, L, SsrfFindings(s, L), t)
        BY <3>4, <4>1, <4>2, <4>3, <4>4, SsrfIsFound, ZenonT(40)
      <4> QED BY <4>1, <4>5
    <3>5. CASE c.check = "host-header"
      <4>1. P = HostHeaderPlan(s) /\ R = HostHeaderFindings(L)
        BY <3>5, <2>2, <2>6, <2>7, <2>8 DEF Plan, FindingsOf
      <4>2. t \in {"hhRedirect", "hhLink"} /\ Has(s, t) /\ ~Has(s, "absent") /\ ~Has(s, "mention")
        BY <3>5, <2>4, <2>7 DEF FlawsOf, Hides
      <4> QED BY <3>5, <4>1, <4>2, <2>8, HostHeaderIsFound
    <3>6. CASE c.check = "graphql"
      <4>1. PICK sweep : sweep = (c \in sweeps)
        OBVIOUS
      <4>2. P = GraphqlPlan(s, c.ep, sweep)
        BY <3>6, <4>1, <2>2, <2>6, <2>7 DEF Plan
      <4>3. sweep
        BY <3>6, <4>1 DEF LooksFor
      <4>4. R = GraphqlFindings(L) /\ t = "introspects" /\ Has(s, "introspects")
        BY <3>6, <2>4, <2>7, <2>8 DEF FindingsOf, FlawsOf
      <4> QED BY <3>6, <4>2, <4>3, <4>4, <2>8, GraphqlIsFound
    <3>7. CASE c.check = "method-tamper"
      <4>1. P = MethodTamperPlan(s) /\ R = MethodTamperFindings(L)
        BY <3>7, <2>2, <2>6, <2>7, <2>8 DEF Plan, FindingsOf
      <4>2. t \in {"verbHole", "writable", "traces"} /\ Has(s, t) /\ ~Has(s, "catchAll")
        BY <3>7, <2>4, <2>7 DEF FlawsOf, Hides
      <4> QED BY <3>7, <4>1, <4>2, <2>8, MethodTamperIsFound
    <3>8. CASE c.check = "auth"
      <4>1. P = AuthPlan(s) /\ R = AuthFindings(s, L)
        BY <3>8, <2>2, <2>6, <2>7, <2>8 DEF Plan, FindingsOf
      <4>2. t \in {"open", "anyToken", "noExpiry", "algNone"} /\ Has(s, t) /\ ~Has(s, "gone")
        BY <3>8, <2>4, <2>7 DEF FlawsOf, Hides
      <4>3. HasAuth(s) /\ (t # "open" => IsJwtAuth(s))
        BY <3>8, <2>7 DEF LooksFor
      <4> QED BY <3>8, <4>1, <4>2, <4>3, <2>8, AuthIsFound
    <3>9. CASE c.check = "idor"
      <4>1. P = IdorPlan(s) /\ R = IdorFindings(s, L)
        BY <3>9, <2>2, <2>6, <2>7, <2>8 DEF Plan, FindingsOf
      <4>2. t = "noOwner" /\ Has(s, "noOwner") /\ ~Has(s, "empty")
        BY <3>9, <2>4, <2>7 DEF FlawsOf, Hides
      <4>3. HasAuth(s) /\ s.user2
        BY <3>9, <2>7 DEF LooksFor
      <4> QED BY <3>9, <4>1, <4>2, <4>3, <2>8, IdorIsFound
    <3>10. CASE c.check = "configleak"
      <4>1. P = ConfigLeakPlan(s) /\ R = ConfigLeakFindings(L)
        BY <3>10, <2>2, <2>6, <2>7, <2>8 DEF Plan, FindingsOf
      <4>2. t = "leaks" /\ Has(s, "leaks")
        BY <3>10, <2>4, <2>7 DEF FlawsOf, Hides
      <4>3. s.leakPath
        BY <3>10, <2>7 DEF LooksFor
      <4> QED BY <3>10, <4>1, <4>2, <4>3, <2>8, ConfigLeakIsFound
    <3>11. CASE c.check \in {"headers", "cors", "exposure", "ratelimit", "cookie-flags"}
      BY <3>11, <2>4 DEF FlawsOf
    <3> QED BY <2>3, <3>1, <3>2, <3>3, <3>4, <3>5, <3>6, <3>7, <3>8, <3>9, <3>10, <3>11 DEF ActiveTier, PassiveTier
  <2> QED BY <2>5, <2>6, <2>7, <2>9
<1> QED BY <1>1, PInvHolds, PTL
=============================================================================
