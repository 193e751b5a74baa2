----------------------------- MODULE FilterProofs -----------------------------
(***************************************************************************)
(* What Filter returns, for any sequence and any positions.  Induction is  *)
(* by the least number that breaks the claim.                              *)
(***************************************************************************)
EXTENDS Filters, WellFoundedInduction, TLAPS

LEMMA Downwards == IsWellFoundedOn({p \in Nat \X Nat : p[1] < p[2]}, Nat)
BY NatLessThanWellFounded DEF OpToRel

\* The least of some natural numbers.
LEMMA Least ==
    ASSUME NEW S, S \subseteq Nat, S # {}
    PROVE  \E m \in S: \A n \in S: m <= n
<1>1. PICK m \in S: \A y \in S: ~(<<y, m>> \in {p \in Nat \X Nat : p[1] < p[2]})
  BY WFMin, Downwards
<1>2. \A y \in S: ~(y < m)
  <2> SUFFICES ASSUME NEW y \in S, y < m PROVE FALSE
    OBVIOUS
  <2>1. y \in Nat /\ m \in Nat
    OBVIOUS
  <2> QED
    BY <1>1, <2>1
<1> QED
  BY <1>2

FilterStep(s, K, g, n) == IF n = 0 THEN <<>> ELSE IF n \in K THEN Append(g[n - 1], s[n]) ELSE g[n - 1]

LEMMA FilterSteps ==
    ASSUME NEW s, Len(s) \in Nat, NEW K
    PROVE  FilterUpTo(s, K) = [n \in 0..Len(s) |-> FilterStep(s, K, FilterUpTo(s, K), n)]
<1> DEFINE Good(n) == \E g: g = [i \in 0..n |-> FilterStep(s, K, g, i)]
           Bad == {n \in Nat: ~Good(n)}
<1>1. Good(0)
  <2> DEFINE g == [i \in 0..0 |-> <<>>]
  <2>1. g = [i \in 0..0 |-> FilterStep(s, K, g, i)]
    BY DEF FilterStep
  <2> QED
    BY <2>1
<1>2. ASSUME NEW n \in Nat, Good(n) PROVE Good(n + 1)
  <2>1. PICK g: g = [i \in 0..n |-> FilterStep(s, K, g, i)]
    BY <1>2
  <2> DEFINE h == [i \in 0..n + 1 |-> IF i = n + 1 THEN FilterStep(s, K, g, n + 1) ELSE g[i]]
  <2>2. \A i \in 0..n + 1: FilterStep(s, K, h, i) = FilterStep(s, K, g, i)
    BY DEF FilterStep
  <2>3. \A i \in 0..n: g[i] = FilterStep(s, K, g, i)
    BY <2>1
  <2>4. \A i \in 0..n + 1: h[i] = FilterStep(s, K, h, i)
    BY <2>2, <2>3
  <2>5. h = [i \in 0..n + 1 |-> FilterStep(s, K, h, i)]
    BY <2>4
  <2> QED
    BY <2>5
<1>3. Bad = {}
  <2> SUFFICES ASSUME Bad # {} PROVE FALSE
    OBVIOUS
  <2>1. PICK m \in Bad: \A n \in Bad: m <= n
    BY Least
  <2> HIDE DEF Good
  <2>2. m # 0 /\ m - 1 \in Nat /\ m - 1 \notin Bad
    BY <1>1, <2>1
  <2> QED
    BY <1>2, <2>2
<1>4. PICK g: g = [i \in 0..Len(s) |-> FilterStep(s, K, g, i)]
  BY <1>3
<1>5. FilterUpTo(s, K) = CHOOSE f: f = [n \in 0..Len(s) |-> FilterStep(s, K, f, n)]
  BY DEF FilterUpTo, FilterStep
<1> QED
  BY <1>4, <1>5

\* Where the elements of t stood among the first n of s.
Places(t, s, K, n, p) ==
    /\ p \in [1..Len(t) -> 1..n]
    /\ \A i, j \in 1..Len(t): i < j => p[i] < p[j]
    /\ \A j \in 1..Len(t): p[j] \in K /\ t[j] = s[p[j]]
    /\ \A k \in K \cap (1..n): \E j \in 1..Len(t): p[j] = k

LEMMA PlacesGrow ==
    ASSUME NEW S, NEW s \in Seq(S), NEW K, NEW t \in Seq(S), NEW i \in 1..Len(s), i \in K,
           NEW p, Places(t, s, K, i - 1, p)
    PROVE  Append(t, s[i]) \in Seq(S) /\ \E q: Places(Append(t, s[i]), s, K, i, q)
<1> DEFINE u == Append(t, s[i])
           q == [j \in 1..Len(t) + 1 |-> IF j = Len(t) + 1 THEN i ELSE p[j]]
<1>1. s[i] \in S /\ Len(t) \in Nat /\ i \in Nat
  OBVIOUS
<1>2. /\ u \in Seq(S) /\ Len(u) = Len(t) + 1 /\ u[Len(t) + 1] = s[i]
      /\ \A j \in 1..Len(t): u[j] = t[j]
  BY <1>1
<1>3. \A j \in 1..Len(t): p[j] \in 1..i - 1 /\ q[j] = p[j]
  BY <1>1 DEF Places
<1>4. q[Len(t) + 1] = i
  BY <1>1
<1> HIDE DEF u
<1>5. q \in [1..Len(u) -> 1..i]
  <2>1. ASSUME NEW j \in 1..Len(t) + 1 PROVE q[j] \in 1..i
    <3>1. CASE j = Len(t) + 1
      BY <1>1, <1>4, <3>1
    <3>2. CASE j # Len(t) + 1
      <4>1. j \in 1..Len(t)
        BY <1>1, <3>2
      <4>2. q[j] = p[j] /\ p[j] \in 1..i - 1
        BY <1>3, <4>1
      <4> HIDE DEF q
      <4> QED
        BY <1>1, <4>2
    <3> QED
      BY <3>1, <3>2
  <2> QED
    BY <1>2, <2>1
<1> HIDE DEF q
<1>6. ASSUME NEW h \in 1..Len(u), NEW j \in 1..Len(u), h < j PROVE q[h] < q[j]
  <2>1. h \in 1..Len(t)
    BY <1>1, <1>2, <1>6
  <2>2. CASE j = Len(t) + 1
    BY <1>1, <1>3, <1>4, <2>1, <2>2
  <2>3. CASE j # Len(t) + 1
    <3>1. j \in 1..Len(t)
      BY <1>1, <1>2, <2>3
    <3> QED
      BY <1>3, <1>6, <2>1, <3>1 DEF Places
  <2> QED
    BY <2>2, <2>3
<1>7. ASSUME NEW j \in 1..Len(u) PROVE q[j] \in K /\ u[j] = s[q[j]]
  <2>1. CASE j = Len(t) + 1
    BY <1>2, <1>4, <2>1
  <2>2. CASE j # Len(t) + 1
    <3>1. j \in 1..Len(t)
      BY <1>1, <1>2, <2>2
    <3>2. p[j] \in K /\ t[j] = s[p[j]]
      BY <3>1 DEF Places
    <3> QED
      BY <1>2, <1>3, <3>1, <3>2
  <2> QED
    BY <2>1, <2>2
<1>8. ASSUME NEW k \in K \cap (1..i) PROVE \E j \in 1..Len(u): q[j] = k
  <2>1. CASE k = i
    BY <1>1, <1>2, <1>4, <2>1
  <2>2. CASE k # i
    <3>1. k \in K \cap (1..i - 1)
      BY <1>1, <2>2
    <3>2. PICK j \in 1..Len(t): p[j] = k
      BY <3>1 DEF Places
    <3> QED
      BY <1>1, <1>2, <1>3, <3>2
  <2> QED
    BY <2>1, <2>2
<1>9. Places(u, s, K, i, q)
  BY <1>5, <1>6, <1>7, <1>8 DEF Places
<1> QED
  BY <1>2, <1>9 DEF u

LEMMA PlacesStay ==
    ASSUME NEW s, NEW K, NEW t, NEW i \in Nat, i \notin K, NEW p, Places(t, s, K, i - 1, p)
    PROVE  Places(t, s, K, i, p)
<1>1. K \cap (1..i) = K \cap (1..i - 1) /\ 1..i - 1 \subseteq 1..i
  OBVIOUS
<1> QED
  BY <1>1 DEF Places

LEMMA FilterUpToPlaces ==
    ASSUME NEW S, NEW s \in Seq(S), NEW K, NEW n \in 0..Len(s)
    PROVE  FilterUpTo(s, K)[n] \in Seq(S) /\ \E p: Places(FilterUpTo(s, K)[n], s, K, n, p)
<1> DEFINE F == FilterUpTo(s, K)
           Good(i) == F[i] \in Seq(S) /\ \E p: Places(F[i], s, K, i, p)
           Bad == {i \in 0..Len(s): ~Good(i)}
<1>1. Len(s) \in Nat
  OBVIOUS
<1>2. \A i \in 0..Len(s): F[i] = FilterStep(s, K, F, i)
  BY <1>1, FilterSteps
<1> HIDE DEF F
<1>3. Good(0)
  <2>1. F[0] = <<>> /\ Len(<<>>) = 0 /\ <<>> \in Seq(S)
    BY <1>1, <1>2 DEF FilterStep
  <2>2. 1..0 = {}
    OBVIOUS
  <2>3. Places(<<>>, s, K, 0, [i \in {} |-> 0])
    BY <2>1, <2>2 DEF Places
  <2> QED
    BY <2>1, <2>3
<1>4. ASSUME NEW i \in 1..Len(s), Good(i - 1) PROVE Good(i)
  <2>1. i \in Nat /\ i # 0 /\ i \in 0..Len(s)
    BY <1>1
  <2>2. F[i] = FilterStep(s, K, F, i)
    BY <1>2, <2>1
  <2>3. F[i - 1] \in Seq(S)
    BY <1>4
  <2>4. PICK p: Places(F[i - 1], s, K, i - 1, p)
    BY <1>4
  <2>5. CASE i \in K
    <3>1. F[i] = Append(F[i - 1], s[i])
      BY <2>1, <2>2, <2>5 DEF FilterStep
    <3>2. F[i] \in Seq(S) /\ \E q: Places(F[i], s, K, i, q)
      BY <2>3, <2>4, <2>5, <3>1, PlacesGrow
    <3> QED
      BY <3>2
  <2>6. CASE i \notin K
    <3>1. F[i] = F[i - 1]
      BY <2>1, <2>2, <2>6 DEF FilterStep
    <3>2. Places(F[i], s, K, i, p)
      BY <2>1, <2>4, <2>6, <3>1, PlacesStay
    <3> QED
      BY <2>3, <3>1, <3>2
  <2> QED
    BY <2>5, <2>6
<1>5. Bad = {}
  <2> SUFFICES ASSUME Bad # {} PROVE FALSE
    OBVIOUS
  <2>1. PICK m \in Bad: \A i \in Bad: m <= i
    <3>1. Bad \subseteq Nat
      BY <1>1
    <3> HIDE DEF Bad
    <3> QED
      BY <3>1, Least
  <2> HIDE DEF Good
  <2>2. m # 0 /\ m - 1 \in 0..Len(s) /\ m - 1 \notin Bad /\ m \in 1..Len(s)
    BY <1>1, <1>3, <2>1
  <2> QED
    BY <1>4, <2>2
<1> QED
  BY <1>5 DEF F

\* The elements at the positions K, each once and in their order.
LEMMA FilterPlaces ==
    ASSUME NEW S, NEW s \in Seq(S), NEW K
    PROVE  Filter(s, K) \in Seq(S) /\ \E p: Places(Filter(s, K), s, K, Len(s), p)
<1>1. Len(s) \in 0..Len(s)
  OBVIOUS
<1> QED
  BY <1>1, FilterUpToPlaces DEF Filter

\* No more elements than there were.
LEMMA FilterShorter ==
    ASSUME NEW S, NEW s \in Seq(S), NEW K
    PROVE  Len(Filter(s, K)) \in 0..Len(s)
<1> DEFINE F == FilterUpTo(s, K)
           Bad == {i \in 0..Len(s): Len(F[i]) > i}
<1>1. Len(s) \in Nat
  OBVIOUS
<1>2. \A i \in 0..Len(s): F[i] = FilterStep(s, K, F, i)
  BY <1>1, FilterSteps
<1>3. \A i \in 0..Len(s): F[i] \in Seq(S) /\ Len(F[i]) \in Nat
  BY FilterUpToPlaces
<1> HIDE DEF F
<1>4. Len(F[0]) = 0
  BY <1>1, <1>2 DEF FilterStep
<1>5. ASSUME NEW i \in 1..Len(s) PROVE Len(F[i]) <= Len(F[i - 1]) + 1
  <2>1. i \in 0..Len(s) /\ i - 1 \in 0..Len(s) /\ i # 0 /\ s[i] \in S
    BY <1>1
  <2>2. F[i] = F[i - 1] \/ F[i] = Append(F[i - 1], s[i])
    BY <1>2, <2>1 DEF FilterStep
  <2> QED
    BY <1>3, <2>1, <2>2
<1>6. Bad = {}
  <2> SUFFICES ASSUME Bad # {} PROVE FALSE
    OBVIOUS
  <2>1. PICK m \in Bad: \A i \in Bad: m <= i
    <3>1. Bad \subseteq Nat
      BY <1>1
    <3> HIDE DEF Bad
    <3> QED
      BY <3>1, Least
  <2>2. m # 0 /\ m \in 1..Len(s)
    BY <1>1, <1>4, <2>1
  <2>3. m - 1 \in 0..Len(s) /\ m - 1 \notin Bad
    BY <1>1, <2>1, <2>2
  <2> QED
    BY <1>1, <1>3, <1>5, <2>1, <2>2, <2>3
<1>7. Len(s) \in 0..Len(s)
  BY <1>1
<1> QED
  BY <1>1, <1>3, <1>6, <1>7 DEF Filter, F

\* Element by element, the image of a filtered sequence is the filtered image.
LEMMA FilterMaps ==
    ASSUME NEW S, NEW s \in Seq(S), NEW K, NEW T, NEW m \in [S -> T],
           NEW r \in Seq(T), Len(r) = Len(s), \A i \in 1..Len(s): r[i] = m[s[i]]
    PROVE  /\ Filter(r, K) \in Seq(T) /\ Len(Filter(r, K)) = Len(Filter(s, K))
           /\ \A j \in 1..Len(Filter(s, K)): Filter(r, K)[j] = m[Filter(s, K)[j]]
<1> DEFINE F == FilterUpTo(s, K)
           G == FilterUpTo(r, K)
           Good(i) == /\ F[i] \in Seq(S) /\ G[i] \in Seq(T) /\ Len(G[i]) = Len(F[i])
                      /\ \A j \in 1..Len(F[i]): G[i][j] = m[F[i][j]]
           Bad == {i \in 0..Len(s): ~Good(i)}
<1>1. Len(s) \in Nat
  OBVIOUS
<1>2. \A i \in 0..Len(s): F[i] = FilterStep(s, K, F, i) /\ G[i] = FilterStep(r, K, G, i)
  BY <1>1, FilterSteps
<1> HIDE DEF F, G
<1>3. Good(0)
  <2>1. F[0] = <<>> /\ G[0] = <<>>
    BY <1>1, <1>2 DEF FilterStep
  <2>2. Len(<<>>) = 0 /\ <<>> \in Seq(S) /\ <<>> \in Seq(T)
    OBVIOUS
  <2> QED
    BY <2>1, <2>2
<1>4. ASSUME NEW i \in 1..Len(s), Good(i - 1) PROVE Good(i)
  <2>1. i \in Nat /\ i # 0 /\ i \in 0..Len(s)
    BY <1>1
  <2>2. F[i] = FilterStep(s, K, F, i) /\ G[i] = FilterStep(r, K, G, i)
    BY <1>2, <2>1
  <2>3. CASE i \in K
    <3>1. F[i] = Append(F[i - 1], s[i]) /\ G[i] = Append(G[i - 1], r[i])
      BY <2>1, <2>2, <2>3 DEF FilterStep
    <3>2. s[i] \in S /\ r[i] = m[s[i]] /\ r[i] \in T
      OBVIOUS
    <3>3. F[i - 1] \in Seq(S) /\ G[i - 1] \in Seq(T)
      BY <1>4
    <3>4. /\ Append(F[i - 1], s[i]) \in Seq(S) /\ Len(Append(F[i - 1], s[i])) = Len(F[i - 1]) + 1
          /\ Append(F[i - 1], s[i])[Len(F[i - 1]) + 1] = s[i]
          /\ \A j \in 1..Len(F[i - 1]): Append(F[i - 1], s[i])[j] = F[i - 1][j]
      BY <3>2, <3>3
    <3>5. /\ Append(G[i - 1], r[i]) \in Seq(T) /\ Len(Append(G[i - 1], r[i])) = Len(G[i - 1]) + 1
          /\ Append(G[i - 1], r[i])[Len(G[i - 1]) + 1] = r[i]
          /\ \A j \in 1..Len(G[i - 1]): Append(G[i - 1], r[i])[j] = G[i - 1][j]
      BY <3>2, <3>3
    <3>6. Len(F[i - 1]) \in Nat /\ Len(G[i - 1]) = Len(F[i - 1])
      BY <1>4, <3>3
    <3>7. ASSUME NEW j \in 1..Len(F[i - 1]) + 1 PROVE Append(G[i - 1], r[i])[j] = m[Append(F[i - 1], s[i])[j]]
      <4>1. CASE j = Len(F[i - 1]) + 1
        BY <3>2, <3>4, <3>5, <3>6, <4>1
      <4>2. CASE j # Len(F[i - 1]) + 1
        <5>1. j \in 1..Len(F[i - 1])
          BY <3>6, <4>2
        <5>2. G[i - 1][j] = m[F[i - 1][j]]
          BY <1>4, <5>1
        <5> QED
          BY <3>4, <3>5, <3>6, <5>1, <5>2
      <4> QED
        BY <4>1, <4>2
    <3> QED
      BY <3>1, <3>4, <3>5, <3>6, <3>7
  <2>4. CASE i \notin K
    <3>1. F[i] = F[i - 1] /\ G[i] = G[i - 1]
      BY <2>1, <2>2, <2>4 DEF FilterStep
    <3> QED
      BY <1>4, <3>1
  <2> QED
    BY <2>3, <2>4
<1>5. Bad = {}
  <2> SUFFICES ASSUME Bad # {} PROVE FALSE
    OBVIOUS
  <2>1. PICK n \in Bad: \A i \in Bad: n <= i
    <3>1. Bad \subseteq Nat
      BY <1>1
    <3> HIDE DEF Bad
    <3> QED
      BY <3>1, Least
  <2> HIDE DEF Good
  <2>2. n # 0 /\ n - 1 \in 0..Len(s) /\ n - 1 \notin Bad /\ n \in 1..Len(s)
    BY <1>1, <1>3, <2>1
  <2> QED
    BY <1>4, <2>2
<1>6. Good(Len(s))
  BY <1>1, <1>5
<1> QED
  BY <1>6 DEF F, G, Filter
=============================================================================
