----------------------------- MODULE NaturalFacts -----------------------------
(***************************************************************************)
(* Facts about the naturals that the proofs of several components need:    *)
(* every set of them has a least member, a range has as many members as it *)
(* says, and a function defined by recursion exists and is what its        *)
(* equations say.                                                          *)
(***************************************************************************)
EXTENDS PrefixSums, FiniteSets, FiniteSetTheorems, WellFoundedInduction, TLAPS

\* Induction is used in the form of a least counterexample.
LEMMA LeastMember ==
  ASSUME NEW S \in SUBSET Nat, S # {}
  PROVE  \E m \in S : \A i \in S : m <= i
<1>1. PICK m \in S : \A i \in S : ~(<<i, m>> \in OpToRel(<, Nat))
  BY NatLessThanWellFounded, WFMin
<1>2. ASSUME NEW i \in S PROVE m <= i
  <2>1. ~(i < m)
    BY <1>1 DEF OpToRel
  <2> QED BY <2>1
<1> QED BY <1>2

\* The numbers up to n are n.
LEMMA CountingTo ==
  ASSUME NEW n \in Nat
  PROVE  IsFiniteSet(1 .. n) /\ Cardinality(1 .. n) = n
<1>1. CASE n = 0
  <2>1. 1 .. n = {}
    BY <1>1
  <2> QED BY <1>1, <2>1, FS_EmptySet
<1>2. CASE n # 0
  <2>1. 1 \in Int /\ n \in Int /\ ~(1 > n) /\ n - 1 + 1 = n
    BY <1>2
  <2> QED BY <2>1, FS_Interval
<1> QED BY <1>1, <1>2

Iterates(at, D, d, F) ==
  /\ at \in [Nat -> D]
  /\ at[0] = d
  /\ \A k \in Nat : at[k + 1] = F[<<k, at[k]>>]

\* There is a function with a given first value and a given step.
LEMMA Recursion ==
  ASSUME NEW D, NEW d \in D, NEW F \in [Nat \X D -> D]
  PROVE  \E at : Iterates(at, D, d, F)
<1> DEFINE Ok(n, g) == g \in [0 .. n -> D] /\ g[0] = d /\ \A k \in 0 .. n - 1 : g[k + 1] = F[<<k, g[k]>>]
           Bad == {n \in Nat : ~\E g : Ok(n, g)}
<1>1. Bad = {}
  <2> SUFFICES ASSUME Bad # {} PROVE FALSE
    OBVIOUS
  <2>2. PICK m \in Bad : \A y \in Bad : m <= y
    <3>1. Bad \in SUBSET Nat
      OBVIOUS
    <3> HIDE DEF Bad
    <3> QED BY <3>1, LeastMember
  <2>3. m # 0
    <3>1. Ok(0, [k \in 0 .. 0 |-> d])
      OBVIOUS
    <3> QED BY <3>1
  <2>4. m - 1 \in Nat /\ m \in Nat
    BY <2>3
  <2>5. m - 1 \notin Bad
    <3>1. ~(m <= m - 1)
      BY <2>4
    <3> HIDE DEF Bad
    <3> QED BY <2>2, <3>1
  <2>6. PICK g : Ok(m - 1, g)
    BY <2>4, <2>5
  <2> DEFINE h == [k \in 0 .. m |-> IF k = m THEN F[<<m - 1, g[m - 1]>>] ELSE g[k]]
  <2>7. Ok(m, h)
    <3>1. /\ g \in [0 .. m - 1 -> D] /\ g[0] = d
          /\ \A k \in 0 .. m - 2 : g[k + 1] = F[<<k, g[k]>>]
      BY <2>4, <2>6
    <3>2. \A k \in 0 .. m : k = m \/ k \in 0 .. m - 1
      BY <2>4
    <3>3. m - 1 \in 0 .. m - 1 /\ g[m - 1] \in D
      BY <2>4, <3>1
    <3>4. h \in [0 .. m -> D]
      BY <3>1, <3>2, <3>3, <2>4
    <3>5. h[0] = d
      BY <2>3, <2>4, <3>1
    <3>6. ASSUME NEW k \in 0 .. m - 1 PROVE h[k + 1] = F[<<k, h[k]>>]
      <4>1. k # m /\ k + 1 \in 0 .. m /\ k \in 0 .. m /\ h[k] = g[k]
        BY <2>4
      <4>2. CASE k = m - 1
        BY <4>1, <4>2, <2>4
      <4>3. CASE k # m - 1
        <5>1. k \in 0 .. m - 2 /\ k + 1 # m
          BY <2>4, <4>3
        <5> QED BY <5>1, <3>1, <4>1
      <4> QED BY <4>2, <4>3
    <3> HIDE DEF h
    <3> QED BY <3>4, <3>5, <3>6
  <2> QED BY <2>2, <2>7
<1>2. \A n \in Nat : \E g : Ok(n, g)
  BY <1>1
<1> DEFINE G == [n \in Nat |-> CHOOSE g : Ok(n, g)]
<1>3. \A n \in Nat : Ok(n, G[n])
  <2> HIDE DEF Ok
  <2> QED BY <1>2
<1>4. ASSUME NEW n \in Nat, NEW m \in Nat, n <= m, NEW k \in 0 .. n
      PROVE  G[n][k] = G[m][k]
  <2> DEFINE Differ == {j \in 0 .. n : G[n][j] # G[m][j]}
  <2> SUFFICES ASSUME Differ # {} PROVE FALSE
    OBVIOUS
  <2>1. PICK x \in Differ : \A y \in Differ : x <= y
    <3>1. Differ \in SUBSET Nat
      OBVIOUS
    <3> HIDE DEF Differ
    <3> QED BY <3>1, LeastMember
  <2>2. Ok(n, G[n]) /\ Ok(m, G[m])
    BY <1>3
  <2> HIDE DEF G
  <2>3. x # 0
    BY <2>2
  <2>4. x - 1 \in 0 .. n - 1 /\ x - 1 \in 0 .. m - 1 /\ x - 1 \in Nat /\ x \in Nat
    <3>1. x \in 0 .. n
      OBVIOUS
    <3> HIDE DEF Differ
    <3> QED BY <2>3, <3>1, <1>4
  <2>5. x - 1 \notin Differ
    <3>1. ~(x <= x - 1)
      BY <2>4
    <3> HIDE DEF Differ
    <3> QED BY <2>1, <3>1
  <2>6. G[n][x - 1] = G[m][x - 1]
    BY <2>4, <2>5
  <2>7. G[n][(x - 1) + 1] = F[<<x - 1, G[n][x - 1]>>] /\ G[m][(x - 1) + 1] = F[<<x - 1, G[m][x - 1]>>]
    BY <2>2, <2>4
  <2>8. (x - 1) + 1 = x
    BY <2>4
  <2> QED BY <2>6, <2>7, <2>8
<1> DEFINE at == [n \in Nat |-> G[n][n]]
<1>5. at \in [Nat -> D] /\ at[0] = d
  <2> HIDE DEF G
  <2> QED BY <1>3
<1>7. ASSUME NEW k \in Nat PROVE at[k + 1] = F[<<k, at[k]>>]
  <2>1. Ok(k + 1, G[k + 1])
    <3> HIDE DEF Ok, G
    <3> QED BY <1>3
  <2>2. k \in 0 .. (k + 1) - 1
    OBVIOUS
  <2>3. G[k + 1][k + 1] = F[<<k, G[k + 1][k]>>]
    <3> HIDE DEF G
    <3> QED BY <2>1, <2>2
  <2>4. G[k][k] = G[k + 1][k]
    <3>1. k <= k + 1 /\ k + 1 \in Nat /\ k \in 0 .. k
      OBVIOUS
    <3> HIDE DEF G
    <3> QED BY <1>4, <3>1
  <2> HIDE DEF G
  <2> QED BY <2>3, <2>4
<1> HIDE DEF at
<1> QED BY <1>5, <1>7 DEF Iterates

\* The same for a function up to n whose step does not depend on the place: there is
\* one that is what its equation says, and what else follows from the equation.
Iterated(f, d, G, n) == f = [k \in 0 .. n |-> IF k = 0 THEN d ELSE G[f[k - 1]]]

Follows(f, D, d, G, n) ==
  /\ f \in [0 .. n -> D] /\ f[0] = d
  /\ \A k \in 1 .. n : f[k] = G[f[k - 1]]

LEMMA Iteration ==
  ASSUME NEW D, NEW d \in D, NEW G \in [D -> D], NEW n \in Nat
  PROVE  /\ \E f : Iterated(f, d, G, n)
         /\ \A f : Iterated(f, d, G, n) => Follows(f, D, d, G, n)
<1> DEFINE F == [p \in Nat \X D |-> G[p[2]]]
<1>1. PICK at \in [Nat -> D] : at[0] = d /\ \A k \in Nat : at[k + 1] = F[<<k, at[k]>>]
  <2>1. F \in [Nat \X D -> D]
    OBVIOUS
  <2> HIDE DEF F
  <2>2. \E at : Iterates(at, D, d, F)
    BY <2>1, Recursion
  <2> QED BY <2>2 DEF Iterates
<1> DEFINE s == [k \in 0 .. n |-> at[k]]
<1>2. \A k \in 1 .. n : at[k] = G[at[k - 1]]
  <2> SUFFICES ASSUME NEW k \in 1 .. n PROVE at[k] = G[at[k - 1]]
    OBVIOUS
  <2>1. k - 1 \in Nat /\ (k - 1) + 1 = k
    OBVIOUS
  <2>2. at[k] = F[<<k - 1, at[k - 1]>>]
    BY <1>1, <2>1
  <2>3. at[k - 1] \in D
    BY <1>1, <2>1
  <2> QED BY <2>1, <2>2, <2>3
<1>3. Iterated(s, d, G, n)
  <2>1. ASSUME NEW k \in 0 .. n PROVE s[k] = IF k = 0 THEN d ELSE G[s[k - 1]]
    <3>1. k = 0 \/ (k \in 1 .. n /\ k - 1 \in 0 .. n)
      OBVIOUS
    <3> QED BY <1>1, <1>2, <3>1
  <2> QED BY <2>1 DEF Iterated
<1> HIDE DEF s
<1> SUFFICES ASSUME NEW f, Iterated(f, d, G, n) PROVE Follows(f, D, d, G, n)
  BY <1>3
<1>5. f = [k \in 0 .. n |-> IF k = 0 THEN d ELSE G[f[k - 1]]]
  BY DEF Iterated
<1>6. DOMAIN f = 0 .. n /\ f[0] = d /\ \A k \in 1 .. n : f[k] = G[f[k - 1]]
  <2>1. DOMAIN f = 0 .. n
    BY <1>5
  <2>2. f[0] = d
    <3>1. 0 \in 0 .. n
      OBVIOUS
    <3> QED BY <1>5, <3>1
  <2>3. ASSUME NEW k \in 1 .. n PROVE f[k] = G[f[k - 1]]
    <3>1. k \in 0 .. n /\ k # 0
      OBVIOUS
    <3> QED BY <1>5, <3>1
  <2> QED BY <2>1, <2>2, <2>3
<1>7. \A k \in 0 .. n : f[k] = at[k]
  <2> DEFINE Differ == {k \in 0 .. n : f[k] # at[k]}
  <2> SUFFICES ASSUME Differ # {} PROVE FALSE
    OBVIOUS
  <2>1. PICK x \in Differ : \A y \in Differ : x <= y
    <3>1. Differ \in SUBSET Nat
      OBVIOUS
    <3> HIDE DEF Differ
    <3> QED BY <3>1, LeastMember
  <2>2. x # 0
    BY <1>1, <1>6
  <2>3. x \in 1 .. n /\ x - 1 \in 0 .. n /\ ~(x <= x - 1)
    BY <2>2
  <2>4. x - 1 \notin Differ
    <3> HIDE DEF Differ
    <3> QED BY <2>1, <2>3
  <2>5. f[x - 1] = at[x - 1]
    BY <2>3, <2>4
  <2> QED BY <1>2, <1>6, <2>3, <2>5
<1>8. f = [k \in 0 .. n |-> f[k]]
  BY <1>5
<1>9. \A k \in 0 .. n : f[k] \in D
  BY <1>1, <1>7
<1> QED BY <1>6, <1>8, <1>9 DEF Follows

-----------------------------------------------------------------------------
(***************************************************************************)
(* Sums of sequences of numbers.                                           *)
(***************************************************************************)
\* Sums is what its equation says.
LEMMA SumsDef ==
  ASSUME NEW v \in Seq(Nat)
  PROVE  /\ Sums(v) \in [0 .. Len(v) -> Nat]
         /\ Sums(v)[0] = 0
         /\ \A k \in 1 .. Len(v) : Sums(v)[k] = Sums(v)[k - 1] + v[k]
<1> DEFINE n == Len(v)
           F == [p \in Nat \X Nat |-> IF p[1] + 1 \in 1 .. n THEN p[2] + v[p[1] + 1] ELSE 0]
<1>1. n \in Nat /\ \A k \in 1 .. n : v[k] \in Nat
  OBVIOUS
<1>2. F \in [Nat \X Nat -> Nat]
  BY <1>1
<1>3. PICK at \in [Nat -> Nat] : at[0] = 0 /\ \A k \in Nat : at[k + 1] = F[<<k, at[k]>>]
  <2> HIDE DEF F
  <2>1. 0 \in Nat
    OBVIOUS
  <2>2. \E at : Iterates(at, Nat, 0, F)
    BY <1>2, <2>1, Recursion
  <2> QED BY <2>2 DEF Iterates
<1> DEFINE s == [k \in 0 .. n |-> at[k]]
<1>4. \A k \in 1 .. n : at[k] = at[k - 1] + v[k]
  <2> SUFFICES ASSUME NEW k \in 1 .. n PROVE at[k] = at[k - 1] + v[k]
    OBVIOUS
  <2>1. k - 1 \in Nat /\ (k - 1) + 1 = k
    BY <1>1
  <2>2. at[k] = F[<<k - 1, at[k - 1]>>]
    BY <1>3, <2>1
  <2> QED BY <2>1, <2>2
<1>5. s = [k \in 0 .. n |-> IF k = 0 THEN 0 ELSE s[k - 1] + v[k]]
  <2>1. ASSUME NEW k \in 0 .. n PROVE s[k] = IF k = 0 THEN 0 ELSE s[k - 1] + v[k]
    <3>1. k = 0 \/ (k \in 1 .. n /\ k - 1 \in 0 .. n)
      BY <1>1
    <3> HIDE DEF n
    <3> QED BY <1>3, <1>4, <3>1
  <2> HIDE DEF n
  <2> QED BY <2>1
<1> DEFINE P(x) == x = [k \in 0 .. n |-> IF k = 0 THEN 0 ELSE x[k - 1] + v[k]]
<1>6. Sums(v) = CHOOSE x : P(x)
  BY DEF Sums
<1>7. P(Sums(v))
  <2>1. P(s)
    BY <1>5
  <2> HIDE DEF P, s
  <2> QED BY <1>6, <2>1
<1> DEFINE t == Sums(v)
<1>8. t = [k \in 0 .. n |-> IF k = 0 THEN 0 ELSE t[k - 1] + v[k]]
  BY <1>7
<1> HIDE DEF t
<1>9. DOMAIN t = 0 .. n /\ t[0] = 0 /\ \A k \in 1 .. n : t[k] = t[k - 1] + v[k]
  <2> HIDE DEF n
  <2>1. DOMAIN t = 0 .. n
    BY <1>8
  <2>2. t[0] = 0
    BY <1>8, <1>1
  <2>3. ASSUME NEW k \in 1 .. n PROVE t[k] = t[k - 1] + v[k]
    <3>1. k \in 0 .. n /\ k # 0
      BY <1>1
    <3> QED BY <1>8, <3>1
  <2> QED BY <2>1, <2>2, <2>3
<1>10. \A k \in 0 .. n : t[k] = at[k]
  <2> DEFINE Differ == {k \in 0 .. n : t[k] # at[k]}
  <2> SUFFICES ASSUME Differ # {} PROVE FALSE
    OBVIOUS
  <2>1. PICK x \in Differ : \A y \in Differ : x <= y
    <3>1. Differ \in SUBSET Nat
      OBVIOUS
    <3> HIDE DEF Differ
    <3> QED BY <3>1, LeastMember
  <2> HIDE DEF n
  <2>2. x # 0
    BY <1>3, <1>9
  <2>3. x \in 1 .. n /\ x - 1 \in 0 .. n /\ x - 1 \in Nat /\ x - 1 < x
    BY <1>1, <2>2
  <2>4. x - 1 \notin Differ
    <3>1. ~(x <= x - 1)
      BY <2>3
    <3> HIDE DEF Differ
    <3> QED BY <2>1, <3>1
  <2> QED BY <1>4, <1>9, <2>3, <2>4
<1>11. t \in [0 .. n -> Nat]
  <2> HIDE DEF n
  <2>1. t = [k \in 0 .. n |-> t[k]]
    BY <1>8
  <2>2. \A k \in 0 .. n : t[k] \in Nat
    BY <1>1, <1>3, <1>10
  <2> QED BY <2>1, <2>2
<1> QED BY <1>9, <1>11 DEF t

\* The sums of a beginning depend on that beginning only.
LEMMA SumsAgree ==
  ASSUME NEW v \in Seq(Nat), NEW w \in Seq(Nat), NEW m \in Nat, m <= Len(v), m <= Len(w),
         \A k \in 1 .. m : v[k] = w[k]
  PROVE  \A k \in 0 .. m : Sums(v)[k] = Sums(w)[k]
<1> DEFINE Differ == {k \in 0 .. m : Sums(v)[k] # Sums(w)[k]}
<1> SUFFICES ASSUME Differ # {} PROVE FALSE
  OBVIOUS
<1>1. Differ \in SUBSET Nat
  OBVIOUS
<1>2. PICK x \in Differ : \A y \in Differ : x <= y
  <2> HIDE DEF Differ
  <2> QED BY <1>1, LeastMember
<1>3. x # 0
  BY SumsDef
<1>4. x \in 1 .. m /\ x - 1 \in 0 .. m /\ ~(x <= x - 1) /\ x \in 1 .. Len(v) /\ x \in 1 .. Len(w)
  <2>1. x \in 0 .. m /\ Len(v) \in Nat /\ Len(w) \in Nat
    OBVIOUS
  <2> HIDE DEF Differ
  <2> QED BY <1>3, <2>1
<1>5. x - 1 \notin Differ
  <2> HIDE DEF Differ
  <2> QED BY <1>2, <1>4
<1>6. Sums(v)[x] = Sums(v)[x - 1] + v[x] /\ Sums(w)[x] = Sums(w)[x - 1] + w[x]
  BY <1>4, SumsDef
<1> QED BY <1>4, <1>5, <1>6

\* Sums grow, and stay where the numbers are 0.
LEMMA SumsGrow ==
  ASSUME NEW v \in Seq(Nat), NEW l \in 0 .. Len(v), NEW k \in 0 .. l
  PROVE  /\ Sums(v)[k] <= Sums(v)[l]
         /\ (\A j \in k + 1 .. l : v[j] = 0) => Sums(v)[k] = Sums(v)[l]
<1> DEFINE zero == \A j \in k + 1 .. l : v[j] = 0
           Wrong == {n \in k .. l : ~(/\ Sums(v)[k] <= Sums(v)[n]
                                      /\ zero => Sums(v)[k] = Sums(v)[n])}
<1>1. /\ Sums(v) \in [0 .. Len(v) -> Nat]
      /\ \A n \in 1 .. Len(v) : Sums(v)[n] = Sums(v)[n - 1] + v[n] /\ v[n] \in Nat
      /\ Len(v) \in Nat
  BY SumsDef
<1>2. k \in 0 .. Len(v) /\ Sums(v)[k] \in Nat
  <2>1. k \in 0 .. Len(v)
    OBVIOUS
  <2> QED BY <1>1, <2>1
<1>3. Wrong = {}
  <2> SUFFICES ASSUME Wrong # {} PROVE FALSE
    OBVIOUS
  <2>1. Wrong \in SUBSET Nat
    BY <1>1
  <2>2. PICK x \in Wrong : \A y \in Wrong : x <= y
    <3> HIDE DEF Wrong
    <3> QED BY <2>1, LeastMember
  <2>3. x \in k .. l /\ ~(Sums(v)[k] <= Sums(v)[x] /\ (zero => Sums(v)[k] = Sums(v)[x]))
    OBVIOUS
  <2>4. x # k
    <3> HIDE DEF Wrong, zero
    <3> QED BY <2>3, <1>2
  <2>5. x - 1 \in k .. l /\ ~(x <= x - 1) /\ x \in 1 .. Len(v) /\ x - 1 \in 0 .. Len(v)
    <3> HIDE DEF Wrong, zero
    <3> QED BY <2>3, <2>4, <1>1
  <2>6. x - 1 \notin Wrong
    <3> HIDE DEF Wrong
    <3> QED BY <2>2, <2>5
  <2>7. Sums(v)[k] <= Sums(v)[x - 1] /\ (zero => Sums(v)[k] = Sums(v)[x - 1])
    BY <2>5, <2>6
  <2>8. Sums(v)[x] = Sums(v)[x - 1] + v[x] /\ v[x] \in Nat
        /\ Sums(v)[x - 1] \in Nat /\ Sums(v)[k] \in Nat
    <3> HIDE DEF Wrong, zero
    <3> QED BY <1>1, <1>2, <2>5
  <2>9. zero => v[x] = 0
    <3>1. x \in k + 1 .. l
      <4> HIDE DEF Wrong, zero
      <4> QED BY <2>3, <2>4, <1>1
    <3> QED BY <3>1
  <2> HIDE DEF zero, Wrong
  <2> QED BY <2>3, <2>7, <2>8, <2>9
<1>4. l \in k .. l
  BY <1>1
<1> QED BY <1>3, <1>4

\* Every number up to a sum lies in one summand's part of it.
LEMMA SumsSegment ==
  ASSUME NEW v \in Seq(Nat), NEW l \in 0 .. Len(v), NEW q \in Nat \ {0}, q <= Sums(v)[l]
  PROVE  \E k \in 1 .. l : Sums(v)[k - 1] < q /\ q <= Sums(v)[k]
<1> DEFINE Reached == {n \in 0 .. l : q <= Sums(v)[n]}
<1>1. /\ Sums(v) \in [0 .. Len(v) -> Nat] /\ Sums(v)[0] = 0
      /\ Len(v) \in Nat
  BY SumsDef
<1>2. Reached \in SUBSET Nat /\ l \in Reached
  BY <1>1
<1>3. PICK x \in Reached : \A y \in Reached : x <= y
  <2> HIDE DEF Reached
  <2> QED BY <1>2, LeastMember
<1>4. x # 0
  BY <1>1
<1>5. x \in 0 .. l
  OBVIOUS
<1>6. x \in 1 .. l /\ x - 1 \in 0 .. l /\ x - 1 \in 0 .. Len(v) /\ ~(x <= x - 1)
  <2> HIDE DEF Reached
  <2> QED BY <1>4, <1>5, <1>1
<1>7. x - 1 \notin Reached
  <2> HIDE DEF Reached
  <2> QED BY <1>3, <1>6
<1>8. ~(q <= Sums(v)[x - 1]) /\ q <= Sums(v)[x] /\ Sums(v)[x - 1] \in Nat
  BY <1>1, <1>6, <1>7
<1> HIDE DEF Reached
<1> QED BY <1>6, <1>8
=============================================================================
