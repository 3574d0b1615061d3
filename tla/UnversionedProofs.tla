-------------------------- MODULE UnversionedProofs --------------------------
(***************************************************************************)
(* What the builder's header describes, what is left of it when it was     *)
(* packed, cut and read back, and where LoadProperties' walk stands in it  *)
(* and in the class: for every width of the counts, every class and every  *)
(* sequence of calls.                                                      *)
(*                                                                         *)
(* Sums and iterators are recursive functions; what they compute is proved *)
(* from a least counterexample among the naturals.                         *)
(***************************************************************************)
EXTENDS Unversioned, NaturalFacts, FiniteSetTheorems, WellFoundedInduction, NaturalsInduction, TLAPS

(***************************************************************************)
(* Division.                                                               *)
(***************************************************************************)
\* A quotient and a remainder that fit are those of the code's shifts and masks.
LEMMA DivisionUnique ==
  ASSUME NEW b \in Nat \ {0}, NEW q \in Nat, NEW r \in 0 .. b - 1
  PROVE  /\ (r + q * b) % b = r
         /\ (r + q * b) \div b = q
OBVIOUS

LEMMA MaxExists ==
  ASSUME NEW n \in Nat, NEW I \in SUBSET (1 .. n), I # {}
  PROVE  \E m \in I : \A i \in I : m >= i
<1> DEFINE T == {n - i : i \in I}
<1>1. T \subseteq Nat /\ T # {}
  <2>1. \A i \in I : n - i \in Nat
    OBVIOUS
  <2>2. PICK i \in I : TRUE
    OBVIOUS
  <2>3. n - i \in T
    OBVIOUS
  <2> QED BY <2>1, <2>3
<1>2. IsWellFoundedOn(OpToRel(<, Nat), Nat)
  BY NatLessThanWellFounded
<1>3. \E x \in T : \A y \in T : ~(<<y, x>> \in OpToRel(<, Nat))
  <2> HIDE DEF T
  <2> QED BY <1>1, <1>2, WFMin
<1>4. PICK x \in T : \A y \in T : ~(<<y, x>> \in OpToRel(<, Nat))
  BY <1>3
<1>5. PICK m \in I : x = n - m
  BY <1>4
<1>6. ASSUME NEW i \in I PROVE m >= i
  <2>1. n - i \in T
    OBVIOUS
  <2>2. ~(n - i < x)
    BY <2>1, <1>4, <1>1 DEF OpToRel
  <2> QED BY <2>2, <1>5
<1> QED BY <1>6
-----------------------------------------------------------------------------
(***************************************************************************)
(* Packing.                                                                *)
(***************************************************************************)
\* FFragment::Unpack undoes FFragment::Pack for every fragment whose counts are
\* within SkipMax and ValueMax: the four fields share the word without overlap.
LEMMA PackRoundTrip ==
  ASSUME NEW f \in FFragment
  PROVE  Unpack(Pack(f)) = f
<1> DEFINE h == SkipMax + 1
           s == f.SkipNum
           z == IF f.bHasAnyZeroes THEN 1 ELSE 0
           l == IF f.bIsLast THEN 1 ELSE 0
           v == f.ValueNum
           w == s + z * h + l * (2 * h) + v * (4 * h)
<1>1. h \in Nat \ {0} /\ s \in 0 .. h - 1 /\ z \in 0 .. 1 /\ l \in 0 .. 1 /\ v \in Nat
  BY FragmentAssumption DEF FFragment
<1>2. w = s + (z + 2 * l + 4 * v) * h
  <2> HIDE DEF h, s, z, l, v
  <2> QED BY <1>1
<1>3. w = (s + z * h) + (l + 2 * v) * (2 * h) /\ s + z * h \in 0 .. 2 * h - 1
  <2> HIDE DEF h, s, z, l, v
  <2> QED BY <1>1
<1>4. w = (s + z * h + l * (2 * h)) + v * (4 * h) /\ s + z * h + l * (2 * h) \in 0 .. 4 * h - 1
  <2> HIDE DEF h, s, z, l, v
  <2> QED BY <1>1
<1>5. w \in 0 .. WordSize - 1
  <2>1. v \in 0 .. ValueMax /\ ValueMax \in Nat
    BY FragmentAssumption DEF FFragment
  <2>2. WordSize = (4 * h) * ValueMax + 4 * h
    BY FragmentAssumption DEF WordSize, ValueUnit
  <2>3. v * (4 * h) <= (4 * h) * ValueMax
    <3> HIDE DEF h, s, z, l, v
    <3> QED BY <1>1, <2>1
  <2> HIDE DEF h, s, z, l, v
  <2> QED BY <1>1, <1>4, <2>1, <2>2, <2>3
<1>6. Pack(f) = w
  <2>1. Pack(f) = w % WordSize
    BY FragmentAssumption DEF Pack, HasZeroMask, IsLastMask, ValueUnit, FFragment
  <2>2. w % WordSize = w
    <3> HIDE DEF w
    <3>1. WordSize \in Nat \ {0}
      BY FragmentAssumption DEF WordSize, ValueUnit
    <3> QED BY <1>5, <3>1
  <2> QED BY <2>1, <2>2
<1>7. w % h = s /\ w \div h = z + 2 * l + 4 * v
  <2> HIDE DEF h, s, z, l, v, w
  <2> QED BY <1>1, <1>2, DivisionUnique
<1>8. w \div (2 * h) = l + 2 * v
  <2> HIDE DEF h, s, z, l, v, w
  <2> QED BY <1>1, <1>3, DivisionUnique
<1>9. w \div (4 * h) = v
  <2> HIDE DEF h, s, z, l, v, w
  <2> QED BY <1>1, <1>4, DivisionUnique
<1>10. (z + 2 * l + 4 * v) % 2 = z /\ (l + 2 * v) % 2 = l
  <2> HIDE DEF z, l, v
  <2> QED BY <1>1
<1>11. Unpack(w) = [SkipNum |-> s, bHasAnyZeroes |-> z = 1, ValueNum |-> v, bIsLast |-> l = 1]
  <2> HIDE DEF s, z, l, v, w
  <2> QED BY <1>7, <1>8, <1>9, <1>10 DEF Unpack, HasZeroMask, IsLastMask, ValueUnit
<1>12. (z = 1) = f.bHasAnyZeroes /\ (l = 1) = f.bIsLast
  BY DEF FFragment
<1> QED
  <2> HIDE DEF w, z, l
  <2> QED BY <1>6, <1>11, <1>12 DEF FFragment
(***************************************************************************)
(* The builder.                                                            *)
(***************************************************************************)
\* The builder has a fragment to write to, and every fragment is one.
FragmentsFit == Fragments \in Seq(FFragment) /\ Fragments # <<>>

LEMMA NewFragmentFits == NewFragment \in FFragment
BY FragmentAssumption DEF NewFragment, FFragment

LEMMA LastFits ==
  ASSUME NEW s \in Seq(FFragment), s # <<>>
  PROVE  Len(s) \in Nat \ {0} /\ Last(s) = s[Len(s)] /\ Last(s) \in FFragment
BY DEF Last

\* A fragment begun when the last one is closed is the new last one.
LEMMA OpenedFits ==
  ASSUME FragmentsFit, NEW closed \in BOOLEAN
  PROVE  /\ Opened(closed) \in Seq(FFragment)
         /\ Len(Opened(closed)) \in Nat \ {0}
         /\ Opened(closed)[Len(Opened(closed))]
               = IF closed THEN NewFragment ELSE Last(Fragments)
<1>1. Len(Fragments) \in Nat \ {0} /\ Last(Fragments) = Fragments[Len(Fragments)]
  BY LastFits DEF FragmentsFit
<1>2. CASE closed
  BY <1>1, <1>2, NewFragmentFits DEF Opened, FragmentsFit
<1>3. CASE ~closed
  BY <1>1, <1>3 DEF Opened, FragmentsFit
<1> QED BY <1>2, <1>3

LEMMA RefilledFits ==
  ASSUME NEW f \in FFragment, NEW n \in 0 .. ValueMax, NEW b \in BOOLEAN
  PROVE  [f EXCEPT !.ValueNum = n, !.bHasAnyZeroes = b] \in FFragment
BY DEF FFragment

-----------------------------------------------------------------------------
(***************************************************************************)
(* What a header describes.                                                *)
(***************************************************************************)
\* The bits of a mask; the proofs need no more of them than that they are some.
Bits == BOOLEAN

\* How many properties each fragment is about.
Lengths(F) == [i \in 1 .. Len(F) |-> F[i].SkipNum + F[i].ValueNum]

\* The properties before fragment k, those before its values, and the mask bits
\* before its own.
Begin(F, k) == Sums(Lengths(F))[k - 1]
Start(F, k) == Begin(F, k) + F[k].SkipNum
MaskStart(F, k) == Sums(ValueNums(F, TRUE))[k - 1]

\* Fragment k of F, with the mask bits of z, says of its properties what u does.
DescribesAt(F, z, u, k) ==
  /\ \A q \in 1 .. F[k].SkipNum : u[Begin(F, k) + q] = "skip"
  /\ \A v \in 1 .. F[k].ValueNum :
       u[Start(F, k) + v] = IF F[k].bHasAnyZeroes /\ z[MaskStart(F, k) + v] THEN "zero" ELSE "value"

\* A header under construction: it describes all that was told, the last fragment
\* has its mask bits whether it needs them or not, and no fragment is marked.
Building(F, z, u) ==
  /\ F \in Seq(FFragment) /\ F # <<>>
  /\ z \in Seq(Bits)
  /\ u \in Seq({"skip", "zero", "value"})
  /\ Len(u) = Begin(F, Len(F)) + F[Len(F)].SkipNum + F[Len(F)].ValueNum
  /\ Len(z) = MaskStart(F, Len(F)) + F[Len(F)].ValueNum
  /\ ~F[Len(F)].bHasAnyZeroes =>
       \A v \in 1 .. F[Len(F)].ValueNum : ~z[MaskStart(F, Len(F)) + v]
  /\ \A k \in 1 .. Len(F) : ~F[k].bIsLast
  /\ \A k \in 1 .. Len(F) : DescribesAt(F, z, u, k)

\* A finished header: it describes all that was told up to trailing skips, and
\* only its last fragment is marked.
Built(F, z, u) ==
  /\ F \in Seq(FFragment) /\ F # <<>>
  /\ z \in Seq(Bits)
  /\ u \in Seq({"skip", "zero", "value"})
  /\ Sums(Lengths(F))[Len(F)] <= Len(u)
  /\ \A q \in Sums(Lengths(F))[Len(F)] + 1 .. Len(u) : u[q] = "skip"
  /\ Len(z) = ValueCount(F, TRUE)
  /\ \A k \in 1 .. Len(F) : F[k].bIsLast <=> k = Len(F)
  /\ Len(F) = 1 \/ F[Len(F)].ValueNum # 0
  /\ \A k \in 1 .. Len(F) : DescribesAt(F, z, u, k)

LEMMA CountsDef ==
  ASSUME NEW F \in Seq(FFragment)
  PROVE  /\ Len(F) \in Nat
         /\ \A k \in 1 .. Len(F) : F[k].SkipNum \in Nat /\ F[k].ValueNum \in Nat
         /\ Lengths(F) \in Seq(Nat) /\ Len(Lengths(F)) = Len(F)
         /\ Sums(Lengths(F)) \in [0 .. Len(F) -> Nat] /\ Sums(Lengths(F))[0] = 0
         /\ \A k \in 1 .. Len(F) :
              /\ Sums(Lengths(F))[k] = Begin(F, k) + F[k].SkipNum + F[k].ValueNum
              /\ Begin(F, k) \in Nat /\ Start(F, k) \in Nat
<1>1. Len(F) \in Nat
  OBVIOUS
<1>2. \A k \in 1 .. Len(F) : F[k].SkipNum \in Nat /\ F[k].ValueNum \in Nat
  <2>1. \A f \in FFragment : f.SkipNum \in Nat /\ f.ValueNum \in Nat
    BY FragmentAssumption DEF FFragment
  <2> QED BY <2>1
<1> DEFINE v == Lengths(F)
<1>3. v \in Seq(Nat) /\ Len(v) = Len(F) /\ \A k \in 1 .. Len(F) : v[k] = F[k].SkipNum + F[k].ValueNum
  BY <1>1, <1>2 DEF Lengths
<1> HIDE DEF v
<1>4. /\ Sums(v) \in [0 .. Len(F) -> Nat] /\ Sums(v)[0] = 0
      /\ \A k \in 1 .. Len(F) : Sums(v)[k] = Sums(v)[k - 1] + v[k]
  BY <1>3, SumsDef
<1>5. ASSUME NEW k \in 1 .. Len(F)
      PROVE  /\ Sums(v)[k] = Begin(F, k) + F[k].SkipNum + F[k].ValueNum
             /\ Begin(F, k) \in Nat /\ Start(F, k) \in Nat
  <2>1. k - 1 \in 0 .. Len(F)
    BY <1>1
  <2>2. Begin(F, k) = Sums(v)[k - 1] /\ Begin(F, k) \in Nat
    BY <1>4, <2>1 DEF Begin, v
  <2>3. v[k] = F[k].SkipNum + F[k].ValueNum /\ F[k].SkipNum \in Nat /\ F[k].ValueNum \in Nat
    BY <1>2, <1>3
  <2>4. Sums(v)[k] = Begin(F, k) + v[k]
    BY <1>4, <2>2
  <2> QED BY <2>2, <2>3, <2>4 DEF Start
<1> QED BY <1>1, <1>2, <1>3, <1>4, <1>5 DEF v

LEMMA MaskDef ==
  ASSUME NEW F \in Seq(FFragment), NEW b \in BOOLEAN
  PROVE  /\ ValueNums(F, b) \in Seq(Nat) /\ Len(ValueNums(F, b)) = Len(F)
         /\ Sums(ValueNums(F, b)) \in [0 .. Len(F) -> Nat] /\ Sums(ValueNums(F, b))[0] = 0
         /\ \A k \in 1 .. Len(F) :
              /\ ValueNums(F, b)[k] = IF F[k].bHasAnyZeroes = b THEN F[k].ValueNum ELSE 0
              /\ Sums(ValueNums(F, b))[k] = Sums(ValueNums(F, b))[k - 1] + ValueNums(F, b)[k]
<1>1. Len(F) \in Nat /\ \A k \in 1 .. Len(F) : F[k].ValueNum \in Nat
  BY CountsDef
<1> DEFINE v == ValueNums(F, b)
<1>2. /\ v \in Seq(Nat) /\ Len(v) = Len(F)
      /\ \A k \in 1 .. Len(F) : v[k] = IF F[k].bHasAnyZeroes = b THEN F[k].ValueNum ELSE 0
  BY <1>1 DEF ValueNums
<1> HIDE DEF v
<1>3. /\ Sums(v) \in [0 .. Len(F) -> Nat] /\ Sums(v)[0] = 0
      /\ \A k \in 1 .. Len(F) : Sums(v)[k] = Sums(v)[k - 1] + v[k]
  BY <1>2, SumsDef
<1> QED BY <1>2, <1>3 DEF v

\* The same with the choice of the fragments with and without zeros.
LEMMA MaskSums ==
  ASSUME NEW F \in Seq(FFragment), NEW k \in 1 .. Len(F)
  PROVE  /\ F[k].bHasAnyZeroes \in BOOLEAN /\ F[k].ValueNum \in Nat
         /\ MaskStart(F, k) \in Nat
         /\ Sums(ValueNums(F, TRUE))[k - 1] = MaskStart(F, k)
         /\ F[k].bHasAnyZeroes => Sums(ValueNums(F, TRUE))[k] = MaskStart(F, k) + F[k].ValueNum
         /\ ~F[k].bHasAnyZeroes => Sums(ValueNums(F, TRUE))[k] = MaskStart(F, k)
<1> DEFINE f == F[k]
           S == Sums(ValueNums(F, TRUE))
<1>1. f \in FFragment /\ k - 1 \in 0 .. Len(F)
  OBVIOUS
<1>2. f.bHasAnyZeroes \in BOOLEAN /\ f.ValueNum \in Nat
  BY SMTT(30), <1>1, FragmentAssumption DEF FFragment
<1>3. S \in [0 .. Len(F) -> Nat] /\ S[k] = S[k - 1] + ValueNums(F, TRUE)[k]
  BY MaskDef
<1>4. ValueNums(F, TRUE)[k] = IF f.bHasAnyZeroes = TRUE THEN f.ValueNum ELSE 0
  BY MaskDef
<1> HIDE DEF f, S
<1>5. S[k - 1] \in Nat /\ S[k - 1] = MaskStart(F, k)
  BY <1>1, <1>3 DEF MaskStart, S
<1>6. CASE f.bHasAnyZeroes
  <2>1. f.bHasAnyZeroes = TRUE
    BY <1>2, <1>6
  <2>2. ValueNums(F, TRUE)[k] = f.ValueNum
    BY <1>4, <2>1
  <2>3. S[k] = MaskStart(F, k) + f.ValueNum
    BY <1>3, <1>5, <2>2
  <2> QED BY <1>2, <1>5, <1>6, <2>3 DEF f, S
<1>7. CASE ~f.bHasAnyZeroes
  <2>1. f.bHasAnyZeroes # TRUE
    BY <1>7
  <2>2. ValueNums(F, TRUE)[k] = 0
    BY <1>4, <2>1
  <2>3. S[k] = MaskStart(F, k)
    BY <1>3, <1>5, <2>2
  <2> QED BY <1>2, <1>5, <1>7, <2>3 DEF f, S
<1> QED BY <1>6, <1>7

\* Fragments that agree before m have the same sums before m.
LEMMA CountsAgree ==
  ASSUME NEW F \in Seq(FFragment), NEW G \in Seq(FFragment), NEW m \in Nat,
         m <= Len(F), m <= Len(G),
         \A k \in 1 .. m : /\ F[k].SkipNum = G[k].SkipNum /\ F[k].ValueNum = G[k].ValueNum
                           /\ F[k].bHasAnyZeroes = G[k].bHasAnyZeroes
  PROVE  \A k \in 0 .. m : /\ Sums(Lengths(F))[k] = Sums(Lengths(G))[k]
                           /\ Sums(ValueNums(F, TRUE))[k] = Sums(ValueNums(G, TRUE))[k]
                           /\ Sums(ValueNums(F, FALSE))[k] = Sums(ValueNums(G, FALSE))[k]
<1>1. \A k \in 1 .. m : k \in 1 .. Len(F) /\ k \in 1 .. Len(G)
  OBVIOUS
<1>2. \A k \in 1 .. m : Lengths(F)[k] = Lengths(G)[k]
  BY <1>1 DEF Lengths
<1>3. \A b \in BOOLEAN : \A k \in 1 .. m : ValueNums(F, b)[k] = ValueNums(G, b)[k]
  BY <1>1 DEF ValueNums
<1>4. \A k \in 0 .. m : Sums(Lengths(F))[k] = Sums(Lengths(G))[k]
  BY <1>2, CountsDef, SumsAgree
<1>5. ASSUME NEW b \in BOOLEAN
      PROVE  \A k \in 0 .. m : Sums(ValueNums(F, b))[k] = Sums(ValueNums(G, b))[k]
  <2>1. /\ ValueNums(F, b) \in Seq(Nat) /\ Len(ValueNums(F, b)) = Len(F)
        /\ ValueNums(G, b) \in Seq(Nat) /\ Len(ValueNums(G, b)) = Len(G)
    BY MaskDef
  <2>2. \A k \in 1 .. m : ValueNums(F, b)[k] = ValueNums(G, b)[k]
    BY <1>3
  <2> QED BY <2>1, <2>2, SumsAgree
<1> QED BY <1>4, <1>5

\* A description of a fragment depends on the fragments before it, its own, and
\* beginnings of the mask and of what was told.
LEMMA DescribesSame ==
  ASSUME NEW F \in Seq(FFragment), NEW G \in Seq(FFragment), NEW z, NEW y, NEW u, NEW w,
         NEW k \in 1 .. Len(F), k <= Len(G),
         \A i \in 1 .. k : /\ F[i].SkipNum = G[i].SkipNum /\ F[i].ValueNum = G[i].ValueNum
                           /\ F[i].bHasAnyZeroes = G[i].bHasAnyZeroes,
         \A q \in 1 .. Sums(Lengths(F))[k] : w[q] = u[q],
         F[k].bHasAnyZeroes => \A q \in 1 .. Sums(ValueNums(F, TRUE))[k] : y[q] = z[q],
         DescribesAt(F, z, u, k)
  PROVE  DescribesAt(G, y, w, k)
<1>1. /\ k \in 1 .. Len(G) /\ k - 1 \in Nat /\ k - 1 <= Len(F) /\ k - 1 <= Len(G)
      /\ k - 1 \in 0 .. k - 1 /\ k \in Nat /\ k \in 1 .. k
  OBVIOUS
<1>2. Begin(G, k) = Begin(F, k) /\ MaskStart(G, k) = MaskStart(F, k)
  <2>1. \A i \in 1 .. k - 1 : i \in 1 .. k
    BY <1>1
  <2> QED BY <1>1, <2>1, CountsAgree DEF Begin, MaskStart
<1>3. Start(G, k) = Start(F, k)
  BY <1>1, <1>2 DEF Start
<1>4. /\ F[k].SkipNum = G[k].SkipNum /\ F[k].ValueNum = G[k].ValueNum
      /\ F[k].bHasAnyZeroes = G[k].bHasAnyZeroes
  BY <1>1
<1>5. /\ Sums(Lengths(F))[k] = Begin(F, k) + F[k].SkipNum + F[k].ValueNum
      /\ Begin(F, k) \in Nat /\ F[k].SkipNum \in Nat /\ F[k].ValueNum \in Nat
  BY CountsDef
<1>6. ASSUME NEW q \in 1 .. F[k].SkipNum PROVE w[Begin(F, k) + q] = u[Begin(F, k) + q]
  <2>1. Begin(F, k) + q \in 1 .. Sums(Lengths(F))[k]
    BY <1>5
  <2> QED BY <2>1
<1>7. ASSUME NEW v \in 1 .. F[k].ValueNum PROVE w[Start(F, k) + v] = u[Start(F, k) + v]
  <2>1. Start(F, k) + v \in 1 .. Sums(Lengths(F))[k]
    BY SMTT(30), <1>5 DEF Start
  <2> QED BY <2>1
<1>8. ASSUME NEW v \in 1 .. F[k].ValueNum, F[k].bHasAnyZeroes
      PROVE  y[MaskStart(F, k) + v] = z[MaskStart(F, k) + v]
  <2>1. MaskStart(F, k) \in Nat /\ Sums(ValueNums(F, TRUE))[k] = MaskStart(F, k) + F[k].ValueNum
    BY <1>8, MaskSums
  <2>2. MaskStart(F, k) + v \in 1 .. Sums(ValueNums(F, TRUE))[k]
    <3> DEFINE a == MaskStart(F, k)
               n == F[k].ValueNum
    <3>1. a \in Nat /\ n \in Nat /\ v \in 1 .. n /\ Sums(ValueNums(F, TRUE))[k] = a + n
      BY <1>5, <2>1
    <3> HIDE DEF a, n
    <3>2. a + v \in 1 .. a + n
      BY <3>1
    <3> QED BY <3>1, <3>2 DEF a, n
  <2> QED BY <1>8, <2>2
<1> QED BY <1>2, <1>3, <1>4, <1>6, <1>7, <1>8 DEF DescribesAt

-----------------------------------------------------------------------------
(***************************************************************************)
(* The builder describes what it is told.                                  *)
(***************************************************************************)
Agree(y, z, n) == \A q \in 1 .. n : y[q] = z[q]

\* What trimming leaves of the mask: the bits of the fragments with zeros.
LEMMA TrimmedMask ==
  ASSUME NEW F, NEW z, NEW u, Building(F, z, u), NEW y, y = TrimZeroMask(z, Last(F))
  PROVE  /\ y \in Seq(Bits)
         /\ Len(y) \in Nat
         /\ Len(y) = Sums(ValueNums(F, TRUE))[Len(F)]
         /\ Agree(y, z, Len(y))
<1> DEFINE n == Len(F)
           f == F[n]
           m == MaskStart(F, n)
           S == Sums(ValueNums(F, TRUE))
<1>1. F \in Seq(FFragment) /\ n \in 1 .. Len(F) /\ Last(F) = f
  BY DEF Building, Last
<1>2. /\ f.bHasAnyZeroes \in BOOLEAN /\ f.ValueNum \in Nat /\ m \in Nat
      /\ f.bHasAnyZeroes => S[n] = m + f.ValueNum
      /\ ~f.bHasAnyZeroes => S[n] = m
  BY <1>1, MaskSums
<1>3. z \in Seq(Bits) /\ Len(z) = m + f.ValueNum
  BY DEF Building
<1>4. y = IF f.bHasAnyZeroes THEN z ELSE SubSeq(z, 1, Len(z) - f.ValueNum)
  BY <1>1 DEF TrimZeroMask
<1> HIDE DEF n, f, m, S
<1>5. CASE f.bHasAnyZeroes
  <2>1. y = z
    BY <1>4, <1>5
  <2>2. y \in Seq(Bits) /\ Len(y) \in Nat
    BY <1>3, <2>1
  <2>3. S[n] = m + f.ValueNum
    BY <1>2, <1>5
  <2> QED BY <1>3, <2>1, <2>2, <2>3 DEF S, n, Agree
<1>6. CASE ~f.bHasAnyZeroes
  <2>1. y = SubSeq(z, 1, m) /\ m <= Len(z)
    BY <1>2, <1>3, <1>4, <1>6
  <2>2. y \in Seq(Bits) /\ Len(y) = m /\ \A q \in 1 .. m : y[q] = z[q]
    BY <1>2, <1>3, <2>1
  <2> QED BY <1>2, <1>6, <2>2 DEF S, n, Agree
<1> QED BY <1>5, <1>6

\* A build is as long as its sums say.
LEMMA BuildingLengths ==
  ASSUME NEW F, NEW z, NEW u, Building(F, z, u)
  PROVE  /\ F \in Seq(FFragment) /\ Len(F) \in Nat \ {0} /\ Len(F) \in 1 .. Len(F)
         /\ F[Len(F)] \in FFragment /\ F[Len(F)].ValueNum \in Nat /\ F[Len(F)].SkipNum \in Nat
         /\ Len(u) \in Nat /\ Len(u) = Sums(Lengths(F))[Len(F)]
         /\ Len(z) \in Nat /\ Len(z) = MaskStart(F, Len(F)) + F[Len(F)].ValueNum
         /\ MaskStart(F, Len(F)) \in Nat /\ Begin(F, Len(F)) \in Nat
<1> DEFINE n == Len(F)
<1>1. F \in Seq(FFragment) /\ n \in Nat \ {0} /\ n \in 1 .. Len(F)
  BY DEF Building
<1>2. /\ Len(u) = Begin(F, n) + F[n].SkipNum + F[n].ValueNum
      /\ Len(z) = MaskStart(F, n) + F[n].ValueNum
  BY DEF Building
<1> HIDE DEF n
<1>3. F[n] \in FFragment /\ F[n].SkipNum \in Nat /\ F[n].ValueNum \in Nat /\ Begin(F, n) \in Nat
      /\ Sums(Lengths(F))[n] = Begin(F, n) + F[n].SkipNum + F[n].ValueNum
  BY <1>1, CountsDef
<1>4. MaskStart(F, n) \in Nat
  BY <1>1, MaskSums
<1> QED BY <1>1, <1>2, <1>3, <1>4 DEF n

LEMMA OpenBuilds ==
  ASSUME NEW F, NEW z, NEW u, Building(F, z, u)
  PROVE  Building(Append(F, NewFragment), TrimZeroMask(z, Last(F)), u)
<1> DEFINE n == Len(F)
           G == Append(F, NewFragment)
           y == TrimZeroMask(z, Last(F))
<1>1. /\ F \in Seq(FFragment) /\ n \in Nat \ {0} /\ u \in Seq({"skip", "zero", "value"})
      /\ (n + 1) - 1 = n /\ n \in 0 .. n
  BY DEF Building
<1>2. /\ G \in Seq(FFragment) /\ G # <<>> /\ Len(G) = n + 1 /\ G[n + 1] = NewFragment
      /\ \A k \in 1 .. n : G[k] = F[k]
  BY <1>1, NewFragmentFits
<1>0. y = TrimZeroMask(z, Last(F))
  OBVIOUS
<1> HIDE DEF G, y, n
<1>3. /\ y \in Seq(Bits) /\ Len(y) \in Nat /\ Len(y) = Sums(ValueNums(F, TRUE))[n]
      /\ \A q \in 1 .. Len(y) : y[q] = z[q]
  <2>1. y \in Seq(Bits)
    BY <1>0, TrimmedMask
  <2>2. Len(y) \in Nat
    BY <1>0, TrimmedMask
  <2>3. Len(y) = Sums(ValueNums(F, TRUE))[Len(F)]
    BY <1>0, TrimmedMask
  <2>4. Agree(y, z, Len(y))
    BY <1>0, TrimmedMask
  <2> QED BY <2>1, <2>2, <2>3, <2>4 DEF n, Agree
<1>4. \A k \in 0 .. n : /\ Sums(Lengths(G))[k] = Sums(Lengths(F))[k]
                        /\ Sums(ValueNums(G, TRUE))[k] = Sums(ValueNums(F, TRUE))[k]
  <2>1. n <= Len(F) /\ n <= Len(G) /\ n \in Nat
    BY <1>1, <1>2 DEF n
  <2> QED BY ZenonT(40), <1>1, <1>2, <2>1, CountsAgree
<1>5. NewFragment.SkipNum = 0 /\ NewFragment.ValueNum = 0 /\ ~NewFragment.bIsLast
  BY DEF NewFragment
<1>6. Len(u) = Begin(G, n + 1) + 0 + 0
  <2>1. Begin(G, n + 1) = Sums(Lengths(F))[n]
    BY <1>1, <1>4 DEF Begin
  <2>2. Len(u) = Begin(F, n) + F[n].SkipNum + F[n].ValueNum
    BY DEF Building, n
  <2>3. n \in 1 .. Len(F)
    BY <1>1 DEF n
  <2>4. Sums(Lengths(F))[n] = Begin(F, n) + F[n].SkipNum + F[n].ValueNum
        /\ Begin(F, n) \in Nat /\ F[n].SkipNum \in Nat /\ F[n].ValueNum \in Nat
    BY <1>1, <2>3, CountsDef
  <2> QED BY <2>1, <2>2, <2>4
<1>7. Len(y) = MaskStart(G, n + 1) + 0
  <2>1. MaskStart(G, n + 1) = Sums(ValueNums(F, TRUE))[n]
    BY <1>1, <1>4 DEF MaskStart
  <2>2. Len(y) \in Nat
    BY <1>3
  <2>3. Len(y) = MaskStart(G, n + 1)
    BY <1>3, <2>1
  <2> QED BY <2>2, <2>3
<1>8. ASSUME NEW k \in 1 .. n + 1 PROVE DescribesAt(G, y, u, k)
  <2>1. CASE k = n + 1
    <3>1. 1 .. 0 = {}
      OBVIOUS
    <3> QED BY <1>2, <1>5, <2>1, <3>1 DEF DescribesAt
  <2>2. CASE k # n + 1
    <3>1. k \in 1 .. Len(F) /\ k <= Len(G) /\ k \in 0 .. Len(F)
      BY <1>1, <1>2, <2>2 DEF n
    <3>2. DescribesAt(F, z, u, k)
      BY <3>1 DEF Building
    <3>3. \A i \in 1 .. k : F[i] = G[i]
      BY <1>1, <1>2, <3>1 DEF n
    <3>4. \A q \in 1 .. Sums(ValueNums(F, TRUE))[k] : y[q] = z[q]
      <4> DEFINE S == Sums(ValueNums(F, TRUE))
      <4>1. S \in [0 .. Len(F) -> Nat]
        BY <1>1, MaskDef
      <4>2. S[k] <= S[n]
        <5>1. ValueNums(F, TRUE) \in Seq(Nat) /\ Len(ValueNums(F, TRUE)) = Len(F)
          BY <1>1, MaskDef
        <5>2. Len(F) \in 0 .. Len(F) /\ k \in 0 .. Len(F)
          BY <1>1, <3>1
        <5> QED BY <5>1, <5>2, SumsGrow DEF n
      <4>3. S[k] \in Nat /\ S[n] \in Nat
        <5>1. k \in 0 .. Len(F) /\ n \in 0 .. Len(F)
          BY <1>1, <3>1 DEF n
        <5> QED BY <4>1, <5>1
      <4> HIDE DEF S
      <4>4. \A q \in 1 .. S[k] : q \in 1 .. S[n]
        BY <4>2, <4>3
      <4> QED BY <1>3, <4>4 DEF S
    <3> QED BY <1>1, <1>2, <3>1, <3>2, <3>3, <3>4, DescribesSame
  <2> QED BY <2>1, <2>2
<1>9. \A k \in 1 .. n + 1 : ~G[k].bIsLast
  <2>1. \A k \in 1 .. n : ~F[k].bIsLast
    BY DEF Building, n
  <2>2. \A k \in 1 .. n + 1 : k = n + 1 \/ k \in 1 .. n
    BY <1>1
  <2> QED BY <1>2, <1>5, <2>1, <2>2
<1>10. \A v \in 1 .. NewFragment.ValueNum : ~y[MaskStart(G, n + 1) + v]
  <2>1. 1 .. 0 = {}
    OBVIOUS
  <2> QED BY <1>5, <2>1
<1>11. Building(G, y, u)
  BY <1>1, <1>2, <1>3, <1>5, <1>6, <1>7, <1>8, <1>9, <1>10 DEF Building
<1> QED BY <1>11 DEF G, y

\* Nothing changes for the fragments before the last when it is told more.
LEMMA EarlierStay ==
  ASSUME NEW F, NEW z, NEW u, Building(F, z, u),
         NEW G \in Seq(FFragment), Len(G) = Len(F), \A k \in 1 .. Len(F) - 1 : G[k] = F[k],
         NEW y, NEW w, Agree(w, u, Len(u)), Agree(y, z, Len(z))
  PROVE  /\ Begin(G, Len(F)) = Begin(F, Len(F))
         /\ MaskStart(G, Len(F)) = MaskStart(F, Len(F))
         /\ \A k \in 1 .. Len(F) - 1 : DescribesAt(G, y, w, k) /\ ~G[k].bIsLast
<1> DEFINE n == Len(F)
<1>1. /\ F \in Seq(FFragment) /\ n \in Nat \ {0} /\ n \in 1 .. n
      /\ Len(u) \in Nat /\ Len(u) = Sums(Lengths(F))[n]
      /\ Len(z) \in Nat /\ Len(z) = MaskStart(F, n) + F[n].ValueNum
      /\ MaskStart(F, n) \in Nat /\ F[n].ValueNum \in Nat
  BY BuildingLengths
<1> HIDE DEF n
<1>2. n - 1 \in Nat /\ n - 1 <= Len(F) /\ n - 1 <= Len(G) /\ n - 1 \in 0 .. n - 1 /\ n - 1 \in 0 .. Len(F)
  BY <1>1 DEF n
<1>3. \A k \in 1 .. n - 1 : G[k] = F[k]
  BY DEF n
<1>4. Begin(G, n) = Begin(F, n) /\ MaskStart(G, n) = MaskStart(F, n)
  BY ZenonT(40), <1>1, <1>2, <1>3, CountsAgree DEF Begin, MaskStart
<1>5. ASSUME NEW k \in 1 .. n - 1 PROVE DescribesAt(G, y, w, k) /\ ~G[k].bIsLast
  <2>1. k \in 1 .. Len(F) /\ k <= Len(G) /\ k \in 0 .. Len(F) /\ k \in 0 .. n - 1 /\ n \in 0 .. Len(F)
        /\ k \in 0 .. n
    BY <1>1, <1>2 DEF n
  <2>2. DescribesAt(F, z, u, k) /\ ~F[k].bIsLast
    BY <2>1 DEF Building
  <2>3. \A i \in 1 .. k : G[i] = F[i]
    <3>1. \A i \in 1 .. k : i \in 1 .. n - 1
      BY <1>2, <2>1
    <3> QED BY <3>1, <1>3
  <2>4. \A q \in 1 .. Sums(Lengths(F))[k] : w[q] = u[q]
    <3>1. Lengths(F) \in Seq(Nat) /\ Len(Lengths(F)) = Len(F) /\ Sums(Lengths(F)) \in [0 .. Len(F) -> Nat]
      BY <1>1, CountsDef
    <3>2. Sums(Lengths(F))[k] <= Sums(Lengths(F))[n]
      BY <2>1, <3>1, SumsGrow
    <3>3. Sums(Lengths(F))[k] \in Nat
      BY <3>1, <2>1
    <3>4. \A q \in 1 .. Sums(Lengths(F))[k] : q \in 1 .. Len(u)
      BY <1>1, <3>2, <3>3
    <3> QED BY <3>4 DEF Agree
  <2>5. \A q \in 1 .. Sums(ValueNums(F, TRUE))[k] : y[q] = z[q]
    <3> DEFINE v == ValueNums(F, TRUE)
    <3>1. v \in Seq(Nat) /\ Len(v) = Len(F) /\ Sums(v) \in [0 .. Len(F) -> Nat]
      BY <1>1, MaskDef
    <3>2. Sums(v)[n - 1] = MaskStart(F, n)
      BY DEF MaskStart
    <3> HIDE DEF v
    <3>3. n - 1 \in 0 .. Len(v)
      BY <1>2, <3>1
    <3>4. Sums(v)[k] <= Sums(v)[n - 1]
      BY <2>1, <3>1, <3>3, SumsGrow
    <3>5. Sums(v)[k] \in Nat
      BY <2>1, <3>1
    <3>6. \A q \in 1 .. Sums(v)[k] : q \in 1 .. Len(z)
      BY SMTT(30), <1>1, <3>2, <3>4, <3>5
    <3> QED BY <3>6 DEF Agree, v
  <2> QED BY <1>1, <1>3, <2>1, <2>2, <2>3, <2>4, <2>5, DescribesSame
<1> QED BY <1>4, <1>5 DEF n

\* An included property is one more value of the last fragment.
LEMMA IncludeBuilds ==
  ASSUME NEW F, NEW z, NEW u, Building(F, z, u), F[Len(F)].ValueNum < ValueMax, NEW b \in BOOLEAN
  PROVE  Building([F EXCEPT ![Len(F)] = Included(@, b)], Append(z, b),
                  Append(u, IF b THEN "zero" ELSE "value"))
<1> DEFINE n == Len(F)
           f == F[n]
           g == Included(f, b)
           G == [F EXCEPT ![n] = g]
           y == Append(z, b)
           told == IF b THEN "zero" ELSE "value"
           w == Append(u, told)
           M == MaskStart(F, n)
           B == Begin(F, n)
<1>1. /\ F \in Seq(FFragment) /\ n \in Nat \ {0} /\ n \in 1 .. n
      /\ f \in FFragment /\ f.ValueNum \in Nat /\ f.SkipNum \in Nat
      /\ Len(u) \in Nat /\ Len(z) \in Nat /\ Len(z) = M + f.ValueNum
      /\ M \in Nat /\ B \in Nat
  BY BuildingLengths
<1>2. /\ z \in Seq(Bits) /\ u \in Seq({"skip", "zero", "value"})
      /\ Len(u) = B + f.SkipNum + f.ValueNum
      /\ DescribesAt(F, z, u, n)
      /\ ~f.bHasAnyZeroes => \A v \in 1 .. f.ValueNum : ~z[M + v]
      /\ ~f.bIsLast
  BY <1>1 DEF Building
<1>3. /\ g \in FFragment /\ g.ValueNum = f.ValueNum + 1 /\ g.SkipNum = f.SkipNum
      /\ g.bHasAnyZeroes = (f.bHasAnyZeroes \/ b) /\ ~g.bIsLast
  <2> HIDE DEF f
  <2>1. f.ValueNum + 1 \in 0 .. ValueMax
    BY <1>1, FragmentAssumption DEF f, n
  <2>2. (f.bHasAnyZeroes \/ b) \in BOOLEAN
    OBVIOUS
  <2>3. g \in FFragment
    BY <1>1, <2>1, <2>2, RefilledFits DEF Included
  <2> QED BY <1>1, <1>2, <2>3 DEF Included, FFragment
<1> HIDE DEF f, g
<1>4. G \in Seq(FFragment) /\ Len(G) = n /\ G[n] = g /\ \A k \in 1 .. n - 1 : G[k] = F[k]
  BY <1>1, <1>3
<1>5. w \in Seq({"skip", "zero", "value"}) /\ Len(w) = Len(u) + 1 /\ Agree(w, u, Len(u))
      /\ w[Len(u) + 1] = told
  <2>1. told \in {"skip", "zero", "value"}
    OBVIOUS
  <2> HIDE DEF told
  <2> QED BY <1>2, <2>1 DEF Agree
<1>6. y \in Seq(Bits) /\ Len(y) = Len(z) + 1 /\ Agree(y, z, Len(z)) /\ y[Len(z) + 1] = b
  <2>1. b \in Bits
    BY DEF Bits
  <2> QED BY <1>2, <2>1 DEF Agree
<1> HIDE DEF G, y, w
<1>7. /\ Begin(G, n) = B /\ MaskStart(G, n) = M
      /\ \A k \in 1 .. n - 1 : DescribesAt(G, y, w, k) /\ ~G[k].bIsLast
  BY <1>4, <1>5, <1>6, EarlierStay
<1> HIDE DEF n, M, B
<1>n. /\ M \in Nat /\ B \in Nat /\ f.ValueNum \in Nat /\ f.SkipNum \in Nat
      /\ Len(u) = B + f.SkipNum + f.ValueNum /\ Len(z) = M + f.ValueNum
      /\ g.ValueNum = f.ValueNum + 1 /\ g.SkipNum = f.SkipNum
  BY <1>1, <1>2, <1>3
<1>8. \A v \in 1 .. f.ValueNum : /\ w[B + f.SkipNum + v] = u[B + f.SkipNum + v]
                                 /\ y[M + v] <=> z[M + v]
                                 /\ u[B + f.SkipNum + v] = IF f.bHasAnyZeroes /\ z[M + v] THEN "zero" ELSE "value"
  <2> SUFFICES ASSUME NEW v \in 1 .. f.ValueNum
               PROVE  /\ w[B + f.SkipNum + v] = u[B + f.SkipNum + v]
                      /\ y[M + v] <=> z[M + v]
                      /\ u[B + f.SkipNum + v] = IF f.bHasAnyZeroes /\ z[M + v] THEN "zero" ELSE "value"
    OBVIOUS
  <2>1. B + f.SkipNum + v \in 1 .. Len(u) /\ M + v \in 1 .. Len(z)
    <3> DEFINE S == f.SkipNum
               V == f.ValueNum
    <3>1. /\ M \in Nat /\ B \in Nat /\ V \in Nat /\ S \in Nat /\ v \in 1 .. V
          /\ Len(u) = B + S + V /\ Len(z) = M + V
      BY <1>n
    <3> HIDE DEF S, V
    <3>2. B + S + v \in 1 .. Len(u) /\ M + v \in 1 .. Len(z)
      BY <3>1
    <3> QED BY <3>2 DEF S
  <2>2. u[B + f.SkipNum + v] = IF f.bHasAnyZeroes /\ z[M + v] THEN "zero" ELSE "value"
    BY <1>2 DEF DescribesAt, Start, f, M, B
  <2>3. y[M + v] = z[M + v]
    BY <1>6, <2>1 DEF Agree
  <2>4. w[B + f.SkipNum + v] = u[B + f.SkipNum + v]
    BY <1>5, <2>1 DEF Agree
  <2> QED BY <2>2, <2>3, <2>4
<1>9. \A v \in 1 .. g.ValueNum : v \in 1 .. f.ValueNum
        \/ (v = f.ValueNum + 1 /\ B + f.SkipNum + v = Len(u) + 1 /\ M + v = Len(z) + 1)
  <2> DEFINE S == f.SkipNum
             V == f.ValueNum
  <2>1. /\ M \in Nat /\ B \in Nat /\ V \in Nat /\ S \in Nat
        /\ Len(u) = B + S + V /\ Len(z) = M + V /\ g.ValueNum = V + 1
    BY <1>n
  <2> HIDE DEF S, V
  <2>2. \A v \in 1 .. V + 1 : v \in 1 .. V \/ (v = V + 1 /\ B + S + v = Len(u) + 1 /\ M + v = Len(z) + 1)
    BY <2>1
  <2> QED BY <2>1, <2>2 DEF S, V
<1>10. ASSUME NEW v \in 1 .. g.ValueNum
       PROVE  /\ w[B + f.SkipNum + v] = IF g.bHasAnyZeroes /\ y[M + v] THEN "zero" ELSE "value"
              /\ ~g.bHasAnyZeroes => ~y[M + v]
  <2>1. CASE v \in 1 .. f.ValueNum
    <3>1. /\ w[B + f.SkipNum + v] = u[B + f.SkipNum + v]
          /\ y[M + v] <=> z[M + v]
          /\ u[B + f.SkipNum + v] = IF f.bHasAnyZeroes /\ z[M + v] THEN "zero" ELSE "value"
      BY <1>8, <2>1
    <3>2. ~f.bHasAnyZeroes => ~z[M + v]
      BY <1>2, <2>1
    <3>3. g.bHasAnyZeroes <=> (f.bHasAnyZeroes \/ b)
      BY <1>3
    <3>4. CASE f.bHasAnyZeroes
      BY <3>1, <3>3, <3>4
    <3>5. CASE ~f.bHasAnyZeroes
      BY <3>1, <3>2, <3>5
    <3> QED BY <3>4, <3>5
  <2>2. CASE v = f.ValueNum + 1 /\ B + f.SkipNum + v = Len(u) + 1 /\ M + v = Len(z) + 1
    <3>1. w[B + f.SkipNum + v] = told /\ (y[M + v] <=> b)
      BY <1>5, <1>6, <2>2
    <3>2. g.bHasAnyZeroes <=> (f.bHasAnyZeroes \/ b)
      BY <1>3
    <3> QED BY <3>1, <3>2
  <2> QED BY <1>9, <2>1, <2>2
<1>11. DescribesAt(G, y, w, n)
  <2>1. Start(G, n) = B + f.SkipNum
    BY <1>3, <1>4, <1>7 DEF Start
  <2>2. ASSUME NEW q \in 1 .. f.SkipNum PROVE w[B + q] = "skip"
    <3>1. B + q \in 1 .. Len(u)
      BY SMTT(30), <1>1, <1>2
    <3>2. u[B + q] = "skip"
      BY <1>2 DEF DescribesAt, B, f
    <3> QED BY <3>1, <3>2, <1>5 DEF Agree
  <2> QED BY <1>3, <1>4, <1>7, <1>10, <2>1, <2>2 DEF DescribesAt
<1>12. \A k \in 1 .. n : k = n \/ k \in 1 .. n - 1
  BY <1>1
<1>13. Len(w) = Begin(G, n) + g.SkipNum + g.ValueNum /\ Len(y) = MaskStart(G, n) + g.ValueNum
  <2>1. Len(w) = Len(u) + 1 /\ Len(y) = Len(z) + 1 /\ Begin(G, n) = B /\ MaskStart(G, n) = M
    BY <1>5, <1>6, <1>7
  <2> DEFINE S == f.SkipNum
             V == f.ValueNum
  <2>2. /\ M \in Nat /\ B \in Nat /\ V \in Nat /\ S \in Nat
        /\ Len(u) = B + S + V /\ Len(z) = M + V /\ g.SkipNum = S /\ g.ValueNum = V + 1
    BY <1>n
  <2> HIDE DEF S, V
  <2>3. B + S + V + 1 = B + S + (V + 1) /\ M + V + 1 = M + (V + 1)
    BY <2>2
  <2> QED BY <2>1, <2>2, <2>3
<1>14. G # <<>>
  BY <1>1, <1>4
<1>15. Building(G, y, w)
  BY <1>3, <1>4, <1>5, <1>6, <1>7, <1>10, <1>11, <1>12, <1>13, <1>14 DEF Building
<1> QED BY <1>15 DEF G, y, w, g, f, n

\* An excluded property is one more that the last fragment skips.
LEMMA ExcludeBuilds ==
  ASSUME NEW F, NEW z, NEW u, Building(F, z, u),
         F[Len(F)].ValueNum = 0, F[Len(F)].SkipNum < SkipMax
  PROVE  Building([F EXCEPT ![Len(F)].SkipNum = @ + 1], z, Append(u, "skip"))
<1> DEFINE n == Len(F)
           f == F[n]
           g == [f EXCEPT !.SkipNum = @ + 1]
           G == [F EXCEPT ![n] = g]
           w == Append(u, "skip")
           M == MaskStart(F, n)
           B == Begin(F, n)
           S == f.SkipNum
<1>1. /\ F \in Seq(FFragment) /\ n \in Nat \ {0} /\ n \in 1 .. n
      /\ f \in FFragment /\ f.ValueNum = 0 /\ S \in Nat
      /\ Len(u) \in Nat /\ Len(z) \in Nat /\ Len(z) = M + f.ValueNum
      /\ M \in Nat /\ B \in Nat
  BY BuildingLengths
<1>2. /\ z \in Seq(Bits) /\ u \in Seq({"skip", "zero", "value"})
      /\ Len(u) = B + S + f.ValueNum
      /\ DescribesAt(F, z, u, n)
      /\ ~f.bIsLast
  BY <1>1 DEF Building
<1>3. /\ g \in FFragment /\ g.ValueNum = 0 /\ g.SkipNum = S + 1 /\ ~g.bIsLast
  <2> HIDE DEF f
  <2>1. f.SkipNum + 1 \in 0 .. SkipMax
    BY <1>1, FragmentAssumption DEF f, n
  <2>2. g \in FFragment
    BY <1>1, <2>1 DEF FFragment
  <2> QED BY <1>1, <1>2, <2>2 DEF FFragment
<1>0. [F EXCEPT ![Len(F)].SkipNum = @ + 1] = G
  BY <1>1
<1> HIDE DEF f, g, S
<1>4. G \in Seq(FFragment) /\ Len(G) = n /\ G[n] = g /\ \A k \in 1 .. n - 1 : G[k] = F[k]
  BY <1>1, <1>3
<1>5. w \in Seq({"skip", "zero", "value"}) /\ Len(w) = Len(u) + 1 /\ Agree(w, u, Len(u))
      /\ w[Len(u) + 1] = "skip"
  BY <1>2 DEF Agree
<1>6. Agree(z, z, Len(z))
  BY DEF Agree
<1> HIDE DEF G, w
<1>7. /\ Begin(G, n) = B /\ MaskStart(G, n) = M
      /\ \A k \in 1 .. n - 1 : DescribesAt(G, z, w, k) /\ ~G[k].bIsLast
  BY <1>4, <1>5, <1>6, EarlierStay
<1> HIDE DEF n, M, B
<1>8. 1 .. 0 = {}
  OBVIOUS
<1>9. Len(u) = B + S /\ Len(z) = M
  BY <1>1, <1>2
<1>11. DescribesAt(G, z, w, n)
  <2>1. ASSUME NEW q \in 1 .. S + 1 PROVE w[B + q] = "skip"
    <3>1. CASE q = S + 1
      <4>1. B + q = Len(u) + 1
        BY <1>1, <1>9, <3>1
      <4> QED BY <1>5, <4>1
    <3>2. CASE q # S + 1
      <4>1. q \in 1 .. S /\ B + q \in 1 .. Len(u)
        BY <1>1, <1>9, <3>2
      <4>2. u[B + q] = "skip"
        BY <1>2, <4>1 DEF DescribesAt, B, f, S
      <4> QED BY <4>1, <4>2, <1>5 DEF Agree
    <3> QED BY <3>1, <3>2
  <2> QED BY <1>3, <1>4, <1>7, <1>8, <2>1 DEF DescribesAt
<1>12. \A k \in 1 .. n : k = n \/ k \in 1 .. n - 1
  BY <1>1
<1>13. Len(w) = Begin(G, n) + g.SkipNum + g.ValueNum /\ Len(z) = MaskStart(G, n) + g.ValueNum
  <2>1. Len(w) = B + S + 1 /\ Begin(G, n) = B /\ MaskStart(G, n) = M
    BY <1>1, <1>5, <1>7, <1>9
  <2>2. B + S + 1 = B + (S + 1) + 0 /\ M = M + 0
    BY <1>1
  <2> QED BY <1>3, <1>9, <2>1, <2>2
<1>14. G # <<>>
  BY <1>1, <1>4
<1>15. \A v \in 1 .. g.ValueNum : ~z[MaskStart(G, n) + v]
  BY <1>3, <1>8
<1>16. \A k \in 1 .. n : ~G[k].bIsLast /\ DescribesAt(G, z, w, k)
  BY <1>3, <1>4, <1>7, <1>11, <1>12
<1>17. Building(G, z, w)
  BY <1>2, <1>4, <1>5, <1>13, <1>14, <1>15, <1>16 DEF Building
<1> QED BY <1>0, <1>17 DEF w

\* What is kept of the fragments: a beginning with no value behind it.
LEMMA KeptFragments ==
  ASSUME NEW s \in Seq(FFragment), s # <<>>
  PROVE  \E m \in 1 .. Len(s) :
           /\ WithoutTrailingSkips(s) = SubSeq(s, 1, m)
           /\ m = 1 \/ s[m].ValueNum # 0
           /\ \A j \in m + 1 .. Len(s) : s[j].ValueNum = 0
<1> DEFINE I == {i \in 1 .. Len(s) : s[i].ValueNum # 0}
           last == SelectLastInSeq(s, LAMBDA f : f.ValueNum # 0)
<1>1. last = IF I # {} THEN Max(I) ELSE 0
  BY DEF SelectLastInSeq
<1>2. WithoutTrailingSkips(s) = SubSeq(s, 1, IF last = 0 THEN 1 ELSE last)
  BY DEF WithoutTrailingSkips
<1>3. Len(s) \in Nat \ {0}
  BY LastFits
<1> HIDE DEF last
<1>4. CASE I = {}
  <2>1. last = 0 /\ 1 \in 1 .. Len(s) /\ \A j \in 1 + 1 .. Len(s) : s[j].ValueNum = 0
    BY <1>1, <1>3, <1>4
  <2> QED BY <1>2, <2>1
<1>5. CASE I # {}
  <2>1. \E m \in I : \A i \in I : m >= i
    <3>1. I \in SUBSET (1 .. Len(s)) /\ Len(s) \in Nat
      BY <1>3
    <3> HIDE DEF I
    <3> QED BY <1>5, <3>1, MaxExists
  <2>2. Max(I) \in I /\ \A i \in I : Max(I) >= i
    <3> HIDE DEF I
    <3> QED BY <2>1 DEF Max
  <2>3. last \in I /\ \A i \in I : last >= i
    <3> HIDE DEF I
    <3> QED BY <1>1, <1>5, <2>2
  <2>4. last # 0 /\ last \in 1 .. Len(s) /\ s[last].ValueNum # 0
    BY <1>3, <2>3
  <2>5. ASSUME NEW j \in last + 1 .. Len(s) PROVE s[j].ValueNum = 0
    <3>1. j \in 1 .. Len(s) /\ ~(last >= j)
      BY <1>3, <2>4
    <3>2. j \notin I
      <4> HIDE DEF I
      <4> QED BY <2>3, <3>1
    <3> QED BY <3>1, <3>2
  <2> QED BY <1>2, <2>4, <2>5
<1> QED BY <1>4, <1>5

\* Marking and trimming turns a header under construction into a finished one.
LEMMA FinalizeBuilds ==
  ASSUME NEW F, NEW z, NEW u, Building(F, z, u),
         NEW kept, kept = WithoutTrailingSkips(F)
  PROVE  Built([kept EXCEPT ![Len(kept)].bIsLast = TRUE], TrimZeroMask(z, Last(F)), u)
<1> DEFINE n == Len(F)
           y == TrimZeroMask(z, Last(F))
           L == Sums(Lengths(F))
           C == Sums(ValueNums(F, TRUE))
<1>1. /\ F \in Seq(FFragment) /\ n \in Nat \ {0} /\ n \in 1 .. n /\ F # <<>>
      /\ Len(u) \in Nat /\ Len(u) = L[n] /\ u \in Seq({"skip", "zero", "value"})
  BY BuildingLengths DEF Building
<1>0. y = TrimZeroMask(z, Last(F))
  OBVIOUS
<1> HIDE DEF y
<1>2. /\ y \in Seq(Bits) /\ Len(y) \in Nat /\ Len(y) = C[n] /\ Agree(y, z, Len(y))
  BY <1>0, TrimmedMask
<1>3. PICK m \in 1 .. n : /\ kept = SubSeq(F, 1, m)
                          /\ m = 1 \/ F[m].ValueNum # 0
                          /\ \A j \in m + 1 .. n : F[j].ValueNum = 0
  BY <1>1, KeptFragments
<1> DEFINE g == [F[m] EXCEPT !.bIsLast = TRUE]
           G == [kept EXCEPT ![Len(kept)].bIsLast = TRUE]
<1> HIDE DEF n
<1>4. kept \in Seq(FFragment) /\ Len(kept) = m /\ m \in Nat \ {0} /\ m \in 1 .. m
      /\ \A k \in 1 .. m : kept[k] = F[k]
  BY <1>1, <1>3 DEF n
<1>5. /\ F[m] \in FFragment /\ g \in FFragment /\ g.SkipNum = F[m].SkipNum
      /\ g.ValueNum = F[m].ValueNum /\ g.bHasAnyZeroes = F[m].bHasAnyZeroes /\ g.bIsLast
  <2>1. F[m] \in FFragment
    BY <1>1, <1>3 DEF n
  <2> QED BY <2>1 DEF FFragment
<1>6. G = [kept EXCEPT ![m] = g]
  BY <1>4
<1> HIDE DEF g, G
<1>7. G \in Seq(FFragment) /\ Len(G) = m /\ G[m] = g /\ \A k \in 1 .. m : k # m => G[k] = F[k]
  BY <1>4, <1>5, <1>6
<1>8. \A k \in 1 .. m : /\ F[k].SkipNum = G[k].SkipNum /\ F[k].ValueNum = G[k].ValueNum
                        /\ F[k].bHasAnyZeroes = G[k].bHasAnyZeroes
  BY <1>5, <1>7
<1>9. m \in Nat /\ m <= Len(F) /\ m <= Len(G) /\ m \in 0 .. m /\ m \in 0 .. n /\ n \in 0 .. n
  BY <1>1, <1>3, <1>4, <1>7 DEF n
<1>10. /\ Sums(Lengths(G))[m] = L[m]
       /\ Sums(ValueNums(G, TRUE))[m] = C[m]
  BY ZenonT(40), <1>1, <1>7, <1>8, <1>9, CountsAgree
<1>11. /\ Lengths(F) \in Seq(Nat) /\ Len(Lengths(F)) = n /\ L \in [0 .. n -> Nat]
       /\ ValueNums(F, TRUE) \in Seq(Nat) /\ Len(ValueNums(F, TRUE)) = n /\ C \in [0 .. n -> Nat]
  BY <1>1, CountsDef, MaskDef DEF n
<1>12. C[m] = C[n]
  <2>1. \A j \in m + 1 .. n : ValueNums(F, TRUE)[j] = 0
    <3>1. \A j \in m + 1 .. n : j \in 1 .. n
      BY <1>9
    <3> QED BY <1>3, <3>1 DEF ValueNums, n
  <2> QED BY <1>9, <1>11, <2>1, SumsGrow
<1>13. L[m] <= L[n] /\ L[m] \in Nat /\ L[n] \in Nat
  BY <1>9, <1>11, SumsGrow
<1>14. ASSUME NEW q \in L[m] + 1 .. Len(u) PROVE u[q] = "skip"
  <2>1. q \in Nat \ {0} /\ q <= L[n] /\ ~(q <= L[m])
    <3> HIDE DEF L
    <3> QED BY <1>1, <1>13
  <2>2. PICK k \in 1 .. n : L[k - 1] < q /\ q <= L[k]
    BY <2>1, <1>9, <1>11, SumsSegment
  <2>3. k \in 0 .. n /\ k - 1 \in 0 .. n
    BY <1>9
  <2>4. k > m
    <3> SUFFICES ASSUME ~(k > m) PROVE FALSE
      OBVIOUS
    <3>1. k \in 0 .. m
      BY <1>9
    <3>2. L[k] <= L[m]
      BY <3>1, <1>9, <1>11, SumsGrow
    <3>3. L[k] \in Nat
      BY <1>11, <2>3
    <3> HIDE DEF L
    <3> QED BY <1>13, <2>1, <2>2, <3>2, <3>3
  <2>5. F[k].ValueNum = 0
    BY <1>3, <1>9, <2>4
  <2>6. L[k] = Begin(F, k) + F[k].SkipNum + F[k].ValueNum /\ F[k].SkipNum \in Nat
        /\ Begin(F, k) = L[k - 1] /\ L[k - 1] \in Nat
    <3>1. k \in 1 .. Len(F)
      BY DEF n
    <3> QED BY <1>1, <1>11, <2>3, <3>1, CountsDef DEF Begin
  <2> DEFINE B == Begin(F, k)
             S == F[k].SkipNum
  <2>7. B \in Nat /\ S \in Nat /\ B < q /\ q <= B + S + 0
    BY <2>2, <2>5, <2>6
  <2>8. \A a \in 1 .. S : u[B + a] = "skip"
    BY DEF Building, DescribesAt, n
  <2> HIDE DEF B, S
  <2>9. q - B \in 1 .. S /\ B + (q - B) = q
    BY <2>1, <2>7
  <2> QED BY <2>8, <2>9
<1>15. ASSUME NEW k \in 1 .. m PROVE DescribesAt(G, y, u, k)
  <2>1. k \in 1 .. Len(F) /\ k <= Len(G) /\ k \in 0 .. n /\ k \in 0 .. m
    BY <1>3, <1>7, <1>9 DEF n
  <2>2. DescribesAt(F, z, u, k)
    BY <2>1 DEF Building
  <2>3. \A i \in 1 .. k : i \in 1 .. m
    BY <1>9
  <2>4. \A q \in 1 .. C[k] : y[q] = z[q]
    <3>1. C[k] <= C[n]
      BY <1>9, <1>11, <2>1, SumsGrow
    <3>2. C[k] \in Nat /\ C[n] \in Nat
      BY <1>9, <1>11, <2>1
    <3> HIDE DEF C
    <3>3. \A q \in 1 .. C[k] : q \in 1 .. Len(y)
      BY <1>2, <3>1, <3>2
    <3> QED BY <1>2, <3>3 DEF Agree
  <2> QED BY <1>1, <1>7, <1>8, <2>1, <2>2, <2>3, <2>4, DescribesSame
<1>16. \A k \in 1 .. m : G[k].bIsLast <=> k = m
  <2>1. \A k \in 1 .. m : k \in 1 .. Len(F)
    BY <1>9
  <2>2. \A k \in 1 .. m : ~F[k].bIsLast
    BY <2>1 DEF Building
  <2> QED BY <1>5, <1>7, <2>2
<1>17. Len(y) = ValueCount(G, TRUE)
  BY <1>2, <1>7, <1>10, <1>12 DEF ValueCount
<1>18. G # <<>>
  BY <1>4, <1>7
<1>19. m = 1 \/ G[m].ValueNum # 0
  BY <1>3, <1>5, <1>7
<1>20. Built(G, y, u)
  <2>1. Sums(Lengths(G))[Len(G)] <= Len(u)
    BY <1>1, <1>7, <1>10, <1>13
  <2>2. \A q \in Sums(Lengths(G))[Len(G)] + 1 .. Len(u) : u[q] = "skip"
    BY <1>7, <1>10, <1>14
  <2> QED BY <1>1, <1>2, <1>7, <1>15, <1>16, <1>17, <1>18, <1>19, <2>1, <2>2 DEF Built
<1> QED BY <1>0, <1>20 DEF G

-----------------------------------------------------------------------------
(***************************************************************************)
(* A class's slots, in order.                                              *)
(***************************************************************************)
\* A set whose elements a function lists is finite.
LEMMA ListedFinite ==
  ASSUME NEW n \in Nat, NEW f, NEW T, T = {f[x] : x \in 1 .. n}
  PROVE  IsFiniteSet(T)
<1> DEFINE g == [x \in 1 .. n |-> f[x]]
<1>1. g \in Surjection(1 .. n, T)
  BY DEF Surjection
<1>2. IsFiniteSet(1 .. n)
  BY FS_Interval
<1> QED BY <1>1, <1>2, FS_Surjection

LEMMA SlotsFinite ==
  ASSUME NEW c \in Classes
  PROVE  IsFiniteSet(Slots(c)) /\ Cardinality(Slots(c)) \in Nat
<1>1. c \in Seq(Seq(Nat \ {0})) /\ Len(c) \in Nat
  BY UnversionedAssumption
<1> DEFINE Elements(s, l) == {Slot(s, l, a) : a \in 1 .. c[s][l]}
           Links(s) == UNION {Elements(s, l) : l \in 1 .. Len(c[s])}
<1>2. ASSUME NEW s \in 1 .. Len(c) PROVE IsFiniteSet(Links(s))
  <2>1. c[s] \in Seq(Nat \ {0}) /\ Len(c[s]) \in Nat
    BY <1>1
  <2>2. ASSUME NEW l \in 1 .. Len(c[s]) PROVE IsFiniteSet(Elements(s, l))
    <3>1. c[s][l] \in Nat
      BY <2>1
    <3> DEFINE f == [a \in 1 .. c[s][l] |-> Slot(s, l, a)]
               T == Elements(s, l)
    <3>2. T = {f[a] : a \in 1 .. c[s][l]}
      BY DEF Slot
    <3> HIDE DEF f, T
    <3>3. IsFiniteSet(T)
      BY <3>1, <3>2, ListedFinite
    <3> QED BY <3>3 DEF T
  <2> DEFINE D == {Elements(s, l) : l \in 1 .. Len(c[s])}
  <2>3. IsFiniteSet(D)
    <3> DEFINE f == [l \in 1 .. Len(c[s]) |-> Elements(s, l)]
    <3> HIDE DEF Elements
    <3>1. D = {f[l] : l \in 1 .. Len(c[s])}
      OBVIOUS
    <3> HIDE DEF f, D
    <3> QED BY <2>1, <3>1, ListedFinite
  <2>4. \A x \in D : IsFiniteSet(x)
    BY <2>2
  <2> HIDE DEF D
  <2>5. IsFiniteSet(UNION D)
    BY <2>3, <2>4, FS_UNION
  <2> QED BY <2>5 DEF D
<1> DEFINE E == {Links(s) : s \in 1 .. Len(c)}
<1>3. IsFiniteSet(E)
  <2> DEFINE f == [s \in 1 .. Len(c) |-> Links(s)]
  <2> HIDE DEF Links
  <2>1. E = {f[s] : s \in 1 .. Len(c)}
    OBVIOUS
  <2> HIDE DEF f, E
  <2> QED BY <1>1, <2>1, ListedFinite
<1>4. \A x \in E : IsFiniteSet(x)
  BY <1>2
<1>5. Slots(c) = UNION E
  BY DEF Slots
<1> HIDE DEF E
<1>6. IsFiniteSet(UNION E)
  BY <1>3, <1>4, FS_UNION
<1> QED BY <1>5, <1>6, FS_CardinalityType

-----------------------------------------------------------------------------
(***************************************************************************)
(* The invariant: what is built, what is written of it, and how far the    *)
(* walk has come.                                                          *)
(***************************************************************************)
States == {"build", "save", "load", "iterate", "done", "error", "crashed"}

BuilderInv ==
  /\ class \in Classes
  /\ pc \in States
  /\ IF pc = "build" THEN Building(Fragments, ZeroMask, usage)
                     ELSE Built(Fragments, ZeroMask, usage)
  /\ bHasNonZeroValues \in BOOLEAN
  /\ bHasNonZeroValues <=> \E q \in 1 .. Len(usage) : usage[q] = "value"
  /\ Len(usage) <= Cardinality(Slots(class))

\* A beginning of the packed fragments was written; a mask only behind all of them.
DataInv ==
  pc \in States \ {"build", "save"} =>
    \E kept \in 0 .. Len(Fragments) :
      /\ words = [i \in 1 .. kept |-> Pack(Fragments[i])]
      /\ mask = <<>> \/ (kept = Len(Fragments) /\ ZeroMask # <<>> /\ mask = SaveZeroMaskData(ZeroMask))

\* The slots before the p-th that u has a value for.
UsedBefore(c, u, p) ==
  {i \in Slots(c) : Position(c, i) < p /\ Position(c, i) <= Len(u) /\ u[Position(c, i)] = "value"}

\* What was read, v, is what has a value before the p-th slot, in the class's order.
VisitedTo(c, u, v, p) ==
  /\ v \in Seq(Slots(c))
  /\ ToSet(v) = UsedBefore(c, u, p)
  /\ \A m, n \in 1 .. Len(v) : m < n => Before(v[m], v[n])

\* The place of the r-th value from the end of fragment k.
Place(F, k, r) == Start(F, k) + (F[k].ValueNum - r) + 1

\* The walk stands at slot i, which has the r-th value from the end of fragment k
\* and, if that fragment has zeros, the next bit of the mask behind the m-th.
WalkingAt(c, F, u, i, k, r, m, v) ==
  /\ k \in 1 .. Len(F) /\ r \in 1 .. F[k].ValueNum
  /\ i \in Slots(c) /\ Position(c, i) = Place(F, k, r)
  /\ m = IF F[k].bHasAnyZeroes THEN MaskStart(F, k) + (F[k].ValueNum - r) ELSE MaskStart(F, k)
  /\ VisitedTo(c, u, v, Place(F, k, r))

WalkInv ==
  /\ pc \in {"iterate", "done"} => header = Header(Fragments, ZeroMask, bHasNonZeroValues)
  /\ pc \in {"build", "save", "load"} => ZeroMaskIndex = 0 /\ visited = <<>>
  /\ pc = "iterate" =>
       IF class[1] = <<>> THEN It = NoSlot
       ELSE WalkingAt(class, Fragments, usage, It, FragmentIt, RemainingFragmentValues,
                      ZeroMaskIndex, visited)
  /\ pc = "done" => VisitedTo(class, usage, visited, Len(usage) + 1)
  /\ pc = "crashed" => class[1] = <<>>

IInv == BuilderInv /\ DataInv /\ WalkInv

LEMMA InitBuilds ==
  ASSUME Init
  PROVE  BuilderInv
<1>1. Fragments \in Seq(FFragment) /\ Fragments # <<>> /\ Len(Fragments) = 1 /\ Fragments[1] = NewFragment
  BY NewFragmentFits DEF Init
<1>2. /\ NewFragment.SkipNum = 0 /\ NewFragment.ValueNum = 0
      /\ ~NewFragment.bIsLast
  BY DEF NewFragment
<1>3. 1 .. 0 = {} /\ Len(usage) = 0 /\ Len(ZeroMask) = 0 /\ usage = <<>> /\ ZeroMask = <<>>
  BY DEF Init
<1>4. Begin(Fragments, 1) = 0 /\ MaskStart(Fragments, 1) = 0
  <2>1. 1 - 1 = 0
    OBVIOUS
  <2> QED BY <1>1, <2>1, CountsDef, MaskDef DEF Begin, MaskStart
<1>5. usage \in Seq({"skip", "zero", "value"}) /\ ZeroMask \in Seq(Bits)
  BY <1>3
<1>6. \A k \in 1 .. 1 : k = 1
  OBVIOUS
<1>7. DescribesAt(Fragments, ZeroMask, usage, 1)
  BY <1>1, <1>2, <1>3 DEF DescribesAt
<1>8. \A k \in 1 .. 1 : DescribesAt(Fragments, ZeroMask, usage, k) /\ ~Fragments[k].bIsLast
  BY <1>1, <1>2, <1>6, <1>7
<1>9. /\ Len(usage) = Begin(Fragments, 1) + Fragments[1].SkipNum + Fragments[1].ValueNum
      /\ Len(ZeroMask) = MaskStart(Fragments, 1) + Fragments[1].ValueNum
  BY <1>1, <1>2, <1>3, <1>4
<1>10. Building(Fragments, ZeroMask, usage)
  <2>1. \A v \in 1 .. Fragments[1].ValueNum : ~ZeroMask[MaskStart(Fragments, 1) + v]
    BY <1>1, <1>2, <1>3
  <2> QED BY <1>1, <1>5, <1>8, <1>9, <2>1 DEF Building
<1>11. Len(usage) <= Cardinality(Slots(class))
  BY <1>3, SlotsFinite, FS_CardinalityType DEF Init
<1>12. /\ class \in Classes /\ pc = "build" /\ pc \in States
       /\ bHasNonZeroValues \in BOOLEAN /\ ~bHasNonZeroValues
  BY DEF Init, States
<1>13. ~\E q \in 1 .. Len(usage) : usage[q] = "value"
  BY <1>3
<1> QED BY <1>10, <1>11, <1>12, <1>13 DEF BuilderInv

\* The header after a fragment was begun where one is needed.
LEMMA OpenedBuilds ==
  ASSUME Building(Fragments, ZeroMask, usage), NEW closed \in BOOLEAN
  PROVE  /\ Building(Opened(closed), Trimmed(closed), usage)
         /\ Opened(closed)[Len(Opened(closed))] = IF closed THEN NewFragment ELSE Last(Fragments)
<1>1. FragmentsFit
  BY DEF Building, FragmentsFit
<1>2. CASE closed
  <2>1. Opened(closed) = Append(Fragments, NewFragment)
        /\ Trimmed(closed) = TrimZeroMask(ZeroMask, Last(Fragments))
    BY <1>2 DEF Opened, Trimmed
  <2> QED BY <1>1, <2>1, OpenBuilds, OpenedFits
<1>3. CASE ~closed
  <2>1. Opened(closed) = Fragments /\ Trimmed(closed) = ZeroMask
    BY <1>3 DEF Opened, Trimmed
  <2> QED BY <1>1, <2>1, OpenedFits
<1> QED BY <1>2, <1>3

\* Being told of one more property keeps the count and the flag right.
LEMMA DescribingKeeps ==
  ASSUME BuilderInv, NEW what \in {"skip", "zero", "value"}, Describing(what),
         bHasNonZeroValues' = (bHasNonZeroValues \/ what = "value"),
         Building(Fragments', ZeroMask', usage')
  PROVE  BuilderInv'
<1>1. usage \in Seq({"skip", "zero", "value"})
  BY DEF BuilderInv, Building, Describing
<1>2. /\ usage' = Append(usage, what) /\ Len(usage) < Cardinality(Slots(class))
      /\ class' = class /\ pc' = pc /\ pc = "build" /\ class \in Classes
  BY DEF BuilderInv, Describing
<1>3. /\ Len(usage') = Len(usage) + 1 /\ Len(usage) \in Nat
      /\ \A q \in 1 .. Len(usage) : usage'[q] = usage[q]
      /\ usage'[Len(usage) + 1] = what
  BY <1>1, <1>2
<1>4. \A q \in 1 .. Len(usage') : q \in 1 .. Len(usage) \/ q = Len(usage) + 1
  BY <1>3
<1>5. \A q \in 1 .. Len(usage) : q \in 1 .. Len(usage')
  BY <1>3
<1>6. (\E q \in 1 .. Len(usage') : usage'[q] = "value")
         <=> ((\E q \in 1 .. Len(usage) : usage[q] = "value") \/ what = "value")
  <2>1. Len(usage) + 1 \in 1 .. Len(usage')
    BY <1>3
  <2> QED BY <1>3, <1>4, <1>5, <2>1
<1>7. bHasNonZeroValues \in BOOLEAN /\ (bHasNonZeroValues <=> \E q \in 1 .. Len(usage) : usage[q] = "value")
  BY DEF BuilderInv
<1>8. Len(usage') <= Cardinality(Slots(class'))
  BY <1>2, <1>3, SlotsFinite, FS_CardinalityType
<1>9. /\ bHasNonZeroValues' \in BOOLEAN
      /\ bHasNonZeroValues' <=> \E q \in 1 .. Len(usage') : usage'[q] = "value"
  BY <1>6, <1>7
<1> QED BY <1>2, <1>8, <1>9 DEF BuilderInv, States

LEMMA IncludeKeepsBuild ==
  ASSUME BuilderInv, NEW bIsZero \in BOOLEAN, IncludeProperty(bIsZero)
  PROVE  BuilderInv'
<1> DEFINE full == Last(Fragments).ValueNum = ValueMax
           opened == Opened(full)
           told == IF bIsZero THEN "zero" ELSE "value"
<1>1. /\ Describing(told)
      /\ Fragments' = [opened EXCEPT ![Len(opened)] = Included(@, bIsZero)]
      /\ ZeroMask' = Append(Trimmed(full), bIsZero)
      /\ bHasNonZeroValues' = (bHasNonZeroValues \/ ~bIsZero)
  BY DEF IncludeProperty
<1>2. Building(Fragments, ZeroMask, usage)
  BY <1>1 DEF BuilderInv, Describing
<1>3. full \in BOOLEAN /\ FragmentsFit
  BY <1>2 DEF Building, FragmentsFit
<1>4. Last(Fragments) \in FFragment /\ (full <=> Last(Fragments).ValueNum = ValueMax)
  BY <1>3, LastFits DEF FragmentsFit
<1> HIDE DEF full
<1>5. /\ Building(opened, Trimmed(full), usage)
      /\ opened[Len(opened)] = IF full THEN NewFragment ELSE Last(Fragments)
  BY <1>2, <1>3, OpenedBuilds
<1>6. opened[Len(opened)].ValueNum < ValueMax
  <2>1. NewFragment.ValueNum = 0
    BY DEF NewFragment
  <2>2. Last(Fragments).ValueNum \in 0 .. ValueMax
    BY <1>4 DEF FFragment
  <2>3. CASE full
    BY <1>5, <2>1, <2>3, FragmentAssumption
  <2>4. CASE ~full
    BY <1>4, <1>5, <2>2, <2>4, FragmentAssumption
  <2> QED BY <2>3, <2>4
<1>7. usage' = Append(usage, told)
  BY <1>1 DEF Describing
<1> HIDE DEF opened
<1>8. Building(Fragments', ZeroMask', usage')
  BY <1>1, <1>5, <1>6, <1>7, IncludeBuilds
<1>9. told \in {"skip", "zero", "value"} /\ (~bIsZero <=> told = "value")
  OBVIOUS
<1>10. bHasNonZeroValues' = (bHasNonZeroValues \/ told = "value")
  BY <1>1, <1>9
<1> HIDE DEF told
<1> QED BY <1>1, <1>8, <1>9, <1>10, DescribingKeeps

LEMMA ExcludeKeepsBuild ==
  ASSUME BuilderInv, ExcludeProperty
  PROVE  BuilderInv'
<1> DEFINE closed == Last(Fragments).ValueNum # 0 \/ Last(Fragments).SkipNum = SkipMax
           opened == Opened(closed)
<1>1. /\ Describing("skip")
      /\ Fragments' = [opened EXCEPT ![Len(opened)].SkipNum = @ + 1]
      /\ ZeroMask' = Trimmed(closed)
      /\ bHasNonZeroValues' = bHasNonZeroValues
  BY DEF ExcludeProperty
<1>2. Building(Fragments, ZeroMask, usage)
  BY <1>1 DEF BuilderInv, Describing
<1>3. closed \in BOOLEAN /\ FragmentsFit
  BY <1>2 DEF Building, FragmentsFit
<1>4. /\ Last(Fragments) \in FFragment
      /\ ~closed => Last(Fragments).ValueNum = 0 /\ Last(Fragments).SkipNum # SkipMax
  BY <1>3, LastFits DEF FragmentsFit
<1> HIDE DEF closed
<1>5. /\ Building(opened, Trimmed(closed), usage)
      /\ opened[Len(opened)] = IF closed THEN NewFragment ELSE Last(Fragments)
  BY <1>2, <1>3, OpenedBuilds
<1>6. opened[Len(opened)].ValueNum = 0 /\ opened[Len(opened)].SkipNum < SkipMax
  <2>1. NewFragment.ValueNum = 0 /\ NewFragment.SkipNum = 0
    BY DEF NewFragment
  <2>2. Last(Fragments).SkipNum \in 0 .. SkipMax
    BY <1>4 DEF FFragment
  <2>3. CASE closed
    BY <1>5, <2>1, <2>3, FragmentAssumption
  <2>4. CASE ~closed
    BY <1>4, <1>5, <2>2, <2>4, FragmentAssumption
  <2> QED BY <2>3, <2>4
<1>7. usage' = Append(usage, "skip")
  BY <1>1 DEF Describing
<1> HIDE DEF opened
<1>8. Building(Fragments', ZeroMask', usage')
  BY <1>1, <1>5, <1>6, <1>7, ExcludeBuilds
<1>9. bHasNonZeroValues \in BOOLEAN
  BY DEF BuilderInv
<1> QED BY <1>1, <1>8, <1>9, DescribingKeeps

LEMMA FinalizeKeepsBuild ==
  ASSUME BuilderInv, Finalize
  PROVE  BuilderInv'
<1>1. Building(Fragments, ZeroMask, usage)
  BY DEF BuilderInv, Finalize
<1> DEFINE kept == WithoutTrailingSkips(Fragments)
<1>2. kept = WithoutTrailingSkips(Fragments)
  OBVIOUS
<1>3. /\ Fragments' = [kept EXCEPT ![Len(kept)].bIsLast = TRUE]
      /\ ZeroMask' = TrimZeroMask(ZeroMask, Last(Fragments))
      /\ pc' = "save" /\ UNCHANGED <<class, usage, bHasNonZeroValues>>
  BY DEF Finalize
<1> HIDE DEF kept
<1>4. Built(Fragments', ZeroMask', usage)
  BY <1>1, <1>2, <1>3, FinalizeBuilds
<1> QED BY <1>3, <1>4 DEF BuilderInv, States

LEMMA OthersKeepBuild ==
  ASSUME BuilderInv, pc # "build", pc' \in States \ {"build"},
         UNCHANGED <<class, usage, Fragments, ZeroMask, bHasNonZeroValues>>
  PROVE  BuilderInv'
BY DEF BuilderInv, States

LEMMA NextKeepsBuild ==
  ASSUME BuilderInv, [Next]_vars
  PROVE  BuilderInv'
<1>1. ASSUME NEW bIsZero \in BOOLEAN, IncludeProperty(bIsZero) PROVE BuilderInv'
  BY <1>1, IncludeKeepsBuild
<1>2. CASE ExcludeProperty
  BY <1>2, ExcludeKeepsBuild
<1>3. CASE Finalize
  BY <1>3, FinalizeKeepsBuild
<1>4. CASE Save
  BY <1>4, OthersKeepBuild DEF Save, build, States
<1>5. CASE Load
  BY <1>5, OthersKeepBuild DEF Load, Settle, build, States
<1>6. CASE LoseProperty
  BY <1>6, OthersKeepBuild DEF LoseProperty, build, States
<1>7. CASE ReadProperty
  <2>1. pc = "iterate" /\ UNCHANGED build /\ UNCHANGED class
    BY <1>7 DEF ReadProperty
  <2>2. pc' \in {"iterate", "done", "crashed"}
    BY <1>7, <2>1 DEF ReadProperty, Settle
  <2> QED BY <2>1, <2>2, OthersKeepBuild DEF build, States
<1>8. CASE UNCHANGED vars \/ Stopped
  BY <1>8 DEF vars, build, BuilderInv, Stopped
<1> QED BY <1>1, <1>2, <1>3, <1>4, <1>5, <1>6, <1>7, <1>8 DEF Next

-----------------------------------------------------------------------------
(***************************************************************************)
(* The data.                                                               *)
(***************************************************************************)
LEMMA SaveKeepsData ==
  ASSUME BuilderInv, Save
  PROVE  DataInv'
<1> DEFINE hasMask == ZeroMask # <<>>
           lost(cut) == IF hasMask THEN cut - 1 ELSE cut
           kept(cut) == IF lost(cut) <= 0 THEN Len(Fragments)
                        ELSE IF lost(cut) < Len(Fragments) THEN Len(Fragments) - lost(cut) ELSE 0
<1>1. PICK cut \in 0 .. MaxCut :
        /\ words' = [i \in 1 .. kept(cut) |-> Pack(Fragments[i])]
        /\ mask' = IF hasMask /\ cut = 0 THEN SaveZeroMaskData(ZeroMask) ELSE <<>>
  BY DEF Save
<1>2. Fragments' = Fragments /\ ZeroMask' = ZeroMask
  BY DEF Save, build
<1>3. Len(Fragments) \in Nat
  BY LastFits DEF BuilderInv, Save, Built
<1>4. kept(cut) \in 0 .. Len(Fragments)
  BY <1>3, UnversionedAssumption
<1>5. hasMask /\ cut = 0 => kept(cut) = Len(Fragments)
  OBVIOUS
<1> HIDE DEF kept
<1>6. \/ mask' = <<>>
      \/ kept(cut) = Len(Fragments) /\ ZeroMask # <<>> /\ mask' = SaveZeroMaskData(ZeroMask)
  BY <1>1, <1>5
<1> QED BY <1>1, <1>2, <1>4, <1>6 DEF DataInv

\* Reading the words back gives all fragments, or nothing when one is missing.
LEMMA UnpackedWhole ==
  ASSUME NEW z, NEW u, Built(Fragments, z, u), NEW kept \in 0 .. Len(Fragments),
         words = [i \in 1 .. kept |-> Pack(Fragments[i])]
  PROVE  Unpacked = IF kept = Len(Fragments) THEN Fragments ELSE <<>>
<1> DEFINE n == Len(Fragments)
           I == {i \in 1 .. Len(words) : Unpack(words[i]).bIsLast}
           last == SelectInSeq(words, LAMBDA w : Unpack(w).bIsLast)
<1>1. Fragments \in Seq(FFragment) /\ n \in Nat \ {0}
  BY LastFits DEF Built
<1>2. Len(words) = kept /\ kept \in Nat /\ \A i \in 1 .. kept : i \in 1 .. n
  BY <1>1
<1>3. \A i \in 1 .. kept : Unpack(words[i]) = Fragments[i]
  BY <1>1, <1>2, PackRoundTrip
<1>4. \A i \in 1 .. n : Fragments[i].bIsLast <=> i = n
  BY DEF Built
<1>5. last = IF I # {} THEN Min(I) ELSE 0
  BY DEF SelectInSeq
<1>6. Unpacked = [i \in 1 .. last |-> Unpack(words[i])]
  BY DEF Unpacked
<1> HIDE DEF n
<1>7. \A i \in 1 .. kept : i \in I <=> i = n
  BY <1>2, <1>3, <1>4
<1>8. I \subseteq 1 .. kept
  BY <1>2
<1> HIDE DEF I, last
<1>9. CASE kept = n
  <2>1. I = {n}
    <3>1. n \in 1 .. kept
      BY <1>1, <1>9 DEF n
    <3>2. n \in I
      BY <1>7, <3>1
    <3>3. \A i \in I : i = n
      BY <1>7, <1>8
    <3> QED BY <3>2, <3>3
  <2>2. Min(I) = n
    BY <1>1, <2>1 DEF Min
  <2>3. last = n
    BY <1>5, <2>1, <2>2
  <2>4. Unpacked = [i \in 1 .. n |-> Fragments[i]]
    BY <1>3, <1>6, <1>9, <2>3
  <2>5. Fragments = [i \in 1 .. n |-> Fragments[i]]
    BY <1>1 DEF n
  <2> QED BY <1>9, <2>4, <2>5 DEF n
<1>10. CASE kept # n
  <2>1. I = {}
    BY <1>1, <1>2, <1>7, <1>8, <1>10
  <2>2. last = 0
    BY <1>5, <2>1
  <2>3. Unpacked = <<>>
    BY <1>6, <2>2
  <2> QED BY <1>10, <2>3 DEF n
<1> QED BY <1>9, <1>10

\* The mask is written in whole units, and in none only when it is empty.
LEMMA MaskWidthFits ==
  ASSUME NEW n \in Nat
  PROVE  (MaskWidth(n) \in Nat \ {0} /\ MaskWidth(n) >= n) \/ n = 0
<1>1. MaskBits \in Nat \ {0}
  BY UnversionedAssumption
<1> DEFINE b == 4 * MaskBits
           q == (n + b - 1) \div b
<1>2. b \in Nat \ {0}
  BY <1>1
<1>3. q \in Nat /\ b * q >= n
  <2> HIDE DEF b
  <2>1. n + b - 1 \in Nat
    BY <1>2
  <2>2. n + b - 1 = b * q + ((n + b - 1) % b) /\ (n + b - 1) % b \in 0 .. b - 1 /\ q \in Int
    BY <1>2, <2>1
  <2> HIDE DEF q
  <2>3. b * q >= n
    BY <1>2, <2>2
  <2>4. q >= 0
    <3> SUFFICES ASSUME q < 0 PROVE FALSE
      BY <2>2
    <3>1. b * q < 0
      BY <1>2, <2>2
    <3> QED BY <1>2, <2>2, <2>3, <3>1
  <2> QED BY <2>2, <2>3, <2>4
<1>4. MaskWidth(n) = IF n <= MaskBits THEN MaskBits ELSE IF n <= 2 * MaskBits THEN 2 * MaskBits ELSE b * q
  BY DEF MaskWidth
<1> HIDE DEF b, q
<1>5. b * q \in Nat
  BY <1>2, <1>3
<1> QED BY <1>1, <1>3, <1>4, <1>5

LEMMA SavedMask ==
  ASSUME NEW z \in Seq(Bits), z # <<>>
  PROVE  /\ SubSeq(SaveZeroMaskData(z), 1, Len(z)) = z
         /\ Len(SaveZeroMaskData(z)) \in Nat
<1> DEFINE n == Len(z)
           w == MaskWidth(n)
           pad == [i \in 1 .. w - n |-> FALSE]
<1>1. n \in Nat \ {0}
  OBVIOUS
<1>2. w - n \in Nat
  BY <1>1, MaskWidthFits
<1>3. pad \in Seq(Bits)
  <2>1. FALSE \in Bits
    BY DEF Bits
  <2>2. ASSUME NEW k \in Nat, NEW x \in Bits PROVE [i \in 1 .. k |-> x] \in Seq(Bits)
    OBVIOUS
  <2> QED BY <1>2, <2>1, <2>2
<1>4. SaveZeroMaskData(z) = z \o pad
  BY DEF SaveZeroMaskData
<1> HIDE DEF pad
<1>5. SubSeq(z \o pad, 1, n) = z /\ Len(z \o pad) \in Nat
  BY <1>1, <1>3
<1> QED BY <1>4, <1>5

\* A place in the k-th fragment's part of what was told.
LEMMA BuiltDef ==
  ASSUME NEW F, NEW z, NEW u, Built(F, z, u)
  PROVE  /\ F \in Seq(FFragment) /\ Len(F) \in Nat \ {0} /\ Len(u) \in Nat
         /\ Lengths(F) \in Seq(Nat) /\ Len(Lengths(F)) = Len(F)
         /\ Sums(Lengths(F)) \in [0 .. Len(F) -> Nat]
         /\ \A k \in 1 .. Len(F) :
              /\ F[k].ValueNum \in Nat /\ F[k].SkipNum \in Nat /\ Begin(F, k) \in Nat
              /\ Begin(F, k) = Sums(Lengths(F))[k - 1]
              /\ Start(F, k) = Begin(F, k) + F[k].SkipNum
              /\ Sums(Lengths(F))[k] = Start(F, k) + F[k].ValueNum
              /\ Sums(Lengths(F))[k] <= Len(u)
              /\ DescribesAt(F, z, u, k)
<1>1. F \in Seq(FFragment) /\ Len(F) \in Nat \ {0} /\ Len(u) \in Nat
  BY LastFits DEF Built
<1>2. /\ Lengths(F) \in Seq(Nat) /\ Len(Lengths(F)) = Len(F)
      /\ Sums(Lengths(F)) \in [0 .. Len(F) -> Nat]
  BY <1>1, CountsDef
<1>3. ASSUME NEW k \in 1 .. Len(F)
      PROVE  /\ F[k].ValueNum \in Nat /\ F[k].SkipNum \in Nat /\ Begin(F, k) \in Nat
             /\ Begin(F, k) = Sums(Lengths(F))[k - 1]
             /\ Start(F, k) = Begin(F, k) + F[k].SkipNum
             /\ Sums(Lengths(F))[k] = Start(F, k) + F[k].ValueNum
             /\ Sums(Lengths(F))[k] <= Len(u)
             /\ DescribesAt(F, z, u, k)
  <2>1. /\ F[k].SkipNum \in Nat /\ F[k].ValueNum \in Nat /\ Begin(F, k) \in Nat
        /\ Sums(Lengths(F))[k] = Begin(F, k) + F[k].SkipNum + F[k].ValueNum
    BY <1>1, CountsDef
  <2>2. Begin(F, k) = Sums(Lengths(F))[k - 1] /\ Start(F, k) = Begin(F, k) + F[k].SkipNum
    BY DEF Begin, Start
  <2>3. Sums(Lengths(F))[k] <= Len(u)
    <3> DEFINE L == Sums(Lengths(F))
               n == Len(F)
    <3>1. L[n] <= Len(u)
      BY DEF Built
    <3>2. n \in 0 .. n /\ k \in 0 .. n
      BY <1>1
    <3>3. L[k] <= L[n]
      BY <1>2, <3>2, SumsGrow
    <3>4. L[k] \in Nat /\ L[n] \in Nat
      BY <1>2, <3>2
    <3> HIDE DEF L
    <3>5. L[k] <= Len(u)
      BY <1>1, <3>1, <3>3, <3>4
    <3> QED BY <3>5 DEF L
  <2>4. DescribesAt(F, z, u, k)
    BY DEF Built
  <2> QED BY <2>1, <2>2, <2>3, <2>4
<1> QED BY <1>1, <1>2, <1>3

\* The counts and the mask say whether there is a value that is not zero.
LEMMA ValuesAgree ==
  ASSUME NEW F, NEW z, NEW u, Built(F, z, u)
  PROVE  (ValueCount(F, FALSE) > 0 \/ \E i \in 1 .. ValueCount(F, TRUE) : ~z[i])
            <=> \E q \in 1 .. Len(u) : u[q] = "value"
<1> DEFINE n == Len(F)
           L == Sums(Lengths(F))
           C == Sums(ValueNums(F, TRUE))
           D == Sums(ValueNums(F, FALSE))
<1>1. /\ F \in Seq(FFragment) /\ n \in Nat \ {0} /\ Len(u) \in Nat /\ n \in 0 .. n
      /\ Lengths(F) \in Seq(Nat) /\ Len(Lengths(F)) = n /\ L \in [0 .. n -> Nat]
  BY BuiltDef
<1>2. /\ ValueNums(F, TRUE) \in Seq(Nat) /\ Len(ValueNums(F, TRUE)) = n /\ C \in [0 .. n -> Nat]
      /\ ValueNums(F, FALSE) \in Seq(Nat) /\ Len(ValueNums(F, FALSE)) = n /\ D \in [0 .. n -> Nat]
      /\ D[0] = 0
  BY <1>1, MaskDef
<1>3. ValueCount(F, TRUE) = C[n] /\ ValueCount(F, FALSE) = D[n]
  BY DEF ValueCount
<1>4. \A k \in 1 .. n : F[k].bHasAnyZeroes \in BOOLEAN /\ MaskStart(F, k) = C[k - 1] /\ MaskStart(F, k) \in Nat
        /\ (F[k].bHasAnyZeroes => C[k] = MaskStart(F, k) + F[k].ValueNum)
        /\ (~F[k].bHasAnyZeroes => C[k] = MaskStart(F, k))
  BY <1>1, MaskSums
<1>5. ASSUME NEW k \in 1 .. n
      PROVE  /\ F[k].bHasAnyZeroes => D[k] = D[k - 1]
             /\ ~F[k].bHasAnyZeroes => D[k] = D[k - 1] + F[k].ValueNum
  <2>1. F[k].bHasAnyZeroes \in BOOLEAN
    BY <1>4
  <2>2. D[k] = D[k - 1] + ValueNums(F, FALSE)[k]
        /\ ValueNums(F, FALSE)[k] = IF F[k].bHasAnyZeroes = FALSE THEN F[k].ValueNum ELSE 0
    BY <1>1, MaskDef
  <2>3. D[k - 1] \in Nat
    <3>1. k - 1 \in 0 .. n
      BY <1>1
    <3> QED BY <1>2, <3>1
  <2> HIDE DEF D, n
  <2>4. CASE F[k].bHasAnyZeroes
    <3>1. F[k].bHasAnyZeroes # FALSE
      BY <2>4
    <3>2. ValueNums(F, FALSE)[k] = 0
      BY <2>2, <3>1
    <3>3. D[k] = D[k - 1] + 0
      BY <2>2, <3>2
    <3>4. D[k] = D[k - 1]
      BY <2>3, <3>3
    <3> QED BY <2>4, <3>4
  <2>5. CASE ~F[k].bHasAnyZeroes
    <3>1. F[k].bHasAnyZeroes = FALSE
      BY <2>1, <2>5
    <3>2. ValueNums(F, FALSE)[k] = F[k].ValueNum
      BY <2>2, <3>1
    <3> QED BY <2>2, <2>5, <3>2
  <2> QED BY <2>4, <2>5
<1>6. \A k \in 1 .. n : /\ F[k].ValueNum \in Nat /\ F[k].SkipNum \in Nat /\ Begin(F, k) \in Nat
                        /\ Begin(F, k) = L[k - 1] /\ Start(F, k) = Begin(F, k) + F[k].SkipNum
                        /\ L[k] = Start(F, k) + F[k].ValueNum /\ L[k] <= Len(u)
                        /\ DescribesAt(F, z, u, k)
  BY BuiltDef
<1> HIDE DEF n, L, C, D
\* Where fragment k says so, there is a value.
<1>7. ASSUME NEW k \in 1 .. n, NEW v \in 1 .. F[k].ValueNum,
             ~(F[k].bHasAnyZeroes /\ z[MaskStart(F, k) + v])
      PROVE  \E q \in 1 .. Len(u) : u[q] = "value"
  <2> DEFINE S == Start(F, k)
             V == F[k].ValueNum
  <2>1. S \in Nat /\ V \in Nat /\ v \in 1 .. V /\ S + V <= Len(u)
    BY <1>6
  <2>2. u[S + v] = "value"
    BY <1>6, <1>7 DEF DescribesAt
  <2> HIDE DEF S, V
  <2>3. S + v \in 1 .. Len(u)
    BY <1>1, <2>1
  <2> QED BY <2>2, <2>3
<1>8. ASSUME D[n] > 0 PROVE \E q \in 1 .. Len(u) : u[q] = "value"
  <2>0. D[n] \in Nat /\ 1 \in Nat \ {0} /\ 1 <= D[n]
    BY <1>1, <1>2, <1>8
  <2>1. PICK k \in 1 .. n : D[k - 1] < 1 /\ 1 <= D[k]
    BY <1>1, <1>2, <2>0, SumsSegment DEF D
  <2>2. D[k] # D[k - 1]
    <3>1. k \in 0 .. n /\ k - 1 \in 0 .. n
      BY <1>1
    <3>2. D[k] \in Nat /\ D[k - 1] \in Nat
      BY <1>2, <3>1
    <3> QED BY <2>1, <3>2
  <2>3. ~F[k].bHasAnyZeroes
    BY <1>5, <2>2
  <2>4. D[k] = D[k - 1] + F[k].ValueNum
    BY <1>5, <2>3
  <2>5. F[k].ValueNum # 0
    <3>1. k - 1 \in 0 .. n
      BY <1>1
    <3>2. D[k - 1] \in Nat
      BY <1>2, <3>1
    <3> QED BY <2>2, <2>4, <3>2
  <2>6. 1 \in 1 .. F[k].ValueNum
    BY <1>6, <2>5
  <2> QED BY <1>7, <2>3, <2>6
<1>9. ASSUME NEW i \in 1 .. C[n], ~z[i] PROVE \E q \in 1 .. Len(u) : u[q] = "value"
  <2>1. i \in Nat \ {0} /\ i <= C[n]
    BY <1>1, <1>2
  <2>2. PICK k \in 1 .. n : C[k - 1] < i /\ i <= C[k]
    BY <1>1, <1>2, <2>1, SumsSegment DEF C
  <2> DEFINE M == MaskStart(F, k)
             V == F[k].ValueNum
  <2>3. M < i /\ M \in Nat /\ V \in Nat /\ i <= C[k]
    BY <1>4, <1>6, <2>2
  <2>4. F[k].bHasAnyZeroes
    <3> SUFFICES ASSUME ~F[k].bHasAnyZeroes PROVE FALSE
      OBVIOUS
    <3>1. C[k] = M
      BY <1>4
    <3> HIDE DEF M, V
    <3> QED BY <2>1, <2>3, <3>1
  <2>5. C[k] = M + V
    BY <1>4, <2>4
  <2> HIDE DEF M, V
  <2>6. i - M \in 1 .. V /\ M + (i - M) = i
    BY <2>1, <2>3, <2>5
  <2>7. ~z[M + (i - M)]
    BY <1>9, <2>6
  <2> QED BY <1>7, <2>6, <2>7 DEF M, V
<1>10. ASSUME NEW q \in 1 .. Len(u), u[q] = "value"
       PROVE  D[n] > 0 \/ \E i \in 1 .. C[n] : ~z[i]
  <2>1. q \in Nat \ {0} /\ q <= L[n]
    <3>1. \A x \in L[n] + 1 .. Len(u) : u[x] = "skip"
      BY DEF Built, L, n
    <3>2. L[n] \in Nat
      BY <1>1
    <3> QED BY SMTT(30), <1>1, <1>10, <3>1, <3>2
  <2>2. PICK k \in 1 .. n : L[k - 1] < q /\ q <= L[k]
    BY <1>1, <2>1, SumsSegment DEF L
  <2> DEFINE B == Begin(F, k)
             S == F[k].SkipNum
             V == F[k].ValueNum
             M == MaskStart(F, k)
  <2>3. B \in Nat /\ S \in Nat /\ V \in Nat /\ B < q /\ q <= (B + S) + V /\ M \in Nat /\ Start(F, k) = B + S
    BY <1>4, <1>6, <2>2
  <2>4. /\ \A x \in 1 .. S : u[B + x] = "skip"
        /\ \A v \in 1 .. V : u[Start(F, k) + v] = IF F[k].bHasAnyZeroes /\ z[M + v] THEN "zero" ELSE "value"
    BY <1>6 DEF DescribesAt
  <2> HIDE DEF B, S, V, M
  <2>5. q - B \notin 1 .. S
    <3>1. B + (q - B) = q
      BY <2>1, <2>3
    <3> QED BY <1>10, <2>4, <3>1
  <2> DEFINE v == q - (B + S)
  <2>6. v \in 1 .. V /\ Start(F, k) + v = q
    BY <2>1, <2>3, <2>5
  <2>7. ~(F[k].bHasAnyZeroes /\ z[M + v])
    BY <1>10, <2>4, <2>6
  <2> HIDE DEF v
  <2>8. CASE F[k].bHasAnyZeroes
    <3>1. ~z[M + v] /\ C[k] = M + V
      BY <1>4, <2>7, <2>8 DEF M, V
    <3>2. k \in 0 .. n
      BY <1>1
    <3>3. C[k] <= C[n]
      BY <1>1, <1>2, <3>2, SumsGrow DEF C
    <3>4. C[n] \in Nat
      BY <1>1, <1>2
    <3>5. M + v \in 1 .. C[n]
      BY <2>3, <2>6, <3>1, <3>3, <3>4
    <3> QED BY <3>1, <3>5
  <2>9. CASE ~F[k].bHasAnyZeroes
    <3>1. D[k] = D[k - 1] + V
      BY <1>5, <2>9 DEF V
    <3>2. k \in 0 .. n /\ k - 1 \in 0 .. n
      BY <1>1
    <3>3. D[k] <= D[n]
      BY <1>1, <1>2, <3>2, SumsGrow DEF D
    <3>4. D[n] \in Nat /\ D[k - 1] \in Nat
      BY <1>1, <1>2, <3>2
    <3> QED BY <2>3, <2>6, <3>1, <3>3, <3>4
  <2> QED BY <2>8, <2>9
<1> QED BY <1>3, <1>8, <1>9, <1>10

\* What is loaded without an error is the header the builder finished.
LEMMA LoadIsBuilt ==
  ASSUME BuilderInv, DataInv, pc = "load", ~HitsEnd
  PROVE  LoadedHeader = Header(Fragments, ZeroMask, bHasNonZeroValues)
<1>1. Built(Fragments, ZeroMask, usage)
  BY DEF BuilderInv
<1>2. PICK kept \in 0 .. Len(Fragments) :
        /\ words = [i \in 1 .. kept |-> Pack(Fragments[i])]
        /\ \/ mask = <<>>
           \/ kept = Len(Fragments) /\ ZeroMask # <<>> /\ mask = SaveZeroMaskData(ZeroMask)
  BY DEF DataInv, States
<1>3. Unpacked = Fragments
  <2>1. Unpacked = IF kept = Len(Fragments) THEN Fragments ELSE <<>>
    BY <1>1, <1>2, UnpackedWhole
  <2> QED BY <2>1 DEF HitsEnd
<1> DEFINE n == ValueCount(Fragments, TRUE)
           bits == SubSeq(mask, 1, n)
<1>4. ZeroMask \in Seq(Bits) /\ Len(ZeroMask) = n /\ n \in Nat
  <2>1. ZeroMask \in Seq(Bits)
    BY <1>1 DEF Built
  <2>2. Len(ZeroMask) \in Nat
    BY <2>1
  <2>3. Len(ZeroMask) = n
    BY <1>1 DEF Built
  <2> QED BY <2>1, <2>2, <2>3
<1>5. n > 0 => Len(mask) >= MaskWidth(n)
  <2>1. n > 0 => ~(Len(mask) < MaskWidth(n))
    BY <1>3 DEF HitsEnd
  <2>2. Len(mask) \in Nat
    <3>1. CASE mask = <<>>
      BY <3>1
    <3>2. CASE ZeroMask # <<>> /\ mask = SaveZeroMaskData(ZeroMask)
      BY <1>4, <3>2, SavedMask
    <3> QED BY <1>2, <3>1, <3>2
  <2>3. n \in Nat
    BY <1>4
  <2> HIDE DEF n
  <2>4. n > 0 => MaskWidth(n) \in Nat
    BY <2>3, MaskWidthFits
  <2> QED BY <2>1, <2>2, <2>3, <2>4
<1> HIDE DEF n
<1>6. bits = ZeroMask
  <2>1. CASE n = 0
    <3>1. ZeroMask = <<>>
      BY <1>4, <2>1
    <3>2. bits = <<>>
      BY <2>1
    <3> QED BY <3>1, <3>2
  <2>2. CASE n # 0
    <3>1. n \in Nat /\ n > 0 /\ ZeroMask # <<>>
      BY <1>4, <2>2
    <3>2. Len(mask) >= MaskWidth(n) /\ MaskWidth(n) \in Nat \ {0}
      BY <1>5, <3>1, MaskWidthFits
    <3>3. mask # <<>>
      BY <3>2
    <3>4. mask = SaveZeroMaskData(ZeroMask)
      BY <1>2, <3>3
    <3> QED BY <1>4, <3>1, <3>4, SavedMask
  <2> QED BY <2>1, <2>2
<1>7. bHasNonZeroValues \in BOOLEAN /\ (bHasNonZeroValues <=> \E q \in 1 .. Len(usage) : usage[q] = "value")
  BY DEF BuilderInv
<1>8. (ValueCount(Fragments, FALSE) > 0 \/ \E i \in 1 .. n : ~ZeroMask[i])
         <=> \E q \in 1 .. Len(usage) : usage[q] = "value"
  BY <1>1, ValuesAgree DEF n
<1>9. LoadedHeader = Header(Fragments, bits, ValueCount(Fragments, FALSE) > 0 \/ \E i \in 1 .. n : ~bits[i])
  BY <1>3 DEF LoadedHeader, n
<1> HIDE DEF bits
<1>10. LoadedHeader = Header(Fragments, ZeroMask, ValueCount(Fragments, FALSE) > 0 \/ \E i \in 1 .. n : ~ZeroMask[i])
  BY <1>6, <1>9
<1> DEFINE flag == ValueCount(Fragments, FALSE) > 0 \/ \E i \in 1 .. n : ~ZeroMask[i]
<1>11. flag \in BOOLEAN /\ (flag <=> bHasNonZeroValues)
  BY <1>7, <1>8
<1>12. LoadedHeader = Header(Fragments, ZeroMask, flag)
  BY <1>10
<1> HIDE DEF flag
<1>13. flag = bHasNonZeroValues
  BY <1>7, <1>11
<1> QED BY <1>12, <1>13

-----------------------------------------------------------------------------
(***************************************************************************)
(* The order of a class's slots, and steps in it.                          *)
(***************************************************************************)
ClassSizes(c) ==
  /\ Len(c) \in Nat \ {0}
  /\ \A s \in 1 .. Len(c) : /\ Len(c[s]) \in Nat
                            /\ c[s] = <<>> <=> Len(c[s]) = 0
                            /\ \A l \in 1 .. Len(c[s]) : c[s][l] \in Nat \ {0}

LEMMA ClassesHaveSizes ==
  ASSUME NEW c \in Classes
  PROVE  ClassSizes(c)
<1>1. c \in Seq(Seq(Nat \ {0})) /\ c # <<>>
  BY UnversionedAssumption
<1>2. Len(c) \in Nat \ {0} /\ \A s \in 1 .. Len(c) : c[s] \in Seq(Nat \ {0})
  BY <1>1
<1>3. \A v \in Seq(Nat \ {0}) : /\ Len(v) \in Nat
                                /\ v = <<>> <=> Len(v) = 0
                                /\ \A l \in 1 .. Len(v) : v[l] \in Nat \ {0}
  OBVIOUS
<1> QED BY <1>2, <1>3 DEF ClassSizes

IsSlot(c, i) ==
  /\ i = Slot(i.Struct, i.Link, i.ArrayIndex)
  /\ i.Struct \in 1 .. Len(c)
  /\ i.Link \in 1 .. Len(c[i.Struct])
  /\ i.ArrayIndex \in 1 .. c[i.Struct][i.Link]

LEMMA SlotsDef ==
  ASSUME NEW c
  PROVE  /\ \A i \in Slots(c) : IsSlot(c, i)
         /\ \A s \in 1 .. Len(c) : \A l \in 1 .. Len(c[s]) : \A a \in 1 .. c[s][l] :
              Slot(s, l, a) \in Slots(c)
<1>1. ASSUME NEW i \in Slots(c) PROVE IsSlot(c, i)
  <2>1. PICK s \in 1 .. Len(c) : \E l \in 1 .. Len(c[s]) : \E a \in 1 .. c[s][l] : i = Slot(s, l, a)
    BY DEF Slots
  <2>2. PICK l \in 1 .. Len(c[s]) : \E a \in 1 .. c[s][l] : i = Slot(s, l, a)
    BY <2>1
  <2>3. PICK a \in 1 .. c[s][l] : i = Slot(s, l, a)
    BY <2>2
  <2>4. i.Struct = s /\ i.Link = l /\ i.ArrayIndex = a
    BY <2>3 DEF Slot
  <2> QED BY <2>3, <2>4 DEF IsSlot
<1>2. ASSUME NEW s \in 1 .. Len(c), NEW l \in 1 .. Len(c[s]), NEW a \in 1 .. c[s][l]
      PROVE  Slot(s, l, a) \in Slots(c)
  BY DEF Slots
<1> QED BY <1>1, <1>2

\* Every slot's three numbers.
LEMMA SlotNumbers ==
  ASSUME NEW c \in Classes, NEW i \in Slots(c)
  PROVE  /\ i.Struct \in Nat \ {0} /\ i.Link \in Nat \ {0} /\ i.ArrayIndex \in Nat \ {0}
         /\ i.Struct <= Len(c) /\ i.Link <= Len(c[i.Struct]) /\ i.ArrayIndex <= c[i.Struct][i.Link]
         /\ Len(c) \in Nat /\ Len(c[i.Struct]) \in Nat /\ c[i.Struct][i.Link] \in Nat
         /\ c[i.Struct] # <<>>
         /\ i # NoSlot /\ i # Fault
<1>1. IsSlot(c, i)
  BY SlotsDef
<1>2. ClassSizes(c)
  BY ClassesHaveSizes
<1>3. /\ Len(c) \in Nat /\ Len(c[i.Struct]) \in Nat /\ c[i.Struct][i.Link] \in Nat
      /\ c[i.Struct] = <<>> <=> Len(c[i.Struct]) = 0
  BY <1>1, <1>2 DEF IsSlot, ClassSizes
<1>4. /\ i.Struct \in Nat \ {0} /\ i.Link \in Nat \ {0} /\ i.ArrayIndex \in Nat \ {0}
      /\ i.Struct <= Len(c) /\ i.Link <= Len(c[i.Struct]) /\ i.ArrayIndex <= c[i.Struct][i.Link]
  BY <1>1, <1>3 DEF IsSlot
<1>5. i # NoSlot /\ i # Fault
  BY <1>4 DEF NoSlot, Fault, Slot
<1> QED BY <1>3, <1>4, <1>5

\* Slots with the same numbers are the same.
LEMMA SlotsEqual ==
  ASSUME NEW c, NEW i \in Slots(c), NEW j \in Slots(c),
         i.Struct = j.Struct, i.Link = j.Link, i.ArrayIndex = j.ArrayIndex
  PROVE  i = j
BY SlotsDef DEF IsSlot

LEMMA OrderIsTotal ==
  ASSUME NEW c \in Classes, NEW i \in Slots(c), NEW j \in Slots(c)
  PROVE  /\ Before(i, j) \/ i = j \/ Before(j, i)
         /\ ~(Before(i, j) /\ Before(j, i))
         /\ ~Before(i, i)
<1>1. /\ i.Struct \in Nat /\ i.Link \in Nat /\ i.ArrayIndex \in Nat
      /\ j.Struct \in Nat /\ j.Link \in Nat /\ j.ArrayIndex \in Nat
  BY SlotNumbers
<1>2. (i.Struct = j.Struct /\ i.Link = j.Link /\ i.ArrayIndex = j.ArrayIndex) => i = j
  BY SlotsEqual
<1> QED BY <1>1, <1>2 DEF Before

LEMMA OrderIsTransitive ==
  ASSUME NEW c \in Classes, NEW i \in Slots(c), NEW j \in Slots(c), NEW k \in Slots(c),
         Before(i, j), Before(j, k)
  PROVE  Before(i, k)
<1>1. /\ i.Struct \in Nat /\ i.Link \in Nat /\ i.ArrayIndex \in Nat
      /\ j.Struct \in Nat /\ j.Link \in Nat /\ j.ArrayIndex \in Nat
      /\ k.Struct \in Nat /\ k.Link \in Nat /\ k.ArrayIndex \in Nat
  BY SlotNumbers
<1> QED BY <1>1 DEF Before

\* A slot and those before it.
UpTo(c, i) == {j \in Slots(c) : j = i \/ Before(j, i)}

LEMMA PositionDef ==
  ASSUME NEW c \in Classes, NEW i \in Slots(c)
  PROVE  /\ Position(c, i) = Cardinality(UpTo(c, i)) /\ IsFiniteSet(UpTo(c, i)) /\ i \in UpTo(c, i)
         /\ Position(c, i) \in 1 .. Cardinality(Slots(c))
<1>1. IsFiniteSet(Slots(c)) /\ UpTo(c, i) \subseteq Slots(c) /\ i \in UpTo(c, i)
  BY SlotsFinite DEF UpTo
<1>2. IsFiniteSet(UpTo(c, i)) /\ Cardinality(UpTo(c, i)) <= Cardinality(Slots(c))
  BY <1>1, FS_Subset
<1>3. Cardinality(UpTo(c, i)) \in Nat /\ Cardinality(UpTo(c, i)) # 0 /\ Cardinality(Slots(c)) \in Nat
  BY <1>1, <1>2, FS_CardinalityType, FS_EmptySet
<1>4. Position(c, i) = Cardinality(UpTo(c, i))
  BY DEF Position, UpTo
<1> QED BY <1>1, <1>2, <1>3, <1>4

\* The order is that of the places.
LEMMA PositionGrows ==
  ASSUME NEW c \in Classes, NEW i \in Slots(c), NEW j \in Slots(c), Before(i, j)
  PROVE  Position(c, i) < Position(c, j)
<1>1. UpTo(c, i) \subseteq UpTo(c, j)
  BY OrderIsTransitive DEF UpTo
<1>2. j \notin UpTo(c, i)
  BY OrderIsTotal DEF UpTo
<1>3. j \in UpTo(c, j) /\ IsFiniteSet(UpTo(c, j)) /\ IsFiniteSet(UpTo(c, i))
  BY PositionDef
<1>4. Cardinality(UpTo(c, i)) < Cardinality(UpTo(c, j))
  BY <1>1, <1>2, <1>3, FS_Subset, FS_CardinalityType
<1> QED BY <1>4, PositionDef

LEMMA PositionOrder ==
  ASSUME NEW c \in Classes, NEW i \in Slots(c), NEW j \in Slots(c)
  PROVE  /\ Before(i, j) <=> Position(c, i) < Position(c, j)
         /\ i = j <=> Position(c, i) = Position(c, j)
<1>1. Position(c, i) \in Nat /\ Position(c, j) \in Nat
  BY PositionDef, SlotsFinite
<1>2. Before(i, j) => Position(c, i) < Position(c, j)
  BY PositionGrows
<1>3. Before(j, i) => Position(c, j) < Position(c, i)
  BY PositionGrows
<1>4. Before(i, j) \/ i = j \/ Before(j, i)
  BY OrderIsTotal
<1> QED BY <1>1, <1>2, <1>3, <1>4

\* The slot right behind another has the next place.
LEMMA Successor ==
  ASSUME NEW c \in Classes, NEW i \in Slots(c), NEW n \in Slots(c),
         \A j \in Slots(c) : Before(j, n) <=> (j = i \/ Before(j, i))
  PROVE  Position(c, n) = Position(c, i) + 1
<1>1. UpTo(c, n) = UpTo(c, i) \cup {n}
  BY DEF UpTo
<1>2. n \notin UpTo(c, i)
  BY OrderIsTotal DEF UpTo
<1>3. IsFiniteSet(UpTo(c, i)) /\ Position(c, i) = Cardinality(UpTo(c, i))
      /\ Position(c, n) = Cardinality(UpTo(c, n))
  BY PositionDef
<1> QED BY <1>1, <1>2, <1>3, FS_AddElement

LEMMA FirstPosition ==
  ASSUME NEW c \in Classes, c[1] # <<>>
  PROVE  FirstSlot(c) \in Slots(c) /\ Position(c, FirstSlot(c)) = 1
<1>1. ClassSizes(c)
  BY ClassesHaveSizes
<1>2. 1 \in 1 .. Len(c) /\ 1 \in 1 .. Len(c[1]) /\ 1 \in 1 .. c[1][1]
  BY <1>1 DEF ClassSizes
<1>3. FirstSlot(c) = Slot(1, 1, 1) /\ Slot(1, 1, 1) \in Slots(c)
  BY <1>2, SlotsDef DEF FirstSlot
<1> DEFINE f == Slot(1, 1, 1)
<1>4. f.Struct = 1 /\ f.Link = 1 /\ f.ArrayIndex = 1
  BY DEF Slot
<1> HIDE DEF f
<1>5. \A j \in Slots(c) : ~Before(j, f)
  BY <1>4, SlotNumbers DEF Before
<1>6. UpTo(c, f) = {f}
  BY <1>3, <1>5 DEF UpTo, f
<1>7. Position(c, f) = 1
  BY <1>3, <1>6, PositionDef, FS_Singleton DEF f
<1> QED BY <1>3, <1>7 DEF f

\* From a slot that is not the last, the walk goes to the one behind it.
LEMMA NextPosition ==
  ASSUME NEW c \in Classes, NEW i \in Slots(c)
  PROVE  \/ NextSlot(c, i) \in Slots(c) /\ Position(c, NextSlot(c, i)) = Position(c, i) + 1
         \/ NextSlot(c, i) = NoSlot /\ Position(c, i) = Cardinality(Slots(c))
<1> DEFINE s == i.Struct
           l == i.Link
           a == i.ArrayIndex
           n == NextSlot(c, i)
<1>1. ClassSizes(c) /\ IsSlot(c, i)
  BY ClassesHaveSizes, SlotsDef
<1>2. /\ s \in 1 .. Len(c) /\ l \in 1 .. Len(c[s]) /\ a \in 1 .. c[s][l] /\ i = Slot(s, l, a)
      /\ Len(c) \in Nat /\ Len(c[s]) \in Nat /\ c[s][l] \in Nat
  BY <1>1 DEF IsSlot, ClassSizes
<1>3. \A j \in Slots(c) :
        /\ j.Struct \in Nat \ {0} /\ j.Link \in Nat \ {0} /\ j.ArrayIndex \in Nat \ {0}
        /\ j.Struct <= Len(c) /\ j.Link <= Len(c[j.Struct]) /\ j.ArrayIndex <= c[j.Struct][j.Link]
        /\ c[j.Struct] # <<>>
        /\ (j.Struct = s /\ j.Link = l /\ j.ArrayIndex = a => j = i)
  <2> SUFFICES ASSUME NEW j \in Slots(c)
      PROVE  /\ j.Struct \in Nat \ {0} /\ j.Link \in Nat \ {0} /\ j.ArrayIndex \in Nat \ {0}
             /\ j.Struct <= Len(c) /\ j.Link <= Len(c[j.Struct]) /\ j.ArrayIndex <= c[j.Struct][j.Link]
             /\ c[j.Struct] # <<>>
             /\ (j.Struct = s /\ j.Link = l /\ j.ArrayIndex = a => j = i)
    OBVIOUS
  <2> QED BY SlotNumbers, SlotsEqual
<1>4. CASE a < c[s][l]
  <2>1. n = [i EXCEPT !.ArrayIndex = @ + 1]
    BY <1>4 DEF NextSlot
  <2>2. n = Slot(s, l, a + 1)
    BY <1>2, <2>1 DEF Slot
  <2>3. a + 1 \in 1 .. c[s][l]
    BY <1>2, <1>4
  <2>4. n \in Slots(c)
    BY <1>2, <2>2, <2>3, SlotsDef
  <2>5. n.Struct = s /\ n.Link = l /\ n.ArrayIndex = a + 1
    BY <2>2 DEF Slot
  <2> HIDE DEF s, l, a, n
  <2>6. \A j \in Slots(c) : Before(j, n) <=> (j = i \/ Before(j, i))
    BY <1>2, <1>3, <2>5 DEF Before, s, l, a
  <2>7. Position(c, n) = Position(c, i) + 1
    BY <2>4, <2>6, Successor
  <2> QED BY <2>4, <2>7 DEF n
<1>5. CASE ~(a < c[s][l]) /\ l < Len(c[s])
  <2>1. n = Slot(s, l + 1, 1)
    BY <1>5 DEF NextSlot
  <2>2. l + 1 \in 1 .. Len(c[s])
    BY <1>2, <1>5
  <2>3. 1 \in 1 .. c[s][l + 1]
    BY <1>1, <1>2, <2>2 DEF ClassSizes
  <2>4. n \in Slots(c)
    BY <1>2, <2>1, <2>2, <2>3, SlotsDef
  <2>5. n.Struct = s /\ n.Link = l + 1 /\ n.ArrayIndex = 1
    BY <2>1 DEF Slot
  <2>6. a = c[s][l]
    BY <1>2, <1>5
  <2> HIDE DEF s, l, a, n
  <2>7. \A j \in Slots(c) : Before(j, n) <=> (j = i \/ Before(j, i))
    <3> SUFFICES ASSUME NEW j \in Slots(c) PROVE Before(j, n) <=> (j = i \/ Before(j, i))
      OBVIOUS
    <3>1. j.Struct = s /\ j.Link = l => j.ArrayIndex <= a
      BY <1>3, <2>6
    <3> QED BY <1>2, <1>3, <2>5, <3>1 DEF Before, s, l, a
  <2>8. Position(c, n) = Position(c, i) + 1
    BY <2>4, <2>7, Successor
  <2> QED BY <2>4, <2>8 DEF n
<1>6. CASE ~(a < c[s][l]) /\ ~(l < Len(c[s]))
  <2>1. n = InheritedSlot(c, s)
    BY <1>6 DEF NextSlot
  <2>2. a = c[s][l] /\ l = Len(c[s])
    BY <1>2, <1>6
  <2> DEFINE nonempty == {t \in s + 1 .. Len(c) : c[t] # <<>>}
             t == CHOOSE t \in nonempty : \A u \in nonempty : t <= u
  <2> HIDE DEF s, l, a
  <2>3. \A j \in Slots(c) : j.Struct <= s => (j = i \/ Before(j, i))
    <3> SUFFICES ASSUME NEW j \in Slots(c), j.Struct <= s PROVE j = i \/ Before(j, i)
      OBVIOUS
    <3>1. j.Struct = s => j.Link <= l
      BY <1>3, <2>2
    <3>2. j.Struct = s /\ j.Link = l => j.ArrayIndex <= a
      BY <1>3, <2>2
    <3> QED BY <1>2, <1>3, <3>1, <3>2 DEF Before, s, l, a
  <2>4. \A j \in Slots(c) : j.Struct <= s \/ j.Struct \in nonempty
    BY <1>2, <1>3
  <2>5. CASE nonempty = {}
    <3>1. n = NoSlot
      BY <2>1, <2>5 DEF InheritedSlot
    <3>2. UpTo(c, i) = Slots(c)
      BY <2>3, <2>4, <2>5 DEF UpTo
    <3> QED BY <3>1, <3>2, PositionDef DEF n
  <2>6. CASE nonempty # {}
    <3>1. t \in nonempty /\ \A u \in nonempty : t <= u
      <4>1. nonempty \in SUBSET Nat
        BY <1>2
      <4> HIDE DEF nonempty
      <4>2. \E x \in nonempty : \A u \in nonempty : x <= u
        BY <2>6, <4>1, LeastMember
      <4> QED BY <4>2
    <3>2. n = Slot(t, 1, 1)
      BY <2>1, <2>6 DEF InheritedSlot
    <3>3. t \in s + 1 .. Len(c) /\ c[t] # <<>>
      <4> HIDE DEF t
      <4> QED BY <3>1
    <3> HIDE DEF t
    <3>4. t \in 1 .. Len(c) /\ t > s
      BY <1>2, <3>3
    <3>5. 1 \in 1 .. Len(c[t]) /\ 1 \in 1 .. c[t][1]
      BY <1>1, <3>3, <3>4 DEF ClassSizes
    <3>6. n \in Slots(c)
      BY <3>2, <3>4, <3>5, SlotsDef
    <3>7. n.Struct = t /\ n.Link = 1 /\ n.ArrayIndex = 1
      BY <3>2 DEF Slot
    <3> HIDE DEF n, nonempty
    <3>8. \A j \in Slots(c) : Before(j, n) <=> (j = i \/ Before(j, i))
      <4> SUFFICES ASSUME NEW j \in Slots(c) PROVE Before(j, n) <=> (j = i \/ Before(j, i))
        OBVIOUS
      <4>1. j.Struct <= s \/ t <= j.Struct
        BY <2>4, <3>1
      <4>2. Before(j, n) <=> j.Struct < t
        BY <1>3, <3>4, <3>7 DEF Before
      <4>3. j = i \/ Before(j, i) => j.Struct <= s
        BY <1>2, <1>3 DEF Before, s
      <4>4. j.Struct <= s => (j = i \/ Before(j, i))
        BY <2>3
      <4>5. j.Struct \in Nat /\ s \in Nat /\ t \in Nat
        BY <1>2, <1>3, <3>4
      <4> QED BY <3>4, <4>1, <4>2, <4>3, <4>4, <4>5
    <3>9. Position(c, n) = Position(c, i) + 1
      BY <3>6, <3>8, Successor
    <3> QED BY <3>6, <3>9 DEF n
  <2> QED BY <2>5, <2>6
<1> QED BY <1>4, <1>5, <1>6

\* What operator+= does, one step after the other.
Advances(at, D, c, i, n) ==
  /\ at \in [0 .. n -> D]
  /\ at[0] = i
  /\ \A k \in 1 .. n : at[k] = Step(c, at[k - 1])
  /\ Advance(c, i, n) = at[n]

LEMMA AdvanceDef ==
  ASSUME NEW c, NEW D, NEW i \in D, NEW n \in Nat, \A d \in D : Step(c, d) \in D
  PROVE  \E at : Advances(at, D, c, i, n)
<1> DEFINE F == [p \in Nat \X D |-> Step(c, p[2])]
<1>1. F \in [Nat \X D -> D]
  OBVIOUS
<1>2. PICK g : Iterates(g, D, i, F)
  <2> HIDE DEF F
  <2> QED BY <1>1, Recursion
<1>3. /\ g \in [Nat -> D] /\ g[0] = i
      /\ \A k \in Nat : g[k + 1] = Step(c, g[k])
  BY <1>2 DEF Iterates
<1> DEFINE h == [k \in 0 .. n |-> g[k]]
           P(x) == x = [k \in 0 .. n |-> IF k = 0 THEN i ELSE Step(c, x[k - 1])]
           at == CHOOSE x : P(x)
<1>4. P(h)
  <2>1. ASSUME NEW k \in 0 .. n PROVE h[k] = IF k = 0 THEN i ELSE Step(c, h[k - 1])
    <3>1. CASE k = 0
      BY <1>3, <3>1
    <3>2. CASE k # 0
      <4>1. k - 1 \in Nat /\ (k - 1) + 1 = k /\ k - 1 \in 0 .. n
        BY <3>2
      <4>2. g[(k - 1) + 1] = Step(c, g[k - 1])
        BY <1>3, <4>1
      <4> QED BY <3>2, <4>1, <4>2
    <3> QED BY <3>1, <3>2
  <2> QED BY <2>1
<1>5. P(at)
  <2> HIDE DEF P, h
  <2> QED BY <1>4
<1>6. Advance(c, i, n) = at[n]
  BY DEF Advance
<1>7. at = [k \in 0 .. n |-> IF k = 0 THEN i ELSE Step(c, at[k - 1])]
  BY <1>5
<1> HIDE DEF at
<1>8. DOMAIN at = 0 .. n /\ at[0] = i /\ \A k \in 1 .. n : at[k] = Step(c, at[k - 1])
  BY <1>7
<1>9. \A k \in 0 .. n : at[k] = g[k]
  <2> DEFINE Differ == {k \in 0 .. n : at[k] # g[k]}
  <2> SUFFICES ASSUME Differ # {} PROVE FALSE
    OBVIOUS
  <2>1. PICK x \in Differ : \A y \in Differ : x <= y
    <3>1. Differ \in SUBSET Nat
      OBVIOUS
    <3> HIDE DEF Differ
    <3> QED BY <3>1, LeastMember
  <2>2. x # 0
    BY <1>3, <1>8
  <2>3. x \in 1 .. n /\ x - 1 \in 0 .. n /\ x - 1 \in Nat /\ (x - 1) + 1 = x /\ ~(x <= x - 1)
    <3>1. x \in 0 .. n
      OBVIOUS
    <3> HIDE DEF Differ
    <3> QED BY <2>2, <3>1
  <2>4. x - 1 \notin Differ
    <3> HIDE DEF Differ
    <3> QED BY <2>1, <2>3
  <2>5. at[x - 1] = g[x - 1]
    BY <2>3, <2>4
  <2>6. at[x] = Step(c, at[x - 1]) /\ g[(x - 1) + 1] = Step(c, g[x - 1])
    BY <1>3, <1>8, <2>3
  <2> QED BY <2>3, <2>5, <2>6
<1>10. at \in [0 .. n -> D]
  <2>1. at = [k \in 0 .. n |-> at[k]]
    BY <1>7
  <2>2. \A k \in 0 .. n : at[k] \in D
    BY <1>3, <1>9
  <2> QED BY <2>1, <2>2
<1>11. Advances(at, D, c, i, n)
  BY <1>6, <1>8, <1>10 DEF Advances
<1> QED BY <1>11

\* n steps from a slot lead n places on, if there are so many.
LEMMA AdvanceMoves ==
  ASSUME NEW c \in Classes, NEW i \in Slots(c), NEW n \in Nat,
         Position(c, i) + n <= Cardinality(Slots(c))
  PROVE  /\ Advance(c, i, n) \in Slots(c)
         /\ Position(c, Advance(c, i, n)) = Position(c, i) + n
<1> DEFINE D == Slots(c) \cup {NoSlot, Fault}
<1>1. \A d \in D : Step(c, d) \in D
  BY NextPosition DEF Step
<1>2. PICK at : Advances(at, D, c, i, n)
  <2> HIDE DEF D
  <2>1. i \in D
    BY DEF D
  <2> QED BY <1>1, <2>1, AdvanceDef
<1>3. /\ at[0] = i /\ Advance(c, i, n) = at[n]
      /\ \A k \in 1 .. n : at[k] = Step(c, at[k - 1])
  BY <1>2 DEF Advances
<1>4. Position(c, i) \in Nat /\ Cardinality(Slots(c)) \in Nat
  BY PositionDef, SlotsFinite
<1> DEFINE Wrong == {k \in 0 .. n : ~(at[k] \in Slots(c) /\ Position(c, at[k]) = Position(c, i) + k)}
<1>5. Wrong = {}
  <2> SUFFICES ASSUME Wrong # {} PROVE FALSE
    OBVIOUS
  <2>1. PICK x \in Wrong : \A y \in Wrong : x <= y
    <3>1. Wrong \in SUBSET Nat
      OBVIOUS
    <3> HIDE DEF Wrong
    <3> QED BY <3>1, LeastMember
  <2>2. x # 0
    BY <1>3, <1>4
  <2>3. x \in 1 .. n /\ x - 1 \in 0 .. n /\ ~(x <= x - 1) /\ x \in Nat
    <3>1. x \in 0 .. n
      OBVIOUS
    <3> HIDE DEF Wrong
    <3> QED BY <2>2, <3>1
  <2>4. x - 1 \notin Wrong
    <3> HIDE DEF Wrong
    <3> QED BY <2>1, <2>3
  <2> DEFINE p == at[x - 1]
  <2>5. p \in Slots(c) /\ Position(c, p) = Position(c, i) + (x - 1)
    BY <2>3, <2>4
  <2>6. at[x] = Step(c, p)
    BY <1>3, <2>3
  <2> HIDE DEF p
  <2>7. Position(c, p) + 1 = Position(c, i) + x /\ Position(c, p) # Cardinality(Slots(c))
    BY <1>4, <2>3, <2>5
  <2>8. at[x] = NextSlot(c, p)
    BY <2>5, <2>6, SlotNumbers DEF Step
  <2>9. at[x] \in Slots(c) /\ Position(c, at[x]) = Position(c, i) + x
    BY <2>5, <2>7, <2>8, NextPosition
  <2> QED BY <2>9
<1>6. n \in 0 .. n
  OBVIOUS
<1> QED BY <1>3, <1>5, <1>6

\* From no slot there is no way to one.
LEMMA AdvanceLost ==
  ASSUME NEW c, NEW n \in Nat
  PROVE  Advance(c, NoSlot, n) \in {NoSlot, Fault}
<1> DEFINE D == {NoSlot, Fault}
<1>1. \A d \in D : Step(c, d) \in D
  BY DEF Step
<1>2. PICK at : Advances(at, D, c, NoSlot, n)
  BY <1>1, AdvanceDef
<1> QED BY <1>2 DEF Advances

-----------------------------------------------------------------------------
(***************************************************************************)
(* The walk.                                                               *)
(***************************************************************************)
\* From fragment i on there is one with values: the first of them is found.
LEMMA ValuesFound ==
  ASSUME NEW F \in Seq(FFragment), NEW i \in 1 .. Len(F),
         \E j \in i .. Len(F) : F[j].ValueNum # 0
  PROVE  /\ ValuesFrom(F, i) \in i .. Len(F)
         /\ F[ValuesFrom(F, i)].ValueNum # 0
         /\ \A j \in i .. ValuesFrom(F, i) - 1 : F[j].ValueNum = 0
<1> DEFINE I == {j \in i .. Len(F) : F[j].ValueNum # 0}
           k == ValuesFrom(F, i)
<1>1. k = IF I # {} THEN Min(I) ELSE 0
  BY DEF ValuesFrom, SelectInSubSeq
<1>2. Len(F) \in Nat /\ I \in SUBSET Nat /\ I # {} /\ i \in Nat
  OBVIOUS
<1> HIDE DEF k
<1>3. k \in I /\ \A j \in I : k <= j
  <2> HIDE DEF I
  <2>1. \E m \in I : \A j \in I : m <= j
    BY <1>2, LeastMember
  <2> QED BY <1>1, <1>2, <2>1 DEF Min
<1>4. k \in i .. Len(F) /\ F[k].ValueNum # 0
  BY <1>3
<1>5. ASSUME NEW j \in i .. k - 1 PROVE F[j].ValueNum = 0
  <2>1. j \in i .. Len(F) /\ ~(k <= j)
    BY <1>2, <1>4
  <2>2. j \notin I
    <3> HIDE DEF I
    <3> QED BY <1>3, <2>1
  <2> QED BY <2>1, <2>2
<1> QED BY <1>4, <1>5 DEF k

LEMMA SkipNumsDef ==
  ASSUME NEW F \in Seq(FFragment)
  PROVE  /\ Sums(SkipNums(F)) \in [0 .. Len(F) -> Nat]
         /\ \A k \in 1 .. Len(F) : Sums(SkipNums(F))[k] = Sums(SkipNums(F))[k - 1] + F[k].SkipNum
<1> DEFINE v == SkipNums(F)
<1>1. Len(F) \in Nat /\ \A k \in 1 .. Len(F) : F[k].SkipNum \in Nat
  BY CountsDef
<1>2. v \in Seq(Nat) /\ Len(v) = Len(F) /\ \A k \in 1 .. Len(F) : v[k] = F[k].SkipNum
  BY <1>1 DEF SkipNums
<1> HIDE DEF v
<1>3. Sums(v) \in [0 .. Len(F) -> Nat] /\ \A k \in 1 .. Len(F) : Sums(v)[k] = Sums(v)[k - 1] + v[k]
  BY <1>2, SumsDef
<1> QED BY <1>2, <1>3 DEF v

\* Over fragments without values the skips lead to the next fragment's values.
LEMMA SkipsLead ==
  ASSUME NEW F \in Seq(FFragment), NEW i \in 1 .. Len(F), NEW k \in i .. Len(F),
         \A j \in i .. k - 1 : F[j].ValueNum = 0
  PROVE  LET skipped == Sums(SkipNums(F))[k] - Sums(SkipNums(F))[i - 1]
         IN /\ skipped \in Nat
            /\ Start(F, k) = Sums(Lengths(F))[i - 1] + skipped
<1> DEFINE n == Len(F)
           L == Sums(Lengths(F))
           K == Sums(SkipNums(F))
<1>1. /\ n \in Nat /\ L \in [0 .. n -> Nat] /\ K \in [0 .. n -> Nat]
      /\ \A j \in 1 .. n : /\ F[j].SkipNum \in Nat /\ F[j].ValueNum \in Nat
                           /\ L[j] = L[j - 1] + F[j].SkipNum + F[j].ValueNum
                           /\ Start(F, j) = L[j - 1] + F[j].SkipNum
                           /\ K[j] = K[j - 1] + F[j].SkipNum
  BY CountsDef, SkipNumsDef DEF Begin, Start
<1> HIDE DEF n, L, K
<1>2. i \in 1 .. n /\ k \in i .. n /\ k \in 1 .. n /\ i - 1 \in 0 .. n
  BY <1>1 DEF n
<1> DEFINE Wrong == {j \in i - 1 .. k - 1 : ~(L[j] - L[i - 1] = K[j] - K[i - 1] /\ K[i - 1] <= K[j])}
<1>3. Wrong = {}
  <2> SUFFICES ASSUME Wrong # {} PROVE FALSE
    OBVIOUS
  <2>1. PICK x \in Wrong : \A y \in Wrong : x <= y
    <3>1. Wrong \in SUBSET Nat
      BY <1>2
    <3> HIDE DEF Wrong
    <3> QED BY <3>1, LeastMember
  <2>2. x \in i - 1 .. k - 1 /\ ~(L[x] - L[i - 1] = K[x] - K[i - 1] /\ K[i - 1] <= K[x])
    OBVIOUS
  <2> HIDE DEF Wrong
  <2>3. L[i - 1] \in Nat /\ K[i - 1] \in Nat
    BY <1>1, <1>2
  <2>4. x # i - 1
    BY <2>2, <2>3
  <2>5. x \in i .. k - 1 /\ x - 1 \in i - 1 .. k - 1 /\ x \in 1 .. n /\ x - 1 \in 0 .. n /\ ~(x <= x - 1)
    BY <1>1, <1>2, <2>2, <2>4
  <2>6. x - 1 \notin Wrong
    BY <2>1, <2>5
  <2>7. L[x - 1] - L[i - 1] = K[x - 1] - K[i - 1] /\ K[i - 1] <= K[x - 1]
    BY <2>5, <2>6 DEF Wrong
  <2> DEFINE s == F[x].SkipNum
  <2>8. s \in Nat /\ L[x] = L[x - 1] + s + 0 /\ K[x] = K[x - 1] + s /\ L[x - 1] \in Nat /\ K[x - 1] \in Nat
    BY <1>1, <2>5
  <2> DEFINE l0 == L[i - 1]
             k0 == K[i - 1]
             l1 == L[x - 1]
             k1 == K[x - 1]
  <2>9. /\ l0 \in Nat /\ k0 \in Nat /\ l1 \in Nat /\ k1 \in Nat /\ s \in Nat
        /\ l1 - l0 = k1 - k0 /\ k0 <= k1
        /\ ~(L[x] - l0 = K[x] - k0 /\ k0 <= K[x]) /\ L[x] = l1 + s + 0 /\ K[x] = k1 + s
    BY <2>2, <2>3, <2>7, <2>8
  <2> HIDE DEF s, l0, k0, l1, k1
  <2> QED BY <2>9
<1>4. k - 1 \in i - 1 .. k - 1 /\ k - 1 \in 0 .. n
  BY <1>1, <1>2
<1>5. L[k - 1] - L[i - 1] = K[k - 1] - K[i - 1] /\ K[i - 1] <= K[k - 1]
  BY <1>3, <1>4
<1> DEFINE s == F[k].SkipNum
<1>6. /\ s \in Nat /\ Start(F, k) = L[k - 1] + s /\ K[k] = K[k - 1] + s
      /\ L[k - 1] \in Nat /\ K[k - 1] \in Nat /\ L[i - 1] \in Nat /\ K[i - 1] \in Nat
  BY <1>1, <1>2, <1>4
<1>7. K[k] - K[i - 1] \in Nat /\ Start(F, k) = L[i - 1] + (K[k] - K[i - 1])
  <2> DEFINE l0 == L[i - 1]
             k0 == K[i - 1]
             l1 == L[k - 1]
             k1 == K[k - 1]
  <2>1. /\ l0 \in Nat /\ k0 \in Nat /\ l1 \in Nat /\ k1 \in Nat /\ s \in Nat
        /\ l1 - l0 = k1 - k0 /\ k0 <= k1
        /\ K[k] = k1 + s /\ Start(F, k) = l1 + s
    BY <1>5, <1>6
  <2> HIDE DEF s, l0, k0, l1, k1
  <2>2. K[k] - k0 \in Nat /\ Start(F, k) = l0 + (K[k] - k0)
    BY <2>1
  <2> QED BY <2>2 DEF l0, k0
<1> QED BY <1>7 DEF L, K

\* The slot whose place the walk was at is read when it has a value.
LEMMA VisitHere ==
  ASSUME NEW c \in Classes, NEW u, Len(u) \in Nat, NEW v, NEW i \in Slots(c), NEW p, p = Position(c, i),
         p <= Len(u), VisitedTo(c, u, v, p),
         NEW w, w = IF u[p] = "value" THEN Append(v, i) ELSE v
  PROVE  VisitedTo(c, u, w, p + 1)
<1>1. p \in Nat /\ \A j \in Slots(c) : Position(c, j) \in Nat
  BY PositionDef, SlotsFinite
<1>2. \A j \in Slots(c) : Position(c, j) < p + 1 <=> Position(c, j) < p \/ Position(c, j) = p
  BY <1>1
<1>3. \A j \in Slots(c) : Position(c, j) = p <=> j = i
  BY PositionOrder
<1>4. UsedBefore(c, u, p + 1) = UsedBefore(c, u, p) \cup (IF u[p] = "value" THEN {i} ELSE {})
  BY <1>2, <1>3 DEF UsedBefore
<1>5. /\ v \in Seq(Slots(c)) /\ ToSet(v) = UsedBefore(c, u, p)
      /\ \A m, n \in 1 .. Len(v) : m < n => Before(v[m], v[n])
  BY DEF VisitedTo
<1>6. CASE u[p] # "value"
  <2>1. w = v /\ UsedBefore(c, u, p + 1) = UsedBefore(c, u, p)
    BY <1>4, <1>6
  <2> QED BY <1>5, <2>1 DEF VisitedTo
<1>7. CASE u[p] = "value"
  <2>1. w = Append(v, i) /\ UsedBefore(c, u, p + 1) = UsedBefore(c, u, p) \cup {i}
    BY <1>4, <1>7
  <2>2. /\ w \in Seq(Slots(c)) /\ Len(w) = Len(v) + 1 /\ Len(v) \in Nat
        /\ w[Len(v) + 1] = i /\ \A m \in 1 .. Len(v) : w[m] = v[m] /\ v[m] \in Slots(c)
    BY <1>5, <2>1
  <2>3. \A m \in 1 .. Len(w) : m \in 1 .. Len(v) \/ m = Len(v) + 1
    BY <2>2
  <2>4. \A m \in 1 .. Len(v) : m \in 1 .. Len(w) /\ v[m] \in ToSet(v)
    BY <1>5, <2>2 DEF ToSet
  <2>5. \A j \in ToSet(v) : \E m \in 1 .. Len(v) : j = v[m]
    BY <1>5 DEF ToSet
  <2>6. ToSet(w) = ToSet(v) \cup {i}
    <3>1. ASSUME NEW j \in ToSet(w) PROVE j \in ToSet(v) \cup {i}
      <4>1. PICK m \in 1 .. Len(w) : j = w[m]
        BY <2>2 DEF ToSet
      <4> QED BY <2>2, <2>3, <2>4, <4>1
    <3>2. ASSUME NEW j \in ToSet(v) PROVE j \in ToSet(w)
      <4>1. PICK m \in 1 .. Len(v) : j = v[m]
        BY <2>5
      <4>2. j = w[m] /\ m \in 1 .. Len(w)
        BY <2>2, <2>4, <4>1
      <4> QED BY <2>2, <4>2 DEF ToSet
    <3>3. i \in ToSet(w)
      <4>1. Len(v) + 1 \in 1 .. Len(w)
        BY <2>2
      <4> QED BY <2>2, <4>1 DEF ToSet
    <3> QED BY <3>1, <3>2, <3>3
  <2>7. ASSUME NEW m \in 1 .. Len(v) PROVE Before(v[m], i)
    <3>1. v[m] \in UsedBefore(c, u, p)
      BY <1>5, <2>4
    <3>2. v[m] \in Slots(c) /\ Position(c, v[m]) < Position(c, i)
      BY <3>1 DEF UsedBefore
    <3> QED BY <3>2, PositionOrder
  <2>8. ASSUME NEW m \in 1 .. Len(w), NEW n \in 1 .. Len(w), m < n PROVE Before(w[m], w[n])
    <3>1. m \in 1 .. Len(v)
      BY <2>2, <2>8
    <3>2. CASE n \in 1 .. Len(v)
      BY <1>5, <2>2, <2>8, <3>1, <3>2
    <3>3. CASE n = Len(v) + 1
      BY <2>2, <2>7, <3>1, <3>3
    <3> QED BY <2>3, <3>2, <3>3
  <2> QED BY <1>5, <2>1, <2>2, <2>6, <2>8 DEF VisitedTo
<1> QED BY <1>6, <1>7

\* Nothing is missed where there is no value.
LEMMA VisitNothing ==
  ASSUME NEW c \in Classes, NEW u, Len(u) \in Nat, NEW v, NEW p \in Nat, VisitedTo(c, u, v, p),
         NEW q \in Nat, p <= q, \A x \in p .. q - 1 : x <= Len(u) => u[x] # "value"
  PROVE  VisitedTo(c, u, v, q)
<1>1. \A j \in Slots(c) : Position(c, j) \in Nat
  BY PositionDef, SlotsFinite
<1>2. ASSUME NEW j \in Slots(c)
      PROVE  j \in UsedBefore(c, u, q) <=> j \in UsedBefore(c, u, p)
  <2> DEFINE x == Position(c, j)
  <2>1. x \in Nat
    BY <1>1
  <2> HIDE DEF x
  <2>2. x < q => x < p \/ x \in p .. q - 1
    BY <2>1
  <2>3. x < p => x < q
    BY <2>1
  <2> QED BY <2>2, <2>3 DEF UsedBefore, x
<1>3. UsedBefore(c, u, q) = UsedBefore(c, u, p)
  BY <1>2 DEF UsedBefore
<1> QED BY <1>3 DEF VisitedTo

\* The walk is behind the fragments before the i-th, at slot s, and there are values to come.
ReadyAt(c, F, u, i, s, v) ==
  /\ i \in 1 .. Len(F) /\ \E j \in i .. Len(F) : F[j].ValueNum # 0
  /\ s \in Slots(c) /\ Position(c, s) = Sums(Lengths(F))[i - 1] + 1
  /\ VisitedTo(c, u, v, Sums(Lengths(F))[i - 1] + 1)
  /\ Len(u) <= Cardinality(Slots(c))

\* From fragment i, d properties are skipped to get to the values of fragment k.
Skips(F, i, k, d) ==
  /\ k = ValuesFrom(F, i)
  /\ d = Sums(SkipNums(F))[k] - Sums(SkipNums(F))[i - 1]

\* Skipping from there leads to a value, past no other.
LEMMA SkipArrives ==
  ASSUME NEW c \in Classes, NEW F, NEW z, NEW u, Built(F, z, u),
         NEW i, NEW s, NEW v, ReadyAt(c, F, u, i, s, v), NEW k, NEW d, Skips(F, i, k, d)
  PROVE  /\ k # 0 /\ Advance(c, s, d) # Fault
         /\ WalkingAt(c, F, u, Advance(c, s, d), k, F[k].ValueNum, Sums(ValueNums(F, TRUE))[i - 1], v)
<1> DEFINE n == Len(F)
           L == Sums(Lengths(F))
           C == Sums(ValueNums(F, TRUE))
           V == F[k].ValueNum
           t == Advance(c, s, d)
<1>1. /\ F \in Seq(FFragment) /\ n \in Nat \ {0} /\ Len(u) \in Nat /\ i \in 1 .. n
      /\ Lengths(F) \in Seq(Nat) /\ Len(Lengths(F)) = n /\ L \in [0 .. n -> Nat]
  BY BuiltDef DEF ReadyAt
<1>2. \A j \in 1 .. n : /\ F[j].ValueNum \in Nat /\ F[j].SkipNum \in Nat /\ Begin(F, j) \in Nat
                        /\ Begin(F, j) = L[j - 1] /\ Start(F, j) = Begin(F, j) + F[j].SkipNum
                        /\ L[j] = Start(F, j) + F[j].ValueNum /\ L[j] <= Len(u)
                        /\ DescribesAt(F, z, u, j)
  BY BuiltDef
<1>3. /\ k \in i .. n /\ F[k].ValueNum # 0 /\ \A j \in i .. k - 1 : F[j].ValueNum = 0
  BY <1>1, ValuesFound DEF ReadyAt, Skips
<1>4. d \in Nat /\ Start(F, k) = L[i - 1] + d
  BY <1>1, <1>3, SkipsLead DEF Skips
<1>5. Cardinality(Slots(c)) \in Nat
  BY SlotsFinite
<1> HIDE DEF n, L, C, t
<1>6. /\ k \in 1 .. n /\ k \in Nat \ {0} /\ V \in Nat \ {0} /\ i - 1 \in 0 .. n /\ k - 1 \in 0 .. n /\ i - 1 \in 0 .. k - 1
      /\ L[i - 1] \in Nat /\ i \in Nat
  <2>1. k \in 1 .. n /\ k \in Nat \ {0} /\ i - 1 \in 0 .. n /\ k - 1 \in 0 .. n /\ i - 1 \in 0 .. k - 1 /\ i \in Nat
    BY SMTT(30), <1>1, <1>3
  <2>2. V \in Nat \ {0}
    BY <1>2, <1>3, <2>1
  <2> QED BY <1>1, <2>1, <2>2
<1>7. L[k] = Start(F, k) + V /\ L[k] <= Len(u)
  BY <1>2, <1>6
<1> HIDE DEF V
<1>8. Start(F, k) \in Nat /\ Start(F, k) + 1 <= Len(u)
  <2> DEFINE b == L[i - 1]
             e == L[k]
  <2>1. /\ b \in Nat /\ d \in Nat /\ V \in Nat \ {0} /\ Len(u) \in Nat
        /\ Start(F, k) = b + d /\ e = Start(F, k) + V /\ e <= Len(u)
    BY <1>1, <1>4, <1>6, <1>7
  <2> HIDE DEF b, e
  <2> QED BY <2>1
<1>9. t \in Slots(c) /\ Position(c, t) = Start(F, k) + 1
  <2>1. s \in Slots(c) /\ Position(c, s) = L[i - 1] + 1
    BY DEF L, ReadyAt
  <2>2. Len(u) <= Cardinality(Slots(c))
    BY DEF ReadyAt
  <2>3. (L[i - 1] + 1) + d = Start(F, k) + 1
    BY <1>4, <1>6
  <2>4. Position(c, s) + d <= Cardinality(Slots(c))
    BY <1>1, <1>5, <1>8, <2>1, <2>2, <2>3
  <2>5. t \in Slots(c) /\ Position(c, t) = Position(c, s) + d
    BY <1>4, <2>1, <2>4, AdvanceMoves DEF t
  <2> QED BY <2>1, <2>3, <2>5
<1>10. Place(F, k, V) = Start(F, k) + 1
  BY <1>6, <1>8 DEF Place, V
<1>11. ASSUME NEW x \in L[i - 1] + 1 .. Start(F, k) PROVE u[x] # "value"
  <2>1. x \in Nat \ {0} /\ x <= L[k] /\ ~(x <= L[i - 1])
    BY <1>6, <1>7, <1>8
  <2>2. k \in 0 .. n
    BY <1>6
  <2>3. PICK m \in 1 .. k : L[m - 1] < x /\ x <= L[m]
    BY <1>1, <2>1, <2>2, SumsSegment DEF L
  <2>4. m \in 1 .. n /\ m \in 0 .. n /\ m - 1 \in 0 .. n
    BY SMTT(30), <1>1, <1>6
  <2>5. m >= i
    <3> SUFFICES ASSUME ~(m >= i) PROVE FALSE
      OBVIOUS
    <3>1. m \in 0 .. i - 1
      BY <1>6
    <3>2. L[m] <= L[i - 1]
      BY <1>1, <1>6, <3>1, SumsGrow DEF L
    <3>3. L[m] \in Nat
      BY <1>1, <2>4
    <3> QED BY <1>6, <2>1, <2>3, <3>2, <3>3
  <2> DEFINE B == Begin(F, m)
             S == F[m].SkipNum
  <2>6. B \in Nat /\ S \in Nat /\ B < x /\ Start(F, m) = B + S /\ L[m] = Start(F, m) + F[m].ValueNum
        /\ \A y \in 1 .. S : u[B + y] = "skip"
    BY <1>2, <2>3, <2>4 DEF DescribesAt
  <2> HIDE DEF B, S
  <2>7. x <= B + S
    <3>1. CASE m = k
      BY <2>6, <3>1
    <3>2. CASE m # k
      <4>1. m \in i .. k - 1
        BY <1>6, <2>5, <3>2
      <4>2. F[m].ValueNum = 0
        BY <1>3, <4>1
      <4> QED BY <2>3, <2>6, <4>2
    <3> QED BY <3>1, <3>2
  <2>8. x - B \in 1 .. S /\ B + (x - B) = x
    BY <2>1, <2>6, <2>7
  <2>9. u[x] = "skip"
    BY <2>6, <2>8
  <2> QED BY <2>9
<1>12. VisitedTo(c, u, v, Start(F, k) + 1)
  <2>1. VisitedTo(c, u, v, L[i - 1] + 1)
    BY DEF L, ReadyAt
  <2>2. /\ L[i - 1] + 1 \in Nat /\ Start(F, k) + 1 \in Nat /\ L[i - 1] + 1 <= Start(F, k) + 1
        /\ (Start(F, k) + 1) - 1 = Start(F, k)
    BY SMTT(30), <1>4, <1>6, <1>8
  <2> QED BY <1>1, <1>11, <2>1, <2>2, VisitNothing
<1>13. C[i - 1] = MaskStart(F, k) /\ MaskStart(F, k) \in Nat
  <2>1. ValueNums(F, TRUE) \in Seq(Nat) /\ Len(ValueNums(F, TRUE)) = n
    BY <1>1, MaskDef DEF n
  <2>2. \A j \in (i - 1) + 1 .. k - 1 : ValueNums(F, TRUE)[j] = 0
    <3>1. \A j \in (i - 1) + 1 .. k - 1 : j \in i .. k - 1 /\ j \in 1 .. Len(F)
      BY <1>1, <1>6 DEF n
    <3> QED BY <1>3, <3>1 DEF ValueNums
  <2>3. C[i - 1] = C[k - 1]
    BY <1>6, <2>1, <2>2, SumsGrow DEF C
  <2>4. MaskStart(F, k) = C[k - 1]
    BY DEF MaskStart, C
  <2>5. MaskStart(F, k) \in Nat
    BY <1>1, <1>6, MaskSums DEF n
  <2> QED BY <2>3, <2>4, <2>5
<1>14. V - V = 0 /\ MaskStart(F, k) + 0 = MaskStart(F, k) /\ V \in 1 .. V
  BY <1>6, <1>13
<1>15. WalkingAt(c, F, u, t, k, V, C[i - 1], v)
  BY <1>6, <1>9, <1>10, <1>12, <1>13, <1>14 DEF WalkingAt, V, n
<1>16. t # Fault
  BY <1>9, SlotNumbers
<1> QED BY <1>6, <1>15, <1>16 DEF t, V, C

\* The value at slot i is read: fragment k has no zeros, or the mask's next bit is clear.
ReadsHere(F, z, k, m) == ~F[k].bHasAnyZeroes \/ ~z[m + 1]

NextIndex(F, k, m) == IF F[k].bHasAnyZeroes THEN m + 1 ELSE m

Visit(F, z, i, k, m, v) == IF ReadsHere(F, z, k, m) THEN Append(v, i) ELSE v

\* What is read at a slot is right, and the slot is one the builder was told of.
LEMMA ReadIsRight ==
  ASSUME NEW c \in Classes, NEW F, NEW z, NEW u, Built(F, z, u),
         NEW i, NEW k, NEW r, NEW m, NEW v, WalkingAt(c, F, u, i, k, r, m, v)
  PROVE  /\ Place(F, k, r) \in Nat \ {0} /\ Place(F, k, r) <= Len(u) /\ Len(u) \in Nat
         /\ Place(F, k, r) + r = Sums(Lengths(F))[k] + 1
         /\ Sums(Lengths(F))[k] \in Nat /\ Sums(Lengths(F))[k] <= Len(u)
         /\ k \in 1 .. Len(F) /\ r \in Nat \ {0} /\ Len(F) \in Nat
         /\ i \in Slots(c) /\ Position(c, i) = Place(F, k, r)
         /\ VisitedTo(c, u, Visit(F, z, i, k, m, v), Place(F, k, r) + 1)
<1> DEFINE S == Start(F, k)
           V == F[k].ValueNum
           M == MaskStart(F, k)
           L == Sums(Lengths(F))
           p == Place(F, k, r)
           w == Visit(F, z, i, k, m, v)
<1>1. /\ k \in 1 .. Len(F) /\ r \in 1 .. V /\ i \in Slots(c) /\ Position(c, i) = p
      /\ VisitedTo(c, u, v, p)
  BY DEF WalkingAt
<1>2. /\ F \in Seq(FFragment) /\ Len(F) \in Nat /\ Len(u) \in Nat
      /\ V \in Nat /\ S \in Nat /\ L[k] = S + V /\ L[k] <= Len(u) /\ DescribesAt(F, z, u, k)
  <2>1. /\ F \in Seq(FFragment) /\ Len(F) \in Nat /\ Len(u) \in Nat
    BY BuiltDef
  <2>2. /\ V \in Nat /\ F[k].SkipNum \in Nat /\ Begin(F, k) \in Nat /\ S = Begin(F, k) + F[k].SkipNum
        /\ L[k] = S + V /\ L[k] <= Len(u) /\ DescribesAt(F, z, u, k)
    BY <1>1, BuiltDef
  <2> QED BY <2>1, <2>2
<1>3. M \in Nat
  BY <1>1, <1>2, MaskSums
<1>4. p = S + (V - r) + 1
  BY DEF Place
<1>5. m = IF F[k].bHasAnyZeroes THEN M + (V - r) ELSE M
  BY DEF WalkingAt
<1>6. \A x \in 1 .. V : u[S + x] = IF F[k].bHasAnyZeroes /\ z[M + x] THEN "zero" ELSE "value"
  BY <1>2 DEF DescribesAt
<1>0. w = IF ReadsHere(F, z, k, m) THEN Append(v, i) ELSE v
  BY DEF Visit
<1> HIDE DEF S, V, M, L, p, w
<1>7. p \in Nat \ {0} /\ p <= Len(u) /\ p + r = L[k] + 1 /\ L[k] \in Nat /\ r \in Nat \ {0}
  BY <1>1, <1>2, <1>4
<1> DEFINE x == V - r + 1
<1>8. x \in 1 .. V /\ S + x = p /\ (M + (V - r)) + 1 = M + x
  BY <1>1, <1>2, <1>3, <1>4
<1> HIDE DEF x
<1>9. u[p] = IF F[k].bHasAnyZeroes /\ z[M + x] THEN "zero" ELSE "value"
  BY <1>6, <1>8
<1>10. w = IF u[p] = "value" THEN Append(v, i) ELSE v
  <2>1. CASE F[k].bHasAnyZeroes
    <3>1. m + 1 = M + x
      BY <1>5, <1>8, <2>1
    <3>2. ReadsHere(F, z, k, m) <=> ~z[M + x]
      BY <2>1, <3>1 DEF ReadsHere
    <3>3. CASE z[M + x]
      BY <1>0, <1>9, <2>1, <3>2, <3>3
    <3>4. CASE ~z[M + x]
      BY <1>0, <1>9, <2>1, <3>2, <3>4
    <3> QED BY <3>3, <3>4
  <2>2. CASE ~F[k].bHasAnyZeroes
    BY <1>0, <1>9, <2>2 DEF ReadsHere
  <2> QED BY <2>1, <2>2
<1>11. VisitedTo(c, u, w, p + 1)
  BY <1>1, <1>2, <1>7, <1>10, VisitHere
<1> QED BY <1>1, <1>2, <1>7, <1>11 DEF L, p, w

\* Within a fragment the walk goes to the next slot and the next bit.
LEMMA WalkGoesOn ==
  ASSUME NEW c \in Classes, NEW F, NEW z, NEW u, Built(F, z, u), Len(u) <= Cardinality(Slots(c)),
         NEW i, NEW k, NEW r, NEW m, NEW v, WalkingAt(c, F, u, i, k, r, m, v), r > 1
  PROVE  WalkingAt(c, F, u, NextSlot(c, i), k, r - 1, NextIndex(F, k, m), Visit(F, z, i, k, m, v))
<1> DEFINE p == Place(F, k, r)
           V == F[k].ValueNum
           S == Start(F, k)
           M == MaskStart(F, k)
           e == Sums(Lengths(F))[k]
<1>1. /\ p \in Nat \ {0} /\ p <= Len(u) /\ Len(u) \in Nat
      /\ p + r = e + 1 /\ e \in Nat /\ e <= Len(u)
      /\ k \in 1 .. Len(F) /\ r \in Nat \ {0}
      /\ i \in Slots(c) /\ Position(c, i) = p
      /\ VisitedTo(c, u, Visit(F, z, i, k, m, v), p + 1)
  BY ReadIsRight
<1>2. V \in Nat /\ S \in Nat /\ M \in Nat
  <2>1. F \in Seq(FFragment) /\ V \in Nat /\ F[k].SkipNum \in Nat /\ Begin(F, k) \in Nat
        /\ S = Begin(F, k) + F[k].SkipNum
    BY <1>1, BuiltDef
  <2>2. M \in Nat
    BY <1>1, <2>1, MaskSums
  <2> QED BY <2>1, <2>2
<1>3. r \in 1 .. V /\ (m = IF F[k].bHasAnyZeroes THEN M + (V - r) ELSE M)
  BY DEF WalkingAt
<1>4. p = S + (V - r) + 1 /\ Place(F, k, r - 1) = S + (V - (r - 1)) + 1
  BY DEF Place
<1>5. Cardinality(Slots(c)) \in Nat
  BY SlotsFinite
<1> HIDE DEF p, V, S, M, e
<1>6. r - 1 \in 1 .. V /\ Place(F, k, r - 1) = p + 1 /\ p # Cardinality(Slots(c))
      /\ (M + (V - r)) + 1 = M + (V - (r - 1))
  BY <1>1, <1>2, <1>3, <1>4, <1>5
<1>7. NextSlot(c, i) \in Slots(c) /\ Position(c, NextSlot(c, i)) = p + 1
  BY <1>1, <1>6, NextPosition
<1>8. NextIndex(F, k, m) = IF F[k].bHasAnyZeroes THEN M + (V - (r - 1)) ELSE M
  <2>1. CASE F[k].bHasAnyZeroes
    BY <1>3, <1>6, <2>1 DEF NextIndex
  <2>2. CASE ~F[k].bHasAnyZeroes
    BY <1>3, <2>2 DEF NextIndex
  <2> QED BY <2>1, <2>2
<1> QED BY <1>1, <1>6, <1>7, <1>8 DEF WalkingAt, V, M

\* Behind the last value there is none.
LEMMA WalkEnds ==
  ASSUME NEW c \in Classes, NEW F, NEW z, NEW u, Built(F, z, u),
         NEW i, NEW k, NEW m, NEW v, WalkingAt(c, F, u, i, k, 1, m, v), k = Len(F)
  PROVE  VisitedTo(c, u, Visit(F, z, i, k, m, v), Len(u) + 1)
<1> DEFINE p == Place(F, k, 1)
           e == Sums(Lengths(F))[k]
           w == Visit(F, z, i, k, m, v)
<1>1. /\ p \in Nat \ {0} /\ p <= Len(u) /\ Len(u) \in Nat
      /\ p + 1 = e + 1 /\ e \in Nat /\ e <= Len(u)
      /\ VisitedTo(c, u, w, p + 1)
  BY ReadIsRight
<1>2. \A q \in e + 1 .. Len(u) : u[q] = "skip"
  BY DEF Built
<1> HIDE DEF p, e, w
<1>3. p + 1 = e + 1 /\ p + 1 \in Nat /\ Len(u) + 1 \in Nat /\ p + 1 <= Len(u) + 1 /\ (Len(u) + 1) - 1 = Len(u)
  BY <1>1
<1>4. \A x \in p + 1 .. (Len(u) + 1) - 1 : u[x] # "value"
  BY <1>2, <1>3
<1>5. VisitedTo(c, u, w, Len(u) + 1)
  BY <1>1, <1>3, <1>4, VisitNothing
<1> QED BY <1>5 DEF w

\* The walk is at the last value of a fragment that is not the last.
AtBreak(c, F, z, u, i, k, m, v) ==
  Built(F, z, u) /\ Len(u) <= Cardinality(Slots(c)) /\ WalkingAt(c, F, u, i, k, 1, m, v) /\ k # Len(F)

\* It has read this value and is ready for the next fragment.
OverBreak(c, F, z, u, i, k, m, v) ==
  /\ ReadyAt(c, F, u, k + 1, NextSlot(c, i), Visit(F, z, i, k, m, v))
  /\ NextIndex(F, k, m) = Sums(ValueNums(F, TRUE))[(k + 1) - 1]

\* Behind a fragment that is not the last the walk is ready for the next.
LEMMA WalkReady ==
  ASSUME NEW c \in Classes, NEW F, NEW z, NEW u, NEW i, NEW k, NEW m, NEW v,
         AtBreak(c, F, z, u, i, k, m, v)
  PROVE  OverBreak(c, F, z, u, i, k, m, v)
<1> DEFINE p == Place(F, k, 1)
           n == Len(F)
           L == Sums(Lengths(F))
           w == Visit(F, z, i, k, m, v)
           V == F[k].ValueNum
           M == MaskStart(F, k)
<1>0. /\ Built(F, z, u) /\ Len(u) <= Cardinality(Slots(c)) /\ WalkingAt(c, F, u, i, k, 1, m, v)
      /\ k # Len(F)
  BY DEF AtBreak
<1>1. /\ p \in Nat \ {0} /\ p <= Len(u) /\ Len(u) \in Nat
      /\ p + 1 = L[k] + 1 /\ L[k] \in Nat /\ L[k] <= Len(u)
      /\ k \in 1 .. n /\ n \in Nat
      /\ i \in Slots(c) /\ Position(c, i) = p
      /\ VisitedTo(c, u, w, p + 1)
  BY <1>0, ReadIsRight
<1>2. F[n].ValueNum # 0
  <2>1. k \in 1 .. n /\ n \in Nat /\ k # n
    BY <1>0, <1>1
  <2>2. n # 1
    <3> HIDE DEF p, n, L, w, V, M
    <3> QED BY <2>1
  <2> QED BY <1>0, <2>2 DEF Built
<1>3. /\ F \in Seq(FFragment) /\ Lengths(F) \in Seq(Nat) /\ Len(Lengths(F)) = n /\ L \in [0 .. n -> Nat]
      /\ F[n].ValueNum \in Nat /\ F[n].SkipNum \in Nat /\ L[n] = L[n - 1] + F[n].SkipNum + F[n].ValueNum
      /\ L[n] <= Len(u)
  <2>1. n \in 1 .. n
    BY <1>1
  <2>2. /\ F \in Seq(FFragment) /\ Lengths(F) \in Seq(Nat) /\ Len(Lengths(F)) = n /\ L \in [0 .. n -> Nat]
    BY <1>0, BuiltDef
  <2>3. /\ F[n].ValueNum \in Nat /\ F[n].SkipNum \in Nat /\ L[n] = Start(F, n) + F[n].ValueNum
        /\ L[n] <= Len(u) /\ Start(F, n) = Begin(F, n) + F[n].SkipNum /\ Begin(F, n) = L[n - 1]
    BY <1>0, <2>1, BuiltDef
  <2> QED BY <2>2, <2>3
<1>4. k \in 0 .. n - 1 /\ n - 1 \in 0 .. n /\ (k + 1) - 1 = k /\ k + 1 \in 1 .. n /\ n \in k + 1 .. n
  BY <1>0, <1>1
<1>5. L[k] <= L[n - 1] /\ L[n - 1] \in Nat
  BY <1>3, <1>4, SumsGrow
<1>6. Cardinality(Slots(c)) \in Nat
  BY SlotsFinite
<1>7. L[k] < Len(u)
  <2> DEFINE a == L[k]
             b == L[n - 1]
             e == L[n]
             s == F[n].SkipNum
             t == F[n].ValueNum
  <2>1. /\ a \in Nat /\ b \in Nat /\ s \in Nat /\ t \in Nat /\ t # 0 /\ a <= b /\ e = b + s + t
        /\ e <= Len(u) /\ Len(u) \in Nat
    BY <1>1, <1>2, <1>3, <1>5
  <2> HIDE DEF a, b, e, s, t
  <2>2. a < Len(u)
    BY <2>1
  <2> QED BY <2>2 DEF a
<1>8. NextSlot(c, i) \in Slots(c) /\ Position(c, NextSlot(c, i)) = p + 1
  <2>1. p # Cardinality(Slots(c))
    <3> HIDE DEF p, L
    <3> QED BY <1>0, <1>1, <1>6, <1>7
  <2> QED BY <1>0, <1>1, <2>1, NextPosition
<1>9. ReadyAt(c, F, u, k + 1, NextSlot(c, i), w)
  <2>1. \E j \in k + 1 .. Len(F) : F[j].ValueNum # 0
    BY <1>2, <1>4
  <2>2. p + 1 = L[(k + 1) - 1] + 1
    BY <1>1, <1>4
  <2> HIDE DEF p, L, w
  <2> QED BY <1>0, <1>1, <1>4, <1>8, <2>1, <2>2 DEF ReadyAt, L, n
<1>10. /\ F[k].bHasAnyZeroes \in BOOLEAN /\ V \in Nat /\ M \in Nat
       /\ F[k].bHasAnyZeroes => Sums(ValueNums(F, TRUE))[k] = M + V
       /\ ~F[k].bHasAnyZeroes => Sums(ValueNums(F, TRUE))[k] = M
  BY <1>0, <1>1, <1>3, MaskSums
<1>11. m = IF F[k].bHasAnyZeroes THEN M + (V - 1) ELSE M
  BY <1>0 DEF WalkingAt
<1>12. NextIndex(F, k, m) = Sums(ValueNums(F, TRUE))[k]
  <2> HIDE DEF M, V
  <2>1. CASE F[k].bHasAnyZeroes
    <3>1. m + 1 = M + V
      BY <1>10, <1>11, <2>1
    <3> QED BY <1>10, <2>1, <3>1 DEF NextIndex
  <2>2. CASE ~F[k].bHasAnyZeroes
    BY <1>10, <1>11, <2>2 DEF NextIndex
  <2> QED BY <2>1, <2>2
<1> QED BY <1>4, <1>9, <1>12 DEF w, OverBreak

\* Where the flag is set, some fragment has values.
LEMMA SomeValues ==
  ASSUME NEW F, NEW z, NEW u, Built(F, z, u), \E q \in 1 .. Len(u) : u[q] = "value"
  PROVE  \E j \in 1 .. Len(F) : F[j].ValueNum # 0
<1> DEFINE n == Len(F)
           L == Sums(Lengths(F))
<1>1. /\ F \in Seq(FFragment) /\ n \in Nat \ {0} /\ Len(u) \in Nat /\ n \in 0 .. n
      /\ Lengths(F) \in Seq(Nat) /\ Len(Lengths(F)) = n /\ L \in [0 .. n -> Nat]
  BY BuiltDef
<1>2. PICK q \in 1 .. Len(u) : u[q] = "value"
  OBVIOUS
<1>3. q \in Nat \ {0} /\ q <= L[n]
  <2>1. \A x \in L[n] + 1 .. Len(u) : u[x] = "skip"
    BY DEF Built
  <2>2. L[n] \in Nat
    BY <1>1
  <2> HIDE DEF L, n
  <2> QED BY <1>1, <1>2, <2>1, <2>2
<1>4. PICK k \in 1 .. n : L[k - 1] < q /\ q <= L[k]
  <2> HIDE DEF n
  <2> QED BY <1>1, <1>3, SumsSegment
<1> DEFINE B == Begin(F, k)
           S == F[k].SkipNum
<1>5. /\ B \in Nat /\ S \in Nat /\ B = L[k - 1] /\ Start(F, k) = B + S
      /\ L[k] = Start(F, k) + F[k].ValueNum /\ DescribesAt(F, z, u, k)
  BY BuiltDef
<1>6. \A y \in 1 .. S : u[B + y] = "skip"
  BY <1>5 DEF DescribesAt
<1>7. F[k].ValueNum # 0
  <2> SUFFICES ASSUME F[k].ValueNum = 0 PROVE FALSE
    OBVIOUS
  <2> HIDE DEF B, S, L, n
  <2>1. q - B \in 1 .. S /\ B + (q - B) = q
    BY SMTT(30), <1>3, <1>4, <1>5
  <2>2. u[q] = "skip"
    BY <1>6, <2>1
  <2> QED BY <1>2, <2>2
<1> QED BY <1>7

\* Before the first slot there is nothing to read.
LEMMA NothingYet ==
  ASSUME NEW c \in Classes, NEW u, NEW p, p = 1 \/ ~\E q \in 1 .. Len(u) : u[q] = "value"
  PROVE  VisitedTo(c, u, <<>>, p)
<1>1. ASSUME NEW i \in UsedBefore(c, u, p) PROVE FALSE
  <2>1. /\ i \in Slots(c) /\ Position(c, i) < p /\ Position(c, i) <= Len(u)
        /\ u[Position(c, i)] = "value"
    BY DEF UsedBefore
  <2>2. Position(c, i) \in Nat \ {0}
    BY <2>1, PositionDef, SlotsFinite
  <2> QED BY <2>1, <2>2
<1>2. UsedBefore(c, u, p) = {}
  BY <1>1
<1>3. <<>> \in Seq(Slots(c)) /\ Len(<<>>) = 0 /\ ToSet(<<>>) = {}
  BY DEF ToSet
<1> QED BY <1>2, <1>3 DEF VisitedTo

\* SkipTo is the skip the lemmas are about.
LEMMA SkipToDef ==
  ASSUME NEW F, NEW i, NEW s, SkipTo(F, i, s), NEW k, NEW d, Skips(F, i, k, d), k # 0
  PROVE  /\ It' = Advance(class, s, d) /\ FragmentIt' = k
         /\ RemainingFragmentValues' = F[k].ValueNum
BY DEF SkipTo, Skips

LEMMA LoadKeepsWalk ==
  ASSUME BuilderInv, DataInv, WalkInv, Load
  PROVE  WalkInv'
<1> DEFINE F == Fragments
           z == ZeroMask
           u == usage
           h == LoadedHeader
<1>1. /\ pc = "load" /\ class' = class /\ F' = F /\ z' = z /\ u' = u
      /\ bHasNonZeroValues' = bHasNonZeroValues /\ visited' = visited
  BY DEF Load, build
<1>2. /\ class \in Classes /\ Built(F, z, u) /\ bHasNonZeroValues \in BOOLEAN
      /\ bHasNonZeroValues <=> \E q \in 1 .. Len(u) : u[q] = "value"
      /\ Len(u) <= Cardinality(Slots(class))
  BY <1>1 DEF BuilderInv
<1>3. ZeroMaskIndex = 0 /\ visited = <<>>
  BY <1>1 DEF WalkInv
<1>4. CASE HitsEnd
  <2>1. pc' = "error"
    BY <1>4 DEF Load
  <2> QED BY <2>1 DEF WalkInv
<1>5. CASE ~HitsEnd
  <2>1. h = Header(F, z, bHasNonZeroValues)
    BY <1>1, <1>5, LoadIsBuilt
  <2>2. h.Fragments = F /\ h.bHasNonZeroValues = bHasNonZeroValues
    BY <2>1 DEF Header
  <2>3. /\ header' = h
        /\ IF h.bHasNonZeroValues
           THEN /\ SkipTo(h.Fragments, 1, FirstSlot(class)) /\ Settle
                /\ UNCHANGED ZeroMaskIndex
           ELSE pc' = "done"
    BY <1>5 DEF Load
  <2> HIDE DEF h
  <2>4. header' = Header(F', z', bHasNonZeroValues')
    BY <1>1, <2>1, <2>3
  <2>5. CASE ~bHasNonZeroValues
    <3>1. pc' = "done"
      BY <2>2, <2>3, <2>5
    <3>2. VisitedTo(class', u', visited', Len(u') + 1)
      BY <1>1, <1>2, <1>3, <2>5, NothingYet
    <3> QED BY <2>4, <3>1, <3>2 DEF WalkInv
  <2>6. CASE bHasNonZeroValues
    <3>1. SkipTo(F, 1, FirstSlot(class)) /\ Settle /\ ZeroMaskIndex' = ZeroMaskIndex
      BY <2>2, <2>3, <2>6
    <3> DEFINE k == ValuesFrom(F, 1)
               d == Sums(SkipNums(F))[k] - Sums(SkipNums(F))[1 - 1]
    <3>2. Skips(F, 1, k, d)
      BY DEF Skips
    <3>3. F \in Seq(FFragment) /\ 1 \in 1 .. Len(F) /\ \E j \in 1 .. Len(F) : F[j].ValueNum # 0
      <4>1. F \in Seq(FFragment) /\ Len(F) \in Nat \ {0}
        BY <1>2, BuiltDef
      <4> QED BY <1>2, <2>6, <4>1, SomeValues
    <3>4. k \in 1 .. Len(F) /\ k # 0 /\ \A j \in 1 .. k - 1 : F[j].ValueNum = 0
      BY <3>3, ValuesFound
    <3>5. d \in Nat
      BY <3>3, <3>4, SkipsLead
    <3> HIDE DEF k, d
    <3>6. /\ It' = Advance(class, FirstSlot(class), d) /\ FragmentIt' = k
          /\ RemainingFragmentValues' = F[k].ValueNum
      BY <3>1, <3>2, <3>4, SkipToDef
    <3>7. pc' = IF It' = Fault THEN "crashed" ELSE "iterate"
      BY <3>1 DEF Settle
    <3>8. CASE class[1] = <<>>
      <4>1. It' \in {NoSlot, Fault}
        BY <3>5, <3>6, <3>8, AdvanceLost DEF FirstSlot
      <4> QED BY <1>1, <2>4, <3>7, <3>8, <4>1 DEF WalkInv
    <3>9. CASE class[1] # <<>>
      <4> DEFINE s == FirstSlot(class)
      <4>1. s \in Slots(class) /\ Position(class, s) = 1
        BY <1>2, <3>9, FirstPosition
      <4>2. Sums(Lengths(F))[1 - 1] = 0 /\ Sums(ValueNums(F, TRUE))[1 - 1] = 0 /\ 0 + 1 = 1
        <5>1. 1 - 1 = 0 /\ 0 + 1 = 1
          OBVIOUS
        <5>2. Sums(Lengths(F))[0] = 0
          BY <3>3, CountsDef
        <5>3. Sums(ValueNums(F, TRUE))[0] = 0
          BY <3>3, MaskDef
        <5> HIDE DEF F
        <5> QED BY <5>1, <5>2, <5>3
      <4>3. VisitedTo(class, u, visited, 1)
        BY <1>2, <1>3, NothingYet
      <4>4. ReadyAt(class, F, u, 1, s, visited)
        BY <1>2, <3>3, <4>1, <4>2, <4>3 DEF ReadyAt
      <4>5. /\ Advance(class, s, d) # Fault
            /\ WalkingAt(class, F, u, Advance(class, s, d), k, F[k].ValueNum,
                         Sums(ValueNums(F, TRUE))[1 - 1], visited)
        BY <1>2, <3>2, <4>4, SkipArrives
      <4>6. pc' = "iterate"
        BY <3>6, <3>7, <4>5
      <4>7. WalkingAt(class', F', u', It', FragmentIt', RemainingFragmentValues', ZeroMaskIndex', visited')
        BY <1>1, <1>3, <3>1, <3>6, <4>2, <4>5
      <4> QED BY <1>1, <2>4, <3>9, <4>6, <4>7 DEF WalkInv
    <3> QED BY <3>8, <3>9
  <2> QED BY <1>2, <2>5, <2>6
<1> QED BY <1>4, <1>5

\* ReadProperty keeps the walk in step with what was built.
LEMMA ReadKeepsWalk ==
  ASSUME BuilderInv, WalkInv, ReadProperty
  PROVE  WalkInv'
<1> DEFINE F == Fragments
           z == ZeroMask
           u == usage
           k == FragmentIt
           r == RemainingFragmentValues
           m == ZeroMaskIndex
           next == NextSlot(class, It)
           w == Visit(F, z, It, k, m, visited)
<1>1. /\ pc = "iterate" /\ It # NoSlot
      /\ class' = class /\ F' = F /\ z' = z /\ u' = u
      /\ bHasNonZeroValues' = bHasNonZeroValues /\ header' = header
  BY DEF ReadProperty, build
<1>2. /\ class \in Classes /\ Built(F, z, u) /\ Len(u) <= Cardinality(Slots(class))
  BY <1>1 DEF BuilderInv
<1>3. /\ header = Header(F, z, bHasNonZeroValues)
      /\ class[1] # <<>> /\ WalkingAt(class, F, u, It, k, r, m, visited)
  BY <1>1 DEF WalkInv
<1>4. header.Fragments = F /\ header.ZeroMask = z
  BY <1>3 DEF Header
<1>5. visited' = w
  BY <1>4 DEF ReadProperty, IsNonZero, Visit, ReadsHere
<1>6. ZeroMaskIndex' = NextIndex(F, k, m)
  BY <1>4 DEF ReadProperty, NextMaskIndex, NextIndex
<1>7. header' = Header(F', z', bHasNonZeroValues')
  BY <1>1, <1>3
<1>8. \/ /\ r > 1 /\ It' = next /\ RemainingFragmentValues' = r - 1
         /\ FragmentIt' = k /\ pc' = pc
      \/ r = 1 /\ F[k].bIsLast /\ pc' = "done"
      \/ r = 1 /\ ~F[k].bIsLast /\ SkipTo(F, k + 1, next) /\ Settle
  BY <1>4 DEF ReadProperty
<1>9. k \in 1 .. Len(F) /\ (F[k].bIsLast <=> k = Len(F))
  BY <1>2, <1>3 DEF WalkingAt, Built
<1> HIDE DEF w, next
<1>10. CASE r > 1 /\ It' = next /\ RemainingFragmentValues' = r - 1 /\ FragmentIt' = k /\ pc' = pc
  <2>1. WalkingAt(class, F, u, next, k, r - 1, NextIndex(F, k, m), w)
    BY <1>2, <1>3, <1>10, WalkGoesOn DEF next, w
  <2>2. WalkingAt(class', F', u', It', FragmentIt', RemainingFragmentValues', ZeroMaskIndex', visited')
    BY <1>1, <1>5, <1>6, <1>10, <2>1
  <2> QED BY <1>1, <1>3, <1>7, <1>10, <2>2 DEF WalkInv
<1>11. CASE r = 1 /\ F[k].bIsLast /\ pc' = "done"
  <2>1. VisitedTo(class, u, w, Len(u) + 1)
    BY <1>2, <1>3, <1>9, <1>11, WalkEnds DEF w
  <2>2. VisitedTo(class', u', visited', Len(u') + 1)
    BY <1>1, <1>5, <2>1
  <2> QED BY <1>7, <1>11, <2>2 DEF WalkInv
<1>12. CASE r = 1 /\ ~F[k].bIsLast /\ SkipTo(F, k + 1, next) /\ Settle
  <2> DEFINE j == ValuesFrom(F, k + 1)
             d == Sums(SkipNums(F))[j] - Sums(SkipNums(F))[(k + 1) - 1]
  <2>1. Skips(F, k + 1, j, d)
    BY DEF Skips
  <2> HIDE DEF j, d
  <2>2. WalkingAt(class, F, u, It, k, 1, m, visited) /\ k # Len(F)
    BY <1>3, <1>9, <1>12
  <2>3. /\ ReadyAt(class, F, u, k + 1, next, w)
        /\ NextIndex(F, k, m) = Sums(ValueNums(F, TRUE))[(k + 1) - 1]
    <3>1. AtBreak(class, F, z, u, It, k, m, visited)
      <4> HIDE DEF F, z, u, k, m
      <4> QED BY <1>2, <2>2 DEF AtBreak
    <3>2. OverBreak(class, F, z, u, It, k, m, visited)
      <4> HIDE DEF F, z, u, k, m
      <4> QED BY <1>2, <3>1, WalkReady
    <3> QED BY <3>2 DEF OverBreak, next, w
  <2>4. /\ j # 0 /\ Advance(class, next, d) # Fault
        /\ WalkingAt(class, F, u, Advance(class, next, d), j, F[j].ValueNum,
                     Sums(ValueNums(F, TRUE))[(k + 1) - 1], w)
    BY <1>2, <2>1, <2>3, SkipArrives
  <2>5. It' = Advance(class, next, d) /\ FragmentIt' = j /\ RemainingFragmentValues' = F[j].ValueNum
    BY <1>12, <2>1, <2>4, SkipToDef
  <2>6. pc' = "iterate"
    BY <1>12, <2>4, <2>5 DEF Settle
  <2>7. WalkingAt(class', F', u', It', FragmentIt', RemainingFragmentValues', ZeroMaskIndex', visited')
    BY <1>1, <1>5, <1>6, <2>3, <2>4, <2>5
  <2> QED BY <1>1, <1>3, <1>7, <2>6, <2>7 DEF WalkInv
<1> QED BY <1>8, <1>10, <1>11, <1>12

\* The builder has nothing to do with the walk.
LEMMA BuildKeepsWalk ==
  ASSUME WalkInv, pc \in {"build", "save"}, pc' \in {"build", "save", "load"}, UNCHANGED iterator, UNCHANGED visited
  PROVE  WalkInv'
BY DEF WalkInv, iterator

LEMMA NextKeepsWalk ==
  ASSUME BuilderInv, DataInv, WalkInv, [Next]_vars
  PROVE  WalkInv'
<1>1. ASSUME NEW bIsZero \in BOOLEAN, IncludeProperty(bIsZero) PROVE WalkInv'
  BY <1>1, BuildKeepsWalk DEF IncludeProperty, Describing
<1>2. CASE ExcludeProperty
  BY <1>2, BuildKeepsWalk DEF ExcludeProperty, Describing
<1>3. CASE Finalize
  BY <1>3, BuildKeepsWalk DEF Finalize
<1>4. CASE Save
  BY <1>4, BuildKeepsWalk DEF Save
<1>5. CASE Load
  BY <1>5, LoadKeepsWalk
<1>6. CASE LoseProperty
  <2>1. pc = "iterate" /\ It = NoSlot /\ pc' = "crashed" /\ class' = class /\ class \in Classes
    BY <1>6 DEF LoseProperty, BuilderInv
  <2>2. class[1] = <<>>
    BY <2>1, SlotNumbers DEF WalkInv, WalkingAt
  <2> QED BY <2>1, <2>2 DEF WalkInv
<1>7. CASE ReadProperty
  BY <1>7, ReadKeepsWalk
<1>8. CASE UNCHANGED vars \/ Stopped
  BY <1>8 DEF vars, build, iterator, WalkInv, Stopped
<1> QED BY <1>1, <1>2, <1>3, <1>4, <1>5, <1>6, <1>7, <1>8 DEF Next

LEMMA NextKeepsData ==
  ASSUME BuilderInv, DataInv, [Next]_vars
  PROVE  DataInv'
<1>1. ASSUME pc' \in {"build", "save"} PROVE DataInv'
  BY <1>1 DEF DataInv
<1>2. ASSUME pc \in States \ {"build", "save"}, UNCHANGED <<build, data>> PROVE DataInv'
  BY <1>2 DEF DataInv, build, data
<1>3. ASSUME NEW bIsZero \in BOOLEAN, IncludeProperty(bIsZero) PROVE DataInv'
  BY <1>1, <1>3 DEF IncludeProperty, Describing
<1>4. CASE ExcludeProperty
  BY <1>1, <1>4 DEF ExcludeProperty, Describing
<1>5. CASE Finalize
  BY <1>1, <1>5 DEF Finalize
<1>6. CASE Save
  BY <1>6, SaveKeepsData
<1>7. CASE Load
  BY <1>2, <1>7 DEF Load, States
<1>8. CASE LoseProperty
  BY <1>2, <1>8 DEF LoseProperty, States
<1>9. CASE ReadProperty
  BY <1>2, <1>9 DEF ReadProperty, States
<1>10. CASE UNCHANGED vars \/ Stopped
  BY <1>10 DEF vars, build, data, DataInv, Stopped
<1> QED BY <1>3, <1>4, <1>5, <1>6, <1>7, <1>8, <1>9, <1>10 DEF Next

-----------------------------------------------------------------------------
\* In every reachable state the builder's header describes what it was told, the
\* data is a beginning of that header packed, and the walk stands where the
\* header and the class say.
THEOREM UnversionedInvariant == Spec => []IInv
<1>1. ASSUME Init PROVE IInv
  <2>1. BuilderInv
    BY <1>1, InitBuilds
  <2>2. DataInv /\ WalkInv
    BY <1>1 DEF Init, DataInv, WalkInv, States
  <2> QED BY <2>1, <2>2 DEF IInv
<1>2. ASSUME IInv, [Next]_vars PROVE IInv'
  BY <1>2, NextKeepsBuild, NextKeepsData, NextKeepsWalk DEF IInv
<1> QED BY <1>1, <1>2, PTL DEF Spec

\* PackLosesNothing: the word a fragment is packed in gives the fragment back, at
\* every moment of every build: no count of the builder outgrows its seven bits.
THEOREM PackingIsLossless == Spec => []PackLosesNothing
<1>1. IInv => FragmentsFit
  BY DEF IInv, BuilderInv, Building, Built, FragmentsFit
<1>2. FragmentsFit => PackLosesNothing
  BY PackRoundTrip DEF FragmentsFit, PackLosesNothing
<1> QED BY <1>1, <1>2, UnversionedInvariant, PTL

\* LoadedIsBuilt: the header that FUnversionedHeader::Load accepts is the one the
\* builder finished, whatever was cut off the data.
THEOREM LoadIsFaithful == Spec => []LoadedIsBuilt
<1>1. IInv => LoadedIsBuilt
  BY DEF IInv, WalkInv, LoadedIsBuilt
<1> QED BY <1>1, UnversionedInvariant, PTL

\* ReadsWhatIsThere: for every class and every choice of properties LoadProperties
\* ends with a value read for exactly the slots that have one, in their order.
THEOREM WalkIsComplete == Spec => []ReadsWhatIsThere
<1>1. ASSUME IInv, pc = "done"
      PROVE  /\ ToSet(visited) = UsedSlots
             /\ \A m, n \in DOMAIN visited : m < n => Before(visited[m], visited[n])
  <2>1. /\ visited \in Seq(Slots(class)) /\ ToSet(visited) = UsedBefore(class, usage, Len(usage) + 1)
        /\ \A m, n \in 1 .. Len(visited) : m < n => Before(visited[m], visited[n])
    BY <1>1 DEF IInv, WalkInv, VisitedTo
  <2>2. Len(usage) \in Nat
    BY <1>1, BuiltDef DEF IInv, BuilderInv
  <2>3. \A i \in Slots(class) : Position(class, i) \in Nat
    BY <1>1, PositionDef, SlotsFinite DEF IInv, BuilderInv
  <2>4. UsedBefore(class, usage, Len(usage) + 1) = UsedSlots
    <3>1. \A i \in Slots(class) : Position(class, i) <= Len(usage) => Position(class, i) < Len(usage) + 1
      BY <2>2, <2>3
    <3> QED BY <3>1 DEF UsedBefore, UsedSlots
  <2>5. DOMAIN visited = 1 .. Len(visited)
    BY <2>1
  <2> QED BY <2>1, <2>4, <2>5
<1>2. IInv => ReadsWhatIsThere
  BY <1>1 DEF ReadsWhatIsThere
<1> QED BY <1>2, UnversionedInvariant, PTL

\* CrashOnlyWithoutOwnProperty: for a class with a property of its own no skip
\* and no trailing fragment leads FPropertyIterator past the last property.
THEOREM WalkStaysInside == Spec => []CrashOnlyWithoutOwnProperty
<1>1. IInv => CrashOnlyWithoutOwnProperty
  BY DEF IInv, WalkInv, CrashOnlyWithoutOwnProperty
<1> QED BY <1>1, UnversionedInvariant, PTL
=============================================================================
