-------------------------- MODULE IoStoreTocProofs --------------------------
(***************************************************************************)
(* Rewriting a table of contents, for every container the game may ship,   *)
(* every package and every sequence of swaps, failures and restarts: what  *)
(* a reader makes of it stays right, only the target changes, and what the *)
(* program does not understand is kept.                                    *)
(*                                                                         *)
(* The argument: a section's place in the body is the sum of the counts    *)
(* before it, so a file written with counts that fit is read back as it    *)
(* was; and every resource in memory and every file that can be read is    *)
(* the shipped one but for the target's id, its length and its blocks.     *)
(***************************************************************************)
EXTENDS IoStoreToc, NaturalFacts, SequenceTheorems, TLAPS

-----------------------------------------------------------------------------
(***************************************************************************)
(* Sections.                                                               *)
(***************************************************************************)
Starts(p, b) ==
  /\ Len(p) <= Len(b)
  /\ \A i \in 1 .. Len(p) : b[i] = p[i]

\* A part of a sequence, element by element.
LEMMA Segment ==
  ASSUME NEW Items, NEW b \in Seq(Items), NEW q \in Seq(Items), NEW a \in Nat, a + Len(q) <= Len(b),
         \A i \in 1 .. Len(q) : b[a + i] = q[i]
  PROVE  SubSeq(b, a + 1, a + Len(q)) = q
<1> DEFINE n == Len(q)
           part == SubSeq(b, a + 1, a + n)
<1>1. n \in Nat /\ Len(b) \in Nat
  BY LenProperties
<1> HIDE DEF n
<1>2. \A i \in a + 1 .. a + n : b[i] \in Items
  <2> SUFFICES ASSUME NEW i \in a + 1 .. a + n PROVE b[i] \in Items
    OBVIOUS
  <2>1. i \in 1 .. Len(b)
    BY <1>1 DEF n
  <2> QED BY <2>1, ElementOfSeq
<1>3. a + 1 \in Int /\ a + n \in Int /\ (a + n) - (a + 1) + 1 = n /\ \A i \in 1 .. n : (a + 1) + i - 1 = a + i
      /\ (IF a + 1 <= a + n THEN (a + n) - (a + 1) + 1 ELSE 0) = n
  BY <1>1
<1> DEFINE m == a + 1
           l == a + n
<1>4. part \in Seq(Items) /\ Len(part) = n /\ \A i \in 1 .. n : part[i] = b[a + i]
  <2>1. /\ SubSeq(b, m, l) \in Seq(Items)
        /\ Len(SubSeq(b, m, l)) = IF m <= l THEN l - m + 1 ELSE 0
        /\ \A i \in 1 .. l - m + 1 : SubSeq(b, m, l)[i] = b[m + i - 1]
    <3>1. m \in Int /\ l \in Int /\ \A i \in m .. l : b[i] \in Items
      BY <1>2, <1>3
    <3> HIDE DEF m, l
    <3> QED BY <3>1, SubSeqProperties
  <2> DEFINE x == SubSeq(b, m, l)
  <2>2. x = part
    BY DEF m, l, part
  <2>3. (IF m <= l THEN l - m + 1 ELSE 0) = n /\ l - m + 1 = n /\ \A i \in 1 .. n : m + i - 1 = a + i
    BY <1>1
  <2> HIDE DEF m, l, x
  <2>4. x \in Seq(Items) /\ Len(x) = n /\ \A i \in 1 .. n : x[i] = b[a + i]
    BY <2>1, <2>3 DEF x
  <2> QED BY <2>2, <2>4
<1> HIDE DEF part
<1>5. \A i \in 1 .. n : part[i] = q[i]
  BY <1>3, <1>4 DEF n
<1>6. part = q
  BY <1>4, <1>5, SeqEqual DEF n
<1> QED BY <1>6 DEF part, n

\* A beginning of a body and the section behind it.
LEMMA Peel ==
  ASSUME NEW Items, NEW counts \in Seq(Nat), NEW k \in 1 .. Len(counts),
         NEW b \in Seq(Items), NEW p \in Seq(Items), NEW q \in Seq(Items),
         Starts(p \o q, b), Len(p) = Sums(counts)[k - 1], Len(q) = counts[k]
  PROVE  Starts(p, b) /\ Section(b, counts, k) = q
<1> DEFINE a == Len(p)
           n == Len(q)
<1>1. /\ a \in Nat /\ n \in Nat /\ Len(b) \in Nat /\ Len(p \o q) = a + n
      /\ \A i \in 1 .. a + n : (p \o q)[i] = IF i <= a THEN p[i] ELSE q[i - a]
  BY LenProperties, ConcatProperties
<1>2. a + n <= Len(b) /\ \A i \in 1 .. a + n : b[i] = (p \o q)[i]
  BY <1>1 DEF Starts
<1>3. Section(b, counts, k) = SubSeq(b, a + 1, a + n)
  BY DEF Section
<1>4. \A i \in 1 .. n : b[a + i] = q[i]
  <2> SUFFICES ASSUME NEW i \in 1 .. n PROVE b[a + i] = q[i]
    OBVIOUS
  <2> HIDE DEF a, n
  <2>1. a + i \in 1 .. a + n /\ ~(a + i <= a) /\ (a + i) - a = i
    BY <1>1
  <2> QED BY <1>1, <1>2, <2>1
<1>5. Starts(p, b)
  <2>1. ASSUME NEW i \in 1 .. a PROVE b[i] = p[i]
    <3> HIDE DEF a, n
    <3>1. i \in 1 .. a + n /\ i <= a
      BY <1>1
    <3> QED BY <1>1, <1>2, <3>1
  <2>2. a <= Len(b)
    <3> HIDE DEF a, n
    <3> QED BY <1>1, <1>2
  <2> QED BY <2>1, <2>2 DEF Starts
<1>6. SubSeq(b, a + 1, a + n) = q
  BY <1>1, <1>2, <1>4, Segment
<1> QED BY <1>3, <1>5, <1>6

LEMMA Beginning ==
  ASSUME NEW Items, NEW b \in Seq(Items)
  PROVE  Starts(b, b)
BY DEF Starts

\* The first j sections, and the next one.
Stack(Items, counts, j, p) ==
  /\ counts \in Seq(Nat) /\ j \in 0 .. Len(counts)
  /\ p \in Seq(Items) /\ Len(p) = Sums(counts)[j]

Fits(Items, counts, k, q) ==
  /\ counts \in Seq(Nat) /\ k \in 1 .. Len(counts)
  /\ q \in Seq(Items) /\ Len(q) = counts[k]

Within(Items, p, b) == b \in Seq(Items) /\ Starts(p, b)

LEMMA Chain ==
  ASSUME NEW Items, NEW counts, NEW j, NEW k, k = j + 1, NEW p, NEW q,
         Stack(Items, counts, j, p), Fits(Items, counts, k, q)
  PROVE  Stack(Items, counts, k, p \o q)
<1>1. j = k - 1 /\ k \in 0 .. Len(counts)
  BY DEF Stack, Fits
<1>2. Sums(counts)[k] = Sums(counts)[j] + counts[k]
  <2>1. counts \in Seq(Nat) /\ k \in 1 .. Len(counts)
    BY DEF Fits
  <2>2. \A i \in 1 .. Len(counts) : Sums(counts)[i] = Sums(counts)[i - 1] + counts[i]
    BY <2>1, SumsDef
  <2> QED BY <1>1, <2>1, <2>2
<1>3. p \o q \in Seq(Items) /\ Len(p \o q) = Len(p) + Len(q)
  <2>1. p \in Seq(Items) /\ q \in Seq(Items)
    BY DEF Stack, Fits
  <2> QED BY <2>1, ConcatProperties
<1> QED BY <1>1, <1>2, <1>3 DEF Stack, Fits

LEMMA Unchain ==
  ASSUME NEW Items, NEW counts, NEW j, NEW k, k = j + 1, NEW p, NEW q, NEW b,
         Stack(Items, counts, j, p), Fits(Items, counts, k, q), Within(Items, p \o q, b)
  PROVE  Within(Items, p, b) /\ Section(b, counts, k) = q
<1>1. j = k - 1
  BY DEF Stack, Fits
<1>2. /\ counts \in Seq(Nat) /\ k \in 1 .. Len(counts) /\ p \in Seq(Items) /\ q \in Seq(Items)
      /\ Len(p) = Sums(counts)[k - 1] /\ Len(q) = counts[k]
  BY <1>1 DEF Stack, Fits
<1>3. b \in Seq(Items) /\ Starts(p \o q, b)
  BY DEF Within
<1> QED BY <1>2, <1>3, Peel DEF Within

LEMMA Bottom ==
  ASSUME NEW Items, NEW counts, NEW q, Fits(Items, counts, 1, q)
  PROVE  /\ Stack(Items, counts, 0, <<>>) /\ Stack(Items, counts, 1, q)
         /\ <<>> \o q = q
<1>1. counts \in Seq(Nat) /\ 1 \in 1 .. Len(counts) /\ q \in Seq(Items) /\ Len(q) = counts[1]
  BY DEF Fits
<1>2. Stack(Items, counts, 0, <<>>)
  <2>1. Sums(counts)[0] = 0 /\ 0 \in 0 .. Len(counts)
    BY <1>1, SumsDef
  <2> QED BY <1>1, <2>1 DEF Stack
<1>3. <<>> \o q = q
  BY <1>1, ConcatEmptySeq
<1>4. 1 = 0 + 1
  OBVIOUS
<1>5. Stack(Items, counts, 1, <<>> \o q)
  BY <1>2, <1>4, Chain
<1> QED BY <1>2, <1>3, <1>5

LEMMA FirstSection ==
  ASSUME NEW Items, NEW counts, NEW q, NEW b, Fits(Items, counts, 1, q), Within(Items, q, b)
  PROVE  Section(b, counts, 1) = q
<1> DEFINE p == <<>>
<1>1. Stack(Items, counts, 0, p) /\ p \o q = q /\ 1 = 0 + 1
  BY Bottom
<1> HIDE DEF p
<1>2. Within(Items, p \o q, b)
  BY <1>1
<1>3. Stack(Items, counts, 0, p) /\ 1 = 0 + 1
  BY <1>1
<1> QED BY <1>2, <1>3, Unchain

\* The first element of a section.
Begins(counts, j, k, b, q) == counts[k] = 1 => b[Sums(counts)[j] + 1] = q[1]

LEMMA FirstOfSection ==
  ASSUME NEW Items, NEW counts, NEW j, NEW k, k = j + 1, NEW p, NEW q, NEW b,
         Stack(Items, counts, j, p), Fits(Items, counts, k, q), Within(Items, p \o q, b)
  PROVE  Begins(counts, j, k, b, q)
<1> SUFFICES ASSUME counts[k] = 1 PROVE b[Sums(counts)[j] + 1] = q[1]
  BY DEF Begins
<1> DEFINE a == Len(p)
<1>1. /\ a \in Nat /\ Len(p \o q) = a + 1
      /\ \A i \in 1 .. a + 1 : (p \o q)[i] = IF i <= a THEN p[i] ELSE q[i - a]
  <2>1. p \in Seq(Items) /\ q \in Seq(Items) /\ Len(q) = 1
    BY DEF Stack, Fits
  <2>2. /\ Len(p) \in Nat /\ Len(p \o q) = Len(p) + Len(q)
        /\ \A i \in 1 .. Len(p) + Len(q) : (p \o q)[i] = IF i <= Len(p) THEN p[i] ELSE q[i - Len(p)]
    BY <2>1, LenProperties, ConcatProperties
  <2> QED BY <2>1, <2>2
<1>2. \A i \in 1 .. a + 1 : b[i] = (p \o q)[i]
  BY <1>1 DEF Within, Starts
<1>3. a + 1 \in 1 .. a + 1 /\ ~(a + 1 <= a) /\ (a + 1) - a = 1
  BY <1>1
<1>4. b[a + 1] = q[1]
  BY <1>1, <1>2, <1>3
<1> QED BY <1>4 DEF Stack

Fitting(Items, counts, s) ==
  /\ counts \in Seq(Nat) /\ Len(counts) = 12
  /\ \A k \in 1 .. 12 : s[k] \in Seq(Items) /\ Len(s[k]) = counts[k]

Joined(s) ==
  s[1] \o s[2] \o s[3] \o s[4] \o s[5] \o s[6] \o s[7] \o s[8] \o s[9] \o s[10] \o s[11] \o s[12]

\* Twelve sections one behind the other: each is found where the counts say.
LEMMA TwelveSections ==
  ASSUME NEW Items, NEW counts, NEW s, Fitting(Items, counts, s), NEW b,
         b = Joined(s)
  PROVE  /\ b \in Seq(Items)
         /\ \A k \in 1 .. 12 : Section(b, counts, k) = s[k]
         /\ counts[7] = 1 => b[Sums(counts)[6] + 1] = s[7][1]
<1> DEFINE p1 == s[1]
           p2 == p1 \o s[2]
           p3 == p2 \o s[3]
           p4 == p3 \o s[4]
           p5 == p4 \o s[5]
           p6 == p5 \o s[6]
           p7 == p6 \o s[7]
           p8 == p7 \o s[8]
           p9 == p8 \o s[9]
           p10 == p9 \o s[10]
           p11 == p10 \o s[11]
           p12 == p11 \o s[12]
<1>0. \A k \in 1 .. 12 : Fits(Items, counts, k, s[k])
  BY DEF Fitting, Fits
<1>2. p2 = p1 \o s[2]
  OBVIOUS
<1>3. p3 = p2 \o s[3]
  OBVIOUS
<1>4. p4 = p3 \o s[4]
  OBVIOUS
<1>5. p5 = p4 \o s[5]
  OBVIOUS
<1>6. p6 = p5 \o s[6]
  OBVIOUS
<1>7. p7 = p6 \o s[7]
  OBVIOUS
<1>8. p8 = p7 \o s[8]
  OBVIOUS
<1>9. p9 = p8 \o s[9]
  OBVIOUS
<1>10. p10 = p9 \o s[10]
  OBVIOUS
<1>11. p11 = p10 \o s[11]
  OBVIOUS
<1>12. p12 = p11 \o s[12]
  OBVIOUS
<1>13. b = p12
  BY DEF Joined
<1>14. p1 = s[1]
  OBVIOUS
<1> HIDE DEF p1, p2, p3, p4, p5, p6, p7, p8, p9, p10, p11, p12
<1>21. Stack(Items, counts, 1, p1)
  <2>1. Fits(Items, counts, 1, s[1])
    BY <1>0
  <2> QED BY <1>14, <2>1, Bottom
<1>22. Stack(Items, counts, 2, p2)
  <2>1. 2 = 1 + 1 /\ Fits(Items, counts, 2, s[2])
    BY <1>0
  <2>2. Stack(Items, counts, 2, p1 \o s[2])
    BY <1>21, <2>1, Chain
  <2> QED BY <1>2, <2>2
<1>23. Stack(Items, counts, 3, p3)
  <2>1. 3 = 2 + 1 /\ Fits(Items, counts, 3, s[3])
    BY <1>0
  <2>2. Stack(Items, counts, 3, p2 \o s[3])
    BY <1>22, <2>1, Chain
  <2> QED BY <1>3, <2>2
<1>24. Stack(Items, counts, 4, p4)
  <2>1. 4 = 3 + 1 /\ Fits(Items, counts, 4, s[4])
    BY <1>0
  <2>2. Stack(Items, counts, 4, p3 \o s[4])
    BY <1>23, <2>1, Chain
  <2> QED BY <1>4, <2>2
<1>25. Stack(Items, counts, 5, p5)
  <2>1. 5 = 4 + 1 /\ Fits(Items, counts, 5, s[5])
    BY <1>0
  <2>2. Stack(Items, counts, 5, p4 \o s[5])
    BY <1>24, <2>1, Chain
  <2> QED BY <1>5, <2>2
<1>26. Stack(Items, counts, 6, p6)
  <2>1. 6 = 5 + 1 /\ Fits(Items, counts, 6, s[6])
    BY <1>0
  <2>2. Stack(Items, counts, 6, p5 \o s[6])
    BY <1>25, <2>1, Chain
  <2> QED BY <1>6, <2>2
<1>27. Stack(Items, counts, 7, p7)
  <2>1. 7 = 6 + 1 /\ Fits(Items, counts, 7, s[7])
    BY <1>0
  <2>2. Stack(Items, counts, 7, p6 \o s[7])
    BY <1>26, <2>1, Chain
  <2> QED BY <1>7, <2>2
<1>28. Stack(Items, counts, 8, p8)
  <2>1. 8 = 7 + 1 /\ Fits(Items, counts, 8, s[8])
    BY <1>0
  <2>2. Stack(Items, counts, 8, p7 \o s[8])
    BY <1>27, <2>1, Chain
  <2> QED BY <1>8, <2>2
<1>29. Stack(Items, counts, 9, p9)
  <2>1. 9 = 8 + 1 /\ Fits(Items, counts, 9, s[9])
    BY <1>0
  <2>2. Stack(Items, counts, 9, p8 \o s[9])
    BY <1>28, <2>1, Chain
  <2> QED BY <1>9, <2>2
<1>30. Stack(Items, counts, 10, p10)
  <2>1. 10 = 9 + 1 /\ Fits(Items, counts, 10, s[10])
    BY <1>0
  <2>2. Stack(Items, counts, 10, p9 \o s[10])
    BY <1>29, <2>1, Chain
  <2> QED BY <1>10, <2>2
<1>31. Stack(Items, counts, 11, p11)
  <2>1. 11 = 10 + 1 /\ Fits(Items, counts, 11, s[11])
    BY <1>0
  <2>2. Stack(Items, counts, 11, p10 \o s[11])
    BY <1>30, <2>1, Chain
  <2> QED BY <1>11, <2>2
<1>32. Stack(Items, counts, 12, p12)
  <2>1. 12 = 11 + 1 /\ Fits(Items, counts, 12, s[12])
    BY <1>0
  <2>2. Stack(Items, counts, 12, p11 \o s[12])
    BY <1>31, <2>1, Chain
  <2> QED BY <1>12, <2>2
<1>33. Within(Items, b, b)
  <2>1. b \in Seq(Items)
    BY <1>32, <1>13 DEF Stack
  <2> QED BY <2>1, Beginning DEF Within
<1>52. Within(Items, p12, b)
  BY <1>13, <1>33
<1>51. Within(Items, p11, b) /\ Section(b, counts, 12) = s[12]
  <2>1. 12 = 11 + 1 /\ Fits(Items, counts, 12, s[12])
    BY <1>0
  <2>2. Within(Items, p11 \o s[12], b)
    BY <1>12, <1>52
  <2> QED BY <1>31, <2>1, <2>2, Unchain
<1>50. Within(Items, p10, b) /\ Section(b, counts, 11) = s[11]
  <2>1. 11 = 10 + 1 /\ Fits(Items, counts, 11, s[11])
    BY <1>0
  <2>2. Within(Items, p10 \o s[11], b)
    BY <1>11, <1>51
  <2> QED BY <1>30, <2>1, <2>2, Unchain
<1>49. Within(Items, p9, b) /\ Section(b, counts, 10) = s[10]
  <2>1. 10 = 9 + 1 /\ Fits(Items, counts, 10, s[10])
    BY <1>0
  <2>2. Within(Items, p9 \o s[10], b)
    BY <1>10, <1>50
  <2> QED BY <1>29, <2>1, <2>2, Unchain
<1>48. Within(Items, p8, b) /\ Section(b, counts, 9) = s[9]
  <2>1. 9 = 8 + 1 /\ Fits(Items, counts, 9, s[9])
    BY <1>0
  <2>2. Within(Items, p8 \o s[9], b)
    BY <1>9, <1>49
  <2> QED BY <1>28, <2>1, <2>2, Unchain
<1>47. Within(Items, p7, b) /\ Section(b, counts, 8) = s[8]
  <2>1. 8 = 7 + 1 /\ Fits(Items, counts, 8, s[8])
    BY <1>0
  <2>2. Within(Items, p7 \o s[8], b)
    BY <1>8, <1>48
  <2> QED BY <1>27, <2>1, <2>2, Unchain
<1>46. Within(Items, p6, b) /\ Section(b, counts, 7) = s[7]
  <2>1. 7 = 6 + 1 /\ Fits(Items, counts, 7, s[7])
    BY <1>0
  <2>2. Within(Items, p6 \o s[7], b)
    BY <1>7, <1>47
  <2> QED BY <1>26, <2>1, <2>2, Unchain
<1>45. Within(Items, p5, b) /\ Section(b, counts, 6) = s[6]
  <2>1. 6 = 5 + 1 /\ Fits(Items, counts, 6, s[6])
    BY <1>0
  <2>2. Within(Items, p5 \o s[6], b)
    BY <1>6, <1>46
  <2> QED BY <1>25, <2>1, <2>2, Unchain
<1>44. Within(Items, p4, b) /\ Section(b, counts, 5) = s[5]
  <2>1. 5 = 4 + 1 /\ Fits(Items, counts, 5, s[5])
    BY <1>0
  <2>2. Within(Items, p4 \o s[5], b)
    BY <1>5, <1>45
  <2> QED BY <1>24, <2>1, <2>2, Unchain
<1>43. Within(Items, p3, b) /\ Section(b, counts, 4) = s[4]
  <2>1. 4 = 3 + 1 /\ Fits(Items, counts, 4, s[4])
    BY <1>0
  <2>2. Within(Items, p3 \o s[4], b)
    BY <1>4, <1>44
  <2> QED BY <1>23, <2>1, <2>2, Unchain
<1>42. Within(Items, p2, b) /\ Section(b, counts, 3) = s[3]
  <2>1. 3 = 2 + 1 /\ Fits(Items, counts, 3, s[3])
    BY <1>0
  <2>2. Within(Items, p2 \o s[3], b)
    BY <1>3, <1>43
  <2> QED BY <1>22, <2>1, <2>2, Unchain
<1>41. Within(Items, p1, b) /\ Section(b, counts, 2) = s[2]
  <2>1. 2 = 1 + 1 /\ Fits(Items, counts, 2, s[2])
    BY <1>0
  <2>2. Within(Items, p1 \o s[2], b)
    BY <1>2, <1>42
  <2> QED BY <1>21, <2>1, <2>2, Unchain
<1>60. Section(b, counts, 1) = s[1]
  <2>1. Fits(Items, counts, 1, s[1]) /\ Within(Items, s[1], b)
    BY <1>0, <1>14, <1>41
  <2> QED BY <2>1, FirstSection
<1>61. counts[7] = 1 => b[Sums(counts)[6] + 1] = s[7][1]
  <2>1. 7 = 6 + 1 /\ Fits(Items, counts, 7, s[7])
    BY <1>0
  <2>2. Within(Items, p6 \o s[7], b)
    BY <1>7, <1>47
  <2>3. Begins(counts, 6, 7, b, s[7])
    BY <1>26, <2>1, <2>2, FirstOfSection
  <2> QED BY <2>3 DEF Begins
<1>62. ASSUME NEW k \in 1 .. 12 PROVE Section(b, counts, k) = s[k]
  <2>1. k \in {1, 2, 3, 4, 5, 6, 7, 8, 9, 10, 11, 12}
    OBVIOUS
  <2> QED BY <2>1, <1>41, <1>42, <1>43, <1>44, <1>45, <1>46, <1>47, <1>48, <1>49, <1>50, <1>51, <1>60
<1>63. b \in Seq(Items)
  BY <1>33 DEF Within
<1> QED BY <1>61, <1>62, <1>63

-----------------------------------------------------------------------------
(***************************************************************************)
(* What is written is read.                                                *)
(***************************************************************************)
Names == {"", "Oodle", "Zlib"}
Layers == {"plain", "encrypted", "garbage"}

Item ==
  [chunk : Nat, hidden : BOOLEAN] \cup [offset : Nat, length : Nat]
    \cup [seed : Nat] \cup [imperfect : Nat]
    \cup [offset : Nat, csize : Nat, usize : Nat, method : Nat]
    \cup [name : Names] \cup [HashSize : Nat]
    \cup [tocSignature : Nat] \cup [blockSignature : Nat] \cup [blockHash : Nat]
    \cup [layer : Layers] \cup [meta : Nat]

\* The header's counts are those of the sections, and what it says is not
\* there is empty.
Storable(t) ==
  LET h == t.header
  IN /\ {t.ids, t.offsets, t.seeds, t.overflow, t.blocks, t.tocSignature, t.blockSignature,
         t.chunkSignatures, t.directory, t.metas} \subseteq Seq(Item)
     /\ t.methods \in Seq(Names)
     /\ h.signed \in BOOLEAN /\ h.indexed \in BOOLEAN
     /\ h.entries = Len(t.ids) /\ Len(t.offsets) = h.entries /\ Len(t.metas) = h.entries
     /\ (IF h.version >= PerfectHash THEN h.seeds ELSE 0) = Len(t.seeds)
     /\ (IF h.version >= PerfectHashWithOverflow THEN h.overflow ELSE 0) = Len(t.overflow)
     /\ h.blocks = Len(t.blocks) /\ h.methods = Len(t.methods) /\ h.index = Len(t.directory)
     /\ Len(t.blockSignature) = Len(t.tocSignature)
     /\ Len(t.chunkSignatures) = IF h.signed THEN h.blocks ELSE 0
     /\ ~h.signed => Len(t.tocSignature) = 0
     /\ ~h.indexed => Len(t.directory) = 0

\* What reading its file makes of a table.
Loaded(t) ==
  [header |-> ReadHeader(t.header), ids |-> t.ids, offsets |-> t.offsets, seeds |-> t.seeds,
   overflow |-> t.overflow, blocks |-> t.blocks, methods |-> <<"">> \o t.methods,
   tocSignature |-> t.tocSignature, blockSignature |-> t.blockSignature,
   chunkSignatures |-> t.chunkSignatures, directory |-> t.directory, metas |-> t.metas]

TrueCounts(t) ==
  <<Len(t.ids), Len(t.ids), Len(t.seeds), Len(t.overflow), Len(t.blocks), Len(t.methods),
    IF t.header.signed THEN 1 ELSE 0, Len(t.tocSignature), Len(t.tocSignature),
    Len(t.chunkSignatures), Len(t.directory), Len(t.ids)>>

HashEntry(t) ==
  IF t.header.signed THEN <<[HashSize |-> Len(t.tocSignature)]>> ELSE <<>>

Stored(t) ==
  <<t.ids, t.offsets, t.seeds, t.overflow, t.blocks, NameEntries(t.methods), HashEntry(t),
    t.tocSignature, t.blockSignature, t.chunkSignatures, t.directory, t.metas>>

LEMMA EmptyIsNone ==
  ASSUME NEW S, NEW s \in Seq(S), Len(s) = 0
  PROVE  s = <<>>
BY EmptySeq, LenProperties

LEMMA NamesOf ==
  ASSUME NEW methods \in Seq(Names)
  PROVE  /\ NameEntries(methods) \in Seq(Item) /\ Len(NameEntries(methods)) = Len(methods)
         /\ [i \in 1 .. Len(methods) |-> NameEntries(methods)[i].name] = methods
<1> DEFINE n == Len(methods)
<1>1. n \in Nat /\ DOMAIN methods = 1 .. n /\ \A i \in 1 .. n : methods[i] \in Names
  BY LenProperties, ElementOfSeq
<1>2. methods = [i \in 1 .. n |-> methods[i]]
  OBVIOUS
<1>3. NameEntries(methods) = [i \in 1 .. n |-> [name |-> methods[i]]]
  BY <1>1 DEF NameEntries
<1> DEFINE e == NameEntries(methods)
<1> HIDE DEF n, e
<1>4. \A i \in 1 .. n : [name |-> methods[i]] \in Item
  BY <1>1 DEF Item
<1>5. e \in Seq(Item) /\ Len(e) = n
  <2>1. e = [i \in 1 .. n |-> [name |-> methods[i]]]
    BY <1>3 DEF e
  <2>2. e \in [1 .. n -> Item]
    BY <1>4, <2>1
  <2> QED BY <1>1, <2>1, <2>2
<1>6. \A i \in 1 .. n : e[i].name = methods[i]
  BY <1>3 DEF e
<1>7. [i \in 1 .. n |-> e[i].name] = methods
  BY <1>2, <1>6
<1> QED BY <1>5, <1>7 DEF n, e

LEMMA StoredFits ==
  ASSUME NEW t, Storable(t)
  PROVE  Fitting(Item, TrueCounts(t), Stored(t))
<1> DEFINE c == TrueCounts(t)
           s == Stored(t)
<1>1. /\ t.ids \in Seq(Item) /\ t.offsets \in Seq(Item) /\ t.seeds \in Seq(Item)
      /\ t.overflow \in Seq(Item) /\ t.blocks \in Seq(Item) /\ t.tocSignature \in Seq(Item)
      /\ t.blockSignature \in Seq(Item) /\ t.chunkSignatures \in Seq(Item)
      /\ t.directory \in Seq(Item) /\ t.metas \in Seq(Item)
      /\ Len(t.offsets) = Len(t.ids) /\ Len(t.metas) = Len(t.ids)
      /\ Len(t.blockSignature) = Len(t.tocSignature)
      /\ t.methods \in Seq(Names) /\ t.header.signed \in BOOLEAN
  BY DEF Storable
<1>2. NameEntries(t.methods) \in Seq(Item) /\ Len(NameEntries(t.methods)) = Len(t.methods)
  BY <1>1, NamesOf
<1>3. HashEntry(t) \in Seq(Item) /\ Len(HashEntry(t)) = IF t.header.signed THEN 1 ELSE 0
  <2>1. Len(t.tocSignature) \in Nat
    BY <1>1, LenProperties
  <2>2. [HashSize |-> Len(t.tocSignature)] \in Item
    BY <2>1 DEF Item
  <2> DEFINE x == [HashSize |-> Len(t.tocSignature)]
  <2> HIDE DEF x
  <2>3. <<x>> \in Seq(Item) /\ Len(<<x>>) = 1 /\ <<>> \in Seq(Item) /\ Len(<<>>) = 0
    BY <2>2 DEF x
  <2> QED BY <2>3 DEF HashEntry, x
<1>4. ASSUME NEW S, NEW q \in Seq(S) PROVE Len(q) \in Nat
  BY LenProperties
<1>5. /\ Len(t.ids) \in Nat /\ Len(t.seeds) \in Nat /\ Len(t.overflow) \in Nat /\ Len(t.blocks) \in Nat
      /\ Len(t.methods) \in Nat /\ Len(t.tocSignature) \in Nat /\ Len(t.chunkSignatures) \in Nat
      /\ Len(t.directory) \in Nat
  BY <1>1, <1>4
<1>6. c \in Seq(Nat) /\ Len(c) = 12
  BY <1>5 DEF TrueCounts
<1>7. ASSUME NEW k \in 1 .. 12 PROVE s[k] \in Seq(Item) /\ Len(s[k]) = c[k]
  <2>1. k \in {1, 2, 3, 4, 5, 6, 7, 8, 9, 10, 11, 12}
    OBVIOUS
  <2>2. /\ s[1] = t.ids /\ s[2] = t.offsets /\ s[3] = t.seeds /\ s[4] = t.overflow
        /\ s[5] = t.blocks /\ s[6] = NameEntries(t.methods) /\ s[7] = HashEntry(t)
        /\ s[8] = t.tocSignature /\ s[9] = t.blockSignature /\ s[10] = t.chunkSignatures
        /\ s[11] = t.directory /\ s[12] = t.metas
    BY DEF Stored
  <2>3. /\ c[1] = Len(t.ids) /\ c[2] = Len(t.ids) /\ c[3] = Len(t.seeds) /\ c[4] = Len(t.overflow)
        /\ c[5] = Len(t.blocks) /\ c[6] = Len(t.methods)
        /\ c[7] = (IF t.header.signed THEN 1 ELSE 0)
        /\ c[8] = Len(t.tocSignature) /\ c[9] = Len(t.tocSignature)
        /\ c[10] = Len(t.chunkSignatures) /\ c[11] = Len(t.directory) /\ c[12] = Len(t.ids)
    BY DEF TrueCounts
  <2> HIDE DEF c, s
  <2> QED BY <1>1, <1>2, <1>3, <2>1, <2>2, <2>3
<1> QED BY <1>6, <1>7 DEF Fitting

LEMMA SumOfSix ==
  ASSUME NEW v \in Seq(Nat), Len(v) = 12
  PROVE  Sums(v)[6] = v[1] + v[2] + v[3] + v[4] + v[5] + v[6]
<1>1. /\ Sums(v)[0] = 0
      /\ \A k \in 1 .. 12 : Sums(v)[k] = Sums(v)[k - 1] + v[k] /\ v[k] \in Nat
  <2>1. \A k \in 1 .. Len(v) : v[k] \in Nat
    BY ElementOfSeq
  <2> QED BY <2>1, SumsDef
<1> DEFINE at == Sums(v)
<1>2. at[0] = 0 /\ \A k \in 1 .. 12 : at[k] = at[k - 1] + v[k] /\ v[k] \in Nat
  BY <1>1
<1> HIDE DEF at
<1>3. /\ at[1] = at[0] + v[1] /\ at[2] = at[1] + v[2] /\ at[3] = at[2] + v[3]
      /\ at[4] = at[3] + v[4] /\ at[5] = at[4] + v[5] /\ at[6] = at[5] + v[6]
      /\ v[1] \in Nat /\ v[2] \in Nat /\ v[3] \in Nat /\ v[4] \in Nat /\ v[5] \in Nat /\ v[6] \in Nat
  <2>1. 1 - 1 = 0 /\ 2 - 1 = 1 /\ 3 - 1 = 2 /\ 4 - 1 = 3 /\ 5 - 1 = 4 /\ 6 - 1 = 5
    OBVIOUS
  <2>2. {1, 2, 3, 4, 5, 6} \subseteq 1 .. 12
    OBVIOUS
  <2> QED BY <1>2, <2>1, <2>2
<1>4. at[6] = v[1] + v[2] + v[3] + v[4] + v[5] + v[6]
  BY <1>2, <1>3
<1> QED BY <1>4 DEF at

LEMMA SectionsAreStored ==
  ASSUME NEW t, Storable(t)
  PROVE  Sections(t) = Joined(Stored(t))
<1> DEFINE s == Stored(t)
           h == t.header
<1>1. /\ s[1] = t.ids /\ s[2] = t.offsets /\ s[3] = t.seeds /\ s[4] = t.overflow
      /\ s[5] = t.blocks /\ s[6] = NameEntries(t.methods) /\ s[7] = HashEntry(t)
      /\ s[8] = t.tocSignature /\ s[9] = t.blockSignature /\ s[10] = t.chunkSignatures
      /\ s[11] = t.directory /\ s[12] = t.metas
  BY DEF Stored
<1>2. HashEntry(t) = IF h.signed THEN <<[HashSize |-> Len(t.tocSignature)]>> ELSE <<>>
  BY DEF HashEntry
<1>3. /\ h.signed \in BOOLEAN /\ h.indexed \in BOOLEAN
      /\ ~h.signed => t.tocSignature = <<>> /\ t.blockSignature = <<>> /\ t.chunkSignatures = <<>>
      /\ ~h.indexed => t.directory = <<>>
  <2>1. /\ t.tocSignature \in Seq(Item) /\ t.blockSignature \in Seq(Item)
        /\ t.chunkSignatures \in Seq(Item) /\ t.directory \in Seq(Item)
        /\ h.signed \in BOOLEAN /\ h.indexed \in BOOLEAN
        /\ Len(t.blockSignature) = Len(t.tocSignature)
        /\ Len(t.chunkSignatures) = IF h.signed THEN h.blocks ELSE 0
        /\ ~h.signed => Len(t.tocSignature) = 0
        /\ ~h.indexed => Len(t.directory) = 0
    BY DEF Storable
  <2>2. \A q \in Seq(Item) : Len(q) = 0 => q = <<>>
    BY EmptyIsNone
  <2> QED BY <2>1, <2>2
<1>4. /\ (IF h.signed THEN t.tocSignature ELSE <<>>) = t.tocSignature
      /\ (IF h.signed THEN t.blockSignature ELSE <<>>) = t.blockSignature
      /\ (IF h.signed THEN t.chunkSignatures ELSE <<>>) = t.chunkSignatures
      /\ (IF h.indexed THEN t.directory ELSE <<>>) = t.directory
  BY <1>3
<1>5. Sections(t) =
        t.ids \o t.offsets \o t.seeds \o t.overflow \o t.blocks \o NameEntries(t.methods)
          \o HashEntry(t) \o t.tocSignature \o t.blockSignature \o t.chunkSignatures
          \o t.directory \o t.metas
  BY <1>2, <1>4 DEF Sections
<1> HIDE DEF s
<1>6. t.ids \o t.offsets \o t.seeds \o t.overflow \o t.blocks \o NameEntries(t.methods)
          \o HashEntry(t) \o t.tocSignature \o t.blockSignature \o t.chunkSignatures
          \o t.directory \o t.metas
      = Joined(s)
  BY <1>1 DEF Joined
<1> QED BY <1>5, <1>6 DEF s

LEMMA SectionsAreFound ==
  ASSUME NEW t, Storable(t)
  PROVE  LET b == Sections(t)
             c == TrueCounts(t)
         IN /\ \A k \in 1 .. 12 : Section(b, c, k) = Stored(t)[k]
            /\ t.header.signed =>
                 b[Len(t.ids) + Len(t.ids) + Len(t.seeds) + Len(t.overflow) + Len(t.blocks)
                     + Len(t.methods) + 1].HashSize = Len(t.tocSignature)
<1> DEFINE b == Sections(t)
           c == TrueCounts(t)
           s == Stored(t)
<1>1. Fitting(Item, c, s)
  BY StoredFits
<1>2. b = Joined(s)
  BY SectionsAreStored
<1>3. s[7] = HashEntry(t) /\ c[7] = (IF t.header.signed THEN 1 ELSE 0)
      /\ c[1] = Len(t.ids) /\ c[2] = Len(t.ids) /\ c[3] = Len(t.seeds) /\ c[4] = Len(t.overflow)
      /\ c[5] = Len(t.blocks) /\ c[6] = Len(t.methods)
  BY DEF Stored, TrueCounts
<1> HIDE DEF b, c, s
<1>4. /\ \A k \in 1 .. 12 : Section(b, c, k) = s[k]
      /\ c[7] = 1 => b[Sums(c)[6] + 1] = s[7][1]
  BY <1>1, <1>2, TwelveSections
<1>5. Sums(c)[6] = c[1] + c[2] + c[3] + c[4] + c[5] + c[6]
  <2>1. c \in Seq(Nat) /\ Len(c) = 12
    BY <1>1 DEF Fitting
  <2> QED BY <2>1, SumOfSix
<1>6. t.header.signed => HashEntry(t)[1].HashSize = Len(t.tocSignature)
  BY DEF HashEntry
<1>7. t.header.signed =>
        b[c[1] + c[2] + c[3] + c[4] + c[5] + c[6] + 1].HashSize = Len(t.tocSignature)
  BY <1>3, <1>4, <1>5, <1>6
<1>8. t.header.signed =>
        b[Len(t.ids) + Len(t.ids) + Len(t.seeds) + Len(t.overflow) + Len(t.blocks)
            + Len(t.methods) + 1].HashSize = Len(t.tocSignature)
  BY <1>3, <1>7
<1> QED BY <1>4, <1>8 DEF b, c, s

LEMMA CountsAreTrue ==
  ASSUME NEW t, Storable(t)
  PROVE  Counts(FileOf(t)) = TrueCounts(t)
<1> DEFINE h == t.header
           seeds == IF h.version >= PerfectHash THEN h.seeds ELSE 0
           overflow == IF h.version >= PerfectHashWithOverflow THEN h.overflow ELSE 0
           front == h.entries + h.entries + seeds + overflow + h.blocks + h.methods
           b == Sections(t)
           HashSize == b[front + 1].HashSize
<1>1. FileOf(t).header = h /\ FileOf(t).body = b
  BY DEF FileOf
<1>2. /\ h.entries = Len(t.ids) /\ seeds = Len(t.seeds) /\ overflow = Len(t.overflow)
      /\ h.blocks = Len(t.blocks) /\ h.methods = Len(t.methods) /\ h.index = Len(t.directory)
      /\ Len(t.chunkSignatures) = (IF h.signed THEN h.blocks ELSE 0)
      /\ ~h.signed => Len(t.tocSignature) = 0
  BY DEF Storable
<1>3. h.signed => HashSize = Len(t.tocSignature)
  BY <1>2, SectionsAreFound
<1>4. Counts(FileOf(t)) =
        <<h.entries, h.entries, seeds, overflow, h.blocks, h.methods,
          IF h.signed THEN 1 ELSE 0, IF h.signed THEN HashSize ELSE 0,
          IF h.signed THEN HashSize ELSE 0, IF h.signed THEN h.blocks ELSE 0,
          h.index, h.entries>>
  BY <1>1 DEF Counts
<1> HIDE DEF seeds, overflow, HashSize
<1>5. (IF h.signed THEN HashSize ELSE 0) = Len(t.tocSignature)
  BY <1>2, <1>3
<1> QED BY <1>2, <1>4, <1>5 DEF TrueCounts

\* A file written with counts that fit is read as it was in memory, with the empty
\* method before the others.
LEMMA ReadBack ==
  ASSUME NEW t, Storable(t)
  PROVE  Read(FileOf(t)) = Loaded(t)
<1> DEFINE h == t.header
           b == Sections(t)
           c == TrueCounts(t)
           The(k) == Section(b, c, k)
<1>1. FileOf(t).header = h /\ FileOf(t).body = b /\ Counts(FileOf(t)) = c
  BY CountsAreTrue DEF FileOf
<1>2. Read(FileOf(t)) =
        [header |-> ReadHeader(h), ids |-> The(1), offsets |-> The(2), seeds |-> The(3),
         overflow |-> The(4), blocks |-> The(5),
         methods |-> <<"">> \o [i \in 1 .. h.methods |-> The(6)[i].name],
         tocSignature |-> The(8), blockSignature |-> The(9), chunkSignatures |-> The(10),
         directory |-> IF h.indexed THEN The(11) ELSE <<>>, metas |-> The(12)]
  BY <1>1 DEF Read
<1>3. /\ The(1) = t.ids /\ The(2) = t.offsets /\ The(3) = t.seeds /\ The(4) = t.overflow
      /\ The(5) = t.blocks /\ The(6) = NameEntries(t.methods)
      /\ The(8) = t.tocSignature /\ The(9) = t.blockSignature /\ The(10) = t.chunkSignatures
      /\ The(11) = t.directory /\ The(12) = t.metas
  <2> DEFINE s == Stored(t)
  <2>1. \A k \in 1 .. 12 : The(k) = s[k]
    BY SectionsAreFound
  <2>2. /\ s[1] = t.ids /\ s[2] = t.offsets /\ s[3] = t.seeds /\ s[4] = t.overflow
        /\ s[5] = t.blocks /\ s[6] = NameEntries(t.methods)
        /\ s[8] = t.tocSignature /\ s[9] = t.blockSignature /\ s[10] = t.chunkSignatures
        /\ s[11] = t.directory /\ s[12] = t.metas
    BY DEF Stored
  <2>3. {1, 2, 3, 4, 5, 6, 8, 9, 10, 11, 12} \subseteq 1 .. 12
    OBVIOUS
  <2> HIDE DEF The, s
  <2> QED BY <2>1, <2>2, <2>3
<1>4. h.methods = Len(t.methods) /\ t.methods \in Seq(Names)
  BY DEF Storable
<1>5. [i \in 1 .. Len(t.methods) |-> NameEntries(t.methods)[i].name] = t.methods
  BY <1>4, NamesOf
<1>6. (IF h.indexed THEN t.directory ELSE <<>>) = t.directory
  <2>1. h.indexed \in BOOLEAN /\ t.directory \in Seq(Item) /\ (~h.indexed => Len(t.directory) = 0)
    BY DEF Storable
  <2>2. ~h.indexed => t.directory = <<>>
    BY <2>1, EmptyIsNone
  <2> QED BY <2>1, <2>2
<1> HIDE DEF The
<1>7. [i \in 1 .. h.methods |-> The(6)[i].name] = t.methods
  BY <1>3, <1>4, <1>5
<1> QED BY <1>2, <1>3, <1>6, <1>7 DEF Loaded

-----------------------------------------------------------------------------
(***************************************************************************)
(* Blocks and the ranges of them.                                          *)
(***************************************************************************)
LEMMA DivMod ==
  ASSUME NEW d \in Nat \ {0}, NEW x \in Nat
  PROVE  x \div d \in Nat /\ x % d \in 0 .. d - 1 /\ x = d * (x \div d) + (x % d)
<1>1. x \div d \in Int /\ x % d \in 0 .. d - 1
  OBVIOUS
<1>2. x = d * (x \div d) + (x % d)
  OBVIOUS
<1>3. x \div d >= 0
  OBVIOUS
<1> QED BY <1>1, <1>2, <1>3

LEMMA DivUnique ==
  ASSUME NEW d \in Nat \ {0}, NEW q \in Int, NEW r \in 0 .. d - 1, NEW x, x = d * q + r
  PROVE  x \div d = q /\ x % d = r
OBVIOUS

LEMMA SmallMod ==
  ASSUME NEW d \in Nat \ {0}, NEW x \in 0 .. d - 1
  PROVE  x % d = x
OBVIOUS

LEMMA SmallDiv ==
  ASSUME NEW d \in Nat \ {0}, NEW x \in 0 .. d - 1
  PROVE  x \div d = 0 /\ x % d = x
<1>1. x = d * 0 + x /\ 0 \in Int
  OBVIOUS
<1> QED BY <1>1, DivUnique

\* Products grow with a factor.
LEMMA TimesGrows ==
  ASSUME NEW d \in Nat, NEW p \in Int, NEW q \in Int, p <= q
  PROVE  d * p <= d * q
<1>1. PICK k \in Nat : q = p + k
  <2>1. q - p \in Nat /\ q = p + (q - p)
    OBVIOUS
  <2> QED BY <2>1
<1>2. d * q = d * p + d * k /\ d * k \in Nat /\ d * p \in Int
  BY <1>1
<1> QED BY <1>2

LEMMA Widths ==
  /\ BlockSize \in Nat \ {0} /\ PartitionSize \in Nat \ {0} /\ Padding \in Nat
  /\ Lengths \in Seq(Nat) /\ Target \in 1 .. Len(Lengths) /\ Lengths[Target] > 0
  /\ Entries = 1 .. Len(Lengths) /\ Len(Lengths) \in Nat
  /\ OffsetLimit \in Nat \ {0} /\ SizeLimit \in Nat \ {0}
  /\ WordLimit \in Nat \ {0} /\ IntLimit \in Nat \ {0}
  /\ IntLimit % 2 = 0 /\ 2 * NumBlocks < IntLimit
  /\ WordLimit % (BlockSize * IntLimit) = 0
<1>1. Lengths \in Seq(Nat)
  BY TocAssumption DEF TocAssumption
<1>2. Entries = 1 .. Len(Lengths) /\ Len(Lengths) \in Nat
  BY <1>1, LenProperties DEF Entries
<1>3. /\ BlockSize \in Nat \ {0} /\ PartitionSize \in Nat \ {0} /\ Padding \in Nat
      /\ Target \in Entries /\ Lengths[Target] > 0 /\ WidthsSuffice
  BY TocAssumption DEF TocAssumption
<1>4. /\ OffsetLimit \in Nat \ {0} /\ SizeLimit \in Nat \ {0}
      /\ WordLimit \in Nat \ {0} /\ IntLimit \in Nat \ {0}
      /\ IntLimit % 2 = 0 /\ 2 * NumBlocks < IntLimit
      /\ WordLimit % (BlockSize * IntLimit) = 0
  BY <1>3 DEF WidthsSuffice
<1> QED BY <1>1, <1>2, <1>3, <1>4

LEMMA BlocksForLength ==
  ASSUME NEW n \in Nat
  PROVE  /\ BlocksFor(n) \in Nat
         /\ n <= BlockSize * BlocksFor(n)
         /\ n > 0 => BlockSize * (BlocksFor(n) - 1) < n /\ BlocksFor(n) > 0
         /\ n = 0 => BlocksFor(n) = 0
<1> DEFINE B == BlockSize
           x == n + B - 1
           q == x \div B
           r == x % B
<1>1. B \in Nat \ {0}
  BY Widths
<1>2. x \in Nat
  BY <1>1
<1>3. q \in Nat /\ r \in 0 .. B - 1 /\ x = B * q + r
  BY <1>1, <1>2, DivMod
<1>4. BlocksFor(n) = q
  BY DEF BlocksFor
<1> HIDE DEF q, r
<1>5. B * (q - 1) = B * q - B /\ B * q \in Nat
  BY <1>1, <1>3
<1> DEFINE m == B * q
<1>6. m = n + B - 1 - r /\ m \in Nat
  BY <1>1, <1>3, <1>5
<1>7. m >= n /\ m - B < n
  <2> HIDE DEF m, B
  <2> QED BY <1>1, <1>3, <1>6
<1>8. n > 0 => q > 0
  <2>1. q = 0 => m = 0
    BY <1>1
  <2> QED BY <2>1, <1>3, <1>6, <1>7
<1>9. n = 0 => q = 0
  <2> SUFFICES ASSUME n = 0 PROVE q = 0
    OBVIOUS
  <2>1. x = B * 0 + (B - 1) /\ B - 1 \in 0 .. B - 1
    BY <1>1
  <2> QED BY <1>1, <2>1, DivUnique DEF q
<1> QED BY <1>3, <1>4, <1>5, <1>7, <1>8, <1>9

LEMMA BlockCountsType ==
  /\ BlockCounts \in Seq(Nat) /\ Len(BlockCounts) = Len(Lengths)
  /\ \A e \in Entries : BlockCounts[e] = BlocksFor(Lengths[e]) /\ Lengths[e] \in Nat
<1>1. Entries = 1 .. Len(Lengths) /\ Len(Lengths) \in Nat /\ \A e \in Entries : Lengths[e] \in Nat
  BY Widths, ElementOfSeq
<1>2. \A e \in Entries : BlocksFor(Lengths[e]) \in Nat
  BY <1>1, BlocksForLength
<1> DEFINE n == Len(Lengths)
<1>3. BlockCounts = [e \in 1 .. n |-> BlocksFor(Lengths[e])]
  BY <1>1 DEF BlockCounts
<1> HIDE DEF n
<1>4. BlockCounts \in [1 .. n -> Nat]
  BY <1>1, <1>2, <1>3 DEF n
<1>5. BlockCounts \in Seq(Nat) /\ Len(BlockCounts) = n
  BY <1>1, <1>4 DEF n
<1> QED BY <1>1, <1>3, <1>5 DEF n

\* Where an entry's blocks are.
LEMMA BlocksOf ==
  ASSUME NEW e \in Entries
  PROVE  /\ BlocksBefore(e) \in Nat /\ NumBlocks \in Nat /\ BlockCounts[e] \in Nat
         /\ BlocksBefore(e) + BlockCounts[e] <= NumBlocks
         /\ \A f \in Entries : e < f => BlocksBefore(e) + BlockCounts[e] <= BlocksBefore(f)
<1> DEFINE n == Len(Lengths)
           at == Sums(BlockCounts)
<1>1. /\ BlockCounts \in Seq(Nat) /\ Len(BlockCounts) = n /\ n \in Nat /\ Entries = 1 .. n
  BY BlockCountsType, Widths
<1>2. /\ at \in [0 .. n -> Nat]
      /\ \A k \in 1 .. n : at[k] = at[k - 1] + BlockCounts[k]
  BY <1>1, SumsDef
<1>3. BlockCounts[e] \in Nat /\ e \in 1 .. n
  BY <1>1, ElementOfSeq
<1>4. \A l \in 0 .. n : e <= l => at[e] <= at[l]
  <2> SUFFICES ASSUME NEW l \in 0 .. n, e <= l PROVE at[e] <= at[l]
    OBVIOUS
  <2>1. l \in 0 .. Len(BlockCounts) /\ e \in 0 .. l
    BY <1>1, <1>3
  <2> QED BY <1>1, <2>1, SumsGrow
<1>5. BlocksBefore(e) = at[e - 1] /\ NumBlocks = at[n] /\ \A f \in Entries : BlocksBefore(f) = at[f - 1]
  BY DEF BlocksBefore, NumBlocks
<1> HIDE DEF at, n
<1>6. at[e - 1] \in Nat /\ at[n] \in Nat /\ at[e] = at[e - 1] + BlockCounts[e] /\ at[e] <= at[n]
  BY <1>1, <1>2, <1>3, <1>4
<1>7. ASSUME NEW f \in Entries, e < f
      PROVE  at[e] <= at[f - 1]
  <2>1. f - 1 \in 0 .. n /\ e <= f - 1
    BY <1>1, <1>3, <1>7
  <2> QED BY <1>4, <2>1
<1> QED BY <1>3, <1>5, <1>6, <1>7

LEMMA HalfOfInts ==
  /\ NumBlocks \in Nat /\ IntLimit \div 2 \in Nat
  /\ NumBlocks < IntLimit \div 2 /\ IntLimit = 2 * (IntLimit \div 2)
<1>1. NumBlocks \in Nat
  BY Widths, BlocksOf
<1>2. /\ IntLimit \div 2 \in Nat /\ IntLimit = 2 * (IntLimit \div 2) + (IntLimit % 2)
  <2>1. 2 \in Nat \ {0} /\ IntLimit \in Nat
    BY Widths
  <2> QED BY <2>1, DivMod
<1>3. IntLimit % 2 = 0 /\ 2 * NumBlocks < IntLimit
  BY Widths
<1> DEFINE half == IntLimit \div 2
<1>4. half \in Nat /\ IntLimit = 2 * half
  BY <1>2, <1>3
<1> HIDE DEF half
<1>5. NumBlocks < half
  BY <1>1, <1>3, <1>4
<1> QED BY <1>1, <1>4, <1>5 DEF half

\* An index of a block, and the one before the first, survive the narrowing.
LEMMA Narrow ==
  ASSUME NEW n \in 0 .. NumBlocks, NEW q \in Nat
  PROVE  /\ Int32(n) = n
         /\ Int32(IntLimit * q + (IntLimit - 1)) = -1
<1> DEFINE half == IntLimit \div 2
<1>1. half \in Nat /\ IntLimit = 2 * half /\ n < half /\ IntLimit \in Nat \ {0} /\ n \in Nat
  <2>1. half \in Nat /\ IntLimit = 2 * half /\ NumBlocks < half /\ NumBlocks \in Nat
    BY HalfOfInts
  <2> HIDE DEF half
  <2> QED BY <2>1, Widths
<1> HIDE DEF half
<1>2. n % IntLimit = n
  <2>1. n \in 0 .. IntLimit - 1 /\ n = IntLimit * 0 + n
    BY <1>1
  <2> QED BY <1>1, <2>1, DivUnique
<1>3. (IntLimit * q + (IntLimit - 1)) % IntLimit = IntLimit - 1
  <2> DEFINE r == IntLimit - 1
             x == IntLimit * q + r
  <2>1. r \in 0 .. IntLimit - 1
    BY <1>1
  <2>2. x = IntLimit * q + r /\ q \in Int
    OBVIOUS
  <2> HIDE DEF r, x
  <2>3. x % IntLimit = r
    BY <1>1, <2>1, <2>2, DivUnique
  <2> QED BY <2>3 DEF r, x
<1>4. Int32(n) = n
  BY <1>1, <1>2 DEF Int32, half
<1>5. Int32(IntLimit * q + (IntLimit - 1)) = IntLimit - 1 - IntLimit
  <2>1. ~(IntLimit - 1 < half)
    BY <1>1
  <2> QED BY <1>3, <2>1 DEF Int32, half
<1>6. IntLimit - 1 - IntLimit = -1
  BY <1>1
<1> QED BY <1>4, <1>5, <1>6

\* A word holds as many bytes as the blocks an index can name.
LEMMA WordHoldsBlocks ==
  \E k \in Nat \ {0} : WordLimit = BlockSize * (IntLimit * k)
<1> DEFINE d == BlockSize * IntLimit
           k == WordLimit \div d
<1>1. BlockSize \in Nat \ {0} /\ IntLimit \in Nat \ {0} /\ WordLimit \in Nat \ {0} /\ WordLimit % d = 0
  BY Widths
<1>2. d \in Nat \ {0}
  BY <1>1
<1> HIDE DEF d
<1>3. k \in Nat /\ WordLimit = d * k + (WordLimit % d)
  BY <1>1, <1>2, DivMod
<1> HIDE DEF k
<1>4. WordLimit = d * k /\ k # 0
  BY <1>1, <1>2, <1>3
<1>5. d * k = BlockSize * (IntLimit * k)
  BY <1>1, <1>3 DEF d
<1> QED BY <1>3, <1>4, <1>5

\* The range of blocks of a chunk that starts at block b.
LEMMA RangeOf ==
  ASSUME NEW b \in Nat, NEW n \in Nat, b + BlocksFor(n) <= NumBlocks,
         NEW at, at.offset = BlockSize * b, at.length = n
  PROVE  FirstBlockIndex(at) = b /\ LastBlockIndex(at) = b + BlocksFor(n) - 1
<1> DEFINE B == BlockSize
           m == b + BlocksFor(n)
           x == at.offset + at.length
<1>1. /\ B \in Nat \ {0} /\ IntLimit \in Nat \ {0} /\ WordLimit \in Nat \ {0}
      /\ BlocksFor(n) \in Nat /\ m \in 0 .. NumBlocks /\ NumBlocks \in Nat /\ m \in Nat
      /\ b \in 0 .. NumBlocks
  <2>1. /\ B \in Nat \ {0} /\ IntLimit \in Nat \ {0} /\ WordLimit \in Nat \ {0}
        /\ BlocksFor(n) \in Nat /\ NumBlocks \in Nat
    BY Widths, BlocksForLength, HalfOfInts
  <2> QED BY <2>1
<1>2. (B * b) \div B = b
  <2>1. B * b = B * b + 0 /\ 0 \in 0 .. B - 1 /\ b \in Int
    BY <1>1
  <2> QED BY <1>1, <2>1, DivUnique
<1>3. FirstBlockIndex(at) = b
  BY <1>1, <1>2, Narrow DEF FirstBlockIndex
<1>4. Align(x) = B * m
  <2> DEFINE y == n + B - 1
             q == y \div B
             r == y % B
  <2>1. y \in Nat
    BY <1>1
  <2>2. q \in Nat /\ r \in 0 .. B - 1 /\ y = B * q + r
    BY <1>1, <2>1, DivMod
  <2>3. BlocksFor(n) = q
    BY DEF BlocksFor
  <2>4. x + B - 1 = B * b + y
    BY <1>1
  <2> HIDE DEF q, r, y, x
  <2>5. B * b + y = B * (b + q) + r /\ b + q \in Int
    BY <1>1, <2>2
  <2>6. (x + B - 1) \div B = b + q
    <3> DEFINE w == x + B - 1
               p == b + q
    <3>1. w = B * p + r /\ p \in Int
      BY <2>4, <2>5
    <3> HIDE DEF w, p
    <3>2. w \div B = p
      BY <1>1, <2>2, <3>1, DivUnique
    <3> QED BY <3>2 DEF w, p
  <2>7. Align(x) = (b + q) * B
    BY <2>6 DEF Align
  <2> QED BY <1>1, <2>2, <2>3, <2>7
<1>5. PICK k \in Nat \ {0} : WordLimit = B * (IntLimit * k)
  BY WordHoldsBlocks
<1>6. CASE m = 0
  <2>1. B * m = 0
    BY <1>1, <1>6
  <2>2. (0 - 1) % WordLimit = WordLimit - 1
    <3> DEFINE r == WordLimit - 1
               z == 0 - 1
    <3>1. r \in 0 .. WordLimit - 1 /\ z = WordLimit * (-1) + r /\ -1 \in Int
      BY <1>1
    <3> HIDE DEF r, z
    <3>2. z % WordLimit = r
      BY <1>1, <3>1, DivUnique
    <3> QED BY <3>2 DEF r, z
  <2>3. (WordLimit - 1) \div B = IntLimit * k - 1
    <3> DEFINE r == B - 1
               j == IntLimit * k
               z == WordLimit - 1
               q == j - 1
    <3>1. j \in Nat
      BY <1>1
    <3> HIDE DEF j
    <3>2. WordLimit = B * j
      BY <1>5 DEF j
    <3>3. r \in 0 .. B - 1 /\ z = B * q + r /\ q \in Int
      BY <1>1, <3>1, <3>2
    <3> HIDE DEF r, z, q
    <3>4. z \div B = q
      BY <1>1, <3>3, DivUnique
    <3> QED BY <3>4 DEF z, q, j
  <2>4. IntLimit * k - 1 = IntLimit * (k - 1) + (IntLimit - 1) /\ k - 1 \in Nat
    BY <1>1
  <2>5. Int32(IntLimit * (k - 1) + (IntLimit - 1)) = -1
    BY <1>1, <2>4, Narrow
  <2>6. LastBlockIndex(at) = -1
    BY <1>4, <2>1, <2>2, <2>3, <2>4, <2>5 DEF LastBlockIndex
  <2>7. b + BlocksFor(n) - 1 = -1
    BY <1>6, <1>1
  <2> QED BY <1>3, <2>6, <2>7
<1>7. CASE m # 0
  <2>1. m - 1 \in Nat /\ m - 1 \in 0 .. NumBlocks /\ m <= IntLimit
    <3>1. NumBlocks < IntLimit
      BY <1>1, Widths
    <3> HIDE DEF m
    <3> QED BY <1>1, <1>7, <3>1
  <2> DEFINE z == B * m - 1
  <2>2. z \in Nat /\ z < WordLimit
    <3>1. m <= IntLimit * k
      <4>1. IntLimit * 1 <= IntLimit * k
        BY <1>1, TimesGrows
      <4> HIDE DEF m
      <4> QED BY <1>1, <2>1, <4>1
    <3>2. B * m <= B * (IntLimit * k)
      <4>1. IntLimit * k \in Int /\ m \in Int /\ B \in Nat
        BY <1>1
      <4> HIDE DEF m
      <4> QED BY <3>1, <4>1, TimesGrows
    <3>3. B * 1 <= B * m
      <4>1. 1 <= m /\ m \in Int /\ 1 \in Int /\ B \in Nat
        BY <1>1, <1>7
      <4> HIDE DEF m
      <4> QED BY <4>1, TimesGrows
    <3> DEFINE w == B * m
    <3>4. w \in Int /\ w <= WordLimit /\ w >= 1
      <4>1. B * 1 >= 1
        BY <1>1
      <4>2. w \in Int
        BY <1>1
      <4> HIDE DEF m
      <4> QED BY <1>1, <1>5, <3>2, <3>3, <4>1, <4>2
    <3> HIDE DEF w
    <3>5. w - 1 \in Nat /\ w - 1 < WordLimit
      BY <1>1, <3>4
    <3> QED BY <3>5 DEF w
  <2>3. z % WordLimit = z
    <3> HIDE DEF z
    <3>1. z \in 0 .. WordLimit - 1
      BY <1>1, <2>2
    <3> QED BY <1>1, <3>1, SmallMod
  <2>4. z \div B = m - 1
    <3> DEFINE r == B - 1
               q == m - 1
    <3>1. r \in 0 .. B - 1 /\ q \in Int
      BY <1>1
    <3>2. z = B * q + r
      <4> HIDE DEF m
      <4> QED BY <1>1
    <3> HIDE DEF r, q, z
    <3>3. z \div B = q
      BY <1>1, <3>1, <3>2, DivUnique
    <3> QED BY <3>3 DEF q
  <2>5. Int32(m - 1) = m - 1
    <3> HIDE DEF m
    <3> QED BY <1>1, <2>1, Narrow
  <2>6. LastBlockIndex(at) = m - 1
    <3>1. Align(x) - 1 = z
      BY <1>4
    <3> HIDE DEF m, z
    <3>2. LastBlockIndex(at) = Int32(((Align(x) - 1) % WordLimit) \div B)
      BY DEF LastBlockIndex
    <3> QED BY <2>3, <2>4, <2>5, <3>1, <3>2
  <2>7. m - 1 = b + BlocksFor(n) - 1
    BY <1>1
  <2> QED BY <1>3, <2>6, <2>7
<1> QED BY <1>6, <1>7

\* It is the set of the blocks its bytes are in.
LEMMA RangeIsRight ==
  ASSUME NEW b \in Nat, NEW n \in Nat, b + BlocksFor(n) <= NumBlocks,
         NEW at, at.offset = BlockSize * b, at.length = n
  PROVE  BlockRange(at) = {x \div BlockSize : x \in at.offset .. at.offset + at.length - 1}
<1> DEFINE B == BlockSize
           q == BlocksFor(n)
<1>1. BlockRange(at) = b .. b + q - 1
  BY RangeOf DEF BlockRange
<1>2. /\ B \in Nat \ {0} /\ q \in Nat /\ n <= B * q
      /\ n > 0 => B * (q - 1) < n
      /\ n = 0 => q = 0
  BY Widths, BlocksForLength
<1> HIDE DEF q
<1>3. ASSUME NEW i \in b .. b + q - 1
      PROVE  \E x \in B * b .. B * b + n - 1 : i = x \div B
  <2>1. i \in Int /\ b <= i /\ i <= b + (q - 1) /\ b + (q - 1) \in Int /\ n > 0
    BY <1>2
  <2>2. B * b <= B * i /\ B * i <= B * (b + (q - 1))
    BY <1>2, <2>1, TimesGrows
  <2>3. B * (b + (q - 1)) = B * b + B * (q - 1)
    BY <1>2
  <2> DEFINE x == B * i
             y == B * b
             z == B * (q - 1)
  <2>4. x \in Int /\ y \in Int /\ z \in Int
    BY <1>2, <2>1
  <2>5. y <= x /\ x <= y + z /\ z < n
    BY <1>2, <2>1, <2>2, <2>3
  <2>6. x \div B = i
    <3>1. x = B * i + 0 /\ 0 \in 0 .. B - 1
      BY <1>2, <2>1
    <3> HIDE DEF x
    <3> QED BY <1>2, <2>1, <3>1, DivUnique
  <2> HIDE DEF x, y, z
  <2>7. x \in y .. y + n - 1
    BY <2>4, <2>5
  <2> QED BY <2>6, <2>7 DEF y
<1>4. ASSUME NEW x \in B * b .. B * b + n - 1
      PROVE  x \div B \in b .. b + q - 1
  <2> DEFINE i == x \div B
             r == x % B
             y == B * b
             z == B * q
  <2>0. x \in Nat /\ y \in Nat /\ z \in Nat /\ y <= x /\ x < y + n
    BY <1>2
  <2>1. i \in Nat /\ r \in 0 .. B - 1 /\ x = B * i + r
    BY <1>2, <2>0, DivMod
  <2> HIDE DEF i, r
  <2>2. b <= i
    <3> SUFFICES ASSUME i + 1 <= b PROVE FALSE
      BY <2>1
    <3>1. B * (i + 1) <= B * b
      BY <1>2, <2>1, TimesGrows
    <3>2. B * (i + 1) = B * i + B
      BY <1>2, <2>1
    <3> DEFINE w == B * i
    <3>3. w \in Nat /\ w + B <= y /\ x = w + r
      BY <1>2, <2>1, <3>1, <3>2
    <3> HIDE DEF w, y
    <3> QED BY <1>2, <2>0, <2>1, <3>3
  <2>3. i < b + q
    <3> SUFFICES ASSUME b + q <= i PROVE FALSE
      BY <1>2, <2>1
    <3>1. B * (b + q) <= B * i
      BY <1>2, <2>1, TimesGrows
    <3>2. B * (b + q) = B * b + B * q
      BY <1>2
    <3> DEFINE w == B * i
    <3>3. w \in Nat /\ y + z <= w /\ x = w + r /\ n <= z
      BY <1>2, <2>1, <3>1, <3>2
    <3> HIDE DEF w, y, z
    <3> QED BY <1>2, <2>0, <2>1, <3>3
  <2>4. i \in b .. b + q - 1
    BY <1>2, <2>1, <2>2, <2>3
  <2> QED BY <2>4 DEF i
<1>5. b .. b + q - 1 = {x \div B : x \in B * b .. B * b + n - 1}
  BY <1>3, <1>4
<1> QED BY <1>1, <1>5

-----------------------------------------------------------------------------
(***************************************************************************)
(* What every table of contents in memory or in a file is, by the shipment *)
(* it comes from and what the swap does to it.                             *)
(***************************************************************************)
Two == <<"Oodle", "Zlib">>
Three == <<"", "Oodle", "Zlib">>

\* The ids, with the target's hidden or not, and the chunks, with the target's length.
IdsOf(x) == [e \in 1 .. Len(Lengths) |-> [chunk |-> e, hidden |-> x /\ e = Target]]

OffsetsOf(n) ==
  [e \in 1 .. Len(Lengths) |->
     [offset |-> ShippedOffset(e), length |-> IF e = Target THEN n ELSE Lengths[e]]]

\* The target's blocks as shipped.
Span == BlocksBefore(Target) + 1 .. BlocksBefore(Target) + BlockCounts[Target]

Shipped(s, k) == ShippedBlock(k - 1, Cut(s.parts))

BlockEntry == [offset : Nat, csize : Nat \ {0}, usize : Nat, method : {1, 2}]

GoodBlocks(blocks, s, r) ==
  /\ blocks \in [1 .. NumBlocks -> BlockEntry]
  /\ \A k \in 1 .. NumBlocks : k \notin Span \/ r = "hide" => blocks[k] = Shipped(s, k)
  /\ \A k \in 1 .. NumBlocks : r = "patch" => blocks[k].offset + blocks[k].csize <= PartitionSize
  /\ blocks[BlocksBefore(Target) + 1].offset = Shipped(s, BlocksBefore(Target) + 1).offset

KnownSize(s) == IF s.version < HasPartitions THEN Unlimited ELSE PartitionSize

HeaderOf(s, v) ==
  [version |-> v, entries |-> Len(Lengths), seeds |-> s.seeds, overflow |-> s.overflow,
   blocks |-> NumBlocks, methods |-> 2, index |-> IF s.indexed THEN 1 ELSE 0,
   partitions |-> s.parts, partitionSize |-> KnownSize(s),
   signed |-> s.signed, encrypted |-> s.encrypted, indexed |-> s.indexed]

\* All of a table but its header and its methods.
GoodBody(t, s, r) ==
  /\ \E x \in BOOLEAN : t.ids = IdsOf(x) /\ (x => r = "hide")
  /\ \E n \in Nat \ {0} :
       /\ t.offsets = OffsetsOf(n) /\ BlocksFor(n) <= BlockCounts[Target]
       /\ r = "hide" => n = Lengths[Target]
  /\ GoodBlocks(t.blocks, s, r)
  /\ t.seeds = ShippedToc(s).seeds /\ t.overflow = ShippedToc(s).overflow
  /\ t.tocSignature = ShippedToc(s).tocSignature
  /\ t.blockSignature = ShippedToc(s).blockSignature
  /\ t.chunkSignatures = ShippedToc(s).chunkSignatures
  /\ t.metas = ShippedToc(s).metas
  /\ t.directory \in Seq(Item) /\ Len(t.directory) = IF s.indexed THEN 1 ELSE 0

IsToc(t) ==
  t = [header |-> t.header, ids |-> t.ids, offsets |-> t.offsets, seeds |-> t.seeds,
       overflow |-> t.overflow, blocks |-> t.blocks, methods |-> t.methods,
       tocSignature |-> t.tocSignature, blockSignature |-> t.blockSignature,
       chunkSignatures |-> t.chunkSignatures, directory |-> t.directory, metas |-> t.metas]

Good(t, s, r) ==
  /\ IsToc(t) /\ GoodBody(t, s, r)
  /\ t.header = HeaderOf(s, t.header.version) /\ t.header.version \in {s.version, Latest}
  /\ t.methods \in {Two, Three}

-----------------------------------------------------------------------------
(* Shipments.                                                              *)

LEMMA ShipmentType ==
  ASSUME NEW s \in Shipments
  PROVE  /\ s.version \in Nat /\ s.parts \in {1, 2} /\ s.seeds \in Nat /\ s.overflow \in Nat
         /\ s.signed \in BOOLEAN /\ s.encrypted \in BOOLEAN /\ s.indexed \in BOOLEAN
         /\ s.parts = 2 => s.version >= HasPartitions /\ NumBlocks > 1
         /\ s.seeds # 0 => s.version >= PerfectHash
         /\ s.overflow # 0 => s.version >= PerfectHashWithOverflow
<1>1. Versions \subseteq Nat /\ SeedCounts \subseteq Nat /\ Encryption \subseteq BOOLEAN
  BY TocAssumption DEF TocAssumption
<1>2. /\ s \in [version : Versions, parts : 1 .. 2, seeds : SeedCounts, overflow : SeedCounts,
                signed : BOOLEAN, encrypted : Encryption, indexed : BOOLEAN]
      /\ s.parts = 2 => s.version >= HasPartitions /\ NumBlocks > 1
      /\ s.seeds # 0 => s.version >= PerfectHash
      /\ s.overflow # 0 => s.version >= PerfectHashWithOverflow
  BY DEF Shipments
<1>3. 1 .. 2 = {1, 2}
  OBVIOUS
<1> QED BY <1>1, <1>2, <1>3

LEMMA SequenceOf ==
  ASSUME NEW S, NEW n \in Nat, NEW q, q \in [1 .. n -> S]
  PROVE  q \in Seq(S) /\ Len(q) = n
OBVIOUS

LEMMA TargetFacts ==
  /\ NumBlocks \in Nat \ {0} /\ BlocksBefore(Target) \in Nat /\ BlockCounts[Target] \in Nat \ {0}
  /\ BlocksBefore(Target) + BlockCounts[Target] <= NumBlocks
  /\ BlocksBefore(Target) + 1 \in 1 .. NumBlocks /\ BlocksBefore(Target) + 1 \in Span
  /\ Span \subseteq 1 .. NumBlocks
<1>1. Target \in Entries /\ Lengths[Target] > 0
  BY Widths
<1>2. BlockCounts[Target] = BlocksFor(Lengths[Target]) /\ Lengths[Target] \in Nat
  BY <1>1, BlockCountsType
<1>3. /\ BlocksBefore(Target) \in Nat /\ NumBlocks \in Nat /\ BlockCounts[Target] \in Nat
      /\ BlocksBefore(Target) + BlockCounts[Target] <= NumBlocks
  BY <1>1, BlocksOf
<1>4. BlockCounts[Target] > 0
  BY <1>1, <1>2, BlocksForLength
<1> QED BY <1>3, <1>4 DEF Span

LEMMA RestType ==
  ASSUME NEW s \in Shipments
  PROVE  LET z == ShippedToc(s)
         IN /\ z.seeds \in Seq(Item) /\ Len(z.seeds) = s.seeds
            /\ z.overflow \in Seq(Item) /\ Len(z.overflow) = s.overflow
            /\ z.tocSignature \in Seq(Item) /\ Len(z.tocSignature) = (IF s.signed THEN SignatureSize ELSE 0)
            /\ z.blockSignature \in Seq(Item) /\ Len(z.blockSignature) = (IF s.signed THEN SignatureSize ELSE 0)
            /\ z.chunkSignatures \in Seq(Item) /\ Len(z.chunkSignatures) = (IF s.signed THEN NumBlocks ELSE 0)
            /\ z.metas \in Seq(Item) /\ Len(z.metas) = Len(Lengths)
<1> DEFINE z == ShippedToc(s)
           sig == IF s.signed THEN SignatureSize ELSE 0
           hashes == IF s.signed THEN NumBlocks ELSE 0
<1>1. /\ s.seeds \in Nat /\ s.overflow \in Nat /\ sig \in Nat /\ hashes \in Nat /\ Len(Lengths) \in Nat
      /\ Entries = 1 .. Len(Lengths)
  <2>1. SignatureSize \in Nat
    BY TocAssumption DEF TocAssumption
  <2> QED BY <2>1, ShipmentType, TargetFacts, Widths
<1>2. /\ z.seeds = [k \in 1 .. s.seeds |-> [seed |-> k]]
      /\ z.overflow = [k \in 1 .. s.overflow |-> [imperfect |-> k]]
      /\ z.tocSignature = [k \in 1 .. sig |-> [tocSignature |-> k]]
      /\ z.blockSignature = [k \in 1 .. sig |-> [blockSignature |-> k]]
      /\ z.chunkSignatures = [k \in 1 .. hashes |-> [blockHash |-> k]]
      /\ z.metas = [e \in 1 .. Len(Lengths) |-> [meta |-> e]]
  BY <1>1 DEF ShippedToc
<1>3. ASSUME NEW k \in Nat
      PROVE  /\ [seed |-> k] \in Item /\ [imperfect |-> k] \in Item /\ [tocSignature |-> k] \in Item
             /\ [blockSignature |-> k] \in Item /\ [blockHash |-> k] \in Item /\ [meta |-> k] \in Item
  BY DEF Item
<1> HIDE DEF z, sig, hashes
<1>4. /\ z.seeds \in [1 .. s.seeds -> Item] /\ z.overflow \in [1 .. s.overflow -> Item]
      /\ z.tocSignature \in [1 .. sig -> Item] /\ z.blockSignature \in [1 .. sig -> Item]
      /\ z.chunkSignatures \in [1 .. hashes -> Item] /\ z.metas \in [1 .. Len(Lengths) -> Item]
  <2>1. z.seeds \in [1 .. s.seeds -> Item]
    <3>1. z.seeds = [k \in 1 .. s.seeds |-> [seed |-> k]] /\ s.seeds \in Nat
      BY <1>1, <1>2
    <3>2. ASSUME NEW k \in 1 .. s.seeds PROVE [seed |-> k] \in Item
      <4>1. k \in Nat
        BY <1>1
      <4> QED BY <4>1, <1>3
    <3> QED BY <3>1, <3>2
  <2>2. z.overflow \in [1 .. s.overflow -> Item]
    <3>1. z.overflow = [k \in 1 .. s.overflow |-> [imperfect |-> k]] /\ s.overflow \in Nat
      BY <1>1, <1>2
    <3>2. ASSUME NEW k \in 1 .. s.overflow PROVE [imperfect |-> k] \in Item
      <4>1. k \in Nat
        BY <1>1
      <4> QED BY <4>1, <1>3
    <3> QED BY <3>1, <3>2
  <2>3. z.tocSignature \in [1 .. sig -> Item]
    <3>1. z.tocSignature = [k \in 1 .. sig |-> [tocSignature |-> k]] /\ sig \in Nat
      BY <1>1, <1>2
    <3>2. ASSUME NEW k \in 1 .. sig PROVE [tocSignature |-> k] \in Item
      <4>1. k \in Nat
        BY <1>1
      <4> QED BY <4>1, <1>3
    <3> QED BY <3>1, <3>2
  <2>4. z.blockSignature \in [1 .. sig -> Item]
    <3>1. z.blockSignature = [k \in 1 .. sig |-> [blockSignature |-> k]] /\ sig \in Nat
      BY <1>1, <1>2
    <3>2. ASSUME NEW k \in 1 .. sig PROVE [blockSignature |-> k] \in Item
      <4>1. k \in Nat
        BY <1>1
      <4> QED BY <4>1, <1>3
    <3> QED BY <3>1, <3>2
  <2>5. z.chunkSignatures \in [1 .. hashes -> Item]
    <3>1. z.chunkSignatures = [k \in 1 .. hashes |-> [blockHash |-> k]] /\ hashes \in Nat
      BY <1>1, <1>2
    <3>2. ASSUME NEW k \in 1 .. hashes PROVE [blockHash |-> k] \in Item
      <4>1. k \in Nat
        BY <1>1
      <4> QED BY <4>1, <1>3
    <3> QED BY <3>1, <3>2
  <2>6. z.metas \in [1 .. Len(Lengths) -> Item]
    <3>1. z.metas = [k \in 1 .. Len(Lengths) |-> [meta |-> k]] /\ Len(Lengths) \in Nat
      BY <1>1, <1>2
    <3>2. ASSUME NEW k \in 1 .. Len(Lengths) PROVE [meta |-> k] \in Item
      <4>1. k \in Nat
        BY <1>1
      <4> QED BY <4>1, <1>3
    <3> QED BY <3>1, <3>2
  <2> QED BY <2>1, <2>2, <2>3, <2>4, <2>5, <2>6
<1>5. /\ z.seeds \in Seq(Item) /\ Len(z.seeds) = s.seeds
      /\ z.overflow \in Seq(Item) /\ Len(z.overflow) = s.overflow
      /\ z.tocSignature \in Seq(Item) /\ Len(z.tocSignature) = sig
      /\ z.blockSignature \in Seq(Item) /\ Len(z.blockSignature) = sig
      /\ z.chunkSignatures \in Seq(Item) /\ Len(z.chunkSignatures) = hashes
      /\ z.metas \in Seq(Item) /\ Len(z.metas) = Len(Lengths)
  BY <1>1, <1>4, SequenceOf
<1> QED BY <1>5 DEF z, sig, hashes

LEMMA Sizes ==
  /\ PackedSize \in Nat \ {0} /\ PackedSize < SizeLimit
  /\ NumBlocks * PackedSize <= PartitionSize
  /\ 2 * PartitionSize <= OffsetLimit /\ OffsetLimit < WordLimit /\ BlockSize < SizeLimit
  /\ PackedSizes \subseteq 1 .. SizeLimit - 1
<1>1. WidthsSuffice /\ NumBlocks * PackedSize <= PartitionSize
  BY TocAssumption DEF TocAssumption
<1>2. /\ BlockSize < SizeLimit /\ PackedSizes \cup {PackedSize} \subseteq 1 .. SizeLimit - 1
      /\ 2 * PartitionSize <= OffsetLimit /\ OffsetLimit < WordLimit
  BY <1>1 DEF WidthsSuffice
<1>3. SizeLimit \in Nat /\ PackedSize \in 1 .. SizeLimit - 1
  BY <1>2, Widths
<1> QED BY <1>1, <1>2, <1>3

\* Where a shipped block is.
LEMMA ShippedPlaces ==
  ASSUME NEW s \in Shipments, NEW k \in 1 .. NumBlocks
  PROVE  /\ Shipped(s, k) \in BlockEntry /\ Shipped(s, k).csize = PackedSize
         /\ s.parts = 1 => /\ Shipped(s, k).offset = (k - 1) * PackedSize
                           /\ Shipped(s, k).offset + PackedSize <= PartitionSize
         /\ s.parts = 2 => /\ k - 1 < NumBlocks \div 2 =>
                                Shipped(s, k).offset + PackedSize <= PartitionSize
                           /\ ~(k - 1 < NumBlocks \div 2) =>
                                /\ PartitionSize <= Shipped(s, k).offset
                                /\ Shipped(s, k).offset + PackedSize <= 2 * PartitionSize
<1> DEFINE b == k - 1
           cut == Cut(s.parts)
           P == PackedSize
           N == NumBlocks
           half == N \div 2
<1>1. /\ P \in Nat \ {0} /\ N \in Nat \ {0} /\ N * P <= PartitionSize /\ PartitionSize \in Nat
      /\ b \in 0 .. N - 1 /\ b \in Nat /\ BlockSize \in Nat /\ s.parts \in {1, 2}
  BY Sizes, TargetFacts, Widths, ShipmentType
<1>2. half \in Nat /\ half <= N
  <2>1. half \in Nat /\ N % 2 \in 0 .. 1 /\ N = 2 * half + (N % 2)
    <3>1. 2 \in Nat \ {0} /\ N \in Nat
      BY <1>1
    <3> HIDE DEF N
    <3>2. half \in Nat /\ N % 2 \in 0 .. 2 - 1 /\ N = 2 * half + (N % 2)
      BY <3>1, DivMod
    <3> QED BY <3>2
  <2> HIDE DEF half
  <2> QED BY <2>1, <1>1
<1>3. cut = (IF s.parts = 1 THEN N ELSE half)
  BY DEF Cut
<1>4. Shipped(s, k) =
        [offset |-> IF b < cut THEN b * P ELSE PartitionSize + (b - cut) * P,
         csize |-> P, usize |-> BlockSize, method |-> (b % 2) + 1]
  BY DEF Shipped, ShippedBlock
<1> HIDE DEF cut, half, N, P
<1>5. (b % 2) + 1 \in {1, 2}
  <2>1. b % 2 \in 0 .. 2 - 1
    <3>1. 2 \in Nat \ {0}
      OBVIOUS
    <3> HIDE DEF b
    <3> QED BY <1>1, <3>1, DivMod
  <2> QED BY <2>1
<1>6. ASSUME NEW c \in 0 .. N - 1
      PROVE  c * P \in Nat /\ c * P + P <= PartitionSize
  <2>1. P * (c + 1) <= P * N
    <3>1. P \in Nat /\ c + 1 \in Int /\ N \in Int /\ c + 1 <= N
      BY <1>1
    <3> QED BY <3>1, TimesGrows
  <2>2. P * (c + 1) = c * P + P /\ P * N = N * P /\ c * P \in Nat
    BY <1>1
  <2> QED BY <1>1, <2>1, <2>2
<1> HIDE DEF b
<1>7. CASE b < cut
  <2>1. Shipped(s, k) = [offset |-> b * P, csize |-> P, usize |-> BlockSize, method |-> (b % 2) + 1]
    BY <1>4, <1>7
  <2>2. b * P \in Nat /\ b * P + P <= PartitionSize
    BY <1>1, <1>6
  <2>3. Shipped(s, k) \in BlockEntry
    BY <1>1, <1>5, <2>1, <2>2 DEF BlockEntry
  <2>4. s.parts = 2 => b < half
    BY <1>3, <1>7
  <2>5. Shipped(s, k).offset = b * P /\ Shipped(s, k).csize = P
    BY <2>1
  <2> QED BY <1>3, <2>2, <2>3, <2>4, <2>5 DEF b, half, N, P
<1>8. CASE ~(b < cut)
  <2>1. s.parts = 2 /\ cut = half /\ ~(b < half) /\ ~(s.parts = 1)
    BY <1>1, <1>3, <1>8
  <2>2. b - cut \in 0 .. N - 1
    BY <1>1, <1>2, <2>1
  <2>3. (b - cut) * P \in Nat /\ (b - cut) * P + P <= PartitionSize
    BY <1>6, <2>2
  <2> DEFINE d == (b - cut) * P
  <2>4. Shipped(s, k) = [offset |-> PartitionSize + d, csize |-> P, usize |-> BlockSize,
                         method |-> (b % 2) + 1]
    BY <1>4, <1>8
  <2>5. d \in Nat /\ d + P <= PartitionSize
    BY <2>3
  <2> HIDE DEF d
  <2>6. PartitionSize + d \in Nat /\ PartitionSize <= PartitionSize + d
        /\ PartitionSize + d + P <= 2 * PartitionSize
    BY <1>1, <2>5
  <2>7. Shipped(s, k) \in BlockEntry
    BY <1>1, <1>5, <2>4, <2>6 DEF BlockEntry
  <2>8. Shipped(s, k).offset = PartitionSize + d /\ Shipped(s, k).csize = P
    BY <2>4
  <2> QED BY <2>1, <2>6, <2>7, <2>8 DEF b, half, N, P
<1> QED BY <1>7, <1>8

\* The first chunk's ids, offsets and blocks are elements a file can hold.
LEMMA IdsStored ==
  ASSUME NEW x \in BOOLEAN
  PROVE  IdsOf(x) \in Seq(Item) /\ Len(IdsOf(x)) = Len(Lengths)
<1> DEFINE n == Len(Lengths)
           q == IdsOf(x)
<1>1. n \in Nat
  BY Widths
<1>2. q = [e \in 1 .. n |-> [chunk |-> e, hidden |-> x /\ e = Target]]
  BY DEF IdsOf
<1> HIDE DEF q, n
<1>3. ASSUME NEW e \in 1 .. n PROVE [chunk |-> e, hidden |-> x /\ e = Target] \in Item
  <2>1. e \in Nat /\ (x /\ e = Target) \in BOOLEAN
    BY <1>1
  <2> DEFINE y == (x /\ e = Target)
  <2> HIDE DEF y
  <2>2. [chunk |-> e, hidden |-> y] \in [chunk : Nat, hidden : BOOLEAN]
    BY <2>1 DEF y
  <2>3. [chunk : Nat, hidden : BOOLEAN] \subseteq Item
    BY DEF Item
  <2> QED BY <2>2, <2>3 DEF y
<1>4. q \in [1 .. n -> Item]
  BY <1>2, <1>3
<1> QED BY <1>1, <1>4, SequenceOf DEF q, n

LEMMA OffsetsStored ==
  ASSUME NEW n \in Nat
  PROVE  OffsetsOf(n) \in Seq(Item) /\ Len(OffsetsOf(n)) = Len(Lengths)
<1> DEFINE l == Len(Lengths)
           q == OffsetsOf(n)
<1>1. l \in Nat /\ Entries = 1 .. l /\ \A e \in 1 .. l : Lengths[e] \in Nat /\ ShippedOffset(e) \in Nat
  <2>1. Lengths \in Seq(Nat) /\ l \in Nat /\ Entries = 1 .. l /\ BlockSize \in Nat
    BY Widths
  <2>2. \A e \in 1 .. l : BlocksBefore(e) \in Nat /\ Lengths[e] \in Nat
    BY <2>1, BlocksOf, BlockCountsType
  <2> QED BY <2>1, <2>2 DEF ShippedOffset
<1>2. q = [e \in 1 .. l |-> [offset |-> ShippedOffset(e), length |-> IF e = Target THEN n ELSE Lengths[e]]]
  BY DEF OffsetsOf
<1> HIDE DEF q, l
<1>3. ASSUME NEW e \in 1 .. l
      PROVE  [offset |-> ShippedOffset(e), length |-> IF e = Target THEN n ELSE Lengths[e]] \in Item
  <2> DEFINE y == IF e = Target THEN n ELSE Lengths[e]
  <2>1. y \in Nat /\ ShippedOffset(e) \in Nat
    BY <1>1
  <2> HIDE DEF y
  <2>2. [offset |-> ShippedOffset(e), length |-> y] \in [offset : Nat, length : Nat]
    BY <2>1
  <2>3. [offset : Nat, length : Nat] \subseteq Item
    BY DEF Item
  <2> QED BY <2>2, <2>3 DEF y
<1>4. q \in [1 .. l -> Item]
  BY <1>2, <1>3
<1> QED BY <1>1, <1>4, SequenceOf DEF q, l

LEMMA BlocksStored ==
  ASSUME NEW blocks \in [1 .. NumBlocks -> BlockEntry]
  PROVE  blocks \in Seq(Item) /\ Len(blocks) = NumBlocks
<1>1. NumBlocks \in Nat
  BY TargetFacts
<1>2. BlockEntry \subseteq Item
  <2>1. BlockEntry \subseteq [offset : Nat, csize : Nat, usize : Nat, method : Nat]
    BY DEF BlockEntry
  <2>2. [offset : Nat, csize : Nat, usize : Nat, method : Nat] \subseteq Item
    BY DEF Item
  <2> QED BY <2>1, <2>2
<1>3. blocks \in [1 .. NumBlocks -> Item]
  BY <1>2
<1> QED BY <1>1, <1>3, SequenceOf

GoodCounts(h, s) ==
  /\ h.version \in {s.version, Latest}
  /\ h.entries = Len(Lengths) /\ h.seeds = s.seeds /\ h.overflow = s.overflow
  /\ h.blocks = NumBlocks /\ h.methods = 2 /\ h.index = IF s.indexed THEN 1 ELSE 0
  /\ h.signed = s.signed /\ h.indexed = s.indexed

LEMMA TwoNames ==
  Two \in Seq(Names) /\ Len(Two) = 2 /\ Two[1] = "Oodle" /\ Two[2] = "Zlib"
<1>1. <<"Oodle", "Zlib">> \in Seq(Names) /\ Len(<<"Oodle", "Zlib">>) = 2
  <2> DEFINE a == "Oodle"
             b == "Zlib"
  <2>1. a \in Names /\ b \in Names
    BY DEF Names
  <2> HIDE DEF a, b
  <2>2. <<a, b>> \in Seq(Names) /\ Len(<<a, b>>) = 2
    BY <2>1
  <2> QED BY <2>2 DEF a, b
<1> QED BY <1>1 DEF Two

\* Such a table is written with counts that fit.
LEMMA BodyIsStorable ==
  ASSUME NEW s \in Shipments, NEW r, NEW t, GoodBody(t, s, r), GoodCounts(t.header, s),
         t.methods = Two
  PROVE  Storable(t)
<1> DEFINE h == t.header
           z == ShippedToc(s)
<1>1. PICK x \in BOOLEAN : t.ids = IdsOf(x)
  BY DEF GoodBody
<1>2. PICK n \in Nat \ {0} : t.offsets = OffsetsOf(n)
  BY DEF GoodBody
<1>3. /\ t.ids \in Seq(Item) /\ Len(t.ids) = Len(Lengths)
      /\ t.offsets \in Seq(Item) /\ Len(t.offsets) = Len(Lengths)
  BY <1>1, <1>2, IdsStored, OffsetsStored
<1>4. t.blocks \in Seq(Item) /\ Len(t.blocks) = NumBlocks
  BY BlocksStored DEF GoodBody, GoodBlocks
<1>5. /\ t.seeds = z.seeds /\ t.overflow = z.overflow /\ t.tocSignature = z.tocSignature
      /\ t.blockSignature = z.blockSignature /\ t.chunkSignatures = z.chunkSignatures
      /\ t.metas = z.metas
      /\ t.directory \in Seq(Item) /\ Len(t.directory) = IF s.indexed THEN 1 ELSE 0
  BY DEF GoodBody
<1>6. /\ z.seeds \in Seq(Item) /\ Len(z.seeds) = s.seeds
      /\ z.overflow \in Seq(Item) /\ Len(z.overflow) = s.overflow
      /\ z.tocSignature \in Seq(Item) /\ Len(z.tocSignature) = (IF s.signed THEN SignatureSize ELSE 0)
      /\ z.blockSignature \in Seq(Item) /\ Len(z.blockSignature) = (IF s.signed THEN SignatureSize ELSE 0)
      /\ z.chunkSignatures \in Seq(Item) /\ Len(z.chunkSignatures) = (IF s.signed THEN NumBlocks ELSE 0)
      /\ z.metas \in Seq(Item) /\ Len(z.metas) = Len(Lengths)
  BY RestType
<1>7. t.methods \in Seq(Names) /\ Len(t.methods) = 2
  BY TwoNames
<1>8. /\ h.version \in {s.version, Latest}
      /\ h.entries = Len(Lengths) /\ h.seeds = s.seeds /\ h.overflow = s.overflow
      /\ h.blocks = NumBlocks /\ h.methods = 2 /\ h.index = (IF s.indexed THEN 1 ELSE 0)
      /\ h.signed = s.signed /\ h.indexed = s.indexed
  BY DEF GoodCounts
<1>9. /\ (IF h.version >= PerfectHash THEN h.seeds ELSE 0) = s.seeds
      /\ (IF h.version >= PerfectHashWithOverflow THEN h.overflow ELSE 0) = s.overflow
  <2>1. /\ s.version \in Nat /\ s.seeds \in Nat /\ s.overflow \in Nat
        /\ s.seeds # 0 => s.version >= PerfectHash
        /\ s.overflow # 0 => s.version >= PerfectHashWithOverflow
    BY ShipmentType
  <2>2. Latest >= PerfectHash /\ Latest >= PerfectHashWithOverflow
    BY DEF Latest, PerfectHash, PerfectHashWithOverflow
  <2> QED BY <1>8, <2>1, <2>2
<1>10. s.signed \in BOOLEAN /\ s.indexed \in BOOLEAN
  BY ShipmentType
<1> HIDE DEF z, h
<1> QED BY <1>3, <1>4, <1>5, <1>6, <1>7, <1>8, <1>9, <1>10 DEF Storable, h

\* Sequences of at most three.
LEMMA Short ==
  ASSUME NEW S, NEW a \in S, NEW b \in S, NEW c \in S
  PROVE  /\ Append(<<>>, a) = <<a>> /\ Append(<<a>>, b) = <<a, b>>
         /\ <<a>> \o <<b, c>> = <<a, b, c>>
         /\ Len(<<a, b, c>>) = 3 /\ <<a, b, c>>[1] = a /\ <<a, b, c>>[2] = b /\ <<a, b, c>>[3] = c
<1>1. /\ <<>> \in Seq(S) /\ Len(<<>>) = 0 /\ <<a>> \in Seq(S) /\ Len(<<a>>) = 1 /\ <<a>>[1] = a
      /\ <<b, c>> \in Seq(S) /\ Len(<<b, c>>) = 2 /\ <<b, c>>[1] = b /\ <<b, c>>[2] = c
      /\ <<a, b>> \in Seq(S) /\ Len(<<a, b>>) = 2 /\ <<a, b>>[1] = a /\ <<a, b>>[2] = b
  OBVIOUS
<1>2. <<a, b, c>> \in Seq(S) /\ Len(<<a, b, c>>) = 3 /\ <<a, b, c>>[1] = a /\ <<a, b, c>>[2] = b /\ <<a, b, c>>[3] = c
  OBVIOUS
<1> DEFINE t == <<a>>
           u == <<a, b>>
           v == <<a, b, c>>
           w == <<b, c>>
           z == <<>>
<1>3. /\ z \in Seq(S) /\ Len(z) = 0 /\ t \in Seq(S) /\ Len(t) = 1 /\ t[1] = a
      /\ w \in Seq(S) /\ Len(w) = 2 /\ w[1] = b /\ w[2] = c
      /\ u \in Seq(S) /\ Len(u) = 2 /\ u[1] = a /\ u[2] = b
      /\ v \in Seq(S) /\ Len(v) = 3 /\ v[1] = a /\ v[2] = b /\ v[3] = c
  BY <1>1, <1>2
<1> HIDE DEF t, u, v, w, z
<1>4. Append(z, a) = t
  <2>1. Append(z, a) \in Seq(S) /\ Len(Append(z, a)) = 1 /\ Append(z, a)[1] = a
    BY <1>3, AppendProperties
  <2>2. \A i \in 1 .. 1 : Append(z, a)[i] = t[i]
    BY <1>3, <2>1
  <2> QED BY <1>3, <2>1, <2>2, SeqEqual
<1>5. Append(t, b) = u
  <2>1. Append(t, b) \in Seq(S) /\ Len(Append(t, b)) = 2 /\ Append(t, b)[1] = a /\ Append(t, b)[2] = b
    <3>1. /\ Append(t, b) \in Seq(S) /\ Len(Append(t, b)) = Len(t) + 1
          /\ \A i \in 1 .. Len(t) : Append(t, b)[i] = t[i]
          /\ Append(t, b)[Len(t) + 1] = b
      <4>1. t \in Seq(S) /\ b \in S
        BY <1>3
      <4> QED BY <4>1, AppendProperties
    <3>2. Len(t) + 1 = 2 /\ 1 \in 1 .. Len(t)
      BY <1>3
    <3> QED BY <1>3, <3>1, <3>2
  <2>2. \A i \in 1 .. 2 : Append(t, b)[i] = u[i]
    BY <1>3, <2>1
  <2> QED BY <1>3, <2>1, <2>2, SeqEqual
<1>6. t \o w = v
  <2>1. /\ t \o w \in Seq(S) /\ Len(t \o w) = Len(t) + Len(w)
        /\ \A i \in 1 .. Len(t) + Len(w) : (t \o w)[i] = IF i <= Len(t) THEN t[i] ELSE w[i - Len(t)]
    BY <1>3, ConcatProperties
  <2>3. Len(t \o w) = 3 /\ \A i \in 1 .. 3 : (t \o w)[i] = IF i <= 1 THEN t[i] ELSE w[i - 1]
    BY <1>3, <2>1
  <2>4. (t \o w)[1] = a /\ (t \o w)[2] = b /\ (t \o w)[3] = c
    <3>1. 1 \in 1 .. 3 /\ 2 \in 1 .. 3 /\ 3 \in 1 .. 3 /\ 1 <= 1 /\ ~(2 <= 1) /\ ~(3 <= 1) /\ 2 - 1 = 1 /\ 3 - 1 = 2
      OBVIOUS
    <3> QED BY <1>3, <2>3, <3>1
  <2>2. \A i \in 1 .. 3 : (t \o w)[i] = v[i]
    <3>1. 1 .. 3 = {1, 2, 3}
      OBVIOUS
    <3> QED BY <1>3, <2>4, <3>1
  <2> QED BY <1>3, <2>1, <2>2, <2>3, SeqEqual
<1> QED BY <1>2, <1>4, <1>5, <1>6 DEF t, u, v, w, z

\* The empty method before the others, and without it.
LEMMA EmptyBefore == <<"">> \o Two = Three
<1> DEFINE e == ""
           a == "Oodle"
           b == "Zlib"
<1>1. e \in Names /\ a \in Names /\ b \in Names
  BY DEF Names
<1> HIDE DEF e, a, b
<1>2. <<e>> \o <<a, b>> = <<e, a, b>>
  BY <1>1, Short
<1> QED BY <1>2 DEF e, a, b, Two, Three

Dropping(methods, f) ==
  f = [n \in 0 .. Len(methods) |->
         IF n = 0 THEN <<>>
         ELSE IF methods[n] = "" THEN f[n - 1] ELSE Append(f[n - 1], methods[n])]

LEMMA NamedBy ==
  ASSUME NEW methods, NEW g, Dropping(methods, g)
  PROVE  \E f : Dropping(methods, f) /\ Named(methods) = f[Len(methods)]
<1> DEFINE f == CHOOSE x : Dropping(methods, x)
<1>1. Dropping(methods, f)
  OBVIOUS
<1>2. Named(methods) = f[Len(methods)]
  BY DEF Named, Dropping
<1> QED BY <1>1, <1>2

LEMMA NamedTwo == Named(Two) = Two
<1> DEFINE a == "Oodle"
           b == "Zlib"
           g == [n \in 0 .. 2 |-> IF n = 0 THEN <<>> ELSE IF n = 1 THEN <<a>> ELSE <<a, b>>]
<1>1. a # "" /\ b # "" /\ Len(Two) = 2 /\ Two[1] = a /\ Two[2] = b
  BY TwoNames
<1>2. a \in Names /\ b \in Names
  BY DEF Names
<1>3. Two = <<a, b>>
  BY DEF Two
<1> HIDE DEF a, b
<1>4. Append(<<>>, a) = <<a>> /\ Append(<<a>>, b) = <<a, b>>
  BY <1>2, Short
<1>5. 0 .. 2 = {0, 1, 2} /\ 1 - 1 = 0 /\ 2 - 1 = 1
  OBVIOUS
<1>6. Dropping(Two, g)
  <2> DEFINE R(n) == IF n = 0 THEN <<>>
                     ELSE IF Two[n] = "" THEN g[n - 1] ELSE Append(g[n - 1], Two[n])
  <2>1. g[0] = <<>> /\ g[1] = <<a>> /\ g[2] = <<a, b>>
    BY <1>5
  <2>2. R(0) = <<>> /\ R(1) = <<a>> /\ R(2) = <<a, b>>
    <3> HIDE DEF g
    <3>1. R(0) = <<>>
      OBVIOUS
    <3>2. R(1) = <<a>>
      BY <1>1, <1>4, <1>5, <2>1
    <3>3. R(2) = <<a, b>>
      BY <1>1, <1>4, <1>5, <2>1
    <3> QED BY <3>1, <3>2, <3>3
  <2> HIDE DEF R
  <2>3. g = [n \in 0 .. 2 |-> R(n)]
    BY <1>5, <2>1, <2>2
  <2> HIDE DEF g
  <2>4. g = [n \in 0 .. Len(Two) |-> R(n)]
    BY <1>1, <2>3
  <2> QED BY <2>4 DEF Dropping, R
<1> HIDE DEF g
<1>7. PICK f : Dropping(Two, f) /\ Named(Two) = f[Len(Two)]
  BY <1>6, NamedBy
<1>8. f = [n \in 0 .. 2 |-> IF n = 0 THEN <<>>
             ELSE IF Two[n] = "" THEN f[n - 1] ELSE Append(f[n - 1], Two[n])]
  BY <1>1, <1>7 DEF Dropping
<1>9. f[0] = <<>> /\ f[1] = Append(f[0], a) /\ f[2] = Append(f[1], b)
  <2> DEFINE R(n) == IF n = 0 THEN <<>>
                     ELSE IF Two[n] = "" THEN f[n - 1] ELSE Append(f[n - 1], Two[n])
  <2>1. R(0) = <<>> /\ R(1) = Append(f[0], a) /\ R(2) = Append(f[1], b)
    <3>1. R(0) = <<>>
      OBVIOUS
    <3>0. 1 # 0 /\ 2 # 0
      OBVIOUS
    <3>2. R(1) = Append(f[1 - 1], a)
      BY <1>1, <3>0, Zenon
    <3>3. R(2) = Append(f[2 - 1], b)
      BY <1>1, <3>0, Zenon
    <3> HIDE DEF R
    <3> QED BY <1>5, <3>1, <3>2, <3>3
  <2>2. f = [n \in 0 .. 2 |-> R(n)]
    BY <1>8
  <2> HIDE DEF R
  <2>3. f[0] = R(0) /\ f[1] = R(1) /\ f[2] = R(2)
    BY <1>5, <2>2
  <2> QED BY <2>1, <2>3
<1> QED BY <1>1, <1>3, <1>4, <1>7, <1>9

LEMMA NamedThree == Named(Three) = Two
<1> DEFINE e == ""
           a == "Oodle"
           b == "Zlib"
           g == [n \in 0 .. 3 |-> IF n = 0 THEN <<>> ELSE IF n = 1 THEN <<>>
                                  ELSE IF n = 2 THEN <<a>> ELSE <<a, b>>]
<1>1. a # "" /\ b # "" /\ e = ""
  OBVIOUS
<1>2. e \in Names /\ a \in Names /\ b \in Names
  BY DEF Names
<1>3. Two = <<a, b>> /\ Three = <<e, a, b>>
  BY DEF Two, Three
<1> HIDE DEF a, b, e
<1>4. /\ Append(<<>>, a) = <<a>> /\ Append(<<a>>, b) = <<a, b>>
      /\ Len(Three) = 3 /\ Three[1] = e /\ Three[2] = a /\ Three[3] = b
  BY <1>2, <1>3, Short
<1>5. 0 .. 3 = {0, 1, 2, 3} /\ 1 - 1 = 0 /\ 2 - 1 = 1 /\ 3 - 1 = 2
  OBVIOUS
<1>6. Dropping(Three, g)
  <2> DEFINE R(n) == IF n = 0 THEN <<>>
                     ELSE IF Three[n] = "" THEN g[n - 1] ELSE Append(g[n - 1], Three[n])
  <2>1. g[0] = <<>> /\ g[1] = <<>> /\ g[2] = <<a>> /\ g[3] = <<a, b>>
    BY <1>5
  <2>2. R(0) = <<>> /\ R(1) = <<>> /\ R(2) = <<a>> /\ R(3) = <<a, b>>
    <3> HIDE DEF g
    <3>1. R(0) = <<>>
      OBVIOUS
    <3>2. R(1) = <<>>
      BY <1>1, <1>4, <1>5, <2>1
    <3>3. R(2) = <<a>>
      BY <1>1, <1>4, <1>5, <2>1
    <3>4. R(3) = <<a, b>>
      BY <1>1, <1>4, <1>5, <2>1
    <3> QED BY <3>1, <3>2, <3>3, <3>4
  <2> HIDE DEF R
  <2>3. g = [n \in 0 .. 3 |-> R(n)]
    BY <1>5, <2>1, <2>2
  <2> HIDE DEF g
  <2>4. g = [n \in 0 .. Len(Three) |-> R(n)]
    BY <1>4, <2>3
  <2> QED BY <2>4 DEF Dropping, R
<1> HIDE DEF g
<1>7. PICK f : Dropping(Three, f) /\ Named(Three) = f[Len(Three)]
  BY <1>6, NamedBy
<1>8. f = [n \in 0 .. 3 |-> IF n = 0 THEN <<>>
             ELSE IF Three[n] = "" THEN f[n - 1] ELSE Append(f[n - 1], Three[n])]
  BY <1>4, <1>7 DEF Dropping
<1>9. f[0] = <<>> /\ f[1] = f[0] /\ f[2] = Append(f[1], a) /\ f[3] = Append(f[2], b)
  <2> DEFINE R(n) == IF n = 0 THEN <<>>
                     ELSE IF Three[n] = "" THEN f[n - 1] ELSE Append(f[n - 1], Three[n])
  <2>1. R(0) = <<>> /\ R(1) = f[0] /\ R(2) = Append(f[1], a) /\ R(3) = Append(f[2], b)
    <3>1. R(0) = <<>>
      OBVIOUS
    <3>0. 1 # 0 /\ 2 # 0 /\ 3 # 0
      OBVIOUS
    <3>2. R(1) = f[1 - 1]
      BY <1>1, <1>4, <3>0, Zenon
    <3>3. R(2) = Append(f[2 - 1], a)
      BY <1>1, <1>4, <3>0, Zenon
    <3>4. R(3) = Append(f[3 - 1], b)
      BY <1>1, <1>4, <3>0, Zenon
    <3> HIDE DEF R
    <3> QED BY <1>5, <3>1, <3>2, <3>3, <3>4
  <2>2. f = [n \in 0 .. 3 |-> R(n)]
    BY <1>8
  <2> HIDE DEF R
  <2>3. f[0] = R(0) /\ f[1] = R(1) /\ f[2] = R(2) /\ f[3] = R(3)
    BY <1>5, <2>2
  <2> QED BY <2>1, <2>3
<1> QED BY <1>3, <1>4, <1>7, <1>9

-----------------------------------------------------------------------------
(* A file made of such a table is read as such a table.                    *)

\* What a swap may do to a container of this kind.
Swapped(s, r) == r \in {"patch", "hide"} /\ (s.parts = 2 => r = "hide")

LEMMA ShippedBody ==
  ASSUME NEW s \in Shipments, NEW r, Swapped(s, r)
  PROVE  /\ GoodBody(ShippedToc(s), s, r) /\ GoodCounts(ShippedToc(s).header, s)
         /\ ShippedToc(s).methods = Two
<1> DEFINE z == ShippedToc(s)
           l == Len(Lengths)
<1>1. l \in Nat /\ Entries = 1 .. l /\ Target \in 1 .. l
  BY Widths
<1>2. z.ids = IdsOf(FALSE)
  <2>1. z.ids = [e \in 1 .. l |-> [chunk |-> e, hidden |-> FALSE]]
    BY <1>1 DEF ShippedToc
  <2>2. \A e \in 1 .. l : [chunk |-> e, hidden |-> FALSE] = [chunk |-> e, hidden |-> FALSE /\ e = Target]
    OBVIOUS
  <2> QED BY <2>1, <2>2 DEF IdsOf
<1>3. z.offsets = OffsetsOf(Lengths[Target])
  <2>1. z.offsets = [e \in 1 .. l |-> [offset |-> ShippedOffset(e), length |-> Lengths[e]]]
    BY <1>1 DEF ShippedToc
  <2>2. \A e \in 1 .. l : Lengths[e] = IF e = Target THEN Lengths[Target] ELSE Lengths[e]
    OBVIOUS
  <2> QED BY <2>1, <2>2 DEF OffsetsOf
<1>4. Lengths[Target] \in Nat \ {0} /\ BlocksFor(Lengths[Target]) <= BlockCounts[Target]
  <2>1. Lengths[Target] > 0 /\ Lengths[Target] \in Nat /\ BlockCounts[Target] = BlocksFor(Lengths[Target])
    BY <1>1, Widths, BlockCountsType
  <2>2. BlockCounts[Target] \in Nat
    BY TargetFacts
  <2> QED BY <2>1, <2>2
<1>5. z.blocks = [k \in 1 .. NumBlocks |-> Shipped(s, k)]
  BY DEF ShippedToc, Shipped
<1>6. GoodBlocks(z.blocks, s, r)
  <2> DEFINE blocks == z.blocks
             N == NumBlocks
  <2>1. blocks = [k \in 1 .. N |-> Shipped(s, k)]
    BY <1>5
  <2>2. \A k \in 1 .. N : Shipped(s, k) \in BlockEntry
    BY ShippedPlaces
  <2> HIDE DEF blocks, N
  <2>3. blocks \in [1 .. N -> BlockEntry] /\ \A k \in 1 .. N : blocks[k] = Shipped(s, k)
    BY <2>1, <2>2
  <2>4. ASSUME NEW k \in 1 .. N, r = "patch" PROVE blocks[k].offset + blocks[k].csize <= PartitionSize
    <3>1. s.parts = 1
      BY <2>4, ShipmentType DEF Swapped
    <3>2. /\ Shipped(s, k).csize = PackedSize
          /\ Shipped(s, k).offset + PackedSize <= PartitionSize
      BY <3>1, ShippedPlaces DEF N
    <3>3. blocks[k] = Shipped(s, k)
      BY <2>3
    <3> QED BY <3>2, <3>3
  <2>5. BlocksBefore(Target) + 1 \in 1 .. N
    BY TargetFacts DEF N
  <2> QED BY <2>3, <2>4, <2>5 DEF GoodBlocks, blocks, N
<1>7. /\ z.directory \in Seq(Item) /\ Len(z.directory) = IF s.indexed THEN 1 ELSE 0
  <2> DEFINE y == IF s.encrypted THEN "encrypted" ELSE "plain"
             item == [layer |-> y]
  <2>1. z.directory = IF s.indexed THEN <<item>> ELSE <<>>
    BY DEF ShippedToc
  <2>2. y \in Layers
    BY DEF Layers
  <2> HIDE DEF y
  <2>3. item \in Item
    <3>1. item \in [layer : Layers]
      BY <2>2
    <3>2. [layer : Layers] \subseteq Item
      BY DEF Item
    <3> QED BY <3>1, <3>2
  <2> HIDE DEF item, z
  <2> QED BY <2>1, <2>3
<1>8. GoodBody(z, s, r)
  <2>1. \E x \in BOOLEAN : z.ids = IdsOf(x) /\ (x => r = "hide")
    BY <1>2
  <2>2. \E n \in Nat \ {0} : /\ z.offsets = OffsetsOf(n) /\ BlocksFor(n) <= BlockCounts[Target]
                             /\ r = "hide" => n = Lengths[Target]
    BY <1>3, <1>4
  <2> QED BY <1>6, <1>7, <2>1, <2>2 DEF GoodBody
<1>9. GoodCounts(z.header, s)
  BY DEF GoodCounts, ShippedToc
<1>10. z.methods = Two
  BY DEF ShippedToc, Two
<1> QED BY <1>8, <1>9, <1>10

LEMMA BodyCopied ==
  ASSUME NEW s, NEW r, NEW t, NEW u, GoodBody(t, s, r),
         u.ids = t.ids, u.offsets = t.offsets, u.seeds = t.seeds, u.overflow = t.overflow,
         u.blocks = t.blocks, u.tocSignature = t.tocSignature,
         u.blockSignature = t.blockSignature, u.chunkSignatures = t.chunkSignatures,
         u.directory = t.directory, u.metas = t.metas
  PROVE  GoodBody(u, s, r)
BY DEF GoodBody

LEMMA FileIsGood ==
  ASSUME NEW s \in Shipments, NEW r, NEW t, GoodBody(t, s, r), GoodCounts(t.header, s),
         t.methods = Two, ReadHeader(t.header) = HeaderOf(s, t.header.version)
  PROVE  LET u == Read(FileOf(t))
         IN /\ u = Loaded(t) /\ Good(u, s, r) /\ u.methods = Three
            /\ u.header.version = t.header.version /\ FileOf(t).header = t.header
<1> DEFINE u == Loaded(t)
           v == t.header.version
<1>1. Read(FileOf(t)) = u
  BY BodyIsStorable, ReadBack
<1>2. /\ u.ids = t.ids /\ u.offsets = t.offsets /\ u.seeds = t.seeds /\ u.overflow = t.overflow
      /\ u.blocks = t.blocks /\ u.tocSignature = t.tocSignature
      /\ u.blockSignature = t.blockSignature /\ u.chunkSignatures = t.chunkSignatures
      /\ u.directory = t.directory /\ u.metas = t.metas /\ u.header = HeaderOf(s, v)
  BY DEF Loaded
<1>3. u.methods = Three
  BY EmptyBefore DEF Loaded
<1>4. IsToc(u)
  BY DEF IsToc, Loaded
<1>5. u.header.version = v /\ v \in {s.version, Latest}
  BY <1>2 DEF HeaderOf, GoodCounts
<1> HIDE DEF u, v
<1>6. GoodBody(u, s, r)
  BY <1>2, BodyCopied
<1>7. Good(u, s, r)
  BY <1>2, <1>3, <1>4, <1>5, <1>6 DEF Good
<1>8. FileOf(t).header = t.header
  BY DEF FileOf
<1> QED BY <1>1, <1>3, <1>5, <1>7, <1>8 DEF u, v

LEMMA ShippedHeader ==
  ASSUME NEW s \in Shipments
  PROVE  /\ ReadHeader(ShippedToc(s).header) = HeaderOf(s, s.version)
         /\ ShippedToc(s).header.version = s.version
<1> DEFINE h == ShippedToc(s).header
<1>1. h = [version |-> s.version, entries |-> Len(Lengths), seeds |-> s.seeds,
           overflow |-> s.overflow, blocks |-> NumBlocks, methods |-> 2,
           index |-> IF s.indexed THEN 1 ELSE 0,
           partitions |-> IF s.version < HasPartitions THEN 0 ELSE s.parts,
           partitionSize |-> IF s.version < HasPartitions THEN 0 ELSE PartitionSize,
           signed |-> s.signed, encrypted |-> s.encrypted, indexed |-> s.indexed]
  BY DEF ShippedToc
<1> HIDE DEF h
<1>2. h.version = s.version
  BY <1>1
<1>3. CASE s.version < HasPartitions
  <2>1. s.parts = 1
    <3>1. s.parts \in {1, 2} /\ s.version \in Nat /\ (s.parts = 2 => s.version >= HasPartitions)
      BY ShipmentType
    <3>2. HasPartitions \in Nat
      BY DEF HasPartitions
    <3> QED BY <1>3, <3>1, <3>2
  <2>2. KnownSize(s) = Unlimited
    BY <1>3 DEF KnownSize
  <2>3. ReadHeader(h) = [[h EXCEPT !.partitions = 1] EXCEPT !.partitionSize = Unlimited]
    BY <1>2, <1>3 DEF ReadHeader
  <2> DEFINE g == [h EXCEPT !.partitions = 1]
             U == Unlimited
  <2>4. g = [version |-> s.version, entries |-> Len(Lengths), seeds |-> s.seeds,
           overflow |-> s.overflow, blocks |-> NumBlocks, methods |-> 2,
           index |-> IF s.indexed THEN 1 ELSE 0,
           partitions |-> 1,
           partitionSize |-> IF s.version < HasPartitions THEN 0 ELSE PartitionSize,
           signed |-> s.signed, encrypted |-> s.encrypted, indexed |-> s.indexed]
    BY <1>1
  <2> HIDE DEF g, U
  <2>5. [g EXCEPT !.partitionSize = U] =
          [version |-> s.version, entries |-> Len(Lengths), seeds |-> s.seeds,
           overflow |-> s.overflow, blocks |-> NumBlocks, methods |-> 2,
           index |-> IF s.indexed THEN 1 ELSE 0,
           partitions |-> 1, partitionSize |-> U,
           signed |-> s.signed, encrypted |-> s.encrypted, indexed |-> s.indexed]
    BY <2>4
  <2>6. ReadHeader(h) = [g EXCEPT !.partitionSize = U]
    BY <2>3 DEF g, U
  <2>7. KnownSize(s) = U
    BY <2>2 DEF U
  <2> QED BY <1>2, <2>1, <2>5, <2>6, <2>7 DEF HeaderOf, h
<1>4. CASE ~(s.version < HasPartitions)
  <2>1. KnownSize(s) = PartitionSize
    BY <1>4 DEF KnownSize
  <2>2. ReadHeader(h) = h
    BY <1>2, <1>4 DEF ReadHeader
  <2>3. h = HeaderOf(s, s.version)
    BY <1>1, <1>4, <2>1 DEF HeaderOf
  <2> QED BY <1>2, <2>2, <2>3 DEF h
<1> QED BY <1>3, <1>4

-----------------------------------------------------------------------------
(* The partitions.                                                         *)

InSecond(s, k) == s.parts = 2 /\ ~(k - 1 < NumBlocks \div 2)

LEMMA Half ==
  /\ NumBlocks \in Nat \ {0} /\ NumBlocks \div 2 \in Nat
  /\ NumBlocks > 1 => /\ NumBlocks \div 2 >= 1 /\ ~(NumBlocks - 1 < NumBlocks \div 2)
<1> DEFINE N == NumBlocks
           half == N \div 2
           odd == N % 2
<1>1. N \in Nat \ {0} /\ 2 \in Nat \ {0}
  BY TargetFacts
<1>2. half \in Nat /\ odd \in 0 .. 2 - 1 /\ N = 2 * half + odd
  <2> HIDE DEF N
  <2> QED BY <1>1, DivMod
<1> HIDE DEF N, half, odd
<1>3. N > 1 => half >= 1 /\ ~(N - 1 < half)
  BY <1>1, <1>2
<1> QED BY <1>1, <1>2, <1>3 DEF N, half

LEMMA SizeKnown ==
  ASSUME NEW s \in Shipments
  PROVE  /\ KnownSize(s) \in Nat \ {0} /\ PartitionSize <= KnownSize(s)
         /\ s.parts = 2 => KnownSize(s) = PartitionSize
<1>1. /\ PartitionSize \in Nat \ {0} /\ OffsetLimit \in Nat /\ WordLimit \in Nat
      /\ 2 * PartitionSize <= OffsetLimit /\ OffsetLimit < WordLimit
  BY Widths, Sizes
<1>2. Unlimited \in Nat \ {0} /\ PartitionSize <= Unlimited
  BY <1>1 DEF Unlimited
<1>3. s.parts = 2 => ~(s.version < HasPartitions)
  <2>1. s.version \in Nat /\ (s.parts = 2 => s.version >= HasPartitions)
    BY ShipmentType
  <2> QED BY <2>1 DEF HasPartitions
<1> QED BY <1>1, <1>2, <1>3 DEF KnownSize

LEMMA PartitionOf ==
  ASSUME NEW s \in Shipments, NEW r, Swapped(s, r), NEW blocks, GoodBlocks(blocks, s, r),
         NEW k \in 1 .. NumBlocks
  PROVE  LET p == IF InSecond(s, k) THEN 1 ELSE 0
         IN /\ blocks[k].offset \div KnownSize(s) = p
            /\ (blocks[k].offset + blocks[k].csize - 1) \div KnownSize(s) = p
<1> DEFINE o == blocks[k].offset
           c == blocks[k].csize
           z == KnownSize(s)
           P == PartitionSize
<1>1. o \in Nat /\ c \in Nat \ {0}
  <2>1. blocks[k] \in BlockEntry
    BY DEF GoodBlocks
  <2> QED BY <2>1 DEF BlockEntry
<1>2. z \in Nat \ {0} /\ P \in Nat \ {0} /\ P <= z /\ (s.parts = 2 => z = P)
  BY SizeKnown, Widths
<1>3. s.parts \in {1, 2} /\ r \in {"patch", "hide"} /\ (s.parts = 2 => r = "hide")
  BY ShipmentType DEF Swapped
<1>4. r = "patch" => o + c <= P
  BY DEF GoodBlocks
<1>5. r = "hide" => o = Shipped(s, k).offset /\ c = PackedSize
  <2>1. r = "hide" => blocks[k] = Shipped(s, k)
    BY DEF GoodBlocks
  <2>2. Shipped(s, k).csize = PackedSize
    BY ShippedPlaces
  <2> QED BY <2>1, <2>2
<1>6. CASE ~InSecond(s, k)
  <2>1. o + c <= P
    <3>1. CASE r = "hide"
      <4>1. Shipped(s, k).offset + PackedSize <= P
        <5>1. s.parts = 1 \/ (s.parts = 2 /\ k - 1 < NumBlocks \div 2)
          BY <1>3, <1>6 DEF InSecond
        <5> QED BY <5>1, ShippedPlaces
      <4> QED BY <1>5, <3>1, <4>1
    <3>2. CASE r = "patch"
      BY <1>4, <3>2
    <3> QED BY <1>3, <3>1, <3>2
  <2> HIDE DEF o, c, z, P
  <2>2. ASSUME NEW x, x \in 0 .. z - 1 PROVE x \div z = 0
    <3>1. x = z * 0 + x /\ 0 \in Int
      BY <1>2, <2>2
    <3> QED BY <1>2, <2>2, <3>1, DivUnique
  <2>3. o \in 0 .. z - 1 /\ o + c - 1 \in 0 .. z - 1
    BY <1>1, <1>2, <2>1
  <2>4. o \div z = 0 /\ (o + c - 1) \div z = 0
    <3> DEFINE e == o + c - 1
    <3>1. e \in 0 .. z - 1
      BY <2>3
    <3> HIDE DEF e
    <3>2. o \div z = 0 /\ e \div z = 0
      BY <2>2, <2>3, <3>1
    <3> QED BY <3>2 DEF e
  <2> QED BY <1>6, <2>4 DEF o, c, z
<1>7. CASE InSecond(s, k)
  <2>1. s.parts = 2 /\ z = P /\ r = "hide"
    BY <1>2, <1>3, <1>7 DEF InSecond
  <2>2. P <= o /\ o + c <= 2 * P
    <3>1. P <= Shipped(s, k).offset /\ Shipped(s, k).offset + PackedSize <= 2 * P
      BY <1>7, ShippedPlaces DEF InSecond
    <3> QED BY <1>5, <2>1, <3>1
  <2> HIDE DEF o, c, z, P
  <2>3. ASSUME NEW x, x - P \in 0 .. P - 1, x \in Int PROVE x \div P = 1
    <3> DEFINE y == x - P
    <3>1. x = P * 1 + y /\ 1 \in Int /\ y \in 0 .. P - 1
      BY <1>2, <2>3
    <3> HIDE DEF y
    <3> QED BY <1>2, <3>1, DivUnique
  <2>4. o - P \in 0 .. P - 1 /\ o \in Int
    BY <1>1, <1>2, <2>2
  <2>5. o \div P = 1
    BY <2>3, <2>4
  <2>6. (o + c - 1) \div P = 1
    <3> DEFINE e == o + c - 1
    <3>1. e - P \in 0 .. P - 1 /\ e \in Int
      BY <1>1, <1>2, <2>2
    <3> HIDE DEF e
    <3>2. e \div P = 1
      BY <2>3, <3>1
    <3> QED BY <3>2 DEF e
  <2> QED BY <1>7, <2>1, <2>5, <2>6 DEF o, c, z
<1> QED BY <1>6, <1>7

LEMMA PartitionsUsed ==
  ASSUME NEW s \in Shipments, NEW r, Swapped(s, r), NEW blocks, GoodBlocks(blocks, s, r)
  PROVE  /\ PartitionCount(blocks, KnownSize(s)) = s.parts
         /\ {b.offset \div KnownSize(s) : b \in ToSet(blocks)} = 0 .. s.parts - 1
<1> DEFINE N == NumBlocks
           z == KnownSize(s)
           p(k) == IF InSecond(s, k) THEN 1 ELSE 0
<1>1. N \in Nat \ {0} /\ N \div 2 \in Nat /\ (N > 1 => N \div 2 >= 1 /\ ~(N - 1 < N \div 2))
  BY Half
<1>2. blocks \in [1 .. N -> BlockEntry] /\ Len(blocks) = N
  BY BlocksStored DEF GoodBlocks
<1>3. s.parts \in {1, 2} /\ (s.parts = 2 => N > 1)
  BY ShipmentType
<1>4. \A k \in 1 .. N : /\ blocks[k].offset \div z = p(k)
                        /\ (blocks[k].offset + blocks[k].csize - 1) \div z = p(k)
  <2>1. ASSUME NEW k \in 1 .. N
        PROVE  /\ blocks[k].offset \div z = p(k)
               /\ (blocks[k].offset + blocks[k].csize - 1) \div z = p(k)
    BY PartitionOf
  <2> QED BY <2>1
<1>5. p(N) = s.parts - 1 /\ p(1) = 0 /\ \A k \in 1 .. N : p(k) \in 0 .. s.parts - 1
  <2>1. InSecond(s, N) <=> s.parts = 2
    BY <1>1, <1>3 DEF InSecond
  <2>2. ~InSecond(s, 1)
    <3>1. s.parts = 2 => 1 - 1 < N \div 2
      BY <1>1, <1>3
    <3> QED BY <3>1 DEF InSecond
  <2>3. \A k \in 1 .. N : InSecond(s, k) => s.parts = 2
    BY DEF InSecond
  <2>4. p(N) = s.parts - 1
    BY <1>3, <2>1
  <2>5. p(1) = 0
    BY <2>2
  <2>6. ASSUME NEW k \in 1 .. N PROVE p(k) \in 0 .. s.parts - 1
    <3>1. CASE InSecond(s, k)
      <4>1. s.parts = 2
        BY <2>3, <3>1
      <4> QED BY <3>1, <4>1
    <3>2. CASE ~InSecond(s, k)
      <4>1. p(k) = 0
        BY <3>2
      <4>2. 0 \in 0 .. s.parts - 1
        BY <1>3
      <4> QED BY <4>1, <4>2
    <3> QED BY <3>1, <3>2
  <2> QED BY <2>4, <2>5, <2>6
<1> HIDE DEF p, z, N
<1>6. N \in 1 .. N /\ 1 \in 1 .. N
  BY <1>1
<1>7. PartitionCount(blocks, z) = s.parts
  <2>1. PartitionCount(blocks, z) = (blocks[N].offset + blocks[N].csize - 1) \div z + 1
    BY <1>2 DEF PartitionCount, LastBlockEnd
  <2> QED BY <1>3, <1>4, <1>5, <1>6, <2>1
<1>8. {b.offset \div z : b \in ToSet(blocks)} = 0 .. s.parts - 1
  <2>1. ToSet(blocks) = {blocks[k] : k \in 1 .. N}
    <3>1. DOMAIN blocks = 1 .. N
      BY <1>2
    <3> QED BY <3>1 DEF ToSet
  <2>2. {b.offset \div z : b \in ToSet(blocks)} = {blocks[k].offset \div z : k \in 1 .. N}
    BY <2>1
  <2>3. {blocks[k].offset \div z : k \in 1 .. N} = {p(k) : k \in 1 .. N}
    BY <1>4
  <2>4. 0 .. s.parts - 1 = {0, s.parts - 1}
    BY <1>3
  <2>5. {p(k) : k \in 1 .. N} \subseteq 0 .. s.parts - 1
    BY <1>5
  <2>6. {0, s.parts - 1} \subseteq {p(k) : k \in 1 .. N}
    BY <1>5, <1>6
  <2>7. {p(k) : k \in 1 .. N} = 0 .. s.parts - 1
    BY <2>4, <2>5, <2>6
  <2> QED BY <2>2, <2>3, <2>7
<1> QED BY <1>7, <1>8 DEF z

-----------------------------------------------------------------------------
(* Writing makes the header anew.                                          *)

\* One field of a table changed.
LEMMA HeaderField ==
  ASSUME NEW t, IsToc(t), NEW n
  PROVE  LET u == [t EXCEPT !.header = n]
         IN /\ IsToc(u) /\ u.header = n
            /\ u.ids = t.ids /\ u.offsets = t.offsets /\ u.seeds = t.seeds /\ u.overflow = t.overflow /\ u.blocks = t.blocks
            /\ u.methods = t.methods /\ u.tocSignature = t.tocSignature /\ u.blockSignature = t.blockSignature
            /\ u.chunkSignatures = t.chunkSignatures /\ u.directory = t.directory /\ u.metas = t.metas
<1> DEFINE u == [t EXCEPT !.header = n]
           a == t.header
           b == t.ids
           c == t.offsets
           d == t.seeds
           e == t.overflow
           f == t.blocks
           g == t.methods
           h == t.tocSignature
           i == t.blockSignature
           j == t.chunkSignatures
           k == t.directory
           l == t.metas
<1>0. t = [header |-> a, ids |-> b, offsets |-> c, seeds |-> d,
           overflow |-> e, blocks |-> f, methods |-> g,
           tocSignature |-> h, blockSignature |-> i,
           chunkSignatures |-> j, directory |-> k, metas |-> l]
  BY DEF IsToc
<1> HIDE DEF a, b, c, d, e, f, g, h, i, j, k, l
<1>1. u = [header |-> n, ids |-> b, offsets |-> c, seeds |-> d,
           overflow |-> e, blocks |-> f, methods |-> g,
           tocSignature |-> h, blockSignature |-> i,
           chunkSignatures |-> j, directory |-> k, metas |-> l]
  BY <1>0
<1> HIDE DEF u
<1>2. /\ u.header = n
      /\ u.ids = t.ids /\ u.offsets = t.offsets /\ u.seeds = t.seeds /\ u.overflow = t.overflow /\ u.blocks = t.blocks
      /\ u.methods = t.methods /\ u.tocSignature = t.tocSignature /\ u.blockSignature = t.blockSignature
      /\ u.chunkSignatures = t.chunkSignatures /\ u.directory = t.directory /\ u.metas = t.metas
  BY <1>0, <1>1
<1>3. IsToc(u)
  BY <1>1 DEF IsToc
<1> QED BY <1>2, <1>3 DEF u

LEMMA IdsField ==
  ASSUME NEW t, IsToc(t), NEW n
  PROVE  LET u == [t EXCEPT !.ids = n]
         IN /\ IsToc(u) /\ u.ids = n
            /\ u.header = t.header /\ u.offsets = t.offsets /\ u.seeds = t.seeds /\ u.overflow = t.overflow /\ u.blocks = t.blocks
            /\ u.methods = t.methods /\ u.tocSignature = t.tocSignature /\ u.blockSignature = t.blockSignature
            /\ u.chunkSignatures = t.chunkSignatures /\ u.directory = t.directory /\ u.metas = t.metas
<1> DEFINE u == [t EXCEPT !.ids = n]
           a == t.header
           b == t.ids
           c == t.offsets
           d == t.seeds
           e == t.overflow
           f == t.blocks
           g == t.methods
           h == t.tocSignature
           i == t.blockSignature
           j == t.chunkSignatures
           k == t.directory
           l == t.metas
<1>0. t = [header |-> a, ids |-> b, offsets |-> c, seeds |-> d,
           overflow |-> e, blocks |-> f, methods |-> g,
           tocSignature |-> h, blockSignature |-> i,
           chunkSignatures |-> j, directory |-> k, metas |-> l]
  BY DEF IsToc
<1> HIDE DEF a, b, c, d, e, f, g, h, i, j, k, l
<1>1. u = [header |-> a, ids |-> n, offsets |-> c, seeds |-> d,
           overflow |-> e, blocks |-> f, methods |-> g,
           tocSignature |-> h, blockSignature |-> i,
           chunkSignatures |-> j, directory |-> k, metas |-> l]
  BY <1>0
<1> HIDE DEF u
<1>2. /\ u.ids = n
      /\ u.header = t.header /\ u.offsets = t.offsets /\ u.seeds = t.seeds /\ u.overflow = t.overflow /\ u.blocks = t.blocks
      /\ u.methods = t.methods /\ u.tocSignature = t.tocSignature /\ u.blockSignature = t.blockSignature
      /\ u.chunkSignatures = t.chunkSignatures /\ u.directory = t.directory /\ u.metas = t.metas
  BY <1>0, <1>1
<1>3. IsToc(u)
  BY <1>1 DEF IsToc
<1> QED BY <1>2, <1>3 DEF u

LEMMA OffsetsField ==
  ASSUME NEW t, IsToc(t), NEW n
  PROVE  LET u == [t EXCEPT !.offsets = n]
         IN /\ IsToc(u) /\ u.offsets = n
            /\ u.header = t.header /\ u.ids = t.ids /\ u.seeds = t.seeds /\ u.overflow = t.overflow /\ u.blocks = t.blocks
            /\ u.methods = t.methods /\ u.tocSignature = t.tocSignature /\ u.blockSignature = t.blockSignature
            /\ u.chunkSignatures = t.chunkSignatures /\ u.directory = t.directory /\ u.metas = t.metas
<1> DEFINE u == [t EXCEPT !.offsets = n]
           a == t.header
           b == t.ids
           c == t.offsets
           d == t.seeds
           e == t.overflow
           f == t.blocks
           g == t.methods
           h == t.tocSignature
           i == t.blockSignature
           j == t.chunkSignatures
           k == t.directory
           l == t.metas
<1>0. t = [header |-> a, ids |-> b, offsets |-> c, seeds |-> d,
           overflow |-> e, blocks |-> f, methods |-> g,
           tocSignature |-> h, blockSignature |-> i,
           chunkSignatures |-> j, directory |-> k, metas |-> l]
  BY DEF IsToc
<1> HIDE DEF a, b, c, d, e, f, g, h, i, j, k, l
<1>1. u = [header |-> a, ids |-> b, offsets |-> n, seeds |-> d,
           overflow |-> e, blocks |-> f, methods |-> g,
           tocSignature |-> h, blockSignature |-> i,
           chunkSignatures |-> j, directory |-> k, metas |-> l]
  BY <1>0
<1> HIDE DEF u
<1>2. /\ u.offsets = n
      /\ u.header = t.header /\ u.ids = t.ids /\ u.seeds = t.seeds /\ u.overflow = t.overflow /\ u.blocks = t.blocks
      /\ u.methods = t.methods /\ u.tocSignature = t.tocSignature /\ u.blockSignature = t.blockSignature
      /\ u.chunkSignatures = t.chunkSignatures /\ u.directory = t.directory /\ u.metas = t.metas
  BY <1>0, <1>1
<1>3. IsToc(u)
  BY <1>1 DEF IsToc
<1> QED BY <1>2, <1>3 DEF u

LEMMA BlocksField ==
  ASSUME NEW t, IsToc(t), NEW n
  PROVE  LET u == [t EXCEPT !.blocks = n]
         IN /\ IsToc(u) /\ u.blocks = n
            /\ u.header = t.header /\ u.ids = t.ids /\ u.offsets = t.offsets /\ u.seeds = t.seeds /\ u.overflow = t.overflow
            /\ u.methods = t.methods /\ u.tocSignature = t.tocSignature /\ u.blockSignature = t.blockSignature
            /\ u.chunkSignatures = t.chunkSignatures /\ u.directory = t.directory /\ u.metas = t.metas
<1> DEFINE u == [t EXCEPT !.blocks = n]
           a == t.header
           b == t.ids
           c == t.offsets
           d == t.seeds
           e == t.overflow
           f == t.blocks
           g == t.methods
           h == t.tocSignature
           i == t.blockSignature
           j == t.chunkSignatures
           k == t.directory
           l == t.metas
<1>0. t = [header |-> a, ids |-> b, offsets |-> c, seeds |-> d,
           overflow |-> e, blocks |-> f, methods |-> g,
           tocSignature |-> h, blockSignature |-> i,
           chunkSignatures |-> j, directory |-> k, metas |-> l]
  BY DEF IsToc
<1> HIDE DEF a, b, c, d, e, f, g, h, i, j, k, l
<1>1. u = [header |-> a, ids |-> b, offsets |-> c, seeds |-> d,
           overflow |-> e, blocks |-> n, methods |-> g,
           tocSignature |-> h, blockSignature |-> i,
           chunkSignatures |-> j, directory |-> k, metas |-> l]
  BY <1>0
<1> HIDE DEF u
<1>2. /\ u.blocks = n
      /\ u.header = t.header /\ u.ids = t.ids /\ u.offsets = t.offsets /\ u.seeds = t.seeds /\ u.overflow = t.overflow
      /\ u.methods = t.methods /\ u.tocSignature = t.tocSignature /\ u.blockSignature = t.blockSignature
      /\ u.chunkSignatures = t.chunkSignatures /\ u.directory = t.directory /\ u.metas = t.metas
  BY <1>0, <1>1
<1>3. IsToc(u)
  BY <1>1 DEF IsToc
<1> QED BY <1>2, <1>3 DEF u

LEMMA MethodsField ==
  ASSUME NEW t, IsToc(t), NEW n
  PROVE  LET u == [t EXCEPT !.methods = n]
         IN /\ IsToc(u) /\ u.methods = n
            /\ u.header = t.header /\ u.ids = t.ids /\ u.offsets = t.offsets /\ u.seeds = t.seeds /\ u.overflow = t.overflow /\ u.blocks = t.blocks
            /\ u.tocSignature = t.tocSignature /\ u.blockSignature = t.blockSignature
            /\ u.chunkSignatures = t.chunkSignatures /\ u.directory = t.directory /\ u.metas = t.metas
<1> DEFINE u == [t EXCEPT !.methods = n]
           a == t.header
           b == t.ids
           c == t.offsets
           d == t.seeds
           e == t.overflow
           f == t.blocks
           g == t.methods
           h == t.tocSignature
           i == t.blockSignature
           j == t.chunkSignatures
           k == t.directory
           l == t.metas
<1>0. t = [header |-> a, ids |-> b, offsets |-> c, seeds |-> d,
           overflow |-> e, blocks |-> f, methods |-> g,
           tocSignature |-> h, blockSignature |-> i,
           chunkSignatures |-> j, directory |-> k, metas |-> l]
  BY DEF IsToc
<1> HIDE DEF a, b, c, d, e, f, g, h, i, j, k, l
<1>1. u = [header |-> a, ids |-> b, offsets |-> c, seeds |-> d,
           overflow |-> e, blocks |-> f, methods |-> n,
           tocSignature |-> h, blockSignature |-> i,
           chunkSignatures |-> j, directory |-> k, metas |-> l]
  BY <1>0
<1> HIDE DEF u
<1>2. /\ u.methods = n
      /\ u.header = t.header /\ u.ids = t.ids /\ u.offsets = t.offsets /\ u.seeds = t.seeds /\ u.overflow = t.overflow /\ u.blocks = t.blocks
      /\ u.tocSignature = t.tocSignature /\ u.blockSignature = t.blockSignature
      /\ u.chunkSignatures = t.chunkSignatures /\ u.directory = t.directory /\ u.metas = t.metas
  BY <1>0, <1>1
<1>3. IsToc(u)
  BY <1>1 DEF IsToc
<1> QED BY <1>2, <1>3 DEF u

LEMMA DirectoryField ==
  ASSUME NEW t, IsToc(t), NEW n
  PROVE  LET u == [t EXCEPT !.directory = n]
         IN /\ IsToc(u) /\ u.directory = n
            /\ u.header = t.header /\ u.ids = t.ids /\ u.offsets = t.offsets /\ u.seeds = t.seeds /\ u.overflow = t.overflow /\ u.blocks = t.blocks
            /\ u.methods = t.methods /\ u.tocSignature = t.tocSignature /\ u.blockSignature = t.blockSignature
            /\ u.chunkSignatures = t.chunkSignatures /\ u.metas = t.metas
<1> DEFINE u == [t EXCEPT !.directory = n]
           a == t.header
           b == t.ids
           c == t.offsets
           d == t.seeds
           e == t.overflow
           f == t.blocks
           g == t.methods
           h == t.tocSignature
           i == t.blockSignature
           j == t.chunkSignatures
           k == t.directory
           l == t.metas
<1>0. t = [header |-> a, ids |-> b, offsets |-> c, seeds |-> d,
           overflow |-> e, blocks |-> f, methods |-> g,
           tocSignature |-> h, blockSignature |-> i,
           chunkSignatures |-> j, directory |-> k, metas |-> l]
  BY DEF IsToc
<1> HIDE DEF a, b, c, d, e, f, g, h, i, j, k, l
<1>1. u = [header |-> a, ids |-> b, offsets |-> c, seeds |-> d,
           overflow |-> e, blocks |-> f, methods |-> g,
           tocSignature |-> h, blockSignature |-> i,
           chunkSignatures |-> j, directory |-> n, metas |-> l]
  BY <1>0
<1> HIDE DEF u
<1>2. /\ u.directory = n
      /\ u.header = t.header /\ u.ids = t.ids /\ u.offsets = t.offsets /\ u.seeds = t.seeds /\ u.overflow = t.overflow /\ u.blocks = t.blocks
      /\ u.methods = t.methods /\ u.tocSignature = t.tocSignature /\ u.blockSignature = t.blockSignature
      /\ u.chunkSignatures = t.chunkSignatures /\ u.metas = t.metas
  BY <1>0, <1>1
<1>3. IsToc(u)
  BY <1>1 DEF IsToc
<1> QED BY <1>2, <1>3 DEF u

LEMMA RebuiltIsGood ==
  ASSUME NEW s \in Shipments, NEW r, Swapped(s, r), NEW t, Good(t, s, r)
  PROVE  LET w == Rebuilt(t)
         IN /\ Good(w, s, r) /\ w.methods = Two /\ w.header = HeaderOf(s, Latest)
            /\ w.ids = t.ids /\ w.offsets = t.offsets /\ w.blocks = t.blocks
            /\ Len(t.offsets) = Len(t.ids) /\ Len(t.metas) = Len(t.ids)
<1> DEFINE named == [t EXCEPT !.methods = Named(t.methods)]
           w == Rebuilt(t)
           h == t.header
<1>1. Named(t.methods) = Two
  <2>1. t.methods = Two \/ t.methods = Three
    BY DEF Good
  <2> QED BY <2>1, NamedTwo, NamedThree
<1>2. /\ IsToc(t) /\ GoodBody(t, s, r) /\ h = HeaderOf(s, h.version)
  BY DEF Good
<1>3. /\ IsToc(named) /\ named.methods = Two /\ named.header = h /\ named.ids = t.ids
      /\ named.offsets = t.offsets /\ named.seeds = t.seeds /\ named.overflow = t.overflow
      /\ named.blocks = t.blocks /\ named.tocSignature = t.tocSignature
      /\ named.blockSignature = t.blockSignature /\ named.chunkSignatures = t.chunkSignatures
      /\ named.directory = t.directory /\ named.metas = t.metas
  BY <1>1, <1>2, MethodsField
<1>4. w = [named EXCEPT !.header = NewHeader(named)]
  BY DEF Rebuilt
<1> HIDE DEF named, w
<1>5. /\ IsToc(w) /\ w.header = NewHeader(named) /\ w.methods = Two /\ w.ids = t.ids
      /\ w.offsets = t.offsets /\ w.seeds = t.seeds /\ w.overflow = t.overflow
      /\ w.blocks = t.blocks /\ w.tocSignature = t.tocSignature
      /\ w.blockSignature = t.blockSignature /\ w.chunkSignatures = t.chunkSignatures
      /\ w.directory = t.directory /\ w.metas = t.metas
  BY <1>3, <1>4, HeaderField
<1>6. GoodBody(w, s, r)
  BY <1>2, <1>5, BodyCopied
<1>7. /\ Len(t.ids) = Len(Lengths) /\ Len(t.offsets) = Len(Lengths) /\ Len(t.metas) = Len(Lengths)
      /\ Len(t.seeds) = s.seeds /\ Len(t.overflow) = s.overflow
      /\ Len(t.directory) = (IF s.indexed THEN 1 ELSE 0) /\ t.ids # <<>>
  <2>1. PICK x \in BOOLEAN : t.ids = IdsOf(x)
    BY <1>2 DEF GoodBody
  <2>2. PICK n \in Nat \ {0} : t.offsets = OffsetsOf(n)
    BY <1>2 DEF GoodBody
  <2>3. /\ t.seeds = ShippedToc(s).seeds /\ t.overflow = ShippedToc(s).overflow
        /\ t.metas = ShippedToc(s).metas /\ Len(t.directory) = (IF s.indexed THEN 1 ELSE 0)
    BY <1>2 DEF GoodBody
  <2>4. Len(t.seeds) = s.seeds /\ Len(t.overflow) = s.overflow /\ Len(t.metas) = Len(Lengths)
    BY <2>3, RestType
  <2>5. Len(t.ids) = Len(Lengths) /\ Len(t.offsets) = Len(Lengths)
    BY <2>1, <2>2, IdsStored, OffsetsStored
  <2>6. Len(Lengths) # 0
    BY Widths
  <2>7. t.ids # <<>>
    BY <2>5, <2>6
  <2> QED BY <2>3, <2>4, <2>5, <2>7
<1>8. GoodBlocks(t.blocks, s, r)
  BY <1>2 DEF GoodBody
<1>9. Len(t.blocks) = NumBlocks /\ PartitionCount(t.blocks, KnownSize(s)) = s.parts
  BY <1>8, PartitionsUsed, BlocksStored DEF GoodBlocks
<1>10. /\ h.partitionSize = KnownSize(s) /\ h.signed = s.signed /\ h.encrypted = s.encrypted
       /\ h.indexed = s.indexed
  BY <1>2 DEF HeaderOf
<1>11. NewHeader(named) =
         [version |-> Latest, entries |-> Len(t.ids), seeds |-> Len(t.seeds),
          overflow |-> Len(t.overflow), blocks |-> Len(t.blocks),
          methods |-> Len(Two), index |-> Len(t.directory),
          partitions |-> PartitionCount(t.blocks, h.partitionSize),
          partitionSize |-> h.partitionSize,
          signed |-> h.signed, encrypted |-> h.encrypted, indexed |-> h.indexed]
  BY <1>3, <1>7 DEF NewHeader
<1>12. w.header = HeaderOf(s, Latest)
  <2>1. Len(Two) = 2
    BY TwoNames
  <2> HIDE DEF h
  <2> QED BY <1>5, <1>7, <1>9, <1>10, <1>11, <2>1 DEF HeaderOf
<1>13. w.header.version = Latest
  BY <1>12 DEF HeaderOf
<1>14. Good(w, s, r)
  BY <1>5, <1>6, <1>12, <1>13 DEF Good
<1> QED BY <1>5, <1>7, <1>12, <1>14 DEF w

\* The written file is read as what was written.
LEMMA WrittenIsGood ==
  ASSUME NEW s \in Shipments, NEW r, Swapped(s, r), NEW t, Good(t, s, r)
  PROVE  LET file == FileOf(Rebuilt(t))
             u == Read(file)
         IN /\ Readable(file) /\ Good(u, s, r) /\ u.methods = Three
            /\ u.ids = t.ids /\ u.offsets = t.offsets /\ u.blocks = t.blocks
            /\ u.header = HeaderOf(s, Latest)
<1> DEFINE w == Rebuilt(t)
           file == FileOf(w)
           u == Read(file)
<1>1. /\ Good(w, s, r) /\ w.methods = Two /\ w.header = HeaderOf(s, Latest)
      /\ w.ids = t.ids /\ w.offsets = t.offsets /\ w.blocks = t.blocks
  BY RebuiltIsGood
<1> HIDE DEF w
<1>2. w.header.version = Latest
  BY <1>1 DEF HeaderOf
<1>3. ~(Latest < HasPartitions) /\ Latest \in Outdated + 1 .. Latest
  BY DEF Latest, HasPartitions, Outdated
<1>4. ReadHeader(w.header) = HeaderOf(s, w.header.version)
  BY <1>1, <1>2, <1>3 DEF ReadHeader
<1>5. GoodCounts(w.header, s)
  BY <1>1 DEF GoodCounts, HeaderOf
<1>6. GoodBody(w, s, r)
  BY <1>1 DEF Good
<1>7. u = Loaded(w) /\ Good(u, s, r) /\ u.methods = Three /\ file.header = w.header
      /\ u.header.version = w.header.version
  BY <1>1, <1>4, <1>5, <1>6, FileIsGood
<1>8. u.ids = w.ids /\ u.offsets = w.offsets /\ u.blocks = w.blocks
  <2> HIDE DEF u
  <2> QED BY <1>7 DEF Loaded
<1>9. u.header = HeaderOf(s, Latest)
  BY <1>2, <1>7 DEF Good
<1>10. Readable(file)
  BY <1>2, <1>3, <1>7 DEF Readable
<1> HIDE DEF u, file
<1> QED BY <1>1, <1>7, <1>8, <1>9, <1>10 DEF u, file, w

\* The file the game came with.
LEMMA ShippedIsGood ==
  ASSUME NEW s \in Shipments, NEW r, Swapped(s, r)
  PROVE  LET file == FileOf(ShippedToc(s))
             u == Read(file)
         IN /\ Good(u, s, r) /\ u.methods = Three
            /\ u.ids = IdsOf(FALSE) /\ u.offsets = OffsetsOf(Lengths[Target])
            /\ u.blocks = [k \in 1 .. NumBlocks |-> Shipped(s, k)]
            /\ file.header.version = s.version
<1> DEFINE z == ShippedToc(s)
           file == FileOf(z)
           u == Read(file)
<1>1. GoodBody(z, s, r) /\ GoodCounts(z.header, s) /\ z.methods = Two
  BY ShippedBody
<1>2. ReadHeader(z.header) = HeaderOf(s, z.header.version) /\ z.header.version = s.version
  BY ShippedHeader
<1>3. u = Loaded(z) /\ Good(u, s, r) /\ u.methods = Three /\ file.header = z.header
  BY <1>1, <1>2, FileIsGood
<1>4. u.ids = z.ids /\ u.offsets = z.offsets /\ u.blocks = z.blocks
  <2> HIDE DEF u, z
  <2> QED BY <1>3 DEF Loaded
<1>5. z.blocks = [k \in 1 .. NumBlocks |-> Shipped(s, k)]
  BY DEF ShippedToc, Shipped
<1>6. z.ids = IdsOf(FALSE)
  <2> DEFINE l == Len(Lengths)
  <2>1. z.ids = [e \in 1 .. l |-> [chunk |-> e, hidden |-> FALSE]]
    BY Widths DEF ShippedToc
  <2>2. \A e \in 1 .. l : [chunk |-> e, hidden |-> FALSE] = [chunk |-> e, hidden |-> FALSE /\ e = Target]
    OBVIOUS
  <2> QED BY <2>1, <2>2 DEF IdsOf
<1>7. z.offsets = OffsetsOf(Lengths[Target])
  <2> DEFINE l == Len(Lengths)
  <2>1. z.offsets = [e \in 1 .. l |-> [offset |-> ShippedOffset(e), length |-> Lengths[e]]]
    BY Widths DEF ShippedToc
  <2>2. \A e \in 1 .. l : Lengths[e] = IF e = Target THEN Lengths[Target] ELSE Lengths[e]
    OBVIOUS
  <2> QED BY <2>1, <2>2 DEF OffsetsOf
<1> HIDE DEF u, file, z
<1> QED BY <1>2, <1>3, <1>4, <1>5, <1>6, <1>7 DEF u, file, z

-----------------------------------------------------------------------------
(* Decrypting and hiding.                                                  *)

LEMMA DecryptedIsGood ==
  ASSUME NEW s \in Shipments, NEW r, NEW t, Good(t, s, r)
  PROVE  LET u == Decrypted(t)
         IN /\ Good(u, s, r) /\ u.ids = t.ids /\ u.offsets = t.offsets /\ u.blocks = t.blocks
            /\ u.methods = t.methods
<1> DEFINE d == [i \in DOMAIN t.directory |-> Decrypt(t.directory[i])]
           u == [t EXCEPT !.directory = d]
<1>1. IsToc(t) /\ GoodBody(t, s, r)
  BY DEF Good
<1>2. Decrypted(t) = IF t.header.encrypted THEN u ELSE t
  BY DEF Decrypted
<1>3. CASE ~t.header.encrypted
  BY <1>2, <1>3
<1>4. CASE t.header.encrypted
  <2>1. t.directory \in Seq(Item) /\ Len(t.directory) = IF s.indexed THEN 1 ELSE 0
    BY <1>1 DEF GoodBody
  <2>2. d \in Seq(Item) /\ Len(d) = Len(t.directory)
    <3> DEFINE n == Len(t.directory)
    <3>1. n \in Nat /\ DOMAIN t.directory = 1 .. n
      BY <2>1, LenProperties
    <3>2. ASSUME NEW x PROVE Decrypt(x) \in Item
      <4> DEFINE y == IF x.layer = "encrypted" THEN "plain" ELSE "garbage"
      <4>1. y \in Layers
        BY DEF Layers
      <4>2. Decrypt(x) = [layer |-> y]
        BY DEF Decrypt
      <4> HIDE DEF y
      <4>3. Decrypt(x) \in [layer : Layers]
        BY <4>1, <4>2
      <4>4. [layer : Layers] \subseteq Item
        BY DEF Item
      <4> QED BY <4>3, <4>4
    <3>3. d = [i \in 1 .. n |-> Decrypt(t.directory[i])]
      BY <3>1
    <3> HIDE DEF d, n
    <3>4. d \in [1 .. n -> Item]
      BY <3>2, <3>3
    <3> QED BY <3>1, <3>4, SequenceOf DEF n
  <2> HIDE DEF d
  <2>3. /\ IsToc(u) /\ u.directory = d /\ u.header = t.header /\ u.ids = t.ids
        /\ u.offsets = t.offsets /\ u.seeds = t.seeds /\ u.overflow = t.overflow
        /\ u.blocks = t.blocks /\ u.methods = t.methods /\ u.tocSignature = t.tocSignature
        /\ u.blockSignature = t.blockSignature /\ u.chunkSignatures = t.chunkSignatures
        /\ u.metas = t.metas
    BY <1>1, DirectoryField
  <2> HIDE DEF u
  <2>4. GoodBody(u, s, r)
    BY <1>1, <2>1, <2>2, <2>3 DEF GoodBody
  <2>5. Good(u, s, r)
    BY <2>3, <2>4 DEF Good
  <2> QED BY <1>2, <1>4, <2>3, <2>5
<1> QED BY <1>3, <1>4

LEMMA HiddenIsGood ==
  ASSUME NEW s \in Shipments, NEW t, Good(t, s, "hide")
  PROVE  LET u == HiddenToc(t)
         IN /\ Good(u, s, "hide") /\ u.ids = IdsOf(TRUE) /\ u.offsets = t.offsets
            /\ u.blocks = t.blocks
<1> DEFINE d == [t.ids EXCEPT ![Target] = [chunk |-> t.ids[Target].chunk, hidden |-> TRUE]]
           u == [t EXCEPT !.ids = d]
           l == Len(Lengths)
<1>1. IsToc(t) /\ GoodBody(t, s, "hide")
  BY DEF Good
<1>2. HiddenToc(t) = u
  BY DEF HiddenToc
<1>3. PICK x \in BOOLEAN : t.ids = IdsOf(x)
  BY <1>1 DEF GoodBody
<1>4. d = IdsOf(TRUE)
  <2>1. t.ids = [e \in 1 .. l |-> [chunk |-> e, hidden |-> x /\ e = Target]]
    BY <1>3 DEF IdsOf
  <2>2. Target \in 1 .. l
    BY Widths
  <2> HIDE DEF l
  <2>3. t.ids[Target].chunk = Target
    BY <2>1, <2>2
  <2>4. d = [t.ids EXCEPT ![Target] = [chunk |-> Target, hidden |-> TRUE]]
    BY <2>3
  <2>5. d = [e \in 1 .. l |-> IF e = Target THEN [chunk |-> Target, hidden |-> TRUE] ELSE t.ids[e]]
    BY <2>1, <2>2, <2>4
  <2>6. ASSUME NEW e \in 1 .. l
        PROVE  (IF e = Target THEN [chunk |-> Target, hidden |-> TRUE] ELSE t.ids[e])
                 = [chunk |-> e, hidden |-> TRUE /\ e = Target]
    <3>1. CASE e = Target
      BY <3>1
    <3>2. CASE e # Target
      <4>1. t.ids[e] = [chunk |-> e, hidden |-> x /\ e = Target]
        BY <2>1
      <4>2. (x /\ e = Target) = FALSE /\ (TRUE /\ e = Target) = FALSE
        BY <3>2
      <4> QED BY <3>2, <4>1, <4>2
    <3> QED BY <3>1, <3>2
  <2>7. d = [e \in 1 .. l |-> [chunk |-> e, hidden |-> TRUE /\ e = Target]]
    BY <2>5, <2>6
  <2> QED BY <2>7 DEF IdsOf, l
<1> HIDE DEF d
<1>5. /\ IsToc(u) /\ u.ids = d /\ u.header = t.header
      /\ u.offsets = t.offsets /\ u.seeds = t.seeds /\ u.overflow = t.overflow
      /\ u.blocks = t.blocks /\ u.methods = t.methods /\ u.tocSignature = t.tocSignature
      /\ u.blockSignature = t.blockSignature /\ u.chunkSignatures = t.chunkSignatures
      /\ u.directory = t.directory /\ u.metas = t.metas
  BY <1>1, IdsField
<1> HIDE DEF u
<1>6. GoodBody(u, s, "hide")
  <2>1. \E y \in BOOLEAN : u.ids = IdsOf(y) /\ (y => "hide" = "hide")
    BY <1>4, <1>5
  <2> QED BY <1>1, <1>5, <2>1 DEF GoodBody
<1>7. Good(u, s, "hide")
  BY <1>5, <1>6 DEF Good
<1> QED BY <1>2, <1>4, <1>5, <1>7

-----------------------------------------------------------------------------
(* What a reader finds.                                                    *)

Where(b, size) ==
  [partition |-> b.offset \div size, position |-> b.offset % size,
   csize |-> b.csize, usize |-> b.usize, method |-> Three[b.method + 1]]

\* The blocks of a chunk of that length whose first block is b.
FoundAt(blocks, s, b, n) ==
  [i \in 1 .. BlocksFor(n) |-> Where(blocks[b + i], KnownSize(s))]

LengthOf(n, e) == IF e = Target THEN n ELSE Lengths[e]

LEMMA ChunkFits ==
  ASSUME NEW n \in Nat, BlocksFor(n) <= BlockCounts[Target], NEW e \in 1 .. Len(Lengths)
  PROVE  /\ BlocksBefore(e) \in Nat /\ LengthOf(n, e) \in Nat
         /\ BlocksBefore(e) + BlocksFor(LengthOf(n, e)) <= NumBlocks
         /\ BlocksFor(LengthOf(n, e)) \in Nat /\ BlocksFor(LengthOf(n, e)) <= BlockCounts[e]
         /\ OffsetsOf(n)[e].offset = BlockSize * BlocksBefore(e)
         /\ OffsetsOf(n)[e].length = LengthOf(n, e)
<1>1. e \in Entries
  BY Widths
<1>2. /\ BlocksBefore(e) \in Nat /\ NumBlocks \in Nat /\ BlockCounts[e] \in Nat
      /\ BlocksBefore(e) + BlockCounts[e] <= NumBlocks
      /\ BlockCounts[e] = BlocksFor(Lengths[e]) /\ Lengths[e] \in Nat
  BY <1>1, BlocksOf, BlockCountsType
<1>3. LengthOf(n, e) \in Nat
  BY <1>2 DEF LengthOf
<1>4. BlocksFor(LengthOf(n, e)) \in Nat
  BY <1>3, BlocksForLength
<1>5. BlocksFor(LengthOf(n, e)) <= BlockCounts[e]
  <2>1. CASE e = Target
    BY <2>1 DEF LengthOf
  <2>2. CASE e # Target
    <3>1. BlocksFor(LengthOf(n, e)) = BlockCounts[e]
      BY <1>2, <2>2 DEF LengthOf
    <3> QED BY <1>2, <3>1
  <2> QED BY <2>1, <2>2
<1>6. OffsetsOf(n)[e] = [offset |-> ShippedOffset(e), length |-> LengthOf(n, e)]
  BY DEF OffsetsOf, LengthOf
<1>7. OffsetsOf(n)[e].offset = BlockSize * BlocksBefore(e) /\ OffsetsOf(n)[e].length = LengthOf(n, e)
  BY <1>6 DEF ShippedOffset
<1> DEFINE c == BlocksFor(LengthOf(n, e))
<1>8. BlocksBefore(e) + c <= NumBlocks
  <2> HIDE DEF c
  <2>1. c \in Nat /\ c <= BlockCounts[e]
    BY <1>4, <1>5 DEF c
  <2> QED BY <1>2, <2>1
<1> QED BY <1>2, <1>3, <1>4, <1>5, <1>7, <1>8

LEMMA BlocksFound ==
  ASSUME NEW s \in Shipments, NEW r, NEW t, Good(t, s, r), t.methods = Three,
         NEW n \in Nat, t.offsets = OffsetsOf(n), BlocksFor(n) <= BlockCounts[Target],
         NEW e \in 1 .. Len(Lengths)
  PROVE  BlocksAt(t, t.offsets[e]) = FoundAt(t.blocks, s, BlocksBefore(e), LengthOf(n, e))
<1> DEFINE at == t.offsets[e]
           b == BlocksBefore(e)
           m == LengthOf(n, e)
           c == BlocksFor(m)
<1>1. /\ b \in Nat /\ m \in Nat /\ b + c <= NumBlocks /\ c \in Nat
      /\ at.offset = BlockSize * b /\ at.length = m
  BY ChunkFits
<1> HIDE DEF at, b, m
<1>2. FirstBlockIndex(at) = b /\ LastBlockIndex(at) = b + c - 1
  BY <1>1, RangeOf
<1> HIDE DEF c
<1>3. (b + c - 1) - b + 1 = c
  BY <1>1
<1>4. BlocksAt(t, at) = [i \in 1 .. c |-> Located(t, b + i - 1)]
  BY <1>2, <1>3 DEF BlocksAt
<1>5. t.header.partitionSize = KnownSize(s)
  <2>1. t.header = HeaderOf(s, t.header.version)
    BY DEF Good
  <2> QED BY <2>1 DEF HeaderOf
<1>6. ASSUME NEW i \in 1 .. c
      PROVE  Located(t, b + i - 1) = Where(t.blocks[b + i], KnownSize(s))
  <2>1. b + i - 1 + 1 = b + i
    BY <1>1
  <2> DEFINE k == b + i - 1
  <2>2. Located(t, k) = Where(t.blocks[k + 1], KnownSize(s))
    <3> HIDE DEF k
    <3> QED BY <1>5 DEF Located, Where, GetBlockCompressionMethod
  <2> QED BY <2>1, <2>2
<1>7. BlocksAt(t, at) = [i \in 1 .. c |-> Where(t.blocks[b + i], KnownSize(s))]
  BY <1>4, <1>6
<1> QED BY <1>7 DEF FoundAt, at, b, m, c

Visible(x) == IF x THEN 1 .. Len(Lengths) \ {Target} ELSE 1 .. Len(Lengths)

LEMMA AssetsAre ==
  ASSUME NEW file, Readable(file), NEW t, t = Read(file), NEW x \in BOOLEAN, t.ids = IdsOf(x)
  PROVE  Assets(file) = [c \in Visible(x) |-> BlocksAt(t, t.offsets[c])]
<1> DEFINE l == Len(Lengths)
           q == t.ids
           S == {id.chunk : id \in {id \in ToSet(q) : ~id.hidden}}
           Entry(c) == CHOOSE e \in DOMAIN q : q[e].chunk = c
<1>1. Assets(file) = [c \in S |-> BlocksAt(t, t.offsets[Entry(c)])]
  BY DEF Assets
<1>2. q = [e \in 1 .. l |-> [chunk |-> e, hidden |-> x /\ e = Target]]
  BY DEF IdsOf
<1> HIDE DEF q, l
<1>3. /\ DOMAIN q = 1 .. l
      /\ \A e \in 1 .. l : q[e].chunk = e /\ q[e].hidden = (x /\ e = Target)
  BY <1>2
<1>4. S = Visible(x)
  <2>1. ToSet(q) = {q[e] : e \in 1 .. l}
    BY <1>3 DEF ToSet
  <2>2. S = {q[e].chunk : e \in {e \in 1 .. l : ~q[e].hidden}}
    BY <2>1
  <2>3. S = {e \in 1 .. l : ~(x /\ e = Target)}
    BY <1>3, <2>2
  <2> HIDE DEF S
  <2>4. {e \in 1 .. l : ~(x /\ e = Target)} = IF x THEN 1 .. l \ {Target} ELSE 1 .. l
    OBVIOUS
  <2> QED BY <2>3, <2>4 DEF Visible, l
<1>5. ASSUME NEW c \in Visible(x) PROVE Entry(c) = c
  <2>1. c \in 1 .. l
    BY DEF Visible, l
  <2> QED BY <1>3, <2>1
<1> HIDE DEF S, Entry
<1> QED BY <1>1, <1>4, <1>5

-----------------------------------------------------------------------------
(* Patching.                                                               *)

LEMMA NothingOr ==
  ASSUME NEW n
  PROVE  BitOr(0, n) = n
BY DEF BitOr

\* The four setters, in this order and on a fresh entry, store what they are given.
LEMMA EntryStored ==
  ASSUME NEW o \in 0 .. OffsetLimit - 1, NEW c \in 1 .. SizeLimit - 1, NEW u \in 0 .. SizeLimit - 1
  PROVE  PatchedEntry(o, c, u) = [offset |-> o, csize |-> c, usize |-> u, method |-> 1]
<1>1. o % OffsetLimit = o /\ c % SizeLimit = c /\ u % SizeLimit = u
  <2>1. OffsetLimit \in Nat \ {0} /\ SizeLimit \in Nat \ {0}
    BY Widths
  <2>2. c \in 0 .. SizeLimit - 1
    BY <2>1
  <2> QED BY <2>1, <2>2, SmallMod
<1> DEFINE e1 == SetOffset(ZeroEntry, o)
           e2 == SetCompressedSize(e1, c)
           e3 == SetUncompressedSize(e2, u)
           e4 == SetCompressionMethodIndex(e3, 1)
<1>2. e1 = [offset |-> o, csize |-> 0, usize |-> 0, method |-> 0]
  BY <1>1 DEF SetOffset, ZeroEntry
<1>3. e2 = [offset |-> o, csize |-> c, usize |-> 0, method |-> 0]
  <2>1. e2 = [e1 EXCEPT !.csize = BitOr(e1.csize, c) % SizeLimit]
    BY DEF SetCompressedSize
  <2> HIDE DEF e1, e2
  <2>2. e1.csize = 0
    BY <1>2
  <2>3. BitOr(e1.csize, c) % SizeLimit = c
    BY <1>1, <2>2, NothingOr
  <2>4. e2 = [e1 EXCEPT !.csize = c]
    BY <2>1, <2>3
  <2> QED BY <1>2, <2>4
<1>4. e3 = [offset |-> o, csize |-> c, usize |-> u, method |-> 0]
  <2>1. e3 = [offset |-> e2.offset, csize |-> e2.csize, usize |-> u % SizeLimit, method |-> 0]
    BY DEF SetUncompressedSize
  <2> HIDE DEF e2, e3
  <2> QED BY <1>1, <1>3, <2>1
<1>5. e4 = [offset |-> o, csize |-> c, usize |-> u, method |-> 1]
  <2>1. e4 = [e3 EXCEPT !.method = BitOr(e3.method, 1)]
    BY DEF SetCompressionMethodIndex
  <2> HIDE DEF e3, e4
  <2>2. BitOr(e3.method, 1) = 1
    BY <1>4, NothingOr
  <2>3. e4 = [e3 EXCEPT !.method = 1]
    BY <2>1, <2>2
  <2> QED BY <1>4, <2>3
<1>6. PatchedEntry(o, c, u) = e4
  BY DEF PatchedEntry
<1> QED BY <1>5, <1>6

LEMMA UnpackedSize ==
  ASSUME NEW n \in Nat \ {0}, NEW i \in 1 .. BlocksFor(n)
  PROVE  Unpacked(n, i) \in 0 .. SizeLimit - 1
<1> DEFINE c == BlocksFor(n)
           B == BlockSize
<1>1. /\ B \in Nat \ {0} /\ B < SizeLimit /\ SizeLimit \in Nat /\ c \in Nat
      /\ n <= B * c /\ B * (c - 1) < n
  BY Widths, Sizes, BlocksForLength
<1>2. Unpacked(n, i) = IF i < c THEN B ELSE n - (i - 1) * B
  BY DEF Unpacked
<1> HIDE DEF c, B
<1>3. i \in 1 .. c
  BY DEF c
<1>4. CASE i < c
  BY <1>1, <1>2, <1>4
<1>5. CASE ~(i < c)
  <2>1. i = c
    BY <1>1, <1>3, <1>5
  <2>2. (c - 1) * B = B * (c - 1) /\ B * c = B * (c - 1) + B
    BY <1>1
  <2> DEFINE x == B * (c - 1)
  <2>3. x \in Int
    BY <1>1
  <2>4. n <= x + B /\ x < n /\ Unpacked(n, i) = n - x
    BY <1>1, <1>2, <1>5, <2>1, <2>2
  <2> HIDE DEF x
  <2>5. n - x \in 0 .. SizeLimit - 1
    BY <1>1, <2>3, <2>4
  <2> QED BY <2>4, <2>5
<1> QED BY <1>4, <1>5

\* Where a package's first block was shipped.
Start == BlocksBefore(Target) * PackedSize

\* The new blocks lie one behind the other, in the first partition.
LEMMA NewPlaces ==
  ASSUME NEW n \in PatchedLengths, NEW sizes \in [1 .. BlocksFor(n) -> PackedSizes]
  PROVE  /\ Start \in Nat /\ Position(Start, sizes, 1) = Start
         /\ \A i \in 1 .. BlocksFor(n) :
              /\ Position(Start, sizes, i) \in Nat
              /\ sizes[i] \in 1 .. SizeLimit - 1
              /\ Position(Start, sizes, i) + sizes[i] <= PartitionSize
<1> DEFINE c == BlocksFor(n)
           v == [k \in DOMAIN sizes |-> sizes[k] + Padding]
           at == Sums(v)
<1>1. n \in Nat \ {0} /\ Position(Start, sizes, Len(sizes) + 1) <= PartitionSize
  BY TocAssumption DEF TocAssumption, Start
<1>2. c \in Nat
  BY <1>1, BlocksForLength
<1>3. sizes \in [1 .. c -> PackedSizes]
  OBVIOUS
<1>4. PackedSizes \subseteq 1 .. SizeLimit - 1 /\ SizeLimit \in Nat /\ Padding \in Nat /\ PartitionSize \in Nat
  BY Sizes, Widths
<1>5. \A j : Position(Start, sizes, j) = Start + at[j - 1]
  BY DEF Position
<1> HIDE DEF c
<1>6. \A k \in 1 .. c : sizes[k] \in 1 .. SizeLimit - 1
  BY <1>3, <1>4
<1>7. v = [k \in 1 .. c |-> sizes[k] + Padding]
  BY <1>3
<1> HIDE DEF v
<1>8. \A k \in 1 .. c : v[k] = sizes[k] + Padding /\ v[k] \in Nat
  BY <1>4, <1>6, <1>7
<1>9. v \in [1 .. c -> Nat]
  BY <1>7, <1>8
<1>10. v \in Seq(Nat) /\ Len(v) = c
  BY <1>2, <1>9, SequenceOf
<1>11. /\ at \in [0 .. c -> Nat] /\ at[0] = 0
       /\ \A k \in 1 .. c : at[k] = at[k - 1] + v[k]
  BY <1>10, SumsDef
<1>12. \A k \in 0 .. c : at[k] <= at[c]
  <2> SUFFICES ASSUME NEW k \in 0 .. c PROVE at[k] <= at[c]
    OBVIOUS
  <2>1. c \in 0 .. Len(v)
    BY <1>2, <1>10
  <2> QED BY <1>10, <2>1, SumsGrow
<1>13. Len(sizes) = c
  BY <1>2, <1>3, SequenceOf
<1> HIDE DEF at
<1>14. Start \in Nat
  <2>1. BlocksBefore(Target) \in Nat /\ PackedSize \in Nat
    BY TargetFacts, Sizes
  <2> QED BY <2>1 DEF Start
<1>15. Start + at[c] <= PartitionSize
  <2>1. (c + 1) - 1 = c
    BY <1>2
  <2> QED BY <1>1, <1>5, <1>13, <2>1
<1>16. Position(Start, sizes, 1) = Start
  <2>1. Position(Start, sizes, 1) = Start + at[1 - 1] /\ 1 - 1 = 0
    BY <1>5
  <2> QED BY <1>11, <1>14, <2>1
<1>17. ASSUME NEW i \in 1 .. c
       PROVE  /\ Position(Start, sizes, i) \in Nat
              /\ Position(Start, sizes, i) + sizes[i] <= PartitionSize
  <2>1. i - 1 \in 0 .. c /\ i \in 0 .. c
    BY <1>2
  <2>2. at[i - 1] \in Nat /\ at[i] \in Nat /\ at[c] \in Nat /\ at[i] <= at[c] /\ c \in 0 .. c
    BY <1>2, <1>11, <1>12, <2>1
  <2>3. at[i] = at[i - 1] + v[i] /\ v[i] = sizes[i] + Padding
    BY <1>8, <1>11
  <2>4. Position(Start, sizes, i) = Start + at[i - 1] /\ sizes[i] \in Nat
    BY <1>4, <1>5, <1>6
  <2> DEFINE a == at[i - 1]
             b == at[i]
             m == at[c]
             z == sizes[i]
             y == v[i]
             w == Start
             x == Position(Start, sizes, i)
  <2>5. /\ a \in Nat /\ b \in Nat /\ m \in Nat /\ z \in Nat /\ w \in Nat /\ b <= m
        /\ b = a + y /\ y = z + Padding /\ x = w + a /\ w + m <= PartitionSize
    BY <1>14, <1>15, <2>2, <2>3, <2>4
  <2> HIDE DEF a, b, m, z, y, w, x
  <2>6. x \in Nat /\ x + z <= PartitionSize
    BY <1>4, <2>5
  <2> QED BY <2>6 DEF x, z
<1> QED BY <1>6, <1>14, <1>16, <1>17 DEF c

\* Where a patch finds the target's first block.
LEMMA TargetFound ==
  ASSUME NEW s \in Shipments, s.parts = 1, NEW t, Good(t, s, "patch")
  PROVE  /\ FirstBlockIndex(t.offsets[Target]) = BlocksBefore(Target)
         /\ TargetBlock(t) = Start /\ Start \in Nat /\ Start < PartitionSize
         /\ TargetBlock(t) \div t.header.partitionSize = 0
         /\ TargetBlock(t) % t.header.partitionSize = Start
         /\ (t.header.partitions - 1) * t.header.partitionSize = 0
<1> DEFINE b == BlocksBefore(Target)
           z == KnownSize(s)
<1>1. GoodBody(t, s, "patch") /\ t.header = HeaderOf(s, t.header.version)
  BY DEF Good
<1>2. PICK n \in Nat \ {0} : t.offsets = OffsetsOf(n) /\ BlocksFor(n) <= BlockCounts[Target]
  BY <1>1 DEF GoodBody
<1>3. FirstBlockIndex(t.offsets[Target]) = b
  <2> DEFINE at == t.offsets[Target]
             m == LengthOf(n, Target)
  <2>1. Target \in 1 .. Len(Lengths)
    BY Widths
  <2>2. b \in Nat /\ m \in Nat /\ b + BlocksFor(m) <= NumBlocks /\ at.offset = BlockSize * b /\ at.length = m
    BY <1>2, <2>1, ChunkFits
  <2> HIDE DEF at, m, b
  <2>3. FirstBlockIndex(at) = b
    BY <2>2, RangeOf
  <2> QED BY <2>3 DEF at
<1>4. b + 1 \in 1 .. NumBlocks /\ b \in Nat
  BY TargetFacts
<1>5. Shipped(s, b + 1).offset = (b + 1 - 1) * PackedSize
      /\ Shipped(s, b + 1).offset + PackedSize <= PartitionSize
  BY <1>4, ShippedPlaces
<1>6. b + 1 - 1 = b
  BY <1>4
<1>7. Start \in Nat /\ Start < PartitionSize /\ Shipped(s, b + 1).offset = Start
  <2>1. Shipped(s, b + 1).offset = Start
    BY <1>5, <1>6 DEF Start
  <2>2. Start \in Nat /\ PackedSize \in Nat \ {0} /\ PartitionSize \in Nat
    BY <1>4, Sizes, Widths DEF Start
  <2> HIDE DEF b
  <2>3. Start + PackedSize <= PartitionSize
    BY <1>5, <2>1
  <2> QED BY <2>1, <2>2, <2>3
<1>8. TargetBlock(t) = Start
  <2>1. t.blocks[b + 1].offset = Shipped(s, b + 1).offset
    BY <1>1 DEF GoodBody, GoodBlocks
  <2> QED BY <1>3, <1>7, <2>1 DEF TargetBlock
<1>9. t.header.partitionSize = z /\ t.header.partitions = 1
  BY <1>1 DEF HeaderOf
<1>10. z \in Nat \ {0} /\ PartitionSize <= z /\ PartitionSize \in Nat
  BY SizeKnown, Widths
<1> HIDE DEF z
<1>11. Start \div z = 0 /\ Start % z = Start
  <2>1. Start \in 0 .. z - 1
    BY <1>7, <1>10
  <2>2. Start = z * 0 + Start /\ 0 \in Int
    BY <1>7, <1>10
  <2> QED BY <1>10, <2>1, <2>2, DivUnique
<1>12. (t.header.partitions - 1) * t.header.partitionSize = 0
  BY <1>9, <1>10
<1> QED BY <1>3, <1>7, <1>8, <1>9, <1>11, <1>12

LEMMA PatchedIsGood ==
  ASSUME NEW s \in Shipments, s.parts = 1, NEW t, Good(t, s, "patch"),
         NEW n \in PatchedLengths, NEW sizes \in [1 .. BlocksFor(n) -> PackedSizes]
  PROVE  LET u == PatchedToc(t, n, sizes)
         IN /\ Good(u, s, "patch") /\ u.ids = t.ids /\ u.offsets = OffsetsOf(n)
            /\ Placement(t, n, sizes) = FoundAt(u.blocks, s, BlocksBefore(Target), n)
<1> DEFINE b == BlocksBefore(Target)
           c == BlocksFor(n)
           N == NumBlocks
           z == KnownSize(s)
           pos(i) == Position(Start, sizes, i)
           entry(i) == [offset |-> pos(i), csize |-> sizes[i], usize |-> Unpacked(n, i), method |-> 1]
           nb == [k \in 1 .. N |-> IF k - b \in 1 .. c THEN entry(k - b) ELSE t.blocks[k]]
           no == [t.offsets EXCEPT ![Target] = [offset |-> t.offsets[Target].offset, length |-> n]]
           v == [t EXCEPT !.blocks = nb]
           u == [v EXCEPT !.offsets = no]
<1>1. /\ IsToc(t) /\ GoodBody(t, s, "patch") /\ t.header = HeaderOf(s, t.header.version)
      /\ t.header.version \in {s.version, Latest} /\ t.methods \in {Two, Three}
  BY DEF Good
<1>2. /\ FirstBlockIndex(t.offsets[Target]) = b
      /\ TargetBlock(t) \div t.header.partitionSize = 0
      /\ TargetBlock(t) % t.header.partitionSize = Start
      /\ (t.header.partitions - 1) * t.header.partitionSize = 0
      /\ Start \in Nat
  BY TargetFound
<1>3. n \in Nat \ {0} /\ c <= BlockCounts[Target]
  BY TocAssumption DEF TocAssumption
<1>4. c \in Nat /\ c > 0
  BY <1>3, BlocksForLength
<1>5. DOMAIN sizes = 1 .. c
  OBVIOUS
<1>6. \A i \in 1 .. c : /\ pos(i) \in Nat /\ sizes[i] \in 1 .. SizeLimit - 1
                        /\ pos(i) + sizes[i] <= PartitionSize
  BY NewPlaces
<1>7. pos(1) = Start
  BY NewPlaces
<1>8. \A i : NewPosition(t, sizes, i) = pos(i)
  BY <1>2 DEF NewPosition
<1>9. /\ PartitionSize \in Nat \ {0} /\ 2 * PartitionSize <= OffsetLimit /\ SizeLimit \in Nat
      /\ OffsetLimit \in Nat /\ z \in Nat \ {0} /\ PartitionSize <= z
  BY Widths, Sizes, SizeKnown
<1>10. \A i \in 1 .. c : Unpacked(n, i) \in 0 .. SizeLimit - 1
  BY <1>3, UnpackedSize
<1>11. GoodBlocks(t.blocks, s, "patch")
  BY <1>1 DEF GoodBody
<1>12. t.blocks \in [1 .. N -> BlockEntry]
  BY <1>11 DEF GoodBlocks
<1>13. ASSUME NEW i \in 1 .. c
       PROVE  /\ PatchedEntry(NewPosition(t, sizes, i) + (t.header.partitions - 1) * t.header.partitionSize,
                              sizes[i], Unpacked(n, i)) = entry(i)
              /\ entry(i) \in BlockEntry
  <2> DEFINE o == pos(i)
             x == sizes[i]
             y == Unpacked(n, i)
  <2>1. o \in Nat /\ x \in 1 .. SizeLimit - 1 /\ o + x <= PartitionSize /\ y \in 0 .. SizeLimit - 1
    BY <1>6, <1>10
  <2>2. NewPosition(t, sizes, i) + (t.header.partitions - 1) * t.header.partitionSize = o
    BY <1>2, <1>8, <2>1
  <2>3. entry(i) = [offset |-> o, csize |-> x, usize |-> y, method |-> 1]
    OBVIOUS
  <2> HIDE DEF o, x, y, pos
  <2>4. o \in 0 .. OffsetLimit - 1
    BY <1>9, <2>1
  <2>5. PatchedEntry(o, x, y) = [offset |-> o, csize |-> x, usize |-> y, method |-> 1]
    BY <2>1, <2>4, EntryStored
  <2>6. [offset |-> o, csize |-> x, usize |-> y, method |-> 1] \in BlockEntry
    <3>1. x \in Nat \ {0} /\ y \in Nat /\ o \in Nat /\ 1 \in {1, 2}
      BY <1>9, <2>1
    <3> QED BY <3>1 DEF BlockEntry
  <2>7. PatchedEntry(NewPosition(t, sizes, i) + (t.header.partitions - 1) * t.header.partitionSize,
                     x, y) = PatchedEntry(o, x, y)
    BY <2>2
  <2> QED BY <2>3, <2>5, <2>6, <2>7 DEF x, y
<1>14. PatchedToc(t, n, sizes) = u
  <2> DEFINE before == (t.header.partitions - 1) * t.header.partitionSize
             pb == [k \in DOMAIN t.blocks |->
                      IF k - b \in DOMAIN sizes
                      THEN PatchedEntry(NewPosition(t, sizes, k - b) + before,
                                        sizes[k - b], Unpacked(n, k - b))
                      ELSE t.blocks[k]]
  <2>1. PatchedToc(t, n, sizes) = [[t EXCEPT !.blocks = pb] EXCEPT !.offsets = 
           [[t EXCEPT !.blocks = pb].offsets EXCEPT ![Target] =
              [offset |-> t.offsets[Target].offset, length |-> n]]]
    BY <1>2 DEF PatchedToc
  <2>2. pb = nb
    <3>1. DOMAIN t.blocks = 1 .. N
      BY <1>12
    <3>2. \A k \in 1 .. N : k - b \in 1 .. c =>
            PatchedEntry(NewPosition(t, sizes, k - b) + before, sizes[k - b], Unpacked(n, k - b))
              = entry(k - b)
      BY <1>13
    <3> HIDE DEF before, entry
    <3> QED BY <1>5, <3>1, <3>2
  <2> HIDE DEF pb, nb
  <2>3. v.offsets = t.offsets
    BY <1>1, BlocksField
  <2> QED BY <2>1, <2>2, <2>3
<1>15. nb \in [1 .. N -> BlockEntry]
  <2>1. \A i \in 1 .. c : entry(i) \in BlockEntry
    BY <1>13
  <2> HIDE DEF entry, c, b
  <2> QED BY <1>12, <2>1
<1>16. \A k \in 1 .. N : nb[k] = IF k - b \in 1 .. c THEN entry(k - b) ELSE t.blocks[k]
  OBVIOUS
<1>17. /\ b \in Nat /\ N \in Nat /\ BlockCounts[Target] \in Nat /\ b + BlockCounts[Target] <= N
  BY TargetFacts
<1> HIDE DEF nb, pos
<1>18. GoodBlocks(nb, s, "patch")
  <2>1. \A k \in 1 .. N : k \notin Span => t.blocks[k] = Shipped(s, k)
    BY <1>11 DEF GoodBlocks
  <2>2. \A k \in 1 .. N : t.blocks[k].offset + t.blocks[k].csize <= PartitionSize
    BY <1>11 DEF GoodBlocks
  <2>3. ASSUME NEW k \in 1 .. N, k \notin Span PROVE nb[k] = Shipped(s, k)
    <3>1. k - b \notin 1 .. c
      <4> SUFFICES ASSUME k - b \in 1 .. c PROVE FALSE
        OBVIOUS
      <4> HIDE DEF b, c, N
      <4>1. k \in b + 1 .. b + BlockCounts[Target]
        BY <1>3, <1>4, <1>17
      <4> QED BY <2>3, <4>1 DEF Span, b
    <3> QED BY <1>16, <2>1, <2>3, <3>1
  <2>4. ASSUME NEW k \in 1 .. N PROVE nb[k].offset + nb[k].csize <= PartitionSize
    <3>1. CASE k - b \in 1 .. c
      <4>1. nb[k] = entry(k - b)
        BY <1>16, <3>1
      <4>2. nb[k].offset = pos(k - b) /\ nb[k].csize = sizes[k - b]
        BY <4>1
      <4>3. pos(k - b) + sizes[k - b] <= PartitionSize
        BY <1>6, <3>1
      <4> QED BY <4>2, <4>3
    <3>2. CASE k - b \notin 1 .. c
      BY <1>16, <2>2, <3>2
    <3> QED BY <3>1, <3>2
  <2>5. nb[b + 1].offset = Shipped(s, b + 1).offset
    <3>1. b + 1 \in 1 .. N /\ (b + 1) - b = 1 /\ 1 \in 1 .. c
      <4> HIDE DEF c
      <4> QED BY <1>4, TargetFacts
    <3>2. nb[b + 1] = entry(1)
      BY <1>16, <3>1
    <3>3. nb[b + 1].offset = Start
      BY <1>7, <3>2
    <3>4. Shipped(s, b + 1).offset = Start
      <4>1. TargetBlock(t) = Start /\ FirstBlockIndex(t.offsets[Target]) = b
        BY TargetFound
      <4>2. t.blocks[b + 1].offset = Shipped(s, b + 1).offset
        BY <1>11 DEF GoodBlocks
      <4> QED BY <4>1, <4>2 DEF TargetBlock
    <3> QED BY <3>3, <3>4
  <2> QED BY <1>15, <2>3, <2>4, <2>5 DEF GoodBlocks
<1>19. no = OffsetsOf(n)
  <2> DEFINE l == Len(Lengths)
  <2>1. PICK m \in Nat \ {0} : t.offsets = OffsetsOf(m)
    BY <1>1 DEF GoodBody
  <2>2. Target \in 1 .. l
    BY Widths
  <2> HIDE DEF l
  <2>3. t.offsets = [e \in 1 .. l |-> [offset |-> ShippedOffset(e), length |-> IF e = Target THEN m ELSE Lengths[e]]]
    BY <2>1 DEF OffsetsOf, l
  <2>4. t.offsets[Target].offset = ShippedOffset(Target)
    BY <2>2, <2>3
  <2>5. no = [e \in 1 .. l |-> IF e = Target THEN [offset |-> ShippedOffset(Target), length |-> n] ELSE t.offsets[e]]
    BY <2>2, <2>3, <2>4
  <2>6. ASSUME NEW e \in 1 .. l
        PROVE  (IF e = Target THEN [offset |-> ShippedOffset(Target), length |-> n] ELSE t.offsets[e])
                 = [offset |-> ShippedOffset(e), length |-> IF e = Target THEN n ELSE Lengths[e]]
    BY <2>3
  <2>7. no = [e \in 1 .. l |-> [offset |-> ShippedOffset(e), length |-> IF e = Target THEN n ELSE Lengths[e]]]
    BY <2>5, <2>6
  <2> QED BY <2>7 DEF OffsetsOf, l
<1> HIDE DEF no
<1>20. /\ IsToc(v) /\ v.blocks = nb /\ v.header = t.header /\ v.ids = t.ids
       /\ v.offsets = t.offsets /\ v.seeds = t.seeds /\ v.overflow = t.overflow
       /\ v.methods = t.methods /\ v.tocSignature = t.tocSignature
       /\ v.blockSignature = t.blockSignature /\ v.chunkSignatures = t.chunkSignatures
       /\ v.directory = t.directory /\ v.metas = t.metas
  BY <1>1, BlocksField
<1> HIDE DEF v
<1>21. /\ IsToc(u) /\ u.offsets = no /\ u.header = v.header /\ u.ids = v.ids
       /\ u.blocks = v.blocks /\ u.seeds = v.seeds /\ u.overflow = v.overflow
       /\ u.methods = v.methods /\ u.tocSignature = v.tocSignature
       /\ u.blockSignature = v.blockSignature /\ u.chunkSignatures = v.chunkSignatures
       /\ u.directory = v.directory /\ u.metas = v.metas
  BY <1>20, OffsetsField
<1> HIDE DEF u
<1>22. GoodBody(u, s, "patch")
  <2>1. \E m \in Nat \ {0} : /\ u.offsets = OffsetsOf(m) /\ BlocksFor(m) <= BlockCounts[Target]
                             /\ "patch" = "hide" => m = Lengths[Target]
    BY <1>3, <1>19, <1>21
  <2>2. \E x \in BOOLEAN : t.ids = IdsOf(x) /\ (x => "patch" = "hide")
    BY <1>1 DEF GoodBody
  <2>3. \E x \in BOOLEAN : u.ids = IdsOf(x) /\ (x => "patch" = "hide")
    BY <1>20, <1>21, <2>2
  <2>4. GoodBlocks(u.blocks, s, "patch")
    BY <1>18, <1>20, <1>21
  <2>5. /\ t.seeds = ShippedToc(s).seeds /\ t.overflow = ShippedToc(s).overflow
        /\ t.tocSignature = ShippedToc(s).tocSignature
        /\ t.blockSignature = ShippedToc(s).blockSignature
        /\ t.chunkSignatures = ShippedToc(s).chunkSignatures
        /\ t.metas = ShippedToc(s).metas
        /\ t.directory \in Seq(Item) /\ Len(t.directory) = IF s.indexed THEN 1 ELSE 0
    BY <1>1 DEF GoodBody
  <2> QED BY <1>20, <1>21, <2>1, <2>3, <2>4, <2>5 DEF GoodBody
<1>23. Good(u, s, "patch")
  BY <1>1, <1>20, <1>21, <1>22 DEF Good
<1>24. Placement(t, n, sizes) = FoundAt(nb, s, b, n)
  <2> DEFINE seen(i) == [partition |-> 0, position |-> pos(i), csize |-> sizes[i],
                         usize |-> Unpacked(n, i), method |-> "Oodle"]
  <2>1. OpenedPartition(0) = 0
    BY DEF OpenedPartition
  <2>2. Placement(t, n, sizes) = [i \in 1 .. c |-> seen(i)]
    BY <1>2, <1>5, <1>8, <2>1 DEF Placement
  <2>3. ASSUME NEW i \in 1 .. c PROVE Where(nb[b + i], z) = seen(i)
    <3>1. b + i \in 1 .. N /\ (b + i) - b = i
      <4> HIDE DEF b, c, N
      <4> QED BY <1>3, <1>4, <1>17
    <3>2. nb[b + i] = entry(i)
      BY <1>16, <3>1
    <3> DEFINE o == pos(i)
    <3>3. o \in Nat /\ sizes[i] \in 1 .. SizeLimit - 1 /\ o + sizes[i] <= PartitionSize
      BY <1>6
    <3> HIDE DEF o, z
    <3>4. o \in 0 .. z - 1
      BY <1>9, <3>3
    <3>6. o \div z = 0 /\ o % z = o
      <4>1. z \in Nat \ {0}
        BY <1>9
      <4> QED BY <3>4, <4>1, SmallDiv
    <3>7. Three[1 + 1] = "Oodle"
      <4>1. 1 + 1 = 2 /\ Three[2] = "Oodle"
        BY DEF Three
      <4> QED BY <4>1
    <3>8. /\ nb[b + i].offset = o /\ nb[b + i].csize = sizes[i] /\ nb[b + i].usize = Unpacked(n, i)
          /\ nb[b + i].method = 1
      BY <3>2 DEF o
    <3> QED BY <3>6, <3>7, <3>8 DEF Where, o
  <2> HIDE DEF seen
  <2>4. FoundAt(nb, s, b, n) = [i \in 1 .. c |-> Where(nb[b + i], z)]
    BY DEF FoundAt
  <2> QED BY <2>2, <2>3, <2>4
<1> QED BY <1>14, <1>19, <1>20, <1>21, <1>23, <1>24

-----------------------------------------------------------------------------
(* What a reader finds in a rewritten file.                                *)

LEMMA OtherBlocks ==
  ASSUME NEW e \in 1 .. Len(Lengths), e # Target, NEW i \in 1 .. BlocksFor(Lengths[e])
  PROVE  BlocksBefore(e) + i \in 1 .. NumBlocks /\ BlocksBefore(e) + i \notin Span
<1> DEFINE a == BlocksBefore(e)
           b == BlocksBefore(Target)
           m == BlockCounts[e]
           n == BlockCounts[Target]
           N == NumBlocks
<1>1. e \in Entries /\ Target \in Entries /\ e \in Int /\ Target \in Int
  BY Widths
<1>2. /\ a \in Nat /\ m \in Nat /\ N \in Nat /\ a + m <= N /\ (e < Target => a + m <= b)
  BY <1>1, BlocksOf
<1>3. b \in Nat /\ n \in Nat /\ (Target < e => b + n <= a)
  BY <1>1, BlocksOf
<1>4. m = BlocksFor(Lengths[e])
  BY <1>1, BlockCountsType
<1> HIDE DEF a, b, m, n, N
<1>5. i \in 1 .. m
  BY <1>4
<1>6. e < Target \/ Target < e
  BY <1>1
<1>7. a + i \in 1 .. N /\ a + i \notin b + 1 .. b + n
  BY <1>2, <1>3, <1>5, <1>6
<1> QED BY <1>7 DEF Span, a, b, n, N

GameFile(s) == FileOf(ShippedToc(s))

LEMMA ShippedFound ==
  ASSUME NEW s \in Shipments, NEW r, Swapped(s, r), Readable(GameFile(s))
  PROVE  Assets(GameFile(s)) =
           [c \in 1 .. Len(Lengths) |->
              FoundAt([k \in 1 .. NumBlocks |-> Shipped(s, k)], s, BlocksBefore(c), Lengths[c])]
<1> DEFINE file == GameFile(s)
           u == Read(file)
           l == Len(Lengths)
           n == Lengths[Target]
           q == [k \in 1 .. NumBlocks |-> Shipped(s, k)]
<1>1. /\ Good(u, s, r) /\ u.methods = Three /\ u.ids = IdsOf(FALSE) /\ u.offsets = OffsetsOf(n)
      /\ u.blocks = q
  BY ShippedIsGood DEF GameFile
<1>2. n \in Nat /\ BlocksFor(n) <= BlockCounts[Target]
  <2>1. Target \in Entries
    BY Widths
  <2>2. n \in Nat /\ BlockCounts[Target] = BlocksFor(n)
    BY <2>1, BlockCountsType
  <2>3. BlocksFor(n) \in Nat
    BY <2>2, BlocksForLength
  <2> QED BY <2>2, <2>3
<1> HIDE DEF u, file, q
<1>3. Assets(file) = [c \in Visible(FALSE) |-> BlocksAt(u, u.offsets[c])]
  <2> DEFINE x == FALSE
  <2>1. x \in BOOLEAN /\ u = Read(file) /\ Readable(file) /\ u.ids = IdsOf(x)
    BY <1>1 DEF u, file
  <2> HIDE DEF x
  <2>2. Assets(file) = [c \in Visible(x) |-> BlocksAt(u, u.offsets[c])]
    BY <2>1, AssetsAre
  <2> QED BY <2>2 DEF x
<1>4. Visible(FALSE) = 1 .. l
  BY DEF Visible
<1>5. ASSUME NEW c \in 1 .. l
      PROVE  BlocksAt(u, u.offsets[c]) = FoundAt(q, s, BlocksBefore(c), Lengths[c])
  <2>1. BlocksAt(u, u.offsets[c]) = FoundAt(u.blocks, s, BlocksBefore(c), LengthOf(n, c))
    BY <1>1, <1>2, BlocksFound
  <2>2. LengthOf(n, c) = Lengths[c]
    BY DEF LengthOf
  <2> QED BY <1>1, <2>1, <2>2
<1>6. Assets(file) = [c \in 1 .. l |-> FoundAt(q, s, BlocksBefore(c), Lengths[c])]
  BY <1>3, <1>4, <1>5
<1> QED BY <1>6 DEF file, q

LEMMA FoundAfter ==
  ASSUME NEW s \in Shipments, NEW r, Swapped(s, r), Readable(GameFile(s)),
         NEW file, Readable(file), NEW u, u = Read(file), Good(u, s, r), u.methods = Three,
         NEW x \in BOOLEAN, u.ids = IdsOf(x),
         NEW n \in Nat, u.offsets = OffsetsOf(n), BlocksFor(n) <= BlockCounts[Target]
  PROVE  LET shippedOnes == Assets(GameFile(s))
         IN /\ DOMAIN shippedOnes = 1 .. Len(Lengths)
            /\ Assets(file) =
                 [c \in Visible(x) |->
                    IF c = Target THEN FoundAt(u.blocks, s, BlocksBefore(Target), n)
                    ELSE shippedOnes[c]]
<1> DEFINE F == Assets(GameFile(s))
           l == Len(Lengths)
           q == [k \in 1 .. NumBlocks |-> Shipped(s, k)]
<1>1. F = [c \in 1 .. l |-> FoundAt(q, s, BlocksBefore(c), Lengths[c])]
  BY ShippedFound
<1>2. Assets(file) = [c \in Visible(x) |-> BlocksAt(u, u.offsets[c])]
  BY AssetsAre
<1>3. Visible(x) \subseteq 1 .. l
  BY DEF Visible
<1>4. \A c \in 1 .. l : BlocksAt(u, u.offsets[c]) = FoundAt(u.blocks, s, BlocksBefore(c), LengthOf(n, c))
  BY BlocksFound
<1>5. GoodBlocks(u.blocks, s, r)
  BY DEF Good, GoodBody
<1>6. ASSUME NEW c \in 1 .. l, c # Target
      PROVE  FoundAt(u.blocks, s, BlocksBefore(c), LengthOf(n, c)) = F[c]
  <2> DEFINE b == BlocksBefore(c)
             m == Lengths[c]
  <2>1. LengthOf(n, c) = m
    BY <1>6 DEF LengthOf
  <2>2. F[c] = FoundAt(q, s, b, m)
    BY <1>1
  <2>3. \A i \in 1 .. BlocksFor(m) : b + i \in 1 .. NumBlocks /\ b + i \notin Span
    BY <1>6, OtherBlocks
  <2>4. \A k \in 1 .. NumBlocks : k \notin Span => u.blocks[k] = Shipped(s, k)
    BY <1>5 DEF GoodBlocks
  <2> HIDE DEF b, m, F
  <2>5. \A i \in 1 .. BlocksFor(m) : u.blocks[b + i] = q[b + i]
    BY <2>3, <2>4
  <2> HIDE DEF q
  <2>6. FoundAt(u.blocks, s, b, m) = FoundAt(q, s, b, m)
    BY <2>5 DEF FoundAt
  <2> QED BY <2>1, <2>2, <2>6 DEF b
<1>7. LengthOf(n, Target) = n
  BY DEF LengthOf
<1>8. DOMAIN F = 1 .. l
  BY <1>1
<1> HIDE DEF F, l
<1>9. Assets(file) =
        [c \in Visible(x) |->
           IF c = Target THEN FoundAt(u.blocks, s, BlocksBefore(Target), n) ELSE F[c]]
  <2>1. ASSUME NEW c \in Visible(x)
        PROVE  BlocksAt(u, u.offsets[c]) =
                 IF c = Target THEN FoundAt(u.blocks, s, BlocksBefore(Target), n) ELSE F[c]
    <3>1. c \in 1 .. l
      BY <1>3
    <3> QED BY <1>4, <1>6, <1>7, <3>1
  <2> QED BY <1>2, <2>1
<1> QED BY <1>8, <1>9 DEF F, l

-----------------------------------------------------------------------------
(***************************************************************************)
(* The inductive invariant: there is a shipment the shipped file is made   *)
(* of, and every table in memory and in the installation is good for it.   *)
(***************************************************************************)

\* What Install will install is what the last edit was for.
EditFor(s) ==
  /\ role = "patch" =>
       \E n \in Nat : /\ edited.offsets = OffsetsOf(n) /\ BlocksFor(n) <= BlockCounts[Target]
                      /\ placed = FoundAt(edited.blocks, s, BlocksBefore(Target), n)
  /\ role = "hide" => edited.ids = IdsOf(TRUE)

FilesOf(s) ==
  /\ shipped.file = GameFile(s) /\ shipped.found = Assets(shipped.file)
  /\ found = Assets(utoc)
  /\ Readable(shipped.file) => /\ Readable(utoc) /\ Good(Read(utoc), s, role)
                               /\ Read(utoc).methods = Three
  /\ ~Readable(shipped.file) => utoc = shipped.file /\ pc \in {"down", "refused"}

TablesOf(s) ==
  /\ pc \in {"down", "refused"} => Toc = NoToc
  /\ pc \in {"mounted", "edited", "aliased"} => Good(Toc, s, role)
  /\ pc = "edited" => Good(edited, s, role) /\ EditFor(s)

About(s) ==
  /\ pc \in {"down", "refused", "mounted", "edited", "aliased"}
  /\ Swapped(s, role) /\ FilesOf(s) /\ TablesOf(s)

TocInv == \E s \in Shipments : About(s)

LEMMA InitTocInv ==
  ASSUME Init
  PROVE  TocInv /\ Table!AInit
<1>1. /\ role \in {"patch", "hide"} /\ utoc = shipped.file /\ found = shipped.found
      /\ pc = "down" /\ Toc = NoToc
  BY DEF Init
<1>2. PICK s \in Shipments, tree \in Trees :
        /\ s.parts = 2 => role = "hide"
        /\ shipped = [file |-> GameFile(s), tree |-> tree, found |-> Assets(GameFile(s))]
  BY DEF Init, GameFile
<1>3. Swapped(s, role)
  BY <1>1, <1>2 DEF Swapped
<1>4. shipped.file = GameFile(s) /\ shipped.found = Assets(shipped.file)
  BY <1>2
<1>5. Good(Read(GameFile(s)), s, role) /\ Read(GameFile(s)).methods = Three
  BY <1>3, ShippedIsGood DEF GameFile
<1>6. FilesOf(s)
  BY <1>1, <1>4, <1>5 DEF FilesOf
<1>7. TablesOf(s)
  BY <1>1 DEF TablesOf
<1>8. TocInv
  BY <1>1, <1>3, <1>6, <1>7 DEF About, TocInv
<1> QED BY <1>1, <1>8 DEF Table!AInit

LEMMA RefuseKeeps ==
  ASSUME NEW s \in Shipments, About(s), Refuse
  PROVE  About(s)' /\ UNCHANGED Table!avars
<1>1. pc = "down" /\ pc' = "refused"
      /\ UNCHANGED <<role, shipped, utoc, found, Toc, edited, IndexToFileName, placed, writes>>
  BY DEF Refuse
<1>2. FilesOf(s)'
  BY <1>1 DEF About, FilesOf
<1>3. TablesOf(s)'
  BY <1>1 DEF About, TablesOf
<1>4. Swapped(s, role)'
  BY <1>1 DEF About
<1> QED BY <1>1, <1>2, <1>3, <1>4 DEF About, Table!avars

LEMMA MountKeeps ==
  ASSUME NEW s \in Shipments, About(s), Mount
  PROVE  About(s)' /\ UNCHANGED Table!avars
<1>1. /\ pc = "down" /\ pc' = "mounted" /\ Readable(utoc) /\ Toc' = Decrypted(Read(utoc))
      /\ UNCHANGED <<role, shipped, utoc, found, edited, placed, writes>>
  BY DEF Mount
<1>2. Readable(shipped.file) /\ Good(Read(utoc), s, role)
  BY <1>1 DEF About, FilesOf
<1>3. Good(Toc', s, role')
  BY <1>1, <1>2, DecryptedIsGood
<1>4. FilesOf(s)'
  BY <1>1, <1>2 DEF About, FilesOf
<1>5. TablesOf(s)'
  BY <1>1, <1>3 DEF TablesOf
<1>6. Swapped(s, role)'
  BY <1>1 DEF About
<1> QED BY <1>1, <1>4, <1>5, <1>6 DEF About, Table!avars

LEMMA ExitKeeps ==
  ASSUME NEW s \in Shipments, About(s), Exit
  PROVE  About(s)' /\ UNCHANGED Table!avars
<1>1. /\ pc' = "down" /\ Toc' = NoToc
      /\ UNCHANGED <<role, shipped, utoc, found, placed, writes>>
  BY DEF Exit
<1>2. FilesOf(s)'
  BY <1>1 DEF About, FilesOf
<1>3. TablesOf(s)'
  BY <1>1 DEF TablesOf
<1>4. Swapped(s, role)'
  BY <1>1 DEF About
<1> QED BY <1>1, <1>2, <1>3, <1>4 DEF About, Table!avars

LEMMA PatchKeeps ==
  ASSUME NEW s \in Shipments, About(s), Patch
  PROVE  About(s)' /\ Table!Place
<1>1. pc = "mounted" /\ role = "patch"
  BY DEF Patch
<1>0. PICK n \in PatchedLengths :
        \E sizes \in [1 .. BlocksFor(n) -> PackedSizes] :
          placed' = Placement(Toc, n, sizes) /\ Edit(PatchedToc(Toc, n, sizes))
  BY DEF Patch
<1>2. PICK sizes \in [1 .. BlocksFor(n) -> PackedSizes] :
        placed' = Placement(Toc, n, sizes) /\ Edit(PatchedToc(Toc, n, sizes))
  BY <1>0
<1> DEFINE u == PatchedToc(Toc, n, sizes)
<1>3. /\ pc' = "edited" /\ edited' = u /\ Toc' = u
      /\ UNCHANGED <<role, shipped, utoc, found, IndexToFileName, writes>>
  BY <1>1, <1>2 DEF Edit
<1>4. Good(Toc, s, "patch") /\ s.parts = 1
  <2>1. Good(Toc, s, role) /\ Swapped(s, role)
    BY <1>1 DEF About, TablesOf
  <2>2. s.parts \in {1, 2}
    BY ShipmentType
  <2> QED BY <1>1, <2>1, <2>2 DEF Swapped
<1>5. /\ Good(u, s, "patch") /\ u.offsets = OffsetsOf(n)
      /\ placed' = FoundAt(u.blocks, s, BlocksBefore(Target), n)
  BY <1>2, <1>4, PatchedIsGood
<1>6. n \in Nat /\ BlocksFor(n) <= BlockCounts[Target]
  BY TocAssumption DEF TocAssumption
<1> HIDE DEF u
<1>7. Readable(shipped.file)
  BY <1>1 DEF About, FilesOf
<1>8. FilesOf(s)'
  BY <1>3, <1>7 DEF About, FilesOf
<1>9. TablesOf(s)'
  <2>1. role' = "patch" /\ edited'.offsets = OffsetsOf(n)
        /\ placed' = FoundAt(edited'.blocks, s, BlocksBefore(Target), n)
    BY <1>1, <1>3, <1>5
  <2>2. EditFor(s)'
    BY <1>6, <2>1 DEF EditFor
  <2>3. Good(Toc', s, role') /\ Good(edited', s, role')
    BY <1>3, <1>5, <2>1
  <2> QED BY <1>3, <2>2, <2>3 DEF TablesOf
<1>10. Swapped(s, role)'
  BY <1>3 DEF About
<1> QED BY <1>3, <1>8, <1>9, <1>10 DEF About, Table!Place

LEMMA HideKeeps ==
  ASSUME NEW s \in Shipments, About(s), Hide
  PROVE  About(s)' /\ UNCHANGED Table!avars
<1> DEFINE u == HiddenToc(Toc)
<1>1. /\ pc = "mounted" /\ role = "hide" /\ pc' = "edited" /\ edited' = u /\ Toc' = Toc
      /\ UNCHANGED <<role, shipped, utoc, found, IndexToFileName, writes, placed>>
  BY DEF Hide, Edit
<1>2. Good(Toc, s, "hide")
  BY <1>1 DEF About, TablesOf
<1>3. Good(u, s, "hide") /\ u.ids = IdsOf(TRUE)
  BY <1>2, HiddenIsGood
<1> HIDE DEF u
<1>4. Readable(shipped.file)
  BY <1>1 DEF About, FilesOf
<1>5. FilesOf(s)'
  BY <1>1, <1>4 DEF About, FilesOf
<1>6. TablesOf(s)'
  <2>1. role' = "hide" /\ edited'.ids = IdsOf(TRUE)
    BY <1>1, <1>3
  <2>2. EditFor(s)'
    BY <2>1 DEF EditFor
  <2>3. Good(Toc', s, role') /\ Good(edited', s, role')
    BY <1>1, <1>2, <1>3
  <2> QED BY <1>1, <2>2, <2>3 DEF TablesOf
<1>7. Swapped(s, role)'
  BY <1>1 DEF About
<1> QED BY <1>1, <1>5, <1>6, <1>7 DEF About, Table!avars

\* The resource a write leaves in memory.
LEMMA WrittenTables ==
  ASSUME NEW s \in Shipments, About(s), Written, pc' \in {"mounted", "aliased"}
  PROVE  TablesOf(s)'
<1>1. /\ pc = "edited" /\ edited' = Rebuilt(edited)
      /\ Toc' = (IF role = "patch" THEN edited' ELSE Toc) /\ role' = role
  BY DEF Written
<1>2. Good(edited, s, role) /\ Good(Toc, s, role) /\ Swapped(s, role)
  BY <1>1 DEF About, TablesOf
<1>3. Good(edited', s, role)
  BY <1>1, <1>2, RebuiltIsGood
<1>4. Good(Toc', s, role')
  BY <1>1, <1>2, <1>3
<1> QED BY <1>4 DEF TablesOf

LEMMA WriteFailsKeeps ==
  ASSUME NEW s \in Shipments, About(s), WriteFails
  PROVE  About(s)' /\ UNCHANGED Table!avars
<1>1. /\ Written /\ pc = "edited" /\ pc' = "mounted"
      /\ UNCHANGED <<role, shipped, utoc, found, placed>>
  BY DEF WriteFails, Written
<1>2. Readable(shipped.file)
  BY <1>1 DEF About, FilesOf
<1>3. FilesOf(s)'
  BY <1>1, <1>2 DEF About, FilesOf
<1>4. TablesOf(s)'
  BY <1>1, WrittenTables
<1>5. Swapped(s, role)'
  BY <1>1 DEF About
<1> QED BY <1>1, <1>3, <1>4, <1>5 DEF About, Table!avars

LEMMA InstallKeeps ==
  ASSUME NEW s \in Shipments, About(s), Install
  PROVE  About(s)' /\ (Table!Install \/ Table!Conceal)
<1>1. /\ Written /\ pc = "edited" /\ pc' \in {"mounted", "aliased"}
      /\ utoc' = FileOf(Rebuilt(edited)) /\ found' = Assets(utoc')
      /\ UNCHANGED <<role, shipped, placed>>
  BY DEF Install, Written
<1>2. /\ Readable(shipped.file) /\ shipped.file = GameFile(s)
      /\ shipped.found = Assets(shipped.file)
  BY <1>1 DEF About, FilesOf
<1>3. Good(edited, s, role) /\ EditFor(s) /\ Swapped(s, role)
  BY <1>1 DEF About, TablesOf
<1> DEFINE u == Read(utoc')
<1>4. /\ Readable(utoc') /\ Good(u, s, role) /\ u.methods = Three
      /\ u.ids = edited.ids /\ u.offsets = edited.offsets /\ u.blocks = edited.blocks
  BY <1>1, <1>3, WrittenIsGood
<1>5. FilesOf(s)'
  BY <1>1, <1>2, <1>4 DEF FilesOf
<1>6. TablesOf(s)'
  BY <1>1, WrittenTables
<1>7. Swapped(s, role)'
  BY <1>1, <1>3
<1>8. About(s)'
  BY <1>1, <1>5, <1>6, <1>7 DEF About
<1> HIDE DEF u
<1>9. u = Read(utoc')
  BY DEF u
<1>10. PICK x \in BOOLEAN : u.ids = IdsOf(x) /\ (x => role = "hide")
  BY <1>4 DEF Good, GoodBody
<1>11. CASE role = "patch"
  <2>1. PICK n \in Nat : /\ edited.offsets = OffsetsOf(n) /\ BlocksFor(n) <= BlockCounts[Target]
                         /\ placed = FoundAt(edited.blocks, s, BlocksBefore(Target), n)
    BY <1>3, <1>11 DEF EditFor
  <2>2. /\ DOMAIN shipped.found = 1 .. Len(Lengths)
        /\ found' = [c \in Visible(x) |->
                       IF c = Target THEN FoundAt(u.blocks, s, BlocksBefore(Target), n)
                       ELSE shipped.found[c]]
    BY <1>1, <1>2, <1>3, <1>4, <1>9, <1>10, <2>1, FoundAfter
  <2>3. Visible(x) = 1 .. Len(Lengths)
    BY <1>10, <1>11 DEF Visible
  <2>4. FoundAt(u.blocks, s, BlocksBefore(Target), n) = placed
    BY <1>4, <2>1
  <2>5. found' = [c \in DOMAIN shipped.found |-> IF c = Target THEN placed ELSE shipped.found[c]]
    BY <2>2, <2>3, <2>4
  <2> QED BY <1>1, <1>8, <2>5 DEF Table!Install
<1>12. CASE role = "hide"
  <2>1. PICK n \in Nat : u.offsets = OffsetsOf(n) /\ BlocksFor(n) <= BlockCounts[Target]
    BY <1>4 DEF Good, GoodBody
  <2> DEFINE y == TRUE
  <2>2. u.ids = IdsOf(y) /\ y \in BOOLEAN
    BY <1>3, <1>4, <1>12 DEF EditFor
  <2>3. Visible(y) = 1 .. Len(Lengths) \ {Target}
    BY DEF Visible
  <2> HIDE DEF y
  <2>4. /\ DOMAIN shipped.found = 1 .. Len(Lengths)
        /\ found' = [c \in Visible(y) |->
                       IF c = Target THEN FoundAt(u.blocks, s, BlocksBefore(Target), n)
                       ELSE shipped.found[c]]
    BY <1>1, <1>2, <1>3, <1>4, <1>9, <2>1, <2>2, FoundAfter
  <2>5. found' = [c \in DOMAIN shipped.found \ {Target} |-> shipped.found[c]]
    BY <2>3, <2>4
  <2> QED BY <1>1, <1>8, <2>5 DEF Table!Conceal
<1>13. role = "patch" \/ role = "hide"
  BY <1>3 DEF Swapped
<1> QED BY <1>11, <1>12, <1>13

LEMMA RevertKeeps ==
  ASSUME NEW s \in Shipments, About(s), Revert
  PROVE  About(s)' /\ Table!Restore
<1>1. /\ pc \in {"mounted", "aliased"} /\ utoc' = shipped.file /\ found' = shipped.found
      /\ UNCHANGED <<role, shipped, pc, Toc, edited, IndexToFileName, placed, writes>>
  BY DEF Revert
<1>2. /\ Readable(shipped.file) /\ shipped.file = GameFile(s)
      /\ shipped.found = Assets(shipped.file)
  BY <1>1 DEF About, FilesOf
<1>3. Swapped(s, role)
  BY DEF About
<1>4. Good(Read(GameFile(s)), s, role) /\ Read(GameFile(s)).methods = Three
  BY <1>3, ShippedIsGood DEF GameFile
<1>5. FilesOf(s)'
  BY <1>1, <1>2, <1>4 DEF FilesOf
<1>6. TablesOf(s)'
  BY <1>1 DEF About, TablesOf
<1>7. Swapped(s, role)'
  BY <1>1, <1>3
<1> QED BY <1>1, <1>5, <1>6, <1>7 DEF About, Table!Restore

LEMMA NextKeeps ==
  ASSUME TocInv, [Next]_vars
  PROVE  TocInv' /\ (Table!ANext \/ UNCHANGED Table!avars)
<1>1. PICK s \in Shipments : About(s)
  BY DEF TocInv
<1>2. About(s)' /\ (Table!ANext \/ UNCHANGED Table!avars)
  <2>1. CASE Refuse
    BY <1>1, <2>1, RefuseKeeps
  <2>2. CASE Mount
    BY <1>1, <2>2, MountKeeps
  <2>3. CASE Exit
    BY <1>1, <2>3, ExitKeeps
  <2>4. CASE Patch
    BY <1>1, <2>4, PatchKeeps DEF Table!ANext
  <2>5. CASE Hide
    BY <1>1, <2>5, HideKeeps
  <2>6. CASE Install
    BY <1>1, <2>6, InstallKeeps DEF Table!ANext
  <2>7. CASE WriteFails
    BY <1>1, <2>7, WriteFailsKeeps
  <2>8. CASE Revert
    BY <1>1, <2>8, RevertKeeps DEF Table!ANext
  <2>9. CASE UNCHANGED vars
    <3>1. UNCHANGED <<role, shipped, utoc, pc, Toc, edited, found, placed>>
      BY <2>9 DEF vars
    <3>2. FilesOf(s)'
      BY <1>1, <3>1 DEF About, FilesOf
    <3>3. TablesOf(s)'
      BY <1>1, <3>1 DEF About, TablesOf, EditFor
    <3>4. pc' \in {"down", "refused", "mounted", "edited", "aliased"} /\ Swapped(s, role)'
      BY <1>1, <3>1 DEF About
    <3> QED BY <3>1, <3>2, <3>3, <3>4 DEF About, Table!avars
  <2> QED BY <2>1, <2>2, <2>3, <2>4, <2>5, <2>6, <2>7, <2>8, <2>9 DEF Next
<1> QED BY <1>2 DEF TocInv

\* In every reachable state the tables in memory and the installed file are the
\* shipped one but for the target's id, length and blocks (FIoStoreTocResource's
\* Read and Write, PatchFortnite's edits).
THEOREM TocInvariant == Spec => []TocInv
<1>1. Init => TocInv
  BY InitTocInv
<1>2. TocInv /\ [Next]_vars => TocInv'
  BY NextKeeps
<1> QED BY <1>1, <1>2, PTL DEF Spec

-----------------------------------------------------------------------------
(* What follows from it.                                                   *)

LEMMA InvRanges ==
  ASSUME TocInv
  PROVE  RangesAreRight
<1> SUFFICES ASSUME Toc # NoToc, NEW e \in DOMAIN Toc.offsets
             PROVE  LET at == Toc.offsets[e]
                    IN BlockRange(at) = {x \div BlockSize : x \in at.offset .. at.offset + at.length - 1}
  BY DEF RangesAreRight
<1>1. PICK s \in Shipments : About(s)
  BY DEF TocInv
<1>2. Good(Toc, s, role)
  BY <1>1 DEF About, TablesOf
<1>3. PICK n \in Nat : Toc.offsets = OffsetsOf(n) /\ BlocksFor(n) <= BlockCounts[Target]
  BY <1>2 DEF Good, GoodBody
<1>4. e \in 1 .. Len(Lengths)
  BY <1>3 DEF OffsetsOf
<1> DEFINE at == Toc.offsets[e]
           b == BlocksBefore(e)
           m == LengthOf(n, e)
<1>5. /\ b \in Nat /\ m \in Nat /\ b + BlocksFor(m) <= NumBlocks
      /\ at.offset = BlockSize * b /\ at.length = m
  BY <1>3, <1>4, ChunkFits
<1> HIDE DEF at, b, m
<1>6. BlockRange(at) = {x \div BlockSize : x \in at.offset .. at.offset + at.length - 1}
  BY <1>5, RangeIsRight
<1> QED BY <1>6 DEF at

LEMMA InvPartitions ==
  ASSUME TocInv
  PROVE  PartitionsAreRight
<1> SUFFICES ASSUME Readable(utoc)
             PROVE  LET t == Read(utoc)
                    IN {b.offset \div t.header.partitionSize : b \in ToSet(t.blocks)}
                         = 0 .. t.header.partitions - 1
  BY DEF PartitionsAreRight
<1>1. PICK s \in Shipments : About(s)
  BY DEF TocInv
<1> DEFINE t == Read(utoc)
<1>2. Good(t, s, role) /\ Swapped(s, role)
  BY <1>1 DEF About, FilesOf
<1> HIDE DEF t
<1>3. GoodBlocks(t.blocks, s, role) /\ t.header = HeaderOf(s, t.header.version)
  BY <1>2 DEF Good, GoodBody
<1>4. t.header.partitionSize = KnownSize(s) /\ t.header.partitions = s.parts
  BY <1>3 DEF HeaderOf
<1>5. {b.offset \div KnownSize(s) : b \in ToSet(t.blocks)} = 0 .. s.parts - 1
  BY <1>2, <1>3, PartitionsUsed
<1>6. {b.offset \div t.header.partitionSize : b \in ToSet(t.blocks)} = 0 .. t.header.partitions - 1
  BY <1>4, <1>5
<1> QED BY <1>6 DEF t

LEMMA InvRest ==
  ASSUME TocInv
  PROVE  RestIsKept
<1> SUFFICES ASSUME Readable(utoc)
             PROVE  LET Rest(t) == <<t.seeds, t.overflow, t.methods, t.tocSignature,
                                     t.blockSignature, t.chunkSignatures, t.metas>>
                    IN Rest(Read(utoc)) = Rest(Read(shipped.file))
  BY DEF RestIsKept
<1>1. PICK s \in Shipments : About(s)
  BY DEF TocInv
<1> DEFINE t == Read(utoc)
           u == Read(shipped.file)
           z == ShippedToc(s)
<1>2. Good(t, s, role) /\ t.methods = Three /\ Swapped(s, role) /\ shipped.file = GameFile(s)
  BY <1>1 DEF About, FilesOf
<1>3. Good(u, s, role) /\ u.methods = Three
  BY <1>2, ShippedIsGood DEF GameFile
<1> HIDE DEF t, u, z
<1>4. /\ t.seeds = z.seeds /\ t.overflow = z.overflow /\ t.tocSignature = z.tocSignature
      /\ t.blockSignature = z.blockSignature /\ t.chunkSignatures = z.chunkSignatures
      /\ t.metas = z.metas
  BY <1>2 DEF Good, GoodBody, z
<1>5. /\ u.seeds = z.seeds /\ u.overflow = z.overflow /\ u.tocSignature = z.tocSignature
      /\ u.blockSignature = z.blockSignature /\ u.chunkSignatures = z.chunkSignatures
      /\ u.metas = z.metas
  BY <1>3 DEF Good, GoodBody, z
<1> QED BY <1>2, <1>3, <1>4, <1>5 DEF t, u

\* The blocks computed for a chunk are those its bytes are in, and the header counts
\* the partitions there are, whatever was swapped, failed or restarted
\* (FIoStoreReader::Read, FIoStoreTocResource::Write).
THEOREM TocLayout == Spec => []LayoutIsRight
<1>1. TocInv => LayoutIsRight
  BY InvRanges, InvPartitions DEF LayoutIsRight
<1> QED BY <1>1, TocInvariant, PTL

\* What the program does not understand is in the installed file what it was in the
\* shipped one (FIoStoreTocResource::Read and Write, section by section).
THEOREM TocRest == Spec => []RestIsKept
<1>1. TocInv => RestIsKept
  BY InvRest
<1> QED BY <1>1, TocInvariant, PTL

\* Every step changes what readers find as AssetTable allows: a rewritten file leads
\* to the target's new blocks, or hides it, and to every other chunk as ever
\* (FortniteFunctionLibrary::PatchFortnite, FIoStoreTocResource::Write).
THEOREM TocImplementsTable == Spec => OnlyTargetChanges
<1>1. Init => Table!AInit
  BY InitTocInv
<1>2. TocInv /\ [Next]_vars => [Table!ANext]_(Table!avars)
  BY NextKeeps
<1> QED BY <1>1, <1>2, TocInvariant, PTL DEF Spec, OnlyTargetChanges, Table!ASpec
=============================================================================
