----------------------------- MODULE Unversioned -----------------------------
(***************************************************************************)
(* Unversioned properties.  FUnversionedHeaderBuilder describes which      *)
(* properties of a class an object has and which of them are zero;         *)
(* FUnversionedHeader writes and reads the description; LoadProperties     *)
(* walks it with FUnversionedIterator in step with the class's properties, *)
(* the class's own first and then its super classes'.                      *)
(***************************************************************************)
EXTENDS UnversionedFragment, PrefixSums, Sequences, FiniteSets, SequencesExt

CONSTANTS
  Classes,  \* a class: for it and each of its super classes, the ArrayDim of each property
  MaskBits, \* bits in the smallest zero mask: 8 in the code
  MaxCut    \* bound on the words missing at the end of the data

ASSUME UnversionedAssumption ==
  /\ Classes \subseteq Seq(Seq(Nat \ {0}))
  /\ \A c \in Classes : c # <<>>
  /\ MaskBits \in Nat \ {0} /\ MaxCut \in Nat

VARIABLES
  class,
  usage,    \* history: what the builder was told of each property, in the class's order
  Fragments, ZeroMask, bHasNonZeroValues,  \* the builder's header
  words,    \* the data: the packed fragments
  mask,     \* the data behind them: the zero mask, padded
  header,   \* the header that was read
  pc,
  It,       \* FPropertyIterator: the Struct, Link and ArrayIndex it stands at
  FragmentIt, RemainingFragmentValues, ZeroMaskIndex,
  visited   \* the slots LoadProperties read a value for

build == <<usage, Fragments, ZeroMask, bHasNonZeroValues>>
data == <<words, mask>>
iterator == <<It, FragmentIt, RemainingFragmentValues, ZeroMaskIndex>>
vars == <<class, build, data, header, pc, iterator, visited>>

Header(f, z, b) == [Fragments |-> f, ZeroMask |-> z, bHasNonZeroValues |-> b]
NoHeader == Header(<<>>, <<>>, FALSE)

-----------------------------------------------------------------------------
(***************************************************************************)
(* A class's slots: each property once for every element of its array.     *)
(***************************************************************************)
Slot(s, l, a) == [Struct |-> s, Link |-> l, ArrayIndex |-> a]

\* No property: the iterator is behind the last one.
NoSlot == Slot(0, 0, 0)

Slots(c) ==
  UNION {UNION {{Slot(s, l, a) : a \in 1 .. c[s][l]} : l \in 1 .. Len(c[s])} : s \in 1 .. Len(c)}

\* The class's order, and a slot's place in it.
Before(i, j) ==
  \/ i.Struct < j.Struct
  \/ i.Struct = j.Struct /\ i.Link < j.Link
  \/ i.Struct = j.Struct /\ i.Link = j.Link /\ i.ArrayIndex < j.ArrayIndex

Position(c, i) == Cardinality({j \in Slots(c) : j = i \/ Before(j, i)})

\* The iterator starts at the class's own first property, if it has one.
FirstSlot(c) == IF c[1] = <<>> THEN NoSlot ELSE Slot(1, 1, 1)

\* The first property of the nearest class above s that has any.
InheritedSlot(c, s) ==
  LET nonempty == {t \in s + 1 .. Len(c) : c[t] # <<>>}
  IN IF nonempty = {} THEN NoSlot
     ELSE Slot(CHOOSE t \in nonempty : \A u \in nonempty : t <= u, 1, 1)

NextSlot(c, i) ==
  IF i.ArrayIndex < c[i.Struct][i.Link] THEN [i EXCEPT !.ArrayIndex = @ + 1]
  ELSE IF i.Link < Len(c[i.Struct]) THEN Slot(i.Struct, i.Link + 1, 1)
  ELSE InheritedSlot(c, i.Struct)

\* A null Link is followed: the process dies.
Fault == Slot(-1, 0, 0)

Step(c, i) == IF i \in {NoSlot, Fault} THEN Fault ELSE NextSlot(c, i)

\* operator+=
Advance(c, i, n) ==
  LET at[k \in 0 .. n] == IF k = 0 THEN i ELSE Step(c, at[k - 1])
  IN at[n]

-----------------------------------------------------------------------------
(***************************************************************************)
(* The builder.                                                            *)
(***************************************************************************)
Init ==
  /\ class \in Classes
  /\ usage = <<>>
  /\ Fragments = <<NewFragment>> /\ ZeroMask = <<>> /\ bHasNonZeroValues = FALSE
  /\ words = <<>> /\ mask = <<>>
  /\ header = NoHeader
  /\ pc = "build"
  /\ It = NoSlot /\ FragmentIt = 0 /\ RemainingFragmentValues = 0 /\ ZeroMaskIndex = 0
  /\ visited = <<>>

\* Only a fragment with a zero among its values keeps its part of the mask.
TrimZeroMask(z, f) == IF f.bHasAnyZeroes THEN z ELSE SubSeq(z, 1, Len(z) - f.ValueNum)

\* The builder's last fragment and mask, once a new fragment was begun if closed.
Opened(closed) == IF closed THEN Append(Fragments, NewFragment) ELSE Fragments
Trimmed(closed) == IF closed THEN TrimZeroMask(ZeroMask, Last(Fragments)) ELSE ZeroMask

Included(f, bIsZero) ==
  [f EXCEPT !.ValueNum = @ + 1, !.bHasAnyZeroes = @ \/ bIsZero]

Describing(what) ==
  /\ pc = "build"
  /\ Len(usage) < Cardinality(Slots(class))
  /\ usage' = Append(usage, what)
  /\ UNCHANGED <<class, data, header, pc, iterator, visited>>

IncludeProperty(bIsZero) ==
  LET full == Last(Fragments).ValueNum = ValueMax
      opened == Opened(full)
  IN /\ Describing(IF bIsZero THEN "zero" ELSE "value")
     /\ Fragments' = [opened EXCEPT ![Len(opened)] = Included(@, bIsZero)]
     /\ ZeroMask' = Append(Trimmed(full), bIsZero)
     /\ bHasNonZeroValues' = (bHasNonZeroValues \/ ~bIsZero)

\* Mutant: a skip count may pass SkipMax.
ExcludeInFull ==
  LET closed == Last(Fragments).ValueNum # 0
      opened == Opened(closed)
  IN /\ Describing("skip")
     /\ Fragments' = [opened EXCEPT ![Len(opened)].SkipNum = @ + 1]
     /\ ZeroMask' = Trimmed(closed)
     /\ UNCHANGED bHasNonZeroValues

ExcludeProperty ==
  LET closed == Last(Fragments).ValueNum # 0 \/ Last(Fragments).SkipNum = SkipMax
      opened == Opened(closed)
  IN /\ Describing("skip")
     /\ Fragments' = [opened EXCEPT ![Len(opened)].SkipNum = @ + 1]
     /\ ZeroMask' = Trimmed(closed)
     /\ UNCHANGED bHasNonZeroValues

\* Mutant: the trailing skips stay.
AllFragments(frags) == frags

\* Fragments that only skip are taken off the end, but never the first one.
WithoutTrailingSkips(frags) ==
  LET last == SelectLastInSeq(frags, LAMBDA f : f.ValueNum # 0)
  IN SubSeq(frags, 1, IF last = 0 THEN 1 ELSE last)

\* Mutant: the last fragment's part of the mask stays.
FinalizeUntrimmed ==
  LET kept == WithoutTrailingSkips(Fragments)
  IN /\ pc = "build"
     /\ pc' = "save"
     /\ Fragments' = [kept EXCEPT ![Len(kept)].bIsLast = TRUE]
     /\ UNCHANGED <<class, usage, ZeroMask, bHasNonZeroValues, data, header, iterator, visited>>

Finalize ==
  LET kept == WithoutTrailingSkips(Fragments)
  IN /\ pc = "build"
     /\ pc' = "save"
     /\ ZeroMask' = TrimZeroMask(ZeroMask, Last(Fragments))
     /\ Fragments' = [kept EXCEPT ![Len(kept)].bIsLast = TRUE]
     /\ UNCHANGED <<class, usage, bHasNonZeroValues, data, header, iterator, visited>>

-----------------------------------------------------------------------------
(***************************************************************************)
(* The data.                                                               *)
(***************************************************************************)
\* The bits a zero mask takes: a byte, two, or as many words of four as needed.
MaskWidth(n) ==
  IF n <= MaskBits THEN MaskBits
  ELSE IF n <= 2 * MaskBits THEN 2 * MaskBits
  ELSE 4 * MaskBits * ((n + 4 * MaskBits - 1) \div (4 * MaskBits))

SaveZeroMaskData(z) == z \o [i \in 1 .. MaskWidth(Len(z)) - Len(z) |-> FALSE]

\* The last cut units are missing: the zero mask first, then the fragments.
Save ==
  /\ pc = "save"
  /\ pc' = "load"
  /\ \E cut \in 0 .. MaxCut :
       LET hasMask == ZeroMask # <<>>
           lost == IF hasMask THEN cut - 1 ELSE cut
           kept == IF lost <= 0 THEN Len(Fragments)
                   ELSE IF lost < Len(Fragments) THEN Len(Fragments) - lost ELSE 0
       IN /\ words' = [i \in 1 .. kept |-> Pack(Fragments[i])]
          /\ mask' = IF hasMask /\ cut = 0 THEN SaveZeroMaskData(ZeroMask) ELSE <<>>
  /\ UNCHANGED <<class, build, header, iterator, visited>>

\* How many values the fragments have that f[i].bHasAnyZeroes = masked.
ValueNums(frags, masked) ==
  [i \in 1 .. Len(frags) |-> IF frags[i].bHasAnyZeroes = masked THEN frags[i].ValueNum ELSE 0]

ValueCount(frags, masked) == Sums(ValueNums(frags, masked))[Len(frags)]

Unpacked ==
  LET last == SelectInSeq(words, LAMBDA w : Unpack(w).bIsLast)
  IN [i \in 1 .. last |-> Unpack(words[i])]

LoadedHeader ==
  LET n == ValueCount(Unpacked, TRUE)
      bits == SubSeq(mask, 1, n)
  IN Header(Unpacked, bits,
            ValueCount(Unpacked, FALSE) > 0 \/ \E i \in 1 .. n : ~bits[i])

\* FUnversionedHeader::Load hits the end of the data.
HitsEnd ==
  \/ Unpacked = <<>>
  \/ /\ ValueCount(Unpacked, TRUE) > 0
     /\ Len(mask) < MaskWidth(ValueCount(Unpacked, TRUE))

-----------------------------------------------------------------------------
(***************************************************************************)
(* LoadProperties and FUnversionedIterator.                                *)
(***************************************************************************)
SkipNums(frags) == [i \in 1 .. Len(frags) |-> frags[i].SkipNum]

\* From fragment i on, the first that has values; 0 when there is none.
ValuesFrom(frags, i) ==
  SelectInSubSeq(frags, i, Len(frags), LAMBDA f : f.ValueNum # 0)

\* FUnversionedIterator::Skip, from fragment i and slot j.
SkipTo(frags, i, j) ==
  LET k == ValuesFrom(frags, i)
      skipped == Sums(SkipNums(frags))[k] - Sums(SkipNums(frags))[i - 1]
  IN /\ It' = IF k = 0 THEN Fault ELSE Advance(class, j, skipped)
     /\ FragmentIt' = k
     /\ RemainingFragmentValues' = IF k = 0 THEN 0 ELSE frags[k].ValueNum

Settle == pc' = IF It' = Fault THEN "crashed" ELSE "iterate"

\* LoadProperties up to its loop.
Load ==
  /\ pc = "load"
  /\ IF HitsEnd
     THEN /\ pc' = "error"
          /\ UNCHANGED <<header, iterator>>
     ELSE /\ header' = LoadedHeader
          /\ IF LoadedHeader.bHasNonZeroValues
             THEN /\ SkipTo(LoadedHeader.Fragments, 1, FirstSlot(class))
                  /\ Settle
                  /\ UNCHANGED ZeroMaskIndex
             ELSE /\ pc' = "done"
                  /\ UNCHANGED iterator
  /\ UNCHANGED <<class, build, data, visited>>

IsNonZero ==
  \/ ~header.Fragments[FragmentIt].bHasAnyZeroes
  \/ ~header.ZeroMask[ZeroMaskIndex + 1]

\* The loop at a null Link.
LoseProperty ==
  /\ pc = "iterate"
  /\ It = NoSlot
  /\ pc' = "crashed"
  /\ UNCHANGED <<class, build, data, header, iterator, visited>>

\* Mutant: the index stays at a value that is read.
MaskIndexOfZeros == IF IsNonZero THEN ZeroMaskIndex ELSE ZeroMaskIndex + 1

\* The next value's place in the mask.
NextMaskIndex ==
  IF header.Fragments[FragmentIt].bHasAnyZeroes THEN ZeroMaskIndex + 1 ELSE ZeroMaskIndex

\* The loop's body and FUnversionedIterator::Next.
ReadProperty ==
  LET fragment == header.Fragments[FragmentIt]
      next == NextSlot(class, It)
  IN /\ pc = "iterate"
     /\ It # NoSlot
     /\ visited' = IF IsNonZero THEN Append(visited, It) ELSE visited
     /\ ZeroMaskIndex' = NextMaskIndex
     /\ \/ /\ RemainingFragmentValues > 1
           /\ It' = next
           /\ RemainingFragmentValues' = RemainingFragmentValues - 1
           /\ UNCHANGED <<FragmentIt, pc>>
        \/ /\ RemainingFragmentValues = 1
           /\ fragment.bIsLast
           /\ pc' = "done"
           /\ It' = next
           /\ RemainingFragmentValues' = 0
           /\ UNCHANGED FragmentIt
        \/ /\ RemainingFragmentValues = 1
           /\ ~fragment.bIsLast
           /\ SkipTo(header.Fragments, FragmentIt + 1, next)
           /\ Settle
     /\ UNCHANGED <<class, build, data, header>>

Stopped ==
  /\ pc \in {"done", "error", "crashed"}
  /\ UNCHANGED vars

Next ==
  \/ \E bIsZero \in BOOLEAN : IncludeProperty(bIsZero)
  \/ ExcludeProperty
  \/ Finalize
  \/ Save
  \/ Load
  \/ LoseProperty
  \/ ReadProperty
  \/ Stopped

Spec == Init /\ [][Next]_vars

-----------------------------------------------------------------------------
\* The slots the builder was told have a value that is not zero.
UsedSlots ==
  {i \in Slots(class) : Position(class, i) <= Len(usage) /\ usage[Position(class, i)] = "value"}

\* Packing loses nothing: every fragment the builder made is read back as it was
\* (FFragment::Pack narrows its sum to 16 bits, and nothing checks the counts).
PackLosesNothing ==
  \A i \in 1 .. Len(Fragments) : Unpack(Pack(Fragments[i])) = Fragments[i]

\* Whatever Load accepts is the header the builder finished: the mask bits of the
\* fragments without zeros were taken out in the right places, the two counts of
\* values agree, and data that ends too early is an error and never a shorter header.
LoadedIsBuilt ==
  pc \in {"iterate", "done"} => header = Header(Fragments, ZeroMask, bHasNonZeroValues)

\* When LoadProperties comes to its end it has read a value for exactly the
\* slots that have one, in the class's order: the header's fragments, its zero
\* mask, the arrays and the super classes are walked in step to the last property.
ReadsWhatIsThere ==
  pc = "done" =>
    /\ ToSet(visited) = UsedSlots
    /\ \A m, n \in DOMAIN visited : m < n => Before(visited[m], visited[n])

\* The walk follows a null property only for a class that has none of its own:
\* FPropertyIterator's constructor does not go on to the super class as Next does.
\* For any other class no skip and no trailing fragment leads past the last property.
CrashOnlyWithoutOwnProperty == pc = "crashed" => class[1] = <<>>
=============================================================================
