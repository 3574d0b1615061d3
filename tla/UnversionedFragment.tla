------------------------- MODULE UnversionedFragment -------------------------
(***************************************************************************)
(* FFragment: a run of properties that are skipped and then a run of       *)
(* properties that have values, packed into one word.  The code's widths   *)
(* are seven bits for either count; here they follow from SkipMax and      *)
(* ValueMax, so that small fragments can be full.                          *)
(***************************************************************************)
EXTENDS Integers

CONSTANTS
  SkipMax,  \* 127 in the code
  ValueMax  \* 127 in the code

ASSUME FragmentAssumption == SkipMax \in Nat \ {0} /\ ValueMax \in Nat \ {0}

FFragment == [SkipNum: 0 .. SkipMax, bHasAnyZeroes: BOOLEAN,
              ValueNum: 0 .. ValueMax, bIsLast: BOOLEAN]

NewFragment == [SkipNum |-> 0, bHasAnyZeroes |-> FALSE, ValueNum |-> 0, bIsLast |-> FALSE]

HasZeroMask == SkipMax + 1
IsLastMask == 2 * (SkipMax + 1)
ValueUnit == 4 * (SkipMax + 1)         \* 1 << ValueNumShift
WordSize == ValueUnit * (ValueMax + 1)  \* 2^16

\* The fields do not overlap as long as SkipNum fits, so the code's | is a sum.
Pack(f) ==
  (f.SkipNum + (IF f.bHasAnyZeroes THEN HasZeroMask ELSE 0)
             + (IF f.bIsLast THEN IsLastMask ELSE 0) + f.ValueNum * ValueUnit) % WordSize

Unpack(w) ==
  [SkipNum |-> w % HasZeroMask, bHasAnyZeroes |-> (w \div HasZeroMask) % 2 = 1,
   ValueNum |-> w \div ValueUnit, bIsLast |-> (w \div IsLastMask) % 2 = 1]
=============================================================================
