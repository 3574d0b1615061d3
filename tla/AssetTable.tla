----------------------------- MODULE AssetTable -----------------------------
(***************************************************************************)
(* What rewriting a table of contents amounts to for whoever reads the     *)
(* container: the patched chunk is found where its new blocks were put, or *)
(* a hidden chunk is found no more, every other chunk is found where it    *)
(* always was, and putting the shipped file back undoes it all.            *)
(***************************************************************************)
CONSTANT Target  \* the chunk that is patched or hidden

VARIABLES
  assets,   \* by chunk: its blocks as a reader of the installed file finds them
  original, \* the same of the shipped file
  placed    \* the blocks last written for Target

avars == <<assets, original, placed>>

AInit == assets = original

Place == UNCHANGED <<assets, original>>

Install ==
  /\ assets' = [c \in DOMAIN original |-> IF c = Target THEN placed ELSE original[c]]
  /\ UNCHANGED <<original, placed>>

Conceal ==
  /\ assets' = [c \in DOMAIN original \ {Target} |-> original[c]]
  /\ UNCHANGED <<original, placed>>

Restore ==
  /\ assets' = original
  /\ UNCHANGED <<original, placed>>

ANext == Place \/ Install \/ Conceal \/ Restore

ASpec == AInit /\ [][ANext]_avars
=============================================================================
