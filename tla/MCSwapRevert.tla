---------------------------- MODULE MCSwapRevert ----------------------------
(* Small instances of SwapRevert for TLC. *)
EXTENDS SwapRevertProofs

WriteFault == {"restore"}
AllFaults == FaultKinds

\* Bound: at most one kind of mishap in a history.
FewMishaps == Cardinality(mishaps) <= 1
=============================================================================
