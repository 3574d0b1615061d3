----------------------------- MODULE PrefixSums -----------------------------
(***************************************************************************)
(* The sums of the first numbers of a sequence: where, of things that lie  *)
(* one behind the other and have these lengths, each of them begins.       *)
(***************************************************************************)
EXTENDS Integers, Sequences

\* The sums of the first numbers of v, of none to all of them.
Sums(v) ==
  LET sum[n \in 0 .. Len(v)] == IF n = 0 THEN 0 ELSE sum[n - 1] + v[n]
  IN sum

=============================================================================
