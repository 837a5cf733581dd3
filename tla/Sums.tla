-------------------------------- MODULE Sums --------------------------------
(***************************************************************************)
(* Sums of sequences of natural numbers, as recursive functions over the   *)
(* length, which proofs can unfold.                                        *)
(***************************************************************************)
EXTENDS Naturals, Sequences

\* PartialSums(c)[i] is the sum of the first i numbers of c.
PartialSums(c) ==
  LET sum[i \in 0..Len(c)] == IF i = 0 THEN 0 ELSE sum[i - 1] + c[i] IN sum

Total(c) == PartialSums(c)[Len(c)]
=============================================================================
