---------------------------- MODULE MCBaselines ----------------------------
(***************************************************************************)
(* An instance of Baselines.  The first run has two cases, the others one. *)
(***************************************************************************)
EXTENDS Baselines, TLC

MCCases == [r \in Runs |-> IF r = 1 THEN 2 ELSE 1]

Symmetry == Permutations(Promotions)
=============================================================================
