--------------------------- MODULE MCRateLimiter ---------------------------
(***************************************************************************)
(* An instance of RateLimiter.                                             *)
(***************************************************************************)
EXTENDS RateLimiter, TLC

\* Tokens are interchangeable.
Symmetry == Permutations(Tokens)
=============================================================================
