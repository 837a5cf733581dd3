--------------------------- MODULE MCWorkerFleet ---------------------------
(***************************************************************************)
(* Small instances of WorkerFleet for TLC.                                 *)
(***************************************************************************)
EXTENDS WorkerFleetRefinement, TLC

CONSTANTS NumRuns,   \* how many runs are submitted
          NumCases   \* how many cases each of them has

MCRuns == 1..NumRuns
MCCases == [r \in MCRuns |-> NumCases]

\* Worker ids are interchangeable.
Symmetry == Permutations(Workers)
=============================================================================
