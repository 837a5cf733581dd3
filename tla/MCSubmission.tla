---------------------------- MODULE MCSubmission ----------------------------
(***************************************************************************)
(* An instance of Submission: two identical requests, one with the same    *)
(* key and another body, one without a key, one with the same key in       *)
(* another project.                                                        *)
(***************************************************************************)
EXTENDS Submission

CONSTANTS a1, a2, a3, a4, a5

MCAttempts == {a1, a2, a3, a4, a5}
MCRequest ==
  [a \in MCAttempts |->
     [project |-> IF a = a5 THEN "q" ELSE "p",
      key |-> IF a = a4 THEN NoKey ELSE "k",
      body |-> IF a = a3 THEN "other" ELSE "body"]]
=============================================================================
