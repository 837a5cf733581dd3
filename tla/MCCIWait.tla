------------------------------ MODULE MCCIWait ------------------------------
(***************************************************************************)
(* An instance of CIWait: every job asks about the same run.               *)
(***************************************************************************)
EXTENDS CIWait, TLC

MCCases == [r \in Runs |-> 2]
MCTarget == [b \in Builds |-> CHOOSE r \in Runs : TRUE]
=============================================================================
