------------------------- MODULE MCWorkerSupervisor -------------------------
(***************************************************************************)
(* An instance of WorkerSupervisor: the oldest run is the poison run.      *)
(***************************************************************************)
EXTENDS WorkerSupervisor

CONSTANT NumRuns   \* how many runs of one case are submitted

MCRuns == 1..NumRuns
MCCases == [r \in MCRuns |-> 1]
=============================================================================
