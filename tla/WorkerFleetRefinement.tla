----------------------- MODULE WorkerFleetRefinement -----------------------
(***************************************************************************)
(* WorkerFleet implements RunLedger: the rows and case rows, seen without  *)
(* owners, leases and execution status, change only as the ledger says.    *)
(***************************************************************************)
EXTENDS WorkerFleet

\* The refinement mapping.
runState == [r \in Runs |-> rows[r].state]
runGate == [r \in Runs |-> rows[r].gate_outcome]

Ledger == INSTANCE RunLedger WITH state <- runState, gate <- runGate

\* Every step of workers, cancel requests and time is a step of the ledger or
\* leaves it as it is.
ImplementsLedger == Ledger!LedgerSpec
=============================================================================
