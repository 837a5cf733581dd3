------------------------------ MODULE RunTypes ------------------------------
(***************************************************************************)
(* The values that describe a run: its state, its verdict and its report.  *)
(***************************************************************************)
EXTENDS Naturals

\* runs.state; "absent" is a run id that no row has.
RunStates == {"absent", "created", "running", "cancelling",
              "completed", "failed", "cancelled"}
Terminal == {"completed", "failed", "cancelled"}

\* GateOutcome, and LocalRunResult.status.
GateOutcomes == {"pass", "fail", "error"}
ReportStatuses == {"completed", "cancelled"}

\* A LocalEvaluationReport: the status of the execution, the gate outcome and
\* the number of case results.  NoReport also stands for "no case rows".
Reports == [status : ReportStatuses \cup {"none"},
            gate_outcome : GateOutcomes \cup {"none"},
            cases : Nat]
NoReport == [status |-> "none", gate_outcome |-> "none", cases |-> 0]

\* The reports execute_local can return for a specification with total cases:
\* a non-empty prefix of the cases, all of them unless it was cancelled.
ReportsOf(total) ==
  {rep \in [status : ReportStatuses, gate_outcome : GateOutcomes,
            cases : 1..total] :
     rep.status = "completed" => rep.cases = total}
=============================================================================
