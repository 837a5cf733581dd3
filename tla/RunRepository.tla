--------------------------- MODULE RunRepository ---------------------------
(***************************************************************************)
(* The rows of the tables "runs" and "case_results", and what each         *)
(* statement of persistence/repository.py does to a row.                   *)
(*                                                                         *)
(* Only the columns that the run lifecycle reads or writes are kept.       *)
(* lease_expires_at is known by its position on the time axis: "none" is   *)
(* NULL, "live" is in the future, "expired" is before now and "stranded"   *)
(* is before now - 30s, the grace of reconcile_stranded_runs.  The case    *)
(* rows of a run are known by how many there are: a report always holds a  *)
(* prefix of the cases of the specification, so two reports with at least  *)
(* one case each share the key of the first case.                          *)
(***************************************************************************)
EXTENDS RunTypes

CONSTANTS Workers,   \* the worker ids: one per start of a worker process
          NoWorker   \* worker_id is NULL

ASSUME NoWorkerAssumption == NoWorker \notin Workers

----------------------------------------------------------------------------
(* Types *)

Leases == {"none", "live", "expired", "stranded"}

Rows == [state : RunStates,
         worker_id : Workers \cup {NoWorker},
         lease : Leases,
         execution_status : ReportStatuses \cup {"none", "reconciled"},
         gate_outcome : GateOutcomes \cup {"none"},
         total_cases : Nat]

----------------------------------------------------------------------------
(* create_run *)

AbsentRow == [state |-> "absent", worker_id |-> NoWorker, lease |-> "none",
              execution_status |-> "none", gate_outcome |-> "none",
              total_cases |-> 0]

\* Mutant: the row is inserted with a state name nothing else knows.
CreatedRow_Pending == [AbsentRow EXCEPT !.state = "pending"]

CreatedRow == [AbsentRow EXCEPT !.state = "created"]

----------------------------------------------------------------------------
(* claim_next_run *)

\* Mutant: the comparison with now is the wrong way round.
Reclaimable_NotExpired(row) == row.state = "running" /\ row.lease = "live"

\* The WHERE clause of the second SELECT: lease_expires_at < now.
Reclaimable(row) ==
  row.state = "running" /\ row.lease \in {"expired", "stranded"}

\* Mutants: the UPDATE names the row by id alone; it accepts both states.
ClaimMatches_ById(row, candidate_state) == TRUE
ClaimMatches_EitherState(row, candidate_state) ==
  row.state \in {"created", "running"}

\* The WHERE clause of the UPDATE: the state of the candidate and nothing
\* else.  For a "running" candidate the lease is not compared again.
ClaimMatches(row, candidate_state) == row.state = candidate_state

\* Mutant: a reclaim leaves the expired lease as it is.
ClaimedRow_KeepsLease(row, w) ==
  [row EXCEPT !.state = "running", !.worker_id = w,
              !.lease = IF @ = "none" THEN "live" ELSE @]

ClaimedRow(row, w) ==
  [row EXCEPT !.state = "running", !.worker_id = w, !.lease = "live"]

----------------------------------------------------------------------------
(* reconcile_stranded_runs, as the worker calls it: without                *)
(* max_created_age_seconds, so created runs are left alone.                *)

\* Mutant: one UPDATE fails running and cancelling runs alike.
ReconciledRow_FailsBoth(row) ==
  IF row.lease = "stranded" /\ row.state \in {"running", "cancelling"}
  THEN [row EXCEPT !.state = "failed", !.execution_status = "reconciled",
                   !.gate_outcome = "error"]
  ELSE row

ReconciledRow(row) ==
  IF row.lease = "stranded" /\ row.state = "running"
  THEN [row EXCEPT !.state = "failed", !.execution_status = "reconciled",
                   !.gate_outcome = "error"]
  ELSE IF row.lease = "stranded" /\ row.state = "cancelling"
  THEN [row EXCEPT !.state = "cancelled"]
  ELSE row

----------------------------------------------------------------------------
(* heartbeat *)

HeartbeatMatches(row, w) == row.worker_id = w /\ row.state = "running"

HeartbeatRow(row) == [row EXCEPT !.lease = "live"]

----------------------------------------------------------------------------
(* The ORM flush of a loaded row: the UPDATE names only the columns whose  *)
(* assigned value differs from the value loaded by the SELECT, and its     *)
(* WHERE clause is the primary key alone.                                  *)

Written(current, loaded, assigned) ==
  IF assigned = loaded THEN current ELSE assigned

\* Mutant: the table has no unique constraint.
Collides_NoConstraint(stored, report) == FALSE

\* complete_run and acknowledge_cancellation insert one case row per case of
\* the report; uq_case_results_run_case rejects a case key of the run twice.
Collides(stored, report) == stored.cases > 0 /\ report.cases > 0

\* The report columns that both of them assign.
ReportedRow(row, loaded, report) ==
  [row EXCEPT
     !.execution_status = Written(@, loaded.execution_status, report.status),
     !.gate_outcome = Written(@, loaded.gate_outcome, report.gate_outcome),
     !.total_cases = Written(@, loaded.total_cases, report.cases)]

----------------------------------------------------------------------------
(* complete_run *)

CompleteAccepts(row, w) == row.worker_id = w

CompletionState(report) ==
  IF report.status = "completed" THEN "completed" ELSE "failed"

CompletedRow(row, loaded, report) ==
  [ReportedRow(row, loaded, report) EXCEPT
     !.state = Written(@, loaded.state, CompletionState(report))]

----------------------------------------------------------------------------
(* acknowledge_cancellation *)

\* Mutant: the guard of the heartbeat, which a cancelling run does not meet.
AcknowledgeAccepts_Running(row, w) == row.state = "running" /\ row.worker_id = w

AcknowledgeAccepts(row, w) == row.state = "cancelling" /\ row.worker_id = w

AcknowledgedRow(row, loaded, report) ==
  [(IF report = NoReport THEN row ELSE ReportedRow(row, loaded, report))
     EXCEPT !.state = "cancelled"]

----------------------------------------------------------------------------
(* cancel_run *)

\* The states in which cancel_run assigns a new state.
Cancellable == {"created", "running"}

CancelState(loaded_state) ==
  IF loaded_state = "created" THEN "cancelled" ELSE "cancelling"

CancelledRow(row, loaded_state) ==
  [row EXCEPT !.state = CancelState(loaded_state)]
=============================================================================
