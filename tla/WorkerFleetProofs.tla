------------------------- MODULE WorkerFleetProofs -------------------------
(***************************************************************************)
(* Proofs about WorkerFleet, for any set of workers, cancel requests and   *)
(* runs, any number of cases per run and any number of lapsed leases, and  *)
(* the proof that WorkerFleet implements RunLedger.                        *)
(***************************************************************************)
EXTENDS WorkerFleetRefinement, TLAPS

----------------------------------------------------------------------------
(* The inductive invariant *)

\* The runs a worker or a cancel request is busy with are runs.
Busy ==
  /\ \A w \in Workers :
       pc[w] \in Working \cup {"claim_created", "claim_expired"} =>
         run[w] \in Runs
  /\ \A c \in Clients : cancel[c] # NoCancel => cancel[c].run \in Runs

\* The row carries no part of a report.
NoTrace(row) ==
  /\ row.state # "completed"
  /\ row.execution_status \notin ReportStatuses
  /\ row.gate_outcome \notin {"pass", "fail"}
  /\ row.total_cases = 0

\* What the row of run r and the evidence ev stored for it have in common.
RowOK(row, ev, r) ==
  /\ \/ ev = NoReport /\ NoTrace(row)
     \/ /\ ev \in ReportsOf(Cases[r])
        /\ row.gate_outcome = ev.gate_outcome
        /\ row.execution_status = ev.status
        /\ row.total_cases = ev.cases
  /\ row.state = "completed" => ev.status = "completed"
  /\ row.state = "failed" => /\ ev = NoReport
                             /\ row.execution_status = "reconciled"
                             /\ row.gate_outcome = "error"
  /\ row.state \in {"absent", "created", "running"} =>
       ev = NoReport /\ row.gate_outcome = "none"

RowsOK == \A r \in Runs : RowOK(rows[r], evidence[r], r)

\* A worker before the execution of its next run, and one about to write.
Fresh == {"off", "idle", "claim_created", "scan_expired", "claim_expired",
          "claimed"}
Writing == {"complete_write", "acknowledge_write"}

\* The run a worker works on has been claimed.  The report it holds is
\* complete if it is about to complete the run.  If the run has no case rows
\* yet, the row the worker has loaded carries no part of a report, and a
\* verdict "error" in it (which the flush would not write again) still stands.
WorkerOK(w) ==
  /\ pc[w] \in Working => rows[run[w]].state \notin {"absent", "created"}
  /\ pc[w] \in Fresh => done[w] = 0 /\ report[w] = NoReport
  /\ pc[w] = "executing" => done[w] < Cases[run[w]]
  /\ pc[w] \in {"complete", "complete_write"} =>
       report[w] \in ReportsOf(Cases[run[w]]) /\ report[w].status = "completed"
  /\ pc[w] \in {"acknowledge", "acknowledge_write"} =>
       report[w] = NoReport \/ report[w] \in ReportsOf(Cases[run[w]])
  /\ pc[w] \in Writing /\ evidence[run[w]] = NoReport =>
       /\ NoTrace(loaded[w])
       /\ loaded[w].gate_outcome = "error" =>
            rows[run[w]].gate_outcome = "error"

WorkersOK == \A w \in Workers : WorkerOK(w)

\* The inductive invariant.
FleetInv == TypeOK /\ Busy /\ RowsOK /\ WorkersOK

----------------------------------------------------------------------------
(* Type correctness *)

\* Every statement of the repository maps a row of the table to a row.
LEMMA ClaimedRowType ==
  ASSUME NEW row \in Rows, NEW w \in Workers
  PROVE  ClaimedRow(row, w) \in Rows
BY DEF Rows, RunStates, Leases, ClaimedRow

LEMMA LeaseRowTypes ==
  ASSUME NEW row \in Rows
  PROVE  /\ HeartbeatRow(row) \in Rows
         /\ [row EXCEPT !.lease = "expired"] \in Rows
         /\ [row EXCEPT !.lease = "stranded"] \in Rows
BY DEF Rows, Leases, HeartbeatRow

LEMMA ReconciledRowType ==
  ASSUME NEW row \in Rows
  PROVE  ReconciledRow(row) \in Rows
BY DEF Rows, RunStates, GateOutcomes, ReconciledRow

LEMMA CancelledRowType ==
  ASSUME NEW row \in Rows, NEW st
  PROVE  CancelledRow(row, st) \in Rows
BY DEF Rows, RunStates, CancelledRow, CancelState

LEMMA ReportRowTypes ==
  ASSUME NEW row \in Rows, NEW old \in Rows, NEW rep \in Reports
  PROVE  /\ CompletedRow(row, old, rep) \in Rows
         /\ AcknowledgedRow(row, old, rep) \in Rows
<1>1. Written(row.execution_status, old.execution_status, rep.status)
        \in ReportStatuses \cup {"none", "reconciled"}
  BY DEF Written, Rows, Reports
<1>2. Written(row.gate_outcome, old.gate_outcome, rep.gate_outcome)
        \in GateOutcomes \cup {"none"}
  BY DEF Written, Rows, Reports
<1>3. Written(row.total_cases, old.total_cases, rep.cases) \in Nat
  BY DEF Written, Rows, Reports
<1>4. ReportedRow(row, old, rep) \in Rows
  BY <1>1, <1>2, <1>3 DEF ReportedRow, Rows
<1>5. CompletedRow(row, old, rep) \in Rows
  <2>1. Written(row.state, old.state, CompletionState(rep)) \in RunStates
    BY DEF Written, CompletionState, Rows, RunStates
  <2>2. ReportedRow(row, old, rep).state = row.state
    BY DEF ReportedRow, Rows
  <2> QED BY <1>4, <2>1, <2>2 DEF CompletedRow, Rows
<1>6. AcknowledgedRow(row, old, rep) \in Rows
  BY <1>4 DEF AcknowledgedRow, Rows, RunStates
<1> QED BY <1>5, <1>6

LEMMA FreshRowTypes == AbsentRow \in Rows /\ CreatedRow \in Rows
BY DEF AbsentRow, CreatedRow, Rows, RunStates, Leases, GateOutcomes, ReportStatuses

LEMMA NoReportType == NoReport \in Reports
BY DEF NoReport, Reports, ReportStatuses, GateOutcomes

LEMMA InitTypeOK == Init => TypeOK
<1> SUFFICES ASSUME Init PROVE TypeOK
  OBVIOUS
<1> QED
  BY FreshRowTypes, NoReportType
  DEF Init, TypeOK, PCs, NoRun, NoCancel

\* A worker that is left with its initial locals keeps its type.
LEMMA ForgetTypes ==
  ASSUME TypeOK, NEW w \in Workers, Forget(w)
  PROVE  /\ run' \in [Workers -> Runs \cup {NoRun}]
         /\ hb' \in [Workers -> {"off", "beating", "lost", "failed"}]
         /\ done' \in [Workers -> Nat]
         /\ report' \in [Workers -> Reports]
         /\ loaded' \in [Workers -> Rows]
BY FreshRowTypes, NoReportType DEF TypeOK, Forget

LEMMA StepTypeOK == TypeOK /\ Busy /\ [Next]_vars => TypeOK'
<1> SUFFICES ASSUME TypeOK, Busy, [Next]_vars PROVE TypeOK'
  OBVIOUS
<1>1. ASSUME NEW r \in Runs, CreateRun(r) PROVE TypeOK'
  BY <1>1, FreshRowTypes DEF TypeOK, CreateRun, workerVars
<1>2. ASSUME NEW r \in Runs, ExpireLease(r) PROVE TypeOK'
  <2>1. rows[r] \in Rows
    BY DEF TypeOK
  <2>2. [rows[r] EXCEPT !.lease = "expired"] \in Rows
    BY <2>1, LeaseRowTypes
  <2> QED BY <1>2, <2>2 DEF TypeOK, ExpireLease, workerVars
<1>3. ASSUME NEW r \in Runs, PassGrace(r) PROVE TypeOK'
  <2>1. rows[r] \in Rows
    BY DEF TypeOK
  <2>2. [rows[r] EXCEPT !.lease = "stranded"] \in Rows
    BY <2>1, LeaseRowTypes
  <2> QED BY <1>3, <2>2 DEF TypeOK, PassGrace, workerVars
<1>4. ASSUME NEW c \in Clients, NEW r \in Runs, CancelRead(c, r) PROVE TypeOK'
  BY <1>4 DEF TypeOK, CancelRead, workerVars, Cancellable
<1>5. ASSUME NEW c \in Clients, CancelWrite(c) PROVE TypeOK'
  <2>1. cancel[c].run \in Runs /\ cancel[c].state \in Cancellable \cup {"absent"}
    BY <1>5 DEF TypeOK, Busy, CancelWrite
  <2>2. CancelledRow(rows[cancel[c].run], cancel[c].state) \in Rows
    <3>1. rows[cancel[c].run] \in Rows
      BY <2>1 DEF TypeOK
    <3> QED BY <3>1, CancelledRowType
  <2> QED BY <1>5, <2>1, <2>2 DEF TypeOK, CancelWrite, workerVars, NoCancel, NoRun
<1>6. ASSUME NEW w \in Workers, Start(w) PROVE TypeOK'
  <2>1. \A r \in Runs : rows[r] \in Rows /\ ReconciledRow(rows[r]) \in Rows
    BY ReconciledRowType DEF TypeOK
  <2> QED BY <1>6, <2>1 DEF TypeOK, Start, PCs
<1>7. ASSUME NEW w \in Workers, Stop(w) PROVE TypeOK'
  BY <1>7 DEF TypeOK, Stop, PCs
<1>8. ASSUME NEW w \in Workers, Crash(w) PROVE TypeOK'
  BY <1>8, ForgetTypes DEF TypeOK, Crash, Die, PCs
<1>9. ASSUME NEW w \in Workers, SelectCreated(w) \/ SelectExpired(w)
      PROVE TypeOK'
  <2>1. Oldest(CreatedRuns) \subseteq Runs /\ Oldest(ReclaimableRuns) \subseteq Runs
    BY DEF Oldest, CreatedRuns, ReclaimableRuns
  <2>2. CASE SelectCreated(w)
    BY <2>1, <2>2 DEF TypeOK, SelectCreated, PCs
  <2>3. CASE SelectExpired(w)
    BY <2>1, <2>3 DEF TypeOK, SelectExpired, PCs
  <2> QED BY <1>9, <2>2, <2>3
<1>10. ASSUME NEW w \in Workers, UpdateCreated(w) \/ UpdateExpired(w)
       PROVE TypeOK'
  <2>1. run[w] \in Runs
    BY <1>10 DEF Busy, UpdateCreated, UpdateExpired
  <2>2. ClaimedRow(rows[run[w]], w) \in Rows
    BY <2>1, ClaimedRowType DEF TypeOK
  <2> QED BY <1>10, <2>1, <2>2 DEF TypeOK, UpdateCreated, UpdateExpired, PCs
<1>11. ASSUME NEW w \in Workers, Begin(w) PROVE TypeOK'
  BY <1>11 DEF TypeOK, Begin, PCs
<1>12. ASSUME NEW w \in Workers, Heartbeat(w) \/ HeartbeatFails(w) PROVE TypeOK'
  <2>1. run[w] \in Runs
    BY <1>12 DEF Busy, Heartbeat, HeartbeatFails, Working
  <2>2. HeartbeatRow(rows[run[w]]) \in Rows
    BY <2>1, LeaseRowTypes DEF TypeOK
  <2> QED BY <1>12, <2>1, <2>2 DEF TypeOK, Heartbeat, HeartbeatFails
<1>13. ASSUME NEW w \in Workers, FinishCase(w) PROVE TypeOK'
  BY <1>13 DEF TypeOK, FinishCase
<1>14. ASSUME NEW w \in Workers, NEW gate \in GateOutcomes,
              FinishExecution(w, gate)
       PROVE TypeOK'
  <2>1. done[w] + 1 \in Nat
    BY DEF TypeOK
  <2>2. [status |-> ReportStatus(done[w] + 1, Cases[run[w]], hb[w] = "lost"),
         gate_outcome |-> gate,
         cases |-> done[w] + 1] \in Reports
    BY <2>1 DEF Reports, ReportStatuses, ReportStatus
  <2>3. AfterExecution(hb[w] = "lost") \in PCs
    BY DEF AfterExecution, PCs
  <2> QED BY <1>14, <2>1, <2>2, <2>3 DEF TypeOK, FinishExecution
<1>15. ASSUME NEW w \in Workers, FinishWithFailedHeartbeat(w) \/ WriteCollides(w)
       PROVE TypeOK'
  BY <1>15, ForgetTypes DEF TypeOK, FinishWithFailedHeartbeat, WriteCollides,
                            Die, PCs
<1>16. ASSUME NEW w \in Workers, CompleteRead(w) \/ AcknowledgeRead(w)
       PROVE TypeOK'
  <2>1. run[w] \in Runs
    BY <1>16 DEF Busy, CompleteRead, AcknowledgeRead, Working
  <2> QED BY <1>16, <2>1, ForgetTypes
          DEF TypeOK, CompleteRead, AcknowledgeRead, Return, PCs
<1>17. ASSUME NEW w \in Workers, CompleteWrite(w) \/ AcknowledgeWrite(w)
       PROVE TypeOK'
  <2>1. run[w] \in Runs
    BY <1>17 DEF Busy, CompleteWrite, AcknowledgeWrite, Working
  <2>2. /\ CompletedRow(rows[run[w]], loaded[w], report[w]) \in Rows
        /\ AcknowledgedRow(rows[run[w]], loaded[w], report[w]) \in Rows
    BY <2>1, ReportRowTypes DEF TypeOK
  <2>3. rows' \in [Runs -> Rows] /\ evidence' \in [Runs -> Reports]
    BY <1>17, <2>1, <2>2 DEF TypeOK, CompleteWrite, AcknowledgeWrite, Store
  <2>4. pc' \in [Workers -> PCs]
    BY <1>17 DEF TypeOK, CompleteWrite, AcknowledgeWrite, Return, PCs
  <2> QED BY <1>17, <2>3, <2>4, ForgetTypes
          DEF TypeOK, CompleteWrite, AcknowledgeWrite, Return
<1>18. ASSUME UNCHANGED vars PROVE TypeOK'
  BY <1>18 DEF TypeOK, vars, workerVars
<1> QED
  BY <1>1, <1>2, <1>3, <1>4, <1>5, <1>6, <1>7, <1>8, <1>9, <1>10, <1>11, <1>12,
     <1>13, <1>14, <1>15, <1>16, <1>17, <1>18
  DEF Next, WorkerStep, HeartbeatStep

----------------------------------------------------------------------------
(* What the statements of the repository do to a consistent row *)

LEMMA FreshRowsOK ==
  ASSUME NEW r \in Runs
  PROVE  RowOK(AbsentRow, NoReport, r) /\ RowOK(CreatedRow, NoReport, r)
BY DEF RowOK, NoTrace, AbsentRow, CreatedRow, ReportStatuses

LEMMA ClaimedRowOK ==
  ASSUME NEW row \in Rows, NEW ev \in Reports, NEW r \in Runs, NEW w \in Workers,
         RowOK(row, ev, r), row.state \in {"created", "running"}
  PROVE  RowOK(ClaimedRow(row, w), ev, r)
BY DEF RowOK, NoTrace, ClaimedRow, Rows

LEMMA LeaseRowOK ==
  ASSUME NEW row \in Rows, NEW ev \in Reports, NEW r \in Runs, NEW l \in Leases,
         RowOK(row, ev, r)
  PROVE  RowOK([row EXCEPT !.lease = l], ev, r)
BY DEF RowOK, NoTrace, Rows

LEMMA ReconciledRowOK ==
  ASSUME NEW row \in Rows, NEW ev \in Reports, NEW r \in Runs, RowOK(row, ev, r)
  PROVE  RowOK(ReconciledRow(row), ev, r)
<1>1. CASE row.lease = "stranded" /\ row.state = "running"
  <2>1. ReconciledRow(row) =
          [row EXCEPT !.state = "failed", !.execution_status = "reconciled",
                      !.gate_outcome = "error"]
    BY <1>1 DEF ReconciledRow
  <2>2. ev = NoReport /\ NoTrace(row)
    BY <1>1 DEF RowOK, ReportsOf, NoReport
  <2> QED BY <2>1, <2>2 DEF RowOK, NoTrace, Rows, ReportStatuses
<1>2. CASE row.lease = "stranded" /\ row.state = "cancelling"
  <2>1. ReconciledRow(row) = [row EXCEPT !.state = "cancelled"]
    BY <1>2 DEF ReconciledRow
  <2> QED BY <1>2, <2>1 DEF RowOK, NoTrace, Rows
<1>3. CASE row.lease # "stranded" \/ row.state \notin {"running", "cancelling"}
  BY <1>3 DEF ReconciledRow
<1> QED BY <1>1, <1>2, <1>3

LEMMA CancelledRowOK ==
  ASSUME NEW row \in Rows, NEW ev \in Reports, NEW r \in Runs, NEW st,
         RowOK(row, ev, r)
  PROVE  RowOK(CancelledRow(row, st), ev, r)
BY DEF RowOK, NoTrace, CancelledRow, CancelState, Rows

\* acknowledge_cancellation without a report changes the state alone.
LEMMA AcknowledgedRowOK ==
  ASSUME NEW row \in Rows, NEW old \in Rows, NEW ev \in Reports, NEW r \in Runs,
         RowOK(row, ev, r)
  PROVE  RowOK(AcknowledgedRow(row, old, NoReport), ev, r)
BY DEF RowOK, NoTrace, AcknowledgedRow, Rows

\* The flush of a report over a row without evidence writes every column that
\* is not already what the report says, although it leaves out the columns
\* that had that value when the row was loaded.
LEMMA ReportedRowOK ==
  ASSUME NEW row \in Rows, NEW old \in Rows, NEW rep \in Reports, NEW r \in Runs,
         NoTrace(row), NoTrace(old), rep \in ReportsOf(Cases[r]),
         old.gate_outcome = "error" => row.gate_outcome = "error"
  PROVE  /\ rep.status = "completed" => RowOK(CompletedRow(row, old, rep), rep, r)
         /\ RowOK(AcknowledgedRow(row, old, rep), rep, r)
<1>1. rep # NoReport
  BY DEF ReportsOf, NoReport
<1>2. Written(row.execution_status, old.execution_status, rep.status) = rep.status
  BY DEF Written, NoTrace, ReportsOf
<1>3. Written(row.total_cases, old.total_cases, rep.cases) = rep.cases
  BY DEF Written, NoTrace, ReportsOf, Reports
<1>4. Written(row.gate_outcome, old.gate_outcome, rep.gate_outcome)
        = rep.gate_outcome
  BY DEF Written, NoTrace, ReportsOf, GateOutcomes
<1>5. Written(row.state, old.state, "completed") = "completed"
  BY DEF Written, NoTrace
<1>6. ReportedRow(row, old, rep) =
        [row EXCEPT !.execution_status = rep.status,
                    !.gate_outcome = rep.gate_outcome,
                    !.total_cases = rep.cases]
  BY <1>2, <1>3, <1>4 DEF ReportedRow
<1>7. rep.status = "completed" =>
        CompletedRow(row, old, rep) =
          [ReportedRow(row, old, rep) EXCEPT !.state = "completed"]
  <2>1. ReportedRow(row, old, rep).state = row.state
    BY <1>6 DEF Rows
  <2> QED BY <1>5, <2>1 DEF CompletedRow, CompletionState
<1>8. AcknowledgedRow(row, old, rep) =
        [ReportedRow(row, old, rep) EXCEPT !.state = "cancelled"]
  BY <1>1 DEF AcknowledgedRow
<1> QED BY <1>6, <1>7, <1>8 DEF RowOK, Rows, ReportsOf

----------------------------------------------------------------------------
(* The invariant is inductive *)

\* A run that has been claimed stays claimed, and the verdict "error" of a run
\* without evidence stays.
Advances(row, new) ==
  /\ row.state \notin {"absent", "created"} =>
       new.state \notin {"absent", "created"}
  /\ row.gate_outcome = "error" => new.gate_outcome = "error"

\* A step of somebody else leaves a worker's part of the invariant intact.
LEMMA BystanderOK ==
  ASSUME TypeOK, Busy, NEW v \in Workers, WorkerOK(v),
         pc'[v] = pc[v], run'[v] = run[v], done'[v] = done[v],
         report'[v] = report[v], loaded'[v] = loaded[v],
         \A r \in Runs : evidence'[r] = evidence[r] \/ evidence'[r] # NoReport,
         \A r \in Runs : rows[r].state \notin {"absent", "created"} =>
                           rows'[r].state \notin {"absent", "created"},
         \A r \in Runs : evidence'[r] = NoReport =>
                           Advances(rows[r], rows'[r])
  PROVE  WorkerOK(v)'
BY DEF WorkerOK, Busy, Working, Writing, Advances

LEMMA StepBusy == FleetInv /\ [Next]_vars => Busy'
<1> SUFFICES ASSUME FleetInv, [Next]_vars PROVE Busy'
  OBVIOUS
<1> USE DEF FleetInv, TypeOK, Busy, Working, NoCancel, NoRun, workerVars
<1>1. ASSUME NEW r \in Runs, CreateRun(r) \/ ExpireLease(r) \/ PassGrace(r)
      PROVE Busy'
  BY <1>1 DEF CreateRun, ExpireLease, PassGrace
<1>2. ASSUME NEW c \in Clients, CancelWrite(c) PROVE Busy'
  BY <1>2 DEF CancelWrite
<1>3. ASSUME NEW c \in Clients, NEW r \in Runs, CancelRead(c, r) PROVE Busy'
  BY <1>3 DEF CancelRead
<1>4. ASSUME NEW w \in Workers, Start(w) \/ Stop(w) \/ Crash(w) PROVE Busy'
  BY <1>4 DEF Start, Stop, Crash, Die, Forget
<1>5. ASSUME NEW w \in Workers, SelectCreated(w) PROVE Busy'
  BY <1>5 DEF SelectCreated, Oldest, CreatedRuns
<1>6. ASSUME NEW w \in Workers, SelectExpired(w) PROVE Busy'
  BY <1>6 DEF SelectExpired, Oldest, ReclaimableRuns
<1>7. ASSUME NEW w \in Workers, UpdateCreated(w) \/ UpdateExpired(w) PROVE Busy'
  BY <1>7 DEF UpdateCreated, UpdateExpired
<1>8. ASSUME NEW w \in Workers, Begin(w) \/ HeartbeatStep(w) \/ FinishCase(w)
      PROVE Busy'
  BY <1>8 DEF Begin, HeartbeatStep, Heartbeat, HeartbeatFails, FinishCase
<1>9. ASSUME NEW w \in Workers, NEW gate \in GateOutcomes,
             FinishExecution(w, gate)
      PROVE Busy'
  BY <1>9 DEF FinishExecution
<1>10. ASSUME NEW w \in Workers, CompleteRead(w) \/ AcknowledgeRead(w)
       PROVE Busy'
  BY <1>10 DEF CompleteRead, AcknowledgeRead, Return, Forget
<1>11. ASSUME NEW w \in Workers, CompleteWrite(w) \/ AcknowledgeWrite(w)
       PROVE Busy'
  BY <1>11 DEF CompleteWrite, AcknowledgeWrite, Return, Forget
<1>12. ASSUME NEW w \in Workers, WriteCollides(w) \/ FinishWithFailedHeartbeat(w)
       PROVE Busy'
  BY <1>12 DEF WriteCollides, FinishWithFailedHeartbeat, Die, Forget
<1>13. ASSUME UNCHANGED vars PROVE Busy'
  BY <1>13 DEF vars
<1> QED
  BY <1>1, <1>2, <1>3, <1>4, <1>5, <1>6, <1>7, <1>8, <1>9, <1>10, <1>11, <1>12,
     <1>13 DEF Next, WorkerStep

LEMMA StepRowsOK == FleetInv /\ [Next]_vars => RowsOK'
<1> SUFFICES ASSUME FleetInv, [Next]_vars PROVE RowsOK'
  OBVIOUS
<1>0. /\ TypeOK /\ Busy /\ RowsOK /\ WorkersOK
      /\ \A r \in Runs : /\ rows[r] \in Rows
                         /\ evidence[r] \in Reports
                         /\ RowOK(rows[r], evidence[r], r)
  BY DEF FleetInv, RowsOK, TypeOK
\* Most steps replace at most one row and no evidence.
<1>a. ASSUME NEW r \in Runs, NEW new, rows' = [rows EXCEPT ![r] = new],
             UNCHANGED evidence, RowOK(new, evidence[r], r)
      PROVE RowsOK'
  BY <1>0, <1>a DEF RowsOK, TypeOK
<1>b. ASSUME UNCHANGED <<rows, evidence>> PROVE RowsOK'
  BY <1>0, <1>b DEF RowsOK
<1>1. ASSUME NEW r \in Runs, CreateRun(r) PROVE RowsOK'
  <2>1. evidence[r] = NoReport
    BY <1>0, <1>1 DEF CreateRun, RowOK
  <2> QED BY <1>1, <1>a, <2>1, FreshRowsOK DEF CreateRun
<1>2. ASSUME NEW r \in Runs, ExpireLease(r) \/ PassGrace(r) PROVE RowsOK'
  <2>1. /\ RowOK([rows[r] EXCEPT !.lease = "expired"], evidence[r], r)
        /\ RowOK([rows[r] EXCEPT !.lease = "stranded"], evidence[r], r)
    BY <1>0, LeaseRowOK DEF Leases
  <2>2. CASE ExpireLease(r)
    BY <1>a, <2>1, <2>2 DEF ExpireLease
  <2>3. CASE PassGrace(r)
    BY <1>a, <2>1, <2>3 DEF PassGrace
  <2> QED BY <1>2, <2>2, <2>3
<1>3. ASSUME NEW c \in Clients, CancelWrite(c) PROVE RowsOK'
  <2>1. cancel[c].run \in Runs
    BY <1>0, <1>3 DEF Busy, CancelWrite
  <2>2. RowOK(CancelledRow(rows[cancel[c].run], cancel[c].state),
              evidence[cancel[c].run], cancel[c].run)
    BY <1>0, <2>1, CancelledRowOK
  <2> QED BY <1>3, <1>a, <2>1, <2>2 DEF CancelWrite
<1>4. ASSUME NEW w \in Workers, Start(w) PROVE RowsOK'
  <2>1. \A r \in Runs : RowOK(ReconciledRow(rows[r]), evidence[r], r)
    BY <1>0, ReconciledRowOK
  <2>2. CASE rows' = [r \in Runs |-> ReconciledRow(rows[r])]
    BY <1>4, <2>1, <2>2 DEF Start, RowsOK
  <2>3. CASE rows' = rows
    BY <1>4, <1>b, <2>3 DEF Start
  <2> QED BY <1>4, <2>2, <2>3 DEF Start
<1>5. ASSUME NEW w \in Workers, UpdateCreated(w) \/ UpdateExpired(w) PROVE RowsOK'
  <2>1. run[w] \in Runs
    BY <1>0, <1>5 DEF Busy, UpdateCreated, UpdateExpired
  <2>2. rows[run[w]].state \in {"created", "running"} =>
          RowOK(ClaimedRow(rows[run[w]], w), evidence[run[w]], run[w])
    BY <1>0, <2>1, ClaimedRowOK
  <2>3. CASE rows' = rows
    BY <1>5, <1>b, <2>3 DEF UpdateCreated, UpdateExpired
  <2>4. CASE rows' # rows
    BY <1>5, <1>a, <2>1, <2>2, <2>4 DEF UpdateCreated, UpdateExpired, ClaimMatches
  <2> QED BY <2>3, <2>4
<1>6. ASSUME NEW w \in Workers, Heartbeat(w) PROVE RowsOK'
  <2>1. run[w] \in Runs
    BY <1>0, <1>6 DEF Busy, Heartbeat, Working
  <2>2. RowOK(HeartbeatRow(rows[run[w]]), evidence[run[w]], run[w])
    BY <1>0, <2>1, LeaseRowOK DEF HeartbeatRow, Leases
  <2> QED BY <1>6, <1>a, <1>b, <2>1, <2>2 DEF Heartbeat
<1>7. ASSUME NEW w \in Workers, CompleteWrite(w) \/ AcknowledgeWrite(w)
      PROVE RowsOK'
  <2> DEFINE q == run[w]
  <2>1. q \in Runs /\ WorkerOK(w)
    BY <1>0, <1>7 DEF Busy, CompleteWrite, AcknowledgeWrite, Working, WorkersOK
  <2>2. /\ loaded[w] \in Rows /\ report[w] \in Reports
        /\ rows[q] \in Rows /\ evidence[q] \in Reports
        /\ RowOK(rows[q], evidence[q], q)
    BY <1>0, <2>1 DEF TypeOK
  <2>3. CASE report[w] = NoReport
    <3>1. AcknowledgeWrite(w) /\ UNCHANGED evidence
      BY <1>7, <2>1, <2>3 DEF CompleteWrite, AcknowledgeWrite, Store, WorkerOK,
                              ReportsOf, NoReport
    <3>2. RowOK(AcknowledgedRow(rows[q], loaded[w], report[w]), evidence[q], q)
      BY <2>2, <2>3, AcknowledgedRowOK, <2>1
    <3> QED BY <1>a, <2>1, <3>1, <3>2 DEF AcknowledgeWrite
  <2>4. CASE report[w] # NoReport
    <3>1. report[w] \in ReportsOf(Cases[q])
      BY <1>7, <2>1, <2>4 DEF WorkerOK, CompleteWrite, AcknowledgeWrite
    <3>2. ~Collides(evidence[q], report[w])
      BY <1>7 DEF CompleteWrite, AcknowledgeWrite
    <3>3. evidence[q] = NoReport /\ NoTrace(rows[q])
      BY <2>2, <3>1, <3>2 DEF Collides, RowOK, ReportsOf
    <3>4. /\ NoTrace(loaded[w])
          /\ loaded[w].gate_outcome = "error" => rows[q].gate_outcome = "error"
      BY <1>7, <2>1, <3>3 DEF WorkerOK, Writing, CompleteWrite, AcknowledgeWrite
    <3>5. /\ report[w].status = "completed" =>
               RowOK(CompletedRow(rows[q], loaded[w], report[w]), report[w], q)
          /\ RowOK(AcknowledgedRow(rows[q], loaded[w], report[w]), report[w], q)
      BY <2>1, <2>2, <3>1, <3>3, <3>4, ReportedRowOK
    <3>6. /\ evidence' = [evidence EXCEPT ![q] = report[w]]
          /\ \E new : /\ rows' = [rows EXCEPT ![q] = new]
                      /\ RowOK(new, report[w], q)
      BY <1>7, <2>1, <2>2, <3>1, <3>5 DEF CompleteWrite, AcknowledgeWrite, Store,
         WorkerOK, ReportsOf, Reports
    <3> QED BY <1>0, <2>1, <3>6 DEF RowsOK, TypeOK
  <2> QED BY <2>3, <2>4
<1>8. ASSUME NEW w \in Workers,
             \/ Stop(w) \/ Crash(w) \/ SelectCreated(w) \/ SelectExpired(w)
             \/ Begin(w) \/ HeartbeatFails(w) \/ FinishCase(w)
             \/ \E gate \in GateOutcomes : FinishExecution(w, gate)
             \/ FinishWithFailedHeartbeat(w) \/ WriteCollides(w)
             \/ CompleteRead(w) \/ AcknowledgeRead(w)
      PROVE RowsOK'
  BY <1>8, <1>b DEF Stop, Crash, SelectCreated, SelectExpired, Begin,
     HeartbeatFails, FinishCase, FinishExecution, FinishWithFailedHeartbeat,
     WriteCollides, CompleteRead, AcknowledgeRead
<1>9. ASSUME NEW c \in Clients, NEW r \in Runs, CancelRead(c, r) PROVE RowsOK'
  BY <1>9, <1>b DEF CancelRead
<1>10. ASSUME UNCHANGED vars PROVE RowsOK'
  BY <1>10, <1>b DEF vars
<1> QED
  BY <1>1, <1>2, <1>3, <1>4, <1>5, <1>6, <1>7, <1>8, <1>9, <1>10
  DEF Next, WorkerStep, HeartbeatStep

\* No step takes a claimed run back, and a step that stores nothing keeps the
\* verdict "error".
LEMMA StepAdvances ==
  FleetInv /\ [Next]_vars =>
    \A r \in Runs :
      /\ rows[r].state \notin {"absent", "created"} =>
           rows'[r].state \notin {"absent", "created"}
      /\ evidence'[r] = evidence[r] \/ evidence'[r] # NoReport
      /\ evidence'[r] = NoReport => Advances(rows[r], rows'[r])
<1> SUFFICES ASSUME FleetInv, [Next]_vars, NEW q \in Runs
             PROVE  /\ rows[q].state \notin {"absent", "created"} =>
                         rows'[q].state \notin {"absent", "created"}
                    /\ evidence'[q] = evidence[q] \/ evidence'[q] # NoReport
                    /\ evidence'[q] = NoReport => Advances(rows[q], rows'[q])
  OBVIOUS
<1> DEFINE Goal == /\ rows[q].state \notin {"absent", "created"} =>
                        rows'[q].state \notin {"absent", "created"}
                   /\ evidence'[q] = evidence[q] \/ evidence'[q] # NoReport
                   /\ evidence'[q] = NoReport => Advances(rows[q], rows'[q])
<1>0. /\ TypeOK /\ Busy /\ WorkersOK /\ rows[q] \in Rows
      /\ RowOK(rows[q], evidence[q], q)
  BY DEF FleetInv, TypeOK, RowsOK
<1>b. ASSUME UNCHANGED <<rows, evidence>> PROVE Goal
  BY <1>b DEF Advances
<1>1. ASSUME NEW r \in Runs, CreateRun(r) PROVE Goal
  BY <1>0, <1>1 DEF CreateRun, TypeOK, Advances, RowOK
<1>2. ASSUME NEW r \in Runs, ExpireLease(r) \/ PassGrace(r) PROVE Goal
  BY <1>0, <1>2 DEF ExpireLease, PassGrace, TypeOK, Advances, Rows
<1>3. ASSUME NEW c \in Clients, CancelWrite(c) PROVE Goal
  BY <1>0, <1>3 DEF CancelWrite, CancelledRow, CancelState, TypeOK, Advances, Rows
<1>4. ASSUME NEW w \in Workers, Start(w) PROVE Goal
  <2>1. ReconciledRow(rows[q]).state \in {"absent", "created"} =>
          rows[q].state \in {"absent", "created"}
    BY <1>0 DEF ReconciledRow, Rows
  <2>2. rows[q].gate_outcome = "error" =>
          ReconciledRow(rows[q]).gate_outcome = "error"
    BY <1>0 DEF ReconciledRow, Rows
  <2> QED BY <1>4, <2>1, <2>2 DEF Start, Advances
<1>5. ASSUME NEW w \in Workers, UpdateCreated(w) \/ UpdateExpired(w) PROVE Goal
  <2>1. run[w] \in Runs
    BY <1>0, <1>5 DEF Busy, UpdateCreated, UpdateExpired
  <2>2. /\ UNCHANGED evidence
        /\ \/ UNCHANGED rows
           \/ rows' = [rows EXCEPT ![run[w]] = ClaimedRow(rows[run[w]], w)]
    BY <1>5 DEF UpdateCreated, UpdateExpired
  <2>3. /\ ClaimedRow(rows[q], w).state = "running"
        /\ ClaimedRow(rows[q], w).gate_outcome = rows[q].gate_outcome
    BY <1>0 DEF ClaimedRow, Rows
  <2> QED BY <1>0, <1>b, <2>1, <2>2, <2>3 DEF TypeOK, Advances
<1>6. ASSUME NEW w \in Workers, Heartbeat(w) PROVE Goal
  <2>1. run[w] \in Runs
    BY <1>0, <1>6 DEF Busy, Heartbeat, Working
  <2> QED BY <1>0, <1>6, <2>1 DEF Heartbeat, HeartbeatRow, TypeOK, Advances, Rows
<1>7. ASSUME NEW w \in Workers, CompleteWrite(w) PROVE Goal
  <2>1. run[w] \in Runs /\ report[w] \in Reports /\ report[w] \in ReportsOf(Cases[run[w]])
    BY <1>0, <1>7 DEF Busy, CompleteWrite, Working, WorkersOK, WorkerOK, TypeOK
  <2>2. evidence' = [evidence EXCEPT ![run[w]] = report[w]] /\ report[w] # NoReport
    BY <1>7, <2>1 DEF CompleteWrite, Store, ReportsOf, NoReport, Reports
  <2>3. CASE q # run[w]
    BY <1>0, <1>7, <2>1, <2>2, <2>3 DEF CompleteWrite, TypeOK, Advances
  <2>4. CASE q = run[w]
    <3>1. evidence'[q] = report[w]
      BY <1>0, <2>1, <2>2, <2>4 DEF TypeOK
    <3>2. CompletedRow(rows[q], loaded[w], report[w]).state \in {"absent", "created"}
            => rows[q].state \in {"absent", "created"}
      BY <1>0 DEF CompletedRow, ReportedRow, CompletionState, Written, Rows
    <3>3. rows'[q] = CompletedRow(rows[q], loaded[w], report[w])
      BY <1>0, <1>7, <2>1, <2>4 DEF CompleteWrite, TypeOK
    <3> QED BY <2>2, <3>1, <3>2, <3>3
  <2> QED BY <2>3, <2>4
<1>8. ASSUME NEW w \in Workers, AcknowledgeWrite(w) PROVE Goal
  <2>1. run[w] \in Runs /\ report[w] \in Reports
    BY <1>0, <1>8 DEF Busy, AcknowledgeWrite, Working, TypeOK
  <2>2. rows' = [rows EXCEPT ![run[w]] =
                   AcknowledgedRow(rows[run[w]], loaded[w], report[w])]
    BY <1>8 DEF AcknowledgeWrite
  <2>3. AcknowledgedRow(rows[q], loaded[w], report[w]).state = "cancelled"
    BY <1>0 DEF AcknowledgedRow, ReportedRow, Rows
  <2>4. CASE report[w] = NoReport
    <3>1. UNCHANGED evidence
      BY <1>8, <2>4 DEF AcknowledgeWrite, Store, NoReport
    <3>2. AcknowledgedRow(rows[q], loaded[w], report[w]).gate_outcome
            = rows[q].gate_outcome
      BY <1>0, <2>4 DEF AcknowledgedRow, Rows
    <3> QED BY <1>0, <2>1, <2>2, <2>3, <3>1, <3>2 DEF TypeOK, Advances
  <2>5. CASE report[w] # NoReport
    <3>1. report[w] \in ReportsOf(Cases[run[w]])
      BY <1>0, <1>8, <2>5 DEF AcknowledgeWrite, WorkersOK, WorkerOK
    <3>2. evidence' = [evidence EXCEPT ![run[w]] = report[w]]
      BY <1>8, <2>1, <3>1 DEF AcknowledgeWrite, Store, ReportsOf, Reports
    <3> QED BY <1>0, <2>1, <2>2, <2>3, <2>5, <3>2 DEF TypeOK, Advances
  <2> QED BY <2>4, <2>5
<1>9. ASSUME NEW w \in Workers,
             \/ Stop(w) \/ Crash(w) \/ SelectCreated(w) \/ SelectExpired(w)
             \/ Begin(w) \/ HeartbeatFails(w) \/ FinishCase(w)
             \/ \E gate \in GateOutcomes : FinishExecution(w, gate)
             \/ FinishWithFailedHeartbeat(w) \/ WriteCollides(w)
             \/ CompleteRead(w) \/ AcknowledgeRead(w)
      PROVE Goal
  BY <1>9, <1>b DEF Stop, Crash, SelectCreated, SelectExpired, Begin,
     HeartbeatFails, FinishCase, FinishExecution, FinishWithFailedHeartbeat,
     WriteCollides, CompleteRead, AcknowledgeRead
<1>10. ASSUME NEW c \in Clients, NEW r \in Runs, CancelRead(c, r) PROVE Goal
  BY <1>10, <1>b DEF CancelRead
<1>11. ASSUME UNCHANGED vars PROVE Goal
  BY <1>11, <1>b DEF vars
<1> QED
  BY <1>1, <1>2, <1>3, <1>4, <1>5, <1>6, <1>7, <1>8, <1>9, <1>10, <1>11
  DEF Next, WorkerStep, HeartbeatStep

LEMMA StepWorkersOK == FleetInv /\ [Next]_vars => WorkersOK'
<1> SUFFICES ASSUME FleetInv, [Next]_vars, NEW v \in Workers PROVE WorkerOK(v)'
  BY DEF WorkersOK
<1>0. TypeOK /\ Busy /\ RowsOK /\ WorkerOK(v)
  BY DEF FleetInv, WorkersOK
\* The step is not v's own.
<1>a. ASSUME pc'[v] = pc[v], run'[v] = run[v], done'[v] = done[v],
             report'[v] = report[v], loaded'[v] = loaded[v]
      PROVE WorkerOK(v)'
  BY <1>0, <1>a, BystanderOK, StepAdvances
<1>b. ASSUME UNCHANGED workerVars PROVE WorkerOK(v)'
  BY <1>a, <1>b DEF workerVars
\* v leaves run_once.
<1>c. ASSUME pc'[v] \in {"idle", "dead"}, done'[v] = 0, report'[v] = NoReport
      PROVE WorkerOK(v)'
  BY <1>c DEF WorkerOK, Working, Fresh, Writing
<1>1. ASSUME NEW r \in Runs, CreateRun(r) \/ ExpireLease(r) \/ PassGrace(r)
      PROVE WorkerOK(v)'
  BY <1>1, <1>b DEF CreateRun, ExpireLease, PassGrace
<1>2. ASSUME NEW c \in Clients, CancelWrite(c) PROVE WorkerOK(v)'
  BY <1>2, <1>b DEF CancelWrite
<1>3. ASSUME NEW c \in Clients, NEW r \in Runs, CancelRead(c, r)
      PROVE WorkerOK(v)'
  BY <1>3, <1>b DEF CancelRead
<1>4. ASSUME NEW w \in Workers, Start(w) \/ Stop(w) PROVE WorkerOK(v)'
  <2>1. CASE v # w
    BY <1>0, <1>4, <1>a, <2>1 DEF Start, Stop, TypeOK
  <2>2. CASE v = w
    BY <1>0, <1>4, <2>2 DEF Start, Stop, TypeOK, WorkerOK, Working, Fresh, Writing
  <2> QED BY <2>1, <2>2
<1>5. ASSUME NEW w \in Workers,
             \/ Crash(w) \/ FinishWithFailedHeartbeat(w) \/ WriteCollides(w)
             \/ CompleteWrite(w) \/ AcknowledgeWrite(w)
      PROVE WorkerOK(v)'
  <2>1. Die(w) \/ Return(w)
    BY <1>5 DEF Crash, FinishWithFailedHeartbeat, WriteCollides, CompleteWrite,
                AcknowledgeWrite
  <2>2. CASE v # w
    BY <1>0, <1>a, <2>1, <2>2 DEF Die, Return, Forget, TypeOK
  <2>3. CASE v = w
    BY <1>0, <1>c, <2>1, <2>3 DEF Die, Return, Forget, TypeOK
  <2> QED BY <2>2, <2>3
<1>6. ASSUME NEW w \in Workers, SelectCreated(w) \/ SelectExpired(w)
      PROVE WorkerOK(v)'
  <2>1. CASE v # w
    BY <1>0, <1>6, <1>a, <2>1 DEF SelectCreated, SelectExpired, TypeOK
  <2>2. CASE v = w
    BY <1>0, <1>6, <2>2 DEF SelectCreated, SelectExpired, TypeOK, WorkerOK,
                            Working, Fresh, Writing
  <2> QED BY <2>1, <2>2
<1>7. ASSUME NEW w \in Workers, UpdateCreated(w) \/ UpdateExpired(w)
      PROVE WorkerOK(v)'
  <2>1. CASE v # w
    BY <1>0, <1>7, <1>a, <2>1 DEF UpdateCreated, UpdateExpired, TypeOK
  <2>2. CASE v = w
    <3>1. run[w] \in Runs
      BY <1>0, <1>7 DEF Busy, UpdateCreated, UpdateExpired
    <3>2. /\ pc'[w] \in {"claimed", "scan_expired", "idle"}
          /\ pc'[w] = "claimed" =>
               run' = run /\ rows'[run[w]] = ClaimedRow(rows[run[w]], w)
          /\ UNCHANGED <<done, report>>
          /\ pc[w] \in {"claim_created", "claim_expired"}
      BY <1>0, <1>7, <3>1 DEF UpdateCreated, UpdateExpired, TypeOK
    <3>3. ClaimedRow(rows[run[w]], w).state = "running"
      BY <1>0, <3>1 DEF ClaimedRow, TypeOK, Rows
    <3> QED BY <1>0, <2>2, <3>1, <3>2, <3>3 DEF WorkerOK, Working, Fresh, Writing
  <2> QED BY <2>1, <2>2
<1>8. ASSUME NEW w \in Workers, Begin(w) PROVE WorkerOK(v)'
  <2>1. CASE v # w
    BY <1>0, <1>8, <1>a, <2>1 DEF Begin, TypeOK
  <2>2. CASE v = w
    <3>1. run[w] \in Runs
      BY <1>0, <1>8 DEF Busy, Begin, Working
    <3>2. 0 < Cases[run[w]]
      BY <3>1, CasesAssumption
    <3>3. /\ pc'[w] \in {"acknowledge", "executing"}
          /\ pc[w] = "claimed"
          /\ UNCHANGED <<rows, run, done, report>>
      BY <1>0, <1>8 DEF Begin, TypeOK
    <3> QED BY <1>0, <2>2, <3>2, <3>3 DEF WorkerOK, Working, Fresh, Writing
  <2> QED BY <2>1, <2>2
<1>9. ASSUME NEW w \in Workers, Heartbeat(w) \/ HeartbeatFails(w)
      PROVE WorkerOK(v)'
  BY <1>9, <1>a DEF Heartbeat, HeartbeatFails
<1>10. ASSUME NEW w \in Workers, FinishCase(w) PROVE WorkerOK(v)'
  <2>1. CASE v # w
    BY <1>0, <1>10, <1>a, <2>1 DEF FinishCase, TypeOK
  <2>2. CASE v = w
    BY <1>0, <1>10, <2>2 DEF FinishCase, TypeOK, WorkerOK, Working, Fresh, Writing
  <2> QED BY <2>1, <2>2
<1>11. ASSUME NEW w \in Workers, NEW gate \in GateOutcomes,
              FinishExecution(w, gate)
       PROVE WorkerOK(v)'
  <2>1. CASE v # w
    BY <1>0, <1>11, <1>a, <2>1 DEF FinishExecution, TypeOK
  <2>2. CASE v = w
    <3> DEFINE n == done[w] + 1
               total == Cases[run[w]]
               token == hb[w] = "lost"
    <3>1. /\ pc[w] = "executing" /\ run[w] \in Runs
          /\ n \in Nat /\ n > 0 /\ total \in Nat /\ n <= total
      BY <1>0, <1>11, <2>2, CasesAssumption
      DEF FinishExecution, Busy, Working, WorkerOK, TypeOK
    <3>2. n = total \/ token
      BY <1>11 DEF FinishExecution, LoopEnds
    <3>3. report'[w] = [status |-> ReportStatus(n, total, token),
                        gate_outcome |-> gate, cases |-> n]
      BY <1>0, <1>11 DEF FinishExecution, TypeOK
    <3>4. report'[w] \in ReportsOf(Cases[run[w]])
      BY <3>1, <3>2, <3>3 DEF ReportsOf, ReportStatus, ReportStatuses
    <3>5. /\ pc'[w] = AfterExecution(token)
          /\ UNCHANGED <<rows, run>>
      BY <1>0, <1>11 DEF FinishExecution, TypeOK
    <3>6. pc'[w] = "complete" => report'[w].status = "completed"
      BY <3>3, <3>5 DEF AfterExecution, ReportStatus
    <3>7. pc'[w] \in {"acknowledge", "complete"}
      BY <3>5 DEF AfterExecution
    <3>8. rows'[run'[w]].state \notin {"absent", "created"} /\ run'[w] = run[w]
      BY <1>0, <2>2, <3>1, <3>5 DEF WorkerOK, Working
    <3> QED BY <2>2, <3>4, <3>6, <3>7, <3>8
            DEF WorkerOK, Working, Fresh, Writing, ReportsOf
  <2> QED BY <2>1, <2>2
<1>12. ASSUME NEW w \in Workers, CompleteRead(w) \/ AcknowledgeRead(w)
       PROVE WorkerOK(v)'
  <2>1. CASE v # w
    BY <1>0, <1>12, <1>a, <2>1
    DEF CompleteRead, AcknowledgeRead, Return, Forget, TypeOK
  <2>2. CASE v = w /\ Return(w)
    BY <1>0, <1>c, <2>2 DEF Return, Forget, TypeOK
  <2>3. CASE v = w /\ ~Return(w)
    <3>1. run[w] \in Runs
      BY <1>0, <1>12 DEF Busy, CompleteRead, AcknowledgeRead, Working
    <3>2. /\ UNCHANGED <<rows, evidence, run, done, report>>
          /\ loaded'[w] = rows[run[w]]
          /\ \/ pc[w] = "complete" /\ pc'[w] = "complete_write"
             \/ pc[w] = "acknowledge" /\ pc'[w] = "acknowledge_write"
      BY <1>0, <1>12, <2>3 DEF CompleteRead, AcknowledgeRead, TypeOK
    <3>3. evidence[run[w]] = NoReport => NoTrace(rows[run[w]])
      BY <1>0, <3>1 DEF RowsOK, RowOK, ReportsOf, NoReport
    <3> QED BY <1>0, <2>3, <3>2, <3>3
            DEF WorkerOK, Working, Fresh, Writing, NoTrace, ReportsOf
  <2> QED BY <2>1, <2>2, <2>3
<1>13. ASSUME UNCHANGED vars PROVE WorkerOK(v)'
  BY <1>13, <1>b DEF vars
<1> QED
  BY <1>1, <1>2, <1>3, <1>4, <1>5, <1>6, <1>7, <1>8, <1>9, <1>10, <1>11, <1>12,
     <1>13 DEF Next, WorkerStep, HeartbeatStep

----------------------------------------------------------------------------
(* Theorems *)

LEMMA InitFleetInv == Init => FleetInv
<1> SUFFICES ASSUME Init PROVE FleetInv
  OBVIOUS
<1>1. TypeOK
  BY InitTypeOK
<1>2. Busy
  BY DEF Init, Busy, Working, NoCancel
<1>3. RowsOK
  BY FreshRowsOK DEF Init, RowsOK
<1>4. WorkersOK
  BY DEF Init, WorkersOK, WorkerOK, Working, Fresh, Writing
<1> QED BY <1>1, <1>2, <1>3, <1>4 DEF FleetInv

LEMMA StepFleetInv == FleetInv /\ [Next]_vars => FleetInv'
BY StepTypeOK, StepBusy, StepRowsOK, StepWorkersOK DEF FleetInv

\* The inductive invariant holds in every reachable state of the fleet.
THEOREM FleetInvariance == Spec => []FleetInv
BY InitFleetInv, StepFleetInv, PTL DEF Spec

\* Type correctness of the fleet and of the rows it shares.
THEOREM FleetTypeCorrect == Spec => []TypeOK
<1>1. FleetInv => TypeOK
  BY DEF FleetInv
<1> QED BY <1>1, FleetInvariance, PTL

\* The verdict columns always describe the stored case rows: no interleaving of
\* complete_run, acknowledge_cancellation, reconcile_stranded_runs, cancel_run
\* and crashes leaves a verdict without its evidence or next to other evidence.
THEOREM VerdictTheorem == Spec => []VerdictMatchesEvidence
<1>1. FleetInv => VerdictMatchesEvidence
  <2> SUFFICES ASSUME FleetInv, NEW r \in Runs
               PROVE  IF evidence[r].cases > 0
                      THEN /\ rows[r].gate_outcome = evidence[r].gate_outcome
                           /\ rows[r].execution_status = evidence[r].status
                           /\ rows[r].total_cases = evidence[r].cases
                      ELSE /\ rows[r].gate_outcome \notin {"pass", "fail"}
                           /\ rows[r].total_cases = 0
    BY DEF VerdictMatchesEvidence
  <2>1. RowOK(rows[r], evidence[r], r)
    BY DEF FleetInv, RowsOK
  <2> QED BY <2>1 DEF RowOK, NoTrace, ReportsOf, NoReport
<1> QED BY <1>1, FleetInvariance, PTL

\* A completed run has the evidence of every case of its specification.
THEOREM CompletedTheorem == Spec => []CompletedIsFull
<1>1. FleetInv => CompletedIsFull
  BY DEF FleetInv, RowsOK, RowOK, ReportsOf, NoReport, NoTrace, CompletedIsFull
<1> QED BY <1>1, FleetInvariance, PTL

\* A failed run is a reconciled run without evidence, with the verdict "error".
THEOREM FailedTheorem == Spec => []FailedIsReconciled
<1>1. FleetInv => FailedIsReconciled
  BY DEF FleetInv, RowsOK, RowOK, FailedIsReconciled
<1> QED BY <1>1, FleetInvariance, PTL

\* No worker can claim or execute a run that has a result.
THEOREM RunnableTheorem == Spec => []RunnableHasNoEvidence
<1>1. FleetInv => RunnableHasNoEvidence
  BY DEF FleetInv, RowsOK, RowOK, RunnableHasNoEvidence
<1> QED BY <1>1, FleetInvariance, PTL

LEMMA StepEvidence ==
  FleetInv /\ [Next]_vars =>
    \A r \in Runs : evidence[r] # NoReport => evidence'[r] = evidence[r]
<1> SUFFICES ASSUME FleetInv, [Next]_vars, NEW r \in Runs, evidence[r] # NoReport
             PROVE  evidence'[r] = evidence[r]
  OBVIOUS
<1>1. evidence[r].cases > 0
  BY DEF FleetInv, RowsOK, RowOK, ReportsOf
<1>2. ASSUME NEW w \in Workers, CompleteWrite(w) \/ AcknowledgeWrite(w)
      PROVE  evidence'[r] = evidence[r]
  <2>1. run[w] \in Runs /\ report[w] \in Reports /\ evidence \in [Runs -> Reports]
    BY <1>2 DEF FleetInv, TypeOK, Busy, CompleteWrite, AcknowledgeWrite, Working
  <2>2. Store(w) /\ ~Collides(evidence[run[w]], report[w])
    BY <1>2 DEF CompleteWrite, AcknowledgeWrite
  <2>3. CASE report[w].cases = 0
    BY <2>2, <2>3 DEF Store
  <2>4. CASE report[w].cases # 0
    <3>1. run[w] # r
      BY <1>1, <2>1, <2>2, <2>4 DEF Collides, Reports
    <3> QED BY <2>1, <2>2, <2>4, <3>1 DEF Store
  <2> QED BY <2>3, <2>4
<1>3. ASSUME NEW w \in Workers,
             \/ Start(w) \/ Stop(w) \/ Crash(w) \/ SelectCreated(w)
             \/ UpdateCreated(w) \/ SelectExpired(w) \/ UpdateExpired(w)
             \/ Begin(w) \/ HeartbeatStep(w) \/ FinishCase(w)
             \/ \E gate \in GateOutcomes : FinishExecution(w, gate)
             \/ FinishWithFailedHeartbeat(w) \/ WriteCollides(w)
             \/ CompleteRead(w) \/ AcknowledgeRead(w)
      PROVE evidence'[r] = evidence[r]
  BY <1>3 DEF Start, Stop, Crash, SelectCreated, UpdateCreated, SelectExpired,
     UpdateExpired, Begin, HeartbeatStep, Heartbeat, HeartbeatFails, FinishCase,
     FinishExecution, FinishWithFailedHeartbeat, WriteCollides, CompleteRead,
     AcknowledgeRead
<1>4. ASSUME NEW q \in Runs, CreateRun(q) \/ ExpireLease(q) \/ PassGrace(q)
      PROVE evidence'[r] = evidence[r]
  BY <1>4 DEF CreateRun, ExpireLease, PassGrace
<1>5. ASSUME NEW c \in Clients, CancelWrite(c) \/ \E q \in Runs : CancelRead(c, q)
      PROVE evidence'[r] = evidence[r]
  BY <1>5 DEF CancelWrite, CancelRead
<1>6. ASSUME UNCHANGED vars PROVE evidence'[r] = evidence[r]
  BY <1>6 DEF vars
<1> QED BY <1>2, <1>3, <1>4, <1>5, <1>6 DEF Next, WorkerStep

\* The evidence of a run, once written, never changes.
THEOREM EvidenceTheorem == Spec => EvidenceWrittenOnce
<1>1. FleetInv /\ [Next]_vars =>
        [\A r \in Runs : evidence[r] # NoReport => evidence'[r] = evidence[r]]_vars
  BY StepEvidence
<1> QED BY <1>1, FleetInvariance, PTL DEF Spec, EvidenceWrittenOnce

\* The states of a run that is, or may come, in the queue of the workers.
Queue == {"absent", "created", "running"}

LEMMA StepQueue ==
  FleetInv /\ [Next]_vars =>
    \A r \in Runs :
      /\ rows[r].state \notin Queue => rows'[r].state \notin Queue
      /\ rows[r].state # "absent" => rows'[r].state # "absent"
      /\ rows[r].state # "absent" /\ rows'[r].state = "created" =>
           rows[r].state = "created"
<1> SUFFICES ASSUME FleetInv, [Next]_vars, NEW q \in Runs
             PROVE  /\ rows[q].state \notin Queue => rows'[q].state \notin Queue
                    /\ rows[q].state # "absent" => rows'[q].state # "absent"
                    /\ rows[q].state # "absent" /\ rows'[q].state = "created" =>
                         rows[q].state = "created"
  OBVIOUS
<1> DEFINE Kept == \/ rows'[q].state = rows[q].state
                   \/ rows'[q].state \notin {"absent", "created", "running"}
                   \/ rows[q].state \in {"created", "running"} /\
                        rows'[q].state = "running"
                   \/ rows[q].state = "absent"
<1>0. TypeOK /\ Busy /\ rows[q] \in Rows
  BY DEF FleetInv, TypeOK
<1>1. ASSUME NEW r \in Runs, CreateRun(r) \/ ExpireLease(r) \/ PassGrace(r)
      PROVE Kept
  <2>1. CASE CreateRun(r)
    BY <1>0, <2>1 DEF CreateRun, TypeOK
  <2>2. CASE ExpireLease(r)
    BY <1>0, <2>2 DEF ExpireLease, TypeOK, Rows
  <2>3. CASE PassGrace(r)
    BY <1>0, <2>3 DEF PassGrace, TypeOK, Rows
  <2> QED BY <1>1, <2>1, <2>2, <2>3
<1>2. ASSUME NEW c \in Clients, CancelWrite(c) PROVE Kept
  BY <1>0, <1>2 DEF CancelWrite, CancelledRow, CancelState, TypeOK, Rows
<1>3. ASSUME NEW w \in Workers, Start(w) PROVE Kept
  <2>1. \/ ReconciledRow(rows[q]).state = rows[q].state
        \/ ReconciledRow(rows[q]).state \in {"failed", "cancelled"}
    BY <1>0 DEF ReconciledRow, Rows
  <2> QED BY <1>3, <2>1 DEF Start
<1>4. ASSUME NEW w \in Workers, UpdateCreated(w) \/ UpdateExpired(w) PROVE Kept
  <2>1. run[w] \in Runs
    BY <1>0, <1>4 DEF Busy, UpdateCreated, UpdateExpired
  <2>2. \/ UNCHANGED rows
        \/ /\ rows' = [rows EXCEPT ![run[w]] = ClaimedRow(rows[run[w]], w)]
           /\ rows[run[w]].state \in {"created", "running"}
    BY <1>4 DEF UpdateCreated, UpdateExpired, ClaimMatches
  <2>3. ClaimedRow(rows[q], w).state = "running"
    BY <1>0 DEF ClaimedRow, Rows
  <2> QED BY <1>0, <2>1, <2>2, <2>3 DEF TypeOK
<1>5. ASSUME NEW w \in Workers, Heartbeat(w) PROVE Kept
  <2>1. run[w] \in Runs
    BY <1>0, <1>5 DEF Busy, Heartbeat, Working
  <2> QED BY <1>0, <1>5, <2>1 DEF Heartbeat, HeartbeatRow, TypeOK, Rows
<1>6. ASSUME NEW w \in Workers, CompleteWrite(w) \/ AcknowledgeWrite(w) PROVE Kept
  <2>1. run[w] \in Runs
    BY <1>0, <1>6 DEF Busy, CompleteWrite, AcknowledgeWrite, Working
  <2>2. LET new == CompletedRow(rows[q], loaded[w], report[w])
        IN  new.state \in {"completed", "failed", rows[q].state}
    BY <1>0 DEF CompletedRow, ReportedRow, CompletionState, Written, Rows
  <2>3. AcknowledgedRow(rows[q], loaded[w], report[w]).state = "cancelled"
    BY <1>0 DEF AcknowledgedRow, ReportedRow, Rows
  <2>4. CASE CompleteWrite(w)
    BY <1>0, <2>1, <2>2, <2>4 DEF CompleteWrite, TypeOK
  <2>5. CASE AcknowledgeWrite(w)
    BY <1>0, <2>1, <2>3, <2>5 DEF AcknowledgeWrite, TypeOK
  <2> QED BY <1>6, <2>4, <2>5
<1>7. ASSUME NEW w \in Workers,
             \/ Stop(w) \/ Crash(w) \/ SelectCreated(w) \/ SelectExpired(w)
             \/ Begin(w) \/ HeartbeatFails(w) \/ FinishCase(w)
             \/ \E gate \in GateOutcomes : FinishExecution(w, gate)
             \/ FinishWithFailedHeartbeat(w) \/ WriteCollides(w)
             \/ CompleteRead(w) \/ AcknowledgeRead(w)
      PROVE Kept
  BY <1>7 DEF Stop, Crash, SelectCreated, SelectExpired, Begin, HeartbeatFails,
     FinishCase, FinishExecution, FinishWithFailedHeartbeat, WriteCollides,
     CompleteRead, AcknowledgeRead
<1>8. ASSUME NEW c \in Clients, NEW r \in Runs, CancelRead(c, r) PROVE Kept
  BY <1>8 DEF CancelRead
<1>9. ASSUME UNCHANGED vars PROVE Kept
  BY <1>9 DEF vars
<1>10. Kept
  BY <1>1, <1>2, <1>3, <1>4, <1>5, <1>6, <1>7, <1>8, <1>9
  DEF Next, WorkerStep, HeartbeatStep
<1> QED BY <1>10 DEF Queue

\* A run that has left the queue never comes back to it.
THEOREM QueueTheorem == Spec => NeverRunnableAgain
<1>1. FleetInv /\ [Next]_vars =>
        [\A r \in Runs :
           /\ rows[r].state \notin {"absent", "created", "running"} =>
                rows'[r].state \notin {"absent", "created", "running"}
           /\ rows[r].state # "absent" /\ rows'[r].state = "created" =>
                rows[r].state = "created"]_vars
  BY StepQueue DEF Queue
<1> QED BY <1>1, FleetInvariance, PTL DEF Spec, NeverRunnableAgain

----------------------------------------------------------------------------
(* Exclusion *)

\* A lease seen expired has lapsed, and a worker about to reclaim has seen one.
LapseInv ==
  /\ \A r \in Runs : rows[r].lease \in {"expired", "stranded"} => lapses[r] > 0
  /\ \A w \in Workers : pc[w] = "claim_expired" => lapses[run[w]] > 0
  /\ ExclusiveUntilExpiry

\* A lease becomes expired only by ExpireLease, which counts the lapse.
LEMMA StepLease ==
  FleetInv /\ [Next]_vars =>
    \A r \in Runs :
      /\ lapses'[r] >= lapses[r]
      /\ rows'[r].lease \in {"expired", "stranded"} =>
           rows[r].lease \in {"expired", "stranded"} \/ lapses'[r] > 0
<1> SUFFICES ASSUME FleetInv, [Next]_vars, NEW q \in Runs
             PROVE  /\ lapses'[q] >= lapses[q]
                    /\ rows'[q].lease \in {"expired", "stranded"} =>
                         rows[q].lease \in {"expired", "stranded"} \/ lapses'[q] > 0
  OBVIOUS
<1> DEFINE Late(row) == row.lease \in {"expired", "stranded"}
           Goal == /\ lapses'[q] >= lapses[q]
                   /\ Late(rows'[q]) => Late(rows[q]) \/ lapses'[q] > 0
<1>0. TypeOK /\ Busy /\ rows[q] \in Rows /\ lapses[q] \in Nat
  BY DEF FleetInv, TypeOK
<1>a. ASSUME UNCHANGED lapses, Late(rows'[q]) => Late(rows[q]) PROVE Goal
  BY <1>0, <1>a
<1>1. ASSUME NEW r \in Runs, CreateRun(r) PROVE Goal
  BY <1>0, <1>1, <1>a DEF CreateRun, CreatedRow, AbsentRow, TypeOK
<1>2. ASSUME NEW r \in Runs, ExpireLease(r) PROVE Goal
  BY <1>0, <1>2, LapsesAssumption DEF ExpireLease, TypeOK, Rows
<1>3. ASSUME NEW r \in Runs, PassGrace(r) PROVE Goal
  BY <1>0, <1>3, <1>a DEF PassGrace, TypeOK, Rows
<1>4. ASSUME NEW c \in Clients, CancelWrite(c) PROVE Goal
  BY <1>0, <1>4, <1>a DEF CancelWrite, CancelledRow, TypeOK, Rows
<1>5. ASSUME NEW w \in Workers, Start(w) PROVE Goal
  <2>1. ReconciledRow(rows[q]).lease = rows[q].lease
    BY <1>0 DEF ReconciledRow, Rows
  <2> QED BY <1>5, <1>a, <2>1 DEF Start
<1>6. ASSUME NEW w \in Workers, UpdateCreated(w) \/ UpdateExpired(w) PROVE Goal
  <2>1. run[w] \in Runs
    BY <1>0, <1>6 DEF Busy, UpdateCreated, UpdateExpired
  <2>2. \/ UNCHANGED rows
        \/ rows' = [rows EXCEPT ![run[w]] = ClaimedRow(rows[run[w]], w)]
    BY <1>6 DEF UpdateCreated, UpdateExpired
  <2>3. ClaimedRow(rows[q], w).lease = "live" /\ UNCHANGED lapses
    BY <1>0, <1>6 DEF ClaimedRow, Rows, UpdateCreated, UpdateExpired
  <2> QED BY <1>0, <1>a, <2>1, <2>2, <2>3 DEF TypeOK
<1>7. ASSUME NEW w \in Workers, Heartbeat(w) PROVE Goal
  <2>1. run[w] \in Runs
    BY <1>0, <1>7 DEF Busy, Heartbeat, Working
  <2>2. \/ UNCHANGED rows
        \/ rows' = [rows EXCEPT ![run[w]] = HeartbeatRow(rows[run[w]])]
    BY <1>7 DEF Heartbeat
  <2>3. HeartbeatRow(rows[q]).lease = "live" /\ UNCHANGED lapses
    BY <1>0, <1>7 DEF HeartbeatRow, Rows, Heartbeat
  <2> QED BY <1>0, <1>a, <2>1, <2>2, <2>3 DEF TypeOK
<1>8. ASSUME NEW w \in Workers, CompleteWrite(w) \/ AcknowledgeWrite(w) PROVE Goal
  <2>1. run[w] \in Runs
    BY <1>0, <1>8 DEF Busy, CompleteWrite, AcknowledgeWrite, Working
  <2>2. /\ CompletedRow(rows[q], loaded[w], report[w]).lease = rows[q].lease
        /\ AcknowledgedRow(rows[q], loaded[w], report[w]).lease = rows[q].lease
    BY <1>0 DEF CompletedRow, AcknowledgedRow, ReportedRow, Rows
  <2>3. CASE CompleteWrite(w)
    BY <1>0, <1>a, <2>1, <2>2, <2>3 DEF CompleteWrite, TypeOK
  <2>4. CASE AcknowledgeWrite(w)
    BY <1>0, <1>a, <2>1, <2>2, <2>4 DEF AcknowledgeWrite, TypeOK
  <2> QED BY <1>8, <2>3, <2>4
<1>9. ASSUME NEW w \in Workers,
             \/ Stop(w) \/ Crash(w) \/ SelectCreated(w) \/ SelectExpired(w)
             \/ Begin(w) \/ HeartbeatFails(w) \/ FinishCase(w)
             \/ \E gate \in GateOutcomes : FinishExecution(w, gate)
             \/ FinishWithFailedHeartbeat(w) \/ WriteCollides(w)
             \/ CompleteRead(w) \/ AcknowledgeRead(w)
      PROVE Goal
  BY <1>9, <1>a DEF Stop, Crash, SelectCreated, SelectExpired, Begin,
     HeartbeatFails, FinishCase, FinishExecution, FinishWithFailedHeartbeat,
     WriteCollides, CompleteRead, AcknowledgeRead
<1>10. ASSUME NEW c \in Clients, NEW r \in Runs, CancelRead(c, r) PROVE Goal
  BY <1>10, <1>a DEF CancelRead
<1>11. ASSUME UNCHANGED vars PROVE Goal
  BY <1>11, <1>a DEF vars
<1> QED
  BY <1>1, <1>2, <1>3, <1>4, <1>5, <1>6, <1>7, <1>8, <1>9, <1>10, <1>11
  DEF Next, WorkerStep, HeartbeatStep

\* A worker starts to work on a run only by winning its claim, and comes to the
\* second UPDATE only by selecting an expired lease.
LEMMA StepPC ==
  FleetInv /\ [Next]_vars =>
    \A w \in Workers :
      /\ pc'[w] \in Working =>
           \/ pc[w] \in Working /\ run'[w] = run[w]
           \/ UpdateCreated(w) /\ rows[run[w]].state = "created" /\ run' = run
           \/ pc[w] = "claim_expired" /\ run' = run
      /\ pc'[w] = "claim_expired" =>
           \/ pc[w] = "claim_expired" /\ run'[w] = run[w]
           \/ run'[w] \in Runs /\ rows[run'[w]].lease \in {"expired", "stranded"}
<1> SUFFICES ASSUME FleetInv, [Next]_vars, NEW w \in Workers
             PROVE  /\ pc'[w] \in Working =>
                         \/ pc[w] \in Working /\ run'[w] = run[w]
                         \/ /\ UpdateCreated(w) /\ rows[run[w]].state = "created"
                            /\ run' = run
                         \/ pc[w] = "claim_expired" /\ run' = run
                    /\ pc'[w] = "claim_expired" =>
                         \/ pc[w] = "claim_expired" /\ run'[w] = run[w]
                         \/ /\ run'[w] \in Runs
                            /\ rows[run'[w]].lease \in {"expired", "stranded"}
  OBVIOUS
<1> DEFINE Goal == /\ pc'[w] \in Working =>
                        \/ pc[w] \in Working /\ run'[w] = run[w]
                        \/ /\ UpdateCreated(w) /\ rows[run[w]].state = "created"
                           /\ run' = run
                        \/ pc[w] = "claim_expired" /\ run' = run
                   /\ pc'[w] = "claim_expired" =>
                        \/ pc[w] = "claim_expired" /\ run'[w] = run[w]
                        \/ /\ run'[w] \in Runs
                           /\ rows[run'[w]].lease \in {"expired", "stranded"}
<1>0. TypeOK
  BY DEF FleetInv
<1>a. ASSUME pc'[w] = pc[w], run'[w] = run[w] PROVE Goal
  BY <1>a
<1>1. ASSUME \/ \E r \in Runs : CreateRun(r) \/ ExpireLease(r) \/ PassGrace(r)
             \/ \E c \in Clients : CancelWrite(c) \/ \E r \in Runs : CancelRead(c, r)
             \/ UNCHANGED vars
      PROVE Goal
  BY <1>1, <1>a DEF CreateRun, ExpireLease, PassGrace, CancelWrite, CancelRead,
                    vars, workerVars
<1>2. ASSUME NEW v \in Workers, v # w,
             Start(v) \/ Stop(v) \/ Crash(v) \/ WorkerStep(v) \/ HeartbeatStep(v)
      PROVE Goal
  BY <1>0, <1>2, <1>a DEF Start, Stop, Crash, WorkerStep, HeartbeatStep, Heartbeat,
     HeartbeatFails, SelectCreated, UpdateCreated, SelectExpired, UpdateExpired,
     Begin, FinishCase, FinishExecution, FinishWithFailedHeartbeat, WriteCollides,
     CompleteRead, CompleteWrite, AcknowledgeRead, AcknowledgeWrite, Return, Die,
     Forget, TypeOK
<1>3. ASSUME Start(w) \/ Stop(w) \/ Crash(w) \/ FinishWithFailedHeartbeat(w)
             \/ WriteCollides(w) \/ CompleteWrite(w) \/ AcknowledgeWrite(w)
             \/ SelectCreated(w)
      PROVE Goal
  BY <1>0, <1>3 DEF Start, Stop, Crash, FinishWithFailedHeartbeat, WriteCollides,
     CompleteWrite, AcknowledgeWrite, SelectCreated, Return, Die, TypeOK, Working
<1>4. ASSUME UpdateCreated(w) PROVE Goal
  BY <1>0, <1>4 DEF UpdateCreated, ClaimMatches, TypeOK, Working
<1>5. ASSUME SelectExpired(w) PROVE Goal
  BY <1>0, <1>5 DEF SelectExpired, Oldest, ReclaimableRuns, Reclaimable, TypeOK,
                    Working
<1>6. ASSUME UpdateExpired(w) PROVE Goal
  BY <1>0, <1>6 DEF UpdateExpired, TypeOK, Working
<1>7. ASSUME \/ Begin(w) \/ HeartbeatStep(w) \/ FinishCase(w)
             \/ \E gate \in GateOutcomes : FinishExecution(w, gate)
             \/ CompleteRead(w) \/ AcknowledgeRead(w)
      PROVE Goal
  BY <1>0, <1>7 DEF Begin, HeartbeatStep, Heartbeat, HeartbeatFails, FinishCase,
     FinishExecution, AfterExecution, CompleteRead, AcknowledgeRead, Return, Forget,
     TypeOK, Working
<1> QED
  BY <1>1, <1>2, <1>3, <1>4, <1>5, <1>6, <1>7 DEF Next, WorkerStep

LEMMA StepLapseInv == FleetInv /\ LapseInv /\ [Next]_vars => LapseInv'
<1> SUFFICES ASSUME FleetInv, LapseInv, [Next]_vars PROVE LapseInv'
  OBVIOUS
<1>0. /\ TypeOK /\ Busy /\ WorkersOK /\ ExclusiveUntilExpiry
      /\ \A r \in Runs : lapses[r] \in Nat /\ lapses'[r] \in Nat
      /\ \A r \in Runs : lapses'[r] >= lapses[r]
      /\ \A r \in Runs : rows[r].lease \in {"expired", "stranded"} => lapses[r] > 0
      /\ \A w \in Workers : pc[w] = "claim_expired" => lapses[run[w]] > 0
  <2>1. TypeOK'
    BY StepFleetInv DEF FleetInv
  <2> QED BY <2>1, StepLease DEF FleetInv, LapseInv, TypeOK
<1>1. \A r \in Runs : rows'[r].lease \in {"expired", "stranded"} => lapses'[r] > 0
  BY <1>0, StepLease
<1>2. ASSUME NEW w \in Workers, pc'[w] = "claim_expired"
      PROVE  lapses'[run'[w]] > 0
  <2>1. CASE pc[w] = "claim_expired" /\ run'[w] = run[w]
    <3>1. run[w] \in Runs
      BY <1>0, <2>1 DEF Busy
    <3> QED BY <1>0, <2>1, <3>1
  <2>2. CASE run'[w] \in Runs /\ rows[run'[w]].lease \in {"expired", "stranded"}
    BY <1>0, <2>2
  <2> QED BY <1>2, <2>1, <2>2, StepPC
<1>3. ASSUME NEW r \in Runs, lapses'[r] = 0, NEW v \in Workers, NEW w \in Workers,
             pc'[v] \in Working, run'[v] = r, pc'[w] \in Working, run'[w] = r
      PROVE  v = w
  <2>1. lapses[r] = 0
    BY <1>0, <1>3
  \* A worker that holds r afterwards held it before or has just claimed it
  \* from "created", in which case nobody held it.
  <2>2. ASSUME NEW u \in Workers, pc'[u] \in Working, run'[u] = r
        PROVE  \/ pc[u] \in Working /\ run[u] = r
               \/ UpdateCreated(u) /\ rows[r].state = "created" /\ run[u] = r
    <3>1. pc[u] # "claim_expired" \/ run' # run
      BY <1>0, <2>1, <2>2
    <3> QED BY <2>2, <3>1, StepPC
  <2>3. rows[r].state = "created" => \A u \in Workers :
          ~(pc[u] \in Working /\ run[u] = r)
    BY <1>0 DEF WorkersOK, WorkerOK
  <2>4. CASE rows[r].state # "created"
    <3>1. /\ pc[v] \in Working /\ run[v] = r
          /\ pc[w] \in Working /\ run[w] = r
      BY <1>3, <2>2, <2>4
    <3> QED BY <1>0, <2>1, <3>1 DEF ExclusiveUntilExpiry
  <2>5. CASE rows[r].state = "created"
    <3>1. UpdateCreated(v) /\ UpdateCreated(w)
      BY <1>3, <2>2, <2>3, <2>5
    <3>2. pc[v] = "claim_created" /\ pc[w] = "claim_created"
      BY <3>1 DEF UpdateCreated
    <3>3. pc' = [pc EXCEPT ![v] = "claimed"] \/ pc' = [pc EXCEPT ![v] = "scan_expired"]
      BY <3>1 DEF UpdateCreated
    <3>4. v # w => pc'[w] = "claim_created"
      BY <1>0, <3>2, <3>3 DEF TypeOK
    <3> QED BY <1>3, <3>4 DEF Working
  <2> QED BY <2>4, <2>5
<1> QED BY <1>1, <1>2, <1>3 DEF LapseInv, ExclusiveUntilExpiry

\* Until the lease of a run has run out for the first time, at most one worker
\* works on the run.
THEOREM ExclusionTheorem == Spec => []ExclusiveUntilExpiry
<1>1. Init => LapseInv
  BY DEF Init, LapseInv, ExclusiveUntilExpiry, AbsentRow, Working
<1>2. LapseInv => ExclusiveUntilExpiry
  BY DEF LapseInv
<1> QED BY <1>1, <1>2, StepLapseInv, FleetInvariance, PTL DEF Spec

----------------------------------------------------------------------------
(* WorkerFleet implements RunLedger *)

\* A step that replaces one row shows its new state and verdict in the ledger.
LEMMA OneRow ==
  ASSUME TypeOK, NEW q \in Runs, NEW new, rows' = [rows EXCEPT ![q] = new]
  PROVE  /\ runState' = [runState EXCEPT ![q] = new.state]
         /\ runGate' = [runGate EXCEPT ![q] = new.gate_outcome]
         /\ runState[q] = rows[q].state /\ runGate[q] = rows[q].gate_outcome
BY DEF TypeOK, runState, runGate

\* A step that shows no new state and no new verdict is no step of the ledger.
LEMMA SameRow ==
  ASSUME TypeOK, NEW q \in Runs, NEW new, rows' = [rows EXCEPT ![q] = new],
         new.state = rows[q].state, new.gate_outcome = rows[q].gate_outcome,
         UNCHANGED evidence
  PROVE  UNCHANGED Ledger!ledgerVars
BY DEF TypeOK, runState, runGate, Ledger!ledgerVars

\* A cancel request that has read a run has read one that exists.
CancelsOK ==
  \A c \in Clients : cancel[c] # NoCancel => rows[cancel[c].run].state # "absent"

LEMMA StepCancelsOK == FleetInv /\ CancelsOK /\ [Next]_vars => CancelsOK'
<1> SUFFICES ASSUME FleetInv, CancelsOK, [Next]_vars, NEW c \in Clients,
                    cancel'[c] # NoCancel
             PROVE  rows'[cancel'[c].run].state # "absent"
  BY DEF CancelsOK
<1>0. TypeOK /\ Busy
  BY DEF FleetInv
<1>1. CASE cancel'[c] = cancel[c]
  <2>1. cancel[c].run \in Runs /\ rows[cancel[c].run].state # "absent"
    BY <1>0, <1>1 DEF Busy, CancelsOK
  <2> QED BY <1>1, <2>1, StepQueue
<1>2. CASE \E d \in Clients, r \in Runs : CancelRead(d, r) /\ cancel'[c] # cancel[c]
  <2>1. PICK r \in Runs : CancelRead(c, r)
    BY <1>0, <1>2 DEF CancelRead, TypeOK
  <2> QED BY <1>0, <2>1 DEF CancelRead, TypeOK, Cancellable
<1>3. CASE \E d \in Clients : CancelWrite(d) /\ cancel'[c] # cancel[c]
  BY <1>0, <1>3 DEF CancelWrite, TypeOK
<1>4. \/ cancel' = cancel
      \/ \E d \in Clients : CancelWrite(d) \/ \E r \in Runs : CancelRead(d, r)
  BY DEF Next, WorkerStep, HeartbeatStep, CreateRun, ExpireLease, PassGrace, Start,
     Stop, Crash, SelectCreated, UpdateCreated, SelectExpired, UpdateExpired, Begin,
     Heartbeat, HeartbeatFails, FinishCase, FinishExecution,
     FinishWithFailedHeartbeat, CompleteRead, CompleteWrite, AcknowledgeRead,
     AcknowledgeWrite, WriteCollides, vars
<1> QED BY <1>1, <1>2, <1>3, <1>4

LEMMA InitLedger == Init => Ledger!LedgerInit
<1> SUFFICES ASSUME Init PROVE Ledger!LedgerInit
  OBVIOUS
<1>1. runState = [r \in Runs |-> "absent"] /\ runGate = [r \in Runs |-> "none"]
  BY DEF Init, runState, runGate, AbsentRow
<1>2. evidence = [r \in Runs |-> Ledger!NoReport]
  BY DEF Init, NoReport, Ledger!NoReport
<1> QED BY <1>1, <1>2 DEF Ledger!LedgerInit

LEMMA StepLedger ==
  FleetInv /\ CancelsOK /\ [Next]_vars => [Ledger!LedgerNext]_Ledger!ledgerVars
<1> SUFFICES ASSUME FleetInv, CancelsOK, [Next]_vars
             PROVE  Ledger!LedgerNext \/ UNCHANGED Ledger!ledgerVars
  OBVIOUS
<1> DEFINE Goal == Ledger!LedgerNext \/ UNCHANGED Ledger!ledgerVars
<1>0. /\ TypeOK /\ Busy /\ RowsOK /\ WorkersOK
      /\ \A r \in Runs : rows[r] \in Rows /\ RowOK(rows[r], evidence[r], r)
  BY DEF FleetInv, RowsOK, TypeOK
<1>a. ASSUME UNCHANGED <<rows, evidence>> PROVE Goal
  BY <1>a DEF Ledger!ledgerVars, runState, runGate
<1>b. ASSUME NEW q \in Runs, NEW new, rows' = [rows EXCEPT ![q] = new],
             UNCHANGED evidence, rows[q].state # "absent",
             new.state \in {"cancelling", "cancelled"},
             new.gate_outcome = rows[q].gate_outcome
      PROVE Goal
  <2>1. runState' = [runState EXCEPT ![q] = new.state] /\ runState[q] = rows[q].state
    BY <1>0, <1>b DEF TypeOK, runState
  <2>2. runGate' = runGate
    BY <1>0, <1>b DEF TypeOK, runGate
  <2>3. Ledger!Cancel(q, new.state)
    BY <1>b, <2>1, <2>2 DEF Ledger!Cancel
  <2> QED BY <1>b, <2>3 DEF Ledger!LedgerNext
<1>c. ASSUME NEW q \in Runs, NEW rep \in ReportsOf(Cases[q]), NEW s,
             \/ s = "completed" /\ rep.status = "completed"
             \/ s = "cancelled",
             runState[q] \notin {"absent", "created"}, evidence[q] = NoReport,
             runState' = [runState EXCEPT ![q] = s],
             runGate' = [runGate EXCEPT ![q] = rep.gate_outcome],
             evidence' = [evidence EXCEPT ![q] = rep]
      PROVE Goal
  <2>1. /\ rep \in Ledger!ReportsOf(Cases[q])
        /\ evidence[q] = Ledger!NoReport
    BY <1>c DEF ReportsOf, Ledger!ReportsOf, ReportStatuses, Ledger!ReportStatuses,
                GateOutcomes, Ledger!GateOutcomes, NoReport, Ledger!NoReport
  <2>2. Ledger!Record(q, rep, s)
    BY <1>c, <2>1 DEF Ledger!Record
  <2>3. s \in {"completed", "cancelled"}
    BY <1>c
  <2> QED BY <2>1, <2>2, <2>3 DEF Ledger!LedgerNext
<1>1. ASSUME NEW r \in Runs, CreateRun(r) PROVE Goal
  <2>1. rows[r].gate_outcome = "none"
    BY <1>0, <1>1 DEF CreateRun, RowOK
  <2>2. CreatedRow.state = "created" /\ CreatedRow.gate_outcome = "none"
    BY DEF CreatedRow, AbsentRow
  <2>3. rows' = [rows EXCEPT ![r] = CreatedRow] /\ rows[r].state = "absent"
    BY <1>1 DEF CreateRun
  <2>4. runState' = [runState EXCEPT ![r] = "created"] /\ runState[r] = "absent"
    BY <1>0, <2>2, <2>3 DEF TypeOK, runState
  <2>5. runGate' = runGate
    BY <1>0, <2>1, <2>2, <2>3 DEF TypeOK, runGate
  <2>6. Ledger!Submit(r)
    BY <1>1, <2>4, <2>5 DEF CreateRun, Ledger!Submit
  <2> QED BY <2>6 DEF Ledger!LedgerNext
<1>2. ASSUME NEW r \in Runs, ExpireLease(r) PROVE Goal
  BY <1>0, <1>2, SameRow DEF ExpireLease, Rows
<1>3. ASSUME NEW r \in Runs, PassGrace(r) PROVE Goal
  BY <1>0, <1>3, SameRow DEF PassGrace, Rows
<1>4. ASSUME NEW c \in Clients, CancelWrite(c) PROVE Goal
  <2> DEFINE q == cancel[c].run
             new == CancelledRow(rows[q], cancel[c].state)
  <2>1. q \in Runs /\ rows[q].state # "absent"
    BY <1>0, <1>4 DEF Busy, CancelsOK, CancelWrite
  <2>2. /\ new.state \in {"cancelling", "cancelled"}
        /\ new.gate_outcome = rows[q].gate_outcome
    BY <1>0, <2>1 DEF CancelledRow, CancelState, Rows
  <2>3. rows' = [rows EXCEPT ![q] = new] /\ UNCHANGED evidence
    BY <1>4 DEF CancelWrite
  <2> QED BY <1>b, <2>1, <2>2, <2>3
<1>5. ASSUME NEW w \in Workers, Start(w) PROVE Goal
  <2>1. CASE rows' = rows
    BY <1>5, <1>a, <2>1 DEF Start
  <2>2. CASE rows' = [r \in Runs |-> ReconciledRow(rows[r])]
    <3> DEFINE S == {r \in Runs : /\ rows[r].lease = "stranded"
                                  /\ rows[r].state \in {"running", "cancelling"}}
    <3>1. \A r \in Runs :
            /\ ReconciledRow(rows[r]).state =
                 IF r \notin S THEN rows[r].state
                 ELSE IF rows[r].state = "running" THEN "failed" ELSE "cancelled"
            /\ ReconciledRow(rows[r]).gate_outcome =
                 IF r \in S /\ rows[r].state = "running" THEN "error"
                 ELSE rows[r].gate_outcome
      BY <1>0 DEF ReconciledRow, Rows
    <3>2. runState' = [r \in Runs |->
                         IF r \notin S THEN runState[r]
                         ELSE IF runState[r] = "running" THEN "failed"
                         ELSE "cancelled"]
      BY <2>2, <3>1 DEF runState
    <3>3. runGate' = [r \in Runs |->
                        IF r \in S /\ runState[r] = "running" THEN "error"
                        ELSE runGate[r]]
      BY <2>2, <3>1 DEF runState, runGate
    <3>4. UNCHANGED evidence
      BY <1>5 DEF Start
    <3>5. \A r \in S : runState[r] \in {"running", "cancelling"}
      BY DEF runState
    <3>6. Ledger!GiveUp(S)
      BY <3>2, <3>3, <3>4, <3>5 DEF Ledger!GiveUp
    <3> QED BY <3>6 DEF Ledger!LedgerNext
  <2> QED BY <1>5, <2>1, <2>2 DEF Start
<1>6. ASSUME NEW w \in Workers, UpdateCreated(w) \/ UpdateExpired(w) PROVE Goal
  <2> DEFINE q == run[w]
             new == ClaimedRow(rows[q], w)
  <2>1. q \in Runs
    BY <1>0, <1>6 DEF Busy, UpdateCreated, UpdateExpired
  <2>2. /\ UNCHANGED evidence
        /\ \/ UNCHANGED rows
           \/ /\ rows' = [rows EXCEPT ![q] = new]
              /\ rows[q].state \in {"created", "running"}
    BY <1>6 DEF UpdateCreated, UpdateExpired, ClaimMatches
  <2>3. new.state = "running" /\ new.gate_outcome = rows[q].gate_outcome
    BY <1>0, <2>1 DEF ClaimedRow, Rows
  <2>4. CASE UNCHANGED rows
    BY <1>a, <2>2, <2>4
  <2>5. CASE rows' = [rows EXCEPT ![q] = new] /\ rows[q].state = "running"
    BY <1>0, <2>1, <2>2, <2>3, <2>5, SameRow
  <2>6. CASE rows' = [rows EXCEPT ![q] = new] /\ rows[q].state = "created"
    <3>1. runState' = [runState EXCEPT ![q] = "running"] /\ runState[q] = "created"
      BY <1>0, <2>1, <2>3, <2>6 DEF TypeOK, runState
    <3>2. runGate' = runGate
      BY <1>0, <2>1, <2>3, <2>6 DEF runGate, TypeOK
    <3>3. Ledger!Take(q)
      BY <2>2, <3>1, <3>2 DEF Ledger!Take
    <3> QED BY <2>1, <3>3 DEF Ledger!LedgerNext
  <2> QED BY <2>2, <2>4, <2>5, <2>6
<1>7. ASSUME NEW w \in Workers, Heartbeat(w) PROVE Goal
  <2>1. run[w] \in Runs
    BY <1>0, <1>7 DEF Busy, Heartbeat, Working
  <2>2. /\ HeartbeatRow(rows[run[w]]).state = rows[run[w]].state
        /\ HeartbeatRow(rows[run[w]]).gate_outcome = rows[run[w]].gate_outcome
    BY <1>0, <2>1 DEF HeartbeatRow, Rows
  <2> QED BY <1>0, <1>7, <1>a, <2>1, <2>2, SameRow DEF Heartbeat
<1>8. ASSUME NEW w \in Workers, CompleteWrite(w) \/ AcknowledgeWrite(w) PROVE Goal
  <2> DEFINE q == run[w]
             rep == report[w]
             done1 == CompletedRow(rows[q], loaded[w], rep)
             ack == AcknowledgedRow(rows[q], loaded[w], rep)
  <2>1. /\ q \in Runs /\ rep \in Reports /\ loaded[w] \in Rows /\ WorkerOK(w)
        /\ rows[q].state \notin {"absent", "created"}
        /\ rows[q] \in Rows /\ RowOK(rows[q], evidence[q], q)
    BY <1>0, <1>8 DEF Busy, CompleteWrite, AcknowledgeWrite, Working, TypeOK,
                      WorkersOK, WorkerOK
  <2>2. CASE rep = NoReport
    <3>1. AcknowledgeWrite(w) /\ UNCHANGED evidence
      BY <1>8, <2>1, <2>2 DEF CompleteWrite, AcknowledgeWrite, Store, WorkerOK,
                              ReportsOf, NoReport
    <3>2. ack.state = "cancelled" /\ ack.gate_outcome = rows[q].gate_outcome
      BY <2>1, <2>2 DEF AcknowledgedRow, Rows
    <3>3. rows' = [rows EXCEPT ![q] = ack]
      BY <3>1 DEF AcknowledgeWrite
    <3> QED BY <1>b, <2>1, <3>1, <3>2, <3>3
  <2>3. CASE rep # NoReport
    <3>1. rep \in ReportsOf(Cases[q])
      BY <1>8, <2>1, <2>3 DEF WorkerOK, CompleteWrite, AcknowledgeWrite
    <3>2. rep.cases > 0
      BY <3>1 DEF ReportsOf
    <3>3. ~Collides(evidence[q], rep)
      BY <1>8 DEF CompleteWrite, AcknowledgeWrite
    <3>4. evidence[q] = NoReport /\ NoTrace(rows[q])
      BY <2>1, <3>2, <3>3 DEF Collides, RowOK, ReportsOf
    <3>5. /\ NoTrace(loaded[w])
          /\ loaded[w].gate_outcome = "error" => rows[q].gate_outcome = "error"
      BY <1>8, <2>1, <3>4 DEF WorkerOK, Writing, CompleteWrite, AcknowledgeWrite
    <3>6. /\ rep.status = "completed" => RowOK(done1, rep, q)
          /\ RowOK(ack, rep, q)
      BY <2>1, <3>1, <3>4, <3>5, ReportedRowOK
    <3>7. evidence' = [evidence EXCEPT ![q] = rep]
      BY <1>8, <3>2 DEF CompleteWrite, AcknowledgeWrite, Store
    <3>8. CASE CompleteWrite(w)
      <4>1. rep.status = "completed"
        BY <2>1, <3>8 DEF WorkerOK, CompleteWrite
      <4>2. done1.gate_outcome = rep.gate_outcome
        BY <2>3, <3>6, <4>1 DEF RowOK
      <4>3. done1.state = "completed"
        BY <2>1, <3>5, <4>1
        DEF CompletedRow, ReportedRow, Written, CompletionState, NoTrace, Rows
      <4>4. rows' = [rows EXCEPT ![q] = done1]
        BY <3>8 DEF CompleteWrite
      <4> HIDE DEF q, rep, done1
      <4>5. /\ runState' = [runState EXCEPT ![q] = done1.state]
            /\ runGate' = [runGate EXCEPT ![q] = done1.gate_outcome]
            /\ runState[q] = rows[q].state
        BY <1>0, <2>1, <4>4, OneRow
      <4> QED BY <1>c, <2>1, <3>1, <3>4, <3>7, <4>1, <4>2, <4>3, <4>5
    <3>9. CASE AcknowledgeWrite(w)
      <4>1. ack.gate_outcome = rep.gate_outcome
        BY <2>3, <3>6 DEF RowOK
      <4>2. ack.state = "cancelled"
        BY <2>1 DEF AcknowledgedRow, ReportedRow, Rows
      <4>3. rows' = [rows EXCEPT ![q] = ack]
        BY <3>9 DEF AcknowledgeWrite
      <4> HIDE DEF q, rep, ack
      <4>4. /\ runState' = [runState EXCEPT ![q] = ack.state]
            /\ runGate' = [runGate EXCEPT ![q] = ack.gate_outcome]
            /\ runState[q] = rows[q].state
        BY <1>0, <2>1, <4>3, OneRow
      <4> QED BY <1>c, <2>1, <3>1, <3>4, <3>7, <4>1, <4>2, <4>4
    <3> QED BY <1>8, <3>8, <3>9
  <2> QED BY <2>2, <2>3
<1>9. ASSUME NEW w \in Workers,
             \/ Stop(w) \/ Crash(w) \/ SelectCreated(w) \/ SelectExpired(w)
             \/ Begin(w) \/ HeartbeatFails(w) \/ FinishCase(w)
             \/ \E gate \in GateOutcomes : FinishExecution(w, gate)
             \/ FinishWithFailedHeartbeat(w) \/ WriteCollides(w)
             \/ CompleteRead(w) \/ AcknowledgeRead(w)
      PROVE Goal
  BY <1>9, <1>a DEF Stop, Crash, SelectCreated, SelectExpired, Begin,
     HeartbeatFails, FinishCase, FinishExecution, FinishWithFailedHeartbeat,
     WriteCollides, CompleteRead, AcknowledgeRead
<1>10. ASSUME NEW c \in Clients, NEW r \in Runs, CancelRead(c, r) PROVE Goal
  BY <1>10, <1>a DEF CancelRead
<1>11. ASSUME UNCHANGED vars PROVE Goal
  BY <1>11, <1>a DEF vars
<1> QED
  BY <1>1, <1>2, <1>3, <1>4, <1>5, <1>6, <1>7, <1>8, <1>9, <1>10, <1>11
  DEF Next, WorkerStep, HeartbeatStep

\* The fleet implements the ledger: whatever workers, cancel requests, crashes
\* and expired leases do, a reader of the tables sees a run leave the queue once,
\* its evidence written at most once together with its verdict, and the state
\* never back in the queue.
THEOREM FleetImplementsLedger == Spec => ImplementsLedger
<1>1. Init => CancelsOK
  BY DEF Init, CancelsOK, NoCancel
<1> QED
  BY <1>1, InitLedger, StepLedger, StepCancelsOK, FleetInvariance, PTL
  DEF Spec, ImplementsLedger, Ledger!LedgerSpec
=============================================================================
