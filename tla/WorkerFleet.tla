---------------------------- MODULE WorkerFleet ----------------------------
(***************************************************************************)
(* A fleet of worker processes (workers/worker.py), the database rows they *)
(* share (RunRepository) and the clients of POST /runs and                 *)
(* POST /runs/{id}/cancel (api/runs.py).                                   *)
(*                                                                         *)
(* One action is one database statement together with the code around it   *)
(* up to the next one: PostgreSQL runs READ COMMITTED, so a SELECT and the *)
(* UPDATE that follows it may have any step of another process in between, *)
(* while an UPDATE holds its row lock until the COMMIT that ends the       *)
(* transaction.  An element of Workers is one start of a worker process:   *)
(* worker_id is a fresh uuid for each, so a restart is another element.    *)
(***************************************************************************)
EXTENDS RunRepository, FiniteSets

CONSTANTS Runs,       \* run numbers in created_at order
          Cases,      \* Cases[r]: number of cases of r's specification
          Clients,    \* concurrent cancel requests
          MaxLapses   \* bound: how often a lease runs out under its worker
                      \* (counted up to MaxLapses + 1)

ASSUME RunsAssumption == Runs \subseteq Nat \ {0}
ASSUME CasesAssumption == Cases \in [Runs -> Nat \ {0}]
ASSUME LapsesAssumption == MaxLapses \in Nat

NoRun == 0

VARIABLES
  rows,      \* table runs
  evidence,  \* table case_results: the report stored for a run, or NoReport
  pc,        \* where each worker is in run_forever / run_once
  run,       \* the run a worker selected or claimed
  hb,        \* its heartbeat task: "lost" has set the cancellation token,
             \* "failed" ended with a database error
  done,      \* cases of the run it has executed
  report,    \* the report it holds
  loaded,    \* the row complete_run or acknowledge_cancellation loaded
  cancel,    \* cancel request in flight: its run and the state it read
  lapses     \* how often the lease of a run has run out

workerVars == <<pc, run, hb, done, report, loaded>>
vars == <<rows, evidence, workerVars, cancel, lapses>>

PCs == {"off", "idle", "claim_created", "scan_expired", "claim_expired",
        "claimed", "executing", "acknowledge", "acknowledge_write",
        "complete", "complete_write", "stopped", "dead"}

\* A worker between its claim and the end of run_once.
Working == {"claimed", "executing", "acknowledge", "acknowledge_write",
            "complete", "complete_write"}

NoCancel == [run |-> NoRun, state |-> "absent"]

\* The one type invariant of this module.
TypeOK ==
  /\ rows \in [Runs -> Rows]
  /\ evidence \in [Runs -> Reports]
  /\ pc \in [Workers -> PCs]
  /\ run \in [Workers -> Runs \cup {NoRun}]
  /\ hb \in [Workers -> {"off", "beating", "lost", "failed"}]
  /\ done \in [Workers -> Nat]
  /\ report \in [Workers -> Reports]
  /\ loaded \in [Workers -> Rows]
  /\ cancel \in [Clients -> [run : Runs \cup {NoRun},
                             state : Cancellable \cup {"absent"}]]
  /\ lapses \in [Runs -> Nat]

Init ==
  /\ rows = [r \in Runs |-> AbsentRow]
  /\ evidence = [r \in Runs |-> NoReport]
  /\ pc = [w \in Workers |-> "off"]
  /\ run = [w \in Workers |-> NoRun]
  /\ hb = [w \in Workers |-> "off"]
  /\ done = [w \in Workers |-> 0]
  /\ report = [w \in Workers |-> NoReport]
  /\ loaded = [w \in Workers |-> AbsentRow]
  /\ cancel = [c \in Clients |-> NoCancel]
  /\ lapses = [r \in Runs |-> 0]

----------------------------------------------------------------------------
(* The API *)

\* POST /runs commits a created run.  created_at is the start of the
\* transaction, so an older run may appear after a younger one.
CreateRun(r) ==
  /\ rows[r].state = "absent"
  /\ rows' = [rows EXCEPT ![r] = CreatedRow]
  /\ UNCHANGED <<evidence, workerVars, cancel, lapses>>

\* POST /runs/{id}/cancel loads the row.  A run that is already cancelling,
\* cancelled or otherwise terminal is answered at once (200 or 409).
CancelRead(c, r) ==
  /\ cancel[c] = NoCancel
  /\ rows[r].state \in Cancellable
  /\ cancel' = [cancel EXCEPT ![c] = [run |-> r, state |-> rows[r].state]]
  /\ UNCHANGED <<rows, evidence, workerVars, lapses>>

\* cancel_run assigns the state that follows from the state it loaded, and
\* the request commits: an UPDATE by primary key.
CancelWrite(c) ==
  /\ cancel[c] # NoCancel
  /\ rows' = [rows EXCEPT ![cancel[c].run] =
                CancelledRow(@, cancel[c].state)]
  /\ cancel' = [cancel EXCEPT ![c] = NoCancel]
  /\ UNCHANGED <<evidence, workerVars, lapses>>

----------------------------------------------------------------------------
(* A worker process: start, stop and crash *)

\* run_forever begins with _reconcile_on_startup, one transaction over all
\* rows; an exception there is logged and the worker goes on without it.
Start(w) ==
  /\ pc[w] = "off"
  /\ pc' = [pc EXCEPT ![w] = "idle"]
  /\ \/ rows' = [r \in Runs |-> ReconciledRow(rows[r])]
     \/ rows' = rows
  /\ UNCHANGED <<evidence, run, hb, done, report, loaded, cancel, lapses>>

\* The values a worker's locals have when run_once is left.
Forget(w) ==
  /\ run' = [run EXCEPT ![w] = NoRun]
  /\ hb' = [hb EXCEPT ![w] = "off"]
  /\ done' = [done EXCEPT ![w] = 0]
  /\ report' = [report EXCEPT ![w] = NoReport]
  /\ loaded' = [loaded EXCEPT ![w] = AbsentRow]

\* run_once is left and the loop is at its head again.
Return(w) == pc' = [pc EXCEPT ![w] = "idle"] /\ Forget(w)

\* The process ends: an uncaught exception, a kill, a lost host.
Die(w) == pc' = [pc EXCEPT ![w] = "dead"] /\ Forget(w)

\* SIGTERM: request_stop is obeyed at the head of the loop.
Stop(w) ==
  /\ pc[w] = "idle"
  /\ pc' = [pc EXCEPT ![w] = "stopped"]
  /\ UNCHANGED <<rows, evidence, run, hb, done, report, loaded, cancel, lapses>>

\* run_once catches nothing, so an exception at any point also ends here.
\* A transaction in progress is rolled back.
Crash(w) ==
  /\ pc[w] \notin {"off", "stopped", "dead"}
  /\ Die(w)
  /\ UNCHANGED <<rows, evidence, cancel, lapses>>

----------------------------------------------------------------------------
(* claim_next_run *)

\* ORDER BY created_at LIMIT 1.
Oldest(S) == {r \in S : \A q \in S : r <= q}

CreatedRuns == {r \in Runs : rows[r].state = "created"}
ReclaimableRuns == {r \in Runs : Reclaimable(rows[r])}

\* First SELECT: the oldest created run, if any.
SelectCreated(w) ==
  /\ pc[w] = "idle"
  /\ \/ /\ CreatedRuns = {}
        /\ pc' = [pc EXCEPT ![w] = "scan_expired"]
        /\ UNCHANGED run
     \/ \E r \in Oldest(CreatedRuns) :
        /\ pc' = [pc EXCEPT ![w] = "claim_created"]
        /\ run' = [run EXCEPT ![w] = r]
  /\ UNCHANGED <<rows, evidence, hb, done, report, loaded, cancel, lapses>>

\* First UPDATE: wins the run, or matches no row and falls through to the
\* second candidate.
UpdateCreated(w) ==
  /\ pc[w] = "claim_created"
  /\ \/ /\ ClaimMatches(rows[run[w]], "created")
        /\ rows' = [rows EXCEPT ![run[w]] = ClaimedRow(@, w)]
        /\ pc' = [pc EXCEPT ![w] = "claimed"]
        /\ UNCHANGED run
     \/ /\ ~ClaimMatches(rows[run[w]], "created")
        /\ pc' = [pc EXCEPT ![w] = "scan_expired"]
        /\ run' = [run EXCEPT ![w] = NoRun]
        /\ UNCHANGED rows
  /\ UNCHANGED <<evidence, hb, done, report, loaded, cancel, lapses>>

\* Second SELECT: the oldest running run whose lease has expired, if any.
SelectExpired(w) ==
  /\ pc[w] = "scan_expired"
  /\ \/ /\ ReclaimableRuns = {}
        /\ pc' = [pc EXCEPT ![w] = "idle"]
        /\ UNCHANGED run
     \/ \E r \in Oldest(ReclaimableRuns) :
        /\ pc' = [pc EXCEPT ![w] = "claim_expired"]
        /\ run' = [run EXCEPT ![w] = r]
  /\ UNCHANGED <<rows, evidence, hb, done, report, loaded, cancel, lapses>>

\* Second UPDATE: WHERE id = ... AND state = 'running'.
UpdateExpired(w) ==
  /\ pc[w] = "claim_expired"
  /\ \/ /\ ClaimMatches(rows[run[w]], "running")
        /\ rows' = [rows EXCEPT ![run[w]] = ClaimedRow(@, w)]
        /\ pc' = [pc EXCEPT ![w] = "claimed"]
        /\ UNCHANGED run
     \/ /\ ~ClaimMatches(rows[run[w]], "running")
        /\ pc' = [pc EXCEPT ![w] = "idle"]
        /\ run' = [run EXCEPT ![w] = NoRun]
        /\ UNCHANGED rows
  /\ UNCHANGED <<evidence, hb, done, report, loaded, cancel, lapses>>

----------------------------------------------------------------------------
(* run_once after the claim *)

\* _is_cancelled reads the row again.  If it is not cancelled the snapshot is
\* loaded, the heartbeat task created and execution begins: execute_local
\* checks the token before the first case without awaiting anything, so the
\* heartbeat cannot have set it yet and the first case always starts.
Begin(w) ==
  /\ pc[w] = "claimed"
  /\ \/ /\ rows[run[w]].state \in {"cancelling", "cancelled"}
        /\ pc' = [pc EXCEPT ![w] = "acknowledge"]
        /\ UNCHANGED hb
     \/ /\ rows[run[w]].state \notin {"cancelling", "cancelled"}
        /\ pc' = [pc EXCEPT ![w] = "executing"]
        /\ hb' = [hb EXCEPT ![w] = "beating"]
  /\ UNCHANGED <<rows, evidence, run, done, report, loaded, cancel, lapses>>

\* One heartbeat: renew the lease, or set the token when no row matches.
Heartbeat(w) ==
  /\ pc[w] = "executing" /\ hb[w] = "beating"
  /\ \/ /\ HeartbeatMatches(rows[run[w]], w)
        /\ rows' = [rows EXCEPT ![run[w]] = HeartbeatRow(@)]
        /\ UNCHANGED hb
     \/ /\ ~HeartbeatMatches(rows[run[w]], w)
        /\ hb' = [hb EXCEPT ![w] = "lost"]
        /\ UNCHANGED rows
  /\ UNCHANGED <<evidence, pc, run, done, report, loaded, cancel, lapses>>

\* The heartbeat task ends with a database error.  Nobody looks at it until
\* execution is over.
HeartbeatFails(w) ==
  /\ pc[w] = "executing" /\ hb[w] = "beating"
  /\ hb' = [hb EXCEPT ![w] = "failed"]
  /\ UNCHANGED <<rows, evidence, pc, run, done, report, loaded, cancel, lapses>>

\* A case ends and the loop of execute_local starts the next one.
FinishCase(w) ==
  /\ pc[w] = "executing"
  /\ done[w] + 1 < Cases[run[w]]
  /\ hb[w] # "lost"
  /\ done' = [done EXCEPT ![w] = @ + 1]
  /\ UNCHANGED <<rows, evidence, pc, run, hb, report, loaded, cancel, lapses>>

\* Mutant: the loop ends one case early.
LoopEnds_OneShort(n, total, token) == n + 1 >= total \/ token

\* After the n-th case the loop of execute_local is exhausted, or it breaks on
\* the token before the next case.
LoopEnds(n, total, token) == n = total \/ token

\* LocalRunResult.status: "cancelled" when the loop broke.
ReportStatus(n, total, token) ==
  IF token /\ n < total THEN "cancelled" ELSE "completed"

\* Mutant: run_once completes the run whatever the token says.
AfterExecution_IgnoresToken(token) == "complete"

\* run_once looks at the token, not at the status of the report.
AfterExecution(token) == IF token THEN "acknowledge" ELSE "complete"

\* A case ends and it was the last one to run.  The gate decides on the cases
\* executed so far.
FinishExecution(w, gate) ==
  LET n == done[w] + 1
      total == Cases[run[w]]
      token == hb[w] = "lost"
  IN
  /\ pc[w] = "executing"
  /\ hb[w] # "failed"
  /\ LoopEnds(n, total, token)
  /\ done' = [done EXCEPT ![w] = n]
  /\ report' = [report EXCEPT ![w] = [status |-> ReportStatus(n, total, token),
                                     gate_outcome |-> gate,
                                     cases |-> n]]
  /\ pc' = [pc EXCEPT ![w] = AfterExecution(token)]
  /\ UNCHANGED <<rows, evidence, run, hb, loaded, cancel, lapses>>

\* Awaiting the failed heartbeat task re-raises its exception: the report is
\* lost with the process.
FinishWithFailedHeartbeat(w) ==
  /\ pc[w] = "executing"
  /\ hb[w] = "failed"
  /\ done[w] + 1 = Cases[run[w]]
  /\ Die(w)
  /\ UNCHANGED <<rows, evidence, cancel, lapses>>

----------------------------------------------------------------------------
(* complete_run and acknowledge_cancellation: load, then flush and commit *)

CompleteRead(w) ==
  /\ pc[w] = "complete"
  /\ \/ /\ CompleteAccepts(rows[run[w]], w)
        /\ pc' = [pc EXCEPT ![w] = "complete_write"]
        /\ loaded' = [loaded EXCEPT ![w] = rows[run[w]]]
        /\ UNCHANGED <<run, hb, done, report>>
     \/ /\ ~CompleteAccepts(rows[run[w]], w)
        /\ Return(w)
  /\ UNCHANGED <<rows, evidence, cancel, lapses>>

AcknowledgeRead(w) ==
  /\ pc[w] = "acknowledge"
  /\ \/ /\ AcknowledgeAccepts(rows[run[w]], w)
        /\ pc' = [pc EXCEPT ![w] = "acknowledge_write"]
        /\ loaded' = [loaded EXCEPT ![w] = rows[run[w]]]
        /\ UNCHANGED <<run, hb, done, report>>
     \/ /\ ~AcknowledgeAccepts(rows[run[w]], w)
        /\ Return(w)
  /\ UNCHANGED <<rows, evidence, cancel, lapses>>

\* The flush fails on the unique constraint, the exception leaves run_once
\* and the transaction is rolled back.
WriteCollides(w) ==
  /\ pc[w] \in {"complete_write", "acknowledge_write"}
  /\ Collides(evidence[run[w]], report[w])
  /\ Die(w)
  /\ UNCHANGED <<rows, evidence, cancel, lapses>>

\* The report is stored with its case rows, unless there is none.
Store(w) ==
  evidence' = IF report[w].cases = 0 THEN evidence
              ELSE [evidence EXCEPT ![run[w]] = report[w]]

CompleteWrite(w) ==
  /\ pc[w] = "complete_write"
  /\ ~Collides(evidence[run[w]], report[w])
  /\ rows' = [rows EXCEPT ![run[w]] = CompletedRow(@, loaded[w], report[w])]
  /\ Store(w)
  /\ Return(w)
  /\ UNCHANGED <<cancel, lapses>>

AcknowledgeWrite(w) ==
  /\ pc[w] = "acknowledge_write"
  /\ ~Collides(evidence[run[w]], report[w])
  /\ rows' = [rows EXCEPT ![run[w]] = AcknowledgedRow(@, loaded[w], report[w])]
  /\ Store(w)
  /\ Return(w)
  /\ UNCHANGED <<cancel, lapses>>

----------------------------------------------------------------------------
(* Time *)

\* The worker that holds the lease still works on the run: the lease runs out
\* under it only when its heartbeats are late.
Attended(r) ==
  \E w \in Workers : rows[r].worker_id = w /\ pc[w] \in Working /\ run[w] = r

\* lease_expires_at passes.  Heartbeats come every third of the lease, so a
\* lapse under a working owner is an accident and bounded by MaxLapses.
ExpireLease(r) ==
  /\ rows[r].state \in {"running", "cancelling"}
  /\ rows[r].lease = "live"
  /\ Attended(r) => lapses[r] < MaxLapses
  /\ rows' = [rows EXCEPT ![r].lease = "expired"]
  /\ lapses' = [lapses EXCEPT ![r] = IF @ > MaxLapses THEN @ ELSE @ + 1]
  /\ UNCHANGED <<evidence, workerVars, cancel>>

\* Thirty more seconds pass.
PassGrace(r) ==
  /\ rows[r].state \in {"running", "cancelling"}
  /\ rows[r].lease = "expired"
  /\ rows' = [rows EXCEPT ![r].lease = "stranded"]
  /\ UNCHANGED <<evidence, workerVars, cancel, lapses>>

----------------------------------------------------------------------------
(* Specification *)

\* The steps a running process takes by itself.
WorkerStep(w) ==
  \/ SelectCreated(w) \/ UpdateCreated(w)
  \/ SelectExpired(w) \/ UpdateExpired(w)
  \/ Begin(w) \/ FinishCase(w)
  \/ \E gate \in GateOutcomes : FinishExecution(w, gate)
  \/ FinishWithFailedHeartbeat(w)
  \/ CompleteRead(w) \/ CompleteWrite(w)
  \/ AcknowledgeRead(w) \/ AcknowledgeWrite(w)
  \/ WriteCollides(w)

HeartbeatStep(w) == Heartbeat(w) \/ HeartbeatFails(w)

Next ==
  \/ \E r \in Runs : CreateRun(r) \/ ExpireLease(r) \/ PassGrace(r)
  \/ \E c \in Clients : CancelWrite(c) \/ \E r \in Runs : CancelRead(c, r)
  \/ \E w \in Workers : Start(w) \/ Stop(w) \/ Crash(w)
                        \/ WorkerStep(w) \/ HeartbeatStep(w)

Spec == Init /\ [][Next]_vars

----------------------------------------------------------------------------
(* Safety *)

\* The verdict columns of a run always describe the case rows stored for it,
\* and a run without case rows never shows "pass" or "fail".  complete_run,
\* acknowledge_cancellation, reconcile_stranded_runs and stale flushes of
\* loaded rows all write these columns, none of them under a lock that spans
\* its read and its write.
VerdictMatchesEvidence ==
  \A r \in Runs :
    IF evidence[r].cases > 0
    THEN /\ rows[r].gate_outcome = evidence[r].gate_outcome
         /\ rows[r].execution_status = evidence[r].status
         /\ rows[r].total_cases = evidence[r].cases
    ELSE /\ rows[r].gate_outcome \notin {"pass", "fail"}
         /\ rows[r].total_cases = 0

\* A run that shows "completed" has a case row for every case of its
\* specification: partial evidence of a stopped execution never ends there.
CompletedIsFull ==
  \A r \in Runs :
    rows[r].state = "completed" =>
      evidence[r].status = "completed" /\ evidence[r].cases = Cases[r]

\* Only reconciliation produces "failed" (the branch of complete_run that
\* could is never taken), and a failed run shows the verdict "error" with no
\* case rows, whatever stale writers did before or after.
FailedIsReconciled ==
  \A r \in Runs :
    rows[r].state = "failed" =>
      /\ rows[r].execution_status = "reconciled"
      /\ rows[r].gate_outcome = "error"
      /\ evidence[r] = NoReport

\* A run that a worker may still claim or execute has no evidence and no
\* verdict yet: no execution is ever spent on a run that has a result.
RunnableHasNoEvidence ==
  \A r \in Runs :
    rows[r].state \in {"absent", "created", "running"} =>
      evidence[r] = NoReport /\ rows[r].gate_outcome = "none"

\* As long as the lease of a run has never run out, at most one worker works
\* on it: claim_next_run gives a created run to a single worker.
ExclusiveUntilExpiry ==
  \A r \in Runs : lapses[r] = 0 =>
    \A v, w \in Workers :
      /\ pc[v] \in Working /\ run[v] = r
      /\ pc[w] \in Working /\ run[w] = r
      => v = w

\* Case rows are written once: the evidence of a run, its writer's verdict
\* included, never changes, however many workers finish the run.
EvidenceWrittenOnce ==
  [][\A r \in Runs : evidence[r] # NoReport => evidence'[r] = evidence[r]]_vars

\* A run that has left "created" and "running" is never claimable again: no
\* stale cancel, completion or reconciliation puts it back in the queue, and
\* a run is never "created" twice.
NeverRunnableAgain ==
  [][\A r \in Runs :
       /\ rows[r].state \notin {"absent", "created", "running"} =>
            rows'[r].state \notin {"absent", "created", "running"}
       /\ rows[r].state # "absent" /\ rows'[r].state = "created" =>
            rows[r].state = "created"]_vars

----------------------------------------------------------------------------
(* Liveness *)

\* A started process goes on (awaits end: the provider has a timeout, the
\* retries are counted), a deployed process is started, a cancel request that
\* has read its row writes it, and the lease of a run nobody attends to runs
\* out and passes the grace period.
Fairness ==
  /\ \A w \in Workers : WF_vars(Start(w)) /\ WF_vars(WorkerStep(w))
  /\ \A c \in Clients : WF_vars(CancelWrite(c))
  /\ \A r \in Runs : /\ WF_vars(~Attended(r) /\ ExpireLease(r))
                      /\ WF_vars(PassGrace(r))

FairSpec == Spec /\ Fairness

\* A cancelled execution ends: while its owner works on a cancelling run that
\* has no result, the run becomes terminal or the owner dies, whether the owner
\* learns of the cancellation before the first case, from a heartbeat or, too
\* late, not at all, and whatever an earlier owner and other cancel requests
\* still write.  Only the owner makes it so: a cancel request that read
\* "running" and writes after the owner has acknowledged another one, or has
\* completed the run, leaves it cancelling with nobody to end it but the next
\* start of a worker, and so does the death of the owner.
CancellationEnds ==
  \A r \in Runs :
    rows[r].state = "cancelling" /\ rows[r].execution_status = "none" /\ Attended(r) ~>
      \/ rows[r].state \in Terminal
      \/ \E w \in Workers : rows[r].worker_id = w /\ pc[w] = "dead"

----------------------------------------------------------------------------
(* What a docstring says and the code does not do.                         *)

\* claim_next_run's docstring: "The conditional UPDATE guarantees at most one
\* concurrent worker can win the claim for a given run."  A claim never takes
\* the run from another worker that has just won it and holds the live lease.
ClaimWonOnce ==
  [][\A v, w \in Workers :
       /\ pc[v] = "claimed" /\ pc'[v] = "claimed"
       /\ pc[w] = "claim_expired" /\ pc'[w] = "claimed"
       /\ run[v] = run[w]
       => ~(rows[run[v]].worker_id = v /\ rows[run[v]].lease = "live")]_vars
=============================================================================
