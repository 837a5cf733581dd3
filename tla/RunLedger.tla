----------------------------- MODULE RunLedger -----------------------------
(***************************************************************************)
(* What the run tables promise to their readers (GET /runs/{id}, the       *)
(* report, mrds wait, baseline promotion), with workers, leases and        *)
(* requests left out: a run is taken from the queue once, its evidence is  *)
(* written at most once and with its verdict, and the state of a run may   *)
(* change after that but never back into the queue.  WorkerFleet           *)
(* implements this specification.                                          *)
(***************************************************************************)
EXTENDS RunTypes

CONSTANTS Runs,    \* run ids
          Cases    \* Cases[r]: number of cases of r's specification

ASSUME LedgerCasesAssumption == Cases \in [Runs -> Nat \ {0}]

VARIABLES state,     \* runs.state
          gate,      \* runs.gate_outcome
          evidence   \* the case rows

ledgerVars == <<state, gate, evidence>>

LedgerInit ==
  /\ state = [r \in Runs |-> "absent"]
  /\ gate = [r \in Runs |-> "none"]
  /\ evidence = [r \in Runs |-> NoReport]

Submit(r) ==
  /\ state[r] = "absent"
  /\ state' = [state EXCEPT ![r] = "created"]
  /\ UNCHANGED <<gate, evidence>>

\* A worker claims the run.  Claiming a running run again shows no change.
Take(r) ==
  /\ state[r] = "created"
  /\ state' = [state EXCEPT ![r] = "running"]
  /\ UNCHANGED <<gate, evidence>>

\* A cancel request or its acknowledgement, however late: also over a state
\* that it has not read.
Cancel(r, s) ==
  /\ state[r] # "absent"
  /\ s \in {"cancelling", "cancelled"}
  /\ state' = [state EXCEPT ![r] = s]
  /\ UNCHANGED <<gate, evidence>>

\* Startup reconciliation gives up a set of stranded runs.
GiveUp(S) ==
  /\ \A r \in S : state[r] \in {"running", "cancelling"}
  /\ state' = [r \in Runs |->
                 IF r \notin S THEN state[r]
                 ELSE IF state[r] = "running" THEN "failed" ELSE "cancelled"]
  /\ gate' = [r \in Runs |->
                IF r \in S /\ state[r] = "running" THEN "error" ELSE gate[r]]
  /\ UNCHANGED evidence

\* A worker stores its report.  Only a full report completes the run.
Record(r, rep, s) ==
  /\ state[r] \notin {"absent", "created"}
  /\ evidence[r] = NoReport
  /\ rep \in ReportsOf(Cases[r])
  /\ \/ s = "completed" /\ rep.status = "completed"
     \/ s = "cancelled"
  /\ state' = [state EXCEPT ![r] = s]
  /\ gate' = [gate EXCEPT ![r] = rep.gate_outcome]
  /\ evidence' = [evidence EXCEPT ![r] = rep]

LedgerNext ==
  \/ \E r \in Runs :
       \/ Submit(r) \/ Take(r)
       \/ \E s \in {"cancelling", "cancelled"} : Cancel(r, s)
       \/ \E rep \in ReportsOf(Cases[r]), s \in {"completed", "cancelled"} :
            Record(r, rep, s)
  \/ \E S \in SUBSET Runs : GiveUp(S)

LedgerSpec == LedgerInit /\ [][LedgerNext]_ledgerVars
=============================================================================
