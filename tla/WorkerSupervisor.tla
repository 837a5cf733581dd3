-------------------------- MODULE WorkerSupervisor --------------------------
(***************************************************************************)
(* The fleet as it is deployed: docker-compose.yml starts every worker     *)
(* (cli.py, worker) with "restart: unless-stopped", so a process that has  *)
(* ended is started again, with a fresh worker_id, unless it was stopped.  *)
(*                                                                         *)
(* run_once catches nothing.  A run whose snapshot is not valid any more,  *)
(* whose limits preflight_check rejects, or whose evaluators raise what    *)
(* they do not catch (a $ref of a schema that cannot be resolved), ends    *)
(* every worker process that takes it: a poison run.                       *)
(*                                                                         *)
(* A restarted process is the same member of Workers.  Its new id differs  *)
(* from the old one, which is nobody's any more and is compared with the   *)
(* id of a worker only for a run which that worker has itself claimed.     *)
(***************************************************************************)
EXTENDS WorkerFleet

CONSTANT Rejected   \* runs whose snapshot, limits or evaluators raise in run_once

ASSUME RejectedAssumption == Rejected \subseteq Runs

\* polled[r]: some worker has looked for expired runs since r was claimed.
VARIABLE polled

supervisedVars == <<vars, polled>>

SupervisedInit == Init /\ polled = [r \in Runs |-> TRUE]

----------------------------------------------------------------------------
(* A poison run *)

\* _is_cancelled finds nothing, and model_validate or preflight_check raises;
\* or the execution has begun, and an evaluator raises.
Raises(w) ==
  /\ run[w] \in Rejected
  /\ \/ pc[w] = "claimed" /\ rows[run[w]].state \notin {"cancelling", "cancelled"}
     \/ pc[w] = "executing"

Reject(w) ==
  /\ Raises(w)
  /\ Die(w)
  /\ UNCHANGED <<rows, evidence, cancel, lapses>>

\* The supervisor starts the process again.
Restart(w) ==
  /\ pc[w] = "dead"
  /\ pc' = [pc EXCEPT ![w] = "off"]
  /\ UNCHANGED <<rows, evidence, run, hb, done, report, loaded, cancel, lapses>>

----------------------------------------------------------------------------
(* Specification *)

\* A claim begins a lease, and a look at the expired runs is noted.
Claimed(w, r) == pc'[w] = "claimed" /\ pc[w] # "claimed" /\ run[w] = r

NotePolls(w) ==
  polled' = [r \in Runs |->
               IF Claimed(w, r) THEN FALSE
               ELSE polled[r] \/ pc[w] = "scan_expired"]

\* The execution of a poison run does not end otherwise.
SupervisedStep(w) ==
  /\ \/ Reject(w)
     \/ WorkerStep(w) /\ ~(Raises(w) /\ pc[w] = "executing")
  /\ NotePolls(w)

\* A lease (60 s) outlasts the restart of a process and its next poll (1 s).
SupervisedExpiry(r) == polled[r] /\ ExpireLease(r) /\ UNCHANGED polled

SupervisedNext ==
  \/ \E r \in Runs : \/ SupervisedExpiry(r)
                     \/ (CreateRun(r) \/ PassGrace(r)) /\ UNCHANGED polled
  \/ \E c \in Clients : /\ CancelWrite(c) \/ \E r \in Runs : CancelRead(c, r)
                        /\ UNCHANGED polled
  \/ \E w \in Workers :
       \/ SupervisedStep(w)
       \/ /\ Start(w) \/ Stop(w) \/ Crash(w) \/ HeartbeatStep(w) \/ Restart(w)
          /\ UNCHANGED polled

\* The fairness of WorkerFleet, and the supervisor restarts what has died.
SupervisedFairness ==
  /\ \A w \in Workers : /\ WF_supervisedVars(Start(w) /\ UNCHANGED polled)
                        /\ WF_supervisedVars(Restart(w) /\ UNCHANGED polled)
                        /\ WF_supervisedVars(SupervisedStep(w))
  /\ \A c \in Clients : WF_supervisedVars(CancelWrite(c) /\ UNCHANGED polled)
  /\ \A r \in Runs :
       /\ WF_supervisedVars(~Attended(r) /\ SupervisedExpiry(r))
       /\ WF_supervisedVars(PassGrace(r) /\ UNCHANGED polled)

SupervisedSpec ==
  SupervisedInit /\ [][SupervisedNext]_supervisedVars /\ SupervisedFairness

----------------------------------------------------------------------------
(* Properties *)

\* Nothing but a poison run ends a worker.
OnlyRejectionsKill ==
  \A w \in Workers : pc[w] # "dead" /\ pc'[w] = "dead" => Raises(w)

\* Some worker is not stopped, and from some point on nothing but a poison run
\* ends one.
Stable ==
  /\ \E w \in Workers : []<>(pc[w] # "stopped")
  /\ <>[][OnlyRejectionsKill]_supervisedVars

\* Every run that no worker rejects leaves the queue and the hands of its dead
\* workers, although a poison run that is older, and therefore selected first,
\* ends every worker that takes it, again and again: claim_next_run prefers
\* created runs, and a reclaimed poison run is out of the way for one lease.
HealthyRunsEnd ==
  Stable => \A r \in Runs \ Rejected :
    rows[r].state \in {"created", "running"} ~>
      rows[r].state \notin {"created", "running"}

\* docs/worker.md: "this worker is what actually moves them from `created` to
\* `completed` or `failed`": every run ends, a rejected one with an error.
EveryRunEnds ==
  Stable => \A r \in Runs :
    rows[r].state \in {"created", "running"} ~>
      rows[r].state \notin {"created", "running"}
=============================================================================
