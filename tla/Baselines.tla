----------------------------- MODULE Baselines -----------------------------
(***************************************************************************)
(* Baseline channels: POST /projects/{id}/baselines/{channel}              *)
(* (api/baselines.py) and RunRepository.promote_run, beside the runs as    *)
(* RunLedger describes them.                                               *)
(*                                                                         *)
(* One action is one SQL statement, the last one with its commit.  Runs go *)
(* on changing between the statements of a promotion.                      *)
(***************************************************************************)
EXTENDS RunLedger, FiniteSets

CONSTANTS Promotions,   \* promotion requests
          Channels,     \* (project, channel) pairs
          NoRun         \* no row of baseline_channels, or previous_run_id NULL

ASSUME NoRunAssumption == NoRun \notin Runs
ASSUME PromotionsAssumption == IsFiniteSet(Promotions)

VARIABLES
  baseline,   \* baseline_channels: the run_id of a channel and its previous_run_id
  pc,         \* where promotion p is
  req,        \* the channel and the run it is about
  seen,       \* existing_row.run_id as it has read it
  reply       \* what it was answered

promotionVars == <<pc, req, seen, reply>>
vars == <<ledgerVars, baseline, promotionVars>>

NoBaseline == [run_id |-> NoRun, previous_run_id |-> NoRun]

\* "refused" is 422, "error" an uncaught IntegrityError (500).
Replies == {"none", "created", "same", "updated", "refused", "error"}

\* The one type invariant of this module.
TypeOK ==
  /\ state \in [Runs -> RunStates]
  /\ gate \in [Runs -> GateOutcomes \cup {"none"}]
  /\ evidence \in [Runs -> Reports]
  /\ baseline \in [Channels -> [run_id : Runs \cup {NoRun},
                                previous_run_id : Runs \cup {NoRun}]]
  /\ pc \in [Promotions -> {"new", "select", "insert", "update", "done"}]
  /\ req \in [Promotions -> [channel : Channels, run : Runs]]
  /\ seen \in [Promotions -> Runs \cup {NoRun}]
  /\ reply \in [Promotions -> Replies]

Init ==
  /\ LedgerInit
  /\ baseline = [c \in Channels |-> NoBaseline]
  /\ pc = [p \in Promotions |-> "new"]
  /\ req \in [Promotions -> [channel : Channels, run : Runs]]
  /\ seen = [p \in Promotions |-> NoRun]
  /\ reply = [p \in Promotions |-> "none"]

----------------------------------------------------------------------------
(* promote_run *)

\* Mutant: a finished run is eligible whatever its verdict.
Eligible_Finished(s, g) == s = "completed"

Eligible(s, g) == s = "completed" /\ g = "pass"

Reply(p, r) ==
  /\ pc' = [pc EXCEPT ![p] = "done"]
  /\ reply' = [reply EXCEPT ![p] = r]

\* The run row is loaded.
Check(p) ==
  LET r == req[p].run IN
  /\ pc[p] = "new"
  /\ \/ /\ Eligible(state[r], gate[r])
        /\ pc' = [pc EXCEPT ![p] = "select"]
        /\ UNCHANGED reply
     \/ /\ ~Eligible(state[r], gate[r])
        /\ Reply(p, "refused")
  /\ UNCHANGED <<ledgerVars, baseline, req, seen>>

\* The channel's row is loaded.  Promoting the run it already names is done.
Select(p) ==
  LET current == baseline[req[p].channel].run_id IN
  /\ pc[p] = "select"
  /\ seen' = [seen EXCEPT ![p] = current]
  /\ \/ /\ current = req[p].run
        /\ Reply(p, "same")
     \/ /\ current # req[p].run
        /\ pc' = [pc EXCEPT ![p] = IF current = NoRun THEN "insert" ELSE "update"]
        /\ UNCHANGED reply
  /\ UNCHANGED <<ledgerVars, baseline, req>>

\* There was no row: INSERT.  uq_baseline_project_channel rejects a second
\* row of the channel, and nothing catches that.
Insert(p) ==
  LET c == req[p].channel IN
  /\ pc[p] = "insert"
  /\ \/ /\ baseline[c] = NoBaseline
        /\ baseline' = [baseline EXCEPT
             ![c] = [run_id |-> req[p].run, previous_run_id |-> NoRun]]
        /\ Reply(p, "created")
     \/ /\ baseline[c] # NoBaseline
        /\ Reply(p, "error")
        /\ UNCHANGED baseline
  /\ UNCHANGED <<ledgerVars, req, seen>>

\* Mutants: the UPDATE does not name the run it replaces, or compares it with
\* the other column.
UpdateMatches_AnyRun(row, previous) == TRUE
UpdateMatches_OtherColumn(row, previous) == row.previous_run_id = previous

\* The WHERE clause of the UPDATE.
UpdateMatches(row, previous) == row.run_id = previous

\* There was a row: UPDATE, unless another promotion was faster.
Update(p) ==
  LET c == req[p].channel IN
  /\ pc[p] = "update"
  /\ \/ /\ UpdateMatches(baseline[c], seen[p])
        /\ baseline' = [baseline EXCEPT
             ![c] = [run_id |-> req[p].run, previous_run_id |-> seen[p]]]
        /\ Reply(p, "updated")
     \/ /\ ~UpdateMatches(baseline[c], seen[p])
        /\ Reply(p, "refused")
        /\ UNCHANGED baseline
  /\ UNCHANGED <<ledgerVars, req, seen>>

----------------------------------------------------------------------------
(* Specification *)

Promote(p) == Check(p) \/ Select(p) \/ Insert(p) \/ Update(p)

\* A worker, an API request or reconciliation changes a run.
RunStep == LedgerNext /\ UNCHANGED <<baseline, promotionVars>>

Next == RunStep \/ \E p \in Promotions : Promote(p)

Spec == Init /\ [][Next]_vars

----------------------------------------------------------------------------
(* Properties *)

\* A channel only ever names a run whose stored evidence is complete and
\* passing: neither a run that changes after promote_run has looked at it, nor
\* a late cancellation of a promoted run, leaves a baseline without evidence.
BaselineBacked ==
  \A c \in Channels :
    LET r == baseline[c].run_id IN
    r # NoRun => /\ evidence[r].gate_outcome = "pass"
                 /\ evidence[r].status = "completed"
                 /\ evidence[r].cases = Cases[r]

Won(p) == reply[p] \in {"created", "updated"}

\* The promotions that gave channel c to run r, and those that took it from r.
Brought(c, r) == {p \in Promotions : Won(p) /\ req[p].channel = c /\ req[p].run = r}
Took(c, r) == {p \in Promotions : Won(p) /\ req[p].channel = c /\ seen[p] = r}

\* No promotion is overwritten unseen: every promotion of r to a channel is
\* replaced by at most one other promotion that has read r, and all but the
\* current one are.  So of several concurrent promotions that read r, at most
\* as many win as times r was promoted (again, when the channel came back
\* to r), and the first promotion of a channel wins alone.
WinnersFormAChain ==
  \A c \in Channels :
    /\ \A r \in Runs :
         Cardinality(Brought(c, r)) =
           Cardinality(Took(c, r)) + (IF baseline[c].run_id = r THEN 1 ELSE 0)
    /\ Cardinality(Took(c, NoRun)) = (IF baseline[c] = NoBaseline THEN 0 ELSE 1)

\* "Exactly one concurrent promotion wins per channel", the half that holds: of
\* the promotions that read the same run of a channel, or no run, one wins
\* whenever another is refused, and they never all lose.  An eligible promotion
\* that loses, by 422 from its UPDATE or by 500 from its INSERT, lost to another
\* promotion of the same channel that had read the same and succeeded.
LosersWereOvertaken ==
  \A p \in Promotions :
    (reply[p] = "error" \/ (reply[p] = "refused" /\ seen[p] # NoRun)) =>
      Took(req[p].channel, seen[p]) # {}
=============================================================================
