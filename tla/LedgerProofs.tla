---------------------------- MODULE LedgerProofs ----------------------------
(***************************************************************************)
(* What every reader of the run tables may rely on, proved for RunLedger,  *)
(* and from it the safety properties of the two readers that act on what   *)
(* they have read: Baselines and CIWait.                                   *)
(***************************************************************************)
EXTENDS Baselines, CIWait, FiniteSetTheorems, TLAPS

LedgerTypeOK ==
  /\ state \in [Runs -> RunStates]
  /\ gate \in [Runs -> GateOutcomes \cup {"none"}]
  /\ evidence \in [Runs -> Reports]

\* A run's verdict describes its evidence, a quality verdict has evidence, a
\* completed run has a full report, and a run that may still be claimed has
\* nothing yet.
RunConsistent(s, g, e, total) ==
  /\ e # NoReport => e \in ReportsOf(total) /\ g = e.gate_outcome
  /\ g \in {"pass", "fail"} => e # NoReport
  /\ s = "completed" => e # NoReport /\ e.status = "completed"
  /\ s \in {"absent", "created", "running"} => e = NoReport

LedgerInv ==
  /\ LedgerTypeOK
  /\ \A r \in Runs : RunConsistent(state[r], gate[r], evidence[r], Cases[r])

\* What a passing verdict of a completed run, and of any run, stands on.
LEMMA VerdictHasEvidence ==
  ASSUME LedgerInv, NEW r \in Runs, gate[r] \in {"pass", "fail"}
  PROVE  /\ evidence[r] # NoReport
         /\ evidence[r].gate_outcome = gate[r]
         /\ state[r] = "completed" => /\ evidence[r].status = "completed"
                                      /\ evidence[r].cases = Cases[r]
BY DEF LedgerInv, RunConsistent, ReportsOf

LEMMA InitLedgerInv == LedgerInit => LedgerInv
BY DEF LedgerInit, LedgerInv, LedgerTypeOK, RunConsistent, RunStates, Reports, NoReport

LEMMA ReportTypes ==
  ASSUME NEW total \in Nat, NEW rep \in ReportsOf(total)
  PROVE  rep \in Reports /\ rep.gate_outcome \in GateOutcomes /\ rep # NoReport
BY DEF ReportsOf, Reports, NoReport

\* A step of the ledger keeps its runs consistent and never touches evidence
\* that is there.
LEMMA StepLedgerInv ==
  ASSUME LedgerInv, [LedgerNext]_ledgerVars
  PROVE  /\ LedgerInv'
         /\ \A r \in Runs : evidence[r] # NoReport => evidence'[r] = evidence[r]
<1> DEFINE Goal == /\ LedgerInv'
                   /\ \A r \in Runs : evidence[r] # NoReport => evidence'[r] = evidence[r]
<1>0. LedgerTypeOK /\ \A r \in Runs : RunConsistent(state[r], gate[r], evidence[r], Cases[r])
  BY DEF LedgerInv
<1>1. ASSUME NEW q \in Runs, Submit(q) \/ Take(q) PROVE Goal
  <2>1. LedgerTypeOK'
    BY <1>0, <1>1 DEF LedgerTypeOK, Submit, Take, RunStates
  <2>2. ASSUME NEW r \in Runs
        PROVE  RunConsistent(state'[r], gate'[r], evidence'[r], Cases[r])
    BY <1>0, <1>1 DEF LedgerTypeOK, Submit, Take, RunConsistent
  <2> QED BY <1>1, <2>1, <2>2 DEF LedgerInv, Submit, Take
<1>2. ASSUME NEW q \in Runs, NEW s \in {"cancelling", "cancelled"}, Cancel(q, s) PROVE Goal
  <2>1. LedgerTypeOK'
    BY <1>0, <1>2 DEF LedgerTypeOK, Cancel, RunStates
  <2>2. ASSUME NEW r \in Runs
        PROVE  RunConsistent(state'[r], gate'[r], evidence'[r], Cases[r])
    BY <1>0, <1>2 DEF LedgerTypeOK, Cancel, RunConsistent
  <2> QED BY <1>2, <2>1, <2>2 DEF LedgerInv, Cancel
<1>3. ASSUME NEW q \in Runs, NEW rep \in ReportsOf(Cases[q]),
             NEW s \in {"completed", "cancelled"}, Record(q, rep, s)
      PROVE Goal
  <2>0. /\ rep \in Reports /\ rep.gate_outcome \in GateOutcomes /\ rep # NoReport
    BY ReportTypes, LedgerCasesAssumption
  <2>1. LedgerTypeOK'
    BY <1>0, <1>3, <2>0 DEF LedgerTypeOK, Record, RunStates
  <2>2. ASSUME NEW r \in Runs
        PROVE  RunConsistent(state'[r], gate'[r], evidence'[r], Cases[r])
    BY <1>0, <1>3, <2>0 DEF LedgerTypeOK, Record, RunConsistent
  <2>3. \A r \in Runs : evidence[r] # NoReport => evidence'[r] = evidence[r]
    BY <1>0, <1>3 DEF LedgerTypeOK, Record
  <2> QED BY <2>1, <2>2, <2>3 DEF LedgerInv
<1>4. ASSUME NEW S \in SUBSET Runs, GiveUp(S) PROVE Goal
  <2>1. LedgerTypeOK'
    BY <1>0, <1>4 DEF LedgerTypeOK, GiveUp, RunStates, GateOutcomes
  <2>2. ASSUME NEW r \in Runs
        PROVE  RunConsistent(state'[r], gate'[r], evidence'[r], Cases[r])
    <3>1. /\ evidence'[r] = evidence[r]
          /\ state'[r] = IF r \notin S THEN state[r]
                         ELSE IF state[r] = "running" THEN "failed" ELSE "cancelled"
          /\ gate'[r] = IF r \in S /\ state[r] = "running" THEN "error" ELSE gate[r]
      BY <1>0, <1>4 DEF LedgerTypeOK, GiveUp
    <3> QED BY <1>0, <3>1 DEF RunConsistent
  <2> QED BY <1>4, <2>1, <2>2 DEF LedgerInv, GiveUp
<1>5. ASSUME UNCHANGED ledgerVars PROVE Goal
  BY <1>5 DEF ledgerVars, LedgerInv, LedgerTypeOK
<1> QED BY <1>1, <1>2, <1>3, <1>4, <1>5 DEF LedgerNext

\* The ledger is consistent in every state: a verdict always describes stored
\* evidence, and a completed run always has all of it.
THEOREM LedgerConsistent == LedgerSpec => []LedgerInv
BY InitLedgerInv, StepLedgerInv, PTL DEF LedgerSpec

-----------------------------------------------------------------------------
(* Baselines: for every number of runs, channels and concurrent promotions. *)

Backed(r) == /\ evidence[r].gate_outcome = "pass"
             /\ evidence[r].status = "completed"
             /\ evidence[r].cases = Cases[r]

\* What a promotion knows between its statements: its run was eligible, an
\* INSERT is only tried after an empty read and an UPDATE only after another.
PromotionOK(p) ==
  /\ pc[p] \in {"select", "insert", "update"} => Backed(req[p].run)
  /\ pc[p] \in {"new", "select", "insert"} => seen[p] = NoRun
  /\ pc[p] = "update" => seen[p] # NoRun
  /\ reply[p] = "error" => seen[p] = NoRun
  /\ reply[p] = "none" <=> pc[p] # "done"

\* The inductive invariant.  BaselineBacked alone is not inductive: a promotion
\* in flight must still know that its run is eligible.
BaselineInv ==
  /\ TypeOK
  /\ LedgerInv
  /\ BaselineBacked
  /\ \A c \in Channels : baseline[c].run_id = NoRun => baseline[c] = NoBaseline
  /\ \A p \in Promotions : PromotionOK(p)

LEMMA BackedIsEvidence == ASSUME NEW r, Backed(r) PROVE evidence[r] # NoReport
BY DEF Backed, NoReport

LEMMA BaselineInit == Init => BaselineInv
<1> SUFFICES ASSUME Init PROVE BaselineInv
  OBVIOUS
<1>1. LedgerInv
  BY InitLedgerInv DEF Init
<1>2. TypeOK
  BY <1>1 DEF Init, TypeOK, LedgerInv, LedgerTypeOK, NoBaseline, Replies
<1>3. /\ BaselineBacked /\ \A p \in Promotions : PromotionOK(p)
      /\ \A c \in Channels : baseline[c].run_id = NoRun => baseline[c] = NoBaseline
  BY DEF Init, BaselineBacked, NoBaseline, PromotionOK
<1> QED BY <1>1, <1>2, <1>3 DEF BaselineInv

LEMMA BaselineStep == BaselineInv /\ [Next]_vars => BaselineInv'
<1> SUFFICES ASSUME BaselineInv, [Next]_vars PROVE BaselineInv'
  OBVIOUS
<1>0. /\ TypeOK /\ LedgerInv /\ BaselineBacked /\ \A p \in Promotions : PromotionOK(p)
      /\ \A c \in Channels : baseline[c].run_id = NoRun => baseline[c] = NoBaseline
  BY DEF BaselineInv
<1>1. ASSUME [LedgerNext]_ledgerVars, UNCHANGED <<baseline, promotionVars>>
      PROVE BaselineInv'
  <2>1. /\ LedgerInv'
        /\ \A r \in Runs : evidence[r] # NoReport => evidence'[r] = evidence[r]
    BY <1>0, <1>1, StepLedgerInv
  <2>2. TypeOK'
    BY <1>0, <1>1, <2>1 DEF TypeOK, LedgerInv, LedgerTypeOK, promotionVars
  <2>3. \A r \in Runs : Backed(r) => Backed(r)'
    BY <2>1, BackedIsEvidence DEF Backed
  <2>4. BaselineBacked'
    BY <1>0, <1>1, <2>3 DEF BaselineBacked, Backed, TypeOK
  <2>5. ASSUME NEW p \in Promotions PROVE PromotionOK(p)'
    <3>1. req[p].run \in Runs
      BY <1>0 DEF TypeOK
    <3> QED BY <1>0, <1>1, <2>3, <3>1 DEF PromotionOK, promotionVars
  <2> QED BY <1>0, <1>1, <2>1, <2>2, <2>4, <2>5 DEF BaselineInv
<1>2. ASSUME NEW q \in Promotions, Promote(q) PROVE BaselineInv'
  <2>0. /\ req[q].run \in Runs /\ req[q].channel \in Channels
        /\ req' = req /\ evidence' = evidence /\ UNCHANGED ledgerVars
    BY <1>0, <1>2 DEF Promote, Check, Select, Insert, Update, TypeOK, ledgerVars
  <2>1. LedgerInv'
    BY <1>0, <2>0, StepLedgerInv
  <2>w. \/ baseline' = baseline
        \/ /\ Backed(req[q].run)
           /\ baseline' = [baseline EXCEPT ![req[q].channel] =
                              [run_id |-> req[q].run, previous_run_id |-> seen[q]]]
    BY <1>0, <1>2 DEF Promote, Check, Select, Insert, Update, PromotionOK
  <2>t. baseline' \in [Channels -> [run_id : Runs \cup {NoRun},
                                   previous_run_id : Runs \cup {NoRun}]]
    BY <1>0, <2>0, <2>w DEF TypeOK
  <2>2. TypeOK'
    <3>1. CASE Check(q)
      BY <1>0, <2>1, <3>1 DEF TypeOK, Check, Reply, Replies, LedgerInv, LedgerTypeOK
    <3>2. CASE Select(q)
      BY <1>0, <2>0, <2>1, <3>2 DEF TypeOK, Select, Reply, Replies, LedgerInv, LedgerTypeOK
    <3>3. CASE Insert(q) \/ Update(q)
      BY <1>0, <2>1, <2>t, <3>3
      DEF TypeOK, Insert, Update, Reply, Replies, LedgerInv, LedgerTypeOK
    <3> QED BY <1>2, <3>1, <3>2, <3>3 DEF Promote
  <2>3. BaselineBacked'
    <3> SUFFICES ASSUME NEW c \in Channels, baseline'[c].run_id # NoRun
                 PROVE  Backed(baseline'[c].run_id)
      BY <2>0 DEF BaselineBacked, Backed
    <3>1. CASE baseline'[c] = baseline[c]
      BY <1>0, <3>1 DEF BaselineBacked, Backed
    <3>2. CASE baseline'[c] # baseline[c]
      BY <1>0, <2>0, <2>w, <3>2 DEF TypeOK
    <3> QED BY <3>1, <3>2
  <2>4. ASSUME NEW p \in Promotions PROVE PromotionOK(p)'
    <3>1. CASE p # q
      <4>1. pc'[p] = pc[p] /\ seen'[p] = seen[p] /\ reply'[p] = reply[p]
        BY <1>0, <1>2, <3>1 DEF Promote, Check, Select, Insert, Update, Reply, TypeOK
      <4> QED BY <1>0, <2>0, <4>1 DEF PromotionOK, Backed
    <3>2. CASE p = q /\ Check(q)
      <4>1. Eligible(state[req[q].run], gate[req[q].run]) => Backed(req[q].run)
        BY <1>0, <2>0, VerdictHasEvidence DEF Eligible, Backed
      <4> QED BY <1>0, <2>0, <3>2, <4>1 DEF PromotionOK, Backed, Check, Reply, TypeOK
    <3>3. CASE p = q /\ Select(q)
      BY <1>0, <2>0, <3>3 DEF PromotionOK, Backed, Select, Reply, TypeOK
    <3>4. CASE p = q /\ (Insert(q) \/ Update(q))
      BY <1>0, <2>0, <3>4 DEF PromotionOK, Backed, Insert, Update, Reply, TypeOK
    <3> QED BY <1>2, <3>1, <3>2, <3>3, <3>4 DEF Promote
  <2>5. \A c \in Channels : baseline'[c].run_id = NoRun => baseline'[c] = NoBaseline
    BY <1>0, <2>0, <2>w, NoRunAssumption DEF TypeOK
  <2> QED BY <2>1, <2>2, <2>3, <2>4, <2>5 DEF BaselineInv, NoBaseline
<1>3. CASE UNCHANGED vars
  BY <1>1, <1>3 DEF vars
<1> QED BY <1>1, <1>2, <1>3 DEF Next, RunStep

LEMMA BaselineInvariance == Spec => []BaselineInv
BY BaselineInit, BaselineStep, PTL DEF Spec

\* A baseline channel never names a run without complete, passing evidence,
\* whatever happens to the run between the statements of promote_run or later.
THEOREM BaselineTheorem == Spec => []BaselineBacked
BY BaselineInvariance, PTL DEF BaselineInv

\* What a statement of promotion q does to the winners: nothing, or q wins and
\* the channel passes from the run q has read to the run q is about.
LEMMA PromoteEffect ==
  ASSUME BaselineInv, NEW q \in Promotions, Promote(q)
  PROVE  /\ ~Won(q) /\ req' = req
         /\ \A p \in Promotions \ {q} :
              pc'[p] = pc[p] /\ seen'[p] = seen[p] /\ reply'[p] = reply[p]
         /\ \/ ~Won(q)' /\ baseline' = baseline
            \/ /\ Won(q)' /\ pc'[q] = "done" /\ reply'[q] \notin {"error", "refused"}
               /\ seen'[q] = seen[q]
               /\ baseline[req[q].channel].run_id = seen[q]
               /\ seen[q] = NoRun <=> baseline[req[q].channel] = NoBaseline
               /\ baseline' = [baseline EXCEPT ![req[q].channel] =
                                 [run_id |-> req[q].run, previous_run_id |-> seen[q]]]
<1>0. TypeOK /\ PromotionOK(q) /\ req[q].channel \in Channels
  BY DEF BaselineInv, TypeOK
<1>1. ~Won(q) /\ req' = req
  BY <1>0 DEF Promote, Check, Select, Insert, Update, PromotionOK, Won
<1>2. \A p \in Promotions \ {q} :
        pc'[p] = pc[p] /\ seen'[p] = seen[p] /\ reply'[p] = reply[p]
  BY <1>0 DEF Promote, Check, Select, Insert, Update, Reply, TypeOK
<1>3. CASE Check(q) \/ Select(q)
  BY <1>0, <1>1, <1>2, <1>3 DEF Check, Select, Reply, Won, TypeOK
<1>4. CASE Insert(q) /\ baseline[req[q].channel] = NoBaseline
  BY <1>0, <1>1, <1>2, <1>4 DEF Insert, Reply, Won, TypeOK, PromotionOK, NoBaseline
<1>5. CASE Insert(q) /\ baseline[req[q].channel] # NoBaseline
  BY <1>0, <1>1, <1>2, <1>5 DEF Insert, Reply, Won, TypeOK
<1>6. CASE Update(q) /\ UpdateMatches(baseline[req[q].channel], seen[q])
  <2>1. seen[q] # NoRun /\ baseline[req[q].channel].run_id = seen[q]
    BY <1>0, <1>6 DEF Update, PromotionOK, UpdateMatches
  <2>2. baseline[req[q].channel] # NoBaseline
    BY <2>1 DEF NoBaseline
  <2> QED BY <1>0, <1>1, <1>2, <1>6, <2>1, <2>2 DEF Update, Reply, Won, TypeOK
<1>7. CASE Update(q) /\ ~UpdateMatches(baseline[req[q].channel], seen[q])
  BY <1>0, <1>1, <1>2, <1>7 DEF Update, Reply, Won, TypeOK
<1> QED BY <1>3, <1>4, <1>5, <1>6, <1>7 DEF Promote

\* The sets of winners grow by q or stay.
LEMMA WinnerSets ==
  ASSUME BaselineInv, NEW q \in Promotions, Promote(q), NEW c, NEW r
  PROVE  /\ q \notin Took(c, r) /\ q \notin Brought(c, r)
         /\ Took(c, r)' = IF Won(q)' /\ req[q].channel = c /\ seen[q] = r
                          THEN Took(c, r) \cup {q} ELSE Took(c, r)
         /\ Brought(c, r)' = IF Won(q)' /\ req[q].channel = c /\ req[q].run = r
                             THEN Brought(c, r) \cup {q} ELSE Brought(c, r)
<1>1. ~Won(q) /\ req' = req /\ (Won(q)' => seen'[q] = seen[q])
  BY PromoteEffect
<1>2. \A p \in Promotions \ {q} : seen'[p] = seen[p] /\ (Won(p)' <=> Won(p))
  BY PromoteEffect DEF Won
<1> QED BY <1>1, <1>2 DEF Took, Brought

LEMMA WinnersCount ==
  ASSUME NEW c, NEW r
  PROVE  /\ IsFiniteSet(Took(c, r)) /\ Cardinality(Took(c, r)) \in Nat
         /\ IsFiniteSet(Brought(c, r)) /\ Cardinality(Brought(c, r)) \in Nat
<1>1. Took(c, r) \subseteq Promotions /\ Brought(c, r) \subseteq Promotions
  BY DEF Took, Brought
<1> QED BY <1>1, PromotionsAssumption, FS_Subset, FS_CardinalityType

\* A promotion whose UPDATE or INSERT can no longer succeed was overtaken.
Overtaken(p) ==
  LET c == req[p].channel IN
  /\ pc[p] = "update" /\ baseline[c].run_id # seen[p] => Took(c, seen[p]) # {}
  /\ pc[p] = "insert" /\ baseline[c] # NoBaseline => Took(c, seen[p]) # {}

\* The invariant of the promotion history, inductive beside BaselineInv.
ChainInv ==
  /\ WinnersFormAChain
  /\ LosersWereOvertaken
  /\ \A p \in Promotions : Overtaken(p)

LEMMA ChainInit == Init => ChainInv
<1> SUFFICES ASSUME Init PROVE ChainInv
  OBVIOUS
<1>1. \A c, r : Took(c, r) = {} /\ Brought(c, r) = {}
  BY DEF Init, Took, Brought, Won
<1>2. \A c, r : Cardinality(Took(c, r)) = 0 /\ Cardinality(Brought(c, r)) = 0
  BY <1>1, FS_EmptySet
<1>3. \A c \in Channels : baseline[c] = NoBaseline /\ baseline[c].run_id \notin Runs
  BY NoRunAssumption DEF Init, NoBaseline
<1>4. WinnersFormAChain
  BY <1>2, <1>3 DEF WinnersFormAChain
<1>5. LosersWereOvertaken /\ \A p \in Promotions : Overtaken(p)
  BY DEF Init, LosersWereOvertaken, Overtaken
<1> QED BY <1>4, <1>5 DEF ChainInv

LEMMA ChainStep == BaselineInv /\ ChainInv /\ [Next]_vars => ChainInv'
<1> SUFFICES ASSUME BaselineInv, ChainInv, [Next]_vars PROVE ChainInv'
  OBVIOUS
<1>0. /\ TypeOK /\ WinnersFormAChain /\ LosersWereOvertaken
      /\ \A p \in Promotions : Overtaken(p) /\ PromotionOK(p)
  BY DEF BaselineInv, ChainInv
<1>1. CASE UNCHANGED <<baseline, promotionVars>>
  <2>1. \A c, r : Took(c, r)' = Took(c, r) /\ Brought(c, r)' = Brought(c, r)
    BY <1>1 DEF Took, Brought, Won, promotionVars
  <2> QED BY <1>0, <1>1, <2>1
        DEF ChainInv, WinnersFormAChain, LosersWereOvertaken, Overtaken, promotionVars, NoBaseline
<1>2. ASSUME NEW q \in Promotions, Promote(q) PROVE ChainInv'
  <2> DEFINE d == req[q].channel
  <2>0. /\ d \in Channels /\ req[q].run \in Runs /\ ~Won(q) /\ req' = req
        /\ req[q].run # NoRun
    <3>1. ~Won(q) /\ req' = req
      BY <1>2, PromoteEffect
    <3> QED BY <1>0, <3>1, NoRunAssumption DEF TypeOK
  <2>1. ASSUME NEW x \in Promotions, Won(x)
        PROVE  Won(x)' /\ seen'[x] = seen[x] /\ req'[x] = req[x]
    BY <1>2, <2>0, <2>1, PromoteEffect DEF Won
  <2>2. WinnersFormAChain'
    <3>1. CASE ~Won(q)'
      <4>1. baseline' = baseline
        BY <1>2, <3>1, PromoteEffect
      <4>2. \A c, r : Took(c, r)' = Took(c, r) /\ Brought(c, r)' = Brought(c, r)
        BY <1>2, <3>1, WinnerSets
      <4> QED BY <1>0, <4>1, <4>2 DEF WinnersFormAChain, NoBaseline
    <3>2. CASE Won(q)'
      <4>1. /\ baseline[d].run_id = seen[q]
            /\ seen[q] = NoRun <=> baseline[d] = NoBaseline
            /\ baseline'[d] = [run_id |-> req[q].run, previous_run_id |-> seen[q]]
            /\ \A c \in Channels \ {d} : baseline'[c] = baseline[c]
        BY <1>0, <1>2, <2>0, <3>2, PromoteEffect DEF TypeOK
      <4>2. ASSUME NEW c, NEW r
            PROVE  /\ Cardinality(Took(c, r)') = Cardinality(Took(c, r))
                                               + (IF c = d /\ r = seen[q] THEN 1 ELSE 0)
                   /\ Cardinality(Brought(c, r)') = Cardinality(Brought(c, r))
                                               + (IF c = d /\ r = req[q].run THEN 1 ELSE 0)
        <5>1. /\ q \notin Took(c, r) /\ q \notin Brought(c, r)
              /\ Took(c, r)' = IF c = d /\ r = seen[q]
                               THEN Took(c, r) \cup {q} ELSE Took(c, r)
              /\ Brought(c, r)' = IF c = d /\ r = req[q].run
                                  THEN Brought(c, r) \cup {q} ELSE Brought(c, r)
          BY <1>2, <3>2, WinnerSets
        <5>2. /\ IsFiniteSet(Took(c, r)) /\ Cardinality(Took(c, r)) \in Nat
              /\ IsFiniteSet(Brought(c, r)) /\ Cardinality(Brought(c, r)) \in Nat
          BY WinnersCount
        <5>3. /\ Cardinality(Took(c, r) \cup {q}) = Cardinality(Took(c, r)) + 1
              /\ Cardinality(Brought(c, r) \cup {q}) = Cardinality(Brought(c, r)) + 1
          BY <5>1, <5>2, FS_AddElement
        <5> QED BY <5>1, <5>2, <5>3
      <4>3. \A c, r : Cardinality(Took(c, r)) \in Nat /\ Cardinality(Brought(c, r)) \in Nat
        BY WinnersCount
      <4>4. ASSUME NEW c \in Channels, NEW r \in Runs
            PROVE  Cardinality(Brought(c, r)') =
                     Cardinality(Took(c, r)') + (IF baseline'[c].run_id = r THEN 1 ELSE 0)
        <5>1. Cardinality(Brought(c, r)) =
                Cardinality(Took(c, r)) + (IF baseline[c].run_id = r THEN 1 ELSE 0)
          BY <1>0 DEF WinnersFormAChain
        <5>2. CASE c # d
          BY <4>1, <4>2, <4>3, <5>1, <5>2
        <5>3. CASE c = d
          <6>1. baseline[c].run_id = seen[q] /\ baseline'[c].run_id = req[q].run
            BY <4>1, <5>3
          <6> QED BY <4>2, <4>3, <5>1, <5>3, <6>1
        <5> QED BY <5>2, <5>3
      <4>5. ASSUME NEW c \in Channels
            PROVE  Cardinality(Took(c, NoRun)') = (IF baseline'[c] = NoBaseline THEN 0 ELSE 1)
        <5>1. Cardinality(Took(c, NoRun)) = (IF baseline[c] = NoBaseline THEN 0 ELSE 1)
          BY <1>0 DEF WinnersFormAChain
        <5>2. CASE c # d
          BY <4>1, <4>2, <4>3, <5>1, <5>2
        <5>3. CASE c = d
          <6>1. baseline'[c] # NoBaseline
            BY <2>0, <4>1, <5>3 DEF NoBaseline
          <6> QED BY <4>1, <4>2, <4>3, <5>1, <5>3, <6>1
        <5> QED BY <5>2, <5>3
      <4> QED BY <4>4, <4>5 DEF WinnersFormAChain, NoBaseline
    <3> QED BY <3>1, <3>2
  <2> DEFINE Beaten(p) == \E x \in Promotions :
                            /\ Won(x)' /\ req[x].channel = req[p].channel
                            /\ seen'[x] = seen'[p]
  <2>b. ASSUME NEW p \in Promotions, seen'[p] = seen[p], Took(req[p].channel, seen[p]) # {}
        PROVE  Beaten(p)
    BY <2>1, <2>b DEF Took
  <2>3. LosersWereOvertaken'
    <3> SUFFICES ASSUME NEW p \in Promotions,
                        reply'[p] = "error" \/ (reply'[p] = "refused" /\ seen'[p] # NoRun)
                 PROVE  Beaten(p)
      BY <2>0 DEF LosersWereOvertaken, Took
    <3>1. CASE p # q
      <4>1. seen'[p] = seen[p] /\ reply'[p] = reply[p]
        BY <1>2, <3>1, PromoteEffect
      <4>2. Took(req[p].channel, seen[p]) # {}
        BY <1>0, <4>1 DEF LosersWereOvertaken
      <4> QED BY <2>b, <4>1, <4>2
    <3>2. CASE p = q
      <4>1. /\ seen'[q] = seen[q]
            /\ \/ pc[q] = "update" /\ baseline[d].run_id # seen[q]
               \/ pc[q] = "insert" /\ baseline[d] # NoBaseline
        BY <1>0, <1>2, <3>2
        DEF Promote, Check, Select, Insert, Update, UpdateMatches, Reply, TypeOK, PromotionOK
      <4>2. Took(d, seen[q]) # {}
        BY <1>0, <4>1 DEF Overtaken
      <4> QED BY <2>b, <3>2, <4>1, <4>2
    <3> QED BY <3>1, <3>2
  <2>4. ASSUME NEW p \in Promotions PROVE Overtaken(p)'
    <3> DEFINE c == req[p].channel
    <3> SUFFICES ASSUME \/ pc'[p] = "update" /\ baseline'[c].run_id # seen'[p]
                        \/ pc'[p] = "insert" /\ baseline'[c] # NoBaseline
                 PROVE  Beaten(p)
      BY <2>0 DEF Overtaken, Took, NoBaseline
    <3>0. c \in Channels
      BY <1>0 DEF TypeOK
    <3>1. CASE p # q
      <4>1. pc'[p] = pc[p] /\ seen'[p] = seen[p]
        BY <1>2, <3>1, PromoteEffect
      <4>2. CASE \/ pc[p] = "update" /\ baseline[c].run_id # seen[p]
                 \/ pc[p] = "insert" /\ baseline[c] # NoBaseline
        <5>1. Took(c, seen[p]) # {}
          BY <1>0, <4>2 DEF Overtaken
        <5> QED BY <2>b, <4>1, <5>1
      <4>3. CASE \/ pc[p] = "update" /\ baseline[c].run_id = seen[p]
                 \/ pc[p] = "insert" /\ baseline[c] = NoBaseline
        <5>1. baseline'[c] # baseline[c]
          BY <4>1, <4>3
        <5>2. Won(q)' /\ seen'[q] = baseline[c].run_id /\ req[q].channel = c
          <6>1. /\ Won(q)' /\ seen'[q] = seen[q] /\ baseline[d].run_id = seen[q]
                /\ baseline' = [baseline EXCEPT
                     ![d] = [run_id |-> req[q].run, previous_run_id |-> seen[q]]]
            BY <1>2, <5>1, PromoteEffect
          <6>2. c = d
            BY <1>0, <3>0, <5>1, <6>1 DEF TypeOK
          <6> QED BY <6>1, <6>2
        <5>3. seen[p] = baseline[c].run_id
          BY <1>0, <4>3 DEF PromotionOK, NoBaseline
        <5> QED BY <4>1, <5>2, <5>3
      <4> QED BY <4>1, <4>2, <4>3
    <3>2. CASE p = q
      <4>1. Select(q) /\ baseline' = baseline /\ seen'[q] = baseline[c].run_id
        BY <1>0, <1>2, <3>2 DEF Promote, Check, Select, Insert, Update, Reply, TypeOK
      <4>2. pc'[q] = "insert" => baseline[c].run_id = NoRun
        BY <1>0, <3>2, <4>1 DEF Select, Reply, TypeOK
      <4>3. baseline[c].run_id = NoRun => baseline[c] = NoBaseline
        BY <3>0 DEF BaselineInv
      <4> QED BY <3>2, <4>1, <4>2, <4>3
    <3> QED BY <3>1, <3>2
  <2> QED BY <2>2, <2>3, <2>4 DEF ChainInv
<1>3. CASE UNCHANGED vars
  BY <1>1, <1>3 DEF vars
<1> QED BY <1>1, <1>2, <1>3 DEF Next, RunStep

LEMMA ChainInvariance == Spec => []ChainInv
BY BaselineInvariance, ChainInit, ChainStep, PTL DEF Spec

\* The successful promotions of a channel form a chain: each takes the channel
\* from exactly one earlier promotion, the one it has read, for any number of
\* concurrent promotions, also when the channel comes back to an earlier run.
THEOREM ChainTheorem == Spec => []WinnersFormAChain
BY ChainInvariance, PTL DEF ChainInv

\* An eligible promotion only loses to another that had read the same of the
\* channel and won: of the promotions that read the same, not all lose.
THEOREM OvertakenTheorem == Spec => []LosersWereOvertaken
BY ChainInvariance, PTL DEF ChainInv

\* Promotions, answers and channels keep their types beside a changing ledger.
THEOREM BaselineTypeCorrect == Spec => []TypeOK
BY BaselineInvariance, PTL DEF BaselineInv

-----------------------------------------------------------------------------
(* CIWait: for every number of runs and builds.                            *)

\* A command prints nothing before it ends.
NothingYet == \A b \in Builds : command[b] # "done" => printed[b] = "none"

\* The inductive invariant: the exit codes are backed because the ledger is
\* consistent at the poll and never rewrites evidence after it.
ExitInv == CITypeOK /\ LedgerInv /\ ExitIsBacked /\ NothingYet

LEMMA ExitInit == CIInit => ExitInv
<1> SUFFICES ASSUME CIInit PROVE ExitInv
  OBVIOUS
<1>1. LedgerInv
  BY InitLedgerInv DEF CIInit
<1>2. CITypeOK
  BY <1>1 DEF CIInit, CITypeOK, LedgerInv, LedgerTypeOK, Pending
<1>3. ExitIsBacked /\ NothingYet
  BY DEF CIInit, ExitIsBacked, NothingYet, Pending, EXIT_PASS, EXIT_REGRESSION
<1> QED BY <1>1, <1>2, <1>3 DEF ExitInv

LEMMA ExitStep == ExitInv /\ [CINext]_ciVars => ExitInv'
<1> SUFFICES ASSUME ExitInv, [CINext]_ciVars PROVE ExitInv'
  OBVIOUS
<1> USE DEF EXIT_PASS, EXIT_REGRESSION, EXIT_ERROR, EXIT_TIMEOUT, Pending
<1>0. CITypeOK /\ LedgerInv /\ ExitIsBacked /\ NothingYet
  BY DEF ExitInv
<1>1. ASSUME [LedgerNext]_ledgerVars, UNCHANGED buildVars PROVE ExitInv'
  <2>1. /\ LedgerInv'
        /\ \A r \in Runs : evidence[r] # NoReport => evidence'[r] = evidence[r]
    BY <1>0, <1>1, StepLedgerInv
  <2>2. CITypeOK'
    BY <1>0, <1>1, <2>1 DEF CITypeOK, LedgerInv, LedgerTypeOK, buildVars
  <2>3. ExitIsBacked'
    <3>1. ASSUME NEW b \in Builds,
                 evidence[Target[b]].gate_outcome \in {"pass", "fail"}
          PROVE  evidence'[Target[b]] = evidence[Target[b]]
      BY <2>1, <3>1, TargetAssumption DEF NoReport
    <3> QED BY <1>0, <1>1, <3>1 DEF ExitIsBacked, buildVars
  <2>4. NothingYet'
    BY <1>0, <1>1 DEF NothingYet, buildVars
  <2> QED BY <2>1, <2>2, <2>3, <2>4 DEF ExitInv
<1>2. ASSUME NEW q \in Builds, Command(q) PROVE ExitInv'
  <2>0. UNCHANGED ledgerVars /\ evidence' = evidence /\ Target[q] \in Runs
    BY <1>2, TargetAssumption DEF Command, Status, CheckDeadline, Poll, ledgerVars
  <2>1. LedgerInv'
    BY <1>0, <2>0, StepLedgerInv
  <2>2. \A g : _gate_exit_code(g) \in {0, 1, 2}
    BY DEF _gate_exit_code
  <2>3. CITypeOK'
    BY <1>0, <1>2, <2>0, <2>1, <2>2
    DEF CITypeOK, Command, Status, CheckDeadline, Poll, End, Answer, Fail, Uncaught, GoOn,
        OrError, AfterLivePoll, LedgerInv, LedgerTypeOK, GateOutcomes
  <2>4. ASSUME NEW b \in Builds, b # q
        PROVE  exit'[b] = exit[b] /\ printed'[b] = printed[b]
    BY <1>0, <1>2, <2>4
    DEF CITypeOK, Command, Status, CheckDeadline, Poll, End, Answer, Fail, Uncaught, GoOn
  <2>5. \/ exit'[q] = exit[q] /\ printed'[q] = printed[q]
        \/ exit'[q] \in {1, 2, 3} /\ printed'[q] = "none"
        \/ printed'[q] = gate[Target[q]] /\ exit'[q] = _gate_exit_code(gate[Target[q]])
        \/ printed'[q] = "error" /\ exit'[q] = _gate_exit_code("error")
    <3>1. CASE Status(q)
      BY <1>0, <3>1 DEF CITypeOK, Status, End, Answer, Fail, Uncaught, NothingYet
    <3>2. CASE CheckDeadline(q)
      BY <1>0, <3>2 DEF CITypeOK, CheckDeadline, End, Fail, GoOn, NothingYet
    <3>3. CASE Poll(q)
      BY <1>0, <3>3 DEF CITypeOK, Poll, End, Answer, Fail, Uncaught, GoOn, OrError, NothingYet
    <3> QED BY <1>2, <3>1, <3>2, <3>3 DEF Command
  <2>6. LET g == gate[Target[q]] IN
        /\ g \in {"pass", "fail"} => evidence[Target[q]].gate_outcome = g
        /\ _gate_exit_code(g) = 0 <=> g = "pass"
        /\ _gate_exit_code(g) = 1 <=> g = "fail"
        /\ _gate_exit_code("error") = 2
    BY <1>0, <2>0, VerdictHasEvidence DEF _gate_exit_code
  <2>7. NothingYet'
    BY <1>0, <1>2
    DEF CITypeOK, Command, Status, CheckDeadline, Poll, End, Answer, Fail, Uncaught, GoOn,
        AfterLivePoll, NothingYet
  <2>8. ExitIsBacked'
    <3> SUFFICES ASSUME NEW b \in Builds
                 PROVE  LET e == evidence[Target[b]] IN
                        /\ exit'[b] = 0 => e.gate_outcome = "pass"
                        /\ printed'[b] = "pass" => e.gate_outcome = "pass" /\ exit'[b] = 0
                        /\ printed'[b] = "fail" => e.gate_outcome = "fail" /\ exit'[b] = 1
                        /\ exit'[b] = 1 => printed'[b] \in {"fail", "none"}
      BY <2>0 DEF ExitIsBacked
    <3>1. CASE b # q
      BY <1>0, <2>4, <3>1 DEF ExitIsBacked
    <3>2. CASE b = q
      BY <1>0, <2>5, <2>6, <3>2 DEF ExitIsBacked
    <3> QED BY <3>1, <3>2
  <2> QED BY <2>1, <2>3, <2>7, <2>8 DEF ExitInv
<1>3. ASSUME NEW q \in Builds, DeadlinePasses(q) PROVE ExitInv'
  <2>1. UNCHANGED ledgerVars /\ LedgerInv'
    BY <1>0, <1>3, StepLedgerInv DEF DeadlinePasses
  <2>2. CITypeOK'
    BY <1>0, <1>3, <2>1 DEF DeadlinePasses, CITypeOK, ledgerVars
  <2>3. ExitIsBacked' /\ NothingYet'
    BY <1>0, <1>3, <2>1 DEF DeadlinePasses, ExitIsBacked, NothingYet, ledgerVars
  <2> QED BY <2>1, <2>2, <2>3 DEF ExitInv
<1>4. CASE UNCHANGED ciVars
  BY <1>1, <1>4 DEF ciVars
<1> QED BY <1>1, <1>2, <1>3, <1>4 DEF CINext, CIRunStep

\* The exit code of a quality verdict is backed by stored evidence of that
\* verdict when the command ends and ever after.
THEOREM ExitTheorem == CISpec => []ExitIsBacked
<1>1. ExitInv => ExitIsBacked
  BY DEF ExitInv
<1> QED BY <1>1, ExitInit, ExitStep, PTL DEF CISpec

\* Commands, exit codes and the ledger beside them keep their types.
THEOREM CommandTypeCorrect == CISpec => []CITypeOK
<1>1. ExitInv => CITypeOK
  BY DEF ExitInv
<1> QED BY <1>1, ExitInit, ExitStep, PTL DEF CISpec
=============================================================================
