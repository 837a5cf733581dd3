-------------------------- MODULE SubmissionProofs --------------------------
(***************************************************************************)
(* The safety properties of Submission, for every number of requests,      *)
(* projects, keys and bodies.                                              *)
(***************************************************************************)
EXTENDS Submission, TLAPS

Record(a) == records[Project(a)][Key(a)]

\* A run that may be named in a 202 to request a.
Answerable(a, r) == /\ r \in runs
                    /\ Request[r] = Request[a]
                    /\ Key(a) = NoKey => r = a

\* What the open transaction of a request holds at each point.
RequestOK(a) ==
  /\ pc[a] \in {"new", "insert_project", "lookup", "reply"} \cup Ended => tx[a] = {}
  /\ pc[a] = "insert_run" => tx[a] \subseteq {"projects"}
  /\ pc[a] = "insert_record" =>
       "runs" \in tx[a] /\ "records" \notin tx[a] /\ result[a] = a
  /\ pc[a] \in {"insert_record", "lookup"} => Key(a) # NoKey
  /\ pc[a] = "lookup" => Record(a) # NoRecord
  /\ pc[a] = "commit" =>
       \/ tx[a] = {} /\ Answerable(a, result[a])
       \/ /\ "runs" \in tx[a] /\ result[a] = a
          /\ IF Key(a) = NoKey THEN "records" \notin tx[a]
             ELSE "records" \in tx[a] /\ Record(a) = NoRecord
  /\ pc[a] = "reply" => Answerable(a, result[a])
  /\ status[a] # 0 => pc[a] = "answered"

\* The unique index: one open transaction at most holds a key.
OneHolder ==
  \A a, b \in Attempts :
    /\ "records" \in tx[a] /\ "records" \in tx[b]
    /\ Project(a) = Project(b) /\ Key(a) = Key(b)
    => a = b

\* The inductive invariant.  OneRunPerKey needs OneHolder (nobody else commits
\* the key) and RequestOK (a pending record means that none is committed).
SubmissionInv ==
  /\ TypeOK
  /\ OneRunPerKey
  /\ AnswersAreTrue
  /\ OneHolder
  /\ \A a \in Attempts : RequestOK(a)

LEMMA RequestTypes ==
  ASSUME NEW a \in Attempts
  PROVE  Project(a) \in Projects /\ Key(a) \in Keys \cup {NoKey} /\ Body(a) \in Bodies
BY RequestAssumption DEF Project, Key, Body

LEMMA NotARecord == NoRecord \notin Records
BY NoRunAssumption DEF Records, NoRecord

LEMMA SubmissionInit == Init => SubmissionInv
<1> SUFFICES ASSUME Init PROVE SubmissionInv
  OBVIOUS
<1>1. TypeOK
  BY DEF Init, TypeOK
<1>2. OneRunPerKey /\ AnswersAreTrue /\ OneHolder
  BY DEF Init, OneRunPerKey, AnswersAreTrue, OneHolder
<1>3. \A a \in Attempts : RequestOK(a)
  BY DEF Init, RequestOK, Ended
<1> QED BY <1>1, <1>2, <1>3 DEF SubmissionInv

\* Steps that commit nothing.
LEMMA PrivateStep ==
  ASSUME SubmissionInv, NEW q \in Attempts,
         \/ GetProject(q) \/ InsertProject(q) \/ InsertRun(q) \/ InsertRecord(q)
         \/ Lookup(q) \/ Reply(q) \/ Lose(q)
  PROVE  SubmissionInv'
<1> DEFINE A == Attempts
<1>0. TypeOK /\ OneRunPerKey /\ AnswersAreTrue /\ OneHolder /\ \A a \in A : RequestOK(a)
  BY DEF SubmissionInv
<1>1. UNCHANGED <<projects, runs, records>>
  BY DEF GetProject, InsertProject, InsertRun, InsertRecord, Lookup, Reply, Lose
<1>2. \A a \in A : a # q => /\ tx'[a] = tx[a] /\ pc'[a] = pc[a]
                            /\ result'[a] = result[a] /\ status'[a] = status[a]
  BY <1>0 DEF TypeOK, GetProject, InsertProject, InsertRun, InsertRecord, Lookup,
              Reply, Lose, Answer
<1>3. TypeOK'
  <2>1. CASE Lookup(q)
    <3>1. Record(q) # NoRecord => Record(q) \in Records
      BY <1>0, <2>1, RequestTypes DEF TypeOK, Record, RequestOK, Lookup
    <3> QED BY <1>0, <1>1, <2>1, <3>1 DEF TypeOK, Lookup, Answer, Ended, Record, Records
  <2>2. CASE GetProject(q) \/ InsertProject(q)
    BY <1>0, <1>1, <2>2 DEF TypeOK, GetProject, InsertProject, Answer, Ended
  <2>3. CASE InsertRun(q)
    BY <1>0, <1>1, <2>3 DEF TypeOK, InsertRun
  <2>4. CASE InsertRecord(q)
    BY <1>0, <1>1, <2>4 DEF TypeOK, InsertRecord, AfterCollision
  <2>5. CASE Reply(q) \/ Lose(q)
    BY <1>0, <1>1, <2>5 DEF TypeOK, Reply, Lose, Answer, Ended
  <2> QED BY <2>1, <2>2, <2>3, <2>4, <2>5
<1>4. OneRunPerKey'
  BY <1>0, <1>1 DEF OneRunPerKey
<1>5. AnswersAreTrue'
  <2>1. ASSUME NEW a \in A
        PROVE  /\ status'[a] = 202 => Answerable(a, result'[a])
               /\ status'[a] = 409 => Record(a) # NoRecord /\ Record(a).request_hash # Body(a)
    <3>1. CASE status'[a] = status[a] /\ result'[a] = result[a]
      BY <1>0, <3>1 DEF AnswersAreTrue, Answerable, Record
    <3>2. CASE a = q /\ status'[a] # status[a]
      BY <1>0, <3>2 DEF GetProject, InsertProject, InsertRun, InsertRecord, Lookup,
         SameRequest, Reply, Lose, Answer, TypeOK, RequestOK, Record
    <3>3. CASE a = q /\ status'[a] = status[a] /\ result'[a] # result[a]
      BY <1>0, <3>3 DEF GetProject, InsertProject, InsertRun, InsertRecord, Lookup,
         Reply, Lose, Answer, TypeOK, RequestOK
    <3> QED BY <1>2, <3>1, <3>2, <3>3
  <2> QED BY <1>1, <2>1 DEF AnswersAreTrue, Answerable, Record
<1>6. OneHolder'
  <2>1. ASSUME "records" \in tx'[q], "records" \notin tx[q]
        PROVE  \A b \in A \ {q} : ~(/\ "records" \in tx[b]
                                    /\ Project(b) = Project(q) /\ Key(b) = Key(q))
    BY <1>0, <2>1 DEF TypeOK, GetProject, InsertProject, InsertRun, InsertRecord,
       Lookup, Reply, Lose, Answer, RecordLocked, AfterCollision
  <2> QED BY <1>0, <1>2, <2>1 DEF OneHolder
<1>7. ASSUME NEW a \in A PROVE RequestOK(a)'
  <2>1. CASE a # q
    BY <1>0, <1>1, <1>2, <2>1 DEF RequestOK, Record, Answerable
  <2>2. CASE a = q /\ (GetProject(q) \/ InsertProject(q))
    BY <1>0, <1>1, <2>2 DEF RequestOK, Record, Answerable, TypeOK, GetProject,
       InsertProject, Answer, Ended
  <2>3. CASE a = q /\ InsertRun(q)
    BY <1>0, <1>1, <2>3 DEF RequestOK, Record, Answerable, TypeOK, InsertRun, Ended
  <2>4. CASE a = q /\ InsertRecord(q)
    BY <1>0, <1>1, <2>4 DEF RequestOK, Record, Answerable, TypeOK, InsertRecord,
       KeyTaken, RecordLocked, AfterCollision, Ended
  <2>5. CASE a = q /\ Lookup(q)
    <3>1. Record(q) \in Records /\ Key(q) # NoKey /\ Key(q) \in Keys
      BY <1>0, <2>5, RequestTypes DEF RequestOK, Lookup, TypeOK, Record
    <3>2. LET r == Record(q).run_id IN
          r \in runs /\ Project(r) = Project(q) /\ Key(r) = Key(q)
      BY <1>0, <3>1, NotARecord, RequestTypes DEF OneRunPerKey, Record
    <3>3. CASE SameRequest(Record(q), q)
      <4> DEFINE r == Record(q).run_id
      <4>1. r \in A
        BY <3>1 DEF Records
      <4>2. Request[r] = Request[q]
        <5>0. r \in runs /\ Project(r) = Project(q) /\ Key(r) = Key(q) /\ Key(r) # NoKey
          BY <3>1, <3>2
        <5> HIDE DEF r
        <5>1. records[Project(r)][Key(r)] = [run_id |-> r, request_hash |-> Body(r)]
          BY <1>0, <5>0 DEF OneRunPerKey
        <5>a. Record(q) = [run_id |-> r, request_hash |-> Body(r)]
          BY <5>0, <5>1 DEF Record
        <5>2. Project(r) = Project(q) /\ Key(r) = Key(q) /\ Body(r) = Body(q)
          BY <3>3, <5>0, <5>a DEF SameRequest
        <5> QED BY <4>1, <5>2, RequestAssumption DEF Project, Key, Body
      <4> QED BY <1>0, <1>1, <2>5, <3>1, <3>2, <3>3, <4>2
             DEF RequestOK, Record, Answerable, TypeOK, Lookup, Ended
    <3>4. CASE ~SameRequest(Record(q), q)
      BY <1>0, <1>1, <2>5, <3>4
      DEF RequestOK, Record, Answerable, TypeOK, Lookup, Answer, Ended
    <3> QED BY <3>3, <3>4
  <2>6. CASE a = q /\ (Reply(q) \/ Lose(q))
    BY <1>0, <1>1, <2>6 DEF RequestOK, Record, Answerable, TypeOK, Reply, Lose,
       Answer, Ended
  <2> QED BY <2>1, <2>2, <2>3, <2>4, <2>5, <2>6
<1> QED BY <1>3, <1>4, <1>5, <1>6, <1>7 DEF SubmissionInv

\* The step that makes rows visible.
LEMMA CommitStep ==
  ASSUME SubmissionInv, NEW q \in Attempts, Commit(q)
  PROVE  SubmissionInv'
<1> DEFINE A == Attempts
           p == Project(q)
           k == Key(q)
           new == [run_id |-> q, request_hash |-> Body(q)]
<1>0. TypeOK /\ OneRunPerKey /\ AnswersAreTrue /\ OneHolder /\ \A a \in A : RequestOK(a)
  BY DEF SubmissionInv
<1>1. /\ pc[q] = "commit" /\ pc' = [pc EXCEPT ![q] = "reply"]
      /\ tx' = [tx EXCEPT ![q] = {}]
      /\ UNCHANGED <<result, status>>
  BY DEF Commit
<1>2. p \in Projects /\ k \in Keys \cup {NoKey} /\ new \in Records /\ new # NoRecord
  BY RequestTypes, NotARecord DEF Records
<1>3. runs \subseteq runs' /\ runs' \subseteq runs \cup {q}
  BY DEF Commit
\* Either nothing is published but perhaps a project, or the run, and with a
\* key its record, in a place that was free.
<1>4. \/ records' = records /\ (k # NoKey => runs' = runs)
      \/ /\ k \in Keys /\ records[p][k] = NoRecord /\ q \in runs'
         /\ records' = [records EXCEPT ![p][k] = new]
         /\ "records" \in tx[q]
  BY <1>0, <1>1, <1>2 DEF Commit, RequestOK, Record
<1>5. \A a \in A : a # q => RequestOK(a) /\ tx'[a] = tx[a] /\ pc'[a] = pc[a]
  BY <1>0, <1>1 DEF TypeOK
<1>6. \A i \in Projects, j \in Keys :
        records'[i][j] = records[i][j] \/ (i = p /\ j = k /\ records[i][j] = NoRecord
                                           /\ records'[i][j] = new /\ q \in runs'
                                           /\ "records" \in tx[q])
  BY <1>0, <1>4 DEF TypeOK
<1>7. TypeOK'
  <2>1. records' \in [Projects -> [Keys -> Records \cup {NoRecord}]]
    BY <1>0, <1>2, <1>4 DEF TypeOK
  <2> QED BY <1>0, <1>1, <1>2, <1>3, <2>1 DEF TypeOK, Commit
<1>8. OneRunPerKey'
  <2>1. ASSUME NEW a \in runs', Key(a) # NoKey
        PROVE  records'[Project(a)][Key(a)] = [run_id |-> a, request_hash |-> Body(a)]
    <3>0. a \in A /\ Project(a) \in Projects /\ Key(a) \in Keys
      BY <1>7, <2>1, RequestTypes DEF TypeOK
    <3>1. CASE a \in runs
      <4>1. records[Project(a)][Key(a)] = [run_id |-> a, request_hash |-> Body(a)]
        BY <1>0, <2>1, <3>1 DEF OneRunPerKey
      <4>2. records[Project(a)][Key(a)] # NoRecord
        BY <3>0, <4>1, RequestTypes, NotARecord DEF Records
      <4> QED BY <1>6, <3>0, <4>1, <4>2
    <3>2. CASE a \notin runs
      <4>1. a = q
        BY <1>3, <2>1, <3>2
      <4>2. records' = [records EXCEPT ![p][k] = new] /\ k \in Keys
        BY <1>4, <2>1, <3>2, <4>1
      <4> QED BY <1>0, <1>2, <4>1, <4>2 DEF TypeOK
    <3> QED BY <3>1, <3>2
  <2>2. ASSUME NEW i \in Projects, NEW j \in Keys, records'[i][j] # NoRecord
        PROVE  LET r == records'[i][j].run_id IN
               r \in runs' /\ Project(r) = i /\ Key(r) = j
    <3>1. CASE records'[i][j] = records[i][j]
      BY <1>0, <1>3, <2>2, <3>1 DEF OneRunPerKey
    <3>2. CASE records'[i][j] # records[i][j]
      BY <1>6, <3>2
    <3> QED BY <3>1, <3>2
  <2> QED BY <2>1, <2>2 DEF OneRunPerKey
<1>9. AnswersAreTrue'
  <2>1. ASSUME NEW a \in A, status[a] = 409
        PROVE  records'[Project(a)][Key(a)] = records[Project(a)][Key(a)]
    <3>1. records[Project(a)][Key(a)] # NoRecord
      BY <1>0, <2>1 DEF AnswersAreTrue
    <3>2. CASE records' = records
      BY <3>2
    <3>3. CASE records' = [records EXCEPT ![p][k] = new] /\ records[p][k] = NoRecord
                /\ k \in Keys
      <4>1. Project(a) \in Projects
        BY RequestTypes
      <4> QED BY <1>0, <1>2, <3>1, <3>3, <4>1 DEF TypeOK
    <3> QED BY <1>4, <3>2, <3>3
  <2> QED BY <1>0, <1>1, <1>3, <2>1 DEF AnswersAreTrue
<1>10. OneHolder'
  BY <1>0, <1>1 DEF OneHolder, TypeOK
<1>11. ASSUME NEW a \in A PROVE RequestOK(a)'
  <2>1. CASE a = q
    <3>1. Answerable(q, result[q])'
      <4>1. CASE tx[q] = {} /\ Answerable(q, result[q])
        BY <1>1, <1>3, <4>1 DEF Answerable
      <4>2. CASE "runs" \in tx[q] /\ result[q] = q
        BY <1>1, <4>2 DEF Answerable, Commit
      <4> QED BY <1>0, <1>1, <4>1, <4>2 DEF RequestOK
    <3> QED BY <1>0, <1>1, <2>1, <3>1 DEF RequestOK, TypeOK, Ended
  <2>2. CASE a # q
    <3>1. Answerable(a, result[a]) => Answerable(a, result[a])'
      BY <1>1, <1>3 DEF Answerable
    <3>2. Key(a) # NoKey /\ Record(a) # NoRecord => Record(a)' # NoRecord
      BY <1>2, <1>6, RequestTypes DEF Record
    <3>3. Key(a) # NoKey /\ Record(a) = NoRecord /\ "records" \in tx[a]
            => Record(a)' = NoRecord
      BY <1>0, <1>6, <2>2, RequestTypes DEF Record, OneHolder
    <3> QED BY <1>1, <1>5, <2>2, <3>1, <3>2, <3>3 DEF RequestOK
  <2> QED BY <2>1, <2>2
<1> QED BY <1>7, <1>8, <1>9, <1>10, <1>11 DEF SubmissionInv

LEMMA SubmissionStep == SubmissionInv /\ [Next]_vars => SubmissionInv'
<1> SUFFICES ASSUME SubmissionInv, [Next]_vars PROVE SubmissionInv'
  OBVIOUS
<1>1. CASE UNCHANGED vars
  BY <1>1 DEF vars, SubmissionInv, TypeOK, OneRunPerKey, AnswersAreTrue, OneHolder,
              RequestOK, Record, Answerable
<1> QED BY <1>1, PrivateStep, CommitStep DEF Next, Step

LEMMA SubmissionInvariance == Spec => []SubmissionInv
BY SubmissionInit, SubmissionStep, PTL DEF Spec

\* One run at most per idempotency key, and no run of a request that lost the
\* race, for any number of concurrent and repeated requests.
THEOREM OneRunTheorem == Spec => []OneRunPerKey
BY SubmissionInvariance, PTL DEF SubmissionInv

\* Every 202 names a committed run of an identical request and every 409 is
\* justified by the record.
THEOREM AnswersTheorem == Spec => []AnswersAreTrue
BY SubmissionInvariance, PTL DEF SubmissionInv

\* find_idempotent_run always finds the record it was sent to look for.
THEOREM LookupTheorem == Spec => []LookupFindsTheWinner
<1>1. SubmissionInv => LookupFindsTheWinner
  BY DEF SubmissionInv, RequestOK, LookupFindsTheWinner, Record
<1> QED BY <1>1, SubmissionInvariance, PTL

\* Requests, transactions and tables keep their types, whatever is lost.
THEOREM SubmissionTypeCorrect == Spec => []TypeOK
BY SubmissionInvariance, PTL DEF SubmissionInv
=============================================================================
