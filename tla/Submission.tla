----------------------------- MODULE Submission -----------------------------
(***************************************************************************)
(* POST /api/v1/runs (api/runs.py: create_run) and what it does to the     *)
(* tables projects, runs and idempotency_records (RunRepository:           *)
(* ensure_project, create_run, find_idempotent_run).                       *)
(*                                                                         *)
(* One action is one SQL statement.  The request is one transaction until  *)
(* a collision rolls it back.  Rows that a transaction has inserted and    *)
(* not committed are invisible to the others, but the unique indexes know  *)
(* them: an INSERT of the same key waits until the first transaction has   *)
(* ended.  An element of Attempts is one HTTP request; a client that       *)
(* retries (its answer was lost, or is late) is another element with the   *)
(* same project, key and body.  Requests that are refused before the first *)
(* statement (400, 403, 422) change nothing and are not attempts.          *)
(***************************************************************************)
EXTENDS Naturals

CONSTANTS Attempts,   \* requests; the uuid of the run a creates is a itself
          Projects,
          Keys,       \* values of the header Idempotency-Key
          NoKey,      \* the header is absent
          Bodies,     \* request bodies; content_hash tells them apart
          Request,    \* Request[a]: the project, key and body of request a
          NoRun

ASSUME NoKeyAssumption == NoKey \notin Keys
ASSUME NoRunAssumption == NoRun \notin Attempts
ASSUME RequestAssumption ==
  Request \in [Attempts -> [project : Projects, key : Keys \cup {NoKey},
                            body : Bodies]]

VARIABLES
  projects,   \* committed rows of projects
  runs,       \* committed rows of runs, named by the request that made them
  records,    \* committed rows of idempotency_records, by project and key
  tx,         \* tables into which the open transaction of a has inserted
  pc,         \* where request a is
  result,     \* the run_id that create_run returned
  status      \* HTTP status the client has seen; 0: none

vars == <<projects, runs, records, tx, pc, result, status>>

Project(a) == Request[a].project
Key(a) == Request[a].key
Body(a) == Request[a].body

Records == [run_id : Attempts, request_hash : Bodies]
NoRecord == [run_id |-> NoRun]

Ended == {"answered", "lost"}

\* The one type invariant of this module.
TypeOK ==
  /\ projects \subseteq Projects
  /\ runs \subseteq Attempts
  /\ records \in [Projects -> [Keys -> Records \cup {NoRecord}]]
  /\ tx \in [Attempts -> SUBSET {"projects", "runs", "records"}]
  /\ pc \in [Attempts -> {"new", "insert_project", "insert_run", "insert_record",
                          "lookup", "commit", "reply"} \cup Ended]
  /\ result \in [Attempts -> Attempts \cup {NoRun}]
  /\ status \in [Attempts -> {0, 202, 409, 500}]

Init ==
  /\ projects = {}
  /\ runs = {}
  /\ records = [p \in Projects |-> [k \in Keys |-> NoRecord]]
  /\ tx = [a \in Attempts |-> {}]
  /\ pc = [a \in Attempts |-> "new"]
  /\ result = [a \in Attempts |-> NoRun]
  /\ status = [a \in Attempts |-> 0]

----------------------------------------------------------------------------
(* The unique indexes *)

\* Another open transaction has inserted the same project.
ProjectLocked(a) ==
  \E b \in Attempts \ {a} : "projects" \in tx[b] /\ Project(b) = Project(a)

\* Another open transaction has inserted the same idempotency key.
RecordLocked(a) ==
  \E b \in Attempts \ {a} : /\ "records" \in tx[b]
                            /\ Project(b) = Project(a) /\ Key(b) = Key(a)

\* uq_idempotency_project_key rejects the key.
KeyTaken(a) == records[Project(a)][Key(a)] # NoRecord

----------------------------------------------------------------------------
(* The request *)

\* The request ends with this status; what is not committed is rolled back.
Answer(a, code) ==
  /\ status' = [status EXCEPT ![a] = code]
  /\ pc' = [pc EXCEPT ![a] = "answered"]
  /\ tx' = [tx EXCEPT ![a] = {}]

\* ensure_project: the SELECT.
GetProject(a) ==
  /\ pc[a] = "new"
  /\ pc' = [pc EXCEPT ![a] = IF Project(a) \in projects THEN "insert_run"
                                                       ELSE "insert_project"]
  /\ UNCHANGED <<projects, runs, records, tx, result, status>>

\* Mutant: its IntegrityError is handled like that of the idempotency record.
InsertProject_LooksUp(a) ==
  /\ pc[a] = "insert_project"
  /\ ~ProjectLocked(a)
  /\ \/ /\ Project(a) \notin projects
        /\ tx' = [tx EXCEPT ![a] = @ \cup {"projects"}]
        /\ pc' = [pc EXCEPT ![a] = "insert_run"]
        /\ UNCHANGED status
     \/ /\ Project(a) \in projects /\ Key(a) # NoKey
        /\ pc' = [pc EXCEPT ![a] = "lookup"]
        /\ UNCHANGED <<tx, status>>
     \/ /\ Project(a) \in projects /\ Key(a) = NoKey
        /\ Answer(a, 500)
  /\ UNCHANGED <<projects, runs, records, result>>

\* ensure_project: the INSERT.  Nothing catches its IntegrityError.
InsertProject(a) ==
  /\ pc[a] = "insert_project"
  /\ ~ProjectLocked(a)
  /\ \/ /\ Project(a) \notin projects
        /\ tx' = [tx EXCEPT ![a] = @ \cup {"projects"}]
        /\ pc' = [pc EXCEPT ![a] = "insert_run"]
        /\ UNCHANGED status
     \/ /\ Project(a) \in projects
        /\ Answer(a, 500)
  /\ UNCHANGED <<projects, runs, records, result>>

\* create_run: the run row, flushed on its own.  Its id is fresh, so its
\* IntegrityError branch is never taken.  Without a key this is all.
InsertRun(a) ==
  /\ pc[a] = "insert_run"
  /\ tx' = [tx EXCEPT ![a] = @ \cup {"runs"}]
  /\ result' = [result EXCEPT ![a] = a]
  /\ pc' = [pc EXCEPT ![a] = IF Key(a) = NoKey THEN "commit" ELSE "insert_record"]
  /\ UNCHANGED <<projects, runs, records, status>>

\* Mutant: the collision is caught without rolling back.
AfterCollision_KeepsRun(inserted) == inserted

\* What is left of the open transaction when the key collides: the rollback
\* takes the run row, and the project row if there is one, with it.
AfterCollision(inserted) == {}

\* create_run: the idempotency record.
InsertRecord(a) ==
  /\ pc[a] = "insert_record"
  /\ ~RecordLocked(a)
  /\ \/ /\ ~KeyTaken(a)
        /\ tx' = [tx EXCEPT ![a] = @ \cup {"records"}]
        /\ pc' = [pc EXCEPT ![a] = "commit"]
     \/ /\ KeyTaken(a)
        /\ tx' = [tx EXCEPT ![a] = AfterCollision(@)]
        /\ pc' = [pc EXCEPT ![a] = "lookup"]
  /\ UNCHANGED <<projects, runs, records, result, status>>

\* Mutant: the hash is not compared.
SameRequest_AnyBody(record, a) == TRUE

SameRequest(record, a) == record.request_hash = Body(a)

\* Mutant: a mismatch tries the insert again instead of raising.
Lookup_Retries(a) ==
  LET record == records[Project(a)][Key(a)] IN
  /\ pc[a] = "lookup"
  /\ pc' = [pc EXCEPT ![a] = IF SameRequest(record, a) THEN "commit" ELSE "insert_run"]
  /\ result' = [result EXCEPT ![a] = record.run_id]
  /\ UNCHANGED <<projects, runs, records, tx, status>>

\* find_idempotent_run, in a new transaction.  Without a record scalar_one
\* raises (500).
Lookup(a) ==
  LET record == records[Project(a)][Key(a)] IN
  /\ pc[a] = "lookup"
  /\ \/ /\ record # NoRecord /\ SameRequest(record, a)
        /\ result' = [result EXCEPT ![a] = record.run_id]
        /\ pc' = [pc EXCEPT ![a] = "commit"]
        /\ UNCHANGED <<tx, status>>
     \/ /\ record = NoRecord \/ ~SameRequest(record, a)
        /\ Answer(a, IF record = NoRecord THEN 500 ELSE 409)
        /\ UNCHANGED result
  /\ UNCHANGED <<projects, runs, records>>

\* session.commit makes the inserted rows visible, all of them or none.
Commit(a) ==
  /\ pc[a] = "commit"
  /\ projects' = IF "projects" \in tx[a] THEN projects \cup {Project(a)} ELSE projects
  /\ runs' = IF "runs" \in tx[a] THEN runs \cup {a} ELSE runs
  /\ records' = IF "records" \in tx[a]
                THEN [records EXCEPT ![Project(a)][Key(a)] =
                        [run_id |-> a, request_hash |-> Body(a)]]
                ELSE records
  /\ tx' = [tx EXCEPT ![a] = {}]
  /\ pc' = [pc EXCEPT ![a] = "reply"]
  /\ UNCHANGED <<result, status>>

Reply(a) ==
  /\ pc[a] = "reply"
  /\ Answer(a, 202)
  /\ UNCHANGED <<projects, runs, records, result>>

\* The API process or the connection dies: the open transaction is rolled back,
\* and after the commit only the answer is lost.
Lose(a) ==
  /\ pc[a] \notin {"new"} \cup Ended
  /\ pc' = [pc EXCEPT ![a] = "lost"]
  /\ tx' = [tx EXCEPT ![a] = {}]
  /\ UNCHANGED <<projects, runs, records, result, status>>

----------------------------------------------------------------------------
(* Specification *)

Step(a) == \/ GetProject(a) \/ InsertProject(a) \/ InsertRun(a) \/ InsertRecord(a)
           \/ Lookup(a) \/ Commit(a) \/ Reply(a)

Next == \E a \in Attempts : Step(a) \/ Lose(a)

Spec == Init /\ [][Next]_vars

\* The server goes on with a request it has begun: the waits are for other
\* transactions, and none of them waits for the client.
FairSpec == Spec /\ \A a \in Attempts : WF_vars(Step(a))

----------------------------------------------------------------------------
(* Properties *)

\* However many requests carry a key, and however many of them are retries
\* after a lost answer or run at the same time, one run of that key exists at
\* most, its record names it, and no run of a losing request survives the
\* rollback of create_run.
OneRunPerKey ==
  /\ \A a \in runs : Key(a) # NoKey =>
       records[Project(a)][Key(a)] = [run_id |-> a, request_hash |-> Body(a)]
  /\ \A p \in Projects, k \in Keys :
       records[p][k] # NoRecord =>
         LET r == records[p][k].run_id IN r \in runs /\ Project(r) = p /\ Key(r) = k

\* A 202 names a committed run, made by a request with the same project, key
\* and body; a 409 is given only for a key that is recorded with another body.
\* Two requests with the same key are therefore told the same run.
AnswersAreTrue ==
  \A a \in Attempts :
    /\ status[a] = 202 => /\ result[a] \in runs
                          /\ Request[result[a]] = Request[a]
                          /\ Key(a) = NoKey => result[a] = a
    /\ status[a] = 409 => /\ records[Project(a)][Key(a)] # NoRecord
                          /\ records[Project(a)][Key(a)].request_hash # Body(a)

\* When create_run has lost the race for its key, the winner's record is there
\* to be read after the rollback: scalar_one never raises.
LookupFindsTheWinner ==
  \A a \in Attempts : pc[a] = "lookup" => records[Project(a)][Key(a)] # NoRecord

\* The waits on the two unique indexes never close a circle: every request is
\* answered or lost in the end.
EveryRequestEnds ==
  \A a \in Attempts : pc[a] # "new" ~> pc[a] \in Ended
=============================================================================
