------------------------------- MODULE CIWait -------------------------------
(***************************************************************************)
(* The CI side: the commands mrds wait and mrds status (cli.py), which     *)
(* poll GET /runs/{id} and turn what they read into the exit code of a     *)
(* build, while the run changes as RunLedger describes.                    *)
(***************************************************************************)
EXTENDS RunLedger

CONSTANTS Builds,    \* CI jobs
          Target     \* Target[b]: the run that job b asks about

ASSUME TargetAssumption == Target \in [Builds -> Runs]

VARIABLES
  command,   \* where the command is
  late,      \* its deadline has passed
  printed,   \* the verdict it has printed, "none" without one
  exit       \* its exit code; Pending while it has none

buildVars == <<command, late, printed, exit>>
ciVars == <<ledgerVars, buildVars>>

EXIT_PASS == 0
EXIT_REGRESSION == 1
EXIT_ERROR == 2
EXIT_TIMEOUT == 3
Pending == 4

\* The one type invariant of this module.
CITypeOK ==
  /\ state \in [Runs -> RunStates]
  /\ gate \in [Runs -> GateOutcomes \cup {"none"}]
  /\ evidence \in [Runs -> Reports]
  /\ command \in [Builds -> {"status", "wait", "poll", "done"}]
  /\ late \in [Builds -> BOOLEAN]
  /\ printed \in [Builds -> GateOutcomes \cup {"none"}]
  /\ exit \in [Builds -> {EXIT_PASS, EXIT_REGRESSION, EXIT_ERROR, EXIT_TIMEOUT,
                          Pending}]

CIInit ==
  /\ LedgerInit
  /\ command \in [Builds -> {"status", "wait"}]
  /\ late = [b \in Builds |-> FALSE]
  /\ printed = [b \in Builds |-> "none"]
  /\ exit = [b \in Builds |-> Pending]

\* Mutant: whatever is not a failure passes.
_gate_exit_code_Lenient(g) == IF g = "fail" THEN EXIT_REGRESSION ELSE EXIT_PASS

_gate_exit_code(g) ==
  CASE g = "pass" -> EXIT_PASS
    [] g = "fail" -> EXIT_REGRESSION
    [] OTHER -> EXIT_ERROR

End(b, code) ==
  /\ exit' = [exit EXCEPT ![b] = code]
  /\ command' = [command EXCEPT ![b] = "done"]

\* The verdict is printed and decides the exit code.
Answer(b, g) ==
  /\ printed' = [printed EXCEPT ![b] = g]
  /\ End(b, _gate_exit_code(g))

\* A message on stderr, then typer.Exit.
Fail(b, code) == End(b, code) /\ UNCHANGED printed

\* An answer that is not JSON or not an object, or a URL httpx cannot parse:
\* none of these is an httpx.HTTPError, and the interpreter ends a command that
\* lets an exception out with its own exit code, 1.
Uncaught(b) == End(b, EXIT_REGRESSION) /\ UNCHANGED printed

----------------------------------------------------------------------------
(* mrds status: one request.  404 and every other HTTP or transport error  *)
(* end with EXIT_ERROR, a timeout with EXIT_TIMEOUT; otherwise the verdict *)
(* decides, in whatever state the run is.                                  *)

Status(b) ==
  /\ command[b] = "status"
  /\ \/ Fail(b, EXIT_ERROR)
     \/ Fail(b, EXIT_TIMEOUT)
     \/ Uncaught(b)
     \/ state[Target[b]] # "absent" /\ Answer(b, gate[Target[b]])
  /\ UNCHANGED <<ledgerVars, late>>

----------------------------------------------------------------------------
(* mrds wait *)

GoOn(b, where) ==
  command' = [command EXCEPT ![b] = where] /\ UNCHANGED <<printed, exit>>

\* Mutant: the deadline is not looked at.
CheckDeadline_Never(b) ==
  /\ command[b] = "wait"
  /\ command' = [command EXCEPT ![b] = "poll"]
  /\ UNCHANGED <<ledgerVars, late, printed, exit>>

\* The head of the loop.
CheckDeadline(b) ==
  /\ command[b] = "wait"
  /\ \/ late[b] /\ Fail(b, EXIT_TIMEOUT)
     \/ ~late[b] /\ GoOn(b, "poll")
  /\ UNCHANGED <<ledgerVars, late>>

\* The states that end the loop.
Answered(s) == s \in {"completed", "failed", "cancelled"}

\* time.sleep, then the head of the loop.
AfterLivePoll == "wait"

\* A missing verdict (NULL) of a run that has ended is printed as "error".
OrError(g) == IF g = "none" THEN "error" ELSE g

\* One request: an HTTP error (a run that is not there included) or a transport
\* error ends the command, a request timeout is tried again, a terminal state
\* ends it with the verdict, any other state is polled again.
Poll(b) ==
  LET r == Target[b] IN
  /\ command[b] = "poll"
  /\ \/ Fail(b, EXIT_ERROR)
     \/ Uncaught(b)
     \/ Answered(state[r]) /\ Answer(b, OrError(gate[r]))
     \/ ~Answered(state[r]) /\ state[r] # "absent" /\ GoOn(b, AfterLivePoll)
     \/ GoOn(b, "wait")   \* TimeoutException
  /\ UNCHANGED <<ledgerVars, late>>

\* time.monotonic passes the deadline.
DeadlinePasses(b) ==
  /\ ~late[b]
  /\ late' = [late EXCEPT ![b] = TRUE]
  /\ UNCHANGED <<ledgerVars, command, printed, exit>>

----------------------------------------------------------------------------
(* Specification *)

Command(b) == Status(b) \/ CheckDeadline(b) \/ Poll(b)

CIRunStep == LedgerNext /\ UNCHANGED buildVars

CINext == CIRunStep \/ \E b \in Builds : Command(b) \/ DeadlinePasses(b)

CISpec == CIInit /\ [][CINext]_ciVars

\* A command goes on (requests have a timeout of their own, sleeps end), and
\* time passes.
CIFairSpec ==
  CISpec /\ \A b \in Builds : WF_ciVars(Command(b)) /\ WF_ciVars(DeadlinePasses(b))

----------------------------------------------------------------------------
(* Properties *)

\* What a build shows stands on stored evidence, when the command ends and
\* however the run changes after the poll: a green build (0) on evidence with
\* verdict "pass", and a quality verdict that was printed on evidence with that
\* very verdict, with the exit code that belongs to it.  The converse of the
\* second part fails: a build that ends with EXIT_REGRESSION and has printed no
\* verdict met an exception nobody caught (Uncaught).
ExitIsBacked ==
  \A b \in Builds :
    LET e == evidence[Target[b]] IN
    /\ exit[b] = EXIT_PASS => e.gate_outcome = "pass"
    /\ printed[b] = "pass" => e.gate_outcome = "pass" /\ exit[b] = EXIT_PASS
    /\ printed[b] = "fail" => e.gate_outcome = "fail" /\ exit[b] = EXIT_REGRESSION
    /\ exit[b] = EXIT_REGRESSION => printed[b] \in {"fail", "none"}

\* Every command ends, also when the run never does: wait is bounded by its
\* deadline whatever mixture of live states and request timeouts it meets.
CommandsEnd == \A b \in Builds : <>(command[b] = "done")
=============================================================================
