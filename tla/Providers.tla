----------------------------- MODULE Providers -----------------------------
(***************************************************************************)
(* What a call of a model provider can return: the OpenRouter client       *)
(* (providers/openrouter.py) and the scripted provider (providers/fake.py) *)
(* behind the contract of providers/contracts.py.                          *)
(*                                                                         *)
(* Of a result the evaluation needs the status, the retry hint of an error *)
(* and the cost; an unknown cost is 0, which is how it is added up.        *)
(***************************************************************************)
EXTENDS Naturals

CONSTANT Costs   \* costs that a scripted answer can report

Success(c) == [status |-> "success", retryable |-> FALSE, cost |-> c]
Error(retry) == [status |-> "error", retryable |-> retry, cost |-> 0]

----------------------------------------------------------------------------
(* OpenRouterProvider *)

\* What happens to a request: no response in time, a transport error, or a
\* response with an HTTP status and a body.
Failures == {"timeout", "transport_error"}
Bodies == {"too_large", "not_json", "not_object", "no_choices", "no_content", "text"}
Exchanges == [failure : Failures] \cup [status : 100..599, body : Bodies]

_RETRYABLE_STATUS == {408, 409, 429, 500, 502, 503, 504}

\* The retry hint of an HTTP status.
_classify_status(status) ==
  /\ status \notin {400, 401, 403, 422}
  /\ status \in _RETRYABLE_STATUS \cup 500..599

\* _normalize and _parse_success: only text in the first choice is an output,
\* and no cost is ever reported.
_normalize(x) ==
  IF x.status # 200 THEN Error(_classify_status(x.status))
  ELSE IF x.body = "text" THEN Success(0)
  ELSE Error(FALSE)

OpenRouterResult(x) ==
  IF "failure" \in DOMAIN x THEN Error(TRUE) ELSE _normalize(x)

----------------------------------------------------------------------------
(* FakeProvider *)

\* The script has no answer for the case, an error, or an output.
FakeResults == {Error(FALSE)} \cup {Error(hint) : hint \in BOOLEAN}
               \cup {Success(c) : c \in Costs}

ProviderResults == {OpenRouterResult(x) : x \in Exchanges} \cup FakeResults
=============================================================================
