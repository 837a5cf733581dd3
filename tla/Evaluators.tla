----------------------------- MODULE Evaluators -----------------------------
(***************************************************************************)
(* The built-in evaluators (evaluators/builtin.py): what they say of the   *)
(* output of a case, given how the case is declared                        *)
(* (specification/models.py).                                              *)
(*                                                                         *)
(* Texts are known by what the evaluators ask about them.  A case tells    *)
(* whether its expected value is a string (and then a regular expression   *)
(* that compiles), an object (and then a valid JSON Schema) or something   *)
(* else; an output, how it compares with the expected value.               *)
(***************************************************************************)

EvaluatorTypes == {"exact_match", "normalized_match", "contains", "regex",
                   "json_valid", "json_schema"}

\* A case: its evaluators with their flag required, its expected value, and
\* whether that value is what a regex or a JSON Schema has to be.
IsCase(case) ==
  /\ DOMAIN case.required \subseteq EvaluatorTypes /\ DOMAIN case.required # {}
  /\ \A type \in DOMAIN case.required : case.required[type] \in BOOLEAN
  /\ case.expected \in {"string", "object", "other"}
  /\ case.well_formed \in BOOLEAN

\* An output against the expected value of its case.  Equal texts are equal
\* after normalization and contain each other.
IsOutput(out) ==
  /\ out.text \in {"equal", "normalized", "contains", "both", "different"}
  /\ out.matches \in {"yes", "no", "timeout"}
  /\ out.json \in BOOLEAN /\ out.conforms \in BOOLEAN

----------------------------------------------------------------------------

Verdict(passed) == IF passed THEN "passed" ELSE "failed"

\* _text_expected and _text_result.
Text(case, passed) == IF case.expected # "string" THEN "errored" ELSE Verdict(passed)

_exact(case, out) == Text(case, out.text = "equal")
_normalized(case, out) == Text(case, out.text \in {"equal", "normalized", "both"})
_contains(case, out) == Text(case, out.text \in {"equal", "contains", "both"})

\* Mutant: a search that runs out of time has found nothing.
_regex_Timeout(case, out) ==
  IF case.expected = "string" /\ ~case.well_formed THEN "errored"
  ELSE Text(case, out.matches = "yes")

\* A pattern that does not compile and a search that runs out of time are
\* errors of the evaluator.
_regex(case, out) ==
  IF case.expected = "string" /\ (~case.well_formed \/ out.matches = "timeout")
  THEN "errored" ELSE Text(case, out.matches = "yes")

_json_valid(case, out) == Verdict(out.json)

\* The output is parsed before the schema is looked at.
_json_schema(case, out) ==
  IF ~out.json THEN "failed"
  ELSE IF case.expected # "object" \/ ~case.well_formed THEN "errored"
  ELSE Verdict(out.conforms)

_EVALUATORS(type, case, out) ==
  CASE type = "exact_match" -> _exact(case, out)
    [] type = "normalized_match" -> _normalized(case, out)
    [] type = "contains" -> _contains(case, out)
    [] type = "regex" -> _regex(case, out)
    [] type = "json_valid" -> _json_valid(case, out)
    [] type = "json_schema" -> _json_schema(case, out)

Required(case) == {type \in DOMAIN case.required : case.required[type]}

\* evaluate_case, as far as the gate looks at it: the statuses of the required
\* evaluators.  Without an output none of them applies.
evaluate_case(case, has_output, out) ==
  {IF has_output THEN _EVALUATORS(type, case, out) ELSE "not_applicable" :
     type \in Required(case)}
=============================================================================
