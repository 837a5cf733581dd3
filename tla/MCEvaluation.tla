---------------------------- MODULE MCEvaluation ----------------------------
(***************************************************************************)
(* An instance of Evaluation: a text case, a critical JSON case, and a     *)
(* case whose expected value suits none of its evaluators.                 *)
(***************************************************************************)
EXTENDS Evaluation

MCDefinition ==
  <<[required |-> [exact_match |-> FALSE, contains |-> TRUE, regex |-> TRUE],
     expected |-> "string", well_formed |-> TRUE],
    [required |-> [json_valid |-> TRUE, json_schema |-> TRUE],
     expected |-> "object", well_formed |-> TRUE],
    [required |-> [normalized_match |-> FALSE, json_schema |-> TRUE],
     expected |-> "other", well_formed |-> FALSE]>>

MCOutputs ==
  {[text |-> "equal", matches |-> "yes", json |-> TRUE, conforms |-> TRUE],
   [text |-> "contains", matches |-> "timeout", json |-> TRUE, conforms |-> FALSE],
   [text |-> "different", matches |-> "no", json |-> FALSE, conforms |-> FALSE]}
=============================================================================
