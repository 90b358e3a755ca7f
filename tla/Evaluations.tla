---------------------------- MODULE Evaluations ----------------------------
(* The evaluation of prompts, live and offline *)
EXTENDS PromptEvaluation, PromptComparison

\* An evaluation that says it is complete adds up over crashes, and a candidate that is called
\* no worse passes what the baseline passed.
EvaluationsHold ==
  EvaluationTypeOK /\ EvaluationAddsUp /\ ComparisonTypeOK /\ CandidateIsNoWorse
=============================================================================
