-------------------------- MODULE PromptComparison --------------------------
(***************************************************************************)
(* What a comparison of two prompts says (agents/evaluation/               *)
(* prompt-evaluation.ts): the runs of a suite under the baseline and the   *)
(* candidate, a verdict per case from its assertions, and a verdict on the *)
(* pair from the metrics that a run observed, with an assertion or without *)
(* one, which knows the assertions by their direction alone.               *)
(***************************************************************************)
EXTENDS Integers

CONSTANTS
  EvalCases,
  Observed,   \* Observed[c]: the metrics that a run of the case may observe
  Values,     \* Values[m]: what can be observed of a metric, [type, value] or NotObserved
  Assertions  \* of some metrics: [operator, expected, category, direction]

NotObserved == [type |-> "undefined"]
NotRun == [type |-> "not run"]

Metrics == UNION {Observed[c] : c \in EvalCases}
Scalars == {NotObserved} \cup [type : {"number"}, value : Int]
             \cup [type : {"boolean"}, value : {0, 1}] \cup [type : {"string"}, value : STRING]

ASSUME ComparisonAssumption == \A m \in Metrics : Values[m] \subseteq Scalars

VARIABLES
  before, after,  \* per case NotRun, or the value of each metric
  compared        \* "no", or the status of the comparison

comparisonVars == <<before, after, compared>>

Results(c) == {r \in [Observed[c] -> UNION {Values[m] : m \in Observed[c]}] :
                 \A m \in Observed[c] : r[m] \in Values[m]}
EvalRuns == {run \in [EvalCases -> {NotRun} \cup UNION {Results(c) : c \in EvalCases}] :
               \A c \in EvalCases : run[c] \in {NotRun} \cup Results(c)}

ComparisonInit == before \in EvalRuns /\ after \in EvalRuns /\ compared = "no"

-----------------------------------------------------------------------------
Satisfies(actual, assertion) ==
  LET expected == assertion.expected IN
  /\ actual # NotObserved /\ actual.type = expected.type
  /\ \/ assertion.operator = "EQUALS" /\ actual = expected
     \/ /\ actual.type = "number"
        /\ \/ assertion.operator = "GREATER_THAN_OR_EQUAL" /\ actual.value >= expected.value
           \/ assertion.operator = "LESS_THAN_OR_EQUAL" /\ actual.value <= expected.value
           \/ assertion.operator = "GREATER_THAN" /\ actual.value > expected.value
           \/ assertion.operator = "LESS_THAN" /\ actual.value < expected.value

Asserted(c) == Observed[c] \cap DOMAIN Assertions

Passed(run, c) == \A m \in Asserted(c) : Satisfies(run[c][m], Assertions[m])

\* The direction an assertion names, or that of its category
Direction(m) ==
  CASE m \notin DOMAIN Assertions -> "EQUAL_REQUIRED"
    [] Assertions[m].direction # "none" -> Assertions[m].direction
    [] Assertions[m].category = "BUDGET" -> "LOWER_IS_BETTER"
    [] Assertions[m].category = "QUALITY" -> "HIGHER_IS_BETTER"
    [] OTHER -> "EQUAL_REQUIRED"

\* A truth value is better when it is true, whatever the direction
Better(old, new, direction) ==
  /\ direction # "EQUAL_REQUIRED"
  /\ IF old.type = "number" THEN (direction = "HIGHER_IS_BETTER") = (new.value > old.value)
     ELSE new.type = "boolean" /\ new.value = 1

MutGoneIsUnchanged(old, new, direction) ==
  IF NotObserved \in {old, new} THEN "UNCHANGED"
  ELSE IF old = new THEN "UNCHANGED"
  ELSE IF old.type # new.type THEN "MISSING"
  ELSE IF Better(old, new, direction) THEN "IMPROVED" ELSE "REGRESSED"

CompareMetric(old, new, direction) ==
  IF NotObserved \in {old, new} THEN "MISSING"
  ELSE IF old = new THEN "UNCHANGED"
  ELSE IF old.type # new.type THEN "MISSING"
  ELSE IF Better(old, new, direction) THEN "IMPROVED" ELSE "REGRESSED"

\* The metrics of a case that one of the runs observed
Present(baseline, candidate, c) ==
  {m \in Observed[c] : baseline[c][m] # NotObserved \/ candidate[c][m] # NotObserved}

\* The cases of the baseline; what only the candidate ran is not looked at
StatusesOf(baseline, candidate) ==
  UNION {IF candidate[c] = NotRun THEN {"MISSING"}
         ELSE {CompareMetric(baseline[c][m], candidate[c][m], Direction(m)) :
                 m \in Present(baseline, candidate, c)} :
         c \in {d \in EvalCases : baseline[d] # NotRun}}

Status(baseline, candidate) ==
  LET found == StatusesOf(baseline, candidate) IN
  IF "MISSING" \in found THEN "INCOMPARABLE"
  ELSE IF "REGRESSED" \in found THEN "WORSE"
  ELSE IF "IMPROVED" \in found THEN "BETTER" ELSE "EQUAL"

Compare == compared = "no" /\ compared' = Status(before, after) /\ UNCHANGED <<before, after>>

ComparisonSpec == ComparisonInit /\ [][Compare]_comparisonVars

-----------------------------------------------------------------------------
(* Properties *)

\* Both runs are runs of the suite.
ComparisonTypeOK == before \in EvalRuns /\ after \in EvalRuns

\* Assertions that a better value cannot fail. One whose expected value is not the best one of
\* its direction, as "the first build fails" of the repair suite, is none of them.
Coherent(m) ==
  \A old, new \in Values[m] :
    /\ Satisfies(old, Assertions[m])
    /\ CompareMetric(old, new, Direction(m)) = "IMPROVED"
    => Satisfies(new, Assertions[m])

\* A candidate that is not called worse passes every case that the baseline passed, where the
\* assertions are coherent, whatever is observed beside them, and of two runs one alone can be
\* the better one.
CandidateIsNoWorse ==
  compared # "no" =>
    /\ compared \in {"BETTER", "EQUAL"} =>
         \A c \in EvalCases :
           /\ before[c] # NotRun /\ \A m \in Asserted(c) : Coherent(m)
           /\ Passed(before, c)
           => after[c] # NotRun /\ Passed(after, c)
    /\ compared = "BETTER" => Status(after, before) \in {"WORSE", "INCOMPARABLE"}
=============================================================================
