----------------------------- MODULE MCServices -----------------------------
(***************************************************************************)
(* Components that share no state, in one model. "chosen" is fixed at the  *)
(* start and says which of them moves; the others keep their first state.  *)
(* Each component is explored in full within its own bounds: the run is    *)
(* their sum, not their product.                                           *)
(***************************************************************************)
EXTENDS InferenceBudget, Publishing, TemplateCatalog, Templates, SiteRuntime, Environments,
        PromptRegistry, Evaluations, WebClient

CONSTANTS
  r1, r2, r3, shared, openai,         \* inference: runs and their providers
  m1, m2, m3, m4, c1, c2,             \* catalog: commands, digests
  p1, p2, p3, u1, s1, h1,             \* publishing: calls and requests
  src,                                \* preparation: a file that is not the manifest
  q1, q2, title, price,               \* the data of a site: requests and fields
  d1, d2, d3                          \* local execution: calls

VARIABLE chosen

MCProviderOf == [r \in {r1, r2, r3} |-> IF r = r3 THEN openai ELSE shared]
MCMaxRetries == [p \in {shared, openai} |-> 2]

\* m1 registers the draft, two checkouts that differ activate it, one publishes
MCCommandOf ==
  [r \in {m1, m2, m3, m4} |->
     IF r = m1 THEN "register" ELSE IF r = m4 THEN "publish" ELSE "activate"]
MCBytesOf == [r \in {m1, m2, m3, m4} |-> IF r = m3 THEN c2 ELSE c1]
MCParts == <<"source", "preview">>

MCAccesses == {{"PUBLIC"}, {"OWNER"}}

\* Definitions that fit one version of the contract, the other one or both
MCPromptDefs ==
  {[status |-> "ACTIVE", fits |-> {1}, reply |-> "plan"],
   [status |-> "ACTIVE", fits |-> {1, 2}, reply |-> "any"],
   [status |-> "ACTIVE", fits |-> {2}, reply |-> "bundle"],
   [status |-> "DEPRECATED", fits |-> {1}, reply |-> "plan"]}
MCContractDefs ==
  {[status |-> "ACTIVE", reply |-> "plan", names |-> 1],
   [status |-> "ACTIVE", reply |-> "plan", names |-> 0],
   [status |-> "ACTIVE", reply |-> "bundle", names |-> 2],
   [status |-> "DORMANT", reply |-> "plan", names |-> 0]}

MCCases == <<"plain", "long">>

\* A metric of the site coder's suite, one that it observes and asserts nothing about, and two of
\* the repair suite
Number(n) == [type |-> "number", value |-> n]
Truth(n) == [type |-> "boolean", value |-> n]
Assertion(operator, expected, category, direction) ==
  [operator |-> operator, expected |-> expected, category |-> category, direction |-> direction]
MCAssertions ==
  [unknownImports |-> Assertion("EQUALS", Number(0), "SAFETY", "LOWER_IS_BETTER"),
   changedFiles |-> Assertion("LESS_THAN_OR_EQUAL", Number(2), "QUALITY", "LOWER_IS_BETTER"),
   initialBuildPass |-> Assertion("EQUALS", Truth(0), "QUALITY", "none")]
MCEvalCases == {"page", "repair"}
MCObserved ==
  [c \in MCEvalCases |-> IF c = "page" THEN {"unknownImports", "toolCalls"}
                         ELSE {"changedFiles", "initialBuildPass"}]
MCValues ==
  [unknownImports |-> {NotObserved, Number(0), Number(3)},
   toolCalls |-> {NotObserved, Number(6), Number(7)},
   changedFiles |-> {NotObserved, Number(0), Number(1), Number(3)},
   initialBuildPass |-> {NotObserved, Truth(0), Truth(1)}]

-----------------------------------------------------------------------------
ServicesInit ==
  /\ chosen \in {"inference", "catalog", "air", "data", "local", "remote",
                "prepare", "instantiate", "prompts", "evaluation", "comparison",
                "page"}
  /\ Init
  /\ CatalogInit
  /\ PublishingInit
  /\ RuntimeInit
  /\ ExecutionInit
  /\ DaytonaInit
  /\ PreparationInit
  /\ chosen # "prepare" => sort[src] = "file" /\ edition = [file \in Files |-> 1]
  /\ InstantiationInit
  /\ chosen # "instantiate" =>
       \A i \in Instantiations : template[i] = "absent" /\ archive[i] = "absent"
  /\ RegistryInit
  /\ EvaluationInit
  /\ IF chosen = "comparison" THEN ComparisonInit
     ELSE /\ before = [c \in EvalCases |-> NotRun] /\ after = [c \in EvalCases |-> NotRun]
          /\ compared = "no"
  /\ ClientInit
  /\ chosen # "page" => versions = [s \in Sites |-> 0] /\ served = {}

Rest(moving) ==
  /\ chosen = moving /\ UNCHANGED chosen
  /\ moving # "inference" => UNCHANGED vars
  /\ moving # "catalog" => UNCHANGED catalogVars
  /\ moving # "air" => UNCHANGED publishingVars
  /\ moving # "data" => UNCHANGED runtimeVars
  /\ moving # "local" => UNCHANGED executionVars
  /\ moving # "remote" => UNCHANGED daytonaVars
  /\ moving # "prepare" => UNCHANGED preparationVars
  /\ moving # "instantiate" => UNCHANGED instantiationVars
  /\ moving # "prompts" => UNCHANGED registryVars
  /\ moving # "evaluation" => UNCHANGED evaluationVars
  /\ moving # "comparison" => UNCHANGED comparisonVars
  /\ moving # "page" => UNCHANGED clientVars

ServicesNext ==
  \/ Rest("inference") /\ Next
  \/ Rest("catalog") /\ CatalogNext
  \/ Rest("air") /\ PublishingNext
  \/ Rest("data") /\ RuntimeNext
  \/ Rest("local") /\ ExecutionNext
  \/ Rest("remote") /\ DaytonaNext
  \/ Rest("prepare") /\ PreparationNext
  \/ Rest("instantiate") /\ InstantiationNext
  \/ Rest("prompts") /\ RegistryNext
  \/ Rest("evaluation") /\ EvaluationNext
  \/ Rest("comparison") /\ Compare
  \/ Rest("page") /\ ClientNext

servicesVars == <<chosen, vars, catalogVars, publishingVars, runtimeVars, executionVars, daytonaVars,
                  preparationVars, instantiationVars, registryVars, evaluationVars,
                  comparisonVars, clientVars>>

ServicesSpec == ServicesInit /\ [][ServicesNext]_servicesVars

-----------------------------------------------------------------------------
(* Bounds *)

\* One run is cancelled or late, and the others are neither; OpenAI's run, which shares
\* nothing with the other two, runs while they do not
InferenceBound ==
  LET Waits(r) == budget[r].logical = 0 /\ halted[r] = {}
  IN /\ Cardinality({h \in Runs \X {"cancelled", "late"} : h[2] \in halted[h[1]]}) <= 1
     /\ Waits(r3) \/ (Waits(r1) /\ Waits(r2))

\* The publication races the activation of another checkout while nobody asks
\* for the catalog, and the requests race one activation.
CatalogBound ==
  \/ \A r \in {m3, m4} : step[r] = "start"
  \/ \A q \in Queries : query[q] = "start"

\* Two calls at once with the site alone, or a hostname of a site published before
Started == {c \in {p1, p2, p3, u1} : call[c] # "start"}
SiteAlone ==
  /\ challenge = 0 /\ visit[h1] = "start" /\ Cardinality(Started) <= 2
  /\ p2 \in Started => p1 \in Started
  /\ deletions = 0 \/ Started \subseteq {p1} \/ (restarts = 0 /\ latest <= 1)
HostnameAlone ==
  /\ restarts = 0 \/ domain = "none"
  /\ Started \subseteq {p1} /\ deletions = 0 /\ latest = 1 /\ visit[s1] = "start"
  /\ domain # "none" \/ txt # {} => \A c \in Started : call[c] \in {"done"}

\* The calls of the provider are alike: the first runs a command, the second too or starts
\* a preview, the third writes a file, and the first and the third may destroy instead
LocalBound ==
  /\ at[d1] \in {"idle", "running", "stopping", "stopping all", "removing", "done"}
  /\ at[d2] \in {"idle", "running", "stopping", "port", "polling", "giving up", "served", "done"}
  /\ at[d3] \in {"idle", "writing", "stopping all", "removing", "done"}

\* A runtime starts with one field, the second comes with a migration; fields and requests
\* are alike, and the first one comes first
DataBound ==
  /\ runtime.version = 1 => DOMAIN schema = {title}
  /\ request[q2] # "start" => request[q1] # "start"

\* One result alone fails or took a retry, and a process that does not resume meets a whole file
EvaluationBound ==
  /\ Cardinality({i \in DOMAIN lines : lines[i].physical = 2 \/ lines[i].class = "FAIL"}) <= 1
  /\ fresh => tail = "ended" /\ swallowed = {}

Bounds ==
  CASE chosen = "inference" -> InferenceBound
    [] chosen = "catalog" -> CatalogBound
    [] chosen = "air" -> SiteAlone \/ HostnameAlone
    [] chosen = "data" -> DataBound
    [] chosen = "local" -> LocalBound
    [] chosen = "evaluation" -> EvaluationBound
    [] OTHER -> TRUE
=============================================================================
