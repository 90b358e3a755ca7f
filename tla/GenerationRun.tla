--------------------------- MODULE GenerationRun ---------------------------
(***************************************************************************)
(* One site's generation and edit runs, from the request to the committed  *)
(* version: LocalSiteGenerationPipeline.generate and edit around           *)
(* LocalCliAgentRuntime.run. A run is sequential and a server has one at a *)
(* time; what makes it hard is that the source changes under the gates:    *)
(* the model answers, repairs, deterministic fixes and rebuilds alternate  *)
(* with validations that run once, twice or only before a repair.          *)
(*                                                                         *)
(* A candidate is the set of its defects; each gate is the set of defects  *)
(* it rejects, and the model may answer with any set of Proposals. Every    *)
(* await may also throw for reasons of its own (FailGenerate, FailEdit).   *)
(***************************************************************************)
EXTENDS Integers

CONSTANTS
  Proposals,        \* what a model may answer with: sets of defects
  MaxBuildRepairs,  \* task.limits.maxBuildRepairs: 1 from both pipelines
  Requests          \* the requests that may arrive

ASSUME RepairsAssumption == MaxBuildRepairs \in Nat

Request ==
  [kind : {"generate", "edit"},
   complex : BOOLEAN,     \* analyzeRequestProfile: a planning call comes first
   reference : BOOLEAN,   \* the design of a template guides the generation
   review : BOOLEAN,      \* an instruction that only asks to review or check
   demanding : BOOLEAN,   \* rename or style requirements that can be verified
   retain : BOOLEAN]      \* retainPreview: the caller adopts the environment

ASSUME RequestsAssumption == Requests \subseteq Request

Defects ==
  {"syntax",     \* the compiler rejects it
   "closing",    \* a redundant JSX closing tag: so does it, but a fix is known
   "package",    \* an import no dependency provides
   "baseline",   \* a required file is missing, empty or still the scaffold
   "asset",      \* a remote, data: or unknown managed asset reference
   "upload",     \* an uploaded image is not used
   "backend",    \* code that needs a backend the product has not
   "unchanged",  \* the reference application handed back as it was
   "fixable",    \* what deterministic-autofix rewrites: guards, fonts, specifiers
   "crash",      \* a finding that blocks under both acceptance policies
   "inert",      \* a finding that is advisory for a generation, an error else
   "unmet",      \* a verifiable requirement of the edit is missing
   "scope",      \* a value outside the scope of the edit changed
   "unwired"}    \* new modules nothing imports, or rules that match nothing

ASSUME ProposalsAssumption == Proposals \subseteq SUBSET Defects

\* npm run build: tsc and vite.
Compiler == {"syntax", "closing", "package"}

\* Known to applyDeterministicAutofix; redundantJsxClosingRepair is added for
\* the build repair of a generation.
AutoFixed == {"fixable"}
JsxFixed == {"closing"}
BuildFixed(r) == AutoFixed \cup IF r.kind = "generate" THEN JsxFixed ELSE {}

\* On a generation's answer and again on its built source.
BackendGate == {"backend"}
ReferenceGate(r) == IF r.reference THEN {"unchanged"} ELSE {}
SourceGate(r) == IF r.kind = "edit" THEN {} ELSE BackendGate \cup ReferenceGate(r)

\* Before the build only.
CompletionGate(r) == IF r.kind = "generate" THEN {"baseline"} ELSE {}
ImportGate == {"package"}
AssetGate == {"asset"}
StaticGate(r) == CompletionGate(r) \cup ImportGate \cup AssetGate

\* The requirements and the scope of an edit, before and after the build.
RequirementGate == {"unmet"}
ScopeGate == {"scope"}
EditGate(r) == IF r.kind = "edit" THEN RequirementGate \cup ScopeGate ELSE {}

\* The pipeline's own: uploads of an edit, what an edit's outcome needs, QA.
UploadGate(r) == IF r.kind = "edit" THEN {"upload"} ELSE {}
OutcomeGate(r) == IF r.kind = "edit" THEN {"unwired"} ELSE {}
\* USABLE_GENERATION downgrades these to warnings, STRICT does not.
Advisory == {"inert"}
QAErrors == {"crash", "inert"}
QAGate(r) == IF r.kind = "generate" THEN QAErrors \ Advisory ELSE QAErrors

\* An image reference adds a call that no branch is left to spend.
CallLimit(r) == IF r.kind = "generate" /\ r.complex THEN 3 ELSE 2

VARIABLES
  current,   \* {} or {the committed version: its defects and how it was made}
  req,       \* the request of the run
  stage,     \* where the run stands
  src,       \* the candidate in the workspace
  touched,   \* who changed the candidate since it was restored
  calls,     \* logical model requests
  repairs,   \* repairModelCalls
  build,     \* result of the last build of the environment
  dist,      \* the candidate the last successful build compiled
  outcome,   \* the pipeline's editOutcome
  env,       \* the run's environment; "stuck": destroying it threw
  row,       \* the stored job
  committed, \* the run replaced the current version
  charged    \* the run's successful-job charge was finalised

vars == <<current, req, stage, src, touched, calls, repairs, build, dist,
          outcome, env, row, committed, charged>>

Source == <<src, touched>>
Spending == <<calls, repairs>>
Output == <<build, dist>>
Result == <<current, outcome, row, committed, charged>>

None == [kind |-> "generate", complex |-> FALSE, reference |-> FALSE,
         review |-> FALSE, demanding |-> FALSE, retain |-> FALSE]
Template == [None EXCEPT !.kind = "template"]

Passes(gate) == src \cap gate = {}
Advance(from, to) == stage = from /\ stage' = to

Init ==
  \* a template instance starts from whatever the template's author left
  /\ current \in {{}} \cup {{[src |-> d, by |-> Template, repaired |-> FALSE]} : d \in SUBSET AutoFixed}
  /\ req = None
  /\ stage = "idle"
  /\ src = {} /\ touched = {}
  /\ calls = 0 /\ repairs = 0
  /\ build = "none" /\ dist = {}
  /\ outcome = "none"
  /\ env = "none" /\ row = "none"
  /\ committed = FALSE /\ charged = FALSE

\* generate, edit: the identifiers, the budget and the QUEUED row.
Submit(r) ==
  /\ Advance("idle", "checks")
  /\ r.kind = "edit" <=> current # {}
  /\ req' = r
  /\ outcome' = "none" /\ env' = "none" /\ row' = "QUEUED"
  /\ committed' = FALSE /\ charged' = FALSE
  /\ UNCHANGED <<current, Source, Spending, Output>>

\* Functional support, scope, the template and its candidate, the credits.
GenerateChecks ==
  /\ stage = "checks"
  /\ req.kind = "generate"
  /\ stage' = IF req.complex THEN "planning" ELSE "workspace"
  /\ UNCHANGED <<req, Source, Spending, Output, Result, env>>

\* Ownership, the parent version, the credits, the assets of both.
EditChecks ==
  /\ Advance("checks", "workspace")
  /\ req.kind = "edit"
  /\ UNCHANGED <<req, Source, Spending, Output, Result, env>>

\* The site planner; the draft project is saved next.
Plan ==
  /\ Advance("planning", "workspace")
  /\ calls < CallLimit(req)
  /\ calls' = calls + 1
  /\ UNCHANGED <<req, Source, repairs, Output, Result, env>>

CreateEnvironment ==
  /\ Advance("workspace", "prepare")
  /\ env' = "live"
  /\ UNCHANGED <<req, Source, Spending, Output, Result>>

\* The starter, the assets, package.json and npm ci.
Seed ==
  /\ Advance("prepare", "begin")
  /\ req.kind = "generate"
  /\ src' = {}
  /\ UNCHANGED <<req, touched, Spending, Output, Result, env>>

\* The source an edit starts from.
Restored == UNION {v.src : v \in current}

Restore ==
  /\ Advance("prepare", "begin")
  /\ req.kind = "edit"
  /\ src' = Restored
  /\ UNCHANGED <<req, touched, Spending, Output, Result, env>>

\* LocalCliAgentRuntime.run: contract, scaffold, context, token preflight.
BeginRun ==
  /\ Advance("begin", "model")
  /\ UNCHANGED <<req, Source, Spending, Output, Result, env>>

\* What a model call leaves in the workspace: one of its proposals or, for an
\* edit, the restored source.
Answered ==
  \/ src' \in Proposals /\ touched' = touched \cup {"model"}
  \/ /\ req.kind = "edit"
     /\ src' = Restored /\ touched' = {}

\* The one structured request and its parsed response; an invalid or truncated
\* one throws.
PrimaryCall ==
  /\ Advance("model", "answered")
  /\ calls < CallLimit(req)
  /\ calls' = calls + 1
  /\ Answered
  /\ UNCHANGED <<req, repairs, Output, Result, env>>

\* The bundle's source gates, then the files or the staged patches are written.
\* A patch that does not match, or a broad edit left without files, throws.
Materialize ==
  /\ Advance("answered", "requirements")
  /\ Passes(SourceGate(req))
  /\ UNCHANGED <<req, Source, Spending, Output, Result, env>>

MutAskedUntilMet ==
  /\ stage = "requirements"
  /\ req.kind = "edit" /\ req.demanding
  /\ calls < CallLimit(req)
  /\ Answered
  /\ stage' = IF "unmet" \in src' \/ touched' = {} THEN "requirements" ELSE "outcome"
  /\ UNCHANGED <<req, Spending, Output, Result, env>>

\* Plan coverage or the candidate shows a missing requirement: one more call,
\* after the credits are authorised again, and no third.
RequirementRepair ==
  /\ Advance("requirements", "outcome")
  /\ req.kind = "edit" /\ req.demanding
  /\ calls < CallLimit(req)
  /\ calls' = calls + 1
  /\ Answered
  /\ "unmet" \notin src'
  /\ UNCHANGED <<req, repairs, Output, Result, env>>

RequirementsMet ==
  /\ Advance("requirements", "outcome")
  /\ "unmet" \notin src
  /\ UNCHANGED <<req, Source, Spending, Output, Result, env>>

\* assessEditOutcome: an edit that changed nothing is refused unless it is a
\* review; what it changed has to be reachable.
Assessed ==
  \/ req.kind = "generate"
  \/ touched = {} /\ req.review
  \/ touched # {} /\ Passes(OutcomeGate(req))

RuntimeOutcome ==
  /\ Advance("outcome", "autofix")
  /\ Passes(EditGate(req))
  /\ Assessed
  /\ UNCHANGED <<req, Source, Spending, Output, Result, env>>

Fixed(known) ==
  /\ src' = src \ known
  /\ touched' = IF src \cap known = {} THEN touched ELSE touched \cup {"autofix"}

Autofix ==
  /\ Advance("autofix", "static")
  /\ Fixed(AutoFixed)
  /\ UNCHANGED <<req, Spending, Output, Result, env>>

\* Completion, imports, assets, and the optional packages the source imports.
StaticChecks ==
  /\ Advance("static", "build")
  /\ Passes(StaticGate(req))
  /\ UNCHANGED <<req, Source, Spending, Output, Result, env>>

\* npm run build may also time out; dist is then the earlier one.
Compiled(otherwise) ==
  \/ /\ Passes(Compiler)
     /\ build' = "ok" /\ dist' = src
     /\ stage' = "source"
  \/ /\ build' = "failed"
     /\ stage' = otherwise
     /\ UNCHANGED dist

Build ==
  /\ stage = "build"
  /\ Compiled("fix")
  /\ UNCHANGED <<req, Source, Spending, Result, env>>

DeterministicRepair ==
  /\ stage = "fix"
  /\ Fixed(BuildFixed(req))
  /\ stage' = IF Passes(BuildFixed(req)) THEN "repair" ELSE "rebuild"
  /\ UNCHANGED <<req, Spending, Output, Result, env>>

Rebuild ==
  /\ stage = "rebuild"
  /\ Compiled("repair")
  /\ UNCHANGED <<req, Source, Spending, Result, env>>

RepairAllowed == repairs < MaxBuildRepairs /\ calls < CallLimit(req)
RepairSpent == repairs + 1

\* The model patches the snapshot it was shown; patches are staged and checked
\* as a whole, and undone when a write fails. With none left, or a third call
\* of an edit, only Fail remains.
ModelRepair ==
  /\ Advance("repair", "rebuild")
  /\ RepairAllowed
  /\ calls' = calls + 1 /\ repairs' = RepairSpent
  /\ Answered
  /\ UNCHANGED <<req, Output, Result, env>>

MutFixesAfterBuild ==
  /\ Advance("source", "preview")
  /\ Passes(SourceGate(req))
  /\ Fixed(AutoFixed)
  /\ UNCHANGED <<req, Spending, Output, Result, env>>

\* validateGeneratedSource: advisories aside, the two source gates again.
SourceChecks ==
  /\ Advance("source", "preview")
  /\ Passes(SourceGate(req))
  /\ UNCHANGED <<req, Source, Spending, Output, Result, env>>

StartPreview ==
  /\ stage = "preview"
  /\ stage' = IF req.kind = "generate" THEN "behaviour" ELSE "recheck"
  /\ UNCHANGED <<req, Source, Spending, Output, Result, env>>

ProjectValid == build = "ok"

MutBehaviourSkipsQA ==
  /\ Advance("behaviour", "validate")
  /\ ProjectValid
  /\ UNCHANGED <<req, Source, Spending, Output, Result, env>>

\* validateGenerationBehavior: project, preview and Browser QA inside the run.
Behaviour ==
  /\ Advance("behaviour", "validate")
  /\ ProjectValid
  /\ Passes(QAGate(req))
  /\ UNCHANGED <<req, Source, Spending, Output, Result, env>>

MutNotRechecked ==
  /\ Advance("recheck", "validate")
  /\ UNCHANGED <<req, Source, Spending, Output, Result, env>>

\* The requirements and the scope again, after what the repairs changed.
EditRecheck ==
  /\ Advance("recheck", "validate")
  /\ Passes(EditGate(req))
  /\ UNCHANGED <<req, Source, Spending, Output, Result, env>>

EditOutcome == IF touched = {} THEN "NO_CHANGES_REQUIRED" ELSE "APPLIED"

MutAlwaysCommits(result) == "commit"
AfterValidation(result) == IF result = "NO_CHANGES_REQUIRED" THEN "unchanged" ELSE "commit"

\* Back in the pipeline: the project and the preview once more.
GenerateValidate ==
  /\ Advance("validate", "commit")
  /\ req.kind = "generate"
  /\ ProjectValid
  /\ UNCHANGED <<req, Source, Spending, Output, Result, env>>

\* Uploads, the outcome against the parent's source, project, preview and QA.
EditValidate ==
  /\ stage = "validate"
  /\ req.kind = "edit"
  /\ Passes(UploadGate(req))
  /\ Assessed
  /\ ProjectValid
  /\ Passes(QAGate(req))
  /\ outcome' = EditOutcome
  /\ stage' = AfterValidation(EditOutcome)
  /\ UNCHANGED <<req, Source, Spending, Output, env, current, row, committed, charged>>

\* The job succeeds and nothing else happens.
NoChanges ==
  /\ Advance("unchanged", "return")
  /\ row' = "SUCCEEDED"
  /\ UNCHANGED <<req, Source, Spending, Output, env, current, outcome, committed, charged>>

Committed ==
  /\ Advance("commit", "row")
  /\ current' = {[src |-> src, by |-> req, repaired |-> repairs > 0]}
  /\ committed' = TRUE
  /\ UNCHANGED <<req, Source, Spending, Output, env, outcome, row, charged>>

\* Snapshot, artifacts, names, the version draft and its compare-and-swap.
GenerateCommit == req.kind = "generate" /\ Committed
EditCommit == req.kind = "edit" /\ Committed

SaveRow ==
  /\ Advance("row", "charge")
  /\ row' = "SUCCEEDED"
  /\ UNCHANGED <<req, Source, Spending, Output, env, current, outcome, committed, charged>>

FinalizeBilling ==
  /\ Advance("charge", "return")
  /\ charged' = TRUE
  /\ UNCHANGED <<req, Source, Spending, Output, env, current, outcome, row, committed>>

\* The workspace and the counters of a run end with it.
Over ==
  /\ stage' = "idle"
  /\ src' = {} /\ touched' = {}
  /\ calls' = 0 /\ repairs' = 0
  /\ build' = "none" /\ dist' = {}

\* destroyEnvironment, in a finally block: it may throw and leave the environment.
\* The call of the pipeline then throws, whatever the run achieved.
Destroyed == env' \in {"destroyed", "stuck"}

Return ==
  /\ stage = "return"
  /\ Over
  /\ IF req.retain THEN env' = "handed" ELSE Destroyed
  /\ UNCHANGED <<req, Result>>

MutRetainedEarly == req.kind = "generate" /\ req.retain /\ stage \in {"validate", "commit", "row", "charge"}

\* generate retains the environment before the job is saved and charged, edit
\* only afterwards.
Retained == req.kind = "generate" /\ req.retain /\ stage \in {"row", "charge"}

\* Any gate or await throws. The finally block destroys the environment that is
\* not retained; the job fails unless it was already saved, and saving that may
\* throw as well.
Failed(kept) ==
  /\ stage \notin {"idle", "return"}
  /\ Over
  /\ IF env = "live" /\ ~kept THEN Destroyed ELSE UNCHANGED env
  /\ row' \in IF row = "SUCCEEDED" THEN {row} ELSE {"FAILED", row}
  /\ UNCHANGED <<req, current, outcome, committed, charged>>

FailGenerate == req.kind = "generate" /\ Failed(Retained)
FailEdit == req.kind = "edit" /\ Failed(FALSE)

Next ==
  \/ \E r \in Requests : Submit(r)
  \/ GenerateChecks \/ EditChecks \/ Plan \/ CreateEnvironment \/ Seed \/ Restore
  \/ BeginRun \/ PrimaryCall \/ Materialize \/ RequirementRepair \/ RequirementsMet \/ RuntimeOutcome
  \/ Autofix \/ StaticChecks \/ Build \/ DeterministicRepair \/ Rebuild \/ ModelRepair
  \/ SourceChecks \/ StartPreview \/ Behaviour \/ EditRecheck
  \/ GenerateValidate \/ EditValidate \/ NoChanges \/ GenerateCommit \/ EditCommit
  \/ SaveRow \/ FinalizeBilling \/ Return \/ FailGenerate \/ FailEdit

Steps == Next /\ stage # "idle"

Spec == Init /\ [][Next]_vars
\* A run is one chain of awaits, each with a timeout of its own.
FairSpec == Spec /\ WF_vars(Steps)

-----------------------------------------------------------------------------
Version == [src : SUBSET Defects, by : Request \cup {Template}, repaired : BOOLEAN]

Stages ==
  {"idle", "checks", "planning", "workspace", "prepare", "begin", "model",
   "answered", "requirements",
   "outcome", "autofix", "static", "build", "fix", "rebuild", "repair", "source",
   "preview", "behaviour", "recheck", "validate", "unchanged", "commit", "row",
   "charge", "return"}

\* Type invariant.
TypeOK ==
  /\ current \subseteq Version /\ \A v, w \in current : v = w
  /\ req \in Request
  /\ stage \in Stages
  /\ src \subseteq Defects
  /\ touched \subseteq {"model", "autofix"}
  /\ calls \in 0..3 /\ repairs \in 0..MaxBuildRepairs
  /\ build \in {"none", "ok", "failed"}
  /\ dist \subseteq Defects
  /\ outcome \in {"none", "APPLIED", "NO_CHANGES_REQUIRED"}
  /\ env \in {"none", "live", "handed", "destroyed", "stuck"}
  /\ row \in {"none", "QUEUED", "SUCCEEDED", "FAILED"}
  /\ committed \in BOOLEAN /\ charged \in BOOLEAN

\* What a version of this making cannot contain: the gates that run once, before
\* a build repair, say nothing about a version that was repaired afterwards.
Excluded(v) ==
  IF v.by = Template THEN {}
  ELSE Compiler \cup SourceGate(v.by) \cup EditGate(v.by) \cup UploadGate(v.by)
         \cup OutcomeGate(v.by) \cup QAGate(v.by)
         \cup IF v.repaired THEN {} ELSE StaticGate(v.by)

Gated(v) == v.src \cap Excluded(v) = {}

\* However many generations, edits, repairs and failures came before, the site's
\* current version compiles and has nothing the gates of the run that committed
\* it reject (local-cli-agent-runtime.ts:968-1190, the pipeline's validators):
\* no later change of the candidate escapes a gate that is meant to follow it.
CurrentIsGated == \A v \in current : Gated(v)

\* The version a run commits is the one its environment built last: what the
\* preview and the stored build result show is the committed source.
CommittedAsBuilt ==
  committed /\ stage # "idle" => build = "ok" /\ \A v \in current : v.src = dist

\* A charge follows the commit and the saved row, and a run that found nothing
\* to change neither commits nor charges (pipeline lines 509-516, 698-711).
ChargeFollowsCommit ==
  /\ charged => committed /\ row = "SUCCEEDED"
  /\ outcome = "NO_CHANGES_REQUIRED" => ~committed /\ ~charged

\* A run leaves no environment alone that it did not try to destroy, and hands it
\* over only with a job that succeeded. Two ways out leave one without an owner:
\* a destruction that throws (env is then "stuck"), and generate's window: it
\* retains the environment before the row is saved and the charge finalised, so a
\* throw there leaves it running.
EnvironmentOwned ==
  stage = "idle" =>
    /\ env = "live" => committed /\ req.kind = "generate" /\ req.retain
    /\ env = "handed" => req.retain /\ row = "SUCCEEDED"

\* A run ends: the repairs share one allowance, so the rebuild loop is bounded.
RunEnds == stage # "idle" ~> stage = "idle"

CurrentOnly == INSTANCE CurrentSource WITH
  Candidates <- Version,
  Acceptable <- {v \in Version : Gated(v)},
  candidate <- [src |-> src, by |-> req, repaired |-> repairs > 0],
  verdict <- IF stage = "idle" THEN "none" ELSE IF committed THEN "accepted" ELSE "open"

\* The run implements the promise of CurrentSource (README.md:7).
ReplacesOnlyWhenAccepted == CurrentOnly!Spec

\* "A verified review/already-satisfied request must not create another
\* current-source revision" (local-site-generation-pipeline.ts:699).
ReviewCommitsNothing ==
  committed /\ stage # "idle" /\ req.review => "model" \in touched

\* "Blocking gates: valid structured source, safe editable paths, imports,
\* dependency and asset policies" (docs/generation-acceptance-policy.md:13).
AcceptedAssetsChecked ==
  \A v \in current : v.by.kind = "generate" => "asset" \notin v.src
============================================================================
