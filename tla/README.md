# A specification of the Sites backend

The Sites backend (`src/src`) turns a brief into a website: a pipeline asks a model for
source, builds it in a disposable environment, checks it in a browser, stores it as a
version of a project, charges credits for it, shows it in a live preview and publishes it. This
directory holds TLA+ modules of the parts of it that keep state, run concurrently or can
fail half-way, TLC configurations that check them on small instances, and TLAPS proofs of
what matters most.

Paths below are relative to `src/src`. `PROJECT.json` maps every definition to its lines.

## 1. Inventory

### Components that are modelled

| Component | State | Operations | Hard behaviour | What makes it correct |
|---|---|---|---|---|
| Credit billing (`billing`, `persistence/mongodb/mongo-billing-repositories.ts`) | job rows, subscriber quotas | preflight, claim, deduct, save charged, save failed, notify | every storage call may fail before or after its effect; two finalizations of a job; GetChatly writes the same quota; delete; crash | one exact debit per job, receipts tell the truth, a successful job gets settled |
| Projects and versions (`persistence/mongodb/mongo-repositories.ts`, the writes of the pipelines, `dev-server/playground-service.ts`) | project document, version cache of each process, artifacts, job rows | draft save, capture, initial and edit commit, job save, rename, delete | several processes, compare-and-swap commit, stale cache, lost answers, retries under one site id | versions form one line, the current one is the last accepted, jobs agree with it |
| Generation and edit runs (`sites/generation/local-site-generation-pipeline.ts`, `cli/runtime/local-cli-agent-runtime.ts`) | candidate source, request budget, build output, outcome, environment | planning, coding, gates, deterministic fixes, model repairs, rebuilds, QA, commit, charge | the source changes under gates that run once, twice or only before a repair; a throw at every await; cancellation | what is committed passed its gates and is what was built; it is charged after it is saved; the run ends |
| Source patches (`cli/runtime/site-coder-file-bundle.ts`, `build-repair-patch-resolver.ts`) | files, what the model was shown, staged text, inserted ranges | resolve, rebase, overlap and cascade tests, recheck, write, undo | a patch that matches what another one brought; writes that fail half-way; another writer | a patch replaces what the model was shown; no half-written repair |
| Browser QA (`browser-qa`) | pages, contexts, probes, events, results, two clocks | launch, visit, check, cut short, report | the deadline closes the page under a check; events raised after their check | an accepted report has checked every page |
| Inference budget (`agents/budget`, `agents/resilience`, `agents/shared/provider-errors.ts`) | counters and exhaustion of each run, telemetry, the process-wide circuit breaker | reserve, retry, record usage, success or failure, trip the circuit | awaits between reservation and request, shared breaker, limits, cancellation | the books balance, an exhausted run spends nothing |
| Preview manager (`dev-server/development-preview-manager.ts`) | sessions, site index, queue per site, environments | start, adopt, stop, access, sweep, close | overlapping operations and sweeps, failing destruction, shutdown | one live preview per site, no stray environment, close ends |
| Development jobs (`dev-server/dev-job-manager.ts`, `sites/socket`, event streams) | job records, event history, listeners, request identities | start, evict, emit, settle, retry, subscribe, replay | late and early followers, capped history, eviction, retries after a failed delivery | one mutation at a time, one generation per request, one terminal message |
| Local and Daytona execution (`execution`) | environments, their processes, ports and directories; the handle of a remote sandbox, its session and its last build | create, run a command, start a preview, write, destroy | calls check the environment once; a command overlaps a destruction; answers of the remote service are lost | nothing outlives its environment, a build's verdict is that of a build that ended, what runs can be destroyed |
| Planning (`agents/intelligence`, `planning`, `site-spec`) | calls for a plan, the cache of plans, answers kept for each task | ask, validate, cache, fall back on rules, make a SiteSpec | one cache for all jobs and modes; a cancelled or refused call ends in the same `catch` as a broken answer | a plan is a validated answer to its own prompt, or said to be the rules' |
| Agent loop (`agents/agent-loop.ts`, `agents/tool-executor.ts`, `agents/validation`) | workspace, files written, turns and calls, the claim judged last | a tool call, a claim of completion and its validation, the end by limit or cancellation | a response that writes and claims completion, several claims in one | an accepted completion is in the workspace |
| Prompts and contracts (`agents/prompts`, `agents/contracts`) | versions, the released pointer, its history | register, release, resolve for an agent or for the planner | two orders of precedence; versions registered after a release | a run's prompt fits the contract in force |
| Prompt evaluation (`agents/evaluation`) | a file of results, manifest, summary, allowance of requests; the runs of a suite | ask, append, resume, summarise; compare | crashes between two lines and inside one, a full disk, a process that does not resume | a completed evaluation adds up; "no worse" means what it says |
| Template preparation (`templates/publishing`) | a template's directory, the copy that is built, its server and browser report, the package | discover, copy, build, test, pack, store, clean up | the developer goes on editing; servers and processes that resist their end | what is packed is what was built and tested, nothing is left running |
| Template instantiation (`templates/application/template-instantiation-service.ts`) | the archive, the workspace, the environment, the project and its version | read, check, unpack, build, store, adopt, undo | a failure after any step; the owner deletes the site meanwhile | an instantiation ends with everything or with nothing |
| Template catalog (`templates/application`, `templates/publishing`, `templates/cache`) | catalog records, stored objects, cache entries and their generation | register, publish, activate, clean up, invalidate, read | checkouts that differ, commands that die between two steps, a reader overtaken by an activation | an active version has all its artifacts; no stale answer once an activation was announced |
| Deployment, hosting, custom domains (`deployment`, `hosting`, `domains`) | deployments, builds, the publication, domain records, challenges | deploy, publish, roll back, unpublish, add, verify, activate, disable, serve | several stores in turn, restarts that empty the memory, a deleted site's row that is written again, DNS answers that come late | what is published can be served; nothing off the air is |
| Site runtime (`site-runtime`) | schema, policies, records, rate windows | provision, migrate, create, update, delete | a request authorised under one schema writes under the next; defaults, which records that are there do not get; the size of a record grows with both | stored records fit the schema and the room they have |
| Web client (`web/src/App.tsx`) | address, shown site, version and preview, thread, the dialog that deletes, calls in flight | open, browse, generate, edit, ask for a deletion, confirm it, and the answers to them | answers of several openings, of a job and of deletions come in any order | the page shows the site that its address names, and a preview of that site |

### Components that are not modelled

The inference context policy, visual review, and the auth, secret and external call services of
`site-security` are not reached by the product as it is wired; tests and demo drivers use them. The texts of
prompts, parsers, provider mappers, functional capabilities, motion, scaffold and assets are functions over
text and images whose verdicts are inputs of the modules. The HTTP server parses requests and tests ownership;
its event streams are in `DevJobs`. `PROJECT.json` lists every component with its files and the reason for its
status.

### How they interact

The page (*WebClient*) sends a request to `PlaygroundService`, which starts a job in `DevJobManager` (*DevJobs*).
The job runs the pipeline (*GenerationRun*), which checks the owner's credit (*SiteBilling*), plans the site
(*SitePlanning*) with a prompt of the registry (*PromptRegistry*), spends model requests (*InferenceBudget*), applies
what the model answers (*SourcePatches*), opens the built site in a browser (*BrowserQA*), writes the project and its
version (*SiteProjects*), saves its row, finalizes its billing (*SiteBilling*) and returns. The job then adopts the
retained environment as the site's preview (*PreviewManager*) and its followers get the terminal event (*DevJobs*).
Independently, an owner publishes a version (*Publishing*) whose pages call the data runtime (*SiteRuntime*), and
operators keep the templates that generations start from (*TemplateCatalog*), which a command prepares
(*TemplatePreparation*) and a user turns into a site (*TemplateInstantiation*); another command compares two prompts
(*PromptEvaluation*, *PromptComparison*). Every environment is one of an execution provider (*LocalExecution*,
*DaytonaExecution*). The tool loop (*AgentLoop*) is an agent of its own, which the drivers and tests use; the product
shares its tool executor and its validation of completions.

The modules meet in the steps they share: the successful save of a job is a step of
*GenerationRun* and *SiteProjects* and the start of a finalization in *SiteBilling*; the verdict of *BrowserQA*
is the gate `QAGate` of *GenerationRun*, and a patch is one of its answers; a refused adoption
is a failed job in *DevJobs* and an unadopted environment in *PreviewManager*; a delete is
a step of *SiteProjects*, *SiteBilling*, *Publishing* and *SiteRuntime*. Each module keeps the others as actions
of its environment that can happen whenever the code allows it, so that a module's properties do not
depend on another's.

## 2. Modules

| Module | Role |
|---|---|
| `ChargeLedger` | the promise of billing: one debit per job, exact and never more than the balance |
| `SiteBilling`, `MCSiteBilling`, `SiteBilling_proofs` | billing as the code does it; implements `ChargeLedger` |
| `VersionHistory` | the promise of the version store: one line of versions, each built from the one it replaces |
| `SiteProjects`, `MCSiteProjects`, `SiteProjects_proofs` | commits, cache, retries, rename and delete; implements `VersionHistory` |
| `PreviewManager`, `MCPreviewManager`, `PreviewManager_proofs` | previews, sweeps and shutdown |
| `DevJobs`, `MCDevJobs`, `DevJobs_proofs` | jobs, their events and who follows them |
| `CurrentSource` | the promise of a run: the current source is replaced once, by a candidate that is free of the defects that block its kind of run |
| `GenerationRun` | the pipeline around the CLI runtime; implements `CurrentSource` |
| `BrowserQA` | one browser QA run |
| `SitePlanning` | planning calls, the cache of plans and the rules that plan without a model |
| `AgentLoop` | a model that works through tools, and the validation of what it declares complete |
| `SourcePatches` | one bundle of patches |
| `ModelWork` | `SitePlanning`, `AgentLoop` and `SourcePatches` side by side, and what the user of each relies on |
| `MCGenerationRun`, `MCGeneration`, `MCSourcePatches`, `Generation_proofs` | the checks and proofs of the six modules above: the run alone, the run and each of its parts, patches alone |
| `InferenceBudget` | what a run may spend on a model |
| `PromptRegistry` | prompts, contracts, releases |
| `PromptEvaluation`, `PromptComparison`, `Evaluations` | the live evaluation of two prompts over crashes, the verdict of an offline one, and the two side by side |
| `Agents_proofs` | proofs about the five modules above |
| `TemplateCatalog` | catalog commands and the cached catalog |
| `TemplatePreparation`, `TemplateInstantiation`, `Templates` | one template from its directory to a package, one site from a template, and the two side by side |
| `Templates_proofs` | proofs about the four modules above |
| `Publishing` | deployments, publications, a hostname, hosting |
| `SiteRuntime` | the data of a published site |
| `LocalExecution`, `DaytonaExecution`, `Environments` | environments on this machine, on a remote service, and the two side by side |
| `WebClient` | the playground page |
| `Sites_proofs` | proofs about the six modules above |
| `MCServices` | the components that share no state, in one model; one of them moves at a time |

**State and actions.** An action is the code between two awaits. `row`, `quota`, `doc`,
`cache`, `session`, `budget`, `disk`, `publication`, `schema` and so on are the collections, maps and fields of
the classes; `pc`, `run`, `step`, `stage`, `phase`, `stand`, `call`, `visit` say at which await an asynchronous
function stands. A storage call that throws is an action of its own, once without its effect and, where the driver
can lose an answer, once with it. Variables marked *history* in a module only serve properties and
guard nothing.

**Abstractions.** Prompts, files and messages are identities: a version is named by the job that built it, an
environment by its id. In `GenerationRun` a candidate *is* the set of its defects, and a gate is the set of defects it
rejects: what matters is which gate runs again after which change, not how it reads the source. In `BrowserQA` a check
is the set of verdicts it can give. `SourcePatches` keeps real text, of two or three letters, each letter carrying where
it came from, because matching is what can go wrong there; of the syntax of a source it knows which files parse as code
and which letters open or close a literal. `SitePlanning` keeps of an answer the forms it has (a consolidated plan, a
bundle, both or none) and its page paths, `SiteRuntime` counts the bytes of a record in units of a value, `AgentLoop`
maps each name a call may use to the file it means, `PromptEvaluation` keeps of a file its lines and how the last one
ends. Credits are counted in 1/500, so that a charge is exact. Ownership is left out of `DevJobs`: every read of a job
tests it in the same way.

**Seeded faults.** Operators named `Mut...` are plausible bugs, one for each property: a dropped
guard, a missing reset, an off-by-one. No specification uses them. Putting one in place of
the definition named in `PROJECT.json` must make its property fail, which shows that
the property depends on that line of the code.

## 3. What each run checks

| Run | Instance | What it shows |
|---|---|---|
| `billing` | one user, two jobs that overdraw the quota together, one of them finalized by two calls | exact receipts, no debit lost without a fault, the refinement of `ChargeLedger`, and that a successful job ends CHARGED or FAILED |
| `projects` | three sites of which one moves: a generated site edited by two processes; a reference generation tried twice, an edit elsewhere and a delete; a template site with an edit, a rename and a delete | versions form one line, caches and job rows agree with the document, a retry never replaces a version; `VersionHistory` is implemented |
| `previews` | two sites, two environments that may resist their destruction and of which one is made by a reference generation that is retried, one sweep, two queued operations per site | one preview per site and no stray environment; `close` returns; an expired preview is stopped or used |
| `dev_jobs` | two generations and an edit, one record, two events, one stream, one socket, two request identities for one place | one mutation, one generation per identity, faithful followers, jobs settle |
| `generation` | generations and edits of one site in any number, five requests, one defect at a time and three pairs; with it, one at a time, a QA run, a bundle of patches, a tool loop and two plans | what becomes current is gated and built, charged after it is saved; environments have one owner; every run ends; `CurrentSource` is implemented; an accepted QA report has checked everything; patches replace what was shown and leave nothing half done; plans are checked ones; accepted completions exist |
| `services` | twelve components, one at a time: see below | the books balance and an exhausted run is silent; an active template is complete and its cache fresh; publications can be served, but for those whose site was deleted and came back, and are on the air by right; records stay valid and have room; environments leave nothing behind; templates are what was tested, and instantiations all or nothing; a prompt fits its contract; evaluations add up over crashes; the page shows what its address names, with its preview |
| `rename_only_name`, `failed_not_current` | as `projects` | violated: see *Findings* |
| `review_commits_nothing`, `accepted_assets` | as the run of `generation` | violated: see *Findings* |
| `rebased_is_matched`, `no_targets_made` | two files; two patches, three patches | violated: see *Findings* |

Some properties are conjunctions of promises that only make sense together:
`JobsTellTheTruth` (a row that says SUCCEEDED is committed, one that says FAILED had a fault or a lost answer),
`OnePreviewPerSite` (index, sessions and environments agree), `FollowersFaithful` (streams see a
suffix of the history in order, sockets one terminal message), `BooksBalance` (every attempt was reserved, those that
ended are recorded, and the summary of a run adds up), `OnTheAirByRight` (site taken down, hostname disabled, hostname unproven),
`AcceptedIsChecked` (pages, checks, events, deadlines), `ModelWorkChecked` (plans and their cache; accepted completions;
torn files and lost foreign changes), `EnvironmentsAccounted` (two providers), `TemplatesAsTested` (preparation and
instantiation), `PromptsHold` (the pointer and its history, the prompt a run is given), `EvaluationsHold` (live and
offline), `PageIsConsistent` (thread, version, site and preview).

**What the properties except.** Where the code lets something happen that a reader would not expect, the property says so
by a history variable or an outcome, denies everything else, and the exception is listed here:

| Property | Exception |
|---|---|
| `NoStrayEnvironment` | an environment whose destruction failed (`faulty`), and one whose adoption was refused (`unadopted`): its pipeline has returned and nobody else knows it |
| `EnvironmentOwned` | an environment whose destruction threw (`stuck`), and generate's window between retaining it and the end of the charge |
| `ModelWorkChecked` | a file the platform manages that a tool call wrote under another spelling of its name (`misnamed`); a file that a failed write tore (`torn`) |
| `ReplacedAsShown` | letters that an earlier patch brought, when a patch put back the very text it had matched and so cleared their marks |
| `ActiveIsComplete` | a part that a failed publication took back although another checkout had found it equal (`undone`) |
| `BooksBalance` | the attempt that OpenAI's adapter records twice |
| `PublishedIsServable` | a published deployment whose build went with a deletion of its site (`erased`) when the site's row was written again |
| `RecordsStayValid` | a required field with a default that a migration brought after the record was written (`unfilled`); an update that fits, but whose record has no room left with the defaults |
| `EnvironmentsAccounted` | a process that does not mind SIGTERM (`stubborn`) or was started while its environment was destroyed (`tardy`), the folder it makes anew, a sandbox whose creation failed half-way (`half`) |
| `TemplatesAsTested` | a clean-up that failed (`spared`, `REMOVE_FAILED`) in a call that has thrown; the failure to remove the scratch directory after a commit, which leaves the site whole |
| `EvaluationsHold` | an evaluation that starts afresh on a file that is there, a result that could not be stored and is counted twice, a line that was written onto an unended one (`swallowed`) |
| `PageIsConsistent` | an opening that failed (`mishap`); for the preview, a page that turned elsewhere while a preview was awaited (`crossed`) |


**Bounds and why they are enough.** Interference is between two actors on one item, so there
are two calls on a job, two editors of a site, two sweeps or operations on a preview, two runs on a breaker, two
publications of a site, two requests on a record; a third
actor comes in where it ages the state (a delete, a third job that evicts a record, a second checkout of a template). Limits are
set *below* what the actors ask for, so that each is reached and exceeded: a quota that two jobs
overdraw, three attempts where the retries need four, one job record and two events where a job
emits three or more, one place for two request identities. `MaxQueue` and `MaxUpdates` bound the models, not
the code; past the bound nothing new can happen, since operations on a site run one at a time and a
history of two events is already trimmed by the third. In `projects` the constraint
`OneSiteMoves` keeps two of the three sites at rest: they share nothing.

`generation` starts with `chosen`, which says which of its parts moves; the others stay as they are, so that their state
spaces add up instead of multiplying. It bounds no number of runs, since a run starts from what the last one left and
the state returns. Its proposals are one defect at a time and the pairs of which a deterministic fix removes one; a gate
looks for each defect by itself, so larger sets add no order of gates. `QABound` stops following a QA run that already
has a blocking failure (nothing removes one). `PatchBound` takes all patches on one file without a fault, or, on two
files with faults, those that put one letter for what they look for. The letters are `a`, `b` and `c`, of which the last
two are the two ways to end a line, a blank `s` and a quote `q`: a repair meets a find of another line ending, and one
of another indentation inside and outside a literal. Bundles of three, in which a patch can unmark what another one
brought, are edits that put a letter for a letter or delete one, and are not written. The tool loop has two turns of up
to two calls, of which three are allowed, and two writes, so that each limit is passed, and two names for the file that
the platform manages; `LoopBound` takes two options at a time, tells contents apart only where there are requirements,
and cancels, or uses the other name of a file, under one set of options. Of the two plans, which are alike, `PlanBound`
asks for the first one first, and has it alone where it is asked for part by part; the cache has one entry, so
that the second plan evicts the first, and the limits on pages are one and two. QA visits two routes at one viewport:
the loops are one sequence of pages, and the last page differs from the first. The proofs need none of these bounds.

`services` has `chosen` too. Within a component, `InferenceBound` allows one of two runs on one breaker to be cancelled
or late, and explores OpenAI's, which may record an attempt twice, while they wait; `CatalogBound` lets the publication
race one other checkout while nobody reads, and the readers race one activation; `SiteAlone` and `HostnameAlone` explore
two calls on a site that has no hostname, and a hostname of a site published before; one deletion meets one call that
runs over edits and restarts, or two over neither, and the row can come back after it. `DataBound` starts a runtime with
one of two fields, so that the other comes by a migration; a record has room for two short values or one long one
(`MaxBytes`), so that one default fills it up. `LocalBound` gives each of three calls the operations it may perform,
since the calls are alike; `EvaluationBound` has one result that fails or took a retry, and starts afresh on a whole
file. One remote sandbox meets two calls and three destructions. A template has its manifest and one file that its
developer changes once. A prompt and its contract have two versions each and two releases. An evaluation has two cases,
two processes and one fault, and an allowance of two requests that one retry exhausts. The page has two sites, two
openings at once and three things its user does; a dialog that is open is answered for nothing, so that a deletion can
meet two other acts. No symmetry is used.

**Deadlock.** A run of the pipeline never gets stuck, which `RunEnds` says. The other models stop when their jobs, calls, events or
requests are used up, so these runs do not look for states without a successor.

**Fairness.** `SiteBilling`: an awaited storage call answers or throws, because the driver has
timeouts, and a pipeline that saved a successful job goes on to finalize it; nothing is assumed of
requests, deletes, GetChatly or crashes.
`PreviewManager`: operations at the head of a queue, sweeps and `close` go on once started;
starting one is not assumed, except that the timer sweeps. `DevJobs`: a started workflow goes on and ends, because the calls it
waits for answer or fail; there is no timeout around the whole job, and a workflow that hangs does keep
all others out. Followers are not assumed to do anything. `generation`: weak fairness of the run's own steps when the run moves,
one chain of awaits each of which ends by a timeout of its own (model, build, browser, storage); no request has to arrive.

## 4. Proofs

| Module | For every value of | Theorems |
|---|---|---|
| `SiteBilling_proofs` | users, jobs, calls, summaries, quotas | `TypeCorrect`, `DebitOnce`, `ExactCharge`, `FaultlessDebitRecorded`, `ImplementsLedger`, `ChargeIsRise` |
| `SiteProjects_proofs` | sites, pipelines, processes, renames, deletes | `TypeCorrect`, `DocumentIsTip`, `CacheIsCurrent`, `CreatedOnce`, `RowsAreTrue`, `Refinement` |
| `PreviewManager_proofs` | sites, environments, sweeps, queue lengths | `TypeCorrect`, `OnePreview`, `NoStray` |
| `DevJobs_proofs` | jobs, records, events, followers, request identities | `OneAtATime`, `AtMostOnce`, `TypeCorrect`, `FollowersToldTheTruth` |
| `Generation_proofs` | requests, proposals, build repairs; viewports, routes, assets, launch retries; prompts, answers, planning calls, sizes of the cache; responses of a tool loop, files, limits; texts, patches, other writers | `RunTypesCorrect`, `CurrentAlwaysGated`, `CommitsWhatWasBuilt`, `ChargesFollowCommits`, `EnvironmentsOwned`, `Refinement`, `QATypeCorrect`, `AcceptedChecked`, `PlanningTypeCorrect`, `LoopTypeCorrect`, `PatchTypeCorrect`, `ReplacesWhatWasShown`, `ModelWorkSound` |
| `Agents_proofs` | runs, providers, retries, limits; prompts, contracts; cases, processes, faults; metrics and assertions | `BudgetTypeCorrect`, `AttemptsReserved`, `SummariesAddUp`, `BooksBalanced`, `AttemptsRecorded`, `SpentFinal`, `OpenCircuitCostsNothing`, `RegistryTypeCorrect`, `PromptsFitTheirContracts`, `EvaluationsSound` |
| `Templates_proofs` | commands, parts, readers; files of a template; instantiations | `CatalogTypeCorrect`, `ActiveVersionsAreComplete`, `AnnouncedIsFresh`, `PreparationTypeCorrect`, `InstantiationTypeCorrect`, `TemplatesSound` |
| `Sites_proofs` | calls, requests, versions, challenges, restarts; fields and records; environments, calls, ports, sandboxes; sites and openings | `PublishingTypeCorrect`, `PublishedServable`, `OnTheAir`, `RuntimeTypeCorrect`, `RecordsValid`, `LocalTypeCorrect`, `DaytonaTypeCorrect`, `EnvironmentsSound`, `PageTypeCorrect`, `PageStaysConsistent` |

Every invariant, action property and refinement that a passing run checks has its theorem. Type invariants are theorems
of their own, which the runs no longer check but for `TypeOK` of `DevJobs`, whose bounds are part of its promise. Hardly
any of these properties is inductive as it stands; what follows says what each needs.

**SiteBilling.** The safety properties are not inductive: that a debit happens once rests on the claim being
won once, which rests on where every call stands. `IInv` adds what carries them: a call that holds the
claim is alone (`HolderExclusive`), a debited job never again looks unclaimed
(`DebitedStaysClaimed`), a job without a debit has lost nothing (`NoDebitNoCredit`), the call
about to save a charge holds exactly what was debited (`SaverCarriesDebit`), and calls exist only for jobs that
were run (`CallsFollowRuns`). The refinement uses `IInv` in every step: claims, refusals and crashes are
`Seal`, the deduction is `Debit`, saves and deletes are `Record`, GetChatly's writes are `Outside`.

**InferenceBudget, PromptRegistry.** The invariant of the budget is `TypeOK`, what is promised, that every attempt that ended
is recorded (`AttemptsSettled`) and `SpentIsQuiet`: a run that is spent has no call in progress that could still send a
request or add tokens. As no action touches two runs, `BudgetByRun` splits the invariant by run, and every action
is proved for one run. Of the registry it says that an active prompt meets registered contracts only, in the format of
their answers (`EveryPromptIsValid`), and that the pointer is of a released one; both ways to find a prompt then give one that fits.

**Evaluations.** A summary is a sum over the cases of a process, the file is one over the lines of all processes. `Sums` says
that going over the lines adds up to a count if only those of some pairs are taken. Each stored result extends it by a pair
more, and a swallowed line takes its pair out of what must add up (`ProcessAddsUp`, `SummaryAddsUp`); the manifest runs as
long as its process does (`ManifestRuns`). Of a comparison, each direction of an assertion is shown to keep a pass
a pass when the metric is no worse.

**GenerationRun.** The invariant says, for every stage, which gates the candidate in the workspace has
passed since it last changed, whether the build still compiles it, how many calls are left and who owns the environment. Each
action is proved to hand the promise of its stage to the next one; the commit then finds the
promise of `CurrentSource`, and every other step is a stutter of it. A run that failed has destroyed its environment, or tried to, outside
generate's window, in which the run is already committed.

**SiteProjects.** The document of a site is the tip of the line of its accepted candidates. An edit of a site that was never
erased restores only when the number it read equals the one it asked for, so its base is the item at `latest`,
and the commit's compare-and-swap finds that item still the tip. A committed candidate stays at its
place in the line, which is what makes a cache filled late right. Erased sites are exempt where a
number can mean two contents. `ReadVersion` is `Build` of `VersionHistory`, `Swap` is `Accept`, a delete is `Erase` or a stutter.

**PreviewManager.** Each live environment is owned by an operation in progress, a session or the unadopted set, at most
one operation at a time works to make it a preview, and a session is of a live environment. An environment that is
offered again keeps to this because the check before a session is registered refuses one that is destroyed (`Showing`).
`close` waits for the operations that can still make a preview (the drain counts them) and queues a stop for every
preview it found, so that a close that returned leaves none.

**DevJobs.** The busy flag is held by the one job that works, and the identity of a working job has no result yet. What a
follower is shown is a function of the events it is called for, one after the other: a stream's output is a suffix of the history
that was emitted and not shorter than what is kept of it (`StreamShows`), and a socket is over with the right verdict exactly when the job
has ended (`SocketShows`), because the terminal event is the last of a history (`Told`).

**BrowserQA.** The report's promise is about the end of a run, so the invariant carries what has been
checked so far: every page before the current one has a result of every check, on the current page the
checks no longer in `todo` have one, and an event that was raised is still unread only while a check
that reads it is in `todo`, which holds because the readers come last (`Rank`). A page that is cut short
leaves a blocking result.

**SitePlanning, AgentLoop.** Of whatever was validated a site can be made, and a call that waits has a mode that asks a
model (`Accounts`); so what enters the cache and what a call returns is accounted for. Calls of the tool loop are
counted before the first of them runs (`Counted`), and an accepted claim was the last call of its response, so that the
workspace has not changed since (`Judged`); what is written in a managed file was written under another name.

**SourcePatches.** Two invariants. `PatchIInv` follows the files: while a bundle is checked, `rewritten` is what differs from what
was read (`Noticed`); while it is written or undone, a file holds the old text or the new one, unless it was torn or another
writer came later (`OnDisk`), and that writer's text stays (`Stays`). `CutIInv` follows the letters: each letter that was brought
lies in a range, and each seam is one (`Marked`), as long as no patch put back the text it matched (`Echoed`); cuts of one patch
are made from the last to the first, so that those still to be made find what they look for where they were to
find it (`FitsIn`), and a cut that does not cascade meets no brought letter and no seam. The places a
search from the left takes are unique, and they do not overlap. A repair cuts what it matched in the source it was shown; whichever of the
three ways matched, the text is the one looked for, but for line endings or for an indentation that no literal of that source holds.

**TemplateCatalog.** What a command has dealt with is stored with its bytes, or its uploader took it back (`Dealt`), and an activation
deals with every part before the record becomes active. Once the activation was announced there is a generation from which nothing
but the template's own entry is cached, read or about to be written (`CleanSince`), and every late reader works under such a one.

**TemplatePreparation, TemplateInstantiation.** Only listed files are copied and packed (`OnTheList`), and what is packed of a file is the
edition that was copied, or the file was saved in between (`SameEdition`), which the digest then tells. An instantiation is
sound call by call: nothing of the site exists before the project is saved, a call that has not failed leaves nothing out, and
one that failed has undone what it did or could not, or failed only when its site was whole (`NothingSaved`, `InStore`, `InRow`, `Undone`,
`Housed`).

**Publishing.** What a call aims at is saved before it asks to be published (`Aims`), and what is saved is stored or
went with a deletion of the site (`BuildsFirst`), which holds of the builds whatever becomes of the row; a request that
met the site off the air cannot get past the project while it stays off (`StillOff`); a disabled domain has no way back
(`StillClosed`); a verification that counts found a challenge (`Proven`). A restart empties every set that these relate
at once.

**SiteRuntime.** Every stored record fits the schema in force, field by field, but where a default was never checked against its
field (`RecordsFit`), and has room. A migration adds no required field without a default, so that what a record lacks is in `unfilled`; a
create completes what was checked with the defaults, an update merges what was checked with what is stored and completes that, and
either is measured only then.

**LocalExecution, DaytonaExecution.** A process that a destruction has to stop (`Due`) is in the set that the map holds,
and in the one the destruction goes through (`InTheMap`, `InTheLoop`), so there is none when the loop is over
(`NoneDue`); a folder comes back only by a late call (`NoFolder`). A remote sandbox that runs is known, with its handle,
or is still being made (`RunningIsOwned`, `Handled`).

**WebClient.** A site that the address names and the page does not show is being opened (`OnItsWay`): whatever answer
comes late, the opening of the named site is still to answer, or has failed. Until the page turns elsewhere during a
wait, every preview that is awaited is of the shown site (`PreviewsAreShown`); a preview of another site is then that of
a job which ended after its site was left, and an opening is under way that replaces both (`ForeignIsReplaced`).

**Induction over data.** What a sum, a fold or a search gives for every sequence is shown by a least counterexample:
`LeastNatural` says that a non-empty set of natural numbers has a least element, and a definition that is given step by
step has no least step at which it fails. No module that is proved about declares a recursive operator.

**Assumptions** are the named `ASSUME`s of the modules (`BillingAssumption`, `ProjectsAssumption`, `PreviewAssumption`,
`DevJobsAssumption`, `BudgetAssumption`, `PatchAssumption` and so on), which say of the constants what the code's types and
configuration say: limits are natural numbers, routes and viewports are non-empty sequences, a find text is not empty.
TLC evaluates them in every run.

**Only model-checked.** The liveness properties (`EventuallySettled`, `CloseEnds`, `SweptOrUsed`, `JobsSettle`, `RunEnds`), since
fairness and `ENABLED` are beyond the prover.

## 5. Findings

- **A rename can undo a commit or a delete.** `renameSite` reads the whole project and saves it
  back (`dev-server/playground-service.ts:479`); the save is an upsert of name and status. A rename
  that read the draft and is saved after the first commit sets the status back to DRAFT, and one
  saved after a delete brings the project back. The comment says that only the name changes.
- **A failed job's candidate can be the current version.** A commit that was applied but whose
  answer was lost, or whose job save failed, leaves a FAILED job and its candidate as the
  current version; `docs/production-functional-reliability.md:13` excludes that.
- **A review can commit and charge a version.** The pipeline decides whether an edit changed anything after
  deterministic fixes ran, so reviewing a source they still improve replaces it
  (`sites/generation/local-site-generation-pipeline.ts:698`); the comment below excludes that.
- **An accepted generation can hold a forbidden asset.** Asset references are validated before the build only; a
  build repair can add one (`cli/runtime/local-cli-agent-runtime.ts:1002`).
- **A find text can be rebased to nothing.** When an earlier patch of the bundle deletes the text that a later
  one looks for, counting its occurrences never ends (`cli/runtime/site-coder-file-bundle.ts:156`).
- **A patch can replace text that an earlier one brought.** A patch whose replacement equals the text it matched marks nothing, but clears
  the marks of what it overlaps (`cli/runtime/site-coder-file-bundle.ts:215`). On the source `ab`, the patches *a* to *b* (all), *a* to *b*
  (all), *b* to nothing (all) delete both letters: the second is rebased to *b*, matches what the first brought, and puts it back
  unmarked. The comment above the cascade test excludes that. `ReplacedAsShown` holds of all other bundles, and is proved.

Behaviour that no text of the repository contradicts, but that a reader should know: edits publish no progress, so the
delete guard does not see a running edit; a circuit that opens stays open for the life of the process; OpenAI's adapter
reads the response inside the block whose `catch` records the attempt, so that an unreadable response is recorded twice
(`agents/openai/openai-agent.provider.ts:125`; `BooksBalance` allows it that alone); request identities are never
removed; a site deleted and generated again under the same reference id restarts its version numbers, and a stale cache
can match them; a failing template publication can delete what another checkout found equal; the default of an optional
field is not checked against its field, and a required field that a migration brings with a default is not filled in
before the next update, which its default can make too long; adopting an environment that is already the site's preview
stops it first and then refuses it, so that a retry of a delivered reference generation leaves its site without a
preview; the tool executor compares a path with `managedFiles` as the model spelled it, and the workspace resolves it
afterwards; a deleted site whose row is written again is still published, and answers 503; a comparison of two prompt
runs asks metrics that no assertion names to be equal; in the page, a preview that was awaited when the user went to
another site is shown there, and the answer of a deletion takes the page away from whatever site it has come to show.
Most of it is under *hazards*.

## 6. Not modelled

- **Branches the product cannot enter.** A generation is accepted under `USABLE_GENERATION`, which turns
  functional findings into warnings: the corrective reference request (`local-cli-agent-runtime.ts` 690-726), the
  static source repair (736-775) and the functional repair loop (1136-1152) are never reached by it. Edits are held to `STRICT`.
- **Text.** Most of the repository's lines say what a prompt, a scaffold, a style table, a vendor's message or
  a page contains. They are functions without state; a model of them would be their transcription.
- **Whole-job composition.** The modules meet in shared steps, as said above, and are checked one by one; the product of any two
  of them is beyond TLC, and no property of one needs the other.
