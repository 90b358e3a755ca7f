---------------------------- MODULE SiteProjects ----------------------------
(***************************************************************************)
(* The current version of a site: the Mongo project document and its       *)
(* compare-and-swap commit (MongoSiteVersionCommitter), the per-process    *)
(* version cache (MongoRuntimeState), the source artifacts, and everything *)
(* that writes them: the generation, edit and template pipelines and the   *)
(* rename and delete requests. Several server processes share the          *)
(* collections; each runs one generation or edit at a time (DevJobManager).*)
(*                                                                         *)
(* A candidate is named by the pipeline that builds it. Any await of a     *)
(* pipeline can throw (FailPipeline), also one whose effect took place.    *)
(***************************************************************************)
EXTENDS Integers, Sequences, FiniteSets

CONSTANTS
  Sites, Jobs, Servers,
  KindOf,     \* "generate", "reference", "edit" or "template"
  SiteOf,     \* the site a pipeline works on
  ServerOf,   \* the process that runs a pipeline or a delete request
  Renames, Deletes,
  SiteAt      \* the site of a rename or delete request

ASSUME ProjectsAssumption ==
  /\ KindOf \in [Jobs -> {"generate", "reference", "edit", "template"}]
  /\ SiteOf \in [Jobs -> Sites]
  /\ ServerOf \in [Jobs \cup Deletes -> Servers]
  /\ SiteAt \in [Renames \cup Deletes -> Sites]
  \* generated and template sites get a fresh id; only a reference attempt is
  \* retried under the id of its first try, by the process that remembers it
  /\ \A i, j \in Jobs :
       i # j /\ SiteOf[i] = SiteOf[j] /\ KindOf[i] # "edit" /\ KindOf[j] # "edit"
         => KindOf[i] = "reference" /\ KindOf[j] = "reference" /\ ServerOf[i] = ServerOf[j]

VARIABLES
  doc,        \* doc[s]: the project document
  sources,    \* candidates whose source snapshot is in the artifact store
  cache,      \* cache[p][s]: MongoRuntimeState.versions of process p
  run,        \* run[j]: where a pipeline stands
  from,       \* from[j]: the version an edit request asked to start from
  latest,     \* latest[j]: project.latestVersionId as the pipeline read it
  base,       \* base[j]: {} or {the candidate whose source j restored}
  jobrow,     \* jobrow[j]: status of the stored job
  renaming,   \* renaming[r]: {} or {the document the request read}
  deleting,   \* deleting[d]: where a delete request, or a template's cleanup, stands
  line,       \* history: line[s], the candidates committed since s was inserted
  erased,     \* history: sites deleted while they had a version
  broken      \* history: jobs whose commit or final save did not answer

vars == <<doc, sources, cache, run, from, latest, base, jobrow, renaming, deleting, line, erased, broken>>

NoDoc == [status |-> "ABSENT", num |-> 0, source |-> {}, name |-> "none"]
NoEntry == [num |-> 0, source |-> {}]
Draft(name) == [status |-> "DRAFT", num |-> 0, source |-> {}, name |-> name]

Doc == {d \in [status : {"ABSENT", "DRAFT", "ACTIVE"}, num : Nat, source : SUBSET Jobs,
               name : {"none", "generated", "renamed"}] : d.num = 0 <=> d.source = {}}
Entry == [num : Nat, source : SUBSET Jobs]

Exists(s) == doc[s].status # "ABSENT"
Over == {"idle", "succeeded", "failed", "crashed"}
Active(j) == run[j] \notin Over

-----------------------------------------------------------------------------
Init ==
  /\ doc = [s \in Sites |-> NoDoc]
  /\ sources = {}
  /\ cache = [p \in Servers |-> [s \in Sites |-> NoEntry]]
  /\ run = [j \in Jobs |-> "idle"]
  /\ from = [j \in Jobs |-> 0]
  /\ latest = [j \in Jobs |-> 0]
  /\ base = [j \in Jobs |-> {}]
  /\ jobrow = [j \in Jobs |-> "ABSENT"]
  /\ renaming = [r \in Renames |-> {}]
  /\ deleting = [d \in Deletes |-> "idle"]
  /\ line = [s \in Sites |-> <<>>]
  /\ erased = {}
  /\ broken = {}

Requests == <<renaming, deleting>>
Record == <<line, erased, broken>>

-----------------------------------------------------------------------------
(* Pipelines: from the request to a captured candidate *)

\* DevJobManager admits one generation or edit per process. A reference
\* generation that is running or done is returned, never started again. An
\* edit request names the version it starts from.
Start(j) ==
  /\ run[j] = "idle"
  /\ KindOf[j] # "template" =>
       \A i \in Jobs : ServerOf[i] = ServerOf[j] /\ KindOf[i] # "template" => ~Active(i)
  /\ KindOf[j] = "reference" =>
       \A i \in Jobs : SiteOf[i] = SiteOf[j] /\ KindOf[i] = "reference" => run[i] \in {"idle", "failed"}
  /\ run' = [run EXCEPT ![j] = "queued"]
  /\ KindOf[j] = "edit" => doc[SiteOf[j]].num > 0
  /\ from' = [from EXCEPT ![j] = IF KindOf[j] = "edit" THEN doc[SiteOf[j]].num ELSE 0]
  /\ jobrow' = [jobrow EXCEPT ![j] = IF KindOf[j] = "template" THEN @ ELSE "QUEUED"]
  /\ UNCHANGED <<doc, sources, cache, latest, base, Requests, Record>>

\* projects.save: an upsert that never touches the version of a document
MutSaveResetsVersion(s, status, name) == [doc EXCEPT ![s] = [@ EXCEPT !.status = status, !.name = name, !.num = 0]]
SavedProject(s, status, name) ==
  [doc EXCEPT ![s] = IF Exists(s) THEN [@ EXCEPT !.status = status, !.name = name]
                     ELSE [Draft(name) EXCEPT !.status = status]]

\* A generation stores its draft project at once
SaveDraft(j) ==
  /\ run[j] = "queued" /\ KindOf[j] = "generate"
  /\ doc' = SavedProject(SiteOf[j], "DRAFT", "generated")
  /\ run' = [run EXCEPT ![j] = "planned"]
  /\ UNCHANGED <<sources, cache, from, latest, base, jobrow, Requests, Record>>

\* A reference generation must not replace a project that has a version;
\* a template has nothing to read.
CheckReference(j) ==
  /\ run[j] = "queued" /\ KindOf[j] \in {"reference", "template"}
  /\ KindOf[j] = "reference" => doc[SiteOf[j]].num = 0
  /\ run' = [run EXCEPT ![j] = "planned"]
  /\ UNCHANGED <<doc, sources, cache, from, latest, base, jobrow, Requests, Record>>

\* edit reads the project and its version number, then the requested version
ReadProject(j) ==
  /\ run[j] = "queued" /\ KindOf[j] = "edit"
  /\ Exists(SiteOf[j])
  /\ latest' = [latest EXCEPT ![j] = doc[SiteOf[j]].num]
  /\ run' = [run EXCEPT ![j] = "read"]
  /\ UNCHANGED <<doc, sources, cache, from, base, jobrow, Requests, Record>>

\* MongoSiteVersionRepository.getById: only the current number resolves, and
\* the cached version stands for the document when it has that number.
MutStaleCacheRead(p, s) == IF cache[p][s].num > 0 THEN cache[p][s].source ELSE doc[s].source
VersionRead(p, s) == IF cache[p][s].num = doc[s].num THEN cache[p][s].source ELSE doc[s].source

MutAnyVersionResolves(j) == doc[SiteOf[j]].num > 0
Resolves(j) == doc[SiteOf[j]].num = from[j]

ReadVersion(j) ==
  /\ run[j] = "read"
  /\ Resolves(j)
  /\ doc[SiteOf[j]].source \subseteq sources
  /\ base' = [base EXCEPT ![j] = VersionRead(ServerOf[j], SiteOf[j])]
  /\ base'[j] \subseteq sources
  /\ run' = [run EXCEPT ![j] = "planned"]
  /\ UNCHANGED <<doc, sources, cache, from, latest, jobrow, Requests, Record>>

\* The candidate passed every gate and its source snapshot is captured
Capture(j) ==
  /\ run[j] = "planned"
  /\ sources' = sources \cup {j}
  /\ run' = [run EXCEPT ![j] = IF KindOf[j] \in {"reference", "template"} THEN "captured" ELSE "ready"]
  /\ UNCHANGED <<doc, cache, from, latest, base, jobrow, Requests, Record>>

\* An edit that finds nothing to change succeeds without a candidate
NoChanges(j) ==
  /\ run[j] = "planned" /\ KindOf[j] = "edit"
  /\ run' = [run EXCEPT ![j] = "succeeded"]
  /\ jobrow' = [jobrow EXCEPT ![j] = "UNCHANGED"]
  /\ UNCHANGED <<doc, sources, cache, from, latest, base, Requests, Record>>

\* Only now do reference generations and templates store their project
SaveCandidateProject(j) ==
  /\ run[j] = "captured"
  /\ doc' = SavedProject(SiteOf[j], "DRAFT", "generated")
  /\ run' = [run EXCEPT ![j] = "ready"]
  /\ UNCHANGED <<sources, cache, from, latest, base, jobrow, Requests, Record>>

-----------------------------------------------------------------------------
(* MongoSiteVersionCommitter.commit and the end of a pipeline *)

\* The snapshot is readable, the document is there, and its version is the
\* one the pipeline started from.
CommitChecks(j) ==
  /\ run[j] = "ready"
  /\ j \in sources
  /\ Exists(SiteOf[j]) /\ doc[SiteOf[j]].num = latest[j]
  /\ run' = [run EXCEPT ![j] = "checked"]
  /\ UNCHANGED <<doc, sources, cache, from, latest, base, jobrow, Requests, Record>>

\* findOneAndUpdate with the version number in its filter
MutUnconditionalSwap(j) == Exists(SiteOf[j])
SwapMatches(j) == Exists(SiteOf[j]) /\ doc[SiteOf[j]].num = latest[j]

Committed(j) ==
  LET d == doc[SiteOf[j]] IN
  [status |-> "ACTIVE", num |-> d.num + 1, source |-> {j},
   name |-> IF d.num = 0 THEN "generated" ELSE d.name]

Swap(j) ==
  /\ run[j] = "checked"
  /\ SwapMatches(j)
  /\ doc' = [doc EXCEPT ![SiteOf[j]] = Committed(j)]
  /\ line' = [line EXCEPT ![SiteOf[j]] = Append(@, j)]
  /\ run' = [run EXCEPT ![j] = "swapped"]
  /\ UNCHANGED <<sources, cache, from, latest, base, jobrow, Requests, erased, broken>>

\* The reply arrives, maybe after later commits, and fills the cache with the
\* number this commit wrote
MutCachedAsCurrent(j) == [num |-> doc[SiteOf[j]].num, source |-> {j}]
CachedVersion(j) == [num |-> latest[j] + 1, source |-> {j}]

CacheVersion(j) ==
  /\ run[j] = "swapped"
  /\ cache' = [cache EXCEPT ![ServerOf[j]][SiteOf[j]] = CachedVersion(j)]
  /\ run' = [run EXCEPT ![j] = "committed"]
  /\ UNCHANGED <<doc, sources, from, latest, base, jobrow, Requests, Record>>

\* The job is saved SUCCEEDED; when that save does not answer the pipeline
\* goes on as failed.
MaySaveSuccess(j) == KindOf[j] # "template" /\ run[j] = "committed"

SaveSucceeded(j) ==
  /\ MaySaveSuccess(j)
  /\ jobrow' = [jobrow EXCEPT ![j] = "SUCCEEDED"]
  /\ \/ run' = [run EXCEPT ![j] = "succeeded"] /\ UNCHANGED broken
     \/ run' = [run EXCEPT ![j] = "doomed"] /\ broken' = broken \cup {j}
  /\ UNCHANGED <<doc, sources, cache, from, latest, base, Requests, line, erased>>

\* A template has no job: it is done when its preview was adopted
AdoptTemplate(j) ==
  /\ run[j] = "committed" /\ KindOf[j] = "template"
  /\ run' = [run EXCEPT ![j] = "succeeded"]
  /\ UNCHANGED <<doc, sources, cache, from, latest, base, jobrow, Requests, Record>>

\* Any step throws, or refuses by its own check: the job is saved FAILED by
\* an upsert, if that save is answered.
MutFailsLate(j) == Active(j) \/ run[j] = "succeeded"
MayFail(j) == Active(j)

FailPipeline(j) ==
  /\ MayFail(j) /\ KindOf[j] # "template"
  /\ run' = [run EXCEPT ![j] = "failed"]
  /\ broken' = IF run[j] \in {"swapped", "committed"} THEN broken \cup {j} ELSE broken
  /\ \/ jobrow' = [jobrow EXCEPT ![j] = "FAILED"]
     \/ UNCHANGED jobrow
  /\ UNCHANGED <<doc, sources, cache, from, latest, base, Requests, line, erased>>

-----------------------------------------------------------------------------
(* Rename and delete *)

\* renameSite reads the owned project and writes the whole of it back
ReadForRename(r) ==
  /\ renaming[r] = {} /\ Exists(SiteAt[r])
  /\ renaming' = [renaming EXCEPT ![r] = {doc[SiteAt[r]].status}]
  /\ UNCHANGED <<doc, sources, cache, run, from, latest, base, jobrow, deleting, Record>>

SaveRename(r) ==
  /\ \E status \in renaming[r] : doc' = SavedProject(SiteAt[r], status, "renamed")
  /\ renaming' = [renaming EXCEPT ![r] = {}]
  /\ UNCHANGED <<sources, cache, run, from, latest, base, jobrow, deleting, Record>>

\* deleteSite: the guard knows the jobs of its own process, and those by their
\* progress events, which edits and templates never emit.
DeleteAdmitted(d) ==
  /\ deleting[d] = "idle" /\ Exists(SiteAt[d])
  /\ \A j \in Jobs : ServerOf[j] = ServerOf[d] /\ SiteOf[j] = SiteAt[d]
                       /\ KindOf[j] \in {"generate", "reference"} => run[j] \in Over \cup {"queued"}
  /\ deleting' = [deleting EXCEPT ![d] = "admitted"]
  /\ UNCHANGED <<doc, sources, cache, run, from, latest, base, jobrow, renaming, Record>>

\* A template that fails, even after its commit, deletes its site unconditionally
FailTemplate(j) ==
  /\ Active(j) /\ KindOf[j] = "template"
  /\ run' = [run EXCEPT ![j] = "failed"]
  /\ \E d \in Deletes :
       /\ SiteAt[d] = SiteOf[j] /\ deleting[d] = "idle"
       /\ deleting' = [deleting EXCEPT ![d] = "admitted"]
  /\ UNCHANGED <<doc, sources, cache, from, latest, base, jobrow, renaming, Record>>

\* deleteMongoSite removes jobs and project in parallel ...
DeleteJobs(d) ==
  /\ deleting[d] \in {"admitted", "projectGone"}
  /\ jobrow' = [j \in Jobs |-> IF SiteOf[j] = SiteAt[d] THEN "ABSENT" ELSE jobrow[j]]
  /\ deleting' = [deleting EXCEPT ![d] = IF @ = "admitted" THEN "jobsGone" ELSE "gone"]
  /\ UNCHANGED <<doc, sources, cache, run, from, latest, base, renaming, Record>>

\* Every deletion ends the line of the site
Dropped(s) ==
  /\ doc' = [doc EXCEPT ![s] = NoDoc]
  /\ line' = [line EXCEPT ![s] = <<>>]
  /\ erased' = IF doc[s].num > 0 THEN erased \cup {s} ELSE erased

SourcesOf(s) == {j \in Jobs : SiteOf[j] = s}

DeleteProject(d) ==
  /\ deleting[d] \in {"admitted", "jobsGone"}
  /\ Dropped(SiteAt[d])
  /\ deleting' = [deleting EXCEPT ![d] = IF @ = "admitted" THEN "projectGone" ELSE "gone"]
  /\ UNCHANGED <<sources, cache, run, from, latest, base, jobrow, renaming, broken>>

\* ... and only when both answered are the artifacts removed
DeleteArtifacts(d) ==
  /\ deleting[d] = "gone"
  /\ sources' = sources \ SourcesOf(SiteAt[d])
  /\ deleting' = [deleting EXCEPT ![d] = "idle"]
  /\ UNCHANGED <<doc, cache, run, from, latest, base, jobrow, renaming, Record>>

DeleteFails(d) ==
  /\ deleting[d] # "idle"
  /\ deleting' = [deleting EXCEPT ![d] = "idle"]
  /\ UNCHANGED <<doc, sources, cache, run, from, latest, base, jobrow, renaming, Record>>

\* A server process dies with its pipelines and its cache
Crash(p) ==
  /\ run' = [j \in Jobs |-> IF ServerOf[j] = p /\ Active(j) THEN "crashed" ELSE run[j]]
  /\ cache' = [cache EXCEPT ![p] = [s \in Sites |-> NoEntry]]
  /\ UNCHANGED <<doc, sources, from, latest, base, jobrow, Requests, Record>>

-----------------------------------------------------------------------------
Pipeline(j) ==
  \/ Start(j) \/ SaveDraft(j) \/ CheckReference(j) \/ ReadProject(j) \/ ReadVersion(j)
  \/ Capture(j) \/ NoChanges(j) \/ SaveCandidateProject(j)
  \/ CommitChecks(j) \/ Swap(j) \/ CacheVersion(j) \/ SaveSucceeded(j)
  \/ AdoptTemplate(j) \/ FailPipeline(j) \/ FailTemplate(j)

Next ==
  \/ \E j \in Jobs : Pipeline(j)
  \/ \E r \in Renames : ReadForRename(r) \/ SaveRename(r)
  \/ \E d \in Deletes : DeleteJobs(d) \/ DeleteProject(d) \/ DeleteArtifacts(d)
                        \/ DeleteFails(d) \/ DeleteAdmitted(d)
  \/ \E p \in Servers : Crash(p)

Spec == Init /\ [][Next]_vars

-----------------------------------------------------------------------------
(* Properties *)

StoredTyped ==
  /\ doc \in [Sites -> Doc]
  /\ cache \in [Servers -> [Sites -> Entry]]
  /\ line \in [Sites -> Seq(Jobs)]
  /\ sources \subseteq Jobs /\ broken \subseteq Jobs /\ erased \subseteq Sites

JobsTyped ==
  /\ run \in [Jobs -> Over \cup {"queued", "read", "planned", "captured", "ready", "checked",
                                "swapped", "committed", "doomed"}]
  /\ from \in [Jobs -> Nat]
  /\ latest \in [Jobs -> Nat]
  /\ base \in [Jobs -> SUBSET Jobs]
  /\ jobrow \in [Jobs -> {"ABSENT", "QUEUED", "UNCHANGED", "SUCCEEDED", "FAILED"}]

RequestsTyped ==
  /\ renaming \in [Renames -> SUBSET {"DRAFT", "ACTIVE"}]
  /\ deleting \in [Deletes -> {"idle", "admitted", "jobsGone", "projectGone", "gone"}]

\* Every variable keeps its shape; a document has a source when it has a version.
TypeOK == StoredTyped /\ JobsTyped /\ RequestsTyped

Abstract == INSTANCE VersionHistory WITH Candidates <- Jobs

Accepted(s) == {line[s][i] : i \in DOMAIN line[s]}

\* The document shows the last accepted candidate and counts all of them: no
\* draft save, rename or late commit rolls the current version back.
CurrentIsTip ==
  \A s \in Sites : doc[s].num = Len(line[s]) /\ doc[s].source = Abstract!Tip(line[s])

\* The cache of a process, filled when a commit's reply arrives and so perhaps
\* late and out of order, never shows another source under the current version
\* id, except on a site that was deleted and generated again.
CacheAgrees ==
  \A p \in Servers, s \in Sites :
    s \notin erased /\ cache[p][s].num = doc[s].num /\ doc[s].num > 0
      => cache[p][s].source = doc[s].source

\* A site starts with a generation, a reference or a template, and goes on with
\* edits only: a retried reference generation never lands on a site with a version,
\* and an edit lands on none without, unless the site was deleted under it.
CreatedOnceThenEdited ==
  \A s \in Sites : \A i \in DOMAIN line[s] :
    /\ i > 1 => KindOf[line[s][i]] = "edit"
    /\ i = 1 => KindOf[line[s][i]] # "edit" \/ s \in erased

\* A stored job tells the truth: one stored SUCCEEDED has its candidate in the
\* line of its site, and one stored FAILED whose candidate was accepted had a
\* commit or a final save that did not answer; nothing else fails after the commit.
JobsTellTheTruth ==
  \A j \in Jobs :
    /\ jobrow[j] = "SUCCEEDED" => j \in Accepted(SiteOf[j]) \/ SiteOf[j] \in erased
    /\ jobrow[j] = "FAILED" /\ j \in Accepted(SiteOf[j]) => j \in broken

\* The store implements VersionHistory: every accepted candidate was built from
\* the version it replaced, whatever the pipelines of all processes interleave.
HistoryKept == Abstract!HistorySpec

\* renameSite: "Only the name changes" (playground-service.ts:479).
RenameTouchesOnlyName ==
  [][\A r \in Renames : SaveRename(r) =>
       Exists(SiteAt[r]) /\ doc' = [doc EXCEPT ![SiteAt[r]].name = "renamed"]]_vars

\* "Failed candidates cannot become an accepted current version"
\* (docs/production-functional-reliability.md:13).
FailedNeverCurrent == \A j \in Jobs : jobrow[j] = "FAILED" => doc[SiteOf[j]].source # {j}
=============================================================================
