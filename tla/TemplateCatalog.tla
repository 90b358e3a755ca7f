-------------------------- MODULE TemplateCatalog --------------------------
(***************************************************************************)
(* One version of one template in the catalog: its document in Mongo, its  *)
(* artifacts in the bucket and the Redis cache of the public catalog.      *)
(* Three commands write it. "register" creates a clean draft. "activate"   *)
(* puts the artifacts, create-only, and turns the draft active; it never   *)
(* deletes. "publish" puts the artifacts, creates the document, and        *)
(* deletes what it put when it fails. Every command works on a checkout    *)
(* of its own, so two runs need not build the same bytes. Requests read    *)
(* the public catalog through a cache whose keys carry a generation.       *)
(***************************************************************************)
EXTENDS Naturals, Sequences, SequencesExt

CONSTANTS
  Commands,    \* runs of the three commands
  CommandOf,   \* CommandOf[r]: "register", "activate" or "publish"
  Contents,    \* digests of what a checkout builds
  BytesOf,     \* BytesOf[r]: the digest of the artifacts of run r
  Parts,       \* the artifacts of a version, in the order they are uploaded
  Queries,     \* requests to the public catalog
  MaxGeneration \* bound: invalidations of the cache

ASSUME CatalogAssumption ==
  /\ CommandOf \in [Commands -> {"register", "activate", "publish"}]
  /\ BytesOf \in [Commands -> Contents]
  /\ Parts \in Seq(ToSet(Parts))
  /\ MaxGeneration \in Nat

VARIABLES
  record,      \* the document: its status and the digest it names
  object,      \* object[p]: what the bucket holds under the path of part p
  step,        \* step[r]: where run r stands
  done,        \* done[r]: how many parts run r has dealt with
  put,         \* put[r]: the parts run r uploaded, in order (publish)
  generation,  \* the generation counter in Redis
  entry,       \* entry[g]: the cached answer under generation g, if any
  query,       \* query[q]: where a request stands
  asOf,        \* asOf[q]: the generation the request works under
  view,        \* view[q]: the answer it read, and at the end served
  announced,   \* history: an invalidation was acknowledged while the template was active
  late,        \* history: requests that started after that and reached Redis
  undone       \* history: parts whose uploader cleaned up

catalogVars == <<record, object, step, done, put, generation, entry, query, asOf, view, announced, late, undone>>

Document == <<record, object>>
Command == <<step, done, put>>
Cache == <<generation, entry>>
Request == <<query, asOf, view, late>>

NoRecord == [status |-> "absent", sha |-> {}]
CleanDraft == [status |-> "draft", sha |-> {}]
WithArtifacts(status, r) == [status |-> status, sha |-> {BytesOf[r]}]
ActiveRecord(r) == WithArtifacts("active", r)
Answers == {"listed", "hidden"}

CatalogInit ==
  /\ record = NoRecord
  /\ object = [p \in ToSet(Parts) |-> {}]
  /\ step = [r \in Commands |-> "start"]
  /\ done = [r \in Commands |-> 0]
  /\ put = [r \in Commands |-> <<>>]
  /\ generation = 0
  /\ entry = [g \in 0..MaxGeneration |-> {}]
  /\ query = [q \in Queries |-> "start"]
  /\ asOf = [q \in Queries |-> 0]
  /\ view = [q \in Queries |-> {}]
  /\ announced = FALSE
  /\ late = {}
  /\ undone = {}

Goto(r, s) == step' = [step EXCEPT ![r] = s]
At(r, command, s) == CommandOf[r] = command /\ step[r] = s
Part(r) == Parts[done[r] + 1]
AllDealtWith(r) == done[r] = Len(Parts)
NextPart(r) == done' = [done EXCEPT ![r] = @ + 1]

-----------------------------------------------------------------------------
(* What every command begins with, and how it ends *)

\* A run reads the document before anything else: registering needs none or a
\* clean draft, activating a clean draft or an active one, publishing none.
Admits(command) ==
  CASE command = "register" -> {NoRecord, CleanDraft}
    [] command = "activate" -> {CleanDraft} \cup {[status |-> "active", sha |-> {c}] : c \in Contents}
    [] command = "publish" -> {NoRecord}

BeginCommand(r) ==
  /\ step[r] = "start"
  /\ Goto(r, IF record \notin Admits(CommandOf[r]) THEN "failed"
             ELSE CASE CommandOf[r] = "register" -> IF record = NoRecord THEN "create" ELSE "invalidate"
                    [] CommandOf[r] = "activate" -> "artifacts"
                    [] OTHER -> "check")
  /\ UNCHANGED <<Document, done, put, Cache, Request, announced, undone>>

\* Reading, building, browser QA, packaging, or the process itself fails
Gives(r) ==
  /\ step[r] \in {"start", "create", "check", "artifacts", "confirm", "activate", "invalidate"}
  /\ Goto(r, "failed")
  /\ UNCHANGED <<Document, done, put, Cache, Request, announced, undone>>

Dies(r) ==
  /\ step[r] \in {"upload", "cleanup"}
  /\ Goto(r, "failed")
  /\ UNCHANGED <<Document, done, put, Cache, Request, announced, undone>>

\* INCR of the generation key is the last step of every command
Invalidate(r) ==
  /\ step[r] = "invalidate" /\ generation < MaxGeneration
  /\ generation' = generation + 1
  /\ announced' = (announced \/ record.status = "active")
  /\ Goto(r, "succeeded")
  /\ UNCHANGED <<Document, done, put, entry, Request, undone>>

\* Only publishing succeeds without it: the error is swallowed in the cache
InvalidateUnheard(r) ==
  /\ At(r, "publish", "invalidate")
  /\ Goto(r, "succeeded")
  /\ UNCHANGED <<Document, done, put, Cache, Request, announced, undone>>

-----------------------------------------------------------------------------
(* register *)

\* The unique index refuses a second document of the version
CreateDraft(r) ==
  /\ At(r, "register", "create")
  /\ IF record = NoRecord THEN record' = CleanDraft /\ Goto(r, "invalidate")
     ELSE UNCHANGED record /\ Goto(r, "failed")
  /\ UNCHANGED <<object, done, put, Cache, Request, announced, undone>>

-----------------------------------------------------------------------------
(* activate *)

\* #ensureArtifact: equal bytes count as uploaded, other bytes are a conflict,
\* and nothing there means a put that only creates.
ReadPart(r) ==
  /\ At(r, "activate", "artifacts") /\ ~AllDealtWith(r)
  /\ IF object[Part(r)] = {BytesOf[r]} THEN NextPart(r) /\ UNCHANGED step
     ELSE /\ Goto(r, IF object[Part(r)] = {} THEN "upload" ELSE "failed")
          /\ UNCHANGED done
  /\ UNCHANGED <<Document, put, Cache, Request, announced, undone>>

\* ifGenerationMatch: 0
MutPutOverwrites(r) == object' = [object EXCEPT ![Part(r)] = {BytesOf[r]}]
Created(r) == object[Part(r)] = {} /\ object' = [object EXCEPT ![Part(r)] = {BytesOf[r]}]

\* A refused put, or one that got no answer, is followed by another read
PutPart(r) ==
  /\ At(r, "activate", "upload")
  /\ Created(r) \/ UNCHANGED object
  /\ Goto(r, "confirm")
  /\ UNCHANGED <<record, done, put, Cache, Request, announced, undone>>

ConfirmPart(r) ==
  /\ At(r, "activate", "confirm")
  /\ IF object[Part(r)] = {BytesOf[r]} THEN NextPart(r) /\ Goto(r, "artifacts")
     ELSE UNCHANGED done /\ Goto(r, "failed")
  /\ UNCHANGED <<Document, put, Cache, Request, announced, undone>>

\* The document is read again; one that is active with these very artifacts is
\* an earlier activation, everything but a clean draft is a conflict.
ReadAgain(r) ==
  /\ At(r, "activate", "artifacts") /\ AllDealtWith(r)
  /\ Goto(r, CASE record = ActiveRecord(r) -> "invalidate"
               [] record = CleanDraft -> "activate"
               [] OTHER -> "failed")
  /\ UNCHANGED <<Document, done, put, Cache, Request, announced, undone>>

\* activateTemplateVersion finds a clean draft only
DraftFound == record = CleanDraft

ActivateVersion(r) ==
  /\ At(r, "activate", "activate")
  /\ IF DraftFound THEN record' = ActiveRecord(r) /\ \E s \in {"invalidate", "failed"} : Goto(r, s)
     ELSE UNCHANGED record /\ Goto(r, IF record = ActiveRecord(r) THEN "invalidate" ELSE "failed")
  /\ UNCHANGED <<object, done, put, Cache, Request, announced, undone>>

-----------------------------------------------------------------------------
(* publish *)

\* No artifact may exist, one is asked after the other
CheckPart(r) ==
  /\ At(r, "publish", "check")
  /\ IF AllDealtWith(r) THEN Goto(r, "upload") /\ done' = [done EXCEPT ![r] = 0]
     ELSE IF object[Part(r)] = {} THEN NextPart(r) /\ UNCHANGED step
     ELSE UNCHANGED done /\ Goto(r, "failed")
  /\ UNCHANGED <<Document, put, Cache, Request, announced, undone>>

\* An upload counts once it was answered; one that was not leaves its object
UploadPart(r) ==
  /\ At(r, "publish", "upload") /\ ~AllDealtWith(r)
  /\ \/ /\ Created(r) /\ NextPart(r) /\ UNCHANGED step
        /\ put' = [put EXCEPT ![r] = Append(@, Part(r))]
     \/ /\ Created(r) \/ UNCHANGED object
        /\ Goto(r, "cleanup") /\ UNCHANGED <<done, put>>
  /\ UNCHANGED <<record, Cache, Request, announced, undone>>

\* The document gets the status its manifest names, and an insert that went
\* unanswered counts as failed. A draft with artifacts is not a clean one.
CreateVersion(r) ==
  /\ At(r, "publish", "upload") /\ AllDealtWith(r)
  /\ \/ /\ record = NoRecord
        /\ \E status \in {"draft", "active"} : record' = WithArtifacts(status, r)
        /\ \E s \in {"invalidate", "cleanup"} : Goto(r, s)
     \/ UNCHANGED record /\ Goto(r, "cleanup")
  /\ UNCHANGED <<object, done, put, Cache, Request, announced, undone>>

\* #failureWithCleanup deletes in reverse order, going on when a delete fails
MutCleanupEverything(r) == ToSet(Parts)
Mine(r) == {Last(put[r])}

CleanUp(r) ==
  /\ step[r] = "cleanup"
  /\ IF put[r] = <<>> THEN Goto(r, "failed") /\ UNCHANGED <<object, put, undone>>
     ELSE /\ \/ object' = [p \in DOMAIN object |-> IF p \in Mine(r) THEN {} ELSE object[p]]
             \/ UNCHANGED object
          /\ put' = [put EXCEPT ![r] = Front(@)]
          /\ undone' = undone \cup {Last(put[r])}
          /\ UNCHANGED step
  /\ UNCHANGED <<record, done, Cache, Request, announced>>

-----------------------------------------------------------------------------
(* Requests to the public catalog *)

\* The generation is read first, and a read that fails counts as generation 0
ReadGeneration(q) ==
  /\ query[q] = "start"
  /\ \/ asOf' = [asOf EXCEPT ![q] = generation] /\ late' = IF announced THEN late \cup {q} ELSE late
     \/ asOf' = [asOf EXCEPT ![q] = 0] /\ UNCHANGED late
  /\ query' = [query EXCEPT ![q] = "cache"]
  /\ UNCHANGED <<Document, Command, Cache, view, announced, undone>>

\* A hit is served at once; a failed read counts as a miss
ReadCache(q) ==
  /\ query[q] = "cache"
  /\ \/ /\ entry[asOf[q]] # {}
        /\ view' = [view EXCEPT ![q] = entry[asOf[q]]]
        /\ query' = [query EXCEPT ![q] = "served"]
     \/ query' = [query EXCEPT ![q] = "mongo"] /\ UNCHANGED view
  /\ UNCHANGED <<Document, Command, Cache, asOf, late, announced, undone>>

\* listActiveTemplates, findTemplateVersion: active documents only
CatalogAnswer == IF record.status = "active" THEN "listed" ELSE "hidden"

ReadCatalog(q) ==
  /\ query[q] = "mongo"
  /\ view' = [view EXCEPT ![q] = {CatalogAnswer}]
  /\ query' = [query EXCEPT ![q] = "write"]
  /\ UNCHANGED <<Document, Command, Cache, asOf, late, announced, undone>>

\* The answer is cached under the generation the request started with
MutCurrentGeneration(q) == generation
WrittenUnder(q) == asOf[q]

WriteCache(q) ==
  /\ query[q] = "write"
  /\ \/ entry' = [entry EXCEPT ![WrittenUnder(q)] = view[q]]
     \/ UNCHANGED entry
  /\ query' = [query EXCEPT ![q] = "served"]
  /\ UNCHANGED <<Document, Command, generation, asOf, view, late, announced, undone>>

\* An entry lives for 300 seconds
Expire(g) ==
  /\ entry[g] # {}
  /\ entry' = [entry EXCEPT ![g] = {}]
  /\ UNCHANGED <<Document, Command, generation, Request, announced, undone>>

-----------------------------------------------------------------------------
CatalogNext ==
  \/ \E r \in Commands :
       \/ BeginCommand(r) \/ Gives(r) \/ Dies(r) \/ Invalidate(r) \/ InvalidateUnheard(r)
       \/ CreateDraft(r)
       \/ ReadPart(r) \/ PutPart(r) \/ ConfirmPart(r) \/ ReadAgain(r) \/ ActivateVersion(r)
       \/ CheckPart(r) \/ UploadPart(r) \/ CreateVersion(r) \/ CleanUp(r)
  \/ \E q \in Queries : ReadGeneration(q) \/ ReadCache(q) \/ ReadCatalog(q) \/ WriteCache(q)
  \/ \E g \in 0..MaxGeneration : Expire(g)

CatalogSpec == CatalogInit /\ [][CatalogNext]_catalogVars

-----------------------------------------------------------------------------
(* Properties *)

\* Every variable keeps its shape; an active document names a digest.
CatalogTypeOK ==
  /\ record \in [status : {"absent", "draft", "active"}, sha : SUBSET Contents]
  /\ record.status = "active" => record.sha # {}
  /\ object \in [ToSet(Parts) -> SUBSET Contents]
  /\ step \in [Commands -> {"start", "create", "check", "artifacts", "upload", "confirm",
                           "activate", "cleanup", "invalidate", "succeeded", "failed"}]
  /\ done \in [Commands -> 0..Len(Parts)]
  /\ put \in [Commands -> Seq(ToSet(Parts))]
  /\ generation \in 0..MaxGeneration
  /\ entry \in [0..MaxGeneration -> SUBSET Answers]
  /\ query \in [Queries -> {"start", "cache", "mongo", "write", "served"}]
  /\ asOf \in [Queries -> 0..MaxGeneration]
  /\ view \in [Queries -> SUBSET Answers]
  /\ announced \in BOOLEAN /\ late \subseteq Queries /\ undone \subseteq ToSet(Parts)

\* All artifacts of an active version are in the bucket with the digest its
\* document names, whichever commands raced or died on the way; only a failed
\* publication that takes back what it put itself can leave a gap.
ActiveIsComplete ==
  record.status = "active" => \A p \in ToSet(Parts) \ undone : object[p] = record.sha

\* Once an invalidation was acknowledged for an active template, no request
\* that starts and reads the generation is answered from an older catalog.
FreshOnceAnnounced == \A q \in late : query[q] = "served" => view[q] = {"listed"}
=============================================================================
