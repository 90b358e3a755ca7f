-------------------------- MODULE Templates_proofs --------------------------
(***************************************************************************)
(* Proofs about the template catalog (TemplateCatalog), the preparation of *)
(* a template (TemplatePreparation) and its instantiation                  *)
(* (TemplateInstantiation), for any commands, parts, files and calls.      *)
(***************************************************************************)
EXTENDS TemplateCatalog, Templates, TLAPS

-----------------------------------------------------------------------------
(* TemplateCatalog *)

\* What a command has dealt with is in the bucket with its bytes, or its uploader
\* took it back; a publication counts anew when it begins to upload.
Holds(r) ==
  \/ CommandOf[r] = "activate" /\ step[r] \in {"start", "artifacts", "upload", "confirm", "activate"}
  \/ CommandOf[r] = "publish" /\ step[r] = "upload"

\* An activation asks about a part, uploads it and asks again while one is left.
Waits ==
  \A r \in Commands :
    CommandOf[r] = "activate" /\ step[r] \in {"upload", "confirm"} => ~AllDealtWith(r)

Dealt ==
  /\ Waits
  /\ \A r \in Commands : step[r] = "start" => done[r] = 0
  /\ \A r \in Commands : step[r] = "activate" => CommandOf[r] = "activate" /\ AllDealtWith(r)
  /\ \A r \in Commands : Holds(r) =>
       \A i \in 1..done[r] : object[Parts[i]] = {BytesOf[r]} \/ Parts[i] \in undone

\* From some generation on, nothing but the template's own entry is cached, served or
\* about to be cached, and all late requests work under these generations.
CleanSince(g) ==
  /\ g \in 1..generation
  /\ \A n \in g..MaxGeneration : entry[n] \subseteq {"listed"}
  /\ \A q \in Queries : asOf[q] >= g => view[q] \subseteq {"listed"}
  /\ \A q \in late : asOf[q] >= g

CacheShape ==
  /\ \A n \in 0..MaxGeneration : n > generation => entry[n] = {}
  /\ \A q \in Queries : asOf[q] <= generation
  /\ \A q \in Queries : query[q] \in {"start", "cache", "mongo"} => view[q] = {}
  /\ \A q \in Queries : query[q] \in {"write", "served"} => view[q] # {}
  /\ \A q \in late : query[q] # "start"

CacheIsClean ==
  /\ CacheShape
  /\ ~announced => late = {}
  /\ announced => record.status = "active" /\ \E g \in 1..MaxGeneration : CleanSince(g)

CatalogIInv == CatalogTypeOK /\ Dealt /\ ActiveIsComplete /\ CacheIsClean

LEMMA PartsAreThere ==
  /\ Len(Parts) \in Nat
  /\ \A i \in 1..Len(Parts) : Parts[i] \in ToSet(Parts)
  /\ \A p \in ToSet(Parts) : \E i \in 1..Len(Parts) : p = Parts[i]
BY CatalogAssumption DEF ToSet

\* What a history of uploads loses and what is left of it.
LEMMA UndoOne ==
  ASSUME NEW S, NEW s \in Seq(S), s # <<>>
  PROVE  Last(s) \in S /\ Front(s) \in Seq(S)
BY DEF Last, Front

LEMMA CatalogStart ==
  ASSUME CatalogInit
  PROVE  CatalogIInv
<1> USE DEF CatalogInit
<1>1. CatalogTypeOK
  <2>1. 0 \in 0..Len(Parts) /\ 0 \in 0..MaxGeneration BY CatalogAssumption, PartsAreThere
  <2>2. record \in [status : {"absent", "draft", "active"}, sha : SUBSET Contents]
    BY DEF NoRecord
  <2>3. object \in [ToSet(Parts) -> SUBSET Contents] OBVIOUS
  <2>4. done \in [Commands -> 0..Len(Parts)] /\ put \in [Commands -> Seq(ToSet(Parts))]
    BY <2>1
  <2>5. entry \in [0..MaxGeneration -> SUBSET Answers] /\ view \in [Queries -> SUBSET Answers]
    OBVIOUS
  <2>6. QED BY <2>1, <2>2, <2>3, <2>4, <2>5 DEF CatalogTypeOK, NoRecord
<1>2. Dealt
  BY DEF Dealt, Waits, Holds
<1>3. ActiveIsComplete /\ CacheIsClean
  BY CatalogAssumption DEF ActiveIsComplete, CacheIsClean, CacheShape, NoRecord
<1>4. QED BY <1>1, <1>2, <1>3 DEF CatalogIInv

\* The digests of a record, and the parts a command has before it.
LEMMA CatalogRecords ==
  /\ NoRecord \in [status : {"absent", "draft", "active"}, sha : SUBSET Contents]
  /\ CleanDraft \in [status : {"absent", "draft", "active"}, sha : SUBSET Contents]
  /\ \A r \in Commands : \A status \in {"draft", "active"} :
       WithArtifacts(status, r) \in [status : {"absent", "draft", "active"}, sha : SUBSET Contents]
BY CatalogAssumption DEF NoRecord, CleanDraft, WithArtifacts

LEMMA PartIsThere ==
  ASSUME CatalogTypeOK, NEW r \in Commands, ~AllDealtWith(r)
  PROVE  /\ done[r] \in Nat /\ done[r] + 1 \in 1..Len(Parts) /\ Part(r) \in ToSet(Parts)
         /\ NextPart(r) => done' \in [Commands -> 0..Len(Parts)]
<1>1. done[r] \in 0..Len(Parts) BY DEF CatalogTypeOK
<1>2. done[r] + 1 \in 1..Len(Parts) BY <1>1, PartsAreThere DEF AllDealtWith
<1>3. Part(r) \in ToSet(Parts) BY <1>2, PartsAreThere DEF Part
<1>4. NextPart(r) => done' \in [Commands -> 0..Len(Parts)]
  <2>1. done[r] + 1 \in 0..Len(Parts) BY <1>2, PartsAreThere
  <2>2. done \in [Commands -> 0..Len(Parts)] BY DEF CatalogTypeOK
  <2>3. QED BY <2>1, <2>2 DEF NextPart
<1>5. QED BY <1>1, <1>2, <1>3, <1>4

LEMMA Creates ==
  ASSUME CatalogTypeOK, NEW r \in Commands, Part(r) \in ToSet(Parts), Created(r)
  PROVE  /\ object' \in [ToSet(Parts) -> SUBSET Contents]
         /\ object'[Part(r)] = {BytesOf[r]} /\ object[Part(r)] = {}
         /\ \A p \in ToSet(Parts) : p # Part(r) => object'[p] = object[p]
BY CatalogAssumption DEF CatalogTypeOK, Created

LEMMA Cleans ==
  ASSUME CatalogTypeOK, NEW r \in Commands, CleanUp(r), put[r] # <<>>
  PROVE  /\ object' \in [ToSet(Parts) -> SUBSET Contents]
         /\ put' \in [Commands -> Seq(ToSet(Parts))]
         /\ undone' = undone \cup {Last(put[r])} /\ Last(put[r]) \in ToSet(Parts)
         /\ \A p \in ToSet(Parts) : p # Last(put[r]) => object'[p] = object[p]
<1>1. put[r] \in Seq(ToSet(Parts)) BY DEF CatalogTypeOK
<1>2. Last(put[r]) \in ToSet(Parts) /\ Front(put[r]) \in Seq(ToSet(Parts)) BY <1>1, UndoOne
<1>3. QED BY <1>2 DEF CatalogTypeOK, CleanUp, Mine

\* What the runs of the commands do.
CommandStep(r) ==
  \/ BeginCommand(r) \/ Gives(r) \/ Dies(r) \/ Invalidate(r) \/ InvalidateUnheard(r)
  \/ CreateDraft(r)
  \/ ReadPart(r) \/ PutPart(r) \/ ConfirmPart(r) \/ ReadAgain(r) \/ ActivateVersion(r)
  \/ CheckPart(r) \/ UploadPart(r) \/ CreateVersion(r) \/ CleanUp(r)

RequestStep(q) == ReadGeneration(q) \/ ReadCache(q) \/ ReadCatalog(q) \/ WriteCache(q)

LEMMA CommandTypes ==
  ASSUME CatalogTypeOK, Waits, NEW r \in Commands, CommandStep(r)
  PROVE  CatalogTypeOK'
<1> USE CatalogAssumption DEF CatalogTypeOK, Goto, At, Document, Command, Cache, Request
<1>1. CASE BeginCommand(r) BY <1>1 DEF BeginCommand
<1>2. CASE Gives(r) BY <1>2 DEF Gives
<1>3. CASE Dies(r) BY <1>3 DEF Dies
<1>4. CASE Invalidate(r) BY <1>4 DEF Invalidate
<1>5. CASE InvalidateUnheard(r) BY <1>5 DEF InvalidateUnheard
<1>6. CASE CreateDraft(r)
  BY <1>6, CatalogRecords DEF CreateDraft, CleanDraft
<1>7. CASE ReadPart(r)
  BY <1>7, PartIsThere DEF ReadPart
<1>8. CASE PutPart(r)
  <2>1. Part(r) \in ToSet(Parts) \/ UNCHANGED object
    BY <1>8 DEF PutPart, Created
  <2>2. QED BY <1>8, <2>1, Creates DEF PutPart
<1>9. CASE ConfirmPart(r)
  <2>1. ~AllDealtWith(r) BY <1>9 DEF ConfirmPart, Waits
  <2>2. QED BY <1>9, <2>1, PartIsThere DEF ConfirmPart
<1>10. CASE ReadAgain(r) BY <1>10 DEF ReadAgain
<1>11. CASE ActivateVersion(r)
  <2>1. record' = record \/ record' = WithArtifacts("active", r)
    BY <1>11 DEF ActivateVersion, ActiveRecord
  <2>2. /\ record' \in [status : {"absent", "draft", "active"}, sha : SUBSET Contents]
        /\ record'.status = "active" => record'.sha # {}
    <3>1. CASE record' = record BY <3>1
    <3>2. ASSUME NEW status \in {"draft", "active"}, record' = WithArtifacts(status, r)
          PROVE  /\ record' \in [status : {"absent", "draft", "active"}, sha : SUBSET Contents]
                 /\ record'.sha # {}
      BY <3>2, CatalogRecords DEF WithArtifacts
    <3>3. QED BY <2>1, <3>1, <3>2
  <2>3. step' \in [Commands -> {"start", "create", "check", "artifacts", "upload", "confirm",
                           "activate", "cleanup", "invalidate", "succeeded", "failed"}]
    BY <1>11 DEF ActivateVersion
  <2>4. QED BY <1>11, <2>2, <2>3 DEF ActivateVersion
<1>12. CASE CheckPart(r)
  <2>1. step' \in [Commands -> {"start", "create", "check", "artifacts", "upload", "confirm",
                           "activate", "cleanup", "invalidate", "succeeded", "failed"}]
    BY <1>12 DEF CheckPart
  <2>2. 0 \in 0..Len(Parts) BY PartsAreThere
  <2>3. done' \in [Commands -> 0..Len(Parts)]
    <3>1. CASE AllDealtWith(r) BY <1>12, <2>2, <3>1 DEF CheckPart
    <3>2. CASE ~AllDealtWith(r) BY <1>12, <3>2, PartIsThere DEF CheckPart
    <3>3. QED BY <3>1, <3>2
  <2>4. QED BY <1>12, <2>1, <2>3 DEF CheckPart
<1>13. CASE UploadPart(r)
  <2>1. Part(r) \in ToSet(Parts) BY <1>13, PartIsThere DEF UploadPart
  <2>2. step' \in [Commands -> {"start", "create", "check", "artifacts", "upload", "confirm",
                           "activate", "cleanup", "invalidate", "succeeded", "failed"}]
    BY <1>13 DEF UploadPart
  <2>3. done' \in [Commands -> 0..Len(Parts)] BY <1>13, PartIsThere DEF UploadPart
  <2>4. put' \in [Commands -> Seq(ToSet(Parts))]
    <3>1. Append(put[r], Part(r)) \in Seq(ToSet(Parts)) BY <2>1
    <3>2. QED BY <1>13, <3>1 DEF UploadPart
  <2>5. object' \in [ToSet(Parts) -> SUBSET Contents] BY <1>13, <2>1, Creates DEF UploadPart
  <2>6. QED BY <1>13, <2>2, <2>3, <2>4, <2>5 DEF UploadPart
<1>14. CASE CreateVersion(r)
  <2>1. \/ record' = record
        \/ \E status \in {"draft", "active"} : record' = WithArtifacts(status, r)
    BY <1>14 DEF CreateVersion
  <2>2. /\ record' \in [status : {"absent", "draft", "active"}, sha : SUBSET Contents]
        /\ record'.status = "active" => record'.sha # {}
    <3>1. CASE record' = record BY <3>1
    <3>2. ASSUME NEW status \in {"draft", "active"}, record' = WithArtifacts(status, r)
          PROVE  /\ record' \in [status : {"absent", "draft", "active"}, sha : SUBSET Contents]
                 /\ record'.sha # {}
      BY <3>2, CatalogRecords DEF WithArtifacts
    <3>3. QED BY <2>1, <3>1, <3>2
  <2>3. step' \in [Commands -> {"start", "create", "check", "artifacts", "upload", "confirm",
                           "activate", "cleanup", "invalidate", "succeeded", "failed"}]
    BY <1>14 DEF CreateVersion
  <2>4. QED BY <1>14, <2>2, <2>3 DEF CreateVersion
<1>15. CASE CleanUp(r)
  <2>1. CASE put[r] = <<>> BY <1>15, <2>1 DEF CleanUp
  <2>2. CASE put[r] # <<>>
    <3>1. undone' \subseteq ToSet(Parts) BY <1>15, <2>2, Cleans
    <3>2. QED BY <1>15, <2>2, <3>1, Cleans DEF CleanUp
  <2>3. QED BY <2>1, <2>2
<1>16. QED
  BY <1>1, <1>2, <1>3, <1>4, <1>5, <1>6, <1>7, <1>8, <1>9, <1>10, <1>11, <1>12, <1>13, <1>14,
     <1>15 DEF CommandStep

LEMMA RequestTypes ==
  ASSUME CatalogTypeOK,
         \/ \E q \in Queries : RequestStep(q)
         \/ \E g \in 0..MaxGeneration : Expire(g)
  PROVE  CatalogTypeOK'
<1> USE CatalogAssumption DEF CatalogTypeOK, Document, Command, Cache, Request, Answers
<1>1. ASSUME NEW q \in Queries, ReadGeneration(q) PROVE CatalogTypeOK'
  <2>1. 0 \in 0..MaxGeneration OBVIOUS
  <2>2. asOf' \in [Queries -> 0..MaxGeneration] BY <1>1, <2>1 DEF ReadGeneration
  <2>3. query' \in [Queries -> {"start", "cache", "mongo", "write", "served"}]
    BY <1>1 DEF ReadGeneration
  <2>4. late' \subseteq Queries BY <1>1 DEF ReadGeneration
  <2>5. QED BY <1>1, <2>2, <2>3, <2>4 DEF ReadGeneration
<1>2. ASSUME NEW q \in Queries, ReadCache(q) PROVE CatalogTypeOK'
  BY <1>2 DEF ReadCache
<1>3. ASSUME NEW q \in Queries, ReadCatalog(q) PROVE CatalogTypeOK'
  BY <1>3 DEF ReadCatalog, CatalogAnswer
<1>4. ASSUME NEW q \in Queries, WriteCache(q) PROVE CatalogTypeOK'
  BY <1>4 DEF WriteCache, WrittenUnder
<1>5. ASSUME NEW g \in 0..MaxGeneration, Expire(g) PROVE CatalogTypeOK'
  BY <1>5 DEF Expire
<1>6. QED BY <1>1, <1>2, <1>3, <1>4, <1>5 DEF RequestStep

\* What a command has dealt with stays dealt with, whoever else writes the bucket.
LEMMA DealtStays ==
  ASSUME CatalogTypeOK, Dealt, NEW r \in Commands, CommandStep(r)
  PROVE  Dealt'
<1> DEFINE Kept(p, c) == object[p] = {c} \/ p \in undone
<1>1. ASSUME NEW p \in ToSet(Parts), NEW c \in Contents, Kept(p, c)
      PROVE  Kept(p, c)'
  <2>1. CASE UNCHANGED object /\ UNCHANGED undone BY <1>1, <2>1
  <2>2. CASE Created(r) /\ UNCHANGED undone
    BY <1>1, <2>2 DEF Created, CatalogTypeOK
  <2>3. CASE CleanUp(r) /\ put[r] # <<>> BY <1>1, <2>3, Cleans
  <2>4. CASE CleanUp(r) /\ put[r] = <<>> BY <1>1, <2>4 DEF CleanUp
  <2>5. QED
    BY <2>1, <2>2, <2>3, <2>4 DEF CommandStep, BeginCommand, Gives, Dies, Invalidate, Document,
       InvalidateUnheard, CreateDraft, ReadPart, PutPart, ConfirmPart, ReadAgain,
       ActivateVersion, CheckPart, UploadPart, CreateVersion
<1>2. ASSUME NEW s \in Commands, s # r PROVE step'[s] = step[s] /\ done'[s] = done[s]
  BY <1>2 DEF CommandStep, BeginCommand, Gives, Dies, Invalidate, Command, CatalogTypeOK, Goto,
     InvalidateUnheard, CreateDraft, ReadPart, PutPart, ConfirmPart, ReadAgain, NextPart,
     ActivateVersion, CheckPart, UploadPart, CreateVersion, CleanUp
<1>3. ASSUME NEW s \in Commands, s # r
      PROVE  /\ step'[s] = "start" => done'[s] = 0
             /\ step'[s] = "activate" => CommandOf[s] = "activate" /\ AllDealtWith(s)'
             /\ CommandOf[s] = "activate" /\ step'[s] \in {"upload", "confirm"} => ~AllDealtWith(s)'
             /\ Holds(s)' => \A i \in 1..done'[s] : Kept(Parts[i], BytesOf[s])'
  <2>1. done[s] \in 0..Len(Parts) /\ BytesOf[s] \in Contents
    BY CatalogAssumption DEF CatalogTypeOK
  <2>2. \A i \in 1..done[s] : Parts[i] \in ToSet(Parts) BY <2>1, PartsAreThere
  <2>3. Holds(s)' => Holds(s) BY <1>2, <1>3 DEF Holds
  <2>4. QED BY <1>1, <1>2, <1>3, <2>1, <2>2, <2>3 DEF Dealt, Waits, AllDealtWith
<1>4. /\ step'[r] = "start" => done'[r] = 0
      /\ step'[r] = "activate" => CommandOf[r] = "activate" /\ AllDealtWith(r)'
      /\ CommandOf[r] = "activate" /\ step'[r] \in {"upload", "confirm"} => ~AllDealtWith(r)'
      /\ Holds(r)' => \A i \in 1..done'[r] : Kept(Parts[i], BytesOf[r])'
  <2> USE DEF Goto, At, Holds, AllDealtWith
  <2>1. /\ done[r] \in 0..Len(Parts) /\ BytesOf[r] \in Contents
        /\ \A i \in 1..done[r] : Parts[i] \in ToSet(Parts)
        /\ step \in [Commands -> {"start", "create", "check", "artifacts", "upload", "confirm",
                           "activate", "cleanup", "invalidate", "succeeded", "failed"}]
        /\ done \in [Commands -> 0..Len(Parts)]
    BY PartsAreThere, CatalogAssumption DEF CatalogTypeOK
  <2>2. Holds(r) => \A i \in 1..done[r] : Kept(Parts[i], BytesOf[r])'
    BY <1>1, <2>1 DEF Dealt
  <2>3. step[r] = "start" => done[r] = 0 BY DEF Dealt
  <2>4. CASE \/ BeginCommand(r) \/ Gives(r) \/ Dies(r) \/ Invalidate(r) \/ InvalidateUnheard(r)
             \/ CreateDraft(r) \/ CleanUp(r) \/ CreateVersion(r) \/ ActivateVersion(r)
    <3>1. /\ done' = done
          /\ step'[r] \notin {"start", "activate", "upload", "confirm"}
          /\ step'[r] = "artifacts" => step[r] = "start" /\ CommandOf[r] = "activate"
      BY <2>1, <2>4, CatalogAssumption DEF BeginCommand, Gives, Dies, Invalidate,
         InvalidateUnheard, CreateDraft, CleanUp, CreateVersion, ActivateVersion, Command
    <3>2. QED BY <2>2, <3>1
  <2>5. CASE \/ PutPart(r) \/ ReadAgain(r)
    BY <2>1, <2>2, <2>5 DEF PutPart, ReadAgain, Dealt, Waits, Command
  <2>6. CASE ReadPart(r) \/ ConfirmPart(r)
    <3>1. ~AllDealtWith(r) BY <2>6 DEF ReadPart, ConfirmPart, Dealt, Waits
    <3>2. done[r] + 1 \in 1..Len(Parts) BY <3>1, PartIsThere
    <3>3. \/ /\ object[Part(r)] = {BytesOf[r]} /\ UNCHANGED object
             /\ done'[r] = done[r] + 1 /\ step'[r] = "artifacts"
          \/ done'[r] = done[r] /\ step'[r] \in {"upload", "failed"}
      BY <2>1, <2>6 DEF ReadPart, ConfirmPart, NextPart, Document
    <3>4. Holds(r) /\ CommandOf[r] = "activate" BY <2>6 DEF ReadPart, ConfirmPart
    <3>5. CASE /\ object[Part(r)] = {BytesOf[r]} /\ UNCHANGED object
               /\ done'[r] = done[r] + 1 /\ step'[r] = "artifacts"
      BY <2>1, <2>2, <3>2, <3>4, <3>5 DEF Part
    <3>6. CASE done'[r] = done[r] /\ step'[r] \in {"upload", "failed"}
      BY <2>2, <3>1, <3>4, <3>6
    <3>7. QED BY <3>3, <3>5, <3>6
  <2>7. CASE CheckPart(r)
    BY <2>1, <2>7 DEF CheckPart, NextPart
  <2>8. CASE UploadPart(r)
    <3>1. done[r] + 1 \in 1..Len(Parts) /\ Part(r) \in ToSet(Parts)
      BY <2>8, PartIsThere DEF UploadPart
    <3>2. \/ object'[Part(r)] = {BytesOf[r]} /\ done'[r] = done[r] + 1 /\ step'[r] = "upload"
          \/ step'[r] = "cleanup"
      BY <2>1, <2>8, <3>1, Creates DEF UploadPart, NextPart
    <3>3. QED BY <2>1, <2>2, <2>8, <3>1, <3>2 DEF UploadPart, Part
  <2>9. QED BY <2>4, <2>5, <2>6, <2>7, <2>8 DEF CommandStep
<1>5. QED BY <1>3, <1>4 DEF Dealt, Waits

\* An active document is never written again, and its artifacts stay as they are
\* unless their uploader takes them back.
LEMMA ActiveStays ==
  ASSUME CatalogTypeOK, Dealt, ActiveIsComplete, NEW r \in Commands, CommandStep(r)
  PROVE  ActiveIsComplete' /\ (record.status = "active" => UNCHANGED record)
<1>1. ASSUME record.status = "active" PROVE UNCHANGED record
  BY <1>1 DEF CommandStep, BeginCommand, Gives, Dies, Invalidate, Document, CreateDraft, NoRecord,
     InvalidateUnheard, ReadPart, PutPart, ConfirmPart, ReadAgain, DraftFound, CleanDraft,
     ActivateVersion, CheckPart, UploadPart, CreateVersion, CleanUp
<1>2. CASE record.status = "active"
  <2>1. \A p \in ToSet(Parts) \ undone : object[p] = record.sha /\ record.sha # {}
    BY <1>2 DEF ActiveIsComplete, CatalogTypeOK
  <2>2. CASE Created(r) /\ UNCHANGED undone
    <3>1. \A p \in ToSet(Parts) \ undone : object'[p] = object[p]
      BY <2>1, <2>2 DEF Created, CatalogTypeOK
    <3>2. QED BY <1>1, <1>2, <2>1, <2>2, <3>1 DEF ActiveIsComplete
  <2>3. CASE CleanUp(r) /\ put[r] # <<>>
    <3>1. \A p \in ToSet(Parts) \ undone' : p \notin undone /\ object'[p] = object[p]
      BY <2>3, Cleans
    <3>2. QED BY <1>1, <1>2, <2>1, <3>1 DEF ActiveIsComplete
  <2>4. CASE UNCHANGED <<object, undone>>
    BY <1>1, <1>2, <2>1, <2>4 DEF ActiveIsComplete
  <2>5. QED
    BY <2>2, <2>3, <2>4 DEF CommandStep, BeginCommand, Gives, Dies, Invalidate, Document,
       InvalidateUnheard, CreateDraft, ReadPart, PutPart, ConfirmPart, ReadAgain,
       ActivateVersion, CheckPart, UploadPart, CreateVersion, CleanUp
<1>3. CASE record.status # "active" /\ record'.status = "active"
  <2>1. /\ record' = WithArtifacts("active", r) /\ UNCHANGED <<object, undone>>
        /\ AllDealtWith(r) /\ Holds(r)
    BY <1>3 DEF CommandStep, BeginCommand, Gives, Dies, Invalidate, Document, CreateDraft,
       NoRecord, InvalidateUnheard, ReadPart, PutPart, ConfirmPart, ReadAgain, DraftFound,
       CleanDraft, ActivateVersion, CheckPart, UploadPart, CreateVersion, CleanUp, At, Holds,
       ActiveRecord, WithArtifacts, Dealt
  <2>2. \A i \in 1..Len(Parts) : object[Parts[i]] = {BytesOf[r]} \/ Parts[i] \in undone
    BY <2>1 DEF Dealt, AllDealtWith
  <2>3. \A p \in ToSet(Parts) \ undone : object[p] = {BytesOf[r]}
    BY <2>2, PartsAreThere
  <2>4. QED BY <1>3, <2>1, <2>3 DEF ActiveIsComplete, WithArtifacts
<1>4. QED BY <1>1, <1>2, <1>3 DEF ActiveIsComplete

\* What the commands do to the cache: an invalidation makes all of it old.
LEMMA CacheAged ==
  ASSUME CatalogTypeOK, CacheIsClean, NEW r \in Commands, CommandStep(r),
         record.status = "active" => UNCHANGED record
  PROVE  CacheIsClean'
<1> USE CatalogAssumption
<1>1. CASE UNCHANGED <<generation, entry, query, asOf, view, announced, late>>
  BY <1>1 DEF CacheIsClean, CacheShape, CleanSince
<1>2. CASE Invalidate(r)
  <2> USE DEF Invalidate, Document, Request
  <2>1. /\ generation \in Nat /\ generation' = generation + 1 /\ generation' \in 1..MaxGeneration
        /\ UNCHANGED <<entry, query, asOf, view, late, record>>
    BY <1>2 DEF CatalogTypeOK
  <2>2. asOf \in [Queries -> 0..MaxGeneration] /\ \A q \in Queries : asOf[q] <= generation
    BY DEF CacheIsClean, CacheShape, CatalogTypeOK
  <2>3. \A n \in 0..MaxGeneration : n > generation => entry[n] = {}
    BY DEF CacheIsClean, CacheShape
  <2>4. CacheShape'
    <3>1. \A q \in Queries : asOf'[q] <= generation' BY <2>1, <2>2
    <3>2. \A n \in 0..MaxGeneration : n > generation' => entry'[n] = {} BY <2>1, <2>3
    <3>3. QED BY <2>1, <3>1, <3>2 DEF CacheIsClean, CacheShape
  <2>5. CASE announced
    <3>1. PICK g \in 1..MaxGeneration : CleanSince(g) BY <2>5 DEF CacheIsClean
    <3>2. CleanSince(g)' BY <2>1, <3>1 DEF CleanSince
    <3>3. QED BY <1>2, <2>1, <2>4, <2>5, <3>2 DEF CacheIsClean
  <2>6. CASE ~announced
    <3>1. PICK g \in 1..MaxGeneration : g = generation' BY <2>1
    <3>2. \A n \in g..MaxGeneration : entry'[n] = {}
      BY <2>1, <2>3, <3>1
    <3>3. \A q \in Queries : ~(asOf'[q] >= g) BY <2>1, <2>2, <3>1
    <3>4. late' = {} BY <2>1, <2>6 DEF CacheIsClean
    <3>5. CleanSince(g)' BY <2>1, <3>1, <3>2, <3>3, <3>4 DEF CleanSince
    <3>6. announced' => record'.status = "active" BY <1>2, <2>1, <2>6
    <3>7. QED BY <2>4, <3>4, <3>5, <3>6 DEF CacheIsClean
  <2>7. QED BY <2>5, <2>6
<1>3. QED
  BY <1>1, <1>2 DEF CommandStep, BeginCommand, Gives, Dies, Cache, Request,
     InvalidateUnheard, CreateDraft, ReadPart, PutPart, ConfirmPart, ReadAgain,
     ActivateVersion, CheckPart, UploadPart, CreateVersion, CleanUp

\* What the requests do: they write under the generation they began with.
LEMMA CacheAsked ==
  ASSUME CatalogTypeOK, CacheIsClean,
         \/ \E q \in Queries : RequestStep(q)
         \/ \E g \in 0..MaxGeneration : Expire(g)
  PROVE  CacheIsClean'
<1> USE CatalogAssumption DEF Cache, Request, Document
<1> DEFINE Keeps == \A g \in 1..MaxGeneration :
                      record.status = "active" /\ CleanSince(g) => CleanSince(g)'
<1>1. SUFFICES ASSUME TRUE
               PROVE  /\ UNCHANGED <<record, announced>> /\ CacheShape' /\ Keeps
                      /\ ~announced => late' = {}
  BY DEF CacheIsClean
<1>2. /\ generation \in 0..MaxGeneration /\ entry \in [0..MaxGeneration -> SUBSET Answers]
      /\ asOf \in [Queries -> 0..MaxGeneration] /\ view \in [Queries -> SUBSET Answers]
      /\ query \in [Queries -> {"start", "cache", "mongo", "write", "served"}]
      /\ late \subseteq Queries
  BY DEF CatalogTypeOK
<1>3. CacheShape /\ (~announced => late = {}) BY DEF CacheIsClean
<1>4. ASSUME NEW q \in Queries, ReadGeneration(q)
      PROVE  /\ UNCHANGED <<record, announced>> /\ CacheShape' /\ Keeps
             /\ ~announced => late' = {}
  <2>1. /\ UNCHANGED <<record, announced, generation, entry, view>>
        /\ query' = [query EXCEPT ![q] = "cache"] /\ view[q] = {}
        /\ late' = late \/ (announced /\ late' = late \cup {q} /\ asOf'[q] = generation)
        /\ asOf'[q] \in {generation, 0}
        /\ \A p \in Queries \ {q} : asOf'[p] = asOf[p]
    BY <1>2, <1>3, <1>4 DEF ReadGeneration, CacheShape
  <2>2. q \in late' => q \in late \/ asOf'[q] = generation BY <2>1
  <2>3. CacheShape'
    <3>1. /\ \A p \in Queries : query'[p] = query[p] \/ (p = q /\ query'[p] = "cache")
          /\ \A p \in Queries : asOf'[p] = asOf[p] \/ (asOf'[p] \in {generation, 0})
      BY <1>2, <2>1
    <3>2. ASSUME NEW p \in Queries PROVE asOf'[p] <= generation'
      <4>1. 0 <= generation /\ generation <= generation /\ generation' = generation BY <1>2, <2>1
      <4>2. asOf[p] <= generation BY <1>3 DEF CacheShape
      <4>3. QED BY <3>1, <4>1, <4>2
    <3>3. \A p \in late' : query'[p] # "start" BY <1>2, <1>3, <2>1, <3>1 DEF CacheShape
    <3>4. /\ \A p \in Queries : query'[p] \in {"start", "cache", "mongo"} => view'[p] = {}
          /\ \A p \in Queries : query'[p] \in {"write", "served"} => view'[p] # {}
      BY <1>3, <2>1, <3>1 DEF CacheShape
    <3>5. QED BY <1>3, <2>1, <3>2, <3>3, <3>4 DEF CacheShape
  <2>4. ASSUME NEW g \in 1..MaxGeneration, CleanSince(g) PROVE CleanSince(g)'
    <3>1. q \notin late BY <1>3, <1>4 DEF ReadGeneration, CacheShape
    <3>2. g \in Nat /\ generation \in Nat /\ g <= generation /\ g \in 1..generation'
      BY <1>2, <2>1, <2>4 DEF CleanSince
    <3>3. \A n \in g..MaxGeneration : entry'[n] \subseteq {"listed"} BY <2>1, <2>4 DEF CleanSince
    <3>4. \A p \in Queries : asOf'[p] >= g => view'[p] \subseteq {"listed"}
      BY <2>1, <2>4 DEF CleanSince
    <3>5. \A p \in late : p # q /\ p \in Queries /\ asOf[p] >= g BY <1>2, <2>4, <3>1 DEF CleanSince
    <3>6. \A p \in late' : asOf'[p] >= g BY <2>1, <3>1, <3>2, <3>5
    <3>7. QED BY <3>2, <3>3, <3>4, <3>6 DEF CleanSince
  <2>5. QED BY <1>3, <2>1, <2>3, <2>4
<1>5. ASSUME NEW q \in Queries, ReadCache(q)
      PROVE  /\ UNCHANGED <<record, announced>> /\ CacheShape' /\ Keeps
             /\ ~announced => late' = {}
  <2>1. /\ UNCHANGED <<record, announced, generation, entry, asOf, late>>
        /\ \/ view'[q] = entry[asOf[q]] /\ view'[q] # {} /\ query'[q] = "served"
           \/ view'[q] = {} /\ query'[q] = "mongo"
        /\ \A p \in Queries \ {q} : view'[p] = view[p] /\ query'[p] = query[p]
    BY <1>2, <1>3, <1>5 DEF ReadCache, CacheShape
  <2>2. CacheShape' BY <1>2, <1>3, <2>1 DEF CacheShape
  <2>3. Keeps BY <1>2, <2>1 DEF CleanSince
  <2>4. QED BY <1>3, <2>1, <2>2, <2>3
<1>6. ASSUME NEW q \in Queries, ReadCatalog(q)
      PROVE  /\ UNCHANGED <<record, announced>> /\ CacheShape' /\ Keeps
             /\ ~announced => late' = {}
  <2>1. /\ UNCHANGED <<record, announced, generation, entry, asOf, late>>
        /\ view'[q] = {CatalogAnswer} /\ query'[q] = "write"
        /\ \A p \in Queries \ {q} : view'[p] = view[p] /\ query'[p] = query[p]
    BY <1>2, <1>6 DEF ReadCatalog
  <2>2. CacheShape' BY <1>2, <1>3, <2>1 DEF CacheShape
  <2>3. Keeps BY <1>2, <2>1 DEF CleanSince, CatalogAnswer
  <2>4. QED BY <1>3, <2>1, <2>2, <2>3
<1>7. ASSUME NEW q \in Queries, WriteCache(q)
      PROVE  /\ UNCHANGED <<record, announced>> /\ CacheShape' /\ Keeps
             /\ ~announced => late' = {}
  <2>1. /\ UNCHANGED <<record, announced, generation, asOf, late, view>>
        /\ query[q] = "write" /\ query'[q] = "served"
        /\ \A p \in Queries \ {q} : query'[p] = query[p]
        /\ entry' = entry \/ entry' = [entry EXCEPT ![asOf[q]] = view[q]]
    BY <1>2, <1>7 DEF WriteCache, WrittenUnder
  <2> asOf[q] \in 0..MaxGeneration /\ asOf[q] <= generation BY <1>2, <1>3 DEF CacheShape
  <2> \A n \in 0..MaxGeneration : entry'[n] = entry[n] \/ (n = asOf[q] /\ entry'[n] = view[q])
    BY <1>2, <2>1
  <2>2. CacheShape'
    <3>1. \A n \in 0..MaxGeneration : n > generation' => entry'[n] = {}
      BY <1>2, <1>3, <2>1 DEF CacheShape
    <3>2. QED BY <1>2, <1>3, <2>1, <3>1 DEF CacheShape
  <2>3. Keeps BY <1>2, <2>1 DEF CleanSince
  <2>4. QED BY <1>3, <2>1, <2>2, <2>3
<1>8. ASSUME NEW h \in 0..MaxGeneration, Expire(h)
      PROVE  /\ UNCHANGED <<record, announced>> /\ CacheShape' /\ Keeps
             /\ ~announced => late' = {}
  <2>1. /\ UNCHANGED <<record, announced, generation, query, asOf, view, late>>
        /\ \A n \in 0..MaxGeneration : entry'[n] = entry[n] \/ entry'[n] = {}
    BY <1>2, <1>8 DEF Expire
  <2>2. CacheShape' BY <1>2, <1>3, <2>1 DEF CacheShape
  <2>3. ASSUME NEW g \in 1..MaxGeneration, CleanSince(g) PROVE CleanSince(g)'
    <3>1. \A n \in g..MaxGeneration : n \in 0..MaxGeneration /\ entry[n] \subseteq {"listed"}
      BY <2>3 DEF CleanSince
    <3>2. \A n \in g..MaxGeneration : entry'[n] \subseteq {"listed"} BY <2>1, <3>1
    <3>3. QED BY <2>1, <2>3, <3>2 DEF CleanSince
  <2>4. QED BY <1>3, <2>1, <2>2, <2>3
<1>9. QED BY <1>4, <1>5, <1>6, <1>7, <1>8 DEF RequestStep

LEMMA CatalogStep ==
  ASSUME CatalogIInv, [CatalogNext]_catalogVars
  PROVE  CatalogIInv'
<1>1. ASSUME NEW r \in Commands, CommandStep(r) PROVE CatalogIInv'
  BY <1>1, CommandTypes, DealtStays, ActiveStays, CacheAged DEF CatalogIInv, Dealt
<1>2. ASSUME \/ \E q \in Queries : RequestStep(q)
             \/ \E g \in 0..MaxGeneration : Expire(g)
      PROVE  CatalogIInv'
  <2>1. UNCHANGED <<record, object, step, done, put, undone>>
    BY <1>2 DEF RequestStep, ReadGeneration, ReadCache, ReadCatalog, WriteCache, Expire,
       Document, Command
  <2>2. Dealt' /\ ActiveIsComplete'
    BY <2>1 DEF CatalogIInv, Dealt, Waits, Holds, AllDealtWith, ActiveIsComplete
  <2>3. QED BY <1>2, <2>2, RequestTypes, CacheAsked DEF CatalogIInv
<1>3. CASE UNCHANGED catalogVars
  <2>1. CatalogTypeOK' BY <1>3 DEF CatalogIInv, CatalogTypeOK, catalogVars
  <2>2. Dealt' /\ ActiveIsComplete'
    BY <1>3 DEF CatalogIInv, Dealt, Waits, Holds, AllDealtWith, ActiveIsComplete, catalogVars
  <2>3. CacheIsClean' BY <1>3 DEF CatalogIInv, CacheIsClean, CacheShape, CleanSince, catalogVars
  <2>4. QED BY <2>1, <2>2, <2>3 DEF CatalogIInv
<1>4. QED
  BY <1>1, <1>2, <1>3 DEF CatalogNext, CommandStep, RequestStep

\* The record, the bucket, the commands, the cache and the requests keep their shape.
THEOREM CatalogTypeCorrect == CatalogSpec => []CatalogTypeOK
<1>1. CatalogSpec => []CatalogIInv BY CatalogStart, CatalogStep, PTL DEF CatalogSpec
<1>2. CatalogIInv => CatalogTypeOK BY DEF CatalogIInv
<1>3. QED BY <1>1, <1>2, PTL

\* However many commands race, die or clean up, an active version has all its artifacts,
\* with the digest its document names, apart from those their uploader took back.
THEOREM ActiveVersionsAreComplete == CatalogSpec => []ActiveIsComplete
<1>1. CatalogSpec => []CatalogIInv BY CatalogStart, CatalogStep, PTL DEF CatalogSpec
<1>2. CatalogIInv => ActiveIsComplete BY DEF CatalogIInv
<1>3. QED BY <1>1, <1>2, PTL

\* A request that began after an invalidation was acknowledged for an active template
\* is never answered from an older catalog.
THEOREM AnnouncedIsFresh == CatalogSpec => []FreshOnceAnnounced
<1>1. CatalogSpec => []CatalogIInv BY CatalogStart, CatalogStep, PTL DEF CatalogSpec
<1>2. CatalogIInv => FreshOnceAnnounced
  BY DEF CatalogIInv, CacheIsClean, CacheShape, CleanSince, FreshOnceAnnounced, CatalogTypeOK
<1>3. QED BY <1>1, <1>2, PTL

-----------------------------------------------------------------------------
(* TemplatePreparation *)

\* Every edition read is one that was there, and the next one to be saved is a later one
EditionsGrow ==
  /\ manifest <= edits + 1
  /\ \A f \in Files : edition[f] <= edits + 1 /\ copied[f] <= edits + 1 /\ packed[f] <= edits + 1

BeforeWalk == {"manifest", "walk"}
BeforeBuild == BeforeWalk \cup {"category", "copy"}
BeforeServer == BeforeBuild \cup {"install", "installed", "build", "serve"}
InBrowser == {"listen", "ready", "qa"}

\* Only files on the list are copied and packed, one that is listed is a plain file, and the
\* manifest is one of them; all of them are copied before anything is built
OnTheList ==
  /\ sort[Manifest] = "file"
  /\ \A f \in Files : f \in listed => sort[f] = "file"
  /\ \A f \in Files : copied[f] # 0 \/ packed[f] # 0 => f \in listed
  /\ stand \in BeforeWalk => listed = {}
  /\ stand \notin BeforeWalk \cup {"finally", "over"} \/ outcome = "prepared" => Manifest \in listed
  /\ stand \notin BeforeBuild \cup {"finally", "over"} \/ outcome = "prepared" =>
       \A f \in listed : copied[f] # 0

\* The manifest is read once and nothing is packed before its stage; what is packed of a file
\* is what was copied of it, unless it was saved in between and so never is that edition again
SameEdition ==
  /\ stand = "manifest" => manifest = 0
  /\ stand \notin {"manifest", "finally", "over"} \/ outcome = "prepared" => manifest # 0
  /\ stand \notin {"pack", "finally", "over"} => \A f \in Files : packed[f] = 0
  /\ outcome = "prepared" => \A f \in listed : packed[f] # 0
  /\ \A f \in Files : copied[f] # 0 /\ packed[f] # 0 => packed[f] = copied[f] \/ edition[f] # copied[f]
  /\ manifest # 0 /\ packed[Manifest] # 0 => packed[Manifest] = manifest \/ edition[Manifest] # manifest

\* Where the install or the build stands
ProcessStands ==
  /\ stand \in BeforeBuild => process = "none"
  /\ stand \in {"install", "build"} => process = "alive"
  /\ stand \in {"installed", "serve", "pack"} \cup InBrowser \/ outcome = "prepared" => process = "ended"
  /\ stand \in {"finally", "over"} => process # "alive"

\* Where the preview server stands
ServerStands ==
  /\ stand \in BeforeServer => listener = "none" /\ sessions = 0
  /\ stand = "listen" => listener = "binding" /\ sessions = 0
  /\ stand \in {"ready", "qa"} => listener = "open" /\ sessions = 1
  /\ stand \in {"pack", "finally", "over"} =>
       sessions = 0 /\ listener \in {"none", "closed", "abandoned"}

\* What the browser said, and how publish() ended
Judged ==
  /\ stand = "pack" \/ outcome = "prepared" => report = "pass" /\ taken = Previews
  /\ outcome # "none" => stand \in {"finally", "over"}
  /\ stand = "over" => (root => outcome = "REMOVE_FAILED")

PreparationIInv ==
  /\ PreparationTypeOK /\ EditionsGrow /\ OnTheList /\ SameEdition
  /\ ProcessStands /\ ServerStands /\ Judged

LEMMA PreparationStart == PreparationInit => PreparationIInv
  BY PreparationAssumption
  DEF PreparationInit, Nothing, PreparationIInv, PreparationTypeOK, EditionsGrow, OnTheList, SameEdition,
      ProcessStands, ServerStands, Judged, Editions, BeforeWalk, BeforeBuild, BeforeServer, InBrowser

LEMMA PreparationStep == PreparationIInv /\ [PreparationNext]_preparationVars => PreparationIInv'
  <1> SUFFICES ASSUME PreparationIInv, [PreparationNext]_preparationVars PROVE PreparationIInv'
    OBVIOUS
  <1> USE PreparationAssumption DEF PreparationIInv
  <1>1. ASSUME NEW f \in Files, SaveFile(f) PROVE PreparationIInv'
    <2>1. PreparationTypeOK'
      BY <1>1
      DEF PreparationTypeOK, ServerStands, BeforeServer, Editions, PreparationErrors, SaveFile
    <2>2. EditionsGrow'
      BY <1>1 DEF EditionsGrow, PreparationTypeOK, Editions, SaveFile
    <2>3. OnTheList'
      BY <1>1 DEF OnTheList, PreparationTypeOK, BeforeWalk, BeforeBuild, Editions, SaveFile
    <2>4. SameEdition'
      BY <1>1
      DEF SameEdition, PreparationTypeOK, EditionsGrow, OnTheList, BeforeWalk, BeforeBuild,
          Editions, SaveFile
    <2>5. ProcessStands'
      BY <1>1
      DEF ProcessStands, PreparationTypeOK, Judged, BeforeWalk, BeforeBuild, InBrowser, SaveFile
    <2>6. ServerStands'
      BY <1>1 DEF ServerStands, PreparationTypeOK, BeforeWalk, BeforeBuild, BeforeServer, SaveFile
    <2>7. Judged'
      BY <1>1 DEF Judged, PreparationTypeOK, SaveFile
    <2> QED
      BY <2>1, <2>2, <2>3, <2>4, <2>5, <2>6, <2>7
  <1>2. ASSUME NEW f \in Files, CopyFile(f) PROVE PreparationIInv'
    <2>1. PreparationTypeOK'
      BY <1>2
      DEF PreparationTypeOK, ServerStands, BeforeServer, Editions, PreparationErrors, CopyFile
    <2>2. EditionsGrow'
      BY <1>2 DEF EditionsGrow, PreparationTypeOK, Editions, CopyFile
    <2>3. OnTheList'
      BY <1>2 DEF OnTheList, PreparationTypeOK, BeforeWalk, BeforeBuild, Editions, CopyFile
    <2>4. SameEdition'
      BY <1>2
      DEF SameEdition, PreparationTypeOK, EditionsGrow, OnTheList, BeforeWalk, BeforeBuild,
          Editions, CopyFile
    <2>5. ProcessStands'
      BY <1>2
      DEF ProcessStands, PreparationTypeOK, Judged, BeforeWalk, BeforeBuild, InBrowser, CopyFile
    <2>6. ServerStands'
      BY <1>2 DEF ServerStands, PreparationTypeOK, BeforeWalk, BeforeBuild, BeforeServer, CopyFile
    <2>7. Judged'
      BY <1>2 DEF Judged, PreparationTypeOK, CopyFile
    <2> QED
      BY <2>1, <2>2, <2>3, <2>4, <2>5, <2>6, <2>7
  <1>3. ASSUME NEW f \in Files, PackFile(f) PROVE PreparationIInv'
    <2>1. PreparationTypeOK'
      BY <1>3
      DEF PreparationTypeOK, ServerStands, BeforeServer, Editions, PreparationErrors, PackFile
    <2>2. EditionsGrow'
      BY <1>3 DEF EditionsGrow, PreparationTypeOK, Editions, PackFile
    <2>3. OnTheList'
      BY <1>3 DEF OnTheList, PreparationTypeOK, BeforeWalk, BeforeBuild, Editions, PackFile
    <2>4. SameEdition'
      BY <1>3
      DEF SameEdition, PreparationTypeOK, EditionsGrow, OnTheList, BeforeWalk, BeforeBuild,
          Editions, PackFile
    <2>5. ProcessStands'
      BY <1>3
      DEF ProcessStands, PreparationTypeOK, Judged, BeforeWalk, BeforeBuild, InBrowser, PackFile
    <2>6. ServerStands'
      BY <1>3 DEF ServerStands, PreparationTypeOK, BeforeWalk, BeforeBuild, BeforeServer, PackFile
    <2>7. Judged'
      BY <1>3 DEF Judged, PreparationTypeOK, PackFile
    <2> QED
      BY <2>1, <2>2, <2>3, <2>4, <2>5, <2>6, <2>7
  <1>4. CASE LoadManifest
    <2>1. PreparationTypeOK'
      BY <1>4
      DEF PreparationTypeOK, ServerStands, BeforeServer, Editions, PreparationErrors, LoadManifest,
          GoesTo, PublishThrows
    <2>2. EditionsGrow'
      BY <1>4 DEF EditionsGrow, PreparationTypeOK, Editions, LoadManifest, GoesTo, PublishThrows
    <2>3. OnTheList'
      BY <1>4
      DEF OnTheList, PreparationTypeOK, BeforeWalk, BeforeBuild, Editions, LoadManifest, GoesTo,
          PublishThrows
    <2>4. SameEdition'
      BY <1>4
      DEF SameEdition, PreparationTypeOK, EditionsGrow, OnTheList, BeforeWalk, BeforeBuild,
          Editions, LoadManifest, GoesTo, PublishThrows
    <2>5. ProcessStands'
      BY <1>4
      DEF ProcessStands, PreparationTypeOK, Judged, BeforeWalk, BeforeBuild, InBrowser,
          LoadManifest, GoesTo, PublishThrows
    <2>6. ServerStands'
      BY <1>4
      DEF ServerStands, PreparationTypeOK, BeforeWalk, BeforeBuild, BeforeServer, LoadManifest,
          GoesTo, PublishThrows
    <2>7. Judged'
      BY <1>4 DEF Judged, PreparationTypeOK, LoadManifest, GoesTo, PublishThrows
    <2> QED
      BY <2>1, <2>2, <2>3, <2>4, <2>5, <2>6, <2>7
  <1>5. CASE Walk
    <2>1. PreparationTypeOK'
      BY <1>5
      DEF PreparationTypeOK, ServerStands, BeforeServer, Editions, PreparationErrors, Walk,
          Packable, GoesTo, PublishThrows
    <2>2. EditionsGrow'
      BY <1>5 DEF EditionsGrow, PreparationTypeOK, Editions, Walk, Packable, GoesTo, PublishThrows
    <2>3. OnTheList'
      BY <1>5
      DEF OnTheList, PreparationTypeOK, BeforeWalk, BeforeBuild, Editions, Walk, Packable, GoesTo,
          PublishThrows
    <2>4. SameEdition'
      BY <1>5
      DEF SameEdition, PreparationTypeOK, EditionsGrow, OnTheList, BeforeWalk, BeforeBuild,
          Editions, Walk, Packable, GoesTo, PublishThrows
    <2>5. ProcessStands'
      BY <1>5
      DEF ProcessStands, PreparationTypeOK, Judged, BeforeWalk, BeforeBuild, InBrowser, Walk,
          Packable, GoesTo, PublishThrows
    <2>6. ServerStands'
      BY <1>5
      DEF ServerStands, PreparationTypeOK, BeforeWalk, BeforeBuild, BeforeServer, Walk, Packable,
          GoesTo, PublishThrows
    <2>7. Judged'
      BY <1>5 DEF Judged, PreparationTypeOK, Walk, Packable, GoesTo, PublishThrows
    <2> QED
      BY <2>1, <2>2, <2>3, <2>4, <2>5, <2>6, <2>7
  <1>6. CASE CheckCategory
    <2>1. PreparationTypeOK'
      BY <1>6
      DEF PreparationTypeOK, ServerStands, BeforeServer, Editions, PreparationErrors, CheckCategory,
          GoesTo, PublishThrows
    <2>2. EditionsGrow'
      BY <1>6 DEF EditionsGrow, PreparationTypeOK, Editions, CheckCategory, GoesTo, PublishThrows
    <2>3. OnTheList'
      BY <1>6
      DEF OnTheList, PreparationTypeOK, BeforeWalk, BeforeBuild, Editions, CheckCategory, GoesTo,
          PublishThrows
    <2>4. SameEdition'
      BY <1>6
      DEF SameEdition, PreparationTypeOK, EditionsGrow, OnTheList, BeforeWalk, BeforeBuild,
          Editions, CheckCategory, GoesTo, PublishThrows
    <2>5. ProcessStands'
      BY <1>6
      DEF ProcessStands, PreparationTypeOK, Judged, BeforeWalk, BeforeBuild, InBrowser,
          CheckCategory, GoesTo, PublishThrows
    <2>6. ServerStands'
      BY <1>6
      DEF ServerStands, PreparationTypeOK, BeforeWalk, BeforeBuild, BeforeServer, CheckCategory,
          GoesTo, PublishThrows
    <2>7. Judged'
      BY <1>6 DEF Judged, PreparationTypeOK, CheckCategory, GoesTo, PublishThrows
    <2> QED
      BY <2>1, <2>2, <2>3, <2>4, <2>5, <2>6, <2>7
  <1>7. CASE CopyFails
    <2>1. PreparationTypeOK'
      BY <1>7
      DEF PreparationTypeOK, ServerStands, BeforeServer, Editions, PreparationErrors, CopyFails,
          PublishThrows
    <2>2. EditionsGrow'
      BY <1>7 DEF EditionsGrow, PreparationTypeOK, Editions, CopyFails, PublishThrows
    <2>3. OnTheList'
      BY <1>7
      DEF OnTheList, PreparationTypeOK, BeforeWalk, BeforeBuild, Editions, CopyFails, PublishThrows
    <2>4. SameEdition'
      BY <1>7
      DEF SameEdition, PreparationTypeOK, EditionsGrow, OnTheList, BeforeWalk, BeforeBuild,
          Editions, CopyFails, PublishThrows
    <2>5. ProcessStands'
      BY <1>7
      DEF ProcessStands, PreparationTypeOK, Judged, BeforeWalk, BeforeBuild, InBrowser, CopyFails,
          PublishThrows
    <2>6. ServerStands'
      BY <1>7
      DEF ServerStands, PreparationTypeOK, BeforeWalk, BeforeBuild, BeforeServer, CopyFails,
          PublishThrows
    <2>7. Judged'
      BY <1>7 DEF Judged, PreparationTypeOK, CopyFails, PublishThrows
    <2> QED
      BY <2>1, <2>2, <2>3, <2>4, <2>5, <2>6, <2>7
  <1>8. CASE StartProcess("copy", "install")
    <2>1. PreparationTypeOK'
      BY <1>8
      DEF PreparationTypeOK, ServerStands, BeforeServer, Editions, PreparationErrors, StartProcess,
          GoesTo, PublishThrows
    <2>2. EditionsGrow'
      BY <1>8 DEF EditionsGrow, PreparationTypeOK, Editions, StartProcess, GoesTo, PublishThrows
    <2>3. OnTheList'
      BY <1>8
      DEF OnTheList, PreparationTypeOK, BeforeWalk, BeforeBuild, Editions, StartProcess, GoesTo,
          PublishThrows
    <2>4. SameEdition'
      BY <1>8
      DEF SameEdition, PreparationTypeOK, EditionsGrow, OnTheList, BeforeWalk, BeforeBuild,
          Editions, StartProcess, GoesTo, PublishThrows
    <2>5. ProcessStands'
      BY <1>8
      DEF ProcessStands, PreparationTypeOK, Judged, BeforeWalk, BeforeBuild, InBrowser,
          StartProcess, GoesTo, PublishThrows
    <2>6. ServerStands'
      BY <1>8
      DEF ServerStands, PreparationTypeOK, BeforeWalk, BeforeBuild, BeforeServer, StartProcess,
          GoesTo, PublishThrows
    <2>7. Judged'
      BY <1>8 DEF Judged, PreparationTypeOK, StartProcess, GoesTo, PublishThrows
    <2> QED
      BY <2>1, <2>2, <2>3, <2>4, <2>5, <2>6, <2>7
  <1>9. CASE ProcessEnds("install", "installed")
    <2>1. PreparationTypeOK'
      BY <1>9
      DEF PreparationTypeOK, ServerStands, BeforeServer, Editions, PreparationErrors, ProcessEnds,
          GoesTo, PublishThrows
    <2>2. EditionsGrow'
      BY <1>9 DEF EditionsGrow, PreparationTypeOK, Editions, ProcessEnds, GoesTo, PublishThrows
    <2>3. OnTheList'
      BY <1>9
      DEF OnTheList, PreparationTypeOK, BeforeWalk, BeforeBuild, Editions, ProcessEnds, GoesTo,
          PublishThrows
    <2>4. SameEdition'
      BY <1>9
      DEF SameEdition, PreparationTypeOK, EditionsGrow, OnTheList, BeforeWalk, BeforeBuild,
          Editions, ProcessEnds, GoesTo, PublishThrows
    <2>5. ProcessStands'
      BY <1>9
      DEF ProcessStands, PreparationTypeOK, Judged, BeforeWalk, BeforeBuild, InBrowser, ProcessEnds,
          GoesTo, PublishThrows
    <2>6. ServerStands'
      BY <1>9
      DEF ServerStands, PreparationTypeOK, BeforeWalk, BeforeBuild, BeforeServer, ProcessEnds,
          GoesTo, PublishThrows
    <2>7. Judged'
      BY <1>9 DEF Judged, PreparationTypeOK, ProcessEnds, GoesTo, PublishThrows
    <2> QED
      BY <2>1, <2>2, <2>3, <2>4, <2>5, <2>6, <2>7
  <1>10. CASE StartProcess("installed", "build")
    <2>1. PreparationTypeOK'
      BY <1>10
      DEF PreparationTypeOK, ServerStands, BeforeServer, Editions, PreparationErrors, StartProcess,
          GoesTo, PublishThrows
    <2>2. EditionsGrow'
      BY <1>10 DEF EditionsGrow, PreparationTypeOK, Editions, StartProcess, GoesTo, PublishThrows
    <2>3. OnTheList'
      BY <1>10
      DEF OnTheList, PreparationTypeOK, BeforeWalk, BeforeBuild, Editions, StartProcess, GoesTo,
          PublishThrows
    <2>4. SameEdition'
      BY <1>10
      DEF SameEdition, PreparationTypeOK, EditionsGrow, OnTheList, BeforeWalk, BeforeBuild,
          Editions, StartProcess, GoesTo, PublishThrows
    <2>5. ProcessStands'
      BY <1>10
      DEF ProcessStands, PreparationTypeOK, Judged, BeforeWalk, BeforeBuild, InBrowser,
          StartProcess, GoesTo, PublishThrows
    <2>6. ServerStands'
      BY <1>10
      DEF ServerStands, PreparationTypeOK, BeforeWalk, BeforeBuild, BeforeServer, StartProcess,
          GoesTo, PublishThrows
    <2>7. Judged'
      BY <1>10 DEF Judged, PreparationTypeOK, StartProcess, GoesTo, PublishThrows
    <2> QED
      BY <2>1, <2>2, <2>3, <2>4, <2>5, <2>6, <2>7
  <1>11. CASE ProcessEnds("build", "serve")
    <2>1. PreparationTypeOK'
      BY <1>11
      DEF PreparationTypeOK, ServerStands, BeforeServer, Editions, PreparationErrors, ProcessEnds,
          GoesTo, PublishThrows
    <2>2. EditionsGrow'
      BY <1>11 DEF EditionsGrow, PreparationTypeOK, Editions, ProcessEnds, GoesTo, PublishThrows
    <2>3. OnTheList'
      BY <1>11
      DEF OnTheList, PreparationTypeOK, BeforeWalk, BeforeBuild, Editions, ProcessEnds, GoesTo,
          PublishThrows
    <2>4. SameEdition'
      BY <1>11
      DEF SameEdition, PreparationTypeOK, EditionsGrow, OnTheList, BeforeWalk, BeforeBuild,
          Editions, ProcessEnds, GoesTo, PublishThrows
    <2>5. ProcessStands'
      BY <1>11
      DEF ProcessStands, PreparationTypeOK, Judged, BeforeWalk, BeforeBuild, InBrowser, ProcessEnds,
          GoesTo, PublishThrows
    <2>6. ServerStands'
      BY <1>11
      DEF ServerStands, PreparationTypeOK, BeforeWalk, BeforeBuild, BeforeServer, ProcessEnds,
          GoesTo, PublishThrows
    <2>7. Judged'
      BY <1>11 DEF Judged, PreparationTypeOK, ProcessEnds, GoesTo, PublishThrows
    <2> QED
      BY <2>1, <2>2, <2>3, <2>4, <2>5, <2>6, <2>7
  <1>12. CASE Listen
    <2>1. PreparationTypeOK'
      BY <1>12
      DEF PreparationTypeOK, ServerStands, BeforeServer, Editions, PreparationErrors, Listen,
          GoesTo, PublishThrows
    <2>2. EditionsGrow'
      BY <1>12 DEF EditionsGrow, PreparationTypeOK, Editions, Listen, GoesTo, PublishThrows
    <2>3. OnTheList'
      BY <1>12
      DEF OnTheList, PreparationTypeOK, BeforeWalk, BeforeBuild, Editions, Listen, GoesTo,
          PublishThrows
    <2>4. SameEdition'
      BY <1>12
      DEF SameEdition, PreparationTypeOK, EditionsGrow, OnTheList, BeforeWalk, BeforeBuild,
          Editions, Listen, GoesTo, PublishThrows
    <2>5. ProcessStands'
      BY <1>12
      DEF ProcessStands, PreparationTypeOK, Judged, BeforeWalk, BeforeBuild, InBrowser, Listen,
          GoesTo, PublishThrows
    <2>6. ServerStands'
      BY <1>12
      DEF ServerStands, PreparationTypeOK, BeforeWalk, BeforeBuild, BeforeServer, Listen, GoesTo,
          PublishThrows
    <2>7. Judged'
      BY <1>12 DEF Judged, PreparationTypeOK, Listen, GoesTo, PublishThrows
    <2> QED
      BY <2>1, <2>2, <2>3, <2>4, <2>5, <2>6, <2>7
  <1>13. CASE ListenTimesOut
    <2>1. PreparationTypeOK'
      BY <1>13
      DEF PreparationTypeOK, ServerStands, BeforeServer, Editions, PreparationErrors,
          ListenTimesOut, Closed, PublishThrows
    <2>2. EditionsGrow'
      BY <1>13 DEF EditionsGrow, PreparationTypeOK, Editions, ListenTimesOut, Closed, PublishThrows
    <2>3. OnTheList'
      BY <1>13
      DEF OnTheList, PreparationTypeOK, BeforeWalk, BeforeBuild, Editions, ListenTimesOut, Closed,
          PublishThrows
    <2>4. SameEdition'
      BY <1>13
      DEF SameEdition, PreparationTypeOK, EditionsGrow, OnTheList, BeforeWalk, BeforeBuild,
          Editions, ListenTimesOut, Closed, PublishThrows
    <2>5. ProcessStands'
      BY <1>13
      DEF ProcessStands, PreparationTypeOK, Judged, BeforeWalk, BeforeBuild, InBrowser,
          ListenTimesOut, Closed, PublishThrows
    <2>6. ServerStands'
      BY <1>13
      DEF ServerStands, PreparationTypeOK, BeforeWalk, BeforeBuild, BeforeServer, ListenTimesOut,
          Closed, PublishThrows
    <2>7. Judged'
      BY <1>13 DEF Judged, PreparationTypeOK, ListenTimesOut, Closed, PublishThrows
    <2> QED
      BY <2>1, <2>2, <2>3, <2>4, <2>5, <2>6, <2>7
  <1>14. CASE Bound
    <2>1. PreparationTypeOK'
      BY <1>14
      DEF PreparationTypeOK, ServerStands, BeforeServer, Editions, PreparationErrors, Bound, GoesTo
    <2>2. EditionsGrow'
      BY <1>14 DEF EditionsGrow, PreparationTypeOK, Editions, Bound, GoesTo
    <2>3. OnTheList'
      BY <1>14 DEF OnTheList, PreparationTypeOK, BeforeWalk, BeforeBuild, Editions, Bound, GoesTo
    <2>4. SameEdition'
      BY <1>14
      DEF SameEdition, PreparationTypeOK, EditionsGrow, OnTheList, BeforeWalk, BeforeBuild,
          Editions, Bound, GoesTo
    <2>5. ProcessStands'
      BY <1>14
      DEF ProcessStands, PreparationTypeOK, Judged, BeforeWalk, BeforeBuild, InBrowser, Bound,
          GoesTo
    <2>6. ServerStands'
      BY <1>14
      DEF ServerStands, PreparationTypeOK, BeforeWalk, BeforeBuild, BeforeServer, Bound, GoesTo
    <2>7. Judged'
      BY <1>14 DEF Judged, PreparationTypeOK, Bound, GoesTo
    <2> QED
      BY <2>1, <2>2, <2>3, <2>4, <2>5, <2>6, <2>7
  <1>15. CASE Ready
    <2>1. PreparationTypeOK'
      BY <1>15
      DEF PreparationTypeOK, ServerStands, BeforeServer, Editions, PreparationErrors, Ready, Closed,
          GoesTo, PublishThrows
    <2>2. EditionsGrow'
      BY <1>15 DEF EditionsGrow, PreparationTypeOK, Editions, Ready, Closed, GoesTo, PublishThrows
    <2>3. OnTheList'
      BY <1>15
      DEF OnTheList, PreparationTypeOK, BeforeWalk, BeforeBuild, Editions, Ready, Closed, GoesTo,
          PublishThrows
    <2>4. SameEdition'
      BY <1>15
      DEF SameEdition, PreparationTypeOK, EditionsGrow, OnTheList, BeforeWalk, BeforeBuild,
          Editions, Ready, Closed, GoesTo, PublishThrows
    <2>5. ProcessStands'
      BY <1>15
      DEF ProcessStands, PreparationTypeOK, Judged, BeforeWalk, BeforeBuild, InBrowser, Ready,
          Closed, GoesTo, PublishThrows
    <2>6. ServerStands'
      BY <1>15
      DEF ServerStands, PreparationTypeOK, BeforeWalk, BeforeBuild, BeforeServer, Ready, Closed,
          GoesTo, PublishThrows
    <2>7. Judged'
      BY <1>15 DEF Judged, PreparationTypeOK, Ready, Closed, GoesTo, PublishThrows
    <2> QED
      BY <2>1, <2>2, <2>3, <2>4, <2>5, <2>6, <2>7
  <1>16. CASE RunnerReturns
    <2>1. PreparationTypeOK'
      BY <1>16
      DEF PreparationTypeOK, ServerStands, BeforeServer, Editions, PreparationErrors, RunnerReturns,
          Verdict, Closed, GoesTo, PublishThrows
    <2>2. EditionsGrow'
      BY <1>16
      DEF EditionsGrow, PreparationTypeOK, Editions, RunnerReturns, Verdict, Closed, GoesTo,
          PublishThrows
    <2>3. OnTheList'
      BY <1>16
      DEF OnTheList, PreparationTypeOK, BeforeWalk, BeforeBuild, Editions, RunnerReturns, Verdict,
          Closed, GoesTo, PublishThrows
    <2>4. SameEdition'
      BY <1>16
      DEF SameEdition, PreparationTypeOK, EditionsGrow, OnTheList, BeforeWalk, BeforeBuild,
          Editions, RunnerReturns, Verdict, Closed, GoesTo, PublishThrows
    <2>5. ProcessStands'
      BY <1>16
      DEF ProcessStands, PreparationTypeOK, Judged, BeforeWalk, BeforeBuild, InBrowser,
          RunnerReturns, Verdict, Closed, GoesTo, PublishThrows
    <2>6. ServerStands'
      BY <1>16
      DEF ServerStands, PreparationTypeOK, BeforeWalk, BeforeBuild, BeforeServer, RunnerReturns,
          Verdict, Closed, GoesTo, PublishThrows
    <2>7. Judged'
      BY <1>16 DEF Judged, PreparationTypeOK, RunnerReturns, Verdict, Closed, GoesTo, PublishThrows
    <2> QED
      BY <2>1, <2>2, <2>3, <2>4, <2>5, <2>6, <2>7
  <1>17. ASSUME NEW p \in Previews, Capture(p) PROVE PreparationIInv'
    <2>1. PreparationTypeOK'
      BY <1>17
      DEF PreparationTypeOK, ServerStands, BeforeServer, Editions, PreparationErrors, Capture
    <2>2. EditionsGrow'
      BY <1>17 DEF EditionsGrow, PreparationTypeOK, Editions, Capture
    <2>3. OnTheList'
      BY <1>17 DEF OnTheList, PreparationTypeOK, BeforeWalk, BeforeBuild, Editions, Capture
    <2>4. SameEdition'
      BY <1>17
      DEF SameEdition, PreparationTypeOK, EditionsGrow, OnTheList, BeforeWalk, BeforeBuild,
          Editions, Capture
    <2>5. ProcessStands'
      BY <1>17
      DEF ProcessStands, PreparationTypeOK, Judged, BeforeWalk, BeforeBuild, InBrowser, Capture
    <2>6. ServerStands'
      BY <1>17 DEF ServerStands, PreparationTypeOK, BeforeWalk, BeforeBuild, BeforeServer, Capture
    <2>7. Judged'
      BY <1>17 DEF Judged, PreparationTypeOK, Capture
    <2> QED
      BY <2>1, <2>2, <2>3, <2>4, <2>5, <2>6, <2>7
  <1>18. CASE Prepared
    <2>1. PreparationTypeOK'
      BY <1>18
      DEF PreparationTypeOK, ServerStands, BeforeServer, Editions, PreparationErrors, Prepared
    <2>2. EditionsGrow'
      BY <1>18 DEF EditionsGrow, PreparationTypeOK, Editions, Prepared
    <2>3. OnTheList'
      BY <1>18 DEF OnTheList, PreparationTypeOK, BeforeWalk, BeforeBuild, Editions, Prepared
    <2>4. SameEdition'
      BY <1>18
      DEF SameEdition, PreparationTypeOK, EditionsGrow, OnTheList, BeforeWalk, BeforeBuild,
          Editions, Prepared
    <2>5. ProcessStands'
      BY <1>18
      DEF ProcessStands, PreparationTypeOK, Judged, BeforeWalk, BeforeBuild, InBrowser, Prepared
    <2>6. ServerStands'
      BY <1>18 DEF ServerStands, PreparationTypeOK, BeforeWalk, BeforeBuild, BeforeServer, Prepared
    <2>7. Judged'
      BY <1>18 DEF Judged, PreparationTypeOK, Prepared
    <2> QED
      BY <2>1, <2>2, <2>3, <2>4, <2>5, <2>6, <2>7
  <1>19. CASE RemoveRoot
    <2>1. PreparationTypeOK'
      BY <1>19
      DEF PreparationTypeOK, ServerStands, BeforeServer, Editions, PreparationErrors, RemoveRoot,
          RemovalFailed
    <2>2. EditionsGrow'
      BY <1>19 DEF EditionsGrow, PreparationTypeOK, Editions, RemoveRoot, RemovalFailed
    <2>3. OnTheList'
      BY <1>19 DEF OnTheList, PreparationTypeOK, BeforeWalk, BeforeBuild, Editions, RemoveRoot, RemovalFailed
    <2>4. SameEdition'
      BY <1>19
      DEF SameEdition, PreparationTypeOK, EditionsGrow, OnTheList, BeforeWalk, BeforeBuild,
          Editions, RemoveRoot, RemovalFailed
    <2>5. ProcessStands'
      BY <1>19
      DEF ProcessStands, PreparationTypeOK, Judged, BeforeWalk, BeforeBuild, InBrowser, RemoveRoot, RemovalFailed
    <2>6. ServerStands'
      BY <1>19
      DEF ServerStands, PreparationTypeOK, BeforeWalk, BeforeBuild, BeforeServer, RemoveRoot, RemovalFailed
    <2>7. Judged'
      BY <1>19 DEF Judged, PreparationTypeOK, RemoveRoot, RemovalFailed
    <2> QED
      BY <2>1, <2>2, <2>3, <2>4, <2>5, <2>6, <2>7
  <1>20. CASE UNCHANGED preparationVars
    BY <1>20
    DEF preparationVars, PreparationTypeOK, EditionsGrow, OnTheList, SameEdition, ProcessStands,
        ServerStands, Judged
  <1> QED
    BY <1>1, <1>2, <1>3, <1>4, <1>5, <1>6, <1>7, <1>8, <1>9, <1>10, <1>11, <1>12, <1>13, <1>14, <1>15, <1>16, <1>17, <1>18, <1>19, <1>20
    DEF PreparationNext

LEMMA PreparationHolds == PreparationIInv => PreparedIsTested /\ NothingLeftBehind
  <1> SUFFICES ASSUME PreparationIInv PROVE PreparedIsTested /\ NothingLeftBehind
    OBVIOUS
  <1> USE PreparationAssumption DEF PreparationIInv
  <1>1. PreparedIsTested
    BY DEF PreparedIsTested, PreparationTypeOK, OnTheList, SameEdition, ProcessStands, Judged
  <1>2. NothingLeftBehind
    BY DEF NothingLeftBehind, PreparationTypeOK, ProcessStands, ServerStands, Judged
  <1> QED
    BY <1>1, <1>2

-----------------------------------------------------------------------------
(* TemplateInstantiation *)

Early == {"resolve", "unpack", "environment", "files", "install", "build", "preview", "qa",
          "snapshot", "report", "build_artifact", "project"}
Stages == Guarded \cup {"resolve", "erase", "tidy", "destroy", "adopt", "refused", "over"}

\* Before the project is saved there is nothing of the site that its owner could delete
NothingSaved(i) == stage[i] \in Early => project[i] = "none" /\ ~ownerLeft[i] /\ ~failure[i]
\* A call that has not failed leaves nothing out of what it stored
InStore(i) ==
  /\ stage[i] = "resolve" => stored[i] = {}
  /\ stage[i] = "report" => Storing["snapshot"] \subseteq stored[i]
  /\ stage[i] = "build_artifact" => (Storing["snapshot"] \cup Storing["report"]) \subseteq stored[i]
  /\ stage[i] = "project" => stored[i] = Artifacts
  /\ ~failure[i] /\ stage[i] \in {"commit", "tidy", "adopt", "over"} => stored[i] = Artifacts \/ ownerLeft[i]
\* The row of the project, by where the call stands
InRow(i) ==
  /\ ownerLeft[i] => project[i] = "deleted"
  /\ stage[i] = "commit" => ~failure[i] /\ (project[i] = "draft" \/ ownerLeft[i])
  /\ ~failure[i] /\ stage[i] \in {"tidy", "adopt", "over"} => project[i] = "active" \/ ownerLeft[i]
\* What a call that failed has undone, unless its directory could not be removed
Undone(i) ==
  /\ stage[i] \in {"erase", "destroy", "refused"} => failure[i]
  /\ failure[i] /\ stage[i] \in {"tidy", "destroy", "over"} =>
       \/ /\ project[i] \in {"none", "deleted"} \/ "project" \in spared[i]
          /\ stored[i] = {} \/ "artifacts" \in spared[i]
       \/ /\ stage[i] = "over" /\ scratch[i]
          /\ \/ ownerLeft[i] /\ project[i] = "deleted"
             \/ /\ ~ownerLeft[i] /\ project[i] = "active" /\ stored[i] = Artifacts
                /\ environment[i] = "previewing"
\* The environment and the directory
Housed(i) ==
  /\ stage[i] \in {"resolve", "unpack", "environment"} => environment[i] = "none"
  /\ ~failure[i] /\ stage[i] \in {"qa", "snapshot", "report", "build_artifact", "project", "commit",
                                 "tidy", "adopt"} => environment[i] = "previewing"
  /\ stage[i] # "over" => ~adopted[i]
  /\ stage[i] = "adopt" => ~failure[i]
  /\ stage[i] \in {"resolve", "adopt", "refused", "destroy"} => ~scratch[i]
  /\ stage[i] \in Guarded \cup {"erase", "tidy"} => scratch[i]
  /\ stage[i] = "over" =>
       IF failure[i] THEN /\ environment[i] \in {"none", "gone"} \/ "environment" \in spared[i]
                            \/ scratch[i]
                          /\ ~adopted[i]
       ELSE (environment[i] = "previewing" \/ ownerLeft[i]) /\ adopted[i] /\ ~scratch[i]

CallSound(i) == NothingSaved(i) /\ InStore(i) /\ InRow(i) /\ Undone(i) /\ Housed(i)
InstantiationIInv == InstantiationTypeOK /\ \A i \in Instantiations : CallSound(i)

LEMMA InstantiationStart == InstantiationInit => InstantiationIInv
  <1> SUFFICES ASSUME InstantiationInit PROVE InstantiationIInv
    OBVIOUS
  <1>1. InstantiationTypeOK
    BY DEF InstantiationInit, InstantiationTypeOK, Guarded
  <1>2. ASSUME NEW i \in Instantiations PROVE CallSound(i)
    BY DEF InstantiationInit, CallSound, NothingSaved, InStore, InRow, Undone, Housed, Guarded
  <1> QED
    BY <1>1, <1>2 DEF InstantiationIInv

\* A step of one call: each field changes at that call only
Moves(i) ==
  /\ UNCHANGED <<template, archive>>
  /\ stage' = [stage EXCEPT ![i] = stage'[i]] /\ scratch' = [scratch EXCEPT ![i] = scratch'[i]]
  /\ environment' = [environment EXCEPT ![i] = environment'[i]]
  /\ stored' = [stored EXCEPT ![i] = stored'[i]] /\ project' = [project EXCEPT ![i] = project'[i]]
  /\ adopted' = [adopted EXCEPT ![i] = adopted'[i]] /\ failure' = [failure EXCEPT ![i] = failure'[i]]
  /\ spared' = [spared EXCEPT ![i] = spared'[i]] /\ ownerLeft' = [ownerLeft EXCEPT ![i] = ownerLeft'[i]]

\* The types of what one call holds
CallTyped(i) ==
  /\ stage[i] \in Stages /\ scratch[i] \in BOOLEAN
  /\ environment[i] \in {"none", "live", "previewing", "gone"} /\ stored[i] \in SUBSET Artifacts
  /\ project[i] \in {"none", "draft", "active", "deleted"} /\ adopted[i] \in BOOLEAN
  /\ failure[i] \in BOOLEAN /\ spared[i] \in SUBSET Leavings /\ ownerLeft[i] \in BOOLEAN

LEMMA OneCallMoves ==
  ASSUME InstantiationIInv, NEW i \in Instantiations, Moves(i), CallTyped(i)', CallSound(i)'
  PROVE  InstantiationIInv'
  <1>1. InstantiationTypeOK'
    <2>1. stage' \in [Instantiations -> Stages] /\ template' = template /\ archive' = archive
      BY DEF InstantiationIInv, InstantiationTypeOK, Moves, CallTyped, Stages
    <2>2. scratch' \in [Instantiations -> BOOLEAN] /\ adopted' \in [Instantiations -> BOOLEAN]
      BY DEF InstantiationIInv, InstantiationTypeOK, Moves, CallTyped
    <2>3. failure' \in [Instantiations -> BOOLEAN] /\ ownerLeft' \in [Instantiations -> BOOLEAN]
      BY DEF InstantiationIInv, InstantiationTypeOK, Moves, CallTyped
    <2>4. environment' \in [Instantiations -> {"none", "live", "previewing", "gone"}]
      BY DEF InstantiationIInv, InstantiationTypeOK, Moves, CallTyped
    <2>5. stored' \in [Instantiations -> SUBSET Artifacts]
      BY DEF InstantiationIInv, InstantiationTypeOK, Moves, CallTyped
    <2>6. project' \in [Instantiations -> {"none", "draft", "active", "deleted"}]
      BY DEF InstantiationIInv, InstantiationTypeOK, Moves, CallTyped
    <2>7. spared' \in [Instantiations -> SUBSET Leavings]
      BY DEF InstantiationIInv, InstantiationTypeOK, Moves, CallTyped
    <2> QED
      BY <2>1, <2>2, <2>3, <2>4, <2>5, <2>6, <2>7
      DEF InstantiationIInv, InstantiationTypeOK, Stages
  <1>2. ASSUME NEW j \in Instantiations PROVE CallSound(j)'
    <2>1. CASE j = i
      BY <2>1
    <2>2. CASE j # i
      <3>1. /\ stage'[j] = stage[j] /\ scratch'[j] = scratch[j] /\ environment'[j] = environment[j]
            /\ stored'[j] = stored[j] /\ project'[j] = project[j] /\ adopted'[j] = adopted[j]
            /\ failure'[j] = failure[j] /\ spared'[j] = spared[j] /\ ownerLeft'[j] = ownerLeft[j]
        BY <2>2 DEF InstantiationIInv, InstantiationTypeOK, Moves
      <3> QED
        BY <3>1 DEF InstantiationIInv, CallSound, NothingSaved, InStore, InRow, Undone, Housed
    <2> QED
      BY <2>1, <2>2
  <1> QED
    BY <1>1, <1>2 DEF InstantiationIInv

LEMMA StoringInArtifacts == \A s \in DOMAIN Storing : Storing[s] \subseteq Artifacts
  <1>1. DOMAIN Storing = {"snapshot", "report", "build_artifact"}
    BY DEF Storing
  <1>2. /\ Storing["snapshot"] = {"source", "manifest"} /\ Storing["report"] = {"qa report"}
        /\ Storing["build_artifact"] = {"build"}
    BY DEF Storing
  <1> QED
    BY <1>1, <1>2 DEF Artifacts

LEMMA FollowingSteps ==
  /\ DOMAIN Following = {"unpack", "files", "install", "build", "qa"}
  /\ Following["unpack"] = "environment" /\ Following["files"] = "install"
  /\ Following["install"] = "build" /\ Following["build"] = "preview" /\ Following["qa"] = "snapshot"
  BY DEF Following

LEMMA InstantiationStep == InstantiationIInv /\ [InstantiationNext]_instantiationVars => InstantiationIInv'
  <1> SUFFICES ASSUME InstantiationIInv, [InstantiationNext]_instantiationVars PROVE InstantiationIInv'
    OBVIOUS
  <1>a. ASSUME NEW i \in Instantiations PROVE CallTyped(i) /\ CallSound(i)
    BY DEF InstantiationIInv, InstantiationTypeOK, CallTyped, Stages
  <1>1. ASSUME NEW i \in Instantiations, Resolve(i) PROVE InstantiationIInv'
    <2>1. Moves(i)
      BY <1>1 DEF InstantiationIInv, InstantiationTypeOK, Moves, Resolve, Throws, GoesOn, Stands
    <2>2. /\ \/ stage'[i] = "unpack" /\ scratch'[i] = TRUE /\ failure'[i] = failure[i]
             \/ stage'[i] = "over" /\ scratch'[i] = scratch[i] /\ failure'[i] = TRUE
          /\ environment'[i] = environment[i] /\ stored'[i] = stored[i] /\ project'[i] = project[i]
          /\ adopted'[i] = adopted[i] /\ spared'[i] = spared[i] /\ ownerLeft'[i] = ownerLeft[i]
          /\ stage[i] = "resolve"
      BY <1>1
      DEF InstantiationIInv, InstantiationTypeOK, Resolve, Throws, GoesOn, Stands, Guarded, Storing,
          Following, Artifacts
    <2>3. CallTyped(i)'
      BY <1>a, <2>2 DEF CallTyped, Guarded, Storing, Artifacts, Leavings, Stages
    <2>4. CallSound(i)'
      <3>1. NothingSaved(i)'
        BY <1>a, <2>2
        DEF CallTyped, CallSound, NothingSaved, InStore, InRow, Undone, Housed, Guarded, Early,
            Storing, Artifacts
      <3>2. InStore(i)'
        BY <1>a, <2>2
        DEF CallTyped, CallSound, NothingSaved, InStore, InRow, Undone, Housed, Guarded, Early,
            Storing, Artifacts
      <3>3. InRow(i)'
        BY <1>a, <2>2
        DEF CallTyped, CallSound, NothingSaved, InStore, InRow, Undone, Housed, Guarded, Early,
            Storing, Artifacts
      <3>4. Undone(i)'
        BY <1>a, <2>2
        DEF CallTyped, CallSound, NothingSaved, InStore, InRow, Undone, Housed, Guarded, Early,
            Storing, Artifacts
      <3>5. Housed(i)'
        BY <1>a, <2>2
        DEF CallTyped, CallSound, NothingSaved, InStore, InRow, Undone, Housed, Guarded, Early,
            Storing, Artifacts
      <3> QED
        BY <3>1, <3>2, <3>3, <3>4, <3>5 DEF CallSound
    <2> QED
      BY <2>1, <2>3, <2>4, OneCallMoves
  <1>2. ASSUME NEW i \in Instantiations, ResolveFails(i) PROVE InstantiationIInv'
    <2>1. Moves(i)
      BY <1>2
      DEF InstantiationIInv, InstantiationTypeOK, Moves, ResolveFails, Throws, GoesOn, Stands
    <2>2. /\ stage[i] = "resolve" /\ stage'[i] = "over"
          /\ failure'[i] = TRUE
          /\ scratch'[i] = scratch[i] /\ environment'[i] = environment[i] /\ stored'[i] = stored[i]
          /\ project'[i] = project[i] /\ adopted'[i] = adopted[i] /\ spared'[i] = spared[i]
          /\ ownerLeft'[i] = ownerLeft[i]
      BY <1>2
      DEF InstantiationIInv, InstantiationTypeOK, ResolveFails, Throws, GoesOn, Stands, Guarded,
          Storing, Following, Artifacts
    <2>3. CallTyped(i)'
      BY <1>a, <2>2 DEF CallTyped, Guarded, Storing, Artifacts, Leavings, Stages
    <2>4. CallSound(i)'
      <3>1. NothingSaved(i)'
        BY <1>a, <2>2
        DEF CallTyped, CallSound, NothingSaved, InStore, InRow, Undone, Housed, Guarded, Early,
            Storing, Artifacts
      <3>2. InStore(i)'
        BY <1>a, <2>2
        DEF CallTyped, CallSound, NothingSaved, InStore, InRow, Undone, Housed, Guarded, Early,
            Storing, Artifacts
      <3>3. InRow(i)'
        BY <1>a, <2>2
        DEF CallTyped, CallSound, NothingSaved, InStore, InRow, Undone, Housed, Guarded, Early,
            Storing, Artifacts
      <3>4. Undone(i)'
        BY <1>a, <2>2
        DEF CallTyped, CallSound, NothingSaved, InStore, InRow, Undone, Housed, Guarded, Early,
            Storing, Artifacts
      <3>5. Housed(i)'
        BY <1>a, <2>2
        DEF CallTyped, CallSound, NothingSaved, InStore, InRow, Undone, Housed, Guarded, Early,
            Storing, Artifacts
      <3> QED
        BY <3>1, <3>2, <3>3, <3>4, <3>5 DEF CallSound
    <2> QED
      BY <2>1, <2>3, <2>4, OneCallMoves
  <1>3. ASSUME NEW i \in Instantiations, StepFails(i) PROVE InstantiationIInv'
    <2>1. Moves(i)
      BY <1>3 DEF InstantiationIInv, InstantiationTypeOK, Moves, StepFails, Throws, GoesOn, Stands
    <2>2. /\ stage[i] \in Guarded /\ stage'[i] = "erase"
          /\ stored'[i] \in SUBSET Artifacts
          /\ failure'[i] = TRUE
          /\ scratch'[i] = scratch[i] /\ environment'[i] = environment[i] /\ project'[i] = project[i]
          /\ adopted'[i] = adopted[i] /\ spared'[i] = spared[i] /\ ownerLeft'[i] = ownerLeft[i]
      <3>1. PICK some \in SUBSET (IF stage[i] \in DOMAIN Storing THEN Storing[stage[i]] ELSE {}) :
              stored' = [stored EXCEPT ![i] = @ \cup some]
        BY <1>3 DEF StepFails
      <3>2. some \subseteq Artifacts
        BY <3>1, StoringInArtifacts
      <3>3. stored'[i] = stored[i] \cup some /\ stored[i] \subseteq Artifacts
        BY <3>1 DEF InstantiationIInv, InstantiationTypeOK
      <3> QED
        BY <1>3, <3>2, <3>3 DEF InstantiationIInv, InstantiationTypeOK, StepFails, Throws, GoesOn
    <2>3. CallTyped(i)'
      BY <1>a, <2>2 DEF CallTyped, Guarded, Storing, Artifacts, Leavings, Stages
    <2>4. CallSound(i)'
      <3>1. NothingSaved(i)'
        BY <1>a, <2>2
        DEF CallTyped, CallSound, NothingSaved, InStore, InRow, Undone, Housed, Guarded, Early,
            Storing, Artifacts
      <3>2. InStore(i)'
        BY <1>a, <2>2
        DEF CallTyped, CallSound, NothingSaved, InStore, InRow, Undone, Housed, Guarded, Early,
            Storing, Artifacts
      <3>3. InRow(i)'
        BY <1>a, <2>2
        DEF CallTyped, CallSound, NothingSaved, InStore, InRow, Undone, Housed, Guarded, Early,
            Storing, Artifacts
      <3>4. Undone(i)'
        BY <1>a, <2>2
        DEF CallTyped, CallSound, NothingSaved, InStore, InRow, Undone, Housed, Guarded, Early,
            Storing, Artifacts
      <3>5. Housed(i)'
        BY <1>a, <2>2
        DEF CallTyped, CallSound, NothingSaved, InStore, InRow, Undone, Housed, Guarded, Early,
            Storing, Artifacts
      <3> QED
        BY <3>1, <3>2, <3>3, <3>4, <3>5 DEF CallSound
    <2> QED
      BY <2>1, <2>3, <2>4, OneCallMoves
  <1>4. ASSUME NEW i \in Instantiations, Proceeds(i) PROVE InstantiationIInv'
    <2>1. Moves(i)
      BY <1>4 DEF InstantiationIInv, InstantiationTypeOK, Moves, Proceeds, GoesOn, Stands
    <2>2. /\ \/ stage[i] = "unpack" /\ stage'[i] = "environment"
             \/ stage[i] = "files" /\ stage'[i] = "install"
             \/ stage[i] = "install" /\ stage'[i] = "build"
             \/ stage[i] = "build" /\ stage'[i] = "preview"
             \/ stage[i] = "qa" /\ stage'[i] = "snapshot"
          /\ scratch'[i] = scratch[i] /\ environment'[i] = environment[i] /\ stored'[i] = stored[i]
          /\ project'[i] = project[i] /\ adopted'[i] = adopted[i] /\ failure'[i] = failure[i]
          /\ spared'[i] = spared[i] /\ ownerLeft'[i] = ownerLeft[i]
      <3>1. /\ stage[i] \in DOMAIN Following /\ stage'[i] = Following[stage[i]]
            /\ UNCHANGED <<scratch, environment, stored, project, adopted, failure, spared, ownerLeft>>
        BY <1>4 DEF InstantiationIInv, InstantiationTypeOK, Proceeds, GoesOn
      <3> QED
        BY <3>1, FollowingSteps
    <2>3. CallTyped(i)'
      BY <1>a, <2>2 DEF CallTyped, Guarded, Storing, Artifacts, Leavings, Stages
    <2>4. CallSound(i)'
      <3>1. NothingSaved(i)'
        BY <1>a, <2>2
        DEF CallTyped, CallSound, NothingSaved, InStore, InRow, Undone, Housed, Guarded, Early,
            Storing, Artifacts
      <3>2. InStore(i)'
        BY <1>a, <2>2
        DEF CallTyped, CallSound, NothingSaved, InStore, InRow, Undone, Housed, Guarded, Early,
            Storing, Artifacts
      <3>3. InRow(i)'
        BY <1>a, <2>2
        DEF CallTyped, CallSound, NothingSaved, InStore, InRow, Undone, Housed, Guarded, Early,
            Storing, Artifacts
      <3>4. Undone(i)'
        BY <1>a, <2>2
        DEF CallTyped, CallSound, NothingSaved, InStore, InRow, Undone, Housed, Guarded, Early,
            Storing, Artifacts
      <3>5. Housed(i)'
        BY <1>a, <2>2
        DEF CallTyped, CallSound, NothingSaved, InStore, InRow, Undone, Housed, Guarded, Early,
            Storing, Artifacts
      <3> QED
        BY <3>1, <3>2, <3>3, <3>4, <3>5 DEF CallSound
    <2> QED
      BY <2>1, <2>3, <2>4, OneCallMoves
  <1>5. ASSUME NEW i \in Instantiations, CreateSiteEnvironment(i) PROVE InstantiationIInv'
    <2>1. Moves(i)
      BY <1>5
      DEF InstantiationIInv, InstantiationTypeOK, Moves, CreateSiteEnvironment, GoesOn, Stands
    <2>2. /\ stage[i] = "environment" /\ stage'[i] = "files"
          /\ environment'[i] = "live"
          /\ scratch'[i] = scratch[i] /\ stored'[i] = stored[i] /\ project'[i] = project[i]
          /\ adopted'[i] = adopted[i] /\ failure'[i] = failure[i] /\ spared'[i] = spared[i]
          /\ ownerLeft'[i] = ownerLeft[i]
      BY <1>5
      DEF InstantiationIInv, InstantiationTypeOK, CreateSiteEnvironment, GoesOn, Stands, Guarded,
          Storing, Following, Artifacts
    <2>3. CallTyped(i)'
      BY <1>a, <2>2 DEF CallTyped, Guarded, Storing, Artifacts, Leavings, Stages
    <2>4. CallSound(i)'
      <3>1. NothingSaved(i)'
        BY <1>a, <2>2
        DEF CallTyped, CallSound, NothingSaved, InStore, InRow, Undone, Housed, Guarded, Early,
            Storing, Artifacts
      <3>2. InStore(i)'
        BY <1>a, <2>2
        DEF CallTyped, CallSound, NothingSaved, InStore, InRow, Undone, Housed, Guarded, Early,
            Storing, Artifacts
      <3>3. InRow(i)'
        BY <1>a, <2>2
        DEF CallTyped, CallSound, NothingSaved, InStore, InRow, Undone, Housed, Guarded, Early,
            Storing, Artifacts
      <3>4. Undone(i)'
        BY <1>a, <2>2
        DEF CallTyped, CallSound, NothingSaved, InStore, InRow, Undone, Housed, Guarded, Early,
            Storing, Artifacts
      <3>5. Housed(i)'
        BY <1>a, <2>2
        DEF CallTyped, CallSound, NothingSaved, InStore, InRow, Undone, Housed, Guarded, Early,
            Storing, Artifacts
      <3> QED
        BY <3>1, <3>2, <3>3, <3>4, <3>5 DEF CallSound
    <2> QED
      BY <2>1, <2>3, <2>4, OneCallMoves
  <1>6. ASSUME NEW i \in Instantiations, OpenPreview(i) PROVE InstantiationIInv'
    <2>1. Moves(i)
      BY <1>6 DEF InstantiationIInv, InstantiationTypeOK, Moves, OpenPreview, GoesOn, Stands
    <2>2. /\ stage[i] = "preview" /\ stage'[i] = "qa"
          /\ environment'[i] = "previewing"
          /\ scratch'[i] = scratch[i] /\ stored'[i] = stored[i] /\ project'[i] = project[i]
          /\ adopted'[i] = adopted[i] /\ failure'[i] = failure[i] /\ spared'[i] = spared[i]
          /\ ownerLeft'[i] = ownerLeft[i]
      BY <1>6
      DEF InstantiationIInv, InstantiationTypeOK, OpenPreview, GoesOn, Stands, Guarded, Storing,
          Following, Artifacts
    <2>3. CallTyped(i)'
      BY <1>a, <2>2 DEF CallTyped, Guarded, Storing, Artifacts, Leavings, Stages
    <2>4. CallSound(i)'
      <3>1. NothingSaved(i)'
        BY <1>a, <2>2
        DEF CallTyped, CallSound, NothingSaved, InStore, InRow, Undone, Housed, Guarded, Early,
            Storing, Artifacts
      <3>2. InStore(i)'
        BY <1>a, <2>2
        DEF CallTyped, CallSound, NothingSaved, InStore, InRow, Undone, Housed, Guarded, Early,
            Storing, Artifacts
      <3>3. InRow(i)'
        BY <1>a, <2>2
        DEF CallTyped, CallSound, NothingSaved, InStore, InRow, Undone, Housed, Guarded, Early,
            Storing, Artifacts
      <3>4. Undone(i)'
        BY <1>a, <2>2
        DEF CallTyped, CallSound, NothingSaved, InStore, InRow, Undone, Housed, Guarded, Early,
            Storing, Artifacts
      <3>5. Housed(i)'
        BY <1>a, <2>2
        DEF CallTyped, CallSound, NothingSaved, InStore, InRow, Undone, Housed, Guarded, Early,
            Storing, Artifacts
      <3> QED
        BY <3>1, <3>2, <3>3, <3>4, <3>5 DEF CallSound
    <2> QED
      BY <2>1, <2>3, <2>4, OneCallMoves
  <1>7. ASSUME NEW i \in Instantiations, Stores(i, "snapshot", "report") PROVE InstantiationIInv'
    <2>1. Moves(i)
      BY <1>7 DEF InstantiationIInv, InstantiationTypeOK, Moves, Stores, GoesOn, Stands
    <2>2. /\ stage[i] = "snapshot" /\ stage'[i] = "report"
          /\ stored'[i] = stored[i] \cup Storing["snapshot"]
          /\ scratch'[i] = scratch[i] /\ environment'[i] = environment[i] /\ project'[i] = project[i]
          /\ adopted'[i] = adopted[i] /\ failure'[i] = failure[i] /\ spared'[i] = spared[i]
          /\ ownerLeft'[i] = ownerLeft[i]
      BY <1>7
      DEF InstantiationIInv, InstantiationTypeOK, Stores, GoesOn, Stands, Guarded, Storing,
          Following, Artifacts
    <2>3. CallTyped(i)'
      BY <1>a, <2>2 DEF CallTyped, Guarded, Storing, Artifacts, Leavings, Stages
    <2>4. CallSound(i)'
      <3>1. NothingSaved(i)'
        BY <1>a, <2>2
        DEF CallTyped, CallSound, NothingSaved, InStore, InRow, Undone, Housed, Guarded, Early,
            Storing, Artifacts
      <3>2. InStore(i)'
        BY <1>a, <2>2
        DEF CallTyped, CallSound, NothingSaved, InStore, InRow, Undone, Housed, Guarded, Early,
            Storing, Artifacts
      <3>3. InRow(i)'
        BY <1>a, <2>2
        DEF CallTyped, CallSound, NothingSaved, InStore, InRow, Undone, Housed, Guarded, Early,
            Storing, Artifacts
      <3>4. Undone(i)'
        BY <1>a, <2>2
        DEF CallTyped, CallSound, NothingSaved, InStore, InRow, Undone, Housed, Guarded, Early,
            Storing, Artifacts
      <3>5. Housed(i)'
        BY <1>a, <2>2
        DEF CallTyped, CallSound, NothingSaved, InStore, InRow, Undone, Housed, Guarded, Early,
            Storing, Artifacts
      <3> QED
        BY <3>1, <3>2, <3>3, <3>4, <3>5 DEF CallSound
    <2> QED
      BY <2>1, <2>3, <2>4, OneCallMoves
  <1>8. ASSUME NEW i \in Instantiations, Stores(i, "report", "build_artifact") PROVE InstantiationIInv'
    <2>1. Moves(i)
      BY <1>8 DEF InstantiationIInv, InstantiationTypeOK, Moves, Stores, GoesOn, Stands
    <2>2. /\ stage[i] = "report" /\ stage'[i] = "build_artifact"
          /\ stored'[i] = stored[i] \cup Storing["report"]
          /\ scratch'[i] = scratch[i] /\ environment'[i] = environment[i] /\ project'[i] = project[i]
          /\ adopted'[i] = adopted[i] /\ failure'[i] = failure[i] /\ spared'[i] = spared[i]
          /\ ownerLeft'[i] = ownerLeft[i]
      BY <1>8
      DEF InstantiationIInv, InstantiationTypeOK, Stores, GoesOn, Stands, Guarded, Storing,
          Following, Artifacts
    <2>3. CallTyped(i)'
      BY <1>a, <2>2 DEF CallTyped, Guarded, Storing, Artifacts, Leavings, Stages
    <2>4. CallSound(i)'
      <3>1. NothingSaved(i)'
        BY <1>a, <2>2
        DEF CallTyped, CallSound, NothingSaved, InStore, InRow, Undone, Housed, Guarded, Early,
            Storing, Artifacts
      <3>2. InStore(i)'
        BY <1>a, <2>2
        DEF CallTyped, CallSound, NothingSaved, InStore, InRow, Undone, Housed, Guarded, Early,
            Storing, Artifacts
      <3>3. InRow(i)'
        BY <1>a, <2>2
        DEF CallTyped, CallSound, NothingSaved, InStore, InRow, Undone, Housed, Guarded, Early,
            Storing, Artifacts
      <3>4. Undone(i)'
        BY <1>a, <2>2
        DEF CallTyped, CallSound, NothingSaved, InStore, InRow, Undone, Housed, Guarded, Early,
            Storing, Artifacts
      <3>5. Housed(i)'
        BY <1>a, <2>2
        DEF CallTyped, CallSound, NothingSaved, InStore, InRow, Undone, Housed, Guarded, Early,
            Storing, Artifacts
      <3> QED
        BY <3>1, <3>2, <3>3, <3>4, <3>5 DEF CallSound
    <2> QED
      BY <2>1, <2>3, <2>4, OneCallMoves
  <1>9. ASSUME NEW i \in Instantiations, Stores(i, "build_artifact", "project") PROVE InstantiationIInv'
    <2>1. Moves(i)
      BY <1>9 DEF InstantiationIInv, InstantiationTypeOK, Moves, Stores, GoesOn, Stands
    <2>2. /\ stage[i] = "build_artifact" /\ stage'[i] = "project"
          /\ stored'[i] = stored[i] \cup Storing["build_artifact"]
          /\ scratch'[i] = scratch[i] /\ environment'[i] = environment[i] /\ project'[i] = project[i]
          /\ adopted'[i] = adopted[i] /\ failure'[i] = failure[i] /\ spared'[i] = spared[i]
          /\ ownerLeft'[i] = ownerLeft[i]
      BY <1>9
      DEF InstantiationIInv, InstantiationTypeOK, Stores, GoesOn, Stands, Guarded, Storing,
          Following, Artifacts
    <2>3. CallTyped(i)'
      BY <1>a, <2>2 DEF CallTyped, Guarded, Storing, Artifacts, Leavings, Stages
    <2>4. CallSound(i)'
      <3>1. NothingSaved(i)'
        BY <1>a, <2>2
        DEF CallTyped, CallSound, NothingSaved, InStore, InRow, Undone, Housed, Guarded, Early,
            Storing, Artifacts
      <3>2. InStore(i)'
        BY <1>a, <2>2
        DEF CallTyped, CallSound, NothingSaved, InStore, InRow, Undone, Housed, Guarded, Early,
            Storing, Artifacts
      <3>3. InRow(i)'
        BY <1>a, <2>2
        DEF CallTyped, CallSound, NothingSaved, InStore, InRow, Undone, Housed, Guarded, Early,
            Storing, Artifacts
      <3>4. Undone(i)'
        BY <1>a, <2>2
        DEF CallTyped, CallSound, NothingSaved, InStore, InRow, Undone, Housed, Guarded, Early,
            Storing, Artifacts
      <3>5. Housed(i)'
        BY <1>a, <2>2
        DEF CallTyped, CallSound, NothingSaved, InStore, InRow, Undone, Housed, Guarded, Early,
            Storing, Artifacts
      <3> QED
        BY <3>1, <3>2, <3>3, <3>4, <3>5 DEF CallSound
    <2> QED
      BY <2>1, <2>3, <2>4, OneCallMoves
  <1>10. ASSUME NEW i \in Instantiations, SaveProject(i) PROVE InstantiationIInv'
    <2>1. Moves(i)
      BY <1>10
      DEF InstantiationIInv, InstantiationTypeOK, Moves, SaveProject, Throws, GoesOn, Stands
    <2>2. /\ stage[i] = "project" /\ project'[i] = "draft"
          /\ \/ stage'[i] = "commit" /\ failure'[i] = failure[i]
             \/ stage'[i] = "erase" /\ failure'[i] = TRUE
          /\ scratch'[i] = scratch[i] /\ environment'[i] = environment[i] /\ stored'[i] = stored[i]
          /\ adopted'[i] = adopted[i] /\ spared'[i] = spared[i] /\ ownerLeft'[i] = ownerLeft[i]
      BY <1>10
      DEF InstantiationIInv, InstantiationTypeOK, SaveProject, Throws, GoesOn, Stands, Guarded,
          Storing, Following, Artifacts
    <2>3. CallTyped(i)'
      BY <1>a, <2>2 DEF CallTyped, Guarded, Storing, Artifacts, Leavings, Stages
    <2>4. CallSound(i)'
      <3>1. NothingSaved(i)'
        BY <1>a, <2>2
        DEF CallTyped, CallSound, NothingSaved, InStore, InRow, Undone, Housed, Guarded, Early,
            Storing, Artifacts
      <3>2. InStore(i)'
        BY <1>a, <2>2
        DEF CallTyped, CallSound, NothingSaved, InStore, InRow, Undone, Housed, Guarded, Early,
            Storing, Artifacts
      <3>3. InRow(i)'
        BY <1>a, <2>2
        DEF CallTyped, CallSound, NothingSaved, InStore, InRow, Undone, Housed, Guarded, Early,
            Storing, Artifacts
      <3>4. Undone(i)'
        BY <1>a, <2>2
        DEF CallTyped, CallSound, NothingSaved, InStore, InRow, Undone, Housed, Guarded, Early,
            Storing, Artifacts
      <3>5. Housed(i)'
        BY <1>a, <2>2
        DEF CallTyped, CallSound, NothingSaved, InStore, InRow, Undone, Housed, Guarded, Early,
            Storing, Artifacts
      <3> QED
        BY <3>1, <3>2, <3>3, <3>4, <3>5 DEF CallSound
    <2> QED
      BY <2>1, <2>3, <2>4, OneCallMoves
  <1>11. ASSUME NEW i \in Instantiations, Commit(i) PROVE InstantiationIInv'
    <2>1. Moves(i)
      BY <1>11
      DEF InstantiationIInv, InstantiationTypeOK, Moves, Commit, Commits, Throws, GoesOn, Stands
    <2>2. /\ stage[i] = "commit" /\ project[i] = "draft" /\ project'[i] = "active"
          /\ \/ stage'[i] = "tidy" /\ failure'[i] = failure[i]
             \/ stage'[i] = "erase" /\ failure'[i] = TRUE
          /\ scratch'[i] = scratch[i] /\ environment'[i] = environment[i] /\ stored'[i] = stored[i]
          /\ adopted'[i] = adopted[i] /\ spared'[i] = spared[i] /\ ownerLeft'[i] = ownerLeft[i]
      BY <1>11
      DEF InstantiationIInv, InstantiationTypeOK, Commit, Commits, Throws, GoesOn, Stands, Guarded,
          Storing, Following, Artifacts
    <2>3. CallTyped(i)'
      BY <1>a, <2>2 DEF CallTyped, Guarded, Storing, Artifacts, Leavings, Stages
    <2>4. CallSound(i)'
      <3>1. NothingSaved(i)'
        BY <1>a, <2>2
        DEF CallTyped, CallSound, NothingSaved, InStore, InRow, Undone, Housed, Guarded, Early,
            Storing, Artifacts
      <3>2. InStore(i)'
        BY <1>a, <2>2
        DEF CallTyped, CallSound, NothingSaved, InStore, InRow, Undone, Housed, Guarded, Early,
            Storing, Artifacts
      <3>3. InRow(i)'
        BY <1>a, <2>2
        DEF CallTyped, CallSound, NothingSaved, InStore, InRow, Undone, Housed, Guarded, Early,
            Storing, Artifacts
      <3>4. Undone(i)'
        BY <1>a, <2>2
        DEF CallTyped, CallSound, NothingSaved, InStore, InRow, Undone, Housed, Guarded, Early,
            Storing, Artifacts
      <3>5. Housed(i)'
        BY <1>a, <2>2
        DEF CallTyped, CallSound, NothingSaved, InStore, InRow, Undone, Housed, Guarded, Early,
            Storing, Artifacts
      <3> QED
        BY <3>1, <3>2, <3>3, <3>4, <3>5 DEF CallSound
    <2> QED
      BY <2>1, <2>3, <2>4, OneCallMoves
  <1>12. ASSUME NEW i \in Instantiations, Erase(i) PROVE InstantiationIInv'
    <2>1. Moves(i)
      BY <1>12
      DEF InstantiationIInv, InstantiationTypeOK, Moves, Erase, Erased, NotErased, GoesOn, Stands
    <2>2. /\ stage[i] = "erase" /\ stage'[i] = "tidy"
          /\ project[i] = "deleted" => project'[i] = "deleted"
          /\ \/ stored'[i] = {} /\ spared'[i] = spared[i] /\ project'[i] \in {"none", "deleted"}
             \/ spared'[i] = spared[i] \cup {"artifacts"} /\ stored'[i] = stored[i] /\ project'[i] \in {"none", "deleted"}
             \/ spared'[i] = spared[i] \cup {"project", "artifacts"} /\ stored'[i] = stored[i] /\ project'[i] = project[i]
          /\ scratch'[i] = scratch[i] /\ environment'[i] = environment[i] /\ adopted'[i] = adopted[i]
          /\ failure'[i] = failure[i] /\ ownerLeft'[i] = ownerLeft[i]
      BY <1>12
      DEF InstantiationIInv, InstantiationTypeOK, Erase, Erased, NotErased, GoesOn, Stands, Guarded,
          Storing, Following, Artifacts
    <2>3. CallTyped(i)'
      BY <1>a, <2>2 DEF CallTyped, Guarded, Storing, Artifacts, Leavings, Stages
    <2>4. CallSound(i)'
      <3>1. NothingSaved(i)'
        BY <1>a, <2>2
        DEF CallTyped, CallSound, NothingSaved, InStore, InRow, Undone, Housed, Guarded, Early,
            Storing, Artifacts
      <3>2. InStore(i)'
        BY <1>a, <2>2
        DEF CallTyped, CallSound, NothingSaved, InStore, InRow, Undone, Housed, Guarded, Early,
            Storing, Artifacts
      <3>3. InRow(i)'
        BY <1>a, <2>2
        DEF CallTyped, CallSound, NothingSaved, InStore, InRow, Undone, Housed, Guarded, Early,
            Storing, Artifacts
      <3>4. Undone(i)'
        BY <1>a, <2>2
        DEF CallTyped, CallSound, NothingSaved, InStore, InRow, Undone, Housed, Guarded, Early,
            Storing, Artifacts
      <3>5. Housed(i)'
        BY <1>a, <2>2
        DEF CallTyped, CallSound, NothingSaved, InStore, InRow, Undone, Housed, Guarded, Early,
            Storing, Artifacts
      <3> QED
        BY <3>1, <3>2, <3>3, <3>4, <3>5 DEF CallSound
    <2> QED
      BY <2>1, <2>3, <2>4, OneCallMoves
  <1>13. ASSUME NEW i \in Instantiations, RemoveScratch(i) PROVE InstantiationIInv'
    <2>1. Moves(i)
      BY <1>13
      DEF InstantiationIInv, InstantiationTypeOK, Moves, RemoveScratch, Throws, GoesOn, Stands
    <2>2. /\ stage[i] = "tidy"
          /\ \/ scratch'[i] = FALSE /\ failure'[i] = failure[i]
                /\ stage'[i] = (IF failure[i] THEN "destroy" ELSE "adopt")
             \/ scratch'[i] = scratch[i] /\ failure'[i] = TRUE /\ stage'[i] = "over"
          /\ spared'[i] = spared[i]
          /\ environment'[i] = environment[i] /\ stored'[i] = stored[i] /\ project'[i] = project[i]
          /\ adopted'[i] = adopted[i] /\ ownerLeft'[i] = ownerLeft[i]
      BY <1>13
      DEF InstantiationIInv, InstantiationTypeOK, RemoveScratch, Throws, GoesOn, Stands, Guarded,
          Storing, Following, Artifacts
    <2>3. CallTyped(i)'
      BY <1>a, <2>2 DEF CallTyped, Guarded, Storing, Artifacts, Leavings, Stages
    <2>4. CallSound(i)'
      <3>1. NothingSaved(i)'
        BY <1>a, <2>2
        DEF CallTyped, CallSound, NothingSaved, InStore, InRow, Undone, Housed, Guarded, Early,
            Storing, Artifacts
      <3>2. InStore(i)'
        BY <1>a, <2>2
        DEF CallTyped, CallSound, NothingSaved, InStore, InRow, Undone, Housed, Guarded, Early,
            Storing, Artifacts
      <3>3. InRow(i)'
        BY <1>a, <2>2
        DEF CallTyped, CallSound, NothingSaved, InStore, InRow, Undone, Housed, Guarded, Early,
            Storing, Artifacts
      <3>4. Undone(i)'
        BY <1>a, <2>2
        DEF CallTyped, CallSound, NothingSaved, InStore, InRow, Undone, Housed, Guarded, Early,
            Storing, Artifacts
      <3>5. Housed(i)'
        BY <1>a, <2>2
        DEF CallTyped, CallSound, NothingSaved, InStore, InRow, Undone, Housed, Guarded, Early,
            Storing, Artifacts
      <3> QED
        BY <3>1, <3>2, <3>3, <3>4, <3>5 DEF CallSound
    <2> QED
      BY <2>1, <2>3, <2>4, OneCallMoves
  <1>14. ASSUME NEW i \in Instantiations, DestroyEnvironment(i) PROVE InstantiationIInv'
    <2>1. Moves(i)
      BY <1>14
      DEF InstantiationIInv, InstantiationTypeOK, Moves, DestroyEnvironment, Destroyed, GoesOn,
          Stands
    <2>2. /\ stage[i] = "destroy" /\ stage'[i] = "over"
          /\ \/ environment'[i] \in {"none", "gone"} /\ spared'[i] = spared[i]
             \/ environment'[i] = environment[i] /\ spared'[i] = spared[i] \cup {"environment"}
          /\ scratch'[i] = scratch[i] /\ stored'[i] = stored[i] /\ project'[i] = project[i]
          /\ adopted'[i] = adopted[i] /\ failure'[i] = failure[i] /\ ownerLeft'[i] = ownerLeft[i]
      BY <1>14
      DEF InstantiationIInv, InstantiationTypeOK, DestroyEnvironment, Destroyed, GoesOn, Stands,
          Guarded, Storing, Following, Artifacts
    <2>3. CallTyped(i)'
      BY <1>a, <2>2 DEF CallTyped, Guarded, Storing, Artifacts, Leavings, Stages
    <2>4. CallSound(i)'
      <3>1. NothingSaved(i)'
        BY <1>a, <2>2
        DEF CallTyped, CallSound, NothingSaved, InStore, InRow, Undone, Housed, Guarded, Early,
            Storing, Artifacts
      <3>2. InStore(i)'
        BY <1>a, <2>2
        DEF CallTyped, CallSound, NothingSaved, InStore, InRow, Undone, Housed, Guarded, Early,
            Storing, Artifacts
      <3>3. InRow(i)'
        BY <1>a, <2>2
        DEF CallTyped, CallSound, NothingSaved, InStore, InRow, Undone, Housed, Guarded, Early,
            Storing, Artifacts
      <3>4. Undone(i)'
        BY <1>a, <2>2
        DEF CallTyped, CallSound, NothingSaved, InStore, InRow, Undone, Housed, Guarded, Early,
            Storing, Artifacts
      <3>5. Housed(i)'
        BY <1>a, <2>2
        DEF CallTyped, CallSound, NothingSaved, InStore, InRow, Undone, Housed, Guarded, Early,
            Storing, Artifacts
      <3> QED
        BY <3>1, <3>2, <3>3, <3>4, <3>5 DEF CallSound
    <2> QED
      BY <2>1, <2>3, <2>4, OneCallMoves
  <1>15. ASSUME NEW i \in Instantiations, Adopt(i) PROVE InstantiationIInv'
    <2>1. Moves(i)
      BY <1>15 DEF InstantiationIInv, InstantiationTypeOK, Moves, Adopt, GoesOn, Stands
    <2>2. /\ stage[i] = "adopt" /\ stage'[i] = "over"
          /\ adopted'[i] = TRUE
          /\ scratch'[i] = scratch[i] /\ environment'[i] = environment[i] /\ stored'[i] = stored[i]
          /\ project'[i] = project[i] /\ failure'[i] = failure[i] /\ spared'[i] = spared[i]
          /\ ownerLeft'[i] = ownerLeft[i]
      BY <1>15
      DEF InstantiationIInv, InstantiationTypeOK, Adopt, GoesOn, Stands, Guarded, Storing,
          Following, Artifacts
    <2>3. CallTyped(i)'
      BY <1>a, <2>2 DEF CallTyped, Guarded, Storing, Artifacts, Leavings, Stages
    <2>4. CallSound(i)'
      <3>1. NothingSaved(i)'
        BY <1>a, <2>2
        DEF CallTyped, CallSound, NothingSaved, InStore, InRow, Undone, Housed, Guarded, Early,
            Storing, Artifacts
      <3>2. InStore(i)'
        BY <1>a, <2>2
        DEF CallTyped, CallSound, NothingSaved, InStore, InRow, Undone, Housed, Guarded, Early,
            Storing, Artifacts
      <3>3. InRow(i)'
        BY <1>a, <2>2
        DEF CallTyped, CallSound, NothingSaved, InStore, InRow, Undone, Housed, Guarded, Early,
            Storing, Artifacts
      <3>4. Undone(i)'
        BY <1>a, <2>2
        DEF CallTyped, CallSound, NothingSaved, InStore, InRow, Undone, Housed, Guarded, Early,
            Storing, Artifacts
      <3>5. Housed(i)'
        BY <1>a, <2>2
        DEF CallTyped, CallSound, NothingSaved, InStore, InRow, Undone, Housed, Guarded, Early,
            Storing, Artifacts
      <3> QED
        BY <3>1, <3>2, <3>3, <3>4, <3>5 DEF CallSound
    <2> QED
      BY <2>1, <2>3, <2>4, OneCallMoves
  <1>16. ASSUME NEW i \in Instantiations, AdoptRefused(i) PROVE InstantiationIInv'
    <2>1. Moves(i)
      BY <1>16
      DEF InstantiationIInv, InstantiationTypeOK, Moves, AdoptRefused, Throws, GoesOn, Stands
    <2>2. /\ stage[i] = "adopt" /\ stage'[i] = "refused"
          /\ failure'[i] = TRUE
          /\ scratch'[i] = scratch[i] /\ environment'[i] = environment[i] /\ stored'[i] = stored[i]
          /\ project'[i] = project[i] /\ adopted'[i] = adopted[i] /\ spared'[i] = spared[i]
          /\ ownerLeft'[i] = ownerLeft[i]
      BY <1>16
      DEF InstantiationIInv, InstantiationTypeOK, AdoptRefused, Throws, GoesOn, Stands, Guarded,
          Storing, Following, Artifacts
    <2>3. CallTyped(i)'
      BY <1>a, <2>2 DEF CallTyped, Guarded, Storing, Artifacts, Leavings, Stages
    <2>4. CallSound(i)'
      <3>1. NothingSaved(i)'
        BY <1>a, <2>2
        DEF CallTyped, CallSound, NothingSaved, InStore, InRow, Undone, Housed, Guarded, Early,
            Storing, Artifacts
      <3>2. InStore(i)'
        BY <1>a, <2>2
        DEF CallTyped, CallSound, NothingSaved, InStore, InRow, Undone, Housed, Guarded, Early,
            Storing, Artifacts
      <3>3. InRow(i)'
        BY <1>a, <2>2
        DEF CallTyped, CallSound, NothingSaved, InStore, InRow, Undone, Housed, Guarded, Early,
            Storing, Artifacts
      <3>4. Undone(i)'
        BY <1>a, <2>2
        DEF CallTyped, CallSound, NothingSaved, InStore, InRow, Undone, Housed, Guarded, Early,
            Storing, Artifacts
      <3>5. Housed(i)'
        BY <1>a, <2>2
        DEF CallTyped, CallSound, NothingSaved, InStore, InRow, Undone, Housed, Guarded, Early,
            Storing, Artifacts
      <3> QED
        BY <3>1, <3>2, <3>3, <3>4, <3>5 DEF CallSound
    <2> QED
      BY <2>1, <2>3, <2>4, OneCallMoves
  <1>17. ASSUME NEW i \in Instantiations, EraseAgain(i) PROVE InstantiationIInv'
    <2>1. Moves(i)
      BY <1>17
      DEF InstantiationIInv, InstantiationTypeOK, Moves, EraseAgain, Erased, NotErased, GoesOn,
          Stands
    <2>2. /\ stage[i] = "refused" /\ stage'[i] = "destroy"
          /\ project[i] = "deleted" => project'[i] = "deleted"
          /\ \/ stored'[i] = {} /\ spared'[i] = spared[i] /\ project'[i] \in {"none", "deleted"}
             \/ spared'[i] = spared[i] \cup {"artifacts"} /\ stored'[i] = stored[i] /\ project'[i] \in {"none", "deleted"}
             \/ spared'[i] = spared[i] \cup {"project", "artifacts"} /\ stored'[i] = stored[i] /\ project'[i] = project[i]
          /\ scratch'[i] = scratch[i] /\ environment'[i] = environment[i] /\ adopted'[i] = adopted[i]
          /\ failure'[i] = failure[i] /\ ownerLeft'[i] = ownerLeft[i]
      BY <1>17
      DEF InstantiationIInv, InstantiationTypeOK, EraseAgain, Erased, NotErased, GoesOn, Stands,
          Guarded, Storing, Following, Artifacts
    <2>3. CallTyped(i)'
      BY <1>a, <2>2 DEF CallTyped, Guarded, Storing, Artifacts, Leavings, Stages
    <2>4. CallSound(i)'
      <3>1. NothingSaved(i)'
        BY <1>a, <2>2
        DEF CallTyped, CallSound, NothingSaved, InStore, InRow, Undone, Housed, Guarded, Early,
            Storing, Artifacts
      <3>2. InStore(i)'
        BY <1>a, <2>2
        DEF CallTyped, CallSound, NothingSaved, InStore, InRow, Undone, Housed, Guarded, Early,
            Storing, Artifacts
      <3>3. InRow(i)'
        BY <1>a, <2>2
        DEF CallTyped, CallSound, NothingSaved, InStore, InRow, Undone, Housed, Guarded, Early,
            Storing, Artifacts
      <3>4. Undone(i)'
        BY <1>a, <2>2
        DEF CallTyped, CallSound, NothingSaved, InStore, InRow, Undone, Housed, Guarded, Early,
            Storing, Artifacts
      <3>5. Housed(i)'
        BY <1>a, <2>2
        DEF CallTyped, CallSound, NothingSaved, InStore, InRow, Undone, Housed, Guarded, Early,
            Storing, Artifacts
      <3> QED
        BY <3>1, <3>2, <3>3, <3>4, <3>5 DEF CallSound
    <2> QED
      BY <2>1, <2>3, <2>4, OneCallMoves
  <1>18. ASSUME NEW i \in Instantiations, OwnerDeletes(i) PROVE InstantiationIInv'
    <2>1. Moves(i)
      BY <1>18 DEF InstantiationIInv, InstantiationTypeOK, Moves, OwnerDeletes, GoesOn, Stands
    <2>2. /\ environment'[i] = IF adopted[i] THEN "gone" ELSE environment[i]
          /\ stored'[i] = {}
          /\ project[i] \in {"draft", "active"} /\ project'[i] = "deleted"
          /\ ownerLeft'[i] = TRUE
          /\ stage'[i] = stage[i] /\ scratch'[i] = scratch[i] /\ adopted'[i] = adopted[i]
          /\ failure'[i] = failure[i] /\ spared'[i] = spared[i]
      BY <1>18
      DEF InstantiationIInv, InstantiationTypeOK, OwnerDeletes, GoesOn, Stands, Guarded, Storing,
          Following, Artifacts
    <2>3. CallTyped(i)'
      BY <1>a, <2>2 DEF CallTyped, Guarded, Storing, Artifacts, Leavings, Stages
    <2>4. CallSound(i)'
      <3>1. NothingSaved(i)'
        BY <1>a, <2>2
        DEF CallTyped, CallSound, NothingSaved, InStore, InRow, Undone, Housed, Guarded, Early,
            Storing, Artifacts
      <3>2. InStore(i)'
        BY <1>a, <2>2
        DEF CallTyped, CallSound, NothingSaved, InStore, InRow, Undone, Housed, Guarded, Early,
            Storing, Artifacts
      <3>3. InRow(i)'
        BY <1>a, <2>2
        DEF CallTyped, CallSound, NothingSaved, InStore, InRow, Undone, Housed, Guarded, Early,
            Storing, Artifacts
      <3>4. Undone(i)'
        BY <1>a, <2>2
        DEF CallTyped, CallSound, NothingSaved, InStore, InRow, Undone, Housed, Guarded, Early,
            Storing, Artifacts
      <3>5. Housed(i)'
        BY <1>a, <2>2
        DEF CallTyped, CallSound, NothingSaved, InStore, InRow, Undone, Housed, Guarded, Early,
            Storing, Artifacts
      <3> QED
        BY <3>1, <3>2, <3>3, <3>4, <3>5 DEF CallSound
    <2> QED
      BY <2>1, <2>3, <2>4, OneCallMoves
  <1>19. CASE UNCHANGED instantiationVars
    BY <1>19
    DEF InstantiationIInv, instantiationVars, InstantiationTypeOK, CallSound, NothingSaved, InStore,
        InRow, Undone, Housed
  <1> QED
    BY <1>1, <1>2, <1>3, <1>4, <1>5, <1>6, <1>7, <1>8, <1>9, <1>10, <1>11, <1>12, <1>13, <1>14, <1>15, <1>16, <1>17, <1>18, <1>19
    DEF InstantiationNext

LEMMA InstantiationHolds == InstantiationIInv => AllOrNothing
  BY
 DEF InstantiationIInv, InstantiationTypeOK, CallSound, InStore, InRow, Undone, Housed, AllOrNothing,
     SiteIsWhole, ErasedOrTried

-----------------------------------------------------------------------------
(* Templates *)

\* The parts of a preparation keep their shapes, its errors included.
THEOREM PreparationTypeCorrect == PreparationSpec => []PreparationTypeOK
<1>1. PreparationIInv => PreparationTypeOK
  BY DEF PreparationIInv
<1> QED
  BY <1>1, PreparationStart, PreparationStep, PTL DEF PreparationSpec

\* The parts of an instantiation keep their shapes.
THEOREM InstantiationTypeCorrect == InstantiationSpec => []InstantiationTypeOK
<1>1. InstantiationIInv => InstantiationTypeOK
  BY DEF InstantiationIInv
<1> QED
  BY <1>1, InstantiationStart, InstantiationStep, PTL DEF InstantiationSpec

\* What is packed is what was built and tested, publish() leaves nothing behind that its caller
\* is not told of, and an instantiation ends with everything or with nothing, for any files,
\* edits, faults and calls (TemplatesAsTested, which the services run checks for one call of
\* each).
THEOREM TemplatesSound == PreparationSpec /\ InstantiationSpec => []TemplatesAsTested
<1>1. PreparationSpec => [](PreparedIsTested /\ NothingLeftBehind)
  BY PreparationStart, PreparationStep, PreparationHolds, PTL DEF PreparationSpec
<1>2. InstantiationSpec => []AllOrNothing
  BY InstantiationStart, InstantiationStep, InstantiationHolds, PTL DEF InstantiationSpec
<1> QED
  BY <1>1, <1>2, PTL DEF TemplatesAsTested
=============================================================================
