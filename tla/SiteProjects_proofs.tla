------------------------ MODULE SiteProjects_proofs ------------------------
(***************************************************************************)
(* Proofs about SiteProjects for any sites, pipelines, server processes,   *)
(* renames and deletes.                                                    *)
(***************************************************************************)
EXTENDS SiteProjects, TLAPS

USE ProjectsAssumption

-----------------------------------------------------------------------------
(* The inductive invariant *)

\* A pipeline whose candidate may be in a line
After == {"swapped", "committed", "doomed", "succeeded", "failed", "crashed"}

Item(s, n) == line[s][n]

\* The document of s is the tip of its line, which holds candidates of s whose
\* pipelines are through with the commit.
Line(s) ==
  /\ doc[s].num = Len(line[s])
  /\ doc[s].source = IF line[s] = << >> THEN {} ELSE {Item(s, Len(line[s]))}
  /\ doc[s].status = "ABSENT" => doc[s].num = 0
  /\ \A i \in 1 .. Len(line[s]) :
       /\ SiteOf[Item(s, i)] = s /\ run[Item(s, i)] \in After
       /\ i > 1 => KindOf[Item(s, i)] = "edit"
       /\ i = 1 => KindOf[Item(s, i)] # "edit" \/ s \in erased

\* A pipeline that creates a site starts from nothing.
Creation(j) == KindOf[j] # "edit" => latest[j] = 0 /\ base[j] = {}

\* An edit asks for a version there was, reads that one or a later one, and
\* restores it only when it read that one.
Edit(j) ==
  KindOf[j] = "edit" /\ SiteOf[j] \notin erased =>
    /\ run[j] # "idle" => 0 < from[j] /\ from[j] <= Len(line[SiteOf[j]])
    /\ run[j] \notin {"idle", "queued"} \cup After =>
         from[j] <= latest[j] /\ latest[j] <= Len(line[SiteOf[j]])
    /\ run[j] \in {"planned", "ready", "checked"} =>
         latest[j] = from[j] /\ base[j] = {Item(SiteOf[j], latest[j])}
    /\ run[j] # "captured"

\* Only edits read a version.
Reads(j) == run[j] = "read" => KindOf[j] = "edit"

\* A committed candidate stays at its place in the line.
Placed(j) ==
  /\ run[j] \in {"swapped", "committed"} /\ SiteOf[j] \notin erased =>
       latest[j] < Len(line[SiteOf[j]]) /\ Item(SiteOf[j], latest[j] + 1) = j
  /\ run[j] = "doomed" \/ jobrow[j] = "SUCCEEDED" => j \in Accepted(SiteOf[j]) \/ SiteOf[j] \in erased

Rows(j) ==
  /\ jobrow[j] = "FAILED" => run[j] = "failed" /\ KindOf[j] # "template"
  /\ run[j] = "doomed" => j \in broken
  /\ run[j] = "failed" /\ KindOf[j] # "template" /\ j \in Accepted(SiteOf[j]) => j \in broken

JobInv(j) == Creation(j) /\ Edit(j) /\ Placed(j) /\ Rows(j) /\ Reads(j)

\* A cached version is the one the line has at that number.
Cached(p, s) ==
  s \notin erased /\ cache[p][s].num > 0 =>
    cache[p][s].num <= Len(line[s]) /\ cache[p][s].source = {Item(s, cache[p][s].num)}

IInv ==
  /\ TypeOK
  /\ \A s \in Sites : Line(s)
  /\ \A j \in Jobs : JobInv(j)
  /\ \A p \in Servers, s \in Sites : Cached(p, s)

USE DEF TypeOK

-----------------------------------------------------------------------------
(* What a step keeps *)

\* A pipeline that stands still keeps its promises while the lines do.
LEMMA JobRests ==
  ASSUME NEW i \in Jobs, JobInv(i), UNCHANGED <<line, erased>>,
         run'[i] = run[i], from'[i] = from[i], latest'[i] = latest[i], base'[i] = base[i],
         jobrow'[i] \in {jobrow[i], "ABSENT"}, broken \subseteq broken'
  PROVE  JobInv(i)'
<1>1. Creation(i)' /\ Edit(i)'  BY DEF JobInv, Creation, Edit, Item
<1>2. Accepted(SiteOf[i])' = Accepted(SiteOf[i])  BY DEF Accepted
<1>3. Placed(i)' /\ Rows(i)' /\ Reads(i)'  BY <1>2 DEF JobInv, Placed, Rows, Reads, Item
<1> QED  BY <1>1, <1>3 DEF JobInv

LEMMA CacheRests ==
  ASSUME \A p \in Servers, s \in Sites : Cached(p, s), UNCHANGED <<line, erased, cache>>
  PROVE  (\A p \in Servers, s \in Sites : Cached(p, s))'
BY DEF Cached, Item

\* The lines stay, and so do the number and the source of every document.
LEMMA LinesRest ==
  ASSUME StoredTyped, JobsTyped, \A s \in Sites : Line(s), UNCHANGED <<line, erased>>,
         \A s \in Sites : doc'[s].num = doc[s].num /\ doc'[s].source = doc[s].source
                          /\ (doc'[s].status = "ABSENT" => doc'[s].num = 0),
         \A i \in Jobs : run[i] \in After => run'[i] \in After
  PROVE  (\A s \in Sites : Line(s))'
<1> SUFFICES ASSUME NEW s \in Sites PROVE Line(s)'  OBVIOUS
<1>1. \A i \in 1 .. Len(line[s]) : Item(s, i) \in Jobs  BY DEF Item, StoredTyped
<1>2. Line(s) /\ line' = line /\ erased' = erased  OBVIOUS
<1>3. /\ doc'[s].num = Len(line'[s])
      /\ doc'[s].source = IF line'[s] = << >> THEN {} ELSE {line'[s][Len(line'[s])]}
      /\ doc'[s].status = "ABSENT" => doc'[s].num = 0
  BY <1>2 DEF Line, Item
<1>4. \A i \in 1 .. Len(line'[s]) :
        /\ SiteOf[line'[s][i]] = s /\ run'[line'[s][i]] \in After
        /\ i > 1 => KindOf[line'[s][i]] = "edit"
        /\ i = 1 => KindOf[line'[s][i]] # "edit" \/ s \in erased'
  BY <1>1, <1>2 DEF Line, Item
<1> QED  BY <1>3, <1>4 DEF Line, Item

\* A step of the pipeline j that leaves documents, lines and caches alone.
LEMMA JobMoves ==
  ASSUME IInv, NEW j \in Jobs, TypeOK', JobInv(j)',
         UNCHANGED <<doc, cache, line, erased>>,
         run[j] \in After => run'[j] \in After,
         \A i \in Jobs \ {j} : /\ run'[i] = run[i] /\ from'[i] = from[i] /\ latest'[i] = latest[i]
                               /\ base'[i] = base[i] /\ jobrow'[i] = jobrow[i],
         broken \subseteq broken'
  PROVE  IInv'
<1>1. (\A i \in Jobs : JobInv(i))'
  <2> SUFFICES ASSUME NEW i \in Jobs PROVE JobInv(i)'  OBVIOUS
  <2>1. CASE i = j  BY <2>1
  <2>2. CASE i # j  BY <2>2, JobRests DEF IInv
  <2> QED  BY <2>1, <2>2
<1>2. (\A s \in Sites : Line(s))'
  <2>1. \A s \in Sites : doc[s].status = "ABSENT" => doc[s].num = 0  BY DEF IInv, Line
  <2> QED  BY <2>1, LinesRest DEF IInv
<1>3. (\A p \in Servers, s \in Sites : Cached(p, s))'  BY CacheRests DEF IInv
<1> QED  BY <1>1, <1>2, <1>3 DEF IInv

-----------------------------------------------------------------------------
(* Steps of a pipeline that leave the stores alone *)

USE DEF Requests, Record

LEMMA StartKeeps ==
  ASSUME IInv, NEW j \in Jobs, Start(j)
  PROVE  IInv'
<1> USE DEF IInv
<1>1. TypeOK'
  <2>1. doc[SiteOf[j]].num \in Nat  BY DEF StoredTyped, Doc
  <2> QED  BY <2>1 DEF StoredTyped, JobsTyped, RequestsTyped, Start, Over
<1>2. /\ run[j] = "idle" /\ run'[j] = "queued" /\ latest'[j] = latest[j] /\ base'[j] = base[j]
      /\ from'[j] = IF KindOf[j] = "edit" THEN doc[SiteOf[j]].num ELSE 0
      /\ KindOf[j] = "edit" => doc[SiteOf[j]].num > 0
      /\ jobrow'[j] \in {jobrow[j], "QUEUED"}
      /\ UNCHANGED <<line, erased, broken>>
  BY DEF JobsTyped, Start
<1>3. JobInv(j)'
  <2>1. Creation(j)'  BY <1>2 DEF JobInv, Creation
  <2>2. Edit(j)'
    <3>1. doc[SiteOf[j]].num = Len(line[SiteOf[j]])  BY DEF Line
    <3>2. Len(line[SiteOf[j]]) \in Nat  BY DEF StoredTyped
    <3> QED  BY <1>2, <3>1, <3>2 DEF Edit, After
  <2>3. Placed(j)'  BY <1>2 DEF JobInv, Placed, Accepted
  <2>4. Rows(j)' /\ Reads(j)'  BY <1>2 DEF JobInv, Rows, Reads
  <2> QED  BY <2>1, <2>2, <2>3, <2>4 DEF JobInv
<1>4. \A i \in Jobs \ {j} : /\ run'[i] = run[i] /\ from'[i] = from[i] /\ latest'[i] = latest[i]
                            /\ base'[i] = base[i] /\ jobrow'[i] = jobrow[i]
  BY DEF JobsTyped, Start
<1> QED  BY <1>1, <1>2, <1>3, <1>4, JobMoves DEF Start, After

\* The pipeline only changes its stage, and maybe its row.
LEMMA StageMoves ==
  ASSUME IInv, NEW j \in Jobs, NEW stage, run' = [run EXCEPT ![j] = stage], TypeOK', JobInv(j)',
         \A i \in Jobs \ {j} : jobrow'[i] = jobrow[i],
         UNCHANGED <<doc, cache, from, latest, base, line, erased>>,
         broken \subseteq broken', run[j] \notin After \/ stage \in After
  PROVE  IInv'
<1>1. run'[j] = stage /\ \A i \in Jobs \ {j} : run'[i] = run[i]  BY DEF IInv, JobsTyped
<1> QED  BY <1>1, JobMoves

LEMMA CheckReferenceKeeps ==
  ASSUME IInv, NEW j \in Jobs, CheckReference(j)
  PROVE  IInv'
<1> USE DEF IInv
<1>1. TypeOK'  BY DEF StoredTyped, JobsTyped, RequestsTyped, CheckReference, Over
<1>2. run[j] = "queued" /\ run'[j] = "planned" /\ KindOf[j] # "edit"
  BY DEF JobsTyped, CheckReference
<1>3. JobInv(j)'
  <2>1. Creation(j)' /\ Edit(j)'  BY <1>2 DEF JobInv, Creation, Edit, CheckReference
  <2>2. Placed(j)' /\ Rows(j)' /\ Reads(j)'  BY <1>2 DEF JobInv, Placed, Rows, Reads, Accepted, CheckReference
  <2> QED  BY <2>1, <2>2 DEF JobInv
<1> QED  BY <1>1, <1>2, <1>3, StageMoves DEF CheckReference, After

LEMMA ReadProjectKeeps ==
  ASSUME IInv, NEW j \in Jobs, ReadProject(j)
  PROVE  IInv'
<1> USE DEF IInv
<1>1. TypeOK'
  <2>1. doc[SiteOf[j]].num \in Nat  BY DEF StoredTyped, Doc
  <2> QED  BY <2>1 DEF StoredTyped, JobsTyped, RequestsTyped, ReadProject, Over
<1>2. /\ run[j] = "queued" /\ run'[j] = "read" /\ KindOf[j] = "edit"
      /\ latest'[j] = doc[SiteOf[j]].num /\ from'[j] = from[j] /\ base'[j] = base[j]
      /\ UNCHANGED <<doc, cache, line, erased, broken, jobrow>>
  BY DEF JobsTyped, ReadProject
<1>3. JobInv(j)'
  <2>1. Creation(j)'  BY <1>2 DEF Creation
  <2>2. Edit(j)'
    <3>1. doc[SiteOf[j]].num = Len(line[SiteOf[j]])  BY DEF Line
    <3>2. Len(line[SiteOf[j]]) \in Nat /\ from[j] \in Nat  BY DEF StoredTyped, JobsTyped
    <3>3. Edit(j)  BY DEF JobInv
    <3> QED  BY <1>2, <3>1, <3>2, <3>3 DEF Edit, After
  <2>3. Placed(j)' /\ Rows(j)' /\ Reads(j)'  BY <1>2 DEF JobInv, Placed, Rows, Reads, Accepted
  <2> QED  BY <2>1, <2>2, <2>3 DEF JobInv
<1>4. \A i \in Jobs \ {j} : /\ run'[i] = run[i] /\ from'[i] = from[i] /\ latest'[i] = latest[i]
                            /\ base'[i] = base[i] /\ jobrow'[i] = jobrow[i]
  BY DEF JobsTyped, ReadProject
<1> QED  BY <1>1, <1>2, <1>3, <1>4, JobMoves DEF After

\* On a site that was never erased, what an edit restores is the tip of the line.
LEMMA RestoresTip ==
  ASSUME IInv, NEW j \in Jobs, ReadVersion(j), SiteOf[j] \notin erased
  PROVE  /\ latest[j] = from[j] /\ latest[j] = Len(line[SiteOf[j]])
         /\ base'[j] = {Item(SiteOf[j], latest[j])}
<1> USE DEF IInv
<1> DEFINE s == SiteOf[j]
           p == ServerOf[j]
<1>1. s \in Sites /\ p \in Servers  OBVIOUS
<1>2. /\ run[j] = "read" /\ doc[s].num = from[j] /\ KindOf[j] = "edit"
  <2>1. run[j] = "read" /\ doc[s].num = from[j]  BY DEF ReadVersion, Resolves
  <2>2. KindOf[j] = "edit"  BY <2>1 DEF JobInv, Reads
  <2> QED  BY <2>1, <2>2
<1>3. 0 < from[j] /\ from[j] <= latest[j] /\ latest[j] <= Len(line[s])
  BY <1>2 DEF JobInv, Edit, After
<1>4. doc[s].num = Len(line[s]) /\ doc[s].source = IF line[s] = << >> THEN {} ELSE {Item(s, Len(line[s]))}
  BY <1>1 DEF Line
<1>5. Len(line[s]) \in Nat /\ latest[j] \in Nat /\ from[j] \in Nat
  BY <1>1 DEF StoredTyped, JobsTyped
<1>6. latest[j] = from[j] /\ latest[j] = Len(line[s]) /\ line[s] # << >>
  BY <1>2, <1>3, <1>4, <1>5
<1>7. VersionRead(p, s) = {Item(s, Len(line[s]))}
  <2>1. CASE cache[p][s].num = doc[s].num
    <3>1. cache[p][s].num > 0  BY <2>1, <1>2, <1>3
    <3>2. cache[p][s].source = {Item(s, cache[p][s].num)}  BY <1>1, <3>1 DEF Cached
    <3> QED  BY <2>1, <3>2, <1>4 DEF VersionRead
  <2>2. CASE cache[p][s].num # doc[s].num  BY <2>2, <1>4, <1>6 DEF VersionRead
  <2> QED  BY <2>1, <2>2
<1>8. base'[j] = VersionRead(p, s)  BY DEF ReadVersion, JobsTyped
<1> QED  BY <1>6, <1>7, <1>8

LEMMA ReadVersionKeeps ==
  ASSUME IInv, NEW j \in Jobs, ReadVersion(j)
  PROVE  IInv'
<1> USE DEF IInv
<1>1. TypeOK'
  <2>1. ServerOf[j] \in Servers /\ SiteOf[j] \in Sites  OBVIOUS
  <2>2. VersionRead(ServerOf[j], SiteOf[j]) \subseteq Jobs
    BY <2>1 DEF VersionRead, StoredTyped, Doc, Entry
  <2> QED  BY <2>2 DEF StoredTyped, JobsTyped, RequestsTyped, ReadVersion, Over
<1>2. /\ run[j] = "read" /\ run'[j] = "planned" /\ latest'[j] = latest[j] /\ from'[j] = from[j]
      /\ UNCHANGED <<doc, cache, line, erased, broken, jobrow>>
  BY DEF JobsTyped, ReadVersion
<1>3. KindOf[j] = "edit"  BY <1>2 DEF JobInv, Reads
<1>4. JobInv(j)'
  <2>1. Creation(j)'  BY <1>3 DEF Creation
  <2>2. Edit(j)'
    <3> SUFFICES ASSUME SiteOf[j] \notin erased PROVE Edit(j)'  BY <1>2 DEF Edit
    <3>1. /\ latest[j] = from[j] /\ latest[j] = Len(line[SiteOf[j]])
          /\ base'[j] = {Item(SiteOf[j], latest[j])}
      BY RestoresTip
    <3>2. base'[j] = {line'[SiteOf[j]][latest'[j]]}  BY <1>2, <3>1 DEF Item
    <3>3. Edit(j) /\ from[j] \in Nat  BY DEF JobInv, JobsTyped
    <3> QED  BY <1>2, <3>1, <3>2, <3>3 DEF Edit, Item, After
  <2>3. Placed(j)' /\ Rows(j)' /\ Reads(j)'  BY <1>2, <1>3 DEF JobInv, Placed, Rows, Reads, Accepted
  <2> QED  BY <2>1, <2>2, <2>3 DEF JobInv
<1>5. \A i \in Jobs \ {j} : /\ run'[i] = run[i] /\ from'[i] = from[i] /\ latest'[i] = latest[i]
                            /\ base'[i] = base[i] /\ jobrow'[i] = jobrow[i]
  BY DEF JobsTyped, ReadVersion
<1> QED  BY <1>1, <1>2, <1>4, <1>5, JobMoves DEF After

\* A pipeline that goes on to a later stage before its commit.
LEMMA CaptureKeeps ==
  ASSUME IInv, NEW j \in Jobs, Capture(j) \/ CommitChecks(j)
  PROVE  IInv'
<1> USE DEF IInv
<1>1. TypeOK'
  <2>1. CASE Capture(j)  BY <2>1 DEF StoredTyped, JobsTyped, RequestsTyped, Capture, Over
  <2>2. CASE CommitChecks(j)  BY <2>2 DEF StoredTyped, JobsTyped, RequestsTyped, CommitChecks, Over
  <2> QED  BY <2>1, <2>2
<1>2. PICK stage \in {"captured", "ready", "checked"} : run' = [run EXCEPT ![j] = stage]
  <2>1. CASE Capture(j)
    <3>1. CASE KindOf[j] \in {"reference", "template"}
      <4>1. run' = [run EXCEPT ![j] = "captured"]  BY <2>1, <3>1 DEF Capture
      <4> QED  BY <4>1
    <3>2. CASE KindOf[j] \notin {"reference", "template"}
      <4>1. run' = [run EXCEPT ![j] = "ready"]  BY <2>1, <3>2 DEF Capture
      <4> QED  BY <4>1
    <3> QED  BY <3>1, <3>2
  <2>2. CASE CommitChecks(j)
    <3>1. run' = [run EXCEPT ![j] = "checked"]  BY <2>2 DEF CommitChecks
    <3> QED  BY <3>1
  <2> QED  BY <2>1, <2>2
<1>3. /\ run[j] \in {"planned", "ready"} /\ run'[j] = stage
      /\ stage = "captured" => KindOf[j] # "edit"
      /\ UNCHANGED <<doc, cache, from, latest, base, jobrow, line, erased, broken>>
  BY <1>2 DEF JobsTyped, Capture, CommitChecks
<1>4. JobInv(j)'
  <2>1. Creation(j)'  BY <1>3 DEF JobInv, Creation
  <2>2. Edit(j)'  BY <1>3 DEF JobInv, Edit, Item, After
  <2>3. Placed(j)' /\ Rows(j)' /\ Reads(j)'  BY <1>3 DEF JobInv, Placed, Rows, Reads, Accepted
  <2> QED  BY <2>1, <2>2, <2>3 DEF JobInv
<1> QED  BY <1>1, <1>2, <1>3, <1>4, StageMoves DEF After

\* A pipeline that ends, or is saved FAILED.
LEMMA EndKeeps ==
  ASSUME IInv, NEW j \in Jobs,
         NoChanges(j) \/ SaveSucceeded(j) \/ AdoptTemplate(j) \/ FailPipeline(j) \/ FailTemplate(j)
  PROVE  IInv'
<1> USE DEF IInv
<1>1. TypeOK'
  <2> USE DEF StoredTyped, JobsTyped, RequestsTyped, Over
  <2>1. CASE NoChanges(j)  BY <2>1 DEF NoChanges
  <2>2. CASE SaveSucceeded(j)  BY <2>2 DEF SaveSucceeded
  <2>3. CASE AdoptTemplate(j)  BY <2>3 DEF AdoptTemplate
  <2>4. CASE FailPipeline(j)  BY <2>4 DEF FailPipeline
  <2>5. CASE FailTemplate(j)  BY <2>5 DEF FailTemplate
  <2> QED  BY <2>1, <2>2, <2>3, <2>4, <2>5
<1>2. PICK stage \in {"succeeded", "doomed", "failed"} : run' = [run EXCEPT ![j] = stage]
  BY DEF NoChanges, SaveSucceeded, AdoptTemplate, FailPipeline, FailTemplate
<1>3. /\ run'[j] = stage /\ run[j] # "idle"
      /\ UNCHANGED <<doc, cache, from, latest, base, line, erased>> /\ broken \subseteq broken'
      /\ \A i \in Jobs \ {j} : jobrow'[i] = jobrow[i]
  BY <1>2 DEF JobsTyped, Active, Over, NoChanges, SaveSucceeded, AdoptTemplate, FailPipeline, FailTemplate, MaySaveSuccess,
              MayFail
<1>4. Creation(j)' /\ Edit(j)'  BY <1>3 DEF JobInv, Creation, Edit, After
<1>5. Accepted(SiteOf[j])' = Accepted(SiteOf[j])  BY <1>3 DEF Accepted
<1>6. run[j] \in {"swapped", "committed"} /\ SiteOf[j] \notin erased => j \in Accepted(SiteOf[j])
  <2> SUFFICES ASSUME run[j] \in {"swapped", "committed"}, SiteOf[j] \notin erased
               PROVE  j \in Accepted(SiteOf[j])
    OBVIOUS
  <2>1. latest[j] < Len(line[SiteOf[j]]) /\ Item(SiteOf[j], latest[j] + 1) = j  BY DEF JobInv, Placed
  <2>2. latest[j] + 1 \in DOMAIN line[SiteOf[j]]  BY <2>1 DEF StoredTyped, JobsTyped
  <2> QED  BY <2>1, <2>2 DEF Accepted, Item
<1>7. j \in Accepted(SiteOf[j]) => run[j] \in After
  <2> SUFFICES ASSUME j \in Accepted(SiteOf[j]) PROVE run[j] \in After  OBVIOUS
  <2>1. PICK i \in DOMAIN line[SiteOf[j]] : line[SiteOf[j]][i] = j  BY DEF Accepted
  <2>2. i \in 1 .. Len(line[SiteOf[j]])  BY <2>1 DEF StoredTyped
  <2>3. Line(SiteOf[j])  OBVIOUS
  <2> QED  BY <2>1, <2>2, <2>3 DEF Line, Item
<1>8. JobInv(j)'
  <2>1. CASE NoChanges(j)
    <3>1. run[j] = "planned" /\ stage = "succeeded" /\ jobrow'[j] = "UNCHANGED"
      BY <1>2, <1>3, <2>1 DEF NoChanges, JobsTyped
    <3> QED  BY <1>3, <1>4, <3>1 DEF JobInv, Placed, Rows, Reads
  <2>2. CASE SaveSucceeded(j)
    <3>1. /\ run[j] = "committed" /\ jobrow'[j] = "SUCCEEDED"
          /\ stage \in {"succeeded", "doomed"} /\ (stage = "doomed" => j \in broken')
      BY <1>2, <1>3, <2>2 DEF SaveSucceeded, MaySaveSuccess, JobsTyped
    <3> QED  BY <1>3, <1>4, <1>5, <1>6, <3>1 DEF JobInv, Placed, Rows, Reads
  <2>3. CASE AdoptTemplate(j)
    <3>1. /\ run[j] = "committed" /\ stage = "succeeded" /\ jobrow'[j] = jobrow[j]
      BY <1>2, <1>3, <2>3 DEF AdoptTemplate, JobsTyped
    <3> QED  BY <1>3, <1>4, <1>5, <3>1 DEF JobInv, Placed, Rows, Reads
  <2>4. CASE FailPipeline(j)
    <3>1. /\ run[j] \notin Over /\ stage = "failed" /\ jobrow'[j] \in {jobrow[j], "FAILED"}
          /\ KindOf[j] # "template"
          /\ broken' = IF run[j] \in {"swapped", "committed"} THEN broken \cup {j} ELSE broken
      BY <1>2, <1>3, <2>4 DEF FailPipeline, MayFail, Active, JobsTyped
    <3>2. j \in Accepted(SiteOf[j]) => j \in broken'
      BY <1>7, <3>1 DEF JobInv, Rows, After, Over
    <3> QED  BY <1>3, <1>4, <1>5, <3>1, <3>2 DEF JobInv, Placed, Rows, Reads
  <2>5. CASE FailTemplate(j)
    <3>1. stage = "failed" /\ jobrow'[j] = jobrow[j] /\ KindOf[j] = "template"
      BY <1>2, <1>3, <2>5 DEF FailTemplate, JobsTyped
    <3> QED  BY <1>3, <1>4, <1>5, <3>1 DEF JobInv, Placed, Rows, Reads
  <2> QED  BY <2>1, <2>2, <2>3, <2>4, <2>5
<1> QED  BY <1>1, <1>2, <1>3, <1>8, StageMoves DEF After

-----------------------------------------------------------------------------
(* Saved projects *)

\* A document with another status, and maybe another name
LEMMA Restated ==
  ASSUME NEW d \in Doc, NEW status \in {"DRAFT", "ACTIVE"}
  PROVE  /\ [d EXCEPT !.status = status] \in Doc
         /\ [d EXCEPT !.status = status].status = status
         /\ [d EXCEPT !.status = status].num = d.num
         /\ [d EXCEPT !.status = status].source = d.source
<1> DEFINE e == [d EXCEPT !.status = status]
<1>1. e.num = d.num /\ e.source = d.source /\ e.status = status  BY DEF Doc
<1>2. e \in [status : {"ABSENT", "DRAFT", "ACTIVE"}, num : Nat, source : SUBSET Jobs,
             name : {"none", "generated", "renamed"}]
  BY DEF Doc
<1>3. d.num = 0 <=> d.source = {}  BY DEF Doc
<1> HIDE DEF e
<1>4. e \in Doc  BY <1>1, <1>2, <1>3 DEF Doc
<1> QED  BY <1>1, <1>4 DEF e

Renamed(d, status, name) == [d EXCEPT !.status = status, !.name = name]

LEMMA RenamedIsDoc ==
  ASSUME NEW d \in Doc, NEW status \in {"DRAFT", "ACTIVE"}, NEW name \in {"generated", "renamed"}
  PROVE  /\ Renamed(d, status, name) \in Doc /\ Renamed(d, status, name).status = status
         /\ Renamed(d, status, name).num = d.num /\ Renamed(d, status, name).source = d.source
<1> DEFINE e == Renamed(d, status, name)
<1>1. e.num = d.num /\ e.source = d.source /\ e.status = status  BY DEF Doc, Renamed
<1>2. e \in [status : {"ABSENT", "DRAFT", "ACTIVE"}, num : Nat, source : SUBSET Jobs,
             name : {"none", "generated", "renamed"}]
  BY DEF Doc, Renamed
<1>3. d.num = 0 <=> d.source = {}  BY DEF Doc
<1> HIDE DEF e
<1>4. e \in Doc  BY <1>1, <1>2, <1>3 DEF Doc
<1> QED  BY <1>1, <1>4 DEF e

\* A save keeps the version of a project, and gives it a status.
LEMMA SavedKeepsVersion ==
  ASSUME IInv, NEW s \in Sites, NEW status \in {"DRAFT", "ACTIVE"}, NEW name \in {"generated", "renamed"},
         doc' = SavedProject(s, status, name)
  PROVE  /\ doc' \in [Sites -> Doc]
         /\ \A r \in Sites : doc'[r].num = doc[r].num /\ doc'[r].source = doc[r].source
                             /\ (doc'[r].status = "ABSENT" => doc'[r].num = 0)
<1> USE DEF IInv
<1>1. doc \in [Sites -> Doc]  BY DEF StoredTyped
<1>2. \A r \in Sites : doc[r].status = "ABSENT" => doc[r].num = 0 /\ doc[r].source = {}
  BY <1>1 DEF Line, Doc
<1>3. PICK d \in Doc : /\ doc' = [doc EXCEPT ![s] = d] /\ d.status = status
                       /\ d.num = doc[s].num /\ d.source = doc[s].source
  <2>1. CASE Exists(s)
    <3>1. PICK d \in Doc : d = doc[s]  BY <1>1
    <3>2. doc' = [doc EXCEPT ![s] = Renamed(d, status, name)]
      BY <2>1, <3>1, Zenon DEF SavedProject, Renamed
    <3>3. PICK e \in Doc : e = Renamed(d, status, name) /\ e.status = status /\ e.num = d.num /\ e.source = d.source
      BY RenamedIsDoc
    <3> QED  BY <3>1, <3>2, <3>3
  <2>2. CASE ~Exists(s)
    <3>1. Draft(name) \in Doc /\ Draft(name).num = 0 /\ Draft(name).source = {}  BY DEF Draft, Doc
    <3>2. [Draft(name) EXCEPT !.status = status] \in Doc
          /\ [Draft(name) EXCEPT !.status = status].status = status
          /\ [Draft(name) EXCEPT !.status = status].num = 0
          /\ [Draft(name) EXCEPT !.status = status].source = {}
      BY <3>1, Restated
    <3>3. doc' = [doc EXCEPT ![s] = [Draft(name) EXCEPT !.status = status]]
      BY <2>2 DEF SavedProject
    <3> QED  BY <1>2, <2>2, <3>2, <3>3 DEF Exists
  <2> QED  BY <2>1, <2>2
<1> QED  BY <1>1, <1>2, <1>3

\* A generation, a reference or a template stores its draft.
LEMMA SaveProjectKeeps ==
  ASSUME IInv, NEW j \in Jobs, SaveDraft(j) \/ SaveCandidateProject(j)
  PROVE  IInv'
<1> USE DEF IInv
<1>1. PICK stage \in {"planned", "ready"} : run' = [run EXCEPT ![j] = stage]
  <2>1. CASE SaveDraft(j)
    <3>1. run' = [run EXCEPT ![j] = "planned"]  BY <2>1 DEF SaveDraft
    <3> QED  BY <3>1
  <2>2. CASE SaveCandidateProject(j)
    <3>1. run' = [run EXCEPT ![j] = "ready"]  BY <2>2 DEF SaveCandidateProject
    <3> QED  BY <3>1
  <2> QED  BY <2>1, <2>2
<1>2. /\ run[j] \in {"queued", "captured"} /\ run'[j] = stage
      /\ run[j] = "queued" => KindOf[j] = "generate"
      /\ \A i \in Jobs \ {j} : run'[i] = run[i]
      /\ doc' = SavedProject(SiteOf[j], "DRAFT", "generated")
      /\ UNCHANGED <<sources, cache, from, latest, base, jobrow, renaming, deleting, line, erased, broken>>
  BY <1>1 DEF JobsTyped, SaveDraft, SaveCandidateProject
<1>3. /\ doc' \in [Sites -> Doc]
      /\ \A r \in Sites : doc'[r].num = doc[r].num /\ doc'[r].source = doc[r].source
                          /\ (doc'[r].status = "ABSENT" => doc'[r].num = 0)
  BY <1>2, SavedKeepsVersion
<1>4. TypeOK'  BY <1>1, <1>2, <1>3 DEF StoredTyped, JobsTyped, RequestsTyped
<1>5. (\A i \in Jobs : JobInv(i))'
  <2> SUFFICES ASSUME NEW i \in Jobs PROVE JobInv(i)'  OBVIOUS
  <2>1. CASE i = j
    <3>1. Creation(j)'  BY <1>2 DEF JobInv, Creation
    <3>2. Edit(j)'  BY <1>2 DEF JobInv, Edit, After
    <3>3. Placed(j)' /\ Rows(j)' /\ Reads(j)'  BY <1>2 DEF JobInv, Placed, Rows, Reads, Accepted
    <3> QED  BY <2>1, <3>1, <3>2, <3>3 DEF JobInv
  <2>2. CASE i # j  BY <1>2, <2>2, JobRests
  <2> QED  BY <2>1, <2>2
<1>6. (\A s \in Sites : Line(s))'  BY <1>2, <1>3, LinesRest DEF After
<1>7. (\A p \in Servers, s \in Sites : Cached(p, s))'  BY <1>2, CacheRests
<1> QED  BY <1>4, <1>5, <1>6, <1>7

\* Renames and deletes, until the project goes: no line and no pipeline moves.
LEMMA RequestMoves ==
  ASSUME IInv, TypeOK', UNCHANGED <<cache, run, from, latest, base, line, erased, broken>>,
         \A i \in Jobs : jobrow'[i] \in {jobrow[i], "ABSENT"},
         \A r \in Sites : doc'[r].num = doc[r].num /\ doc'[r].source = doc[r].source
                          /\ (doc'[r].status = "ABSENT" => doc'[r].num = 0)
  PROVE  IInv'
<1>1. (\A i \in Jobs : JobInv(i))'  BY JobRests DEF IInv
<1>2. (\A s \in Sites : Line(s))'  BY LinesRest DEF IInv
<1>3. (\A p \in Servers, s \in Sites : Cached(p, s))'  BY CacheRests DEF IInv
<1> QED  BY <1>1, <1>2, <1>3 DEF IInv

LEMMA RenameKeeps ==
  ASSUME IInv, NEW r \in Renames, ReadForRename(r) \/ SaveRename(r)
  PROVE  IInv'
<1> USE DEF IInv
<1>0. SiteAt[r] \in Sites  OBVIOUS
<1>1. CASE ReadForRename(r)
  <2>1. doc[SiteAt[r]].status \in {"DRAFT", "ACTIVE"}
    BY <1>0, <1>1 DEF ReadForRename, Exists, StoredTyped, Doc
  <2>2. TypeOK'  BY <1>1, <2>1 DEF ReadForRename, StoredTyped, JobsTyped, RequestsTyped
  <2>3. \A s \in Sites : doc[s].status = "ABSENT" => doc[s].num = 0  BY DEF Line
  <2> QED  BY <1>1, <2>2, <2>3, RequestMoves DEF ReadForRename
<1>2. CASE SaveRename(r)
  <2>1. PICK status \in renaming[r] : doc' = SavedProject(SiteAt[r], status, "renamed")
    BY <1>2 DEF SaveRename
  <2>2. status \in {"DRAFT", "ACTIVE"}  BY <2>1 DEF RequestsTyped
  <2>3. /\ doc' \in [Sites -> Doc]
        /\ \A s \in Sites : doc'[s].num = doc[s].num /\ doc'[s].source = doc[s].source
                            /\ (doc'[s].status = "ABSENT" => doc'[s].num = 0)
    BY <1>0, <2>1, <2>2, SavedKeepsVersion
  <2>4. TypeOK'  BY <1>2, <2>3 DEF SaveRename, StoredTyped, JobsTyped, RequestsTyped
  <2> QED  BY <1>2, <2>3, <2>4, RequestMoves DEF SaveRename
<1> QED  BY <1>1, <1>2

LEMMA DeleteStepKeeps ==
  ASSUME IInv, NEW d \in Deletes, DeleteAdmitted(d) \/ DeleteJobs(d) \/ DeleteArtifacts(d) \/ DeleteFails(d)
  PROVE  IInv'
<1> USE DEF IInv
<1>1. TypeOK'
  <2> USE DEF StoredTyped, JobsTyped, RequestsTyped
  <2>1. CASE DeleteAdmitted(d)  BY <2>1 DEF DeleteAdmitted
  <2>2. CASE DeleteJobs(d)  BY <2>2 DEF DeleteJobs
  <2>3. CASE DeleteArtifacts(d)  BY <2>3 DEF DeleteArtifacts
  <2>4. CASE DeleteFails(d)  BY <2>4 DEF DeleteFails
  <2> QED  BY <2>1, <2>2, <2>3, <2>4
<1>2. UNCHANGED <<doc, cache, run, from, latest, base, line, erased, broken>>
  BY DEF DeleteAdmitted, DeleteJobs, DeleteArtifacts, DeleteFails
<1>3. \A i \in Jobs : jobrow'[i] \in {jobrow[i], "ABSENT"}
  BY DEF DeleteAdmitted, DeleteJobs, DeleteArtifacts, DeleteFails
<1>4. \A s \in Sites : doc[s].status = "ABSENT" => doc[s].num = 0  BY DEF Line
<1> QED  BY <1>1, <1>2, <1>3, <1>4, RequestMoves

-----------------------------------------------------------------------------
(* The commit *)

LEMMA Appended ==
  ASSUME NEW q \in Seq(Jobs), NEW j \in Jobs
  PROVE  /\ Append(q, j) \in Seq(Jobs) /\ Len(q) \in Nat /\ Len(Append(q, j)) = Len(q) + 1
         /\ \A i \in 1 .. Len(q) : Append(q, j)[i] = q[i]
         /\ Append(q, j)[Len(q) + 1] = j /\ Append(q, j) # << >>
         /\ DOMAIN q = 1 .. Len(q) /\ DOMAIN Append(q, j) = 1 .. Len(q) + 1
OBVIOUS

LEMMA SwapKeeps ==
  ASSUME IInv, NEW j \in Jobs, Swap(j)
  PROVE  IInv'
<1> USE DEF IInv
<1>0. PICK s \in Sites : s = SiteOf[j]  OBVIOUS
<1>1. /\ run[j] = "checked" /\ run'[j] = "swapped" /\ Exists(s) /\ doc[s].num = latest[j]
      /\ doc' = [doc EXCEPT ![s] = Committed(j)]
      /\ line' = [line EXCEPT ![s] = Append(line[s], j)]
      /\ \A i \in Jobs \ {j} : run'[i] = run[i]
      /\ UNCHANGED <<sources, cache, from, latest, base, jobrow, renaming, deleting, erased, broken>>
  BY <1>0 DEF Swap, SwapMatches, JobsTyped
<1>2. line[s] \in Seq(Jobs) /\ doc[s].num = Len(line[s]) /\ doc[s] \in Doc
  BY DEF Line, StoredTyped
<1>3. PICK k \in Nat : k = Len(line[s]) /\ latest[j] = k  BY <1>1, <1>2
<1>4. PICK q \in Seq(Jobs) : q = Append(line[s], j)  BY <1>2, Appended
<1>5. /\ Len(q) = k + 1 /\ q[k + 1] = j /\ q # << >> /\ DOMAIN q = 1 .. k + 1
      /\ DOMAIN line[s] = 1 .. k
      /\ \A i \in 1 .. k : q[i] = line[s][i]
  BY <1>2, <1>3, <1>4, Appended
<1>6. line'[s] = q /\ \A r \in Sites \ {s} : line'[r] = line[r]
  BY <1>1, <1>4 DEF StoredTyped
<1>7. /\ Committed(j) \in Doc /\ Committed(j).num = k + 1 /\ Committed(j).source = {j}
      /\ Committed(j).status = "ACTIVE"
  <2>1. PICK d \in Doc : d = doc[SiteOf[j]] /\ d.num = k  BY <1>0, <1>2, <1>3
  <2>2. PICK name \in {"none", "generated", "renamed"} : name = IF d.num = 0 THEN "generated" ELSE d.name
    BY DEF Doc
  <2>3. Committed(j) = [status |-> "ACTIVE", num |-> k + 1, source |-> {j}, name |-> name]
    BY <2>1, <2>2 DEF Committed
  <2>4. PICK n \in Nat : n = k + 1 /\ n # 0  OBVIOUS
  <2>5. PICK src \in SUBSET Jobs : src = {j} /\ src # {}
    <3>1. {j} \in SUBSET Jobs /\ {j} # {}  OBVIOUS
    <3> QED  BY <3>1
  <2>6. [status |-> "ACTIVE", num |-> n, source |-> src, name |-> name] \in Doc  BY <2>4, <2>5 DEF Doc
  <2> QED  BY <2>3, <2>4, <2>5, <2>6
<1>8. /\ doc' \in [Sites -> Doc]
      /\ doc'[s].num = k + 1 /\ doc'[s].source = {j} /\ doc'[s].status = "ACTIVE"
      /\ \A r \in Sites \ {s} : doc'[r] = doc[r]
  BY <1>1, <1>7 DEF StoredTyped
<1>9. TypeOK'
  <2>1. line' \in [Sites -> Seq(Jobs)]  BY <1>1, <1>4 DEF StoredTyped
  <2>2. run' \in [Jobs -> Over \cup {"queued", "read", "planned", "captured", "ready", "checked",
                                     "swapped", "committed", "doomed"}]
    BY DEF Swap, JobsTyped
  <2> QED  BY <1>1, <1>8, <2>1, <2>2 DEF StoredTyped, JobsTyped, RequestsTyped
<1>10. KindOf[j] = "edit" /\ s \notin erased <=> k > 0 /\ s \notin erased
  <2>1. KindOf[j] # "edit" => k = 0  BY <1>3 DEF JobInv, Creation
  <2>2. KindOf[j] = "edit" /\ s \notin erased => 0 < from[j] /\ from[j] <= latest[j]
    BY <1>0, <1>1 DEF JobInv, Edit, After
  <2>3. from[j] \in Nat  BY DEF JobsTyped
  <2> QED  BY <1>3, <2>1, <2>2, <2>3
<1>11. k > 0 => KindOf[j] = "edit"  BY <1>3 DEF JobInv, Creation
<1>12. \A r \in Sites : \A i \in 1 .. Len(line[r]) :
         line'[r][i] = line[r][i] /\ line[r][i] \in Jobs /\ line[r][i] # j
  <2> SUFFICES ASSUME NEW r \in Sites, NEW i \in 1 .. Len(line[r])
               PROVE  line'[r][i] = line[r][i] /\ line[r][i] \in Jobs /\ line[r][i] # j
    OBVIOUS
  <2>1. line[r][i] \in Jobs  BY DEF StoredTyped
  <2>2. run[line[r][i]] \in After  BY DEF Line, Item
  <2>3. line'[r][i] = line[r][i]  BY <1>3, <1>5, <1>6
  <2> QED  BY <1>1, <2>1, <2>2, <2>3 DEF After
<1>13. (\A r \in Sites : Line(r))'
  <2> SUFFICES ASSUME NEW r \in Sites PROVE Line(r)'  OBVIOUS
  <2>1. \A i \in 1 .. Len(line[r]) :
          /\ SiteOf[line'[r][i]] = r /\ run'[line'[r][i]] \in After
          /\ i > 1 => KindOf[line'[r][i]] = "edit"
          /\ i = 1 => KindOf[line'[r][i]] # "edit" \/ r \in erased'
    <3> SUFFICES ASSUME NEW i \in 1 .. Len(line[r])
                 PROVE  /\ SiteOf[line'[r][i]] = r /\ run'[line'[r][i]] \in After
                        /\ i > 1 => KindOf[line'[r][i]] = "edit"
                        /\ i = 1 => KindOf[line'[r][i]] # "edit" \/ r \in erased'
      OBVIOUS
    <3>1. PICK c \in Jobs \ {j} : c = line[r][i] /\ c = line'[r][i]  BY <1>12
    <3>2. /\ SiteOf[Item(r, i)] = r /\ run[Item(r, i)] \in After
          /\ i > 1 => KindOf[Item(r, i)] = "edit"
          /\ i = 1 => KindOf[Item(r, i)] # "edit" \/ r \in erased
      BY DEF Line
    <3>3. /\ SiteOf[c] = r /\ run[c] \in After
          /\ i > 1 => KindOf[c] = "edit"
          /\ i = 1 => KindOf[c] # "edit" \/ r \in erased
      BY <3>1, <3>2 DEF Item
    <3> QED  BY <1>1, <3>1, <3>3
  <2>2. CASE r = s
    <3>1. SiteOf[q[k + 1]] = r /\ run'[q[k + 1]] \in After  BY <1>0, <1>1, <1>5, <2>2 DEF After
    <3>2. k + 1 > 1 => KindOf[q[k + 1]] = "edit"  BY <1>5, <1>11
    <3>3. k + 1 = 1 => KindOf[q[k + 1]] # "edit" \/ r \in erased'
      BY <1>1, <1>5, <1>10, <2>2
    <3>4. \A i \in 1 .. Len(line'[r]) :
            /\ SiteOf[line'[r][i]] = r /\ run'[line'[r][i]] \in After
            /\ i > 1 => KindOf[line'[r][i]] = "edit"
            /\ i = 1 => KindOf[line'[r][i]] # "edit" \/ r \in erased'
      <4> SUFFICES ASSUME NEW i \in 1 .. Len(line'[r])
                   PROVE  /\ SiteOf[line'[r][i]] = r /\ run'[line'[r][i]] \in After
                          /\ i > 1 => KindOf[line'[r][i]] = "edit"
                          /\ i = 1 => KindOf[line'[r][i]] # "edit" \/ r \in erased'
        OBVIOUS
      <4>1. i \in 1 .. Len(line[r]) \/ i = k + 1  BY <1>3, <1>5, <1>6, <2>2
      <4> QED  BY <1>6, <2>1, <2>2, <3>1, <3>2, <3>3, <4>1
    <3>5. doc'[r].num = Len(line'[r]) /\ doc'[r].source = {line'[r][Len(line'[r])]} /\ line'[r] # << >>
      BY <1>5, <1>6, <1>8, <2>2
    <3> QED  BY <1>8, <2>2, <3>4, <3>5 DEF Line, Item
  <2>3. CASE r # s
    <3>1. doc'[r] = doc[r] /\ line'[r] = line[r]  BY <1>6, <1>8, <2>3
    <3>2. Line(r)  OBVIOUS
    <3>3. /\ doc'[r].num = Len(line'[r])
          /\ doc'[r].source = IF line'[r] = << >> THEN {} ELSE {line'[r][Len(line'[r])]}
          /\ doc'[r].status = "ABSENT" => doc'[r].num = 0
      BY <3>1, <3>2 DEF Line, Item
    <3>4. \A i \in 1 .. Len(line'[r]) :
            /\ SiteOf[line'[r][i]] = r /\ run'[line'[r][i]] \in After
            /\ i > 1 => KindOf[line'[r][i]] = "edit"
            /\ i = 1 => KindOf[line'[r][i]] # "edit" \/ r \in erased'
      BY <2>1, <3>1
    <3> QED  BY <3>3, <3>4 DEF Line, Item
  <2> QED  BY <2>2, <2>3
<1>14. \A r \in Sites : Len(line[r]) \in Nat /\ Len(line'[r]) \in Nat /\ Len(line[r]) <= Len(line'[r])
  <2> SUFFICES ASSUME NEW r \in Sites
               PROVE  Len(line[r]) \in Nat /\ Len(line'[r]) \in Nat /\ Len(line[r]) <= Len(line'[r])
    OBVIOUS
  <2>1. Len(line[r]) \in Nat  BY DEF StoredTyped
  <2>2. CASE r = s  BY <1>3, <1>5, <1>6, <2>2
  <2>3. CASE r # s  BY <1>6, <2>1, <2>3
  <2> QED  BY <2>2, <2>3
<1>15. \A r \in Sites : Accepted(r)' = Accepted(r) \cup (IF r = s THEN {j} ELSE {})
  <2> SUFFICES ASSUME NEW r \in Sites PROVE Accepted(r)' = Accepted(r) \cup (IF r = s THEN {j} ELSE {})
    OBVIOUS
  <2>1. CASE r = s
    <3>1. {q[i] : i \in 1 .. k + 1} = {line[s][i] : i \in 1 .. k} \cup {j}
      <4>1. \A i \in 1 .. k + 1 : i \in 1 .. k \/ i = k + 1  BY <1>3
      <4>2. k + 1 \in 1 .. k + 1 /\ \A i \in 1 .. k : i \in 1 .. k + 1  BY <1>3
      <4> QED  BY <1>5, <4>1, <4>2
    <3> QED  BY <1>5, <1>6, <2>1, <3>1 DEF Accepted
  <2>2. CASE r # s  BY <1>6, <2>2 DEF Accepted
  <2> QED  BY <2>1, <2>2
<1>16. (\A i \in Jobs : JobInv(i))'
  <2> SUFFICES ASSUME NEW i \in Jobs PROVE JobInv(i)'  OBVIOUS
  <2>0. JobInv(i) /\ SiteOf[i] \in Sites /\ latest[i] \in Nat /\ from[i] \in Nat  BY DEF JobsTyped
  <2>1. Creation(i)'  BY <1>1, <2>0 DEF JobInv, Creation
  <2>2. CASE i = j
    <3>1. Edit(j)'
      <4>1. Edit(j)  BY <2>0, <2>2 DEF JobInv
      <4>2. Len(line[SiteOf[j]]) \in Nat /\ Len(line'[SiteOf[j]]) \in Nat
            /\ Len(line[SiteOf[j]]) <= Len(line'[SiteOf[j]])
        BY <1>0, <1>14
      <4> QED  BY <1>1, <2>0, <2>2, <4>1, <4>2 DEF Edit, After
    <3>2. Placed(j)'
      <4>1. k < Len(line'[s]) /\ line'[s][k + 1] = j  BY <1>3, <1>5, <1>6
      <4>2. latest'[j] = k /\ run'[j] = "swapped"  BY <1>1, <1>3
      <4>3. j \in Accepted(s)'  BY <1>15
      <4> QED  BY <1>0, <4>1, <4>2, <4>3 DEF Placed, Item
    <3>3. Rows(j)' /\ Reads(j)'  BY <1>1, <2>0, <2>2 DEF JobInv, Rows, Reads
    <3> QED  BY <2>1, <2>2, <3>1, <3>2, <3>3 DEF JobInv
  <2>3. CASE i # j
    <3>1. Edit(i)'
      <4> SUFFICES ASSUME KindOf[i] = "edit", SiteOf[i] \notin erased
                   PROVE  /\ run[i] # "idle" => 0 < from[i] /\ from[i] <= Len(line'[SiteOf[i]])
                          /\ run[i] \notin {"idle", "queued"} \cup After =>
                               from[i] <= latest[i] /\ latest[i] <= Len(line'[SiteOf[i]])
                          /\ run[i] \in {"planned", "ready", "checked"} =>
                               latest[i] = from[i] /\ base[i] = {line'[SiteOf[i]][latest[i]]}
                          /\ run[i] # "captured"
        BY <1>1, <2>3 DEF Edit, Item
      <4>1. Edit(i)  BY <2>0 DEF JobInv
      <4>2. Len(line[SiteOf[i]]) \in Nat /\ Len(line'[SiteOf[i]]) \in Nat
            /\ Len(line[SiteOf[i]]) <= Len(line'[SiteOf[i]])
        BY <1>14, <2>0
      <4>3. run[i] \in {"planned", "ready", "checked"} =>
              latest[i] = from[i] /\ base[i] = {line'[SiteOf[i]][latest[i]]}
        <5> SUFFICES ASSUME run[i] \in {"planned", "ready", "checked"}
                     PROVE  latest[i] = from[i] /\ base[i] = {line'[SiteOf[i]][latest[i]]}
          OBVIOUS
        <5>1. latest[i] = from[i] /\ base[i] = {line[SiteOf[i]][latest[i]]} /\ 0 < from[i]
              /\ from[i] <= Len(line[SiteOf[i]])
          BY <4>1 DEF Edit, Item
        <5>2. latest[i] \in 1 .. Len(line[SiteOf[i]])  BY <2>0, <4>2, <5>1
        <5> QED  BY <1>12, <2>0, <5>1, <5>2
      <4> QED  BY <2>0, <4>1, <4>2, <4>3 DEF Edit
    <3>2. Placed(i)'
      <4>1. Placed(i)  BY <2>0 DEF JobInv
      <4>2. ASSUME run[i] \in {"swapped", "committed"}, SiteOf[i] \notin erased
            PROVE  latest[i] < Len(line'[SiteOf[i]]) /\ line'[SiteOf[i]][latest[i] + 1] = i
        <5>1. latest[i] < Len(line[SiteOf[i]]) /\ line[SiteOf[i]][latest[i] + 1] = i
          BY <4>1, <4>2 DEF Placed, Item
        <5>2. Len(line[SiteOf[i]]) \in Nat /\ Len(line'[SiteOf[i]]) \in Nat
              /\ Len(line[SiteOf[i]]) <= Len(line'[SiteOf[i]])
          BY <1>14, <2>0
        <5>3. latest[i] + 1 \in 1 .. Len(line[SiteOf[i]])  BY <2>0, <5>1, <5>2
        <5> QED  BY <1>12, <2>0, <5>1, <5>2, <5>3
      <4>3. Accepted(SiteOf[i]) \subseteq Accepted(SiteOf[i])'  BY <1>15, <2>0
      <4> QED  BY <1>1, <2>3, <4>1, <4>2, <4>3 DEF Placed, Item
    <3>3. Rows(i)' /\ Reads(i)'  BY <1>1, <1>15, <2>0, <2>3 DEF JobInv, Rows, Reads
    <3> QED  BY <2>1, <3>1, <3>2, <3>3 DEF JobInv
  <2> QED  BY <2>2, <2>3
<1>17. (\A p \in Servers, r \in Sites : Cached(p, r))'
  <2> SUFFICES ASSUME NEW p \in Servers, NEW r \in Sites PROVE Cached(p, r)'  OBVIOUS
  <2>1. Cached(p, r) /\ cache[p][r].num \in Nat  BY DEF StoredTyped, Entry
  <2> QED  BY <1>1, <1>12, <1>14, <2>1 DEF Cached, Item
<1> QED  BY <1>9, <1>13, <1>16, <1>17

\* The reply of a commit fills the cache with its own place in the line.
LEMMA CacheVersionKeeps ==
  ASSUME IInv, NEW j \in Jobs, CacheVersion(j)
  PROVE  IInv'
<1> USE DEF IInv
<1>1. /\ run[j] = "swapped" /\ run'[j] = "committed"
      /\ cache' = [cache EXCEPT ![ServerOf[j]][SiteOf[j]] = CachedVersion(j)]
      /\ \A i \in Jobs \ {j} : run'[i] = run[i]
      /\ UNCHANGED <<doc, sources, from, latest, base, jobrow, renaming, deleting, line, erased, broken>>
  BY DEF CacheVersion, JobsTyped
<1>2. ServerOf[j] \in Servers /\ SiteOf[j] \in Sites  OBVIOUS
<1>3. CachedVersion(j) \in Entry /\ CachedVersion(j).num = latest[j] + 1 /\ CachedVersion(j).source = {j}
  <2>1. latest[j] + 1 \in Nat  BY DEF JobsTyped
  <2>2. {j} \in SUBSET Jobs  OBVIOUS
  <2> QED  BY <2>1, <2>2 DEF CachedVersion, Entry
<1>4. /\ cache' \in [Servers -> [Sites -> Entry]]
      /\ \A p \in Servers, s \in Sites :
           cache'[p][s] = IF p = ServerOf[j] /\ s = SiteOf[j] THEN CachedVersion(j) ELSE cache[p][s]
  BY <1>1, <1>2, <1>3 DEF StoredTyped
<1>5. TypeOK'
  <2>1. run' \in [Jobs -> Over \cup {"queued", "read", "planned", "captured", "ready", "checked",
                                     "swapped", "committed", "doomed"}]
    BY DEF CacheVersion, JobsTyped
  <2> QED  BY <1>1, <1>4, <2>1 DEF StoredTyped, JobsTyped, RequestsTyped
<1>6. (\A i \in Jobs : JobInv(i))'
  <2> SUFFICES ASSUME NEW i \in Jobs PROVE JobInv(i)'  OBVIOUS
  <2>1. CASE i = j
    <3>1. Creation(j)'  BY <1>1 DEF JobInv, Creation
    <3>2. Edit(j)'  BY <1>1 DEF JobInv, Edit, After
    <3>3. Placed(j)' /\ Rows(j)' /\ Reads(j)'
      BY <1>1 DEF JobInv, Placed, Rows, Reads, Accepted, Item
    <3> QED  BY <2>1, <3>1, <3>2, <3>3 DEF JobInv
  <2>2. CASE i # j  BY <1>1, <2>2, JobRests
  <2> QED  BY <2>1, <2>2
<1>7. (\A s \in Sites : Line(s))'
  <2>1. \A s \in Sites : doc[s].status = "ABSENT" => doc[s].num = 0  BY DEF Line
  <2> QED  BY <1>1, <2>1, LinesRest DEF After
<1>8. (\A p \in Servers, s \in Sites : Cached(p, s))'
  <2> SUFFICES ASSUME NEW p \in Servers, NEW s \in Sites PROVE Cached(p, s)'  OBVIOUS
  <2>1. CASE p = ServerOf[j] /\ s = SiteOf[j]
    <3>1. s \notin erased => latest[j] < Len(line[s]) /\ line[s][latest[j] + 1] = j
      BY <1>1, <2>1 DEF JobInv, Placed, Item
    <3>2. latest[j] \in Nat /\ Len(line[s]) \in Nat  BY DEF JobsTyped, StoredTyped
    <3>3. cache'[p][s].num = latest[j] + 1 /\ cache'[p][s].source = {j}  BY <1>3, <1>4, <2>1
    <3> QED  BY <1>1, <3>1, <3>2, <3>3 DEF Cached, Item
  <2>2. CASE ~(p = ServerOf[j] /\ s = SiteOf[j])
    <3>1. cache'[p][s] = cache[p][s]  BY <1>4, <2>2
    <3> QED  BY <1>1, <3>1 DEF Cached, Item
  <2> QED  BY <2>1, <2>2
<1> QED  BY <1>5, <1>6, <1>7, <1>8

-----------------------------------------------------------------------------
(* Deletions and crashes *)

LEMMA DeleteProjectKeeps ==
  ASSUME IInv, NEW d \in Deletes, DeleteProject(d)
  PROVE  IInv'
<1> USE DEF IInv
<1>0. PICK s \in Sites : s = SiteAt[d]  OBVIOUS
<1>1. /\ doc' = [doc EXCEPT ![s] = NoDoc]
      /\ line' = [line EXCEPT ![s] = << >>]
      /\ erased' = IF doc[s].num > 0 THEN erased \cup {s} ELSE erased
      /\ UNCHANGED <<sources, cache, run, from, latest, base, jobrow, renaming, broken>>
  BY <1>0 DEF DeleteProject, Dropped
<1>2. NoDoc \in Doc /\ NoDoc.num = 0 /\ NoDoc.source = {}  BY DEF NoDoc, Doc
<1>3. /\ doc' \in [Sites -> Doc] /\ doc'[s].num = 0 /\ doc'[s].source = {}
      /\ \A r \in Sites \ {s} : doc'[r] = doc[r]
  BY <1>1, <1>2 DEF StoredTyped
<1>4. TypeOK'
  <2>1. line' \in [Sites -> Seq(Jobs)]
    <3>1. << >> \in Seq(Jobs)  OBVIOUS
    <3> QED  BY <1>1, <3>1 DEF StoredTyped
  <2>2. deleting' \in [Deletes -> {"idle", "admitted", "jobsGone", "projectGone", "gone"}]
    BY DEF DeleteProject, RequestsTyped
  <2> QED  BY <1>1, <1>3, <2>1, <2>2 DEF StoredTyped, JobsTyped, RequestsTyped
<1>5. line'[s] = << >> /\ \A r \in Sites \ {s} : line'[r] = line[r]  BY <1>1 DEF StoredTyped
<1>6. CASE doc[s].num > 0
  <2>1. erased' = erased \cup {s}  BY <1>1, <1>6
  <2>2. (\A r \in Sites : Line(r))'
    <3> SUFFICES ASSUME NEW r \in Sites PROVE Line(r)'  OBVIOUS
    <3>1. CASE r = s  BY <1>3, <1>5, <3>1 DEF Line
    <3>2. CASE r # s
      <4>1. doc'[r] = doc[r] /\ line'[r] = line[r] /\ (r \in erased' <=> r \in erased) /\ run' = run
        BY <1>1, <1>3, <1>5, <2>1, <3>2
      <4>2. Line(r)  OBVIOUS
      <4> QED  BY <4>1, <4>2 DEF Line, Item
    <3> QED  BY <3>1, <3>2
  <2>3. (\A i \in Jobs : JobInv(i))'
    <3> SUFFICES ASSUME NEW i \in Jobs PROVE JobInv(i)'  OBVIOUS
    <3>0. JobInv(i) /\ SiteOf[i] \in Sites  OBVIOUS
    <3>1. Creation(i)' /\ Reads(i)'  BY <1>1, <3>0 DEF JobInv, Creation, Reads
    <3>2. CASE SiteOf[i] = s
      <4>1. SiteOf[i] \in erased'  BY <2>1, <3>2
      <4>2. Accepted(SiteOf[i])' = {}  BY <1>5, <3>2 DEF Accepted
      <4> QED  BY <1>1, <3>0, <3>1, <4>1, <4>2 DEF JobInv, Edit, Placed, Rows
    <3>3. CASE SiteOf[i] # s
      <4>1. line'[SiteOf[i]] = line[SiteOf[i]] /\ (SiteOf[i] \in erased' <=> SiteOf[i] \in erased)
        BY <1>5, <2>1, <3>0, <3>3
      <4>2. Accepted(SiteOf[i])' = Accepted(SiteOf[i])  BY <4>1 DEF Accepted
      <4>3. Edit(i)'  BY <1>1, <3>0, <4>1 DEF JobInv, Edit, Item
      <4>4. Placed(i)' /\ Rows(i)'  BY <1>1, <3>0, <4>1, <4>2 DEF JobInv, Placed, Rows, Item
      <4> QED  BY <3>1, <4>3, <4>4 DEF JobInv
    <3> QED  BY <3>2, <3>3
  <2>4. (\A p \in Servers, r \in Sites : Cached(p, r))'
    <3> SUFFICES ASSUME NEW p \in Servers, NEW r \in Sites PROVE Cached(p, r)'  OBVIOUS
    <3>1. CASE r = s  BY <2>1, <3>1 DEF Cached
    <3>2. CASE r # s
      <4>1. line'[r] = line[r] /\ (r \in erased' <=> r \in erased)  BY <1>5, <2>1, <3>2
      <4> QED  BY <1>1, <4>1 DEF Cached, Item
    <3> QED  BY <3>1, <3>2
  <2> QED  BY <1>4, <2>2, <2>3, <2>4
<1>7. CASE ~(doc[s].num > 0)
  <2>1. doc[s] \in Doc /\ doc[s].num = Len(line[s])  BY DEF StoredTyped, Line
  <2>2. doc[s].num = 0 /\ doc[s].source = {}  BY <1>7, <2>1 DEF Doc
  <2>3. line[s] = << >>
    <3>1. line[s] \in Seq(Jobs) /\ Len(line[s]) = 0  BY <2>1, <2>2 DEF StoredTyped
    <3> QED  BY <3>1
  <2>4. line' = line /\ erased' = erased  BY <1>1, <1>7, <2>3 DEF StoredTyped
  <2>5. \A r \in Sites : doc'[r].num = doc[r].num /\ doc'[r].source = doc[r].source
                         /\ (doc'[r].status = "ABSENT" => doc'[r].num = 0)
    BY <1>3, <2>2 DEF Line
  <2> QED  BY <1>1, <1>4, <2>4, <2>5, RequestMoves
<1> QED  BY <1>6, <1>7

LEMMA CrashKeeps ==
  ASSUME IInv, NEW p \in Servers, Crash(p)
  PROVE  IInv'
<1> USE DEF IInv
<1>1. UNCHANGED <<doc, sources, from, latest, base, jobrow, renaming, deleting, line, erased, broken>>
  BY DEF Crash
<1>2. \A i \in Jobs : run'[i] = run[i] \/ (run[i] \notin Over /\ run'[i] = "crashed")
  BY DEF Crash, Active
<1>3. NoEntry \in Entry /\ NoEntry.num = 0  BY DEF NoEntry, Entry
<1>4. /\ cache' \in [Servers -> [Sites -> Entry]]
      /\ \A q \in Servers, s \in Sites : cache'[q][s] = cache[q][s] \/ cache'[q][s].num = 0
  BY <1>3 DEF Crash, StoredTyped
<1>5. TypeOK'
  <2>1. run' \in [Jobs -> Over \cup {"queued", "read", "planned", "captured", "ready", "checked",
                                     "swapped", "committed", "doomed"}]
    BY DEF Crash, JobsTyped, Over
  <2> QED  BY <1>1, <1>4, <2>1 DEF StoredTyped, JobsTyped, RequestsTyped
<1>6. (\A i \in Jobs : JobInv(i))'
  <2> SUFFICES ASSUME NEW i \in Jobs PROVE JobInv(i)'  OBVIOUS
  <2>1. CASE run'[i] = run[i]  BY <1>1, <2>1, JobRests
  <2>2. CASE run[i] \notin Over /\ run'[i] = "crashed"
    <3>1. Creation(i)'  BY <1>1 DEF JobInv, Creation
    <3>2. Edit(i)'  BY <1>1, <2>2 DEF JobInv, Edit, After, Over
    <3>3. Placed(i)' /\ Rows(i)' /\ Reads(i)'
      BY <1>1, <2>2 DEF JobInv, Placed, Rows, Reads, Accepted, Over
    <3> QED  BY <3>1, <3>2, <3>3 DEF JobInv
  <2> QED  BY <1>2, <2>1, <2>2
<1>7. (\A s \in Sites : Line(s))'
  <2>1. \A s \in Sites : doc[s].status = "ABSENT" => doc[s].num = 0  BY DEF Line
  <2>2. \A i \in Jobs : run[i] \in After => run'[i] \in After  BY <1>2 DEF After
  <2> QED  BY <1>1, <2>1, <2>2, LinesRest
<1>8. (\A q \in Servers, s \in Sites : Cached(q, s))'  BY <1>1, <1>4 DEF Cached, Item
<1> QED  BY <1>5, <1>6, <1>7, <1>8

-----------------------------------------------------------------------------
(* The invariant *)

LEMMA IInvInit == Init => IInv
<1> SUFFICES ASSUME Init PROVE IInv  OBVIOUS
<1> USE DEF Init
<1>1. StoredTyped
  <2>1. NoDoc \in Doc /\ NoEntry \in Entry /\ << >> \in Seq(Jobs)  BY DEF NoDoc, Doc, NoEntry, Entry
  <2> QED  BY <2>1 DEF StoredTyped
<1>2. JobsTyped /\ RequestsTyped  BY DEF JobsTyped, RequestsTyped, Over
<1>3. \A s \in Sites : Line(s)
  <2>1. NoDoc.num = 0 /\ NoDoc.source = {}  BY DEF NoDoc
  <2> QED  BY <2>1 DEF Line
<1>4. \A j \in Jobs : JobInv(j)  BY DEF JobInv, Creation, Edit, Placed, Rows, Reads, After
<1>5. \A p \in Servers, s \in Sites : Cached(p, s)
  <2>1. NoEntry.num = 0  BY DEF NoEntry
  <2> QED  BY <2>1 DEF Cached
<1> QED  BY <1>1, <1>2, <1>3, <1>4, <1>5 DEF IInv

LEMMA IInvNext == IInv /\ [Next]_vars => IInv'
<1> SUFFICES ASSUME IInv, [Next]_vars PROVE IInv'  OBVIOUS
<1>1. ASSUME NEW j \in Jobs, Pipeline(j) PROVE IInv'
  BY <1>1, StartKeeps, CheckReferenceKeeps, ReadProjectKeeps, ReadVersionKeeps, CaptureKeeps, EndKeeps,
     SaveProjectKeeps, SwapKeeps, CacheVersionKeeps DEF Pipeline
<1>2. ASSUME NEW r \in Renames, ReadForRename(r) \/ SaveRename(r) PROVE IInv'  BY <1>2, RenameKeeps
<1>3. ASSUME NEW d \in Deletes, DeleteJobs(d) \/ DeleteProject(d) \/ DeleteArtifacts(d) \/ DeleteFails(d)
                                \/ DeleteAdmitted(d)
      PROVE  IInv'
  BY <1>3, DeleteStepKeeps, DeleteProjectKeeps
<1>4. ASSUME NEW p \in Servers, Crash(p) PROVE IInv'  BY <1>4, CrashKeeps
<1>5. CASE UNCHANGED vars
  <2>1. UNCHANGED <<doc, sources, cache, run, from, latest, base, jobrow, renaming, deleting, line, erased, broken>>
    BY <1>5 DEF vars
  <2>2. TypeOK'  BY <2>1 DEF IInv, StoredTyped, JobsTyped, RequestsTyped
  <2>3. \A s \in Sites : doc[s].status = "ABSENT" => doc[s].num = 0  BY DEF IInv, Line
  <2> QED  BY <2>1, <2>2, <2>3, RequestMoves
<1> QED  BY <1>1, <1>2, <1>3, <1>4, <1>5 DEF Next

LEMMA Inductive == Spec => []IInv
<1> QED  BY IInvInit, IInvNext, PTL DEF Spec

-----------------------------------------------------------------------------
(* The theorems *)

\* Documents, caches, pipelines and requests keep their shape.
THEOREM TypeCorrect == Spec => []TypeOK
<1>1. IInv => TypeOK  BY DEF IInv
<1> QED  BY <1>1, Inductive, PTL

\* The document of a site counts the accepted candidates and shows the last of
\* them: no save, rename, delete or late commit rolls it back
\* (mongo-repositories.ts).
THEOREM DocumentIsTip == Spec => []CurrentIsTip
<1>1. IInv => CurrentIsTip  BY DEF IInv, Line, Item, CurrentIsTip, Abstract!Tip
<1> QED  BY <1>1, Inductive, PTL

\* A cached version is never another source under the current number, unless
\* the site was deleted and generated again.
THEOREM CacheIsCurrent == Spec => []CacheAgrees
<1>1. ASSUME IInv PROVE CacheAgrees
  <2> SUFFICES ASSUME NEW p \in Servers, NEW s \in Sites, s \notin erased,
                      cache[p][s].num = doc[s].num, doc[s].num > 0
               PROVE  cache[p][s].source = doc[s].source
    BY DEF CacheAgrees
  <2>1. cache[p][s].source = {Item(s, Len(line[s]))} /\ doc[s].num = Len(line[s])
    <3>1. Cached(p, s) /\ Line(s)  BY <1>1 DEF IInv
    <3>2. cache[p][s].source = {Item(s, cache[p][s].num)}  BY <3>1 DEF Cached
    <3>3. doc[s].num = Len(line[s])  BY <3>1 DEF Line
    <3> QED  BY <3>2, <3>3
  <2>2. line[s] # << >>  BY <2>1
  <2> QED  BY <1>1, <2>1, <2>2 DEF IInv, Line
<1> QED  BY <1>1, Inductive, PTL

\* Only the first version of a site comes from a generation, a reference or a
\* template, and only edits follow it.
THEOREM CreatedOnce == Spec => []CreatedOnceThenEdited
<1>1. ASSUME IInv PROVE CreatedOnceThenEdited
  <2> SUFFICES ASSUME NEW s \in Sites, NEW i \in DOMAIN line[s]
               PROVE  /\ i > 1 => KindOf[line[s][i]] = "edit"
                      /\ i = 1 => KindOf[line[s][i]] # "edit" \/ s \in erased
    BY DEF CreatedOnceThenEdited
  <2>1. i \in 1 .. Len(line[s])  BY <1>1 DEF IInv, TypeOK, StoredTyped
  <2>2. Line(s)  BY <1>1 DEF IInv
  <2> QED  BY <2>1, <2>2 DEF Line, Item
<1> QED  BY <1>1, Inductive, PTL

\* What a stored job says about its candidate is true (the saves of the pipelines).
THEOREM RowsAreTrue == Spec => []JobsTellTheTruth
<1>1. IInv => JobsTellTheTruth  BY DEF IInv, JobInv, Placed, Rows, JobsTellTheTruth
<1> QED  BY <1>1, Inductive, PTL

-----------------------------------------------------------------------------
(* The refinement of VersionHistory *)

\* No line has a candidate whose pipeline has not committed it yet.
LEMMA NotAccepted ==
  ASSUME IInv, NEW j \in Jobs, run[j] \notin After
  PROVE  j \notin Abstract!Accepted
<1> SUFFICES ASSUME NEW s \in Sites, NEW i \in DOMAIN line[s], line[s][i] = j PROVE FALSE
  BY DEF Abstract!Accepted
<1>1. i \in 1 .. Len(line[s])  BY DEF IInv, TypeOK, StoredTyped
<1>2. run[Item(s, i)] \in After  BY <1>1 DEF IInv, Line
<1> QED  BY <1>2 DEF Item

\* Restoring a version builds the candidate anew.
LEMMA ReadVersionBuilds ==
  ASSUME IInv, NEW j \in Jobs, ReadVersion(j)
  PROVE  Abstract!Build(j)
<1>1. run[j] = "read"  BY DEF ReadVersion
<1>2. j \notin Abstract!Accepted  BY <1>1, NotAccepted DEF After
<1>3. IInv'  BY ReadVersionKeeps
<1>4. base' \in [Jobs -> SUBSET Jobs]  BY <1>3 DEF IInv, TypeOK, JobsTyped
<1>5. \A d \in Jobs \ {j} : base'[d] = base[d]  BY DEF ReadVersion, IInv, TypeOK, JobsTyped
<1>6. UNCHANGED <<line, erased>>  BY DEF ReadVersion
<1> QED  BY <1>2, <1>4, <1>5, <1>6 DEF Abstract!Build

\* The compare-and-swap accepts a candidate that was built from the tip.
LEMMA SwapAccepts ==
  ASSUME IInv, NEW j \in Jobs, Swap(j)
  PROVE  Abstract!Accept(SiteOf[j], j)
<1> DEFINE s == SiteOf[j]
<1>1. run[j] = "checked" /\ doc[s].num = latest[j]  BY DEF Swap, SwapMatches
<1>2. j \notin Abstract!Accepted  BY <1>1, NotAccepted DEF After
<1>3. s \in Sites  OBVIOUS
<1>4. Line(s) /\ JobInv(j)  BY <1>3 DEF IInv
<1>5. latest[j] = Len(line[s]) /\ line[s] \in Seq(Jobs)  BY <1>1, <1>3, <1>4 DEF Line, IInv, TypeOK, StoredTyped
<1>6. base[j] = Abstract!Tip(line[s]) \/ s \in erased
  <2>1. CASE KindOf[j] # "edit"
    <3>1. base[j] = {} /\ Len(line[s]) = 0  BY <1>4, <1>5, <2>1 DEF JobInv, Creation
    <3>2. line[s] = << >>  BY <1>5, <3>1
    <3> QED  BY <3>1, <3>2 DEF Abstract!Tip
  <2>2. CASE KindOf[j] = "edit" /\ s \notin erased
    <3>1. Edit(j)  BY <1>4 DEF JobInv
    <3>2. 0 < from[j] /\ latest[j] = from[j] /\ base[j] = {line[s][latest[j]]}
      BY <1>1, <2>2, <3>1 DEF Edit, Item
    <3>3. line[s] # << >>
      <4>1. Len(line[s]) # 0  BY <1>5, <3>2
      <4> QED  BY <4>1
    <3> QED  BY <1>5, <3>2, <3>3 DEF Abstract!Tip
  <2> QED  BY <2>1, <2>2
<1>7. line' = [line EXCEPT ![s] = Append(@, j)] /\ UNCHANGED <<base, erased>>  BY DEF Swap
<1> QED  BY <1>2, <1>6, <1>7 DEF Abstract!Accept

\* A deletion erases a line, or finds none.
LEMMA DeleteErases ==
  ASSUME IInv, NEW d \in Deletes, DeleteProject(d)
  PROVE  Abstract!Erase(SiteAt[d]) \/ UNCHANGED <<line, base, erased>>
<1> DEFINE s == SiteAt[d]
<1>1. /\ line' = [line EXCEPT ![s] = << >>]
      /\ erased' = IF doc[s].num > 0 THEN erased \cup {s} ELSE erased
      /\ base' = base
  BY DEF DeleteProject, Dropped
<1>2. s \in Sites  OBVIOUS
<1>3. CASE doc[s].num > 0  BY <1>1, <1>3 DEF Abstract!Erase
<1>4. CASE ~(doc[s].num > 0)
  <2>1. doc[s].num \in Nat /\ doc[s].num = Len(line[s]) /\ line[s] \in Seq(Jobs) /\ line \in [Sites -> Seq(Jobs)]
    BY <1>2 DEF IInv, TypeOK, StoredTyped, Line, Doc
  <2>2. Len(line[s]) = 0  BY <1>4, <2>1
  <2>3. line[s] = << >>  BY <2>1, <2>2
  <2> QED  BY <1>1, <1>4, <2>1, <2>3
<1> QED  BY <1>3, <1>4

LEMMA StepRefines == IInv /\ [Next]_vars => [Abstract!HistoryNext]_(Abstract!historyVars)
<1> SUFFICES ASSUME IInv, [Next]_vars, ~UNCHANGED <<line, base, erased>> PROVE Abstract!HistoryNext
  BY DEF Abstract!historyVars
<1>1. ASSUME NEW j \in Jobs, Pipeline(j) PROVE Abstract!HistoryNext
  <2>1. CASE ReadVersion(j)  BY <2>1, ReadVersionBuilds DEF Abstract!HistoryNext
  <2>2. CASE Swap(j)
    <3>1. SiteOf[j] \in Sites  OBVIOUS
    <3> QED  BY <2>2, <3>1, SwapAccepts DEF Abstract!HistoryNext
  <2>3. CASE ~ReadVersion(j) /\ ~Swap(j)
    <3>1. UNCHANGED <<line, base, erased>>
      BY <1>1, <2>3 DEF Pipeline, Start, SaveDraft, CheckReference, ReadProject, Capture, NoChanges,
         SaveCandidateProject, CommitChecks, CacheVersion, SaveSucceeded, AdoptTemplate, FailPipeline, FailTemplate
    <3> QED  BY <3>1
  <2> QED  BY <2>1, <2>2, <2>3
<1>2. ASSUME NEW d \in Deletes, DeleteProject(d) PROVE Abstract!HistoryNext
  <2>1. SiteAt[d] \in Sites  OBVIOUS
  <2> QED  BY <1>2, <2>1, DeleteErases DEF Abstract!HistoryNext
<1>3. ASSUME NEW r \in Renames, ReadForRename(r) \/ SaveRename(r) PROVE FALSE
  BY <1>3 DEF ReadForRename, SaveRename
<1>4. ASSUME NEW d \in Deletes, DeleteJobs(d) \/ DeleteArtifacts(d) \/ DeleteFails(d) \/ DeleteAdmitted(d)
      PROVE  FALSE
  BY <1>4 DEF DeleteJobs, DeleteArtifacts, DeleteFails, DeleteAdmitted
<1>5. ASSUME NEW p \in Servers, Crash(p) PROVE FALSE  BY <1>5 DEF Crash
<1>6. ~UNCHANGED vars  BY DEF vars
<1> QED  BY <1>1, <1>2, <1>3, <1>4, <1>5, <1>6 DEF Next

\* The store implements VersionHistory: no accepted work is lost, whatever
\* pipelines, retries, renames and deletes of however many processes overlap.
THEOREM Refinement == Spec => HistoryKept
<1>1. Init => Abstract!HistoryInit  BY DEF Init, Abstract!HistoryInit
<1> QED  BY <1>1, Inductive, StepRefines, PTL DEF Spec, HistoryKept, Abstract!HistorySpec

=============================================================================
