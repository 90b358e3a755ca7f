------------------------- MODULE TemplatePreparation -------------------------
(***************************************************************************)
(* What the publisher does before anything is uploaded: it reads the       *)
(* manifest, lists the files of the developer's directory, copies them to  *)
(* a temporary directory, installs and builds there, serves the result to  *)
(* a browser and, if that finds nothing to object to, packs the files.     *)
(* They are read from the developer's directory each time, where work may  *)
(* go on: a file is abstracted to the number of its edition.               *)
(***************************************************************************)
EXTENDS Naturals, FiniteSets

CONSTANTS
  Files,        \* entries of the developer's directory
  Manifest,     \* one of them: site-template.json
  MaxEdits      \* editions a developer makes during the run (bounded)

\* The manifest is a file of the directory; the developer saves finitely often
ASSUME PreparationAssumption == Manifest \in Files /\ MaxEdits \in Nat

Previews == {"desktop", "tablet", "mobile"}

VARIABLES
  sort,        \* sort[f]: "file", "excluded" (node_modules, dist) or "unsafe" (link, secret)
  edition,     \* edition[f]: of the developer's directory, 0 when it is not there
  edits,       \* editions made so far
  stand,       \* where publish() stands
  manifest,    \* the edition of the manifest the record is made of, 0 before
  listed,      \* packageFiles
  copied,      \* copied[f]: the edition in the temporary directory, 0 before
  packed,      \* packed[f]: the edition in the archive, 0 before
  root,        \* the temporary directory exists
  process,     \* install or build: "none", "alive", "stubborn" or "ended"
  listener,    \* the preview server: "none", "binding", "open", "abandoned" or "closed"
  sessions,    \* activeSessionCount
  taken,       \* previews written
  report,      \* the report of the browser: "none", "pass" or "fail"
  outcome      \* "none", "prepared" or the error thrown

preparationVars == <<sort, edition, edits, stand, manifest, listed, copied, packed, root, process,
                     listener, sessions, taken, report, outcome>>

Nothing == [f \in Files |-> 0]

PreparationInit ==
  /\ sort \in [Files -> {"file", "excluded", "unsafe"}] /\ sort[Manifest] = "file"
  /\ edition \in [Files -> {0, 1}] /\ edits = 0
  /\ stand = "manifest" /\ manifest = 0 /\ listed = {} /\ copied = Nothing /\ packed = Nothing
  /\ root = TRUE /\ process = "none" /\ listener = "none" /\ sessions = 0
  /\ taken = {} /\ report = "none" /\ outcome = "none"

\* The developer saves a file, or removes it
SaveFile(f) ==
  /\ edits < MaxEdits /\ edits' = edits + 1
  /\ \E next \in {0, edits + 2} : edition' = [edition EXCEPT ![f] = next]
  /\ UNCHANGED <<sort, stand, manifest, listed, copied, packed, root, process, listener, sessions,
                 taken, report, outcome>>

\* publish() throws: the temporary directory goes in any case
PublishThrows(code) == stand' = "finally" /\ outcome' = code
GoesTo(where) == stand' = where /\ UNCHANGED outcome

\* loadTemplateManifest: absent, or not what a manifest must be
LoadManifest ==
  /\ stand = "manifest"
  /\ \/ edition[Manifest] # 0 /\ manifest' = edition[Manifest] /\ GoesTo("walk")
     \/ PublishThrows("MANIFEST_INVALID") /\ UNCHANGED manifest
  /\ UNCHANGED <<sort, edition, edits, listed, copied, packed, root, process, listener, sessions,
                 taken, report>>

\* walkSource leaves excluded directories and files out
MutTakesAll == {f \in Files : edition[f] # 0}
Packable == {f \in Files : sort[f] = "file" /\ edition[f] # 0}

\* validateTemplateSource: the required files, then the walk, which stops at a link or at a
\* private file and does not enter excluded directories
Walk ==
  /\ stand = "walk"
  /\ IF edition[Manifest] = 0 THEN PublishThrows("MANIFEST_INVALID") /\ UNCHANGED listed
     ELSE IF \E f \in Files : sort[f] = "unsafe" /\ edition[f] # 0
     THEN PublishThrows("UNSAFE_TEMPLATE_SOURCE") /\ UNCHANGED listed
     ELSE /\ listed' = Packable
          /\ GoesTo("category")
  /\ UNCHANGED <<sort, edition, edits, manifest, copied, packed, root, process, listener, sessions,
                 taken, report>>

\* The category must exist, and be active for an active template
CheckCategory ==
  /\ stand = "category"
  /\ GoesTo("copy") \/ PublishThrows("CATEGORY_NOT_FOUND") \/ PublishThrows("CATEGORY_INACTIVE")
  /\ UNCHANGED <<sort, edition, edits, manifest, listed, copied, packed, root, process, listener,
                 sessions, taken, report>>

\* copyCleanTemplateSource: one file after the other
CopyFile(f) ==
  /\ stand = "copy" /\ f \in listed /\ copied[f] = 0 /\ edition[f] # 0
  /\ copied' = [copied EXCEPT ![f] = edition[f]]
  /\ UNCHANGED <<sort, edition, edits, stand, manifest, listed, packed, root, process, listener,
                 sessions, taken, report, outcome>>

\* A file cannot be copied, or later read for the archive
CopyFails ==
  /\ stand \in {"copy", "pack"} /\ PublishThrows("COPY_FAILED")
  /\ UNCHANGED <<sort, edition, edits, manifest, listed, copied, packed, root, process, listener,
                 sessions, taken, report>>

\* build(): a lockfile and a build script, then the install; the build uses the same steps
StartProcess(before, during) ==
  /\ stand = before
  /\ before = "copy" => \A f \in listed : copied[f] # 0
  /\ \/ process' = "alive" /\ GoesTo(during)
     \/ PublishThrows(IF before = "copy" THEN "MANIFEST_INVALID" ELSE "TEMPLATE_BUILD_FAILED")
        /\ UNCHANGED process
  /\ UNCHANGED <<sort, edition, edits, manifest, listed, copied, packed, root, listener, sessions,
                 taken, report>>

\* It ends, well or not. At its time-out it is stopped, and if it does not mind SIGTERM it
\* runs on; stopAll (finally) tries once more
ProcessEnds(during, after) ==
  /\ stand = during /\ process = "alive"
  /\ \/ process' = "ended" /\ GoesTo(after)
     \/ process' \in {"ended", "stubborn"} /\ PublishThrows("TEMPLATE_BUILD_FAILED")
  /\ UNCHANGED <<sort, edition, edits, manifest, listed, copied, packed, root, listener, sessions,
                 taken, report>>

\* StaticTemplatePreviewServer.start: the build wrote dist/index.html, then listen
Listen ==
  /\ stand = "serve"
  /\ \/ listener' = "binding" /\ GoesTo("listen")
     \/ PublishThrows("TEMPLATE_PREVIEW_SERVER_FAILED") /\ UNCHANGED listener
  /\ UNCHANGED <<sort, edition, edits, manifest, listed, copied, packed, root, process, sessions,
                 taken, report>>

\* close() of a server that does not listen yet closes nothing, and the count is taken back
\* although it was not raised
MutNotClosed == UNCHANGED listener /\ sessions' = IF sessions > 0 THEN sessions - 1 ELSE 0
Closed ==
  /\ listener' = IF listener = "open" THEN "closed" ELSE "abandoned"
  /\ sessions' = IF sessions > 0 THEN sessions - 1 ELSE 0

ListenTimesOut ==
  /\ stand = "listen" /\ Closed /\ PublishThrows("TEMPLATE_PREVIEW_SERVER_FAILED")
  /\ UNCHANGED <<sort, edition, edits, manifest, listed, copied, packed, root, process, taken, report>>

\* listening: the count is raised, then the server is asked for its first page
Bound ==
  /\ stand = "listen" /\ listener' = "open" /\ sessions' = sessions + 1 /\ GoesTo("ready")
  /\ UNCHANGED <<sort, edition, edits, manifest, listed, copied, packed, root, process, taken, report>>

Ready ==
  /\ stand = "ready"
  /\ \/ GoesTo("qa") /\ UNCHANGED <<listener, sessions>>
     \/ Closed /\ PublishThrows("TEMPLATE_PREVIEW_SERVER_FAILED")
  /\ UNCHANGED <<sort, edition, edits, manifest, listed, copied, packed, root, process, taken, report>>

\* One viewport writes its preview (previewCaptureCheck)
Capture(p) ==
  /\ stand = "qa" /\ taken' = taken \cup {p}
  /\ UNCHANGED <<sort, edition, edits, stand, manifest, listed, copied, packed, root, process,
                 listener, sessions, report, outcome>>

\* The runner returns its report or throws; the session is closed first in both cases. A
\* failure of its closing counts, unless there is a failure already.
MutPreviewsAssumed(verdict) == IF verdict = "pass" THEN "none" ELSE "TEMPLATE_BROWSER_QA_FAILED"
Verdict(verdict) ==
  IF verdict # "pass" THEN "TEMPLATE_BROWSER_QA_FAILED"
  ELSE IF taken # Previews THEN "TEMPLATE_PREVIEW_CAPTURE_FAILED" ELSE "none"

RunnerReturns ==
  /\ stand = "qa" /\ Closed
  /\ \E verdict \in {"pass", "fail", "throws"} :
       /\ report' = IF verdict = "throws" THEN "none" ELSE verdict
       /\ IF Verdict(verdict) = "none" THEN GoesTo("pack") ELSE PublishThrows(Verdict(verdict))
  /\ UNCHANGED <<sort, edition, edits, manifest, listed, copied, packed, root, process, taken>>

\* packageTemplateSource reads the listed files from the developer's directory again
PackFile(f) ==
  /\ stand = "pack" /\ f \in listed /\ packed[f] = 0 /\ edition[f] # 0
  /\ packed' = [packed EXCEPT ![f] = edition[f]]
  /\ UNCHANGED <<sort, edition, edits, stand, manifest, listed, copied, root, process, listener,
                 sessions, taken, report, outcome>>

\* The archive is whole: what follows is the upload, or the end of a dry run
Prepared ==
  /\ stand = "pack" /\ \A f \in listed : packed[f] # 0
  /\ stand' = "finally" /\ outcome' = "prepared"
  /\ UNCHANGED <<sort, edition, edits, manifest, listed, copied, packed, root, process, listener,
                 sessions, taken, report>>

\* finally: what rm throws takes the place of the result, or of the error, publish() had
MutErrorLost == UNCHANGED <<root, outcome>>
RemovalFailed == outcome' = "REMOVE_FAILED" /\ UNCHANGED root

RemoveRoot ==
  /\ stand = "finally" /\ stand' = "over"
  /\ (root' = FALSE /\ UNCHANGED outcome) \/ RemovalFailed
  /\ UNCHANGED <<sort, edition, edits, manifest, listed, copied, packed, process, listener, sessions,
                 taken, report>>

PreparationNext ==
  \/ \E f \in Files : SaveFile(f) \/ CopyFile(f) \/ PackFile(f)
  \/ LoadManifest \/ Walk \/ CheckCategory \/ CopyFails
  \/ StartProcess("copy", "install") \/ ProcessEnds("install", "installed")
  \/ StartProcess("installed", "build") \/ ProcessEnds("build", "serve")
  \/ Listen \/ ListenTimesOut \/ Bound \/ Ready \/ RunnerReturns
  \/ \E p \in Previews : Capture(p)
  \/ Prepared \/ RemoveRoot

PreparationSpec == PreparationInit /\ [][PreparationNext]_preparationVars

-----------------------------------------------------------------------------
Editions == 0..(MaxEdits + 1)

PreparationErrors ==
  {"MANIFEST_INVALID", "UNSAFE_TEMPLATE_SOURCE", "CATEGORY_NOT_FOUND", "CATEGORY_INACTIVE",
   "COPY_FAILED", "TEMPLATE_BUILD_FAILED", "TEMPLATE_PREVIEW_SERVER_FAILED",
   "TEMPLATE_BROWSER_QA_FAILED", "TEMPLATE_PREVIEW_CAPTURE_FAILED", "REMOVE_FAILED"}

PreparationTypeOK ==
  /\ sort \in [Files -> {"file", "excluded", "unsafe"}] /\ edits \in 0..MaxEdits
  /\ edition \in [Files -> Editions] /\ copied \in [Files -> Editions]
  /\ packed \in [Files -> Editions] /\ manifest \in Editions
  /\ stand \in {"manifest", "walk", "category", "copy", "install", "installed", "build", "serve",
                "listen", "ready", "qa", "pack", "finally", "over"}
  /\ listed \subseteq Files /\ taken \subseteq Previews /\ root \in BOOLEAN
  /\ process \in {"none", "alive", "stubborn", "ended"}
  /\ listener \in {"none", "binding", "open", "abandoned", "closed"} /\ sessions \in 0..1
  /\ report \in {"none", "pass", "fail"}
  /\ outcome \in {"none", "prepared"} \cup PreparationErrors

\* An archive is prepared only of files that were built and passed the browser, with the
\* three previews, and holds what was tested and the manifest that was read, file by file,
\* unless the developer saved that file after it was read. No private file, link or
\* excluded directory is in it.
PreparedIsTested ==
  outcome = "prepared" =>
    /\ report = "pass" /\ taken = Previews /\ process = "ended"
    /\ \A f \in Files : IF f \in listed THEN sort[f] = "file" ELSE packed[f] = 0
    /\ \A f \in listed : packed[f] = copied[f] \/ edition[f] # copied[f]
    /\ packed[Manifest] = manifest \/ edition[Manifest] # manifest

\* However publish() ends, its server and its processes are gone and the count of servers is
\* back at zero, except a process that did not mind SIGTERM and a server whose port came
\* after its time-out; and its directory is gone, or the caller is told that it is not.
NothingLeftBehind ==
  stand = "over" =>
    /\ root => outcome = "REMOVE_FAILED"
    /\ sessions = 0 /\ process # "alive"
    /\ listener \in {"none", "closed", "abandoned"}
=============================================================================
