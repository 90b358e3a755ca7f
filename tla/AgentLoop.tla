----------------------------- MODULE AgentLoop -----------------------------
(***************************************************************************)
(* The tool loop (agents/agent-loop.ts): a model is asked, its tool calls  *)
(* are executed on the workspace, the observations go back, until a claim  *)
(* of completion is accepted or a limit is reached. The executor turns     *)
(* every failure of a tool into an observation; completion is judged on    *)
(* the workspace, after the other calls of the same response.              *)
(*                                                                         *)
(* A file is abstracted to what the validator tells apart: absent, empty,  *)
(* as the scaffold left it, changed ("plain"), or changed and carrying the *)
(* required page and section markers ("marked").                           *)
(***************************************************************************)
EXTENDS Naturals, Sequences, FiniteSets

CONSTANTS
  Paths,          \* files of the workspace
  Required,       \* requiredFiles
  FileAt,         \* FileAt[name]: the file a call means by a name; the provider resolves
                  \* "src//App.tsx", the executor does not
  Managed,        \* the names that managedFiles matches
  Responses,      \* what the model may answer: sequences of calls
  MaxTurns, MaxToolCalls, MaxFilesWritten

Contents == {"empty", "scaffold", "plain", "marked"}
Writes(call) == call.tool \in {"write_file", "apply_patch"}

\* The files a task names are in the workspace; a response is a sequence of calls, and one
\* that writes says what and where
ASSUME LoopAssumption ==
  /\ FileAt \in [DOMAIN FileAt -> Paths]
  /\ \A p \in Paths : p \in DOMAIN FileAt /\ FileAt[p] = p
  /\ Required \subseteq Paths /\ Managed \subseteq DOMAIN FileAt
  /\ MaxTurns \in Nat /\ MaxToolCalls \in Nat /\ MaxFilesWritten \in Nat
  /\ \A calls \in Responses :
       /\ calls \in Seq({calls[i] : i \in DOMAIN calls})
       /\ \A i \in DOMAIN calls :
            Writes(calls[i]) => calls[i].path \in DOMAIN FileAt /\ calls[i].content \in Contents

VARIABLES
  opts,        \* which options the caller chose, a set of their names
  turn,        \* requests sent
  phase,       \* where run() stands
  outstanding, \* calls of the last response still to be executed, with their positions
  claimed,     \* the response called finalize_generation
  toolCalls,   \* calls counted
  written,     \* filesWritten of the executor
  files,       \* the workspace
  claim,       \* the manifest judged last
  accepted,    \* completionAccepted
  aborted,     \* the signal
  result,      \* what run() returned or threw
  executed,    \* history: calls executed
  misnamed     \* history: files a call wrote under another name than their own

answer == <<outstanding, claimed>>
workspace == <<written, files, misnamed>>
verdict == <<claim, accepted>>
loopVars == <<opts, turn, phase, answer, toolCalls, workspace, verdict, aborted, result, executed>>

Options == {"requirements", "requireFilesWritten", "finalizeOnWrite", "finalizeOnMaxTurns"}
NoClaim == [tool |-> "none"]

LoopInit ==
  /\ opts \in SUBSET Options
  /\ turn = 0 /\ phase = "ask" /\ outstanding = {} /\ claimed = FALSE
  /\ toolCalls = 0 /\ written = 0 /\ executed = 0 /\ misnamed = {}
  /\ files \in [Paths -> {"absent", "scaffold"}]
  /\ \A p \in Required \cup (Managed \cap Paths) : files[p] = "scaffold"
  /\ claim = NoClaim /\ accepted = FALSE /\ aborted = FALSE /\ result = "none"

-----------------------------------------------------------------------------
(* The executor *)

IsFinalize(call) == call.tool = "finalize_generation"
ReadOnly == {"list_files", "read_file", "search_files", "read_logs"}

\* Of several claims only the last one is judged
ToRun(calls) ==
  {[at |-> i, call |-> calls[i]] : i \in {n \in DOMAIN calls :
     IsFinalize(calls[n]) => \A j \in DOMAIN calls : n < j => ~IsFinalize(calls[j])}}

\* The calls are executed in their order, the claim of completion after all of them
MutInPlace(one, other) == one.at < other.at
Precedes(one, other) == ~IsFinalize(one.call) /\ (IsFinalize(other.call) \/ one.at < other.at)

\* #assertWritable compares the name as it was given; #recordWrite: the limit counts a
\* write before it is tried
MayWrite(name) == name \notin Managed /\ written < MaxFilesWritten

\* write_file and apply_patch. A patch needs a text to find; the provider can fail
Put(call) ==
  LET target == FileAt[call.path]
      finds == call.tool = "write_file" \/ files[target] \notin {"absent", "empty"}
  IN IF finds /\ MayWrite(call.path)
     THEN /\ written' = written + 1
          /\ \/ /\ files' = [files EXCEPT ![target] = call.content]
                /\ misnamed' = IF call.path = target THEN misnamed ELSE misnamed \cup {target}
             \/ UNCHANGED <<files, misnamed>>
     ELSE UNCHANGED workspace

\* Everything else leaves the files alone: reading, searching, a build, a preview, a
\* command that is not allow-listed, arguments validateToolArguments refuses
Execute(call) ==
  IF Writes(call) THEN Put(call) ELSE UNCHANGED workspace

-----------------------------------------------------------------------------
(* The validator *)

Present(p) == files[p] \notin {"absent", "empty"}

FileIssues(manifest) ==
  {<<"MISSING_REQUIRED_FILE", p>> : p \in {q \in Required : files[q] = "absent"}} \cup
  {<<"EMPTY_REQUIRED_FILE", p>> : p \in {q \in Required : files[q] = "empty"}} \cup
  {<<"REQUIRED_FILE_NOT_MODIFIED", p>> : p \in {q \in Required : files[q] = "scaffold"}} \cup
  {<<"MISSING_REQUIRED_FILE", p>> :
     p \in {q \in Required : Present(q) /\ q \notin manifest.declared}}

\* The markers of pages and sections are looked for in all sources
Evidence == \E p \in Paths : files[p] = "marked"

Issues(manifest) ==
  FileIssues(manifest) \cup
  (IF manifest.claims THEN {} ELSE {<<"MISSING_PAGE", "manifest">>}) \cup
  (IF Evidence THEN {} ELSE {<<"MISSING_PAGE_EVIDENCE", "source">>})

\* A file that cannot be read counts as missing, or as one without markers
Judge(manifest) ==
  /\ claim' = manifest
  /\ accepted' \in IF "requirements" \notin opts THEN {TRUE}
                   ELSE IF Issues(manifest) = {} THEN BOOLEAN ELSE {FALSE}

-----------------------------------------------------------------------------
(* run() *)

Ends(how) == phase' = "over" /\ result' = how

\* #assertActive, then createResponse
AskModel ==
  /\ phase = "ask" /\ turn < MaxTurns
  /\ IF aborted THEN Ends("cancelled") /\ UNCHANGED turn
     ELSE phase' = "model" /\ turn' = turn + 1 /\ UNCHANGED result
  /\ UNCHANGED <<opts, answer, toolCalls, workspace, verdict, aborted, executed>>

ModelThrows ==
  /\ phase = "model" /\ Ends("failed")
  /\ UNCHANGED <<opts, turn, answer, toolCalls, workspace, verdict, aborted, executed>>

\* No calls: the model is reminded, while it has turns left
Silent ==
  /\ phase = "model"
  /\ LET reminded == /\ turn < MaxTurns
                     /\ \/ "requirements" \in opts
                        \/ "requireFilesWritten" \in opts /\ written = 0
         empty == "requireFilesWritten" \in opts /\ written = 0
     IN IF reminded THEN phase' = "ask" /\ UNCHANGED result
        ELSE Ends(IF empty THEN "limit" ELSE "stopped")
  /\ UNCHANGED <<opts, turn, answer, toolCalls, workspace, verdict, aborted, executed>>

\* More calls than the run may make: it ends before any of them is executed
Respond(calls) ==
  /\ phase = "model"
  /\ toolCalls' = toolCalls + Len(calls)
  /\ IF toolCalls' > MaxToolCalls THEN Ends("failed") /\ UNCHANGED answer
     ELSE /\ phase' = "calls" /\ outstanding' = ToRun(calls)
          /\ claimed' = \E i \in DOMAIN calls : IsFinalize(calls[i])
          /\ UNCHANGED result
  /\ UNCHANGED <<opts, turn, workspace, verdict, aborted, executed>>

RunCall ==
  /\ phase = "calls" /\ executed' = executed + 1
  /\ \E next \in outstanding :
       /\ \A other \in outstanding \ {next} : Precedes(next, other)
       /\ outstanding' = outstanding \ {next}
       /\ IF IsFinalize(next.call) THEN Judge(next.call) /\ UNCHANGED workspace
          ELSE Execute(next.call) /\ UNCHANGED verdict
  /\ UNCHANGED <<opts, turn, phase, claimed, toolCalls, aborted, result>>

\* The observations are put in the order of the calls, unless the job was cancelled
Assemble ==
  /\ phase = "calls" /\ outstanding = {}
  /\ IF aborted THEN Ends("cancelled")
     ELSE IF accepted THEN Ends("accepted")
     ELSE IF {"requirements", "finalizeOnWrite"} \cap opts = {"finalizeOnWrite"} /\ written > 0
     THEN Ends("wrote")
     ELSE IF turn < MaxTurns THEN phase' = "ask" /\ UNCHANGED result
     ELSE Ends(IF "finalizeOnMaxTurns" \in opts THEN "limit" ELSE "failed")
  /\ UNCHANGED <<opts, turn, answer, toolCalls, workspace, verdict, aborted, executed>>

\* The job is cancelled
Abort ==
  /\ ~aborted /\ phase # "over" /\ aborted' = TRUE
  /\ UNCHANGED <<opts, turn, phase, answer, toolCalls, workspace, verdict, result, executed>>

LoopNext ==
  \/ AskModel \/ ModelThrows \/ Silent \/ RunCall \/ Assemble \/ Abort
  \/ \E calls \in Responses : Respond(calls)

LoopSpec == LoopInit /\ [][LoopNext]_loopVars

-----------------------------------------------------------------------------
LoopTypeOK ==
  /\ opts \subseteq Options /\ turn \in 0..MaxTurns /\ phase \in {"ask", "model", "calls", "over"}
  /\ claimed \in BOOLEAN /\ accepted \in BOOLEAN /\ aborted \in BOOLEAN
  /\ toolCalls \in Nat /\ written \in 0..MaxFilesWritten /\ executed \in Nat
  /\ outstanding \subseteq UNION {ToRun(calls) : calls \in Responses}
  /\ files \in [Paths -> Contents \cup {"absent"}] /\ misnamed \subseteq Paths
  /\ result \in {"none", "accepted", "wrote", "stopped", "limit", "failed", "cancelled"}

\* When run() reports an accepted completion, the workspace it leaves behind fulfils the
\* requirements and the manifest, whatever the order in which the model wrote files and
\* claimed completion. On every way out the files the platform manages are untouched, but for
\* those a call wrote under another name, which #assertWritable lets pass; no call was
\* executed beyond the limit, and a run without a claim of completion that reports a change
\* made one attempt at least.
AcceptedIsThere ==
  /\ (result = "accepted" /\ "requirements" \in opts) => (claim # NoClaim /\ Issues(claim) = {})
  /\ result = "accepted" => claimed
  /\ result = "wrote" => written > 0
  /\ \A p \in (Managed \cap Paths) \ misnamed : files[p] = "scaffold"
  /\ executed <= MaxToolCalls
=============================================================================
