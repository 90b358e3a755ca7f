---------------------------- MODULE MCGeneration ----------------------------
(***************************************************************************)
(* The generation pipeline and the parts of it that are models of their    *)
(* own: browser QA, the patches of an edit, the tool loop and planning.    *)
(* "chosen" is fixed at the start and says which of them moves; the others *)
(* keep their first state.                                                 *)
(***************************************************************************)
EXTENDS MCGenerationRun, BrowserQA, ModelWork

CONSTANTS
  A, B,                    \* patches: two files
  app, page1, pkg, pkg2,   \* tool loop: files of a workspace, and another name of the last one
  n1, n2                   \* planning: two calls

VARIABLE chosen

MCViewports == <<"MOBILE">>
MCRoutes == <<"/", "/about">>

\* Texts of two or three letters, in which a patch can find itself again in what
\* another one brought, or in the seam it left; "b" and "c" end a line. Two texts are
\* indented by "s", one of them in the quotes "q".
Indented == {<<"a", "c", "s", "a">>, <<"q", "c", "s", "a", "q">>}
MCSources == [file \in {A, B} |-> IF file = A THEN {<<"a", "a", "b">>, <<"a", "b">>}
                                  ELSE {Absent, <<"a", "c">>} \cup Indented]
MCForeign == {<<"b">>}
MCFinds == {<<"a">>, <<"a", "b">>, <<"b">>, <<"b", "a">>}
MCReplacements == {<<>>, <<"b">>, <<"a", "b">>}
MCLineEnd == [ch \in {"a", "b", "c", "s", "q"} |-> IF ch = "c" THEN "b" ELSE ch]
MCCode == {B}

ToolCall(tool, path, content) == [tool |-> tool, path |-> path, content |-> content]
LoopCalls ==
  {ToolCall("write_file", app, content) : content \in {"empty", "scaffold", "plain", "marked"}}
  \cup {ToolCall("write_file", page1, "marked"), ToolCall("apply_patch", app, "marked")}
  \cup {ToolCall("write_file", name, "plain") : name \in {pkg, pkg2}}
  \cup [tool : {"finalize_generation"}, declared : {{}, {app}}, claims : BOOLEAN]
MCResponses ==
  {<<call1>> : call1 \in LoopCalls \cup {[tool |-> "run_build"]}} \cup (LoopCalls \X LoopCalls)

MCFileAt == [name \in {app, page1, pkg, pkg2} |-> IF name = pkg2 THEN pkg ELSE name]

\* "P" and "p" differ in their case alone, and two pages named in "P" are both the first one
MCKeyOf == [p \in {"P", "p", "q"} |-> IF p = "q" THEN "q" ELSE "p"]
MCRequested == [p \in {"P", "p", "q"} |-> IF p = "P" THEN <<"/", "/">> ELSE <<"/">>]
\* A bundle with an intent that is none of the product is no plan of the consolidated form
SiteAnswer(forms, pages, owns, enforced) ==
  [json |-> pages # <<>>, forms |-> forms, pages |-> pages, owns |-> owns, enforced |-> enforced]
MCAnswers ==
  {SiteAnswer({"plan", "bundle"}, <<"/">>, TRUE, FALSE), SiteAnswer({"bundle"}, <<"/">>, TRUE, FALSE),
   SiteAnswer({"bundle"}, <<"/">>, TRUE, TRUE),
   SiteAnswer({"plan", "bundle"}, <<"/", "/about">>, FALSE, FALSE),
   SiteAnswer({"bundle"}, <<"/", "/about">>, FALSE, FALSE),
   SiteAnswer({"plan"}, <<"/", "/">>, FALSE, FALSE),
   SiteAnswer({"plan"}, <<"/..">>, FALSE, FALSE), SiteAnswer({}, <<>>, FALSE, FALSE)}

-----------------------------------------------------------------------------
GenerationInit ==
  /\ chosen \in {"run", "qa", "patch", "loop", "plan"}
  /\ Init
  /\ QAInit /\ (chosen # "qa" => acceptance = "STRICT")
  /\ PatchInit /\ (disk[B] \in Indented => kind = "repair" /\ disk[A] = <<"a", "b">>)
  /\ (kind = "repair" => ranged) /\ (~ranged => supplied[A] = {Span(0, Len(disk[A]))})
  /\ chosen # "patch" =>
       /\ kind = "edit" /\ ranged /\ supplied[A] = {Span(0, 2)}
       /\ disk = [file \in {A, B} |-> IF file = A THEN <<"a", "b">> ELSE Absent]
  /\ LoopInit /\ (chosen # "loop" => opts = {} /\ files[page1] = "absent")
  /\ PlanningInit
  /\ chosen # "plan" => \A c \in {n1, n2} : mode[c] = "AGENT" /\ ~separate[c] /\ asked[c] = "q"

Rest(moving) ==
  /\ chosen = moving /\ UNCHANGED chosen
  /\ moving # "run" => UNCHANGED vars
  /\ moving # "qa" => UNCHANGED qaVars
  /\ moving # "patch" => UNCHANGED patchVars
  /\ moving # "loop" => UNCHANGED loopVars
  /\ moving # "plan" => UNCHANGED planningVars

GenerationNext ==
  \/ Rest("run") /\ Next
  \/ Rest("qa") /\ QANext
  \/ Rest("patch") /\ PatchNext
  \/ Rest("loop") /\ LoopNext
  \/ Rest("plan") /\ PlanningNext

generationVars == <<chosen, vars, qaVars, patchVars, loopVars, planningVars>>

\* The fairness of GenerationRun, for the run
GenerationSpec ==
  GenerationInit /\ [][GenerationNext]_generationVars /\ WF_vars(chosen = "run" /\ Steps)

-----------------------------------------------------------------------------
(* Bounds *)

\* Once a QA run has failed nothing it does can turn the report around
QABound == blocking => qaPhase \in {"closing", "over"}

\* All patches on one file without a fault, or on both files those that put one letter for what
\* they look for; only a repair looks for a line ending and what follows it. After two
\* patches only an edit of one file goes on that puts a letter for a letter, or deletes one:
\* a third patch is resolved and cut, and is not written.
OfLetters == \A i \in DOMAIN applied : Len(applied[i].find) = 1 /\ Len(applied[i].by) < 2
PatchBound ==
  \/ /\ paths = {A} /\ faults = 0 /\ DOMAIN created = {}
     /\ \A i \in DOMAIN applied : applied[i].find # <<"b", "a">>
     /\ Len(applied) >= 2 /\ patchPhase = "resolving" => kind = "edit" /\ ranged /\ OfLetters
     /\ Len(applied) = 3 => patchPhase \in {"cutting", "resolving"}
  \/ /\ Len(applied) < 3
     /\ \A i \in DOMAIN applied : /\ applied[i].by = <<"b">>
                                 /\ \/ applied[i].find = <<"a">>
                                    \/ applied[i].find = <<"b", "a">> /\ kind = "repair"
     /\ \A file \in DOMAIN created : created[file] = <<"b">>

\* Two options at a time. What a file contains matters to a run that has requirements, and how
\* it is cancelled, or what names a call may use, does not depend on its options
LoopBound ==
  /\ Cardinality(opts) <= 2
  /\ "requirements" \notin opts => \A p \in Paths : files[p] \in {"absent", "scaffold", "plain"}
  /\ aborted => opts = {"requirements"}
  /\ misnamed # {} => opts = {"requirements"} /\ ~aborted

\* Two plans at once, or one that is asked for part by part. The two are alike: the first is
\* asked for first
PlanBound ==
  /\ stand[n2] # "idle" \/ n2 \in cancelled => stand[n1] # "idle"
  /\ ~separate[n2]
  /\ separate[n1] => stand[n2] = "idle" /\ mode[n2] = "AGENT" /\ n2 \notin cancelled

GenerationBound ==
  CASE chosen = "qa" -> QABound
    [] chosen = "patch" -> PatchBound
    [] chosen = "loop" -> LoopBound
    [] chosen = "plan" -> PlanBound
    [] OTHER -> TRUE
=============================================================================
