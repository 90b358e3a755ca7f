----------------------------- MODULE ModelWork -----------------------------
(***************************************************************************)
(* What the answers of a model become, side by side: the plan of a site,   *)
(* the files a tool loop leaves in a workspace, and the files a bundle of  *)
(* patches changes. The three share no state.                              *)
(***************************************************************************)
EXTENDS SitePlanning, AgentLoop, SourcePatches

\* A plan is a validated answer to its own prompt or the rules' own and said to be, a
\* completion that was accepted is in the workspace, and no write loses another writer's
\* change or leaves a repair half done (planSite, run of the tool loop,
\* applySiteEditPatchBundle, applyValidatedBuildRepairPatches).
ModelWorkChecked == PlansAreChecked /\ AcceptedIsThere /\ NothingHalfDone
=============================================================================
