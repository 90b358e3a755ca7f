---------------------------- MODULE Environments ----------------------------
(***************************************************************************)
(* The two providers of execution environments side by side: directories   *)
(* and processes of the developer's machine, and remote sandboxes. They    *)
(* share no state; what a user of either relies on is stated once.         *)
(***************************************************************************)
EXTENDS LocalExecution, DaytonaExecution

\* A destroyed environment leaves nothing behind, a build's verdict is that of a build that
\* ended by itself, and a sandbox that runs can be destroyed (destroyEnvironment of both
\* providers, getLastBuildSuccess).
EnvironmentsAccounted == GoneIsGone /\ VerdictIsTrue /\ RunningIsOwned
=============================================================================
