-------------------------- MODULE DaytonaExecution --------------------------
(***************************************************************************)
(* Environments in remote sandboxes (execution/daytona): the provider      *)
(* keeps a state per sandbox it could prepare, the client keeps the        *)
(* vendor's handle of each sandbox it made. Every call to the vendor can   *)
(* fail, before or after it took effect, and sandboxes expire by           *)
(* themselves.                                                             *)
(***************************************************************************)
EXTENDS Naturals

CONSTANTS Sandboxes, DaytonaCalls, MaxAttempts

ASSUME DaytonaAssumption == MaxAttempts \in Nat

VARIABLES
  running,     \* sandboxes the vendor runs (and bills)
  handle,      \* sandboxes the client holds a handle of
  state,       \* state[s]: cleanupStatus, "none" before and "CLEANED" after #states has it
  making,      \* making[s]: where createEnvironment stands
  does,        \* does[c]: <<operation, sandbox, handle was held>> the call awaits, or <<>>
  session,     \* session[s]: a preview session was started
  lastBuild,   \* lastBuild[s]: "none", "ok", "bad" or "timeout"
  attempts,    \* destructions asked for so far (bounded)
  half         \* history: sandboxes whose creation failed half-way

daytonaVars == <<running, handle, state, making, does, session, lastBuild, attempts, half>>

Idle == <<>>

DaytonaInit ==
  /\ running = {} /\ handle = {} /\ half = {} /\ attempts = 0
  /\ state = [s \in Sandboxes |-> "none"] /\ making = [s \in Sandboxes |-> "no"]
  /\ does = [c \in DaytonaCalls |-> Idle]
  /\ session = [s \in Sandboxes |-> FALSE] /\ lastBuild = [s \in Sandboxes |-> "none"]

Known(s) == state[s] \in {"ACTIVE", "CLEANUP_REQUESTED", "CLEANUP_FAILED"}

\* client.create: the answer can be lost, and with it the handle
AskSandbox(s) ==
  /\ making[s] = "no"
  /\ \/ running' = running \cup {s} /\ handle' = handle \cup {s}
        /\ making' = [making EXCEPT ![s] = "folder"] /\ UNCHANGED half
     \/ running' = running \cup {s} /\ half' = half \cup {s}
        /\ making' = [making EXCEPT ![s] = "over"] /\ UNCHANGED handle
     \/ making' = [making EXCEPT ![s] = "over"] /\ UNCHANGED <<running, handle, half>>
  /\ UNCHANGED <<state, does, session, lastBuild, attempts>>

\* createFolder: when it throws, nothing deletes the sandbox that was made
PrepareSandbox(s) ==
  /\ making[s] = "folder"
  /\ making' = [making EXCEPT ![s] = "over"]
  /\ \/ s \in running /\ state' = [state EXCEPT ![s] = "ACTIVE"] /\ UNCHANGED half
     \/ half' = half \cup {s} /\ UNCHANGED state
  /\ UNCHANGED <<running, handle, does, session, lastBuild, attempts>>

Begin(c, s, operation) ==
  /\ does[c] = Idle /\ Known(s)
  /\ does' = [does EXCEPT ![c] = <<operation, s, s \in handle>>]

Awaits(c, s, operation) == does[c] \in {<<operation, s, held>> : held \in BOOLEAN}
Ends(c) == does' = [does EXCEPT ![c] = Idle]

\* executeCommand of "npm run build": a vendor's time-out is a result, another error throws
ExecuteBuild(c, s) ==
  /\ Begin(c, s, "build")
  /\ UNCHANGED <<running, handle, state, making, session, lastBuild, attempts, half>>

BuildAnswers(c, s) ==
  /\ Awaits(c, s, "build") /\ Ends(c)
  /\ \E result \in {"bad", "timeout"} \cup (IF s \in running THEN {"ok"} ELSE {}) :
       lastBuild' = [lastBuild EXCEPT ![s] = result]
  /\ UNCHANGED <<running, handle, state, making, session, attempts, half>>

BuildThrows(c, s) ==
  /\ Awaits(c, s, "build") /\ Ends(c)
  /\ UNCHANGED <<running, handle, state, making, session, lastBuild, attempts, half>>

\* startPreview: the session stays when the preview does not become ready
LaunchPreview(c, s) ==
  /\ Begin(c, s, "preview")
  /\ UNCHANGED <<running, handle, state, making, session, lastBuild, attempts, half>>

PreviewLaunched(c, s) ==
  /\ Awaits(c, s, "preview") /\ Ends(c)
  /\ session' = IF s \in running THEN [session EXCEPT ![s] = TRUE] ELSE session
  /\ UNCHANGED <<running, handle, state, making, lastBuild, attempts, half>>

\* destroyEnvironment
RequestCleanup(c, s) ==
  /\ attempts < MaxAttempts /\ attempts' = attempts + 1
  /\ Begin(c, s, "delete")
  /\ state' = [state EXCEPT ![s] = "CLEANUP_REQUESTED"]
  /\ UNCHANGED <<running, handle, making, session, lastBuild, half>>

\* A call that found no handle asks nothing of the vendor, and succeeds
Held(c) == does[c][3]

Cleaned(c, s) ==
  /\ Awaits(c, s, "delete") /\ Ends(c)
  /\ running' = IF Held(c) THEN running \ {s} ELSE running
  /\ handle' = handle \ {s}
  /\ state' = [state EXCEPT ![s] = "CLEANED"]
  /\ UNCHANGED <<making, session, lastBuild, attempts, half>>

\* The vendor refuses, or its answer is lost: the state stays, and with it the handle.
\* A state another call has removed already is not put back.
MutForgets(s) == "CLEANED"
Kept(s) == IF state[s] = "CLEANED" THEN "CLEANED" ELSE "CLEANUP_FAILED"
CleanupFails(c, s) ==
  /\ Awaits(c, s, "delete") /\ Ends(c) /\ Held(c)
  /\ running' \in {running, running \ {s}}
  /\ state' = [state EXCEPT ![s] = Kept(s)]
  /\ UNCHANGED <<handle, making, session, lastBuild, attempts, half>>

\* ttlMinutes: the vendor ends the sandbox, nobody is told
Expires(s) ==
  /\ s \in running /\ running' = running \ {s}
  /\ UNCHANGED <<handle, state, making, does, session, lastBuild, attempts, half>>

DaytonaNext ==
  \/ \E s \in Sandboxes : AskSandbox(s) \/ PrepareSandbox(s) \/ Expires(s)
  \/ \E c \in DaytonaCalls, s \in Sandboxes :
       \/ ExecuteBuild(c, s) \/ BuildAnswers(c, s) \/ BuildThrows(c, s)
       \/ LaunchPreview(c, s) \/ PreviewLaunched(c, s)
       \/ RequestCleanup(c, s) \/ Cleaned(c, s) \/ CleanupFails(c, s)

DaytonaSpec == DaytonaInit /\ [][DaytonaNext]_daytonaVars

-----------------------------------------------------------------------------
DaytonaTypeOK ==
  /\ running \subseteq Sandboxes /\ handle \subseteq Sandboxes /\ half \subseteq Sandboxes
  /\ state \in [Sandboxes -> {"none", "ACTIVE", "CLEANUP_REQUESTED", "CLEANUP_FAILED", "CLEANED"}]
  /\ making \in [Sandboxes -> {"no", "folder", "over"}]
  /\ does \in [DaytonaCalls -> {Idle} \cup ({"build", "preview", "delete"} \X Sandboxes \X BOOLEAN)]
  /\ session \in [Sandboxes -> BOOLEAN]
  /\ lastBuild \in [Sandboxes -> {"none", "ok", "bad", "timeout"}]
  /\ attempts \in 0..MaxAttempts

\* A sandbox that runs can still be destroyed: the provider has a state for it and the
\* client its handle, unless its creation failed half-way (nobody deletes it then, it
\* runs until it expires). A failed destruction can be tried again.
RunningIsOwned ==
  \A s \in running : (Known(s) /\ s \in handle) \/ making[s] = "folder" \/ s \in half
=============================================================================
