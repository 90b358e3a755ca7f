--------------------------- MODULE LocalExecution ---------------------------
(***************************************************************************)
(* Environments on the developer's machine (execution/local): a directory, *)
(* the processes started in it, and calls that run a command, start a      *)
(* preview, write a file or destroy the environment. Every call checks     *)
(* that the environment is known once, when it starts; nothing keeps a     *)
(* command away from a destruction that is under way.                      *)
(*                                                                         *)
(* The manager keeps one Set of processes per environment in a Map. A      *)
(* process leaves its Set when it exits, and an empty Set leaves the Map:  *)
(* "held" is the number of the Set the Map holds (0: none), so a Set that  *)
(* is being iterated can be another one than the Map's.                    *)
(***************************************************************************)
EXTENDS Naturals

CONSTANTS
  Envs,            \* environments
  LocalCalls,      \* calls of the provider; each starts at most one process
  Ports,           \* ports the system hands out
  KeepWorkspace    \* LOCAL_EXECUTION_KEEP_WORKSPACE

ASSUME ExecutionAssumption ==
  "none" \notin LocalCalls /\ "none" \notin Envs /\ KeepWorkspace \in BOOLEAN

VARIABLES
  known,      \* known[e]: "none", "ready" or "gone" in #environments
  folder,     \* folder[e]: its directory exists
  held,       \* held[e]: the Set of processes the Map holds for e
  sets,       \* number of Sets made so far
  at,         \* at[c]: the await at which call c stands
  target,     \* target[c]: its environment
  child,      \* child[c]: the process it started
  stopping,   \* stopping[c]: the process a destruction is stopping
  verdict,    \* verdict[e]: the call whose build succeeded last, if the last one did
  began,      \* history: environments of which a destruction has begun
  pursued     \* history: processes that were sent SIGTERM

executionVars == <<known, folder, held, sets, at, target, child, stopping, verdict, began, pursued>>

None == "none"
NoChild == [kind |-> None, state |-> None, set |-> 0, port |-> None, listens |-> FALSE,
            stubborn |-> FALSE, tardy |-> FALSE, timedOut |-> FALSE]

ExecutionInit ==
  /\ known = [e \in Envs |-> "none"] /\ folder = [e \in Envs |-> FALSE]
  /\ held = [e \in Envs |-> 0] /\ sets = 0
  /\ at = [c \in LocalCalls |-> "idle"] /\ target = [c \in LocalCalls |-> None]
  /\ child = [c \in LocalCalls |-> NoChild] /\ stopping = [c \in LocalCalls |-> None]
  /\ verdict = [e \in Envs |-> None]
  /\ began = {} /\ pursued = {}

Alive(c) == child[c].state = "alive"

\* mkdir, then the map: nobody knows the identity before the call returns
CreateEnvironment(e) ==
  /\ known[e] = "none"
  /\ known' = [known EXCEPT ![e] = "ready"]
  /\ folder' = [folder EXCEPT ![e] = TRUE]
  /\ UNCHANGED <<held, sets, at, target, child, stopping, verdict, began, pursued>>

Starts(c, e, where) ==
  /\ at[c] = "idle" /\ known[e] = "ready"
  /\ at' = [at EXCEPT ![c] = where]
  /\ target' = [target EXCEPT ![c] = e]

Goes(c, where) == at' = [at EXCEPT ![c] = where]

\* #spawn: the process enters the Set of its environment, a new one if there is none.
\* In a directory that is gone it fails to start, and leaves the Set again at once.
Spawned(c, e, kind, port) ==
  LET starts == folder[e]
      fresh == held[e] = 0
  IN /\ child' = [child EXCEPT ![c] =
          [kind |-> kind, port |-> port, tardy |-> e \in began,
           state |-> IF starts THEN "alive" ELSE "failed",
           set |-> IF fresh THEN sets + 1 ELSE held[e],
           listens |-> FALSE, stubborn |-> FALSE, timedOut |-> FALSE]]
     /\ sets' = IF fresh THEN sets + 1 ELSE sets
     /\ held' = IF fresh /\ starts THEN [held EXCEPT ![e] = sets + 1] ELSE held

\* release: the process leaves its Set, and an empty Set leaves the Map if it is the Map's
EntryWithout(c) ==
  LET e == target[c]
      others == {d \in LocalCalls \ {c} : Alive(d) /\ child[d].set = child[c].set}
  IN IF others = {} /\ held[e] = child[c].set THEN [held EXCEPT ![e] = 0] ELSE held

-----------------------------------------------------------------------------
(* Processes *)

\* It ends by itself, or because it was told to; a program that handles SIGTERM may
\* still report success.
Exits(c) ==
  /\ Alive(c)
  /\ \E how \in {"ok", "bad"} \cup (IF c \in pursued THEN {"killed"} ELSE {}) :
       child' = [child EXCEPT ![c].state = how, ![c].listens = FALSE]
  /\ held' = EntryWithout(c)
  /\ UNCHANGED <<known, folder, sets, at, target, stopping, verdict, began, pursued>>

\* The development server takes its port, or another one if that one is taken
Listens(c) ==
  /\ Alive(c) /\ child[c].kind = "preview" /\ ~child[c].listens
  /\ ~\E d \in LocalCalls : child[d].listens /\ child[d].port = child[c].port
  /\ child' = [child EXCEPT ![c].listens = TRUE]
  /\ UNCHANGED <<known, folder, held, sets, at, target, stopping, verdict, began, pursued>>

\* stopProcess, its two seconds over: the process did not mind the signal
Resists(c) ==
  /\ Alive(c) /\ c \in pursued /\ ~child[c].stubborn
  /\ child' = [child EXCEPT ![c].stubborn = TRUE]
  /\ UNCHANGED <<known, folder, held, sets, at, target, stopping, verdict, began, pursued>>

Stopped(c) == ~Alive(c) \/ child[c].stubborn

-----------------------------------------------------------------------------
(* executeCommand *)

RunCommand(c, e) ==
  /\ Starts(c, e, "running")
  /\ Spawned(c, e, "build", None)
  /\ UNCHANGED <<known, folder, stopping, verdict, began, pursued>>

\* The timer fires before the end was seen. A process that has ended is not signalled
TimesOut(c) ==
  /\ at[c] = "running" /\ child[c].state # "failed"
  /\ Goes(c, "stopping")
  /\ child' = [child EXCEPT ![c].timedOut = TRUE]
  /\ pursued' = IF Alive(c) THEN pursued \cup {c} ELSE pursued
  /\ UNCHANGED <<known, folder, held, sets, target, stopping, verdict, began>>

\* "npm run build" succeeded: it exited with 0 and in time
MutExitCodeOnly(c) == child[c].state = "ok"
Succeeded(c) == child[c].state = "ok" /\ ~child[c].timedOut

\* The end of the process resolves the call, or the end of stopProcess does, without a code
CommandEnds(c) ==
  /\ \/ at[c] = "running" /\ child[c].state \in {"ok", "bad", "killed"}
     \/ at[c] = "stopping" /\ Stopped(c)
  /\ Goes(c, "done")
  /\ verdict' = [verdict EXCEPT ![target[c]] = IF Succeeded(c) THEN c ELSE None]
  /\ UNCHANGED <<known, folder, held, sets, target, child, stopping, began, pursued>>

\* The process could not be started: the call throws
CommandFails(c) ==
  /\ at[c] = "running" /\ child[c].state = "failed"
  /\ Goes(c, "done")
  /\ UNCHANGED <<known, folder, held, sets, target, child, stopping, verdict, began, pursued>>

-----------------------------------------------------------------------------
(* startPreview *)

StartPreview(c, e) ==
  /\ Starts(c, e, "port")
  /\ UNCHANGED <<known, folder, held, sets, child, stopping, verdict, began, pursued>>

\* A port that was free when it was asked for and given back at once; the environment
\* is not looked up again
SpawnPreview(c) ==
  /\ at[c] = "port"
  /\ \E port \in Ports :
       /\ ~\E d \in LocalCalls : child[d].listens /\ child[d].port = port
       /\ Spawned(c, target[c], "preview", port)
  /\ Goes(c, "polling")
  /\ UNCHANGED <<known, folder, target, stopping, verdict, began, pursued>>

\* Whoever answers at the port is taken for the preview
PreviewAnswers(c) ==
  /\ at[c] = "polling" /\ child[c].state \notin {"ok", "bad"}
  /\ \E d \in LocalCalls : child[d].listens /\ child[d].port = child[c].port
  /\ Goes(c, "served")
  /\ UNCHANGED <<known, folder, held, sets, target, child, stopping, verdict, began, pursued>>

\* A process killed by a signal has no exit code: only the deadline ends the wait for it
PreviewExited(c) ==
  /\ at[c] = "polling" /\ child[c].state \in {"ok", "bad"}
  /\ Goes(c, "done")
  /\ UNCHANGED <<known, folder, held, sets, target, child, stopping, verdict, began, pursued>>

PreviewDeadline(c) ==
  /\ at[c] = "polling"
  /\ Goes(c, "giving up")
  /\ pursued' = IF Alive(c) THEN pursued \cup {c} ELSE pursued
  /\ UNCHANGED <<known, folder, held, sets, target, child, stopping, verdict, began>>

PreviewFails(c) ==
  /\ at[c] = "giving up" /\ Stopped(c)
  /\ Goes(c, "done")
  /\ UNCHANGED <<known, folder, held, sets, target, child, stopping, verdict, began, pursued>>

-----------------------------------------------------------------------------
(* writeFile: the directories, then the file *)

WriteFile(c, e) ==
  /\ Starts(c, e, "writing")
  /\ UNCHANGED <<known, folder, held, sets, child, stopping, verdict, began, pursued>>

MakeDirectories(c) ==
  /\ at[c] = "writing"
  /\ folder' = [folder EXCEPT ![target[c]] = TRUE]
  /\ child' = [child EXCEPT ![c].tardy = target[c] \in began]
  /\ Goes(c, "done")
  /\ UNCHANGED <<known, held, sets, target, stopping, verdict, began, pursued>>

-----------------------------------------------------------------------------
(* destroyEnvironment *)

\* stopAll begins with the Set the Map holds now. child[c].set remembers it.
Destroy(c, e) ==
  /\ Starts(c, e, "stopping all")
  /\ child' = [child EXCEPT ![c].set = held[e]]
  /\ began' = began \cup {e}
  /\ UNCHANGED <<known, folder, held, sets, stopping, verdict, pursued>>

\* A Set iterates over what it holds, members added on the way included
MutStopsPreviewsOnly(c) ==
  {d \in LocalCalls : /\ Alive(d) /\ target[d] = target[c] /\ child[d].set = child[c].set
                 /\ ~child[d].stubborn /\ child[d].kind = "preview"}
ToStop(c) ==
  {d \in LocalCalls : /\ Alive(d) /\ target[d] = target[c] /\ child[d].set = child[c].set
                 /\ ~child[d].stubborn}

StopNext(c) ==
  /\ at[c] = "stopping all" /\ stopping[c] = None
  /\ \E d \in ToStop(c) :
       /\ stopping' = [stopping EXCEPT ![c] = d]
       /\ pursued' = pursued \cup {d}
  /\ UNCHANGED <<known, folder, held, sets, at, target, child, verdict, began>>

NextStopped(c) ==
  /\ stopping[c] # None /\ Stopped(stopping[c])
  /\ stopping' = [stopping EXCEPT ![c] = None]
  /\ UNCHANGED <<known, folder, held, sets, at, target, child, verdict, began, pursued>>

\* The loop is over: whatever Set the Map holds by now is dropped
StopAllEnds(c) ==
  /\ at[c] = "stopping all" /\ stopping[c] = None /\ ToStop(c) = {}
  /\ held' = [held EXCEPT ![target[c]] = 0]
  /\ Goes(c, "removing")
  /\ UNCHANGED <<known, folder, sets, target, child, stopping, verdict, began, pursued>>

RemoveWorkspace(c) ==
  /\ at[c] = "removing"
  /\ folder' = IF KeepWorkspace THEN folder ELSE [folder EXCEPT ![target[c]] = FALSE]
  /\ known' = [known EXCEPT ![target[c]] = "gone"]
  /\ Goes(c, "done")
  /\ UNCHANGED <<held, sets, target, child, stopping, verdict, began, pursued>>

\* rm gives up: the call throws and the environment stays known
RemovalFails(c) ==
  /\ at[c] = "removing" /\ ~KeepWorkspace
  /\ Goes(c, "done")
  /\ UNCHANGED <<known, folder, held, sets, target, child, stopping, verdict, began, pursued>>

-----------------------------------------------------------------------------
ExecutionNext ==
  \/ \E e \in Envs : CreateEnvironment(e)
  \/ \E c \in LocalCalls, e \in Envs :
       RunCommand(c, e) \/ StartPreview(c, e) \/ WriteFile(c, e) \/ Destroy(c, e)
  \/ \E c \in LocalCalls :
       \/ Exits(c) \/ Listens(c) \/ Resists(c)
       \/ TimesOut(c) \/ CommandEnds(c) \/ CommandFails(c)
       \/ SpawnPreview(c) \/ PreviewAnswers(c) \/ PreviewExited(c)
       \/ PreviewDeadline(c) \/ PreviewFails(c)
       \/ MakeDirectories(c)
       \/ StopNext(c) \/ NextStopped(c) \/ StopAllEnds(c)
       \/ RemoveWorkspace(c) \/ RemovalFails(c)

ExecutionSpec == ExecutionInit /\ [][ExecutionNext]_executionVars

-----------------------------------------------------------------------------
ExecutionTypeOK ==
  /\ known \in [Envs -> {"none", "ready", "gone"}] /\ folder \in [Envs -> BOOLEAN]
  /\ sets \in Nat /\ held \in [Envs -> 0..sets]
  /\ at \in [LocalCalls -> {"idle", "running", "stopping", "port", "polling", "giving up", "served",
                       "writing", "stopping all", "removing", "done"}]
  /\ target \in [LocalCalls -> Envs \cup {None}]
  /\ stopping \in [LocalCalls -> LocalCalls \cup {None}]
  /\ child \in [LocalCalls -> [kind : {None, "build", "preview"}, set : 0..sets,
                          state : {None, "alive", "ok", "bad", "killed", "failed"},
                          port : Ports \cup {None}, listens : BOOLEAN, stubborn : BOOLEAN,
                          tardy : BOOLEAN, timedOut : BOOLEAN]]
  /\ verdict \in [Envs -> LocalCalls \cup {None}]
  /\ began \subseteq Envs /\ pursued \subseteq LocalCalls

\* Once an environment is destroyed nothing of it runs or lies around, except a process
\* that did not mind SIGTERM, or one that was started while a destruction was under way
\* (nothing keeps it away), or a directory that such a call made again or the
\* configuration keeps.
GoneIsGone ==
  \A e \in Envs : known[e] = "gone" =>
    /\ \A c \in LocalCalls : (Alive(c) /\ target[c] = e) => (child[c].stubborn \/ child[c].tardy)
    /\ folder[e] => (KeepWorkspace \/ \E c \in LocalCalls : target[c] = e /\ child[c].tardy)

\* getLastBuildSuccess tells of a build that ended by itself: neither its timer nor a
\* destruction has stopped it, unless a destruction has begun since.
VerdictIsTrue ==
  \A e \in Envs : (verdict[e] # None /\ e \notin began) =>
    /\ child[verdict[e]].state = "ok" /\ verdict[e] \notin pursued
=============================================================================
