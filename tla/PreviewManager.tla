--------------------------- MODULE PreviewManager ---------------------------
(***************************************************************************)
(* The live previews of a server process (DevelopmentPreviewManager) and   *)
(* the execution environments they own (LocalExecutionProvider). Operations*)
(* on one site form a queue of promises, run one at a time; clients, the   *)
(* periodic sweep and close() put operations into it and wait for them.    *)
(*                                                                         *)
(* A session is named by its environment. A reference generation that is   *)
(* retried adopts its environment again, also one that already is a        *)
(* preview or is destroyed: the check before the session is registered     *)
(* then refuses it. Every await of an operation is a step boundary.        *)
(***************************************************************************)
EXTENDS Integers, Sequences, FiniteSets

CONSTANTS
  Sites,
  Envs,       \* environment ids, each used once
  Sweeps,     \* sweeps that can overlap (the timer does not wait for the last one)
  Fragile,    \* environments whose destruction can fail
  Retried,    \* Retried[e]: {} or {the site of the reference generation e is made by}
  MaxQueue    \* bound on the operations waiting for one site

ASSUME PreviewAssumption ==
  /\ Fragile \subseteq Envs
  /\ Retried \in [Envs -> SUBSET Sites]
  /\ \A e \in Envs : \A s, t \in Retried[e] : s = t
  /\ MaxQueue \in Nat \ {0}
  /\ {"client", "close"} \cap Sweeps = {}

VARIABLES
  env,        \* env[e]: "free", "live" or "gone"
  session,    \* session[e]: {} or {the site e is the preview of}
  bySite,     \* bySite[s]: {} or {the environment of its session}
  queue,      \* queue[s]: operations of s not settled yet, the first one running
  expired,    \* sessions not accessed for the ttl
  sweep,      \* sweep[w]: "idle", "walking" over the sessions, or "waiting" for a stop
  seen,       \* seen[w]: sessions the walk has visited
  closing,    \* "open", "draining", "stopping", "closed", "failed"
  drain,      \* drain[s]: operations close() still waits for
  rejected,   \* a stop of close() failed
  unadopted,  \* environments of generations and edits whose adoption was refused
  faulty      \* history: environments whose destruction failed

work == <<sweep, seen, closing, drain, rejected>>
vars == <<env, session, bySite, queue, expired, work, unadopted, faulty>>

Op == [do : {"start", "adopt", "stop"}, env : SUBSET Envs,
       by : {"client", "close"} \cup Sweeps]
First(s) == Head(queue[s])
Busy(s) == queue[s] # <<>>
Sessions == {e \in Envs : session[e] # {}}
Closed == closing # "open"

Init ==
  /\ env = [e \in Envs |-> "free"]
  /\ session = [e \in Envs |-> {}]
  /\ bySite = [s \in Sites |-> {}]
  /\ queue = [s \in Sites |-> <<>>]
  /\ expired = {}
  /\ sweep = [w \in Sweeps |-> "idle"]
  /\ seen = [w \in Sweeps |-> {}]
  /\ closing = "open"
  /\ drain = [s \in Sites |-> 0]
  /\ rejected = FALSE
  /\ unadopted = {}
  /\ faulty = {}

-----------------------------------------------------------------------------
(* Requests: #serialize appends to the site's chain *)

Queued(s, op) == queue' = [queue EXCEPT ![s] = Append(@, op)]
Room(s) == Len(queue[s]) < MaxQueue

AdoptOp(e) == [do |-> "adopt", env |-> {e}, by |-> "client"]
StopOp(e, by) == [do |-> "stop", env |-> {e}, by |-> by]

Start(s) ==
  /\ ~Closed /\ Room(s)
  /\ Queued(s, [do |-> "start", env |-> {}, by |-> "client"])
  /\ UNCHANGED <<env, session, bySite, expired, work, unadopted, faulty>>

\* An environment that became no preview is destroyed, which can fail.
MutNoDispose(e) == UNCHANGED <<env, faulty>>
Disposed(e) ==
  \/ env' = [env EXCEPT ![e] = "gone"] /\ UNCHANGED faulty
  \/ e \in Fragile /\ faulty' = faulty \cup {e} /\ UNCHANGED env

\* The operations that work on e, to make it a preview
Pending(e) ==
  \E s \in Sites : \E i \in DOMAIN queue[s] : queue[s][i].do # "stop" /\ e \in queue[s][i].env

\* A pipeline hands over the environment it retained; a closed manager refuses.
Adopt(s, e) ==
  /\ env[e] = "free" /\ Retried[e] \subseteq {s}
  /\ env' = [env EXCEPT ![e] = "live"]
  /\ \/ ~Closed /\ Room(s) /\ Queued(s, AdoptOp(e)) /\ UNCHANGED unadopted
     \/ Closed /\ unadopted' = unadopted \cup {e} /\ UNCHANGED queue
  /\ UNCHANGED <<session, bySite, expired, work, faulty>>

\* A reference generation whose job failed, before its environment was adopted
\* or after (the job's billing could not be read), offers it again when it is
\* retried, whatever became of it. One job runs at a time.
AdoptAgain(s, e) ==
  /\ s \in Retried[e] /\ env[e] # "free" /\ ~Pending(e) /\ ~Closed /\ Room(s)
  /\ unadopted' = unadopted \ {e}
  /\ Queued(s, AdoptOp(e))
  /\ UNCHANGED <<env, session, bySite, expired, work, faulty>>

\* A template destroys a refused environment, which can fail too; any other
\* pipeline forgets it.
Discard(e) ==
  /\ e \in unadopted /\ Retried[e] = {}
  /\ unadopted' = unadopted \ {e}
  /\ Disposed(e)
  /\ UNCHANGED <<session, bySite, queue, expired, work>>

Stop(e) ==
  /\ \E s \in session[e] : Room(s) /\ Queued(s, StopOp(e, "client"))
  /\ UNCHANGED <<env, session, bySite, expired, work, unadopted, faulty>>

Get(e) ==
  /\ e \in expired
  /\ expired' = expired \ {e}
  /\ UNCHANGED <<env, session, bySite, queue, work, unadopted, faulty>>

TtlPasses(e) ==
  /\ e \in Sessions \ expired
  /\ expired' = expired \cup {e}
  /\ UNCHANGED <<env, session, bySite, queue, work, unadopted, faulty>>

-----------------------------------------------------------------------------
(* The running operation of a site *)

\* What close() still waits for when an operation of s settles
MutDrainStuck(s) == drain[s]
DrainLeft(s) == IF drain[s] > 0 THEN drain[s] - 1 ELSE 0

\* A sweep does not survive a failed stop
AfterStop(ok) == IF ok THEN "walking" ELSE "idle"

\* The promise of the running operation settles: the next one starts, and
\* whoever waits for it goes on.
Settled(s, ok) ==
  /\ queue' = [queue EXCEPT ![s] = Tail(@)]
  /\ drain' = [drain EXCEPT ![s] = DrainLeft(s)]
  /\ sweep' = [w \in Sweeps |-> IF First(s).by = w THEN AfterStop(ok) ELSE sweep[w]]
  /\ rejected' = (rejected \/ (~ok /\ First(s).by = "close"))
  /\ UNCHANGED <<seen, closing>>

\* #stop after the environment was destroyed
SessionDropped(e) == session' = [session EXCEPT ![e] = {}]

Removed(e) ==
  /\ env' = [env EXCEPT ![e] = "gone"]
  /\ SessionDropped(e)
  /\ bySite' = [s \in Sites |-> bySite[s] \ {e}]
  /\ expired' = expired \ {e}

\* start and adopt first stop the preview the site has; when that fails, they
\* fail, and an environment to adopt that is no preview stays with its pipeline.
StopOld(s) ==
  /\ Busy(s) /\ First(s).do # "stop"
  /\ \E e \in bySite[s] : Removed(e)
  /\ UNCHANGED <<queue, work, unadopted, faulty>>

StopOldFails(s) ==
  /\ Busy(s) /\ First(s).do # "stop"
  /\ \E e \in bySite[s] \cap Fragile : faulty' = faulty \cup {e}
  /\ unadopted' = unadopted \cup {e \in First(s).env : env[e] = "live" /\ session[e] = {}}
  /\ Settled(s, FALSE)
  /\ UNCHANGED <<env, session, bySite, expired>>

\* The site has no preview: nothing is left to stop
Vacant(s) == bySite[s] = {}

Registered(s, e) ==
  /\ session' = [session EXCEPT ![e] = {s}]
  /\ bySite' = [bySite EXCEPT ![s] = {e}]

\* The environment to adopt is there and shows the preview it was retained with:
\* no other preview starts in it, so it does until it is destroyed.
MutNotAsked(e) == TRUE
Showing(e) == env[e] = "live"

AdoptReady(s) ==
  /\ Busy(s) /\ First(s).do = "adopt" /\ Vacant(s)
  /\ \E e \in First(s).env : Showing(e) /\ Registered(s, e)
  /\ Settled(s, TRUE)
  /\ UNCHANGED <<env, expired, unadopted, faulty>>

\* Adoption of one that is gone throws, after the old preview was stopped: the
\* site is left without any. The old preview can be the environment itself.
AdoptRefused(s) ==
  /\ Busy(s) /\ First(s).do = "adopt" /\ Vacant(s)
  /\ \E e \in First(s).env : ~Showing(e)
  /\ Settled(s, FALSE)
  /\ UNCHANGED <<env, session, bySite, expired, unadopted, faulty>>

\* restoreVersion creates an environment and builds the version in it; when the
\* build fails it destroys the environment.
Restore(s) ==
  /\ Busy(s) /\ First(s).do = "start" /\ First(s).env = {} /\ Vacant(s)
  /\ \E e \in Envs :
       /\ env[e] = "free" /\ Retried[e] = {}
       /\ env' = [env EXCEPT ![e] = "live"]
       /\ queue' = [queue EXCEPT ![s][1].env = {e}]
  /\ UNCHANGED <<session, bySite, expired, work, unadopted, faulty>>

PreviewReady(s) ==
  /\ Busy(s) /\ First(s).do = "start"
  /\ \E e \in First(s).env : Registered(s, e)
  /\ Settled(s, TRUE)
  /\ UNCHANGED <<env, expired, unadopted, faulty>>

\* The restored version does not build, or its preview does not start.
PreviewFails(s) ==
  /\ Busy(s) /\ First(s).do = "start"
  /\ \E e \in First(s).env : Disposed(e)
  /\ Settled(s, FALSE)
  /\ UNCHANGED <<session, bySite, expired, unadopted>>

\* No environment could be created
RestoreFails(s) ==
  /\ Busy(s) /\ First(s).do = "start" /\ First(s).env = {} /\ Vacant(s)
  /\ Settled(s, FALSE)
  /\ UNCHANGED <<env, session, bySite, expired, unadopted, faulty>>

RunStop(s) ==
  /\ Busy(s) /\ First(s).do = "stop"
  /\ \E e \in First(s).env :
       IF session[e] = {} THEN UNCHANGED <<env, session, bySite, expired>> ELSE Removed(e)
  /\ Settled(s, TRUE)
  /\ UNCHANGED <<unadopted, faulty>>

RunStopFails(s) ==
  /\ Busy(s) /\ First(s).do = "stop"
  /\ \E e \in First(s).env \cap Fragile : session[e] # {} /\ faulty' = faulty \cup {e}
  /\ Settled(s, FALSE)
  /\ UNCHANGED <<env, session, bySite, expired, unadopted>>

-----------------------------------------------------------------------------
(* The sweep and close() *)

SweepBegins(w) ==
  /\ ~Closed /\ sweep[w] = "idle"
  /\ sweep' = [sweep EXCEPT ![w] = "walking"]
  /\ seen' = [seen EXCEPT ![w] = {}]
  /\ UNCHANGED <<env, session, bySite, queue, expired, closing, drain, rejected, unadopted, faulty>>

\* The walk looks at one session after the other, also at those that appear
\* meanwhile, and waits for the stop of an expired one.
MutOverdueInverted(e) == e \notin expired
Overdue(e) == e \in expired

SweepVisits(w, e) ==
  /\ sweep[w] = "walking" /\ e \in Sessions \ seen[w]
  /\ seen' = [seen EXCEPT ![w] = @ \cup {e}]
  /\ IF Overdue(e)
     THEN /\ \E s \in session[e] : Queued(s, StopOp(e, w))
          /\ sweep' = [sweep EXCEPT ![w] = "waiting"]
     ELSE UNCHANGED <<queue, sweep>>
  /\ UNCHANGED <<env, session, bySite, expired, closing, drain, rejected, unadopted, faulty>>

SweepEnds(w) ==
  /\ sweep[w] = "walking" /\ Sessions \subseteq seen[w]
  /\ sweep' = [sweep EXCEPT ![w] = "idle"]
  /\ UNCHANGED <<env, session, bySite, queue, expired, seen, closing, drain, rejected, unadopted, faulty>>

\* close() refuses new previews, waits for the operations pending now ...
PendingNow == [s \in Sites |-> Len(queue[s])]

Close ==
  /\ closing = "open"
  /\ closing' = "draining"
  /\ drain' = PendingNow
  /\ UNCHANGED <<env, session, bySite, queue, expired, sweep, seen, rejected, unadopted, faulty>>

\* ... then stops every session, and fails when one of the stops does
StopAll ==
  /\ closing = "draining" /\ \A s \in Sites : drain[s] = 0
  /\ closing' = "stopping"
  /\ queue' = [s \in Sites |-> queue[s] \o
                 (IF Vacant(s) THEN <<>> ELSE <<StopOp(CHOOSE e \in bySite[s] : TRUE, "close")>>)]
  /\ UNCHANGED <<env, session, bySite, expired, sweep, seen, drain, rejected, unadopted, faulty>>

AwaitsStops == \E s \in Sites : \E i \in DOMAIN queue[s] : queue[s][i].by = "close"

CloseReturns ==
  /\ closing = "stopping" /\ ~AwaitsStops
  /\ closing' = IF rejected THEN "failed" ELSE "closed"
  /\ UNCHANGED <<env, session, bySite, queue, expired, sweep, seen, drain, rejected, unadopted, faulty>>

-----------------------------------------------------------------------------
Operation(s) ==
  \/ StopOld(s) \/ StopOldFails(s) \/ AdoptReady(s) \/ AdoptRefused(s)
  \/ Restore(s) \/ RestoreFails(s) \/ PreviewReady(s) \/ PreviewFails(s) \/ RunStop(s) \/ RunStopFails(s)
Sweeping(w) == SweepBegins(w) \/ SweepEnds(w) \/ \E e \in Envs : SweepVisits(w, e)
Closing == StopAll \/ CloseReturns

Next ==
  \/ \E s \in Sites : Start(s) \/ Operation(s) \/ \E e \in Envs : Adopt(s, e) \/ AdoptAgain(s, e)
  \/ \E e \in Envs : Discard(e) \/ Stop(e) \/ Get(e) \/ TtlPasses(e)
  \/ \E w \in Sweeps : Sweeping(w)
  \/ Close \/ Closing

Spec == Init /\ [][Next]_vars

\* Node runs what is ready, and every call of an operation returns; the timer
\* fires as long as the manager is open.
Fairness ==
  /\ \A s \in Sites : WF_vars(Operation(s))
  /\ \A w \in Sweeps : WF_vars(Sweeping(w))
  /\ WF_vars(Closing)

FairSpec == Spec /\ Fairness

-----------------------------------------------------------------------------
(* Properties *)

MapsTyped ==
  /\ env \in [Envs -> {"free", "live", "gone"}]
  /\ session \in [Envs -> SUBSET Sites]
  /\ bySite \in [Sites -> SUBSET Envs]
  /\ expired \subseteq Envs /\ unadopted \subseteq Envs /\ faulty \subseteq Envs

QueueTyped == queue \in [Sites -> Seq(Op)]

WorkTyped ==
  /\ sweep \in [Sweeps -> {"idle", "walking", "waiting"}]
  /\ seen \in [Sweeps -> SUBSET Envs]
  /\ closing \in {"open", "draining", "stopping", "closed", "failed"}
  /\ drain \in [Sites -> Nat]
  /\ rejected \in BOOLEAN

\* Every variable keeps its shape.
TypeOK == MapsTyped /\ QueueTyped /\ WorkTyped

\* A site has at most one preview, and both maps name it: whatever starts,
\* adoptions, stops and sweeps overlap, none is forgotten or left behind, and
\* none points at an environment that was destroyed.
OnePreviewPerSite ==
  /\ \A s \in Sites : Cardinality(bySite[s]) <= 1
  /\ \A e \in Envs, s \in Sites : e \in bySite[s] <=> s \in session[e]
  /\ \A e \in Sessions : env[e] = "live"

\* A running environment has an owner: a session, or an operation that works on
\* it. The others could not be destroyed, or their adoption was refused. When
\* close() returned without an error no preview is left, and none will start:
\* what was pending, and every sweep still running, is accounted for.
NoStrayEnvironment ==
  /\ \A e \in Envs : env[e] = "live" =>
       \/ e \in Sessions \cup faulty \cup unadopted
       \/ Pending(e)
  /\ closing = "closed" =>
       /\ Sessions = {}
       /\ \A s \in Sites : \A i \in DOMAIN queue[s] : queue[s][i].do = "stop"

\* close() returns, whatever is queued or in flight.
CloseEnds == (closing = "draining") ~> (closing \in {"closed", "failed"})

\* As long as no destruction fails, an expired preview is stopped or accessed
\* again; a failure ends the sweep that met it and can starve the other previews.
SweptOrUsed ==
  [](faulty = {}) => \A e \in Envs : (e \in expired) ~> (e \notin expired)
=============================================================================
