------------------------------ MODULE DevJobs ------------------------------
(***************************************************************************)
(* The development job manager and everybody who follows a job: one        *)
(* mutation at a time, a bounded memory of finished jobs, a bounded event  *)
(* history, event streams over HTTP and sockets that join late, and the    *)
(* retry of a reference generation under one request identity.             *)
(*                                                                         *)
(* A job runs a workflow (the pipeline, LocalSiteGenerationPipeline) and   *)
(* then delivers it: the preview is adopted and the billing fields read.   *)
(* A generation publishes its stages, COMPLETED last; an edit publishes    *)
(* none. Only a reference generation has a request identity. Ownership is  *)
(* left out: all jobs and requests are of one owner.                       *)
(***************************************************************************)
EXTENDS Integers, Sequences, FiniteSets, SequencesExt

CONSTANTS
  Jobs,        \* job identities that can be handed out
  Edits,       \* those of them that are edits
  Requests,    \* generationRequestIds
  Streams,     \* HTTP event streams
  Sockets,     \* socket connections that forward a job
  MaxJobs,     \* records kept before the oldest finished one is dropped (100)
  MaxEvents,   \* events kept of a job (500)
  MaxAttempts, \* request identities kept (500)
  MaxUpdates   \* bound of the model: events a workflow publishes

ASSUME DevJobsAssumption ==
  /\ IsFiniteSet(Jobs) /\ Edits \subseteq Jobs
  /\ Streams \cap Sockets = {}
  /\ {MaxJobs, MaxEvents, MaxAttempts} \subseteq Nat \ {0}
  /\ MaxUpdates \in Nat

VARIABLES
  kept,     \* the records in memory, oldest first
  status,   \* DevJobRecord.status, "none" before start
  step,     \* where the asynchronous part of a job stands
  events,   \* DevJobRecord.events
  emitted,  \* every event ever emitted of a job, dropped ones included
  busy,     \* #mutationRunning
  request,  \* the request identity a job was started for, if any
  attempt,  \* #referenceGenerations: known, the last job, the workflow's result
  made,     \* sites generated under a request identity
  sink      \* what a follower has been sent

vars == <<kept, status, step, events, emitted, busy, request, attempt, made, sink>>
History == <<kept, busy, request, attempt, made>>

Followers == Streams \cup Sockets
Ended == {"SUCCEEDED", "FAILED"}
Terminal == {"JOB_COMPLETED", "JOB_FAILED"}

Init ==
  /\ kept = << >>
  /\ status = [j \in Jobs |-> "none"]
  /\ step = [j \in Jobs |-> "none"]
  /\ events = [j \in Jobs |-> << >>]
  /\ emitted = [j \in Jobs |-> << >>]
  /\ busy = FALSE
  /\ request = [j \in Jobs |-> {}]
  /\ attempt = [q \in Requests |-> [known |-> FALSE, job |-> {}, result |-> FALSE]]
  /\ made = [q \in Requests |-> 0]
  /\ sink = [c \in Followers |-> [job |-> {}, open |-> FALSE, out |-> << >>]]

Records == {kept[i] : i \in DOMAIN kept}

-----------------------------------------------------------------------------
(* Events and followers *)

MutCapOffByOne(s) == IF Len(s) > MaxEvents + 1 THEN SubSeq(s, Len(s) - MaxEvents, Len(s)) ELSE s

\* The last MaxEvents of a history.
Capped(s) == IF Len(s) > MaxEvents THEN SubSeq(s, Len(s) - MaxEvents + 1, Len(s)) ELSE s

Sent(s, messages) == [s EXCEPT !.out = @ \o messages]
Closed(s) == [s EXCEPT !.open = FALSE]

\* An event stream writes every event and ends with the terminal one.
Streamed(s, e) ==
  LET written == Sent(s, <<e>>) IN IF e \in Terminal THEN Closed(written) ELSE written

MutTerminalTwice(s) == TRUE

\* The guard of forwardJob: nothing more after its terminal message.
Forwarding(s) == s.open

\* A socket keeps the tasks to itself, shows the public stage COMPLETED once,
\* and turns the terminal event into its terminal message.
Forwarded(s, e) ==
  LET progress == IF Contains(s.out, "completed") THEN << >> ELSE <<"completed">> IN
  IF ~Forwarding(s) \/ e = "task" THEN s
  ELSE CASE e = "JOB_FAILED" -> Closed(Sent(s, <<"JOB_FAILED">>))
         [] e = "JOB_COMPLETED" -> Closed(Sent(s, progress \o <<"JOB_COMPLETED">>))
         [] e = "completed" -> Sent(s, progress)
         [] OTHER -> Sent(s, <<e>>)

Delivered(c, s, e) == IF c \in Sockets THEN Forwarded(s, e) ELSE Streamed(s, e)

\* What a follower has been sent once it was called for each event of a list.
Shown(c, s, list) ==
  LET said[n \in 0 .. Len(list)] == IF n = 0 THEN s ELSE Delivered(c, said[n - 1], list[n])
  IN  said[Len(list)]

\* #emit, for each of some events: the history is capped and every follower of
\* the job is called.
Emit(j, new) ==
  /\ emitted' = [emitted EXCEPT ![j] = @ \o new]
  /\ events' = [events EXCEPT ![j] = Capped(@ \o new)]
  /\ sink' = [c \in Followers |->
                IF sink[c].open /\ j \in sink[c].job
                THEN Shown(c, sink[c], new)
                ELSE sink[c]]

-----------------------------------------------------------------------------
(* Starting a job *)

MutNeverBusy == TRUE

\* The test that keeps a second generation or edit out.
NotBusy == ~busy

\* How many records start() drops, oldest first: those of yesterday, and one
\* when the memory is full. All of them are finished: nothing is running.
Dropped == {n \in 0..Len(kept) : Len(kept) - n < MaxJobs}

\* jobs.start, up to the return of the record.
Start(j, why) ==
  /\ NotBusy
  /\ status[j] = "none"
  /\ \E old \in Dropped : kept' = Append(SubSeq(kept, old + 1, Len(kept)), j)
  /\ status' = [status EXCEPT ![j] = "QUEUED"]
  /\ step' = [step EXCEPT ![j] = "queued"]
  /\ request' = [request EXCEPT ![j] = why]
  /\ busy' = TRUE
  /\ Emit(j, <<"JOB_STARTED">>)

\* A plain generation, or an edit.
Submit(j) ==
  /\ Start(j, {})
  /\ UNCHANGED <<attempt, made>>

\* The job of a request identity is not returned again: there is none, it was
\* dropped, or it failed.
NeedsJob(q) == \A j \in attempt[q].job : j \notin Records \/ status[j] = "FAILED"

\* A reference generation. An identity is admitted while there is room.
Generate(q, j) ==
  /\ j \notin Edits
  /\ NeedsJob(q)
  /\ attempt[q].known \/ Cardinality({p \in Requests : attempt[p].known}) < MaxAttempts
  /\ Start(j, {q})
  /\ attempt' = [attempt EXCEPT ![q].known = TRUE, ![q].job = {j}]
  /\ UNCHANGED made

\* The same while another job runs: the identity is remembered, without a job.
GenerateBusy(q) ==
  /\ busy
  /\ ~attempt[q].known
  /\ Cardinality({p \in Requests : attempt[p].known}) < MaxAttempts
  /\ attempt' = [attempt EXCEPT ![q].known = TRUE]
  /\ UNCHANGED <<kept, status, step, events, emitted, busy, request, made, sink>>

-----------------------------------------------------------------------------
(* Running it *)

MutAlwaysGenerates(j) == FALSE

\* The workflow's result is there from an earlier job of the request.
HasResult(j) == \E q \in request[j] : attempt[q].result

Run(j) ==
  /\ step[j] = "queued"
  /\ status' = [status EXCEPT ![j] = "RUNNING"]
  /\ step' = [step EXCEPT ![j] = IF HasResult(j) THEN "delivering" ELSE "working"]
  /\ UNCHANGED <<events, emitted, sink, kept, busy, request, attempt, made>>

\* An intelligence task is updated, or a generation publishes a stage.
Update(j) ==
  /\ step[j] = "working"
  /\ Len(emitted[j]) <= MaxUpdates
  /\ \E e \in {"task"} \cup (IF j \in Edits THEN {} ELSE {"stage"}) : Emit(j, <<e>>)
  /\ UNCHANGED <<status, step>>
  /\ UNCHANGED History

\* The workflow returns, a generation right after it published COMPLETED; the
\* result of a reference generation is kept.
WorkflowReturns(j) ==
  /\ step[j] = "working"
  /\ Emit(j, IF j \in Edits THEN << >> ELSE <<"completed">>)
  /\ attempt' = [q \in Requests |-> [attempt[q] EXCEPT !.result = @ \/ q \in request[j]]]
  /\ made' = [q \in Requests |-> IF q \in request[j] THEN made[q] + 1 ELSE made[q]]
  /\ step' = [step EXCEPT ![j] = "delivering"]
  /\ UNCHANGED <<kept, status, busy, request>>

\* The preview is adopted and the billing fields are read.
Succeed(j) ==
  /\ step[j] = "delivering"
  /\ status' = [status EXCEPT ![j] = "SUCCEEDED"]
  /\ step' = [step EXCEPT ![j] = "settling"]
  /\ Emit(j, <<"JOB_COMPLETED">>)
  /\ UNCHANGED History

\* The workflow throws, its preview is not adopted or a read fails. A task that
\* was running is settled first.
Fail(j) ==
  /\ step[j] \in {"working", "delivering"}
  /\ status' = [status EXCEPT ![j] = "FAILED"]
  /\ step' = [step EXCEPT ![j] = "settling"]
  /\ \E unsettled \in {<< >>} \cup (IF Contains(emitted[j], "task") THEN {<<"task">>} ELSE {}) :
       Emit(j, unsettled \o <<"JOB_FAILED">>)
  /\ UNCHANGED History

MutBusyAfterFailure(j) == status[j] = "FAILED"

\* The flag once a job has settled.
StillBusy(j) == FALSE

\* finally: the next job may start.
Settle(j) ==
  /\ step[j] = "settling"
  /\ step' = [step EXCEPT ![j] = "done"]
  /\ busy' = StillBusy(j)
  /\ UNCHANGED <<kept, status, events, emitted, request, attempt, made, sink>>

-----------------------------------------------------------------------------
(* Following it *)

\* What a follower that joins is shown first.
Replayed(j) == events[j]

\* An event stream replays the history and ends at once for a finished job.
Follow(c, j) ==
  /\ c \in Streams
  /\ ~sink[c].open
  /\ j \in Records
  /\ sink' = [sink EXCEPT ![c] =
                [job |-> {j}, open |-> status[j] \notin Ended, out |-> Replayed(j)]]
  /\ UNCHANGED <<kept, status, step, events, emitted, busy, request, attempt, made>>

\* The last call of forwardJob: the terminal message of a job that has ended.
Concluded(s, j) ==
  IF Forwarding(s) /\ status[j] \in Ended
  THEN Closed(Sent(s, <<IF status[j] = "SUCCEEDED" THEN "JOB_COMPLETED" ELSE "JOB_FAILED">>))
  ELSE s

\* forwardJob: in the same turn as the start of a generation, a little later for
\* an edit. It subscribes, replays the history and looks at the status.
Forward(c, j) ==
  /\ c \in Sockets
  /\ sink[c].job = {}
  /\ j \in Records /\ request[j] = {}
  /\ j \in Edits \/ step[j] = "queued"
  /\ sink' = [sink EXCEPT ![c] =
                Concluded(Shown(c, [job |-> {j}, open |-> TRUE, out |-> << >>],
                                Replayed(j)), j)]
  /\ UNCHANGED <<kept, status, step, events, emitted, busy, request, attempt, made>>

\* The client of an event stream goes away.
Leave(c) ==
  /\ c \in Streams
  /\ sink[c].open
  /\ sink' = [sink EXCEPT ![c] = [job |-> {}, open |-> FALSE, out |-> << >>]]
  /\ UNCHANGED <<kept, status, step, events, emitted, busy, request, attempt, made>>

Workflow(j) ==
  \/ Run(j) \/ Update(j) \/ WorkflowReturns(j)
  \/ Succeed(j) \/ Fail(j) \/ Settle(j)

Next ==
  \/ \E j \in Jobs : Submit(j) \/ Workflow(j)
  \/ \E q \in Requests : GenerateBusy(q) \/ \E j \in Jobs : Generate(q, j)
  \/ \E c \in Followers : Leave(c) \/ \E j \in Jobs : Follow(c, j) \/ Forward(c, j)

Spec == Init /\ [][Next]_vars

\* A started workflow goes on and ends: what it waits for answers or fails.
FairSpec == Spec /\ \A j \in Jobs : WF_vars(Workflow(j))

-----------------------------------------------------------------------------
(* Properties *)

\* Every variable keeps its shape, and the memories their bounds.
TypeOK ==
  /\ kept \in Seq(Jobs) /\ Len(kept) <= MaxJobs
  /\ status \in [Jobs -> {"none", "QUEUED", "RUNNING"} \cup Ended]
  /\ step \in [Jobs -> {"none", "queued", "working", "delivering", "settling", "done"}]
  /\ \A j \in Jobs : Len(events[j]) <= MaxEvents
  /\ busy \in BOOLEAN
  /\ request \in [Jobs -> SUBSET Requests]
  /\ attempt \in [Requests -> [known : BOOLEAN, job : SUBSET Jobs, result : BOOLEAN]]
  /\ Cardinality({q \in Requests : attempt[q].known}) <= MaxAttempts
  /\ \A c \in Followers : sink[c].job \in SUBSET Jobs /\ sink[c].open \in BOOLEAN

\* One generation or edit at a time ("Another generation or edit is already
\* running"), from its start until its promise has settled, and a running job
\* is never dropped from memory.
OneMutation ==
  /\ \A j, k \in Jobs : {step[j], step[k]} \cap {"none", "done"} = {} => j = k
  /\ \A j \in Jobs : step[j] \notin {"none", "done"} => busy /\ j \in Records

\* A request identity is generated at most once, however often the client
\* retries and whatever failed before ("Recover preview/workspace delivery
\* without another generation or charge").
GeneratedOnce == \A q \in Requests : made[q] <= 1

\* What a stream shows: the job's events without a gap, a repetition or a change
\* of order, the history that was kept when it joined and all events since.
StreamFaithful ==
  \A c \in Streams : \A j \in sink[c].job :
    /\ IsSuffix(sink[c].out, emitted[j])
    /\ Len(sink[c].out) >= Len(events[j])
    /\ sink[c].open <=> status[j] \notin Ended

\* Every follower of a job is told the truth, whenever it joined: a stream shows
\* its events faithfully, and a socket client gets exactly one terminal message
\* for a job that has ended, the right one and as its last message; COMPLETED is
\* shown at most once.
FollowersFaithful ==
  /\ StreamFaithful
  /\ \A c \in Sockets : \A j \in sink[c].job :
       LET out == sink[c].out
           ends == {i \in DOMAIN out : out[i] \in Terminal}
       IN  /\ ends = IF status[j] \in Ended THEN {Len(out)} ELSE {}
           /\ \A i \in ends : out[i] = IF status[j] = "SUCCEEDED" THEN "JOB_COMPLETED"
                                       ELSE "JOB_FAILED"
           /\ Cardinality({i \in DOMAIN out : out[i] = "completed"}) <= 1

\* Every job ends and lets the next one in.
JobsSettle == []<>(~busy)

=============================================================================
