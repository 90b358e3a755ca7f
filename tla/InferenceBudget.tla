-------------------------- MODULE InferenceBudget --------------------------
(***************************************************************************)
(* What a run may spend on a model: the InferenceBudget and the telemetry  *)
(* of one generation or edit, the retry loop of the provider adapters, and *)
(* the process-wide circuit breaker that every run shares.                 *)
(*                                                                         *)
(* A run makes one logical call after another (planning, generation,       *)
(* repairs); a call makes one or more physical attempts. Checks and        *)
(* reservations are synchronous, but between a reservation and the request *)
(* there is an await, and runs interleave there. The optional limits on    *)
(* input, output and reasoning tokens are set by no pipeline and left out. *)
(***************************************************************************)
EXTENDS Integers, FiniteSets

CONSTANTS
  Runs,         \* inference run contexts, one per job
  Providers,    \* the model providers
  ProviderOf,   \* the provider a run uses
  SelfRetrying, \* providers with a retry loop of their own (OpenAI)
  Timed,        \* providers that time the whole call, waits included (Gemini)
  MaxRetries,   \* configured retries of a provider
  MaxLogical,   \* limits.maxLogicalRequests
  MaxPhysical,  \* limits.maxPhysicalRequests
  MaxTokens,    \* limits.maxTotalTokens
  MinSafe,      \* output tokens a site generation must have left
  Usages        \* tokens a response may report

ASSUME BudgetAssumption ==
  /\ ProviderOf \in [Runs -> Providers]
  /\ SelfRetrying \subseteq Providers /\ Timed \subseteq Providers
  /\ MaxRetries \in [Providers -> Nat]
  /\ MaxLogical \in Nat /\ MaxPhysical \in Nat
  /\ MaxTokens \in Nat /\ MinSafe \in Nat
  /\ Usages \subseteq Nat

VARIABLES
  phase,     \* where the current call of a run stands
  retry,     \* the attempt number of that call
  budget,    \* logicalRequests, physicalRequests and totalTokens
  exhausted, \* exhaustedReason; "none" while budgetExceeded is false
  ledger,    \* telemetry: logical calls and physical attempts recorded
  open,      \* providers whose circuit is open
  halted,    \* "cancelled": the signal aborted; "late": past maxRunDurationMs
  sent       \* requests of a run that reached the provider

vars == <<phase, retry, budget, exhausted, ledger, open, halted, sent>>

Reasons == {"duration", "logical", "physical", "tokens"}

Init ==
  /\ phase = [r \in Runs |-> "idle"]
  /\ retry = [r \in Runs |-> 0]
  /\ budget = [r \in Runs |-> [logical |-> 0, physical |-> 0, tokens |-> 0]]
  /\ exhausted = [r \in Runs |-> "none"]
  /\ ledger = [r \in Runs |-> [logical |-> 0, attempts |-> 0]]
  /\ open = {}
  /\ halted = [r \in Runs |-> {}]
  /\ sent = [r \in Runs |-> 0]

Cancelled(r) == "cancelled" \in halted[r]
Late(r) == "late" \in halted[r]
\* The signal the loop looks at: the job's, or the call's own timer.
MayAbort(r) == Cancelled(r) \/ ProviderOf[r] \in Timed
OwnLoop(r) == ProviderOf[r] \in SelfRetrying

\* The shared loop retries once at most, whatever is configured.
AllowedRetries(r) ==
  LET configured == MaxRetries[ProviderOf[r]]
  IN  IF OwnLoop(r) \/ configured = 0 THEN configured ELSE 1

-----------------------------------------------------------------------------
(* Reservations *)

MutLogicalNotSticky(r, floor) ==
  IF Late(r) THEN "duration"
  ELSE IF budget[r].logical >= MaxLogical THEN "logical"
  ELSE IF budget[r].tokens >= MaxTokens \/ MaxTokens - budget[r].tokens < floor
    THEN "tokens"
  ELSE "none"

\* Why a logical request is refused, in the order of the tests.
LogicalRefusal(r, floor) ==
  IF Late(r) THEN "duration"
  ELSE IF exhausted[r] # "none" THEN exhausted[r]
  ELSE IF budget[r].logical >= MaxLogical THEN "logical"
  ELSE IF budget[r].tokens >= MaxTokens \/ MaxTokens - budget[r].tokens < floor
    THEN "tokens"
  ELSE "none"

MutPhysicalOffByOne(r) ==
  IF Late(r) THEN "duration"
  ELSE IF exhausted[r] # "none" THEN exhausted[r]
  ELSE IF budget[r].physical > MaxPhysical THEN "physical"
  ELSE "none"

\* Why a physical attempt is refused.
PhysicalRefusal(r) ==
  IF Late(r) THEN "duration"
  ELSE IF exhausted[r] # "none" THEN exhausted[r]
  ELSE IF budget[r].physical >= MaxPhysical THEN "physical"
  ELSE "none"

\* The first reason stays.
MarkExhausted(r, why) ==
  exhausted' = [exhausted EXCEPT ![r] = IF @ = "none" THEN why ELSE @]

\* RunScopedAgentProvider.createResponse up to the call of the provider. A
\* cancelled run is refused before anything is counted.
ReserveLogical(r, floor) ==
  /\ phase[r] = "idle"
  /\ ~Cancelled(r)
  /\ LogicalRefusal(r, floor) = "none"
  /\ budget' = [budget EXCEPT ![r].logical = @ + 1]
  /\ retry' = [retry EXCEPT ![r] = 0]
  /\ phase' = [phase EXCEPT ![r] = "called"]
  /\ UNCHANGED <<exhausted, ledger, open, halted, sent>>

RefuseLogical(r, floor) ==
  /\ phase[r] = "idle"
  /\ ~Cancelled(r)
  /\ LogicalRefusal(r, floor) # "none"
  /\ MarkExhausted(r, LogicalRefusal(r, floor))
  /\ UNCHANGED <<phase, retry, budget, ledger, open, halted, sent>>

-----------------------------------------------------------------------------
(* The call: the retry loop around one provider *)

MutBreakerOnce(r) == ProviderOf[r] \notin open \/ retry[r] > 0

\* assertAvailable passes for the run's provider.
Available(r) == ProviderOf[r] \notin open

MutRetriesFree(r) == [budget[r] EXCEPT !.physical = IF retry[r] = 0 THEN @ + 1 ELSE @]

\* physicalRequests counts every attempt, the first and the retries alike.
Charged(r) == [budget[r] EXCEPT !.physical = @ + 1]

\* What the telemetry shows of a call that has ended with so many attempts
\* still to be recorded.
Recorded(r, attempts) ==
  [ledger[r] EXCEPT !.logical = @ + 1, !.attempts = @ + attempts]

\* The call returns or throws: recordLogicalSuccess or recordLogicalFailure.
EndCall(r, attempts) ==
  /\ ledger' = [ledger EXCEPT ![r] = Recorded(r, attempts)]
  /\ phase' = [phase EXCEPT ![r] = "idle"]

\* A cancelled run leaves the loop, before the first attempt or while it waits
\* for the next one, and so does a call that has run out of time; an open
\* circuit refuses the attempt.
LeaveLoop(r) ==
  /\ phase[r] = "called"
  /\ MayAbort(r) \/ ~Available(r)
  /\ EndCall(r, 0)
  /\ UNCHANGED <<retry, budget, exhausted, open, halted, sent>>

\* beforePhysicalAttempt, in one synchronous stretch with the tests before it.
ReservePhysical(r) ==
  /\ phase[r] = "called"
  /\ ~Cancelled(r)
  /\ Available(r)
  /\ PhysicalRefusal(r) = "none"
  /\ budget' = [budget EXCEPT ![r] = Charged(r)]
  /\ phase' = [phase EXCEPT ![r] = "reserved"]
  /\ UNCHANGED <<retry, exhausted, ledger, open, halted, sent>>

RefusePhysical(r) ==
  /\ phase[r] = "called"
  /\ ~Cancelled(r)
  /\ Available(r)
  /\ PhysicalRefusal(r) # "none"
  /\ MarkExhausted(r, PhysicalRefusal(r))
  /\ EndCall(r, 0)
  /\ UNCHANGED <<retry, budget, open, halted, sent>>

\* The operation goes out after the await of the hook; the circuit is not
\* looked at again.
Send(r) ==
  /\ phase[r] = "reserved"
  /\ ~Cancelled(r)
  /\ sent' = [sent EXCEPT ![r] = @ + 1]
  /\ phase' = [phase EXCEPT ![r] = "sent"]
  /\ UNCHANGED <<retry, budget, exhausted, ledger, open, halted>>

\* The aborted signal stops the client before it sends; the attempt is
\* reserved and recorded all the same.
Unsent(r) ==
  /\ phase[r] = "reserved"
  /\ MayAbort(r)
  /\ EndCall(r, 1)
  /\ UNCHANGED <<retry, budget, exhausted, open, halted, sent>>

\* A usable response, and recordUsage.
Answer(r, used) ==
  /\ phase[r] = "sent"
  /\ budget' = [budget EXCEPT ![r].tokens = @ + used]
  /\ IF budget[r].tokens + used >= MaxTokens
       THEN MarkExhausted(r, "tokens")
       ELSE UNCHANGED exhausted
  /\ EndCall(r, 1)
  /\ UNCHANGED <<retry, open, halted, sent>>

\* A response without a usable answer (no choice, malformed tool arguments).
\* OpenAI's adapter reads it inside the guarded block, so the hook records the
\* attempt a second time, as failed. Its tokens are never counted.
Unreadable(r) ==
  /\ phase[r] = "sent"
  /\ EndCall(r, IF OwnLoop(r) THEN 2 ELSE 1)
  /\ UNCHANGED <<retry, budget, exhausted, open, halted, sent>>

\* A failure worth a retry: the loop comes round again.
TransientFailure(r) ==
  /\ phase[r] = "sent"
  /\ ~Cancelled(r)
  /\ retry[r] < AllowedRetries(r)
  /\ ledger' = [ledger EXCEPT ![r].attempts = @ + 1]
  /\ retry' = [retry EXCEPT ![r] = @ + 1]
  /\ phase' = [phase EXCEPT ![r] = "called"]
  /\ UNCHANGED <<budget, exhausted, open, halted, sent>>

\* Billing, daily quota or access refused: the shared loop opens the circuit
\* of the whole provider, and nothing in the process closes it again.
QuotaFailure(r) ==
  /\ phase[r] = "sent"
  /\ ~Cancelled(r)
  /\ open' = IF OwnLoop(r) THEN open ELSE open \cup {ProviderOf[r]}
  /\ EndCall(r, 1)
  /\ UNCHANGED <<retry, budget, exhausted, halted, sent>>

\* Any other failure, a last transient one, or the cancellation in flight.
Failure(r) ==
  /\ phase[r] = "sent"
  /\ EndCall(r, 1)
  /\ UNCHANGED <<retry, budget, exhausted, open, halted, sent>>

-----------------------------------------------------------------------------
(* The job and the clock *)

Halt(r, why) ==
  /\ halted' = [halted EXCEPT ![r] = @ \cup {why}]
  /\ UNCHANGED <<phase, retry, budget, exhausted, ledger, open, sent>>

CallStep(r) ==
  \/ \E floor \in {0, MinSafe} : ReserveLogical(r, floor) \/ RefuseLogical(r, floor)
  \/ LeaveLoop(r)
  \/ ReservePhysical(r)
  \/ RefusePhysical(r)
  \/ Send(r)
  \/ Unsent(r)
  \/ \E used \in Usages : Answer(r, used)
  \/ Unreadable(r)
  \/ TransientFailure(r)
  \/ QuotaFailure(r)
  \/ Failure(r)

Next ==
  \E r \in Runs :
    \/ CallStep(r)
    \/ Halt(r, "cancelled")
    \/ Halt(r, "late")

Spec == Init /\ [][Next]_vars

-----------------------------------------------------------------------------
(* Properties *)

\* Every variable keeps its shape, and the counters their limits.
TypeOK ==
  /\ phase \in [Runs -> {"idle", "called", "reserved", "sent"}]
  /\ retry \in [Runs -> Nat]
  /\ budget \in [Runs -> [logical : 0..MaxLogical, physical : 0..MaxPhysical, tokens : Nat]]
  /\ exhausted \in [Runs -> Reasons \cup {"none"}]
  /\ ledger \in [Runs -> [logical : Nat, attempts : Nat]]
  /\ open \in SUBSET Providers
  /\ halted \in [Runs -> SUBSET {"cancelled", "late"}]
  /\ sent \in [Runs -> Nat]

\* "1 transport reservation = 1 network attempt" (the budget document, Scenario
\* L): no request, first or retry, reaches a provider without a reservation.
NoHiddenAttempts ==
  \A r \in Runs : sent[r] + (IF phase[r] = "reserved" THEN 1 ELSE 0) <= budget[r].physical

\* The run's stage summaries add up to the budget: a logical request is
\* recorded exactly once, when its call returns, throws or is refused half-way.
LogicalSettled ==
  \A r \in Runs : budget[r].logical = ledger[r].logical + (IF phase[r] = "idle" THEN 0 ELSE 1)

InFlight(r) == IF phase[r] \in {"reserved", "sent"} THEN 1 ELSE 0

\* Every attempt that was reserved and has ended is recorded, and once, except that
\* OpenAI's adapter records a response it cannot read a second time.
AttemptsSettled ==
  \A r \in Runs : /\ budget[r].physical <= ledger[r].attempts + InFlight(r)
                  /\ ~OwnLoop(r) => budget[r].physical = ledger[r].attempts + InFlight(r)

\* No run reserves more than it may, retries included.
WithinLimits ==
  \A r \in Runs : budget[r].logical <= MaxLogical /\ budget[r].physical <= MaxPhysical

\* The books of a run balance: it keeps within its limits, every request that went
\* out was reserved, every reserved logical request is recorded once, and so is every
\* attempt, a retry or one that was never sent like the others.
BooksBalance == WithinLimits /\ NoHiddenAttempts /\ LogicalSettled /\ AttemptsSettled

Spent(r) == exhausted[r] # "none" \/ budget[r].tokens >= MaxTokens

\* Once a run has exhausted its budget, for whatever reason, or used its tokens
\* up, it reserves nothing, sends nothing and uses no token more; the reason
\* that is reported stays the first.
SpentIsFinal ==
  [][\A r \in Runs : Spent(r) =>
       /\ budget'[r] = budget[r]
       /\ sent'[r] = sent[r]
       /\ exhausted[r] # "none" => exhausted'[r] = exhausted[r]]_vars

\* An open circuit costs nothing: no run reserves a physical attempt at a
\* provider that was found exhausted, by itself or by another run, retries included.
OpenCircuitIsFree ==
  [][\A r \in Runs : ProviderOf[r] \in open => budget'[r].physical = budget[r].physical]_vars

=============================================================================
