--------------------------- MODULE Agents_proofs ----------------------------
(***************************************************************************)
(* Proofs about what a run of a model may spend (InferenceBudget), the     *)
(* prompts it is given (PromptRegistry) and what an evaluation of two of   *)
(* them says (Evaluations), for any runs, providers, limits, retries,      *)
(* reported usage, prompts, contracts, cases and assertions.               *)
(***************************************************************************)
EXTENDS InferenceBudget, PromptRegistry, Evaluations, NaturalsInduction, SequenceTheorems,
        WellFoundedInduction, TLAPS

-----------------------------------------------------------------------------
(* InferenceBudget *)

Phases == {"idle", "called", "reserved", "sent"}
Counts == [logical : 0..MaxLogical, physical : 0..MaxPhysical, tokens : Nat]
Records == [logical : Nat, attempts : Nat]

\* A spent run is in no call: the call that spent the budget has ended, and no
\* other is reserved.
SpentIsQuiet == \A r \in Runs : Spent(r) => phase[r] = "idle"

BudgetIInv == TypeOK /\ NoHiddenAttempts /\ LogicalSettled /\ AttemptsSettled /\ SpentIsQuiet

-----------------------------------------------------------------------------
(* One step of one run *)

\* What the invariant says of a single run, as a predicate of its values.
RunOK(own, p, n, b, x, l, s) ==
  /\ p \in Phases /\ n \in Nat /\ b \in Counts /\ x \in Reasons \cup {"none"}
  /\ l \in Records /\ s \in Nat
  /\ s + (IF p = "reserved" THEN 1 ELSE 0) <= b.physical
  /\ b.logical = l.logical + (IF p = "idle" THEN 0 ELSE 1)
  /\ b.physical <= l.attempts + (IF p \in {"reserved", "sent"} THEN 1 ELSE 0)
  /\ ~own => b.physical = l.attempts + (IF p \in {"reserved", "sent"} THEN 1 ELSE 0)
  /\ x # "none" \/ b.tokens >= MaxTokens => p = "idle"

RunInv(r) == RunOK(OwnLoop(r), phase[r], retry[r], budget[r], exhausted[r], ledger[r], sent[r])

\* The functions of the state keep their domain.
Shape ==
  /\ phase = [r \in Runs |-> phase[r]]
  /\ retry = [r \in Runs |-> retry[r]]
  /\ budget = [r \in Runs |-> budget[r]]
  /\ exhausted = [r \in Runs |-> exhausted[r]]
  /\ ledger = [r \in Runs |-> ledger[r]]
  /\ sent = [r \in Runs |-> sent[r]]
  /\ open \in SUBSET Providers
  /\ halted \in [Runs -> SUBSET {"cancelled", "late"}]

\* The invariant is the conjunction of its instances, run by run.
LEMMA BudgetByRun == BudgetIInv <=> Shape /\ \A r \in Runs : RunInv(r)
<1>1. ASSUME BudgetIInv PROVE Shape
  BY <1>1 DEF BudgetIInv, TypeOK, Shape
<1>2. ASSUME BudgetIInv, NEW r \in Runs PROVE RunInv(r)
  BY <1>2 DEF BudgetIInv, TypeOK, NoHiddenAttempts, LogicalSettled, AttemptsSettled, InFlight,
     SpentIsQuiet, Spent, RunInv, RunOK, Phases, Counts, Records
<1>3. ASSUME Shape, \A r \in Runs : RunInv(r) PROVE BudgetIInv
  <2>1. TypeOK
    <3>1. \A r \in Runs : /\ phase[r] \in Phases /\ retry[r] \in Nat
                          /\ budget[r] \in Counts /\ exhausted[r] \in Reasons \cup {"none"}
                          /\ ledger[r] \in Records /\ sent[r] \in Nat
      BY <1>3 DEF RunInv, RunOK
    <3>2. phase \in [Runs -> Phases] /\ retry \in [Runs -> Nat] /\ sent \in [Runs -> Nat]
      BY <1>3, <3>1 DEF Shape
    <3>3. /\ budget \in [Runs -> Counts] /\ ledger \in [Runs -> Records]
          /\ exhausted \in [Runs -> Reasons \cup {"none"}]
      BY <1>3, <3>1 DEF Shape
    <3> QED BY <1>3, <3>2, <3>3 DEF TypeOK, Shape, Phases, Counts, Records
  <2>2. NoHiddenAttempts /\ LogicalSettled /\ AttemptsSettled /\ SpentIsQuiet
    BY <1>3 DEF RunInv, RunOK, NoHiddenAttempts, LogicalSettled, AttemptsSettled, InFlight,
       SpentIsQuiet, Spent
  <2> QED BY <2>1, <2>2 DEF BudgetIInv
<1> QED BY <1>1, <1>2, <1>3

\* The same of the next state.
LEMMA BudgetByRunNext == BudgetIInv' <=> (Shape /\ \A r \in Runs : RunInv(r))'
BY BudgetByRun, PTL

LEMMA BudgetStart == Init => BudgetIInv
BY BudgetAssumption
DEF Init, BudgetIInv, TypeOK, NoHiddenAttempts, LogicalSettled, AttemptsSettled, InFlight,
    SpentIsQuiet, Spent

\* A refusal names a reason, and the budget has room when there is none.
LEMMA Refusals ==
  ASSUME BudgetIInv, NEW r \in Runs, NEW floor \in Nat
  PROVE  /\ LogicalRefusal(r, floor) \in Reasons \cup {"none"}
         /\ PhysicalRefusal(r) \in Reasons \cup {"none"}
         /\ LogicalRefusal(r, floor) = "none" => budget[r].logical < MaxLogical /\ ~Spent(r)
         /\ PhysicalRefusal(r) = "none" => budget[r].physical < MaxPhysical /\ exhausted[r] = "none"
<1>1. budget[r] \in Counts /\ exhausted[r] \in Reasons \cup {"none"}
  BY DEF BudgetIInv, TypeOK, Counts
<1> QED BY <1>1, BudgetAssumption DEF LogicalRefusal, PhysicalRefusal, Spent, Reasons, Counts

LEMMA BudgetStep == BudgetIInv /\ [Next]_vars => BudgetIInv'
<1> SUFFICES ASSUME BudgetIInv, [Next]_vars PROVE BudgetIInv'
  OBVIOUS
<1>0. Shape /\ \A r \in Runs : RunInv(r)
  BY BudgetByRun
<1> SUFFICES Shape' /\ \A q \in Runs : RunInv(q)'
  BY BudgetByRunNext
<1>1. CASE UNCHANGED vars
  BY <1>0, <1>1 DEF vars, Shape, RunInv, RunOK
<1>2. ASSUME NEW r \in Runs, CallStep(r) \/ Halt(r, "cancelled") \/ Halt(r, "late")
      PROVE  Shape' /\ \A q \in Runs : RunInv(q)'
  <2> DEFINE Others ==
        \A q \in Runs \ {r} : /\ phase'[q] = phase[q] /\ retry'[q] = retry[q]
                              /\ budget'[q] = budget[q] /\ exhausted'[q] = exhausted[q]
                              /\ ledger'[q] = ledger[q] /\ sent'[q] = sent[q]
  <2> SUFFICES Shape' /\ Others /\ RunInv(r)'
    BY <1>0 DEF RunInv
  <2>0. /\ RunInv(r)
        /\ budget[r] = [logical |-> budget[r].logical, physical |-> budget[r].physical,
                        tokens |-> budget[r].tokens]
        /\ ledger[r] = [logical |-> ledger[r].logical, attempts |-> ledger[r].attempts]
    BY <1>0 DEF RunInv, RunOK, Counts, Records
  <2>1. CASE Halt(r, "cancelled") \/ Halt(r, "late")
    <3>1. halted' \in [Runs -> SUBSET {"cancelled", "late"}]
      BY <1>0, <2>1 DEF Halt, Shape
    <3>2. UNCHANGED <<phase, retry, budget, exhausted, ledger, open, sent>>
      BY <2>1 DEF Halt
    <3> QED BY <1>0, <2>0, <3>1, <3>2 DEF Shape, RunInv
  <2>2. ASSUME NEW floor \in {0, MinSafe}, ReserveLogical(r, floor)
        PROVE  Shape' /\ Others /\ RunInv(r)'
    <3>1. budget[r].logical < MaxLogical /\ ~Spent(r)
      BY <2>2, Refusals, BudgetAssumption DEF ReserveLogical
    <3>2. Shape' /\ Others
      BY <1>0, <2>2 DEF ReserveLogical, Shape
    <3>3. /\ phase'[r] = "called" /\ retry'[r] = 0 /\ exhausted'[r] = exhausted[r]
          /\ budget'[r] = [logical |-> budget[r].logical + 1, physical |-> budget[r].physical,
                           tokens |-> budget[r].tokens]
          /\ ledger'[r] = ledger[r] /\ sent'[r] = sent[r] /\ phase[r] = "idle"
      BY <1>0, <2>0, <2>2 DEF ReserveLogical, Shape, RunInv, RunOK, Counts
    <3>4. budget[r].logical + 1 \in 0..MaxLogical
      BY <2>0, <3>1, BudgetAssumption DEF RunInv, RunOK, Counts
    <3>5. budget'[r] \in Counts
      BY <2>0, <3>3, <3>4 DEF RunInv, RunOK, Counts
    <3> QED BY <2>0, <3>1, <3>2, <3>3, <3>5 DEF RunInv, RunOK, Phases, Spent, Counts, Records
  <2>3. ASSUME NEW floor \in {0, MinSafe}, RefuseLogical(r, floor)
        PROVE  Shape' /\ Others /\ RunInv(r)'
    <3>1. LogicalRefusal(r, floor) \in Reasons
      BY <2>3, Refusals, BudgetAssumption DEF RefuseLogical
    <3>2. Shape' /\ Others
      BY <1>0, <2>3 DEF RefuseLogical, MarkExhausted, Shape
    <3>3. /\ phase[r] = "idle" /\ exhausted'[r] \in Reasons
          /\ phase'[r] = phase[r] /\ retry'[r] = retry[r] /\ budget'[r] = budget[r]
          /\ ledger'[r] = ledger[r] /\ sent'[r] = sent[r]
      BY <1>0, <2>0, <2>3, <3>1 DEF RefuseLogical, MarkExhausted, Shape, RunInv, RunOK
    <3> QED BY <2>0, <3>2, <3>3 DEF RunInv, RunOK
  <2>4. ASSUME LeaveLoop(r)
        PROVE  Shape' /\ Others /\ RunInv(r)'
    <3>1. Shape' /\ Others
      BY <1>0, <2>4 DEF LeaveLoop, EndCall, Shape
    <3>2. /\ phase[r] = "called" /\ phase'[r] = "idle" /\ retry'[r] = retry[r]
          /\ budget'[r] = budget[r] /\ exhausted'[r] = exhausted[r] /\ sent'[r] = sent[r]
          /\ ledger'[r] = [logical |-> ledger[r].logical + 1, attempts |-> ledger[r].attempts]
      <4>1. EndCall(r, 0) /\ ledger[r].attempts + 0 = ledger[r].attempts
        BY <2>0, <2>4 DEF LeaveLoop, RunInv, RunOK, Records
      <4>2. ledger'[r] = [logical |-> ledger[r].logical + 1, attempts |-> ledger[r].attempts + 0]
        BY <1>0, <2>0, <4>1 DEF EndCall, Recorded, Shape
      <4> QED BY <1>0, <2>4, <4>1, <4>2 DEF LeaveLoop, EndCall, Shape
    <3> QED BY <2>0, <3>1, <3>2 DEF RunInv, RunOK, Records, Phases
  <2>5. ASSUME ReservePhysical(r)
        PROVE  Shape' /\ Others /\ RunInv(r)'
    <3>1. budget[r].physical < MaxPhysical
      BY <2>5, Refusals, BudgetAssumption DEF ReservePhysical
    <3>2. Shape' /\ Others
      BY <1>0, <2>5 DEF ReservePhysical, Shape
    <3>3. /\ phase'[r] = "reserved" /\ retry'[r] = retry[r] /\ exhausted'[r] = exhausted[r]
          /\ budget'[r] = [logical |-> budget[r].logical, physical |-> budget[r].physical + 1,
                           tokens |-> budget[r].tokens]
          /\ ledger'[r] = ledger[r] /\ sent'[r] = sent[r] /\ phase[r] = "called"
      BY <1>0, <2>0, <2>5 DEF ReservePhysical, Charged, Shape, RunInv, RunOK, Counts
    <3>4. /\ budget[r].physical + 1 \in 0..MaxPhysical /\ budget'[r] \in Counts
          /\ budget[r].physical \in Nat /\ ledger[r].attempts \in Nat /\ sent[r] \in Nat
      BY <2>0, <3>1, <3>3, BudgetAssumption DEF RunInv, RunOK, Counts, Records
    <3> QED BY <2>0, <3>2, <3>3, <3>4 DEF RunInv, RunOK, Counts, Phases, Records
  <2>6. ASSUME RefusePhysical(r)
        PROVE  Shape' /\ Others /\ RunInv(r)'
    <3>1. PhysicalRefusal(r) \in Reasons
      BY <2>6, Refusals, BudgetAssumption DEF RefusePhysical
    <3>2. Shape' /\ Others
      BY <1>0, <2>6 DEF RefusePhysical, MarkExhausted, EndCall, Shape
    <3>3. /\ phase[r] = "called" /\ phase'[r] = "idle" /\ retry'[r] = retry[r]
          /\ budget'[r] = budget[r] /\ exhausted'[r] \in Reasons /\ sent'[r] = sent[r]
          /\ ledger'[r] = [logical |-> ledger[r].logical + 1, attempts |-> ledger[r].attempts]
      <4>1. EndCall(r, 0) /\ ledger[r].attempts + 0 = ledger[r].attempts
        BY <2>0, <2>6 DEF RefusePhysical, RunInv, RunOK, Records
      <4>2. ledger'[r] = [logical |-> ledger[r].logical + 1, attempts |-> ledger[r].attempts + 0]
        BY <1>0, <2>0, <4>1 DEF EndCall, Recorded, Shape
      <4>3. exhausted'[r] \in Reasons
        BY <1>0, <2>0, <2>6, <3>1 DEF RefusePhysical, MarkExhausted, Shape, RunInv, RunOK
      <4> QED BY <1>0, <2>6, <4>1, <4>2, <4>3 DEF RefusePhysical, EndCall, Shape
    <3> QED BY <2>0, <3>2, <3>3 DEF RunInv, RunOK, Records, Phases
  <2>7. ASSUME Send(r)
        PROVE  Shape' /\ Others /\ RunInv(r)'
    <3>1. Shape' /\ Others
      BY <1>0, <2>7 DEF Send, Shape
    <3>2. /\ phase[r] = "reserved" /\ phase'[r] = "sent" /\ sent'[r] = sent[r] + 1
          /\ retry'[r] = retry[r] /\ budget'[r] = budget[r]
          /\ exhausted'[r] = exhausted[r] /\ ledger'[r] = ledger[r]
      BY <1>0, <2>7 DEF Send, Shape
    <3> QED BY <2>0, <3>1, <3>2 DEF RunInv, RunOK, Phases, Counts
  <2>8. ASSUME Unsent(r)
         PROVE  Shape' /\ Others /\ RunInv(r)'
    <3>1. Shape' /\ Others
      BY <1>0, <2>8 DEF Unsent, EndCall, Shape
    <3>2. /\ phase[r] = "reserved" /\ phase'[r] = "idle" /\ retry'[r] = retry[r]
          /\ budget'[r] = budget[r] /\ exhausted'[r] = exhausted[r] /\ sent'[r] = sent[r]
          /\ ledger'[r] = [logical |-> ledger[r].logical + 1, attempts |-> ledger[r].attempts + 1]
      BY <1>0, <2>0, <2>8 DEF Unsent, EndCall, Recorded, Shape, RunInv, RunOK, Records
    <3> QED BY <2>0, <3>1, <3>2 DEF RunInv, RunOK, Records, Phases, Counts
  <2>9. ASSUME NEW used \in Usages, Answer(r, used)
        PROVE  Shape' /\ Others /\ RunInv(r)'
    <3>1. used \in Nat
      BY BudgetAssumption
    <3>2. Shape' /\ Others
      BY <1>0, <2>9 DEF Answer, MarkExhausted, EndCall, Shape
    <3>3. /\ phase'[r] = "idle" /\ phase[r] = "sent" /\ retry'[r] = retry[r]
          /\ exhausted'[r] \in Reasons \cup {"none"}
          /\ budget'[r] = [logical |-> budget[r].logical, physical |-> budget[r].physical,
                           tokens |-> budget[r].tokens + used]
          /\ sent'[r] = sent[r]
      BY <1>0, <2>0, <2>9, <3>1
         DEF Answer, MarkExhausted, EndCall, Shape, RunInv, RunOK, Counts, Reasons
    <3>4. ledger'[r] = [logical |-> ledger[r].logical + 1, attempts |-> ledger[r].attempts + 1]
      BY <1>0, <2>0, <2>9 DEF Answer, EndCall, Recorded, Shape, RunInv, RunOK, Records
    <3> QED BY <2>0, <3>1, <3>2, <3>3, <3>4 DEF RunInv, RunOK, Counts, Records, Phases
  <2>10. ASSUME Unreadable(r) \/ QuotaFailure(r) \/ Failure(r)
        PROVE  Shape' /\ Others /\ RunInv(r)'
    <3>1. Shape' /\ Others
      BY <1>0, <2>10, BudgetAssumption DEF Unreadable, QuotaFailure, Failure, EndCall, Shape
    <3>2. PICK n \in {1, 2} : EndCall(r, n) /\ (~OwnLoop(r) => n = 1)
      BY <2>10 DEF Unreadable, QuotaFailure, Failure
    <3>3. /\ phase[r] = "sent" /\ phase'[r] = "idle" /\ retry'[r] = retry[r]
          /\ budget'[r] = budget[r] /\ exhausted'[r] = exhausted[r] /\ sent'[r] = sent[r]
          /\ ledger'[r] = [logical |-> ledger[r].logical + 1, attempts |-> ledger[r].attempts + n]
      BY <1>0, <2>0, <2>10, <3>2
         DEF Unreadable, QuotaFailure, Failure, EndCall, Recorded, Shape, RunInv, RunOK, Records
    <3>4. ledger'[r] \in Records /\ budget[r].physical \in Nat /\ ledger[r].attempts \in Nat
      BY <2>0, <3>3 DEF RunInv, RunOK, Records, Counts
    <3>5. /\ budget[r].physical <= ledger'[r].attempts
          /\ ~OwnLoop(r) => budget[r].physical = ledger'[r].attempts
      BY <2>0, <3>2, <3>3, <3>4 DEF RunInv, RunOK
    <3> QED BY <2>0, <3>1, <3>3, <3>4, <3>5 DEF RunInv, RunOK, Records, Phases, Counts
  <2>11. ASSUME TransientFailure(r)
         PROVE  Shape' /\ Others /\ RunInv(r)'
    <3>1. Shape' /\ Others
      BY <1>0, <2>11 DEF TransientFailure, Shape
    <3> QED BY <1>0, <2>0, <2>11, <3>1
            DEF TransientFailure, Shape, RunInv, RunOK, Records, Phases
  <2> QED BY <1>2, <2>1, <2>2, <2>3, <2>4, <2>5, <2>6, <2>7, <2>8, <2>9, <2>10, <2>11 DEF CallStep
<1> QED BY <1>1, <1>2 DEF Next

-----------------------------------------------------------------------------
(* Theorems *)

\* The counters never pass their limits and every variable keeps its shape,
\* whatever the interleaving of the runs.
THEOREM BudgetTypeCorrect == Spec => []TypeOK
<1>1. BudgetIInv => TypeOK
  BY DEF BudgetIInv
<1> QED BY BudgetStart, BudgetStep, <1>1, PTL DEF Spec

\* No request reaches a provider without a reservation of its own.
THEOREM AttemptsReserved == Spec => []NoHiddenAttempts
<1>1. BudgetIInv => NoHiddenAttempts
  BY DEF BudgetIInv
<1> QED BY BudgetStart, BudgetStep, <1>1, PTL DEF Spec

\* The stage summaries and the budget agree on the logical requests.
THEOREM SummariesAddUp == Spec => []LogicalSettled
<1>1. BudgetIInv => LogicalSettled
  BY DEF BudgetIInv
<1> QED BY BudgetStart, BudgetStep, <1>1, PTL DEF Spec

\* The telemetry and the budget agree on the attempts, up to what OpenAI's adapter
\* records twice.
THEOREM AttemptsRecorded == Spec => []AttemptsSettled
<1>1. BudgetIInv => AttemptsSettled
  BY DEF BudgetIInv
<1> QED BY BudgetStart, BudgetStep, <1>1, PTL DEF Spec

\* The books of every run balance, request by request and call by call.
THEOREM BooksBalanced == Spec => []BooksBalance
<1>1. TypeOK => WithinLimits
  BY BudgetAssumption DEF TypeOK, WithinLimits
<1> QED BY <1>1, BudgetTypeCorrect, AttemptsReserved, SummariesAddUp, AttemptsRecorded, PTL
        DEF BooksBalance

\* A spent budget stays as it is: nothing is reserved, sent or used any more.
LEMMA SpentStep ==
  ASSUME BudgetIInv, Next, NEW r \in Runs, Spent(r)
  PROVE  /\ budget'[r] = budget[r]
         /\ sent'[r] = sent[r]
         /\ exhausted[r] # "none" => exhausted'[r] = exhausted[r]
<1>1. phase[r] = "idle"
  BY DEF BudgetIInv, SpentIsQuiet
<1>2. \A floor \in {0, MinSafe} : ~ReserveLogical(r, floor)
  BY Refusals, BudgetAssumption DEF ReserveLogical
<1>3. PICK q \in Runs : CallStep(q) \/ Halt(q, "cancelled") \/ Halt(q, "late")
  BY DEF Next
<1>4. /\ budget \in [Runs -> Counts] /\ sent \in [Runs -> Nat]
      /\ exhausted \in [Runs -> Reasons \cup {"none"}]
  BY DEF BudgetIInv, TypeOK, Counts
<1>5. CASE q # r
  BY <1>3, <1>4, <1>5 DEF CallStep, ReserveLogical, RefuseLogical, LeaveLoop, ReservePhysical,
     RefusePhysical, Send, Unsent, Answer, Unreadable, TransientFailure, QuotaFailure, Failure,
     Halt, MarkExhausted
<1>6. CASE q = r
  BY <1>1, <1>2, <1>3, <1>4, <1>6 DEF CallStep, RefuseLogical, LeaveLoop, ReservePhysical,
     RefusePhysical, Send, Unsent, Answer, Unreadable, TransientFailure, QuotaFailure, Failure,
     Halt, MarkExhausted
<1> QED BY <1>5, <1>6

THEOREM SpentFinal == Spec => SpentIsFinal
<1>1. BudgetIInv /\ [Next]_vars =>
        [\A r \in Runs : Spent(r) =>
          /\ budget'[r] = budget[r]
          /\ sent'[r] = sent[r]
          /\ exhausted[r] # "none" => exhausted'[r] = exhausted[r]]_vars
  BY SpentStep
<1> QED BY BudgetStart, BudgetStep, <1>1, PTL DEF Spec, SpentIsFinal

\* No attempt is reserved at a provider whose circuit is open.
THEOREM OpenCircuitCostsNothing == Spec => OpenCircuitIsFree
<1>1. ASSUME BudgetIInv, Next, NEW r \in Runs, ProviderOf[r] \in open
      PROVE  budget'[r].physical = budget[r].physical
  <2>1. PICK q \in Runs : CallStep(q) \/ Halt(q, "cancelled") \/ Halt(q, "late")
    BY <1>1 DEF Next
  <2>2. budget \in [Runs -> Counts]
    BY <1>1 DEF BudgetIInv, TypeOK, Counts
  <2>3. ~ReservePhysical(r)
    BY <1>1 DEF ReservePhysical, Available
  <2>4. CASE q # r
    BY <2>1, <2>2, <2>4 DEF CallStep, ReserveLogical, RefuseLogical, LeaveLoop, ReservePhysical,
       RefusePhysical, Send, Unsent, Answer, Unreadable, TransientFailure, QuotaFailure, Failure,
       Halt
  <2>5. CASE q = r
    BY <2>1, <2>2, <2>3, <2>5 DEF CallStep, ReserveLogical, RefuseLogical, LeaveLoop,
       RefusePhysical, Send, Unsent, Answer, Unreadable, TransientFailure, QuotaFailure, Failure,
       Halt, Counts
  <2> QED BY <2>4, <2>5
<1>2. BudgetIInv /\ [Next]_vars =>
        [\A r \in Runs : ProviderOf[r] \in open => budget'[r].physical = budget[r].physical]_vars
  BY <1>1
<1> QED BY BudgetStart, BudgetStep, <1>2, PTL DEF Spec, OpenCircuitIsFree

-----------------------------------------------------------------------------
(* PromptRegistry *)

\* An active prompt meets registered contracts only, in the format of their answers
EveryPromptIsValid == \A v \in PromptVersions : ValidPrompt(prompts[v])

RegistryIInv == RegistryTypeOK /\ EveryPromptIsValid /\ PointerIsReleased

ReleaseRecords == [from : PromptVersions \cup {0}, to : PromptVersions]

LEMMA UnregisteredIsIdle == ~Active(Unregistered)
BY DEF Active, Unregistered

LEMMA RegistryStart ==
  RegistryInit => RegistryIInv
<1> SUFFICES ASSUME RegistryInit PROVE RegistryIInv
  OBVIOUS
<1>1. RegistryTypeOK
  BY DEF RegistryInit, RegistryTypeOK
<1>2. EveryPromptIsValid
  BY UnregisteredIsIdle DEF RegistryInit, EveryPromptIsValid, ValidPrompt
<1>3. PointerIsReleased
  BY DEF RegistryInit, PointerIsReleased
<1> QED
  BY <1>1, <1>2, <1>3 DEF RegistryIInv

\* A release of an active version keeps the history whole.
LEMMA PointingIsRecorded ==
  ASSUME RegistryAssumption, RegistryTypeOK, PointerIsReleased,
         NEW v \in PromptVersions, Points(v), first' = first, Active(prompts'[v])
  PROVE  /\ current' \in PromptVersions \cup {0}
         /\ releases' \in Seq(ReleaseRecords)
         /\ PointerIsReleased'
<1> DEFINE one == [from |-> current, to |-> v]
<1>1. one \in ReleaseRecords /\ one.from = current /\ one.to = v
  BY DEF RegistryTypeOK, ReleaseRecords
<1>2. releases \in Seq(ReleaseRecords)
  BY DEF RegistryTypeOK, ReleaseRecords
<1>3. /\ releases' = Append(releases, one) /\ releases' \in Seq(ReleaseRecords)
      /\ Len(releases') = Len(releases) + 1 /\ Len(releases) \in Nat
      /\ \A i \in 1..Len(releases) : releases'[i] = releases[i]
      /\ releases'[Len(releases) + 1] = one
  BY <1>1, <1>2 DEF Points
<1>4. current' = v /\ current' # 0
  BY DEF Points, RegistryAssumption
<1>5. ASSUME NEW i \in DOMAIN releases'
      PROVE  releases'[i].from = (IF i = 1 THEN first' ELSE releases'[i - 1].to)
  <2>0. i \in 1..(Len(releases) + 1) /\ DOMAIN releases = 1..Len(releases)
    BY <1>2, <1>3
  <2>1. CASE i \in 1..Len(releases)
    <3>1. i # 1 => i - 1 \in 1..Len(releases)
      BY <2>1, <1>3
    <3> QED
      BY <2>0, <2>1, <3>1, <1>3 DEF PointerIsReleased
  <2>2. CASE i = Len(releases) + 1
    <3>1. releases'[i].from = current
      BY <2>2, <1>1, <1>3
    <3>2. CASE releases = <<>>
      BY <3>1, <3>2, <2>2 DEF PointerIsReleased
    <3>3. CASE releases # <<>>
      <4>1. Len(releases) # 0 /\ i # 1 /\ i - 1 = Len(releases) /\ i - 1 \in 1..Len(releases)
        BY <3>3, <2>2, <1>2, <1>3
      <4> QED
        BY <4>1, <3>1, <3>3, <1>3 DEF PointerIsReleased
    <3> QED
      BY <3>2, <3>3
  <2> QED
    BY <2>0, <2>1, <2>2, <1>3
<1>6. releases' # <<>> /\ releases'[Len(releases')].to = v
  BY <1>1, <1>3
<1> QED
  BY <1>3, <1>4, <1>5, <1>6 DEF PointerIsReleased

LEMMA RegistryStep ==
  ASSUME RegistryAssumption, RegistryIInv, [RegistryNext]_registryVars
  PROVE  RegistryIInv'
<1> USE DEF RegistryIInv
<1>1. ASSUME NEW k \in ContractVersions, NEW def \in ContractDefs, RegisterContract(k, def)
      PROVE  RegistryIInv'
  <2>1. contracts' = [contracts EXCEPT ![k] = def] /\ ~Registered(contracts[k])
        /\ UNCHANGED <<prompts, current, releases, first>>
    BY <1>1 DEF RegisterContract
  <2>2. RegistryTypeOK'
    BY <2>1 DEF RegistryTypeOK
  <2>3. \A c \in ContractVersions :
          Registered(contracts[c]) => contracts'[c] = contracts[c]
    BY <2>1 DEF RegistryTypeOK
  <2>4. EveryPromptIsValid'
    <3> SUFFICES ASSUME NEW v \in PromptVersions, Active(prompts[v])
                 PROVE  /\ prompts[v].fits # {}
                        /\ \A c \in prompts[v].fits :
                             /\ Registered(contracts'[c])
                             /\ prompts[v].reply \in {"any", contracts'[c].reply}
      BY <2>1 DEF EveryPromptIsValid, ValidPrompt, Active, Registered
    <3>1. prompts[v] \in PromptDefs
      BY UnregisteredIsIdle DEF RegistryTypeOK
    <3> QED
      BY <3>1, <2>3 DEF EveryPromptIsValid, ValidPrompt, RegistryAssumption
  <2>5. PointerIsReleased'
    BY <2>1 DEF PointerIsReleased, Active
  <2> QED
    BY <2>2, <2>4, <2>5
<1>2. ASSUME NEW v \in PromptVersions, NEW def \in PromptDefs, NEW asCurrent \in BOOLEAN,
             RegisterPrompt(v, def, asCurrent)
      PROVE  RegistryIInv'
  <2>1. /\ prompts' = [prompts EXCEPT ![v] = def] /\ ~Registered(prompts[v])
        /\ ValidPrompt(def) /\ contracts' = contracts
    BY <1>2 DEF RegisterPrompt
  <2>2. /\ prompts' \in [PromptVersions -> PromptDefs \cup {Unregistered}]
        /\ prompts'[v] = def
        /\ \A w \in PromptVersions : w # v => prompts'[w] = prompts[w]
    BY <2>1 DEF RegistryTypeOK
  <2>3. \A w \in PromptVersions : Active(prompts[w]) => prompts'[w] = prompts[w]
    BY <2>1, <2>2 DEF Registered, Active, Unregistered
  <2>4. EveryPromptIsValid'
    <3> SUFFICES ASSUME NEW w \in PromptVersions
                 PROVE  ValidPrompt(prompts[w])'
      BY DEF EveryPromptIsValid
    <3>1. ValidPrompt(def)'
      BY <2>1 DEF ValidPrompt, Registered, Active
    <3>2. ValidPrompt(prompts[w]) => (w # v => ValidPrompt(prompts[w])')
      BY <2>1, <2>2 DEF ValidPrompt, Registered, Active
    <3> QED
      BY <3>1, <3>2, <2>2 DEF EveryPromptIsValid, ValidPrompt, Registered, Active
  <2>5. CASE asCurrent /\ Active(def)
    <3>1. Points(v) /\ first' = first
      BY <1>2, <2>5 DEF RegisterPrompt
    <3>2. Active(prompts'[v])
      BY <2>2, <2>5
    <3>3. /\ current' \in PromptVersions \cup {0} /\ releases' \in Seq(ReleaseRecords)
          /\ PointerIsReleased'
      BY <3>1, <3>2, PointingIsRecorded
    <3>4. RegistryTypeOK'
      BY <3>1, <3>3, <2>1, <2>2 DEF RegistryTypeOK, ReleaseRecords
    <3> QED
      BY <2>4, <3>3, <3>4
  <2>6. CASE ~asCurrent /\ Active(def) /\ current = 0
    <3>1. current' = v /\ first' = v /\ releases' = releases
      BY <1>2, <2>6 DEF RegisterPrompt
    <3>2. releases = <<>>
      <4> SUFFICES ASSUME releases # <<>> PROVE FALSE
        OBVIOUS
      <4>1. /\ releases \in Seq(ReleaseRecords) /\ Len(releases) \in Nat \ {0}
            /\ Len(releases) \in 1..Len(releases)
        BY DEF RegistryTypeOK, ReleaseRecords
      <4>2. releases[Len(releases)] \in ReleaseRecords
        BY <4>1
      <4>3. releases[Len(releases)].to \in PromptVersions
        BY <4>2 DEF ReleaseRecords
      <4> QED
        BY <4>3, <2>6 DEF PointerIsReleased, RegistryAssumption
    <3>3. RegistryTypeOK'
      BY <3>1, <2>1, <2>2 DEF RegistryTypeOK
    <3>4. PointerIsReleased'
      BY <3>1, <3>2, <2>2, <2>6 DEF PointerIsReleased
    <3> QED
      BY <2>4, <3>3, <3>4
  <2>7. CASE ~(asCurrent /\ Active(def)) /\ ~(~asCurrent /\ Active(def) /\ current = 0)
    <3>1. UNCHANGED <<current, releases, first>>
      BY <1>2, <2>7 DEF RegisterPrompt
    <3>2. RegistryTypeOK'
      BY <3>1, <2>1, <2>2 DEF RegistryTypeOK
    <3>3. current # 0 => Active(prompts'[current])
      BY <2>3 DEF PointerIsReleased, RegistryTypeOK
    <3>4. PointerIsReleased'
      BY <3>1, <3>3 DEF PointerIsReleased
    <3> QED
      BY <2>4, <3>2, <3>4
  <2> QED
    BY <2>5, <2>6, <2>7
<1>3. ASSUME NEW v \in PromptVersions, Release(v)
      PROVE  RegistryIInv'
  <2>1. /\ Points(v) /\ Active(prompts[v]) /\ prompts' = prompts /\ contracts' = contracts
        /\ first' = first
    BY <1>3 DEF Release
  <2>2. /\ current' \in PromptVersions \cup {0} /\ releases' \in Seq(ReleaseRecords)
        /\ PointerIsReleased'
    BY <2>1, PointingIsRecorded
  <2>3. RegistryTypeOK'
    BY <2>1, <2>2 DEF RegistryTypeOK, ReleaseRecords
  <2>4. EveryPromptIsValid'
    BY <2>1 DEF EveryPromptIsValid, ValidPrompt, Registered, Active
  <2> QED
    BY <2>2, <2>3, <2>4
<1>4. CASE UNCHANGED registryVars
  <2>1. UNCHANGED <<prompts, contracts, current, releases, first>>
    BY <1>4 DEF registryVars
  <2> QED
    BY <2>1 DEF RegistryTypeOK, EveryPromptIsValid, ValidPrompt, Registered, Active,
                PointerIsReleased
<1> QED
  BY <1>1, <1>2, <1>3, <1>4 DEF RegistryNext

LEMMA RegistryHolds ==
  ASSUME RegistryAssumption, RegistryIInv
  PROVE  PromptsHold
<1>1. ASSUME NEW v \in PromptVersions, Usable(v)
      PROVE  /\ Active(prompts[v]) /\ InForce \in prompts[v].fits
             /\ prompts[v].reply \in {"any", contracts[InForce].reply}
  BY <1>1 DEF RegistryIInv, Usable, EveryPromptIsValid, ValidPrompt
<1>2. ForAgent # 0 => ForAgent \in PromptVersions /\ Usable(ForAgent)
  BY DEF ForAgent, Usable
<1>3. ForPlanner # 0 => ForPlanner \in PromptVersions /\ Usable(ForPlanner)
  BY DEF ForPlanner, Usable
<1>4. PromptFitsContract
  BY <1>1, <1>2, <1>3 DEF PromptFitsContract
<1> QED
  BY <1>4 DEF RegistryIInv, PromptsHold

\* Definitions keep their shape, and the pointer and the releases name versions.
THEOREM RegistryTypeCorrect == RegistrySpec => []RegistryTypeOK
<1>1. RegistryIInv => RegistryTypeOK
  BY DEF RegistryIInv
<1> QED
  BY <1>1, RegistryStart, RegistryStep, RegistryAssumption, PTL DEF RegistrySpec

\* The pointer of a prompt is released without a gap in its history, and what a run is given
\* fits the contract in force, for any prompts and contracts (PromptsHold, which the services
\* run checks for two versions of each).
THEOREM PromptsFitTheirContracts == RegistrySpec => []PromptsHold
BY RegistryStart, RegistryStep, RegistryHolds, RegistryAssumption, PTL DEF RegistrySpec

-----------------------------------------------------------------------------
(* PromptComparison *)

ComparedIsStatus == compared # "no" => compared = Status(before, after)

ComparisonIInv == ComparisonTypeOK /\ ComparedIsStatus

LEMMA ComparisonStep ==
  /\ ComparisonInit => ComparisonIInv
  /\ ComparisonIInv /\ [Compare]_comparisonVars => ComparisonIInv'
<1>1. ComparisonInit => ComparisonIInv
  BY DEF ComparisonInit, ComparisonIInv, ComparisonTypeOK, ComparedIsStatus
<1>2. ASSUME ComparisonIInv, [Compare]_comparisonVars
      PROVE  ComparisonIInv'
  <2>1. before' = before /\ after' = after /\ compared' \in {compared, Status(before, after)}
    BY <1>2 DEF Compare, comparisonVars
  <2>2. ComparisonTypeOK'
    BY <1>2, <2>1 DEF ComparisonIInv, ComparisonTypeOK
  <2>3. Status(before, after)' = Status(before, after)
    BY <2>1
  <2> QED
    BY <1>2, <2>1, <2>2, <2>3 DEF ComparisonIInv, ComparedIsStatus
<1> QED
  BY <1>1, <1>2

LEMMA StatusCases ==
  ASSUME NEW old, NEW new
  PROVE  LET found == StatusesOf(old, new) IN
         /\ "MISSING" \in found => Status(old, new) = "INCOMPARABLE"
         /\ "MISSING" \notin found /\ "REGRESSED" \in found => Status(old, new) = "WORSE"
         /\ "MISSING" \notin found /\ "REGRESSED" \notin found /\ "IMPROVED" \in found
              => Status(old, new) = "BETTER"
         /\ "MISSING" \notin found /\ "REGRESSED" \notin found /\ "IMPROVED" \notin found
              => Status(old, new) = "EQUAL"
BY DEF Status

\* What a verdict says of the metrics it rests on.
LEMMA MetricsOfVerdict ==
  ASSUME NEW old \in EvalRuns, NEW new \in EvalRuns,
         NEW c \in EvalCases, old[c] # NotRun
  PROVE  /\ new[c] = NotRun => "MISSING" \in StatusesOf(old, new)
         /\ new[c] # NotRun => \A m \in Present(old, new, c) :
              CompareMetric(old[c][m], new[c][m], Direction(m)) \in StatusesOf(old, new)
BY DEF StatusesOf

LEMMA Observations ==
  ASSUME NEW run \in EvalRuns, NEW c \in EvalCases, run[c] # NotRun, NEW m \in Observed[c]
  PROVE  run[c][m] \in Values[m] /\ run[c][m] \in Scalars
<1>1. run[c] \in Results(c)
  BY DEF EvalRuns
<1>2. run[c][m] \in Values[m] /\ m \in Metrics
  BY <1>1 DEF Results, Metrics
<1> QED
  BY <1>2, ComparisonAssumption

\* An improvement is a setback the other way round.
LEMMA ImprovedOneWay ==
  ASSUME NEW old \in Scalars, NEW new \in Scalars, NEW d,
         CompareMetric(old, new, d) = "IMPROVED"
  PROVE  CompareMetric(new, old, d) = "REGRESSED"
<1>1. CompareMetric(old, new, d) = "IMPROVED"
  OBVIOUS
<1>2. /\ NotObserved \notin {old, new} /\ old # new /\ old.type = new.type
      /\ d # "EQUAL_REQUIRED"
      /\ \/ /\ old.type = "number"
            /\ (d = "HIGHER_IS_BETTER") = (new.value > old.value)
         \/ old.type # "number" /\ new.type = "boolean" /\ new.value = 1
  BY <1>1 DEF CompareMetric, Better
<1>3. CASE old.type = "number"
  <2>1. old \in [type : {"number"}, value : Int] /\ new \in [type : {"number"}, value : Int]
    BY <1>2, <1>3 DEF Scalars, NotObserved
  <2>2. old.value \in Int /\ new.value \in Int /\ old.value # new.value
    BY <1>2, <2>1
  <2>3. (d = "HIGHER_IS_BETTER") # (old.value > new.value)
    BY <1>2, <1>3, <2>2
  <2> QED
    BY <1>2, <1>3, <2>3 DEF CompareMetric, Better
<1>4. CASE old.type # "number"
  <2>1. old \in [type : {"boolean"}, value : {0, 1}] /\ new \in [type : {"boolean"}, value : {0, 1}]
    BY <1>2, <1>4 DEF Scalars, NotObserved
  <2>2. old.value # 1
    BY <1>2, <1>4, <2>1
  <2> QED
    BY <1>2, <1>4, <2>2 DEF CompareMetric, Better
<1> QED
  BY <1>3, <1>4

LEMMA VerdictHolds == ComparisonIInv => CandidateIsNoWorse
<1> SUFFICES ASSUME ComparisonIInv, compared # "no"
             PROVE  /\ compared \in {"BETTER", "EQUAL"} =>
                         \A c \in EvalCases :
                           /\ before[c] # NotRun /\ \A m \in Asserted(c) : Coherent(m)
                           /\ Passed(before, c)
                           => after[c] # NotRun /\ Passed(after, c)
                    /\ compared = "BETTER" => Status(after, before) \in {"WORSE", "INCOMPARABLE"}
  BY DEF CandidateIsNoWorse
<1>1. compared = Status(before, after) /\ before \in EvalRuns /\ after \in EvalRuns
  BY DEF ComparisonIInv, ComparedIsStatus, ComparisonTypeOK
<1>2. compared \in {"BETTER", "EQUAL"} =>
        "MISSING" \notin StatusesOf(before, after) /\ "REGRESSED" \notin StatusesOf(before, after)
  BY <1>1, StatusCases
<1>3. ASSUME compared \in {"BETTER", "EQUAL"}, NEW c \in EvalCases, before[c] # NotRun,
             \A m \in Asserted(c) : Coherent(m), Passed(before, c)
      PROVE  after[c] # NotRun /\ Passed(after, c)
  <2>1. after[c] # NotRun
    BY <1>1, <1>2, <1>3, MetricsOfVerdict
  <2>2. ASSUME NEW m \in Asserted(c)
        PROVE  Satisfies(after[c][m], Assertions[m])
    <3>1. m \in Observed[c] /\ Satisfies(before[c][m], Assertions[m]) /\ Coherent(m)
      BY <1>3 DEF Passed, Asserted
    <3>2. m \in Present(before, after, c)
      BY <3>1 DEF Satisfies, Present
    <3>3. /\ before[c][m] \in Values[m] /\ after[c][m] \in Values[m]
          /\ CompareMetric(before[c][m], after[c][m], Direction(m)) \in StatusesOf(before, after)
      BY <1>1, <1>3, <2>1, <3>1, <3>2, Observations, MetricsOfVerdict
    <3>4. CompareMetric(before[c][m], after[c][m], Direction(m)) = "IMPROVED"
            \/ before[c][m] = after[c][m]
      BY <1>2, <1>3, <3>3 DEF CompareMetric
    <3> QED
      BY <3>1, <3>3, <3>4 DEF Coherent
  <2> QED
    BY <2>1, <2>2 DEF Passed
<1>4. ASSUME compared = "BETTER"
      PROVE  Status(after, before) \in {"WORSE", "INCOMPARABLE"}
  <2>1. "IMPROVED" \in StatusesOf(before, after)
    BY <1>1, <1>2, <1>4, StatusCases
  <2>2. PICK c \in EvalCases : /\ before[c] # NotRun /\ after[c] # NotRun
                               /\ \E m \in Observed[c] :
                                    CompareMetric(before[c][m], after[c][m], Direction(m))
                                      = "IMPROVED"
    BY <2>1 DEF StatusesOf, Present
  <2>3. PICK m \in Observed[c] :
          CompareMetric(before[c][m], after[c][m], Direction(m)) = "IMPROVED"
    BY <2>2
  <2>4. before[c][m] \in Scalars /\ after[c][m] \in Scalars
    BY <1>1, <2>2, Observations
  <2>5. CompareMetric(after[c][m], before[c][m], Direction(m)) = "REGRESSED"
    BY <2>3, <2>4, ImprovedOneWay
  <2>6. m \in Present(after, before, c)
    BY <2>3 DEF CompareMetric, Present
  <2>7. "REGRESSED" \in StatusesOf(after, before)
    BY <1>1, <2>2, <2>5, <2>6, MetricsOfVerdict
  <2> QED
    BY <2>7, StatusCases
<1> QED
  BY <1>3, <1>4

-----------------------------------------------------------------------------
(* PromptEvaluation *)

\* Induction over the lines of a file is an argument about the least line.
LEMMA LeastNatural ==
  ASSUME NEW T, T \subseteq Nat, T # {}
  PROVE  \E x \in T : \A y \in T : x <= y
<1> DEFINE less == {p \in Nat \X Nat : p[1] < p[2]}
<1>1. IsWellFoundedOn(less, Nat)
  BY NatLessThanWellFounded DEF OpToRel
<1>2. PICK x \in T : \A y \in T : ~ (<<y, x>> \in less)
  <2> HIDE DEF less
  <2> QED
    BY <1>1, WFMin
<1>3. ASSUME NEW y \in T PROVE x <= y
  <2>1. x \in Nat /\ y \in Nat /\ ~ (<<y, x>> \in less)
    BY <1>2
  <2>2. y < x => <<y, x>> \in less
    BY <2>1
  <2> QED
    BY <2>1, <2>2
<1> QED
  BY <1>3

CaseResults == [version : {"baseline", "candidate"}, case : Range(Cases),
                class : {"PASS", "FAIL", "INCONCLUSIVE"}, physical : {1, 2}]
Tallies == [results : Nat, passed : Nat, physical : Nat]
Summaries == {NoSummary, [status |-> "BLOCKED"]}
               \cup [status : {"COMPLETED"}, counts : Tallies]

\* The file holds one line at most for each pair, and a line without an end is a line.
FileIsSound ==
  /\ lines \in Seq(CaseResults) /\ tail \in {"ended", "cut", "unended"}
  /\ swallowed \subseteq Range(Pairs)
  /\ \A i, j \in DOMAIN lines : PairOf(lines[i]) = PairOf(lines[j]) => i = j
  /\ tail = "unended" => lines # <<>>

\* Where the process stands.
ProcessStands ==
  /\ fresh \in BOOLEAN /\ place \in 0..Len(Pairs) /\ got \in Tallies /\ faults \in Nat
  /\ evalPhase \in {"off", "next", "waiting", "finished", "blocked", "summarised"}
  /\ evalPhase \in {"next", "waiting"} => place < Len(Pairs)
  /\ evalPhase = "finished" => place = Len(Pairs)
  /\ evalPhase = "off" => place = 0 /\ got = NoCounts
  /\ evalPhase = "waiting" /\ ~fresh => FirstLine(Pair) = {}

\* The manifest runs as long as the process does.
ManifestRuns ==
  /\ evalManifest \in {"none", "RUNNING", "BLOCKED", "COMPLETED"} /\ summary \in Summaries
  /\ evalPhase # "off" => evalManifest = "RUNNING"
  /\ evalPhase = "summarised" => summary # NoSummary
  /\ evalManifest = "COMPLETED" => summary.status = "COMPLETED"

\* Going over the lines adds up to t if only those of some pairs count.
Sums(list, some, t) ==
  \E f \in [0..Len(list) -> Tallies] :
    /\ f[0] = NoCounts /\ f[Len(list)] = t
    /\ \A n \in 1..Len(list) :
         f[n] = IF PairOf(list[n]) \in some THEN Plus(f[n - 1], CountOf(list[n])) ELSE f[n - 1]

\* The first n pairs are counted once each, and as a file has them which lost some.
Behind(n) == {Pairs[i] : i \in 1..n}
AddsUp(n, t, list, lost) ==
  /\ t.results = n
  /\ \A pair \in Behind(n) : (\E i \in 1..Len(list) : PairOf(list[i]) = pair) \/ pair \in lost
  /\ Behind(n) \cap lost = {} => Sums(list, Behind(n), t)

Undisturbed == ~fresh /\ faults = 0
ProcessAddsUp ==
  Undisturbed /\ evalPhase \in {"off", "next", "waiting", "finished"} =>
    AddsUp(place, got, lines, swallowed)
SummaryAddsUp ==
  /\ Undisturbed /\ summary.status = "COMPLETED"
  /\ evalPhase = "summarised" \/ evalManifest = "COMPLETED"
  => AddsUp(Len(Pairs), summary.counts, lines, swallowed)

EvaluationIInv ==
  FileIsSound /\ ProcessStands /\ ManifestRuns /\ ProcessAddsUp /\ SummaryAddsUp

-----------------------------------------------------------------------------
(* Pairs and sums *)

LEMMA PairsAreDistinct ==
  /\ Len(Pairs) = 2 * Len(Cases) /\ Len(Pairs) \in Nat /\ Len(Cases) \in Nat
  /\ Len(Cases) > 0 /\ DOMAIN Pairs = 1..Len(Pairs)
  /\ \A i \in 1..Len(Pairs) : /\ Pairs[i] \in Range(Pairs)
                              /\ Pairs[i] = PairOf(Pairs[i])
                              /\ Pairs[i].version \in {"baseline", "candidate"}
                              /\ Pairs[i].case \in Range(Cases)
  /\ \A i, j \in 1..Len(Pairs) : Pairs[i] = Pairs[j] => i = j
  /\ \A pair \in Range(Pairs) : \E i \in 1..Len(Pairs) : pair = Pairs[i]
<1> DEFINE k == 2 * Len(Cases)
           e(i) == IF i <= Len(Cases) THEN [version |-> "baseline", case |-> Cases[i]]
                   ELSE [version |-> "candidate", case |-> Cases[i - Len(Cases)]]
<1>1. /\ Len(Cases) \in Nat /\ Len(Cases) > 0 /\ DOMAIN Cases = 1..Len(Cases)
      /\ \A i \in 1..Len(Cases) : Cases[i] \in Range(Cases)
      /\ \A i, j \in 1..Len(Cases) : Cases[i] = Cases[j] => i = j
  BY EvaluationAssumption DEF Range
<1>2. k \in Nat
  BY <1>1
<1>3. Pairs = [i \in 1..k |-> e(i)]
  BY DEF Pairs
<1>4. \A i \in 1..k : e(i).version \in {"baseline", "candidate"} /\ e(i).case \in Range(Cases)
                      /\ e(i) = PairOf(e(i))
  BY <1>1 DEF PairOf
<1>5. \A i, j \in 1..k : e(i) = e(j) => i = j
  BY <1>1
<1> HIDE DEF k, e
<1>6. Pairs \in Seq(Range(Pairs)) /\ Len(Pairs) = k /\ DOMAIN Pairs = 1..k
  <2>1. Pairs \in [1..k -> Range(Pairs)]
    BY <1>3 DEF Range
  <2> QED
    BY <2>1, <1>2
<1>7. \A i \in 1..k : Pairs[i] = e(i) /\ Pairs[i] \in Range(Pairs)
  BY <1>3, <1>6 DEF Range
<1>8. \A pair \in Range(Pairs) : \E i \in 1..k : pair = Pairs[i]
  BY <1>6 DEF Range
<1> QED
  BY <1>1, <1>2, <1>4, <1>5, <1>6, <1>7, <1>8 DEF k

LEMMA EveryPairIsAsked ==
  \A r \in CaseResults : PairOf(r) \in Range(Pairs)
<1> SUFFICES ASSUME NEW r \in CaseResults PROVE PairOf(r) \in Range(Pairs)
  OBVIOUS
<1>1. /\ Len(Cases) \in Nat /\ DOMAIN Cases = 1..Len(Cases)
  BY EvaluationAssumption
<1>2. PICK i \in 1..Len(Cases) : r.case = Cases[i]
  BY <1>1 DEF CaseResults, Range
<1>3. CASE r.version = "baseline"
  <2>1. i \in 1..(2 * Len(Cases)) /\ Pairs[i] = PairOf(r)
    BY <1>1, <1>2, <1>3 DEF Pairs, PairOf
  <2> QED
    BY <2>1, PairsAreDistinct
<1>4. CASE r.version = "candidate"
  <2>1. Len(Cases) + i \in 1..(2 * Len(Cases)) /\ ~(Len(Cases) + i <= Len(Cases))
        /\ (Len(Cases) + i) - Len(Cases) = i
    BY <1>1
  <2>2. Pairs[Len(Cases) + i] = PairOf(r)
    BY <1>2, <1>4, <2>1 DEF Pairs, PairOf
  <2> QED
    BY <2>1, <2>2, PairsAreDistinct
<1> QED
  BY <1>3, <1>4 DEF CaseResults

LEMMA PlusIsTally ==
  /\ NoCounts \in Tallies
  /\ \A r \in CaseResults : CountOf(r) \in Tallies /\ CountOf(r).results = 1
  /\ \A s, t \in Tallies : Plus(s, t) \in Tallies /\ Plus(s, t).results = s.results + t.results
  /\ \A s, t, u \in Tallies : Plus(Plus(s, t), u) = Plus(Plus(s, u), t)
BY DEF NoCounts, Tallies, CaseResults, CountOf, Plus

LEMMA SumsOfNone ==
  ASSUME NEW list \in Seq(CaseResults)
  PROVE  Sums(list, {}, NoCounts)
<1>1. Len(list) \in Nat
  OBVIOUS
<1> DEFINE f == [n \in 0..Len(list) |-> NoCounts]
<1>2. f \in [0..Len(list) -> Tallies] /\ \A n \in 0..Len(list) : f[n] = NoCounts
  BY PlusIsTally
<1>3. \A n \in 1..Len(list) : n \in 0..Len(list) /\ n - 1 \in 0..Len(list)
  BY <1>1
<1>4. 0 \in 0..Len(list) /\ Len(list) \in 0..Len(list)
  BY <1>1
<1> HIDE DEF f
<1> QED
  BY <1>2, <1>3, <1>4 DEF Sums

\* One more pair counts, which has one line.
LEMMA SumsWithLine ==
  ASSUME NEW list \in Seq(CaseResults), NEW some, NEW t, Sums(list, some, t),
         NEW i \in 1..Len(list), PairOf(list[i]) \notin some,
         \A n \in 1..Len(list) : PairOf(list[n]) = PairOf(list[i]) => n = i
  PROVE  Sums(list, some \cup {PairOf(list[i])}, Plus(t, CountOf(list[i])))
<1>1. Len(list) \in Nat /\ list[i] \in CaseResults
  OBVIOUS
<1>2. PICK f \in [0..Len(list) -> Tallies] :
        /\ f[0] = NoCounts /\ f[Len(list)] = t
        /\ \A n \in 1..Len(list) :
             f[n] = IF PairOf(list[n]) \in some THEN Plus(f[n - 1], CountOf(list[n]))
                    ELSE f[n - 1]
  BY DEF Sums
<1> DEFINE more == CountOf(list[i])
           g == [n \in 0..Len(list) |-> IF n >= i THEN Plus(f[n], more) ELSE f[n]]
<1>3. more \in Tallies
  BY <1>1, PlusIsTally
<1>4. g \in [0..Len(list) -> Tallies]
  BY <1>2, <1>3, PlusIsTally
<1>5. g[0] = NoCounts /\ g[Len(list)] = Plus(t, more)
  BY <1>1, <1>2
<1>6. ASSUME NEW n \in 1..Len(list)
      PROVE  g[n] = IF PairOf(list[n]) \in some \cup {PairOf(list[i])}
                    THEN Plus(g[n - 1], CountOf(list[n])) ELSE g[n - 1]
  <2>1. /\ n \in 0..Len(list) /\ n - 1 \in 0..Len(list) /\ list[n] \in CaseResults
        /\ f[n] \in Tallies /\ f[n - 1] \in Tallies /\ CountOf(list[n]) \in Tallies
    <3>1. n \in 0..Len(list) /\ n - 1 \in 0..Len(list) /\ list[n] \in CaseResults
      BY <1>1
    <3> HIDE DEF g
    <3> QED
      BY <3>1, <1>2, PlusIsTally
  <2>2. /\ g[n] = IF n >= i THEN Plus(f[n], more) ELSE f[n]
        /\ g[n - 1] = IF n - 1 >= i THEN Plus(f[n - 1], more) ELSE f[n - 1]
    BY <2>1
  <2> HIDE DEF g
  <2>3. CASE n = i
    <3>1. f[n] = f[n - 1] /\ g[n] = Plus(f[n], more) /\ g[n - 1] = f[n - 1]
      BY <2>3, <2>2, <1>2, <1>1
    <3> QED
      BY <3>1, <2>3
  <2>4. CASE n > i
    <3>1. g[n] = Plus(f[n], more) /\ g[n - 1] = Plus(f[n - 1], more)
      BY <2>4, <2>2, <1>1
    <3>2. PairOf(list[n]) # PairOf(list[i])
      BY <2>4, <1>1
    <3>3. CASE PairOf(list[n]) \in some
      <4>1. f[n] = Plus(f[n - 1], CountOf(list[n]))
        BY <3>3, <1>2
      <4> HIDE DEF more
      <4>2. g[n] = Plus(g[n - 1], CountOf(list[n]))
        BY <3>1, <4>1, <2>1, <1>3, PlusIsTally
      <4> QED
        BY <4>2, <3>3
    <3>4. CASE PairOf(list[n]) \notin some
      BY <3>1, <3>2, <3>4, <1>2
    <3> QED
      BY <3>3, <3>4
  <2>5. CASE n < i
    <3>1. g[n] = f[n] /\ g[n - 1] = f[n - 1]
      BY <2>5, <2>2, <1>1
    <3>2. PairOf(list[n]) # PairOf(list[i])
      BY <2>5, <1>1
    <3> QED
      BY <3>1, <3>2, <1>2
  <2> QED
    BY <2>3, <2>4, <2>5, <1>1
<1> HIDE DEF g, more
<1>7. Sums(list, some \cup {PairOf(list[i])}, Plus(t, more))
  BY <1>4, <1>5, <1>6 DEF Sums
<1> QED
  BY <1>7 DEF more

\* A line is added for a pair that had none.
LEMMA SumsAppended ==
  ASSUME NEW list \in Seq(CaseResults), NEW some, NEW t, Sums(list, some, t),
         NEW r \in CaseResults, \A n \in 1..Len(list) : PairOf(list[n]) # PairOf(r)
  PROVE  Sums(Append(list, r), some \cup {PairOf(r)}, Plus(t, CountOf(r)))
<1> DEFINE L == Len(list)
           longer == Append(list, r)
           more == CountOf(r)
<1>1. /\ L \in Nat /\ longer \in Seq(CaseResults) /\ Len(longer) = L + 1
      /\ longer[L + 1] = r /\ \A n \in 1..L : longer[n] = list[n]
  OBVIOUS
<1>2. PICK f \in [0..L -> Tallies] :
        /\ f[0] = NoCounts /\ f[L] = t
        /\ \A n \in 1..L : f[n] = IF PairOf(list[n]) \in some
                                  THEN Plus(f[n - 1], CountOf(list[n])) ELSE f[n - 1]
  BY DEF Sums
<1> DEFINE g == [n \in 0..L + 1 |-> IF n = L + 1 THEN Plus(t, more) ELSE f[n]]
<1> HIDE DEF L, longer
<1>3. t \in Tallies /\ more \in Tallies
  <2>1. L \in 0..L
    BY <1>1
  <2>2. t \in Tallies
    BY <1>2, <2>1
  <2>3. more \in Tallies
    BY PlusIsTally
  <2> QED
    BY <2>2, <2>3
<1> HIDE DEF more
<1>4. g \in [0..L + 1 -> Tallies]
  <2>1. \A n \in 0..L + 1 : n # L + 1 => n \in 0..L
    BY <1>1
  <2> QED
    BY <2>1, <1>2, <1>3, PlusIsTally
<1>5. /\ g[0] = NoCounts /\ g[L + 1] = Plus(t, more)
      /\ \A n \in 0..L : g[n] = f[n]
  BY <1>1, <1>2
<1> HIDE DEF g
<1>6. ASSUME NEW n \in 1..L + 1
      PROVE  g[n] = IF PairOf(longer[n]) \in some \cup {PairOf(r)}
                    THEN Plus(g[n - 1], CountOf(longer[n])) ELSE g[n - 1]
  <2>1. CASE n = L + 1
    <3>1. g[n - 1] = t
      BY <1>1, <1>2, <1>5, <2>1
    <3>2. longer[n] = r
      BY <1>1, <2>1
    <3> QED
      BY <3>1, <3>2, <2>1, <1>5 DEF more
  <2>2. CASE n # L + 1
    <3>1. n \in 1..L /\ n \in 0..L /\ n - 1 \in 0..L
      BY <1>1, <2>2
    <3>2. longer[n] = list[n] /\ g[n] = f[n] /\ g[n - 1] = f[n - 1]
      BY <3>1, <1>1, <1>5
    <3>3. PairOf(list[n]) # PairOf(r)
      BY <3>1 DEF L
    <3> QED
      BY <3>1, <3>2, <3>3, <1>2
  <2> QED
    BY <2>1, <2>2
<1>7. Sums(longer, some \cup {PairOf(r)}, Plus(t, more))
  BY <1>1, <1>4, <1>5, <1>6 DEF Sums
<1> QED
  BY <1>7 DEF longer, more

\* If every line counts, the sum is what the file says.
LEMMA SumsOfAll ==
  ASSUME NEW list \in Seq(CaseResults), NEW some, NEW t, Sums(list, some, t),
         \A n \in 1..Len(list) : PairOf(list[n]) \in some
  PROVE  Counted(list) = t
<1> DEFINE L == Len(list)
           F(h) == [n \in 0..L |-> IF n = 0 THEN NoCounts
                                   ELSE Plus(h[n - 1], CountOf(list[n]))]
<1>1. L \in Nat
  OBVIOUS
<1>2. PICK f \in [0..L -> Tallies] :
        /\ f[0] = NoCounts /\ f[L] = t
        /\ \A n \in 1..L : f[n] = Plus(f[n - 1], CountOf(list[n]))
  BY DEF Sums
<1>3. f = F(f)
  <2>1. \A n \in 0..L : n # 0 => n \in 1..L
    BY <1>1
  <2>2. \A n \in 0..L : f[n] = F(f)[n]
    BY <2>1, <1>2
  <2> QED
    BY <2>2
<1> DEFINE sum == CHOOSE h : h = F(h)
<1>4. sum = F(sum)
  <2> HIDE DEF F
  <2> QED
    BY <1>3
<1>5. Counted(list) = sum[L]
  BY DEF Counted
<1> HIDE DEF sum
<1>6. sum[0] = NoCounts /\ \A n \in 1..L : sum[n] = Plus(sum[n - 1], CountOf(list[n]))
  <2>1. \A n \in 0..L : sum[n] = IF n = 0 THEN NoCounts
                                 ELSE Plus(sum[n - 1], CountOf(list[n]))
    BY <1>4
  <2>2. 0 \in 0..L /\ \A n \in 1..L : n \in 0..L /\ n # 0
    BY <1>1
  <2> QED
    BY <2>1, <2>2
<1> HIDE DEF F, L
<1> DEFINE Apart == {n \in 0..L : sum[n] # f[n]}
<1>7. Apart = {}
  <2> SUFFICES ASSUME Apart # {} PROVE FALSE
    OBVIOUS
  <2>1. PICK n \in Apart : \A m \in Apart : n <= m
    <3>1. Apart \subseteq Nat
      BY <1>1
    <3> HIDE DEF Apart
    <3> QED
      BY <3>1, LeastNatural
  <2>2. n \in 0..L /\ sum[n] # f[n] /\ n # 0
    BY <1>2, <1>6
  <2>3. n \in 1..L /\ n - 1 \in 0..L /\ n - 1 \notin Apart
    BY <2>1, <2>2, <1>1
  <2>4. sum[n - 1] = f[n - 1]
    BY <2>3
  <2> QED
    BY <2>2, <2>3, <2>4, <1>2, <1>6
<1>8. sum[L] = f[L]
  BY <1>1, <1>7
<1> QED
  BY <1>2, <1>5, <1>8

-----------------------------------------------------------------------------
(* One pair more *)

LEMMA OnePairMore ==
  ASSUME NEW n \in 0..Len(Pairs), n < Len(Pairs)
  PROVE  /\ Pairs[n + 1] \in Range(Pairs) /\ Pairs[n + 1] \notin Behind(n)
         /\ Behind(n + 1) = Behind(n) \cup {Pairs[n + 1]}
         /\ n + 1 \in 0..Len(Pairs)
         /\ \A class \in {"PASS", "FAIL", "INCONCLUSIVE"}, physical \in {1, 2} :
              /\ Result(Pairs[n + 1], class, physical) \in CaseResults
              /\ PairOf(Result(Pairs[n + 1], class, physical)) = Pairs[n + 1]
<1>1. n \in Nat /\ n + 1 \in 1..Len(Pairs) /\ 1..(n + 1) = 1..n \cup {n + 1}
      /\ \A i \in 1..n : i \in 1..Len(Pairs) /\ i # n + 1
  BY PairsAreDistinct
<1>2. Pairs[n + 1] \notin Behind(n)
  BY <1>1, PairsAreDistinct DEF Behind
<1>3. Behind(n + 1) = Behind(n) \cup {Pairs[n + 1]}
  BY <1>1 DEF Behind
<1>4. \A class \in {"PASS", "FAIL", "INCONCLUSIVE"}, physical \in {1, 2} :
         Result(Pairs[n + 1], class, physical) \in CaseResults
  BY <1>1, PairsAreDistinct DEF Result, CaseResults
<1>5. \A class, physical : PairOf(Result(Pairs[n + 1], class, physical)) = Pairs[n + 1]
  BY <1>1, PairsAreDistinct DEF Result, PairOf
<1> QED
  BY <1>1, <1>2, <1>3, <1>4, <1>5, PairsAreDistinct

\* Its line was there.
LEMMA AddsLine ==
  ASSUME NEW n \in 0..Len(Pairs), n < Len(Pairs), NEW t \in Tallies,
         NEW list \in Seq(CaseResults), NEW lost, AddsUp(n, t, list, lost),
         NEW i \in 1..Len(list), PairOf(list[i]) = Pairs[n + 1],
         \A m \in 1..Len(list) : PairOf(list[m]) = PairOf(list[i]) => m = i
  PROVE  AddsUp(n + 1, Plus(t, CountOf(list[i])), list, lost)
<1>1. /\ Pairs[n + 1] \notin Behind(n) /\ Behind(n + 1) = Behind(n) \cup {Pairs[n + 1]}
      /\ list[i] \in CaseResults /\ n \in Nat
  BY OnePairMore, PairsAreDistinct
<1>2. Plus(t, CountOf(list[i])).results = n + 1
  BY <1>1, PlusIsTally DEF AddsUp
<1>3. Behind(n) \cap lost = {} => Sums(list, Behind(n + 1), Plus(t, CountOf(list[i])))
  <2> SUFFICES ASSUME Sums(list, Behind(n), t)
               PROVE  Sums(list, Behind(n) \cup {PairOf(list[i])}, Plus(t, CountOf(list[i])))
    BY <1>1 DEF AddsUp
  <2> QED
    BY <1>1, SumsWithLine
<1> QED
  BY <1>1, <1>2, <1>3 DEF AddsUp

\* Its line is written.
LEMMA AddsAppended ==
  ASSUME NEW n \in 0..Len(Pairs), n < Len(Pairs), NEW t \in Tallies,
         NEW list \in Seq(CaseResults), NEW lost, AddsUp(n, t, list, lost),
         NEW r \in CaseResults, PairOf(r) = Pairs[n + 1],
         \A m \in 1..Len(list) : PairOf(list[m]) # PairOf(r)
  PROVE  AddsUp(n + 1, Plus(t, CountOf(r)), Append(list, r), lost \ {PairOf(r)})
<1> DEFINE longer == Append(list, r)
<1>1. /\ Pairs[n + 1] \notin Behind(n) /\ Behind(n + 1) = Behind(n) \cup {Pairs[n + 1]}
      /\ n \in Nat
  BY OnePairMore, PairsAreDistinct
<1>2. Plus(t, CountOf(r)).results = n + 1
  BY <1>1, PlusIsTally DEF AddsUp
<1>3. Behind(n + 1) \cap (lost \ {PairOf(r)}) = {} => Behind(n) \cap lost = {}
  BY <1>1
<1>4. Behind(n) \cap lost = {} => Sums(longer, Behind(n + 1), Plus(t, CountOf(r)))
  BY <1>1, SumsAppended DEF AddsUp
<1>5. /\ \A m \in 1..Len(list) : m \in 1..Len(longer) /\ longer[m] = list[m]
      /\ Len(longer) \in 1..Len(longer) /\ longer[Len(longer)] = r
  OBVIOUS
<1>6. ASSUME NEW pair \in Behind(n + 1)
      PROVE  (\E i \in 1..Len(longer) : PairOf(longer[i]) = pair) \/ pair \in lost \ {PairOf(r)}
  <2> HIDE DEF longer
  <2>1. CASE pair = PairOf(r)
    BY <2>1, <1>5
  <2>2. CASE pair # PairOf(r)
    <3>1. (\E i \in 1..Len(list) : PairOf(list[i]) = pair) \/ pair \in lost
      BY <2>2, <1>1 DEF AddsUp
    <3> QED
      BY <3>1, <2>2, <1>5
  <2> QED
    BY <2>1, <2>2
<1> HIDE DEF longer
<1>7. AddsUp(n + 1, Plus(t, CountOf(r)), longer, lost \ {PairOf(r)})
  BY <1>2, <1>3, <1>4, <1>6 DEF AddsUp
<1> QED
  BY <1>7 DEF longer

\* What the front of a file holds.
LEMMA FrontOfFile ==
  ASSUME NEW list \in Seq(CaseResults), list # <<>>
  PROVE  /\ Front(list) \in Seq(CaseResults) /\ Len(Front(list)) = Len(list) - 1
         /\ \A m \in 1..Len(Front(list)) : m \in 1..Len(list) /\ Front(list)[m] = list[m]
         /\ Len(list) \in 1..Len(list) /\ Last(list) = list[Len(list)]
         /\ \A m \in 1..Len(list) : m # Len(list) => m \in 1..Len(Front(list))
<1>1. Len(list) \in Nat /\ Len(list) # 0
  OBVIOUS
<1>2. Front(list) \in Seq(CaseResults) /\ Len(Front(list)) = Len(list) - 1
      /\ \A m \in 1..(Len(list) - 1) : Front(list)[m] = list[m]
  <2>1. /\ SubSeq(list, 1, Len(list) - 1) \in Seq(CaseResults)
        /\ Len(SubSeq(list, 1, Len(list) - 1)) = Len(list) - 1
        /\ \A m \in 1..(Len(list) - 1) : SubSeq(list, 1, Len(list) - 1)[m] = list[m]
    <3> DEFINE k == Len(list) - 1
    <3>1. k \in Int /\ 1 \in Int /\ k \in Nat /\ \A m \in 1..k : list[m] \in CaseResults
      BY <1>1
    <3> HIDE DEF k
    <3>2. /\ SubSeq(list, 1, k) \in Seq(CaseResults)
          /\ Len(SubSeq(list, 1, k)) = IF 1 <= k THEN k - 1 + 1 ELSE 0
          /\ \A m \in 1..(k - 1 + 1) : SubSeq(list, 1, k)[m] = list[1 + m - 1]
      BY ONLY <3>1, SubSeqProperties
    <3>3. Len(SubSeq(list, 1, k)) = k /\ \A m \in 1..k : SubSeq(list, 1, k)[m] = list[m]
      BY <3>1, <3>2
    <3> QED
      BY <3>2, <3>3 DEF k
  <2> QED
    BY <2>1 DEF Front
<1> QED
  BY <1>1, <1>2 DEF Last

\* Its line is lost, and with it one that had no end.
LEMMA AddsSwallowed ==
  ASSUME NEW n \in 0..Len(Pairs), n < Len(Pairs), NEW t \in Tallies,
         NEW list \in Seq(CaseResults), NEW lost, AddsUp(n, t, list, lost),
         NEW r \in CaseResults, PairOf(r) = Pairs[n + 1]
  PROVE  /\ AddsUp(n + 1, Plus(t, CountOf(r)), list, lost \cup {PairOf(r)})
         /\ list # <<>> => AddsUp(n + 1, Plus(t, CountOf(r)), Front(list),
                                  lost \cup {PairOf(r), PairOf(Last(list))})
<1>1. /\ Behind(n + 1) = Behind(n) \cup {PairOf(r)} /\ n \in Nat
  BY OnePairMore, PairsAreDistinct
<1>2. Plus(t, CountOf(r)).results = n + 1
  BY <1>1, PlusIsTally DEF AddsUp
<1>3. AddsUp(n + 1, Plus(t, CountOf(r)), list, lost \cup {PairOf(r)})
  BY <1>1, <1>2 DEF AddsUp
<1>4. ASSUME list # <<>>
      PROVE  AddsUp(n + 1, Plus(t, CountOf(r)), Front(list),
                    lost \cup {PairOf(r), PairOf(Last(list))})
  <2>1. ASSUME NEW pair \in Behind(n + 1)
        PROVE  \/ \E i \in 1..Len(Front(list)) : PairOf(Front(list)[i]) = pair
               \/ pair \in lost \cup {PairOf(r), PairOf(Last(list))}
    <3> SUFFICES ASSUME pair \notin lost, pair # PairOf(r), pair # PairOf(Last(list))
                 PROVE  \E i \in 1..Len(Front(list)) : PairOf(Front(list)[i]) = pair
      OBVIOUS
    <3>1. PICK i \in 1..Len(list) : PairOf(list[i]) = pair
      BY <1>1 DEF AddsUp
    <3>2. i # Len(list)
      BY <1>4, <3>1, FrontOfFile
    <3> QED
      BY <1>4, <3>1, <3>2, FrontOfFile
  <2> QED
    BY <1>1, <1>2, <2>1 DEF AddsUp
<1> QED
  BY <1>3, <1>4

-----------------------------------------------------------------------------
(* The file *)

LEMMA LineOfPair ==
  ASSUME FileIsSound, NEW pair
  PROVE  /\ \A i \in FirstLine(pair) :
              /\ i \in 1..Len(lines) /\ PairOf(lines[i]) = pair
              /\ \A m \in 1..Len(lines) : PairOf(lines[m]) = PairOf(lines[i]) => m = i
         /\ FirstLine(pair) = {} => \A m \in 1..Len(lines) : PairOf(lines[m]) # pair
<1>1. DOMAIN lines = 1..Len(lines) /\ Len(lines) \in Nat
  BY DEF FileIsSound
<1>2. ASSUME NEW m \in 1..Len(lines), PairOf(lines[m]) = pair
      PROVE  m \in FirstLine(pair)
  BY <1>1, <1>2 DEF FileIsSound, FirstLine
<1> QED
  BY <1>1, <1>2 DEF FileIsSound, FirstLine

\* However a result reaches the file, the file stays sound.
LEMMA FileStaysSound ==
  ASSUME FileIsSound, NEW r \in CaseResults, PairOf(r) \in Range(Pairs),
         \A m \in 1..Len(lines) : PairOf(lines[m]) # PairOf(r),
         \/ UNCHANGED <<lines, tail, swallowed>>
         \/ tail' = "ended" /\ Appended(r)
         \/ CutShort(r)
         \/ tail = "ended" /\ swallowed' = swallowed \cup {PairOf(r)} /\ UNCHANGED <<lines, tail>>
  PROVE  FileIsSound'
<1>1. /\ lines \in Seq(CaseResults) /\ swallowed \subseteq Range(Pairs)
      /\ tail \in {"ended", "cut", "unended"} /\ (tail = "unended" => lines # <<>>)
      /\ \A i, j \in 1..Len(lines) : PairOf(lines[i]) = PairOf(lines[j]) => i = j
  BY DEF FileIsSound
<1>2. \A m \in 1..Len(lines) : PairOf(lines[m]) \in Range(Pairs)
  <2> SUFFICES ASSUME NEW m \in 1..Len(lines) PROVE PairOf(lines[m]) \in Range(Pairs)
    OBVIOUS
  <2>1. lines[m] \in CaseResults
    BY <1>1
  <2> QED
    BY <2>1, EveryPairIsAsked
<1>3. tail = "unended" => /\ Front(lines) \in Seq(CaseResults)
                          /\ \A i, j \in 1..Len(Front(lines)) :
                               PairOf(Front(lines)[i]) = PairOf(Front(lines)[j]) => i = j
                          /\ PairOf(Last(lines)) \in Range(Pairs)
  BY <1>1, <1>2, FrontOfFile
<1>4. /\ Append(lines, r) \in Seq(CaseResults) /\ Append(lines, r) # <<>>
      /\ \A i, j \in 1..Len(Append(lines, r)) :
           PairOf(Append(lines, r)[i]) = PairOf(Append(lines, r)[j]) => i = j
  <2>1. /\ Append(lines, r) \in Seq(CaseResults) /\ Append(lines, r) # <<>>
        /\ Len(lines) \in Nat /\ Len(Append(lines, r)) = Len(lines) + 1
        /\ Append(lines, r)[Len(lines) + 1] = r
        /\ \A i \in 1..Len(lines) : Append(lines, r)[i] = lines[i]
    BY <1>1
  <2>2. \A i \in 1..(Len(lines) + 1) : i \in 1..Len(lines) \/ i = Len(lines) + 1
    BY <2>1
  <2> QED
    BY <1>1, <2>1, <2>2
<1>5. /\ swallowed' \subseteq Range(Pairs) /\ tail' \in {"ended", "cut", "unended"}
      /\ \/ lines' = lines /\ (tail' = "unended" => tail = "unended")
         \/ lines' = Append(lines, r)
         \/ tail = "unended" /\ tail' # "unended" /\ lines' = Front(lines)
  BY <1>1, <1>3 DEF Appended, CutShort
<1>6. /\ lines' \in Seq(CaseResults) /\ (tail' = "unended" => lines' # <<>>)
      /\ \A i, j \in 1..Len(lines') : PairOf(lines'[i]) = PairOf(lines'[j]) => i = j
  <2>1. CASE lines' = lines /\ (tail' = "unended" => tail = "unended")
    BY <2>1, <1>1
  <2>2. CASE lines' = Append(lines, r)
    BY <2>2, <1>4
  <2>3. CASE tail = "unended" /\ tail' # "unended" /\ lines' = Front(lines)
    BY <2>3, <1>3
  <2> QED
    BY <1>5, <2>1, <2>2, <2>3
<1>7. \A i, j \in DOMAIN lines' : PairOf(lines'[i]) = PairOf(lines'[j]) => i = j
  BY <1>6
<1>8. (\A i, j \in DOMAIN lines : PairOf(lines[i]) = PairOf(lines[j]) => i = j)'
  BY <1>7 DEF PairOf
<1> QED
  BY <1>5, <1>6, <1>8 DEF FileIsSound

-----------------------------------------------------------------------------
(* One step *)

LEMMA EvaluationStart == EvaluationInit => EvaluationIInv
<1> SUFFICES ASSUME EvaluationInit PROVE EvaluationIInv
  OBVIOUS
<1>1. FileIsSound /\ ProcessStands /\ ManifestRuns
  <2>1. FileIsSound
    BY DEF EvaluationInit, FileIsSound
  <2>2. ProcessStands
    <3>1. fresh \in BOOLEAN
      BY DEF EvaluationInit
    <3>2. place \in 0..Len(Pairs) /\ got \in Tallies /\ faults \in Nat
      BY PlusIsTally, PairsAreDistinct DEF EvaluationInit
    <3>3. evalPhase = "off" /\ place = 0 /\ got = NoCounts
      BY DEF EvaluationInit
    <3> QED
      BY <3>1, <3>2, <3>3 DEF ProcessStands
  <2>3. ManifestRuns
    BY DEF EvaluationInit, ManifestRuns, Summaries
  <2> QED
    BY <2>1, <2>2, <2>3
<1>2. AddsUp(0, NoCounts, <<>>, {})
  <2>1. Behind(0) = {}
    BY DEF Behind
  <2>2. Sums(<<>>, {}, NoCounts)
    <3>1. <<>> \in Seq(CaseResults)
      OBVIOUS
    <3> QED
      BY ONLY <3>1, SumsOfNone
  <2> QED
    BY <2>1, <2>2 DEF AddsUp, NoCounts
<1>3. ProcessAddsUp
  BY <1>2 DEF EvaluationInit, ProcessAddsUp
<1>4. SummaryAddsUp
  BY DEF EvaluationInit, SummaryAddsUp, NoSummary
<1> QED
  BY <1>1, <1>3, <1>4 DEF EvaluationIInv

\* At the end of the process its place and its counts are reset.
LEMMA EndIsStart ==
  ASSUME EvaluationIInv, EvaluationEnds, UNCHANGED <<fresh, faults>>
  PROVE  ProcessStands' /\ (FileIsSound' => ProcessAddsUp')
<1>1. ProcessStands'
  BY PlusIsTally, PairsAreDistinct DEF EvaluationIInv, ProcessStands, EvaluationEnds
<1>2. ASSUME FileIsSound'
      PROVE  AddsUp(0, NoCounts, lines', swallowed')
  <2>1. Behind(0) = {}
    BY DEF Behind
  <2>2. Sums(lines', {}, NoCounts)
    BY <1>2, SumsOfNone DEF FileIsSound
  <2> QED
    BY <2>1, <2>2 DEF AddsUp, NoCounts
<1> QED
  BY <1>1, <1>2 DEF EvaluationEnds, ProcessAddsUp

\* The pair at hand, and what can be said of it.
LEMMA PairAtHand ==
  ASSUME ProcessStands, evalPhase \in {"next", "waiting"}
  PROVE  /\ place \in 0..Len(Pairs) /\ place < Len(Pairs) /\ place \in Nat
         /\ Pair = Pairs[place + 1] /\ Pair \in Range(Pairs)
         /\ \A class \in {"PASS", "FAIL", "INCONCLUSIVE"}, physical \in {1, 2} :
              /\ Result(Pair, class, physical) \in CaseResults
              /\ PairOf(Result(Pair, class, physical)) = Pair
<1>1. place \in 0..Len(Pairs) /\ place < Len(Pairs)
  BY DEF ProcessStands
<1> QED
  BY <1>1, OnePairMore, PairsAreDistinct DEF Pair

\* The process goes on to the next pair.
LEMMA GoingOn ==
  ASSUME ProcessStands, evalPhase \in {"next", "waiting"},
         NEW counts \in Tallies, NEW physical, GoOn(counts, physical),
         fresh' = fresh, faults' \in Nat
  PROVE  /\ ProcessStands' /\ evalPhase' \in {"next", "finished"}
         /\ place' = place + 1 /\ got' = Plus(got, counts)
<1>1. /\ place' = place + 1 /\ got' = Plus(got, counts)
      /\ evalPhase' = IF place + 1 = Len(Pairs) THEN "finished" ELSE "next"
  BY DEF GoOn
<1>2. got' \in Tallies
  BY <1>1, PlusIsTally DEF ProcessStands
<1>3. place' \in 0..Len(Pairs) /\ (evalPhase' = "next" => place' < Len(Pairs))
  BY <1>1, PairAtHand, PairsAreDistinct
<1> QED
  BY <1>1, <1>2, <1>3 DEF ProcessStands

LEMMA EvaluationStep == EvaluationIInv /\ [EvaluationNext]_evaluationVars => EvaluationIInv'
<1> SUFFICES ASSUME EvaluationIInv, [EvaluationNext]_evaluationVars
             PROVE  EvaluationIInv'
  OBVIOUS
<1> USE DEF EvaluationIInv
<1>1. CASE BeginEvaluation
  <2>1. UNCHANGED <<lines, tail, summary, place, got, swallowed>> /\ faults' = 0
        /\ evalManifest' = "RUNNING" /\ evalPhase' = "next" /\ fresh' \in BOOLEAN
        /\ evalPhase = "off"
    BY <1>1 DEF BeginEvaluation
  <2>2. FileIsSound'
    BY <2>1 DEF FileIsSound, PairOf
  <2>3. ProcessStands'
    BY <2>1, PairsAreDistinct DEF ProcessStands
  <2>4. ManifestRuns' /\ SummaryAddsUp'
    BY <2>1 DEF ManifestRuns, SummaryAddsUp
  <2>5. AddsUp(0, NoCounts, lines', swallowed')
    <3>1. Behind(0) = {}
      BY DEF Behind
    <3>2. Sums(lines', {}, NoCounts)
      BY <2>2, SumsOfNone DEF FileIsSound
    <3> QED
      BY <3>1, <3>2 DEF AddsUp, NoCounts
  <2>6. ProcessAddsUp'
    BY <2>1, <2>5 DEF ProcessAddsUp, ProcessStands
  <2> QED
    BY <2>2, <2>3, <2>4, <2>6
<1>2. CASE Reuse
  <2>1. PICK i \in FirstLine(Pair) : GoOn(CountOf(lines[i]), lines[i].physical)
    BY <1>2 DEF Reuse
  <2>2. /\ evalPhase = "next" /\ ~fresh
        /\ UNCHANGED <<lines, tail, evalManifest, summary, fresh, processes, faults, swallowed>>
    BY <1>2 DEF Reuse
  <2>3. /\ i \in 1..Len(lines) /\ PairOf(lines[i]) = Pair
        /\ \A m \in 1..Len(lines) : PairOf(lines[m]) = PairOf(lines[i]) => m = i
    BY LineOfPair
  <2>4. lines \in Seq(CaseResults) /\ lines[i] \in CaseResults /\ CountOf(lines[i]) \in Tallies
    <3>1. lines \in Seq(CaseResults) /\ lines[i] \in CaseResults
      BY <2>3 DEF FileIsSound
    <3> QED
      BY <3>1, PlusIsTally
  <2>5. /\ ProcessStands' /\ evalPhase' \in {"next", "finished"}
        /\ place' = place + 1 /\ got' = Plus(got, CountOf(lines[i]))
    BY <2>1, <2>2, <2>4, GoingOn DEF ProcessStands
  <2>6. FileIsSound'
    BY <2>2 DEF FileIsSound, PairOf
  <2>7. ManifestRuns' /\ SummaryAddsUp'
    BY <2>2, <2>5 DEF ManifestRuns, SummaryAddsUp
  <2>8. Undisturbed => AddsUp(place', got', lines', swallowed')
    BY <2>2, <2>3, <2>4, <2>5, PairAtHand, AddsLine DEF ProcessAddsUp, ProcessStands
  <2>9. ProcessAddsUp'
    BY <2>2, <2>8 DEF ProcessAddsUp, Undisturbed
  <2> QED
    BY <2>5, <2>6, <2>7, <2>9
<1>3. CASE Ask
  <2>1. /\ evalPhase = "next" /\ (fresh \/ FirstLine(Pair) = {})
        /\ evalPhase' \in {"blocked", "waiting"}
        /\ UNCHANGED <<lines, tail, evalManifest, summary, fresh, place, got, faults, swallowed>>
    BY <1>3 DEF Ask
  <2>2. FileIsSound'
    BY <2>1 DEF FileIsSound, PairOf
  <2>3. FirstLine(Pair)' = FirstLine(Pair)
    BY <2>1 DEF FirstLine, Pair, PairOf
  <2>4. ProcessStands'
    BY <2>1, <2>3 DEF ProcessStands
  <2>5. ManifestRuns' /\ SummaryAddsUp' /\ ProcessAddsUp'
    BY <2>1 DEF ManifestRuns, SummaryAddsUp, ProcessAddsUp, Undisturbed
  <2> QED
    BY <2>2, <2>4, <2>5
<1>4. CASE Answered
  <2>1. PICK class \in {"PASS", "FAIL"}, physical \in {1, 2} :
          /\ Persist(Result(Pair, class, physical))
          /\ GoOn(CountOf(Result(Pair, class, physical)), physical)
    BY <1>4 DEF Answered
  <2>2. evalPhase = "waiting" /\ UNCHANGED <<evalManifest, summary, fresh, processes, faults>>
    BY <1>4 DEF Answered
  <2> DEFINE r == Result(Pair, class, physical)
  <2>3. r \in CaseResults /\ PairOf(r) = Pair /\ Pair \in Range(Pairs) /\ CountOf(r) \in Tallies
    BY <2>2, PairAtHand, PlusIsTally
  <2> HIDE DEF r
  <2>4. /\ ProcessStands' /\ evalPhase' \in {"next", "finished"}
        /\ place' = place + 1 /\ got' = Plus(got, CountOf(r))
    BY <2>1, <2>2, <2>3, GoingOn DEF ProcessStands, r
  <2>5. Persist(r)
    BY <2>1 DEF r
  <2>6. ManifestRuns' /\ SummaryAddsUp'
    BY <2>2, <2>4 DEF ManifestRuns, SummaryAddsUp
  <2>7. FileIsSound'
    <3>1. CASE FirstLine(Pair) # {}
      BY <3>1, <2>3, <2>5 DEF Persist, FileIsSound, PairOf
    <3>2. CASE FirstLine(Pair) = {}
      BY <3>2, <2>3, <2>5, LineOfPair, FileStaysSound DEF Persist
    <3> QED
      BY <3>1, <3>2
  <2>8. ASSUME Undisturbed PROVE AddsUp(place', got', lines', swallowed')
    <3>1. /\ FirstLine(Pair) = {} /\ AddsUp(place, got, lines, swallowed)
      BY <2>8, <2>2 DEF ProcessStands, ProcessAddsUp, Undisturbed
    <3>2. Appended(r) /\ \A m \in 1..Len(lines) : PairOf(lines[m]) # PairOf(r)
      BY <3>1, <2>3, <2>5, LineOfPair DEF Persist
    <3>3. /\ place \in 0..Len(Pairs) /\ place < Len(Pairs) /\ got \in Tallies
          /\ lines \in Seq(CaseResults) /\ PairOf(r) = Pairs[place + 1]
          /\ tail \in {"ended", "cut", "unended"} /\ (tail = "unended" => lines # <<>>)
      BY <2>2, <2>3, PairAtHand DEF ProcessStands, FileIsSound
    <3>4. CASE tail = "ended"
      <4>1. lines' = Append(lines, r) /\ swallowed' = swallowed \ {PairOf(r)}
        BY <3>2, <3>4 DEF Appended
      <4> QED
        BY <4>1, <3>1, <3>2, <3>3, <2>3, <2>4, AddsAppended
    <3>5. CASE tail = "cut"
      <4>1. lines' = lines /\ swallowed' = swallowed \cup {PairOf(r)}
        BY <3>2, <3>5 DEF Appended
      <4> QED
        BY <4>1, <3>1, <3>3, <2>3, <2>4, AddsSwallowed
    <3>6. CASE tail = "unended"
      <4>1. lines' = Front(lines) /\ swallowed' = swallowed \cup {PairOf(r), PairOf(Last(lines))}
        BY <3>2, <3>6 DEF Appended
      <4> QED
        BY <4>1, <3>1, <3>3, <3>6, <2>3, <2>4, AddsSwallowed
    <3> QED
      BY <3>3, <3>4, <3>5, <3>6
  <2>9. ProcessAddsUp'
    BY <2>2, <2>8 DEF ProcessAddsUp, Undisturbed
  <2> QED
    BY <2>4, <2>6, <2>7, <2>9
<1>5. CASE ProviderFails
  <2>1. /\ evalPhase = "waiting" /\ Persist(Result(Pair, "INCONCLUSIVE", 1))
        /\ evalPhase' = "blocked"
        /\ UNCHANGED <<evalManifest, summary, fresh, place, got, faults>>
    BY <1>5 DEF ProviderFails
  <2> DEFINE r == Result(Pair, "INCONCLUSIVE", 1)
  <2>2. r \in CaseResults /\ PairOf(r) = Pair /\ Pair \in Range(Pairs)
    BY <2>1, PairAtHand
  <2>3. Persist(r)
    BY <2>1
  <2> HIDE DEF r
  <2>4. FileIsSound'
    <3>1. CASE FirstLine(Pair) # {}
      BY <3>1, <2>2, <2>3 DEF Persist, FileIsSound, PairOf
    <3>2. CASE FirstLine(Pair) = {}
      BY <3>2, <2>2, <2>3, LineOfPair, FileStaysSound DEF Persist
    <3> QED
      BY <3>1, <3>2
  <2>5. ProcessStands' /\ ManifestRuns' /\ SummaryAddsUp' /\ ProcessAddsUp'
    BY <2>1 DEF ProcessStands, ManifestRuns, SummaryAddsUp, ProcessAddsUp
  <2> QED
    BY <2>4, <2>5
<1>6. CASE StorageFails
  <2> DEFINE answer == Result(Pair, "PASS", 1)
             failed == Result(Pair, "FAIL", 1)
  <2>1. /\ evalPhase = "waiting" /\ FirstLine(Pair) = {} /\ faults' = faults + 1
        /\ UNCHANGED <<evalManifest, summary, fresh, processes>>
        /\ GoOn(Plus(CountOf(answer), CountOf(failed)), 2)
        /\ \/ Persist(failed) \/ Persist(answer)
           \/ /\ tail = "ended" /\ swallowed' = swallowed \cup {Pair}
              /\ UNCHANGED <<lines, tail>>
           \/ tail = "ended" /\ tail' = "unended" /\ Appended(answer)
    BY <1>6 DEF StorageFails
  <2>2. /\ answer \in CaseResults /\ PairOf(answer) = Pair /\ failed \in CaseResults
        /\ PairOf(failed) = Pair /\ Pair \in Range(Pairs)
        /\ Plus(CountOf(answer), CountOf(failed)) \in Tallies
    BY <2>1, PairAtHand, PlusIsTally
  <2> HIDE DEF answer, failed
  <2>3. faults' \in Nat /\ faults' # 0
    BY <2>1 DEF ProcessStands
  <2>4. /\ ProcessStands' /\ evalPhase' \in {"next", "finished"}
    BY <2>1, <2>2, <2>3, GoingOn
  <2>5. FileIsSound'
    <3>1. \A m \in 1..Len(lines) : PairOf(lines[m]) # Pair
      BY <2>1, LineOfPair
    <3>2. CASE tail' = "ended" /\ Appended(failed)
      BY <3>1, <3>2, <2>2, FileStaysSound
    <3>3. CASE tail' = "ended" /\ Appended(answer)
      BY <3>1, <3>3, <2>2, FileStaysSound
    <3>4. CASE tail = "ended" /\ swallowed' = swallowed \cup {Pair} /\ UNCHANGED <<lines, tail>>
      BY <3>1, <3>4, <2>2, FileStaysSound
    <3>5. CASE tail = "ended" /\ tail' = "unended" /\ Appended(answer)
      <4>1. CutShort(answer)
        BY <3>5 DEF CutShort
      <4> QED
        BY <3>1, <4>1, <2>2, FileStaysSound
    <3> QED
      BY <3>2, <3>3, <3>4, <3>5, <2>1, <2>2 DEF Persist
  <2>6. ManifestRuns' /\ SummaryAddsUp' /\ ProcessAddsUp'
    BY <2>1, <2>3, <2>4 DEF ManifestRuns, SummaryAddsUp, ProcessAddsUp, Undisturbed
  <2> QED
    BY <2>4, <2>5, <2>6
<1>7. CASE DiskIsFull
  <2>1. /\ evalPhase = "waiting" /\ FirstLine(Pair) = {} /\ faults' = faults + 1
        /\ UNCHANGED <<lines, tail, swallowed>> \/ CutShort(Result(Pair, "FAIL", 1))
        /\ evalPhase' = "blocked"
        /\ UNCHANGED <<evalManifest, summary, fresh, place, got>>
    BY <1>7 DEF DiskIsFull
  <2>2. /\ Result(Pair, "FAIL", 1) \in CaseResults /\ PairOf(Result(Pair, "FAIL", 1)) = Pair
        /\ Pair \in Range(Pairs) /\ \A m \in 1..Len(lines) : PairOf(lines[m]) # Pair
    BY <2>1, PairAtHand, LineOfPair
  <2>3. FileIsSound'
    BY <2>1, <2>2, FileStaysSound
  <2>4. faults' \in Nat
    BY <2>1 DEF ProcessStands
  <2>5. ProcessStands' /\ ManifestRuns' /\ SummaryAddsUp' /\ ProcessAddsUp'
    BY <2>1, <2>4 DEF ProcessStands, ManifestRuns, SummaryAddsUp, ProcessAddsUp
  <2> QED
    BY <2>3, <2>5
<1>8. CASE WriteSummary
  <2>1. /\ evalPhase \in {"finished", "blocked"} /\ evalPhase' = "summarised"
        /\ summary' = IF evalPhase = "blocked" THEN [status |-> "BLOCKED"]
                      ELSE [status |-> "COMPLETED", counts |-> got]
        /\ UNCHANGED <<lines, tail, evalManifest, fresh, place, got, faults, swallowed>>
    BY <1>8 DEF WriteSummary
  <2>2. FileIsSound'
    BY <2>1 DEF FileIsSound, PairOf
  <2>3. ProcessStands' /\ ProcessAddsUp'
    BY <2>1 DEF ProcessStands, ProcessAddsUp
  <2>4. ManifestRuns'
    BY <2>1 DEF ManifestRuns, Summaries, NoSummary, ProcessStands
  <2>5. SummaryAddsUp'
    <3> SUFFICES ASSUME Undisturbed, summary'.status = "COMPLETED"
                 PROVE  AddsUp(Len(Pairs), summary'.counts, lines', swallowed')
      BY <2>1 DEF SummaryAddsUp, Undisturbed
    <3>1. evalPhase = "finished" /\ summary'.counts = got
      BY <2>1
    <3> QED
      BY <2>1, <3>1 DEF ProcessAddsUp, ProcessStands
  <2> QED
    BY <2>2, <2>3, <2>4, <2>5
<1>9. CASE WriteManifest
  <2>1. /\ evalPhase = "summarised" /\ EvaluationEnds /\ evalManifest' = summary.status
        /\ UNCHANGED <<lines, tail, summary, fresh, faults, swallowed>>
    BY <1>9 DEF WriteManifest
  <2>2. FileIsSound'
    BY <2>1 DEF FileIsSound, PairOf
  <2>3. ProcessStands' /\ ProcessAddsUp'
    BY <2>1, <2>2, EndIsStart
  <2>4. ManifestRuns'
    BY <2>1 DEF ManifestRuns, EvaluationEnds, Summaries, NoSummary
  <2>5. SummaryAddsUp'
    BY <2>1 DEF SummaryAddsUp, Undisturbed
  <2> QED
    BY <2>2, <2>3, <2>4, <2>5
<1>10. CASE Crash
  <2>1. /\ evalPhase # "off" /\ EvaluationEnds
        /\ \/ UNCHANGED <<lines, tail, swallowed>>
           \/ evalPhase = "waiting" /\ FirstLine(Pair) = {} /\ CutShort(Result(Pair, "PASS", 1))
        /\ UNCHANGED <<evalManifest, summary, fresh, faults>>
    BY <1>10 DEF Crash
  <2>2. FileIsSound'
    <3>1. CASE UNCHANGED <<lines, tail, swallowed>>
      BY <3>1 DEF FileIsSound, PairOf
    <3>2. CASE evalPhase = "waiting" /\ FirstLine(Pair) = {} /\ CutShort(Result(Pair, "PASS", 1))
      <4>1. /\ Result(Pair, "PASS", 1) \in CaseResults
            /\ PairOf(Result(Pair, "PASS", 1)) = Pair
            /\ Pair \in Range(Pairs) /\ \A m \in 1..Len(lines) : PairOf(lines[m]) # Pair
        BY <3>2, PairAtHand, LineOfPair
      <4> QED
        BY <3>2, <4>1, FileStaysSound
    <3> QED
      BY <2>1, <3>1, <3>2
  <2>3. ProcessStands' /\ ProcessAddsUp'
    BY <2>1, <2>2, EndIsStart
  <2>4. ManifestRuns' /\ SummaryAddsUp'
    BY <2>1 DEF ManifestRuns, SummaryAddsUp, EvaluationEnds
  <2> QED
    BY <2>2, <2>3, <2>4
<1>11. CASE UNCHANGED evaluationVars
  <2>1. UNCHANGED <<lines, tail, evalManifest, summary, fresh, evalPhase, place, got, faults,
                    swallowed>>
    BY <1>11 DEF evaluationVars
  <2>2. FirstLine(Pair)' = FirstLine(Pair)
    BY <2>1 DEF FirstLine, Pair, PairOf
  <2> QED
    BY <2>1, <2>2 DEF FileIsSound, ProcessStands, ManifestRuns, ProcessAddsUp, SummaryAddsUp,
                      Undisturbed, PairOf
<1> QED
  BY <1>1, <1>2, <1>3, <1>4, <1>5, <1>6, <1>7, <1>8, <1>9, <1>10, <1>11 DEF EvaluationNext

LEMMA EvaluationHolds == EvaluationIInv => EvaluationTypeOK /\ EvaluationAddsUp
<1> SUFFICES ASSUME EvaluationIInv PROVE EvaluationTypeOK /\ EvaluationAddsUp
  OBVIOUS
<1> USE DEF EvaluationIInv
<1>1. lines \in Seq(CaseResults) /\ DOMAIN lines = 1..Len(lines)
      /\ \A i \in 1..Len(lines) : lines[i] \in CaseResults /\ PairOf(lines[i]) \in Range(Pairs)
  BY EveryPairIsAsked DEF FileIsSound
<1>2. EvaluationTypeOK
  BY <1>1 DEF FileIsSound, ProcessStands, ManifestRuns, EvaluationTypeOK, CaseResults
<1>3. \A i, j \in DOMAIN lines : PairOf(lines[i]) = PairOf(lines[j]) => i = j
  BY DEF FileIsSound
<1>4. Behind(Len(Pairs)) = Range(Pairs)
  BY PairsAreDistinct DEF Behind
<1>5. ASSUME evalManifest = "COMPLETED", ~fresh, faults = 0
      PROVE  /\ summary.counts.results = Len(Pairs)
             /\ \A pair \in Range(Pairs) \ swallowed : Readable(pair)
             /\ swallowed = {} => summary.counts = Counted(lines)
  <2>1. AddsUp(Len(Pairs), summary.counts, lines, swallowed)
    BY <1>5 DEF SummaryAddsUp, ManifestRuns, Undisturbed
  <2>2. swallowed = {} => Sums(lines, Range(Pairs), summary.counts)
    BY <2>1, <1>4 DEF AddsUp
  <2>3. swallowed = {} => summary.counts = Counted(lines)
    BY <1>1, <2>2, SumsOfAll
  <2>4. \A pair \in Range(Pairs) \ swallowed : Readable(pair)
    BY <2>1, <1>1, <1>4 DEF AddsUp, Readable
  <2> QED
    BY <2>1, <2>3, <2>4 DEF AddsUp
<1> QED
  BY <1>2, <1>3, <1>5 DEF EvaluationAddsUp, ManifestRuns

\* An evaluation that says it is complete counts every case once per version, and as the file
\* has them, over crashes of any number of processes, and a candidate that is called no worse
\* passes what the baseline passed, for any cases and assertions (EvaluationsHold, which the
\* services run checks for two cases).
THEOREM EvaluationsSound == EvaluationSpec /\ ComparisonSpec => []EvaluationsHold
<1>1. EvaluationSpec => [](EvaluationTypeOK /\ EvaluationAddsUp)
  BY EvaluationStart, EvaluationStep, EvaluationHolds, PTL DEF EvaluationSpec
<1>2. ComparisonIInv => ComparisonTypeOK
  BY DEF ComparisonIInv
<1>3. ComparisonSpec => [](ComparisonTypeOK /\ CandidateIsNoWorse)
  BY <1>2, ComparisonStep, VerdictHolds, PTL DEF ComparisonSpec
<1> QED
  BY <1>1, <1>3, PTL DEF EvaluationsHold
=============================================================================
