----------------------------- MODULE SiteBilling -----------------------------
(***************************************************************************)
(* Credit billing of Sites jobs: SiteCreditBillingService (preflight,      *)
(* finalizeSuccessfulJob) over the Mongo job and quota collections, with   *)
(* the pipeline steps that start a job and save its outcome around it.     *)
(*                                                                         *)
(* Every storage call is one action, so any number of pipelines, duplicate *)
(* finalizations, GetChatly's own quota writes and a process crash         *)
(* interleave between two calls. A storage call can be refused (it has no  *)
(* effect and throws) or lose its answer (it takes effect and throws).     *)
(* Credits are counted in units of 1/500 credit, so that calculateCredits- *)
(* Used is exact: rate * billable tokens.                                  *)
(***************************************************************************)
EXTENDS Integers, FiniteSets

CONSTANTS
  Users, Jobs,
  Calls,        \* invocations of finalizeSuccessfulJob
  OwnerOf,      \* the user a job is billed to
  JobOf,        \* the job a call finalizes
  Summaries,    \* inference summaries: [cacheBilled, input, cached, output, matches]
  Rate,         \* creditsPer500Tokens of the authorized model
  Credits       \* values GetChatly may set token_credit to

ASSUME BillingAssumption ==
  /\ OwnerOf \in [Jobs -> Users]
  /\ JobOf \in [Calls -> Jobs]
  /\ Summaries \subseteq [cacheBilled : BOOLEAN, input : Nat, cached : Nat,
                          output : Nat, matches : BOOLEAN]
  /\ Rate \in Nat \ {0}
  /\ Credits \subseteq Nat

VARIABLES
  row,        \* row[j]: the stored job document
  quota,      \* quota[u]: the stored subscriber quota
  run,        \* run[j]: the pipeline that owns j
  summary,    \* summary[j]: {} or {the run's inference summary}
  pc,         \* pc[c]: where a finalization call stands
  charge,     \* charge[c]: deduction.actualCharge held by the call
  debits,     \* history: debits[j], deductions applied for j
  debited,    \* history: debited[j], by how much the quota's used credit rose
  broken      \* history: jobs hit by a failed storage call, a delete or a crash

vars == <<row, quota, run, summary, pc, charge, debits, debited, broken>>

Smaller(a, b) == IF a <= b THEN a ELSE b
Above(a, b) == IF a > b THEN a - b ELSE 0      \* Math.max(0, a - b)

Statuses == {"ABSENT", "QUEUED", "SUCCEEDED", "FAILED"}
Billings == {"NONE", "NOT_CHARGED", "IN_PROGRESS", "FAILED", "CHARGED"}
Row == [status : Statuses, billing : Billings, charged : Nat]
Quota == [credit : Nat, used : Nat, enabled : BOOLEAN]
NoRow == [status |-> "ABSENT", billing |-> "NONE", charged |-> 0]

\* calculateBillableTokenUsage: Anthropic reports cached input apart from
\* input, everybody else inside it, possibly as more than the whole input.
BillableTokens(s) ==
  (IF s.cacheBilled THEN s.input ELSE Above(s.input, s.cached)) + s.output

\* calculateCreditsUsed, in units of 1/500 credit
CreditsUsed(s) == Rate * BillableTokens(s)

-----------------------------------------------------------------------------
Init ==
  /\ row = [j \in Jobs |-> NoRow]
  /\ quota \in [Users -> [credit : Credits, used : {0}, enabled : BOOLEAN]]
  /\ run = [j \in Jobs |-> "none"]
  /\ summary = [j \in Jobs |-> {}]
  /\ pc = [c \in Calls |-> "idle"]
  /\ charge = [c \in Calls |-> 0]
  /\ debits = [j \in Jobs |-> 0]
  /\ debited = [j \in Jobs |-> 0]
  /\ broken = {}

-----------------------------------------------------------------------------
(* The pipeline around billing *)

QuotaOpen(u) == quota[u].enabled /\ quota[u].used < quota[u].credit

\* generate/edit save the new job before anything else
StartJob(j) ==
  /\ run[j] = "none"
  /\ run' = [run EXCEPT ![j] = "queued"]
  /\ row' = [row EXCEPT ![j] = [status |-> "QUEUED", billing |-> "NOT_CHARGED", charged |-> 0]]
  /\ UNCHANGED <<quota, summary, pc, charge, debits, debited, broken>>

\* The outer catch of generate/edit saves the failed job, still NOT_CHARGED;
\* when that save is refused too the stored document keeps its last state.
FailJob(j) ==
  /\ run' = [run EXCEPT ![j] = "over"]
  /\ \/ /\ row' = [row EXCEPT ![j] = [status |-> "FAILED", billing |-> "NOT_CHARGED", charged |-> 0]]
        /\ UNCHANGED broken
     \/ broken' = broken \cup {j} /\ UNCHANGED row
  /\ UNCHANGED <<quota, summary, pc, charge, debits, debited>>

\* preflight reads the quota once; what it saw may be gone at the deduction
Preflight(j) ==
  /\ run[j] = "queued"
  /\ \/ /\ QuotaOpen(OwnerOf[j])
        /\ run' = [run EXCEPT ![j] = "authorized"]
        /\ UNCHANGED <<row, quota, summary, pc, charge, debits, debited, broken>>
     \/ /\ ~QuotaOpen(OwnerOf[j])
        /\ FailJob(j)

\* The model run, validation or the commit fails; so does an edit whose
\* repair preflight finds the quota closed.
RunFails(j) == run[j] = "authorized" /\ FailJob(j)

\* The run succeeds: the job is saved SUCCEEDED and its summary is final.
\* When the answer to that save is lost, the catch tries to save FAILED.
RunSucceeds(j) ==
  /\ run[j] = "authorized"
  /\ row' = [row EXCEPT ![j] = [status |-> "SUCCEEDED", billing |-> "NOT_CHARGED", charged |-> 0]]
  /\ \/ /\ run' = [run EXCEPT ![j] = "billable"]
        /\ \E s \in Summaries : summary' = [summary EXCEPT ![j] = {s}]
        /\ UNCHANGED broken
     \/ /\ run' = [run EXCEPT ![j] = "over"]
        /\ broken' = broken \cup {j}
        /\ UNCHANGED summary
  /\ UNCHANGED <<quota, pc, charge, debits, debited>>

-----------------------------------------------------------------------------
(* finalizeSuccessfulJob *)

Goto(c, where) == pc' = [pc EXCEPT ![c] = where]

CallFinalize(c) ==
  /\ pc[c] = "idle" /\ run[JobOf[c]] = "billable"
  /\ Goto(c, "claim")
  /\ UNCHANGED <<row, quota, run, summary, charge, debits, debited, broken>>

\* claimBilling: NOT_CHARGED -> FAILED/BILLING_FINALIZATION_IN_PROGRESS
ClaimedRow(j) ==
  [row EXCEPT ![j] = IF @.billing = "NOT_CHARGED" THEN [@ EXCEPT !.billing = "IN_PROGRESS"] ELSE @]

\* who does not win the claim returns the stored job
MutLoserFails(j) == IF row[j].billing = "NOT_CHARGED" THEN "deduct" ELSE "fail"
AfterClaim(j) == IF row[j].billing = "NOT_CHARGED" THEN "deduct" ELSE "done"

Claim(c) ==
  LET j == JobOf[c] IN
  /\ pc[c] = "claim"
  /\ row' = ClaimedRow(j)
  /\ \/ /\ Goto(c, AfterClaim(j))
        /\ UNCHANGED broken
     \/ /\ Goto(c, "fail")              \* applied, but the answer is lost
        /\ broken' = broken \cup {j}
  /\ UNCHANGED <<quota, run, summary, charge, debits, debited>>

\* Any call whose storage request is refused goes to #billingFailure
Refused(c) ==
  /\ pc[c] \in {"claim", "deduct", "save"}
  /\ Goto(c, "fail")
  /\ broken' = broken \cup {JobOf[c]}
  /\ UNCHANGED <<row, quota, run, summary, charge, debits, debited>>

\* The summary names another provider or model than was authorized
ModelMismatch(c) ==
  /\ pc[c] = "deduct"
  /\ \E s \in summary[JobOf[c]] : ~s.matches
  /\ Goto(c, "fail")
  /\ UNCHANGED <<row, quota, run, summary, charge, debits, debited, broken>>

\* MongoSubscriberQuotaRepository.deduct: one pipeline update clamps
\* token_credit_used at token_credit; the charge is computed from the
\* document before the update.
MutUnclampedQuota(u, cost) == [quota EXCEPT ![u].used = @ + cost]
DeductedQuota(u, cost) == [quota EXCEPT ![u].used = Smaller(quota[u].credit, @ + cost)]

MutChargeNotClamped(u, cost) == cost
ActualCharge(u, cost) == Smaller(cost, Above(quota[u].credit, quota[u].used))

Deduct(c) ==
  LET j == JobOf[c]
      u == OwnerOf[j]
  IN
  /\ pc[c] = "deduct"
  /\ quota[u].enabled
  /\ \E s \in summary[j] :
       /\ s.matches
       /\ quota' = DeductedQuota(u, CreditsUsed(s))
       /\ debited' = [debited EXCEPT ![j] = @ + Above(quota'[u].used, quota[u].used)]
       /\ charge' = [charge EXCEPT ![c] = ActualCharge(u, CreditsUsed(s))]
  /\ debits' = [debits EXCEPT ![j] = @ + 1]
  /\ \/ Goto(c, "save") /\ UNCHANGED broken
     \/ Goto(c, "fail") /\ broken' = broken \cup {j}
  /\ UNCHANGED <<row, run, summary>>

\* No enabled quota document matches the update
DeductNoMatch(c) ==
  /\ pc[c] = "deduct" /\ ~quota[OwnerOf[JobOf[c]]].enabled
  /\ \E s \in summary[JobOf[c]] : s.matches
  /\ Goto(c, "fail")
  /\ UNCHANGED <<row, quota, run, summary, charge, debits, debited, broken>>

\* jobs.save(charged): an upsert of the whole document
SaveCharged(c) ==
  LET j == JobOf[c] IN
  /\ pc[c] = "save"
  /\ row' = [row EXCEPT ![j] = [status |-> "SUCCEEDED", billing |-> "CHARGED", charged |-> charge[c]]]
  /\ \/ Goto(c, "notify") /\ UNCHANGED broken
     \/ Goto(c, "fail") /\ broken' = broken \cup {j}
  /\ UNCHANGED <<quota, run, summary, charge, debits, debited>>

\* #billingFailure: saves FAILED and creditsCharged 0; its own errors are
\* swallowed, so the call ends whether the write happened or not.
MutFailureNotSaved(c) ==
  /\ pc[c] = "fail"
  /\ Goto(c, "done")
  /\ charge' = [charge EXCEPT ![c] = 0]
  /\ UNCHANGED <<row, quota, run, summary, debits, debited, broken>>

BillingFailure(c) ==
  LET j == JobOf[c] IN
  /\ pc[c] = "fail"
  /\ Goto(c, "done")
  /\ \/ /\ row' = [row EXCEPT ![j] = [status |-> "SUCCEEDED", billing |-> "FAILED", charged |-> 0]]
        /\ UNCHANGED broken
     \/ broken' = broken \cup {j} /\ UNCHANGED row
  /\ charge' = [charge EXCEPT ![c] = 0]
  /\ UNCHANGED <<quota, run, summary, debits, debited>>

\* notifyGetChatlyQuotaChanged reads the fresh quota, invalidates GetChatly's
\* cache and emits an event: best effort, none of it touches the collections.
Notify(c) ==
  /\ pc[c] = "notify"
  /\ Goto(c, "done")
  /\ charge' = [charge EXCEPT ![c] = 0]
  /\ UNCHANGED <<row, quota, run, summary, debits, debited, broken>>

-----------------------------------------------------------------------------
(* The environment *)

\* GetChatly consumes credit for its own chats, clamped as here
ChatUse(u) ==
  /\ quota[u].used < quota[u].credit
  /\ quota' = [quota EXCEPT ![u].used = @ + 1]
  /\ UNCHANGED <<row, run, summary, pc, charge, debits, debited, broken>>

\* A plan change sets token_credit, possibly below what is already used
PlanChange(u) ==
  /\ \E k \in Credits, e \in BOOLEAN : quota' = [quota EXCEPT ![u].credit = k, ![u].enabled = e]
  /\ UNCHANGED <<row, run, summary, pc, charge, debits, debited, broken>>

\* deleteMongoSite removes the job's document under a running call
DeleteJob(j) ==
  /\ row[j].status # "ABSENT"
  /\ row' = [row EXCEPT ![j] = NoRow]
  /\ broken' = broken \cup {j}
  /\ UNCHANGED <<quota, run, summary, pc, charge, debits, debited>>

\* The server process dies: its pipelines and calls are gone for good, the
\* collections stay, and nothing resumes a half-finished finalization.
Crash ==
  /\ run' = [j \in Jobs |-> IF run[j] = "none" THEN "none" ELSE "over"]
  /\ pc' = [c \in Calls |-> IF pc[c] = "idle" THEN "idle" ELSE "done"]
  /\ charge' = [c \in Calls |-> 0]
  /\ summary' = [j \in Jobs |-> {}]
  /\ broken' = broken \cup {j \in Jobs : run[j] # "none"}
  /\ UNCHANGED <<row, quota, debits, debited>>

-----------------------------------------------------------------------------
CallStep(c) ==
  \/ Claim(c) \/ Refused(c) \/ ModelMismatch(c) \/ Deduct(c) \/ DeductNoMatch(c)
  \/ SaveCharged(c) \/ BillingFailure(c) \/ Notify(c)

Next ==
  \/ \E j \in Jobs : StartJob(j) \/ Preflight(j) \/ RunFails(j) \/ RunSucceeds(j) \/ DeleteJob(j)
  \/ \E c \in Calls : CallFinalize(c) \/ CallStep(c)
  \/ \E u \in Users : ChatUse(u) \/ PlanChange(u)
  \/ Crash

Spec == Init /\ [][Next]_vars

\* An awaited storage call answers or throws (the driver has timeouts), and a
\* pipeline that saved a successful job goes on to finalize it.
FairSpec == Spec /\ \A c \in Calls : WF_vars(CallStep(c)) /\ WF_vars(CallFinalize(c))

-----------------------------------------------------------------------------
(* Properties *)

\* Every variable keeps the shape the collections and the service give it.
TypeOK ==
  /\ row \in [Jobs -> Row]
  /\ quota \in [Users -> Quota]
  /\ run \in [Jobs -> {"none", "queued", "authorized", "billable", "over"}]
  /\ summary \in [Jobs -> SUBSET Summaries]
  /\ pc \in [Calls -> {"idle", "claim", "deduct", "save", "fail", "notify", "done"}]
  /\ charge \in [Calls -> Nat]
  /\ debits \in [Jobs -> Nat]
  /\ debited \in [Jobs -> Nat]
  /\ broken \in SUBSET Jobs

\* However often a job is finalized, whatever fails in between, deduct takes
\* effect at most once for it: the claim is won once and never offered again.
AtMostOneDebit == \A j \in Jobs : debits[j] <= 1

\* A job stored CHARGED shows exactly the credit that left the quota for it,
\* also when the quota clamped the debit or was changed by others meanwhile.
ChargedRowIsExact ==
  \A j \in Jobs : row[j].billing = "CHARGED" => debits[j] = 1 /\ row[j].charged = debited[j]

\* Credit that was debited and is not shown by a CHARGED job was lost to a
\* storage failure, a delete or a crash, never to an interleaving alone.
UnrecordedDebitMeansFault ==
  \A j \in Jobs :
    /\ debits[j] > 0
    /\ row[j].billing # "CHARGED"
    /\ \A c \in Calls : JobOf[c] = j => pc[c] # "save"
    => j \in broken

\* A successful job does not stay unbilled: it ends CHARGED or FAILED unless
\* its storage failed, it was deleted or the process died.
EventuallySettled ==
  \A j \in Jobs :
    run[j] = "billable" ~> (row[j].billing \in {"CHARGED", "FAILED"} \/ j \in broken)

\* The service implements ChargeLedger: a debit takes from the owner's balance
\* exactly what the job is charged, once, and receipts tell the truth.
Unclaimed(j) == run[j] \in {"none", "queued", "authorized"} \/ row[j].billing = "NOT_CHARGED"

Phase == [j \in Jobs |-> IF debits[j] > 0 THEN "debited"
                        ELSE IF Unclaimed(j) THEN "open" ELSE "sealed"]
Receipt == [j \in Jobs |-> IF row[j].billing = "CHARGED" THEN {row[j].charged} ELSE {}]
Balance == [u \in Users |-> Above(quota[u].credit, quota[u].used)]

Abstract == INSTANCE ChargeLedger
              WITH phase <- Phase, amount <- debited, receipt <- Receipt, balance <- Balance

Ledger == Abstract!LedgerSpec
=============================================================================
