------------------------- MODULE SiteBilling_proofs -------------------------
(***************************************************************************)
(* Proofs about SiteBilling for any users, jobs, calls, rates and amounts. *)
(***************************************************************************)
EXTENDS SiteBilling, TLAPS

USE DEF Row, Statuses, Billings

-----------------------------------------------------------------------------
(* Arithmetic of the charge *)

\* Math.max(0, a - b) and Math.min stay natural numbers.
LEMMA NatArith ==
  ASSUME NEW a \in Nat, NEW b \in Nat
  PROVE  Above(a, b) \in Nat /\ Smaller(a, b) \in Nat
BY DEF Above, Smaller

\* calculateCreditsUsed is a natural number for every inference summary.
LEMMA CreditsUsedNat ==
  ASSUME NEW s \in Summaries
  PROVE  CreditsUsed(s) \in Nat
<1>1. s \in [cacheBilled : BOOLEAN, input : Nat, cached : Nat, output : Nat, matches : BOOLEAN]
  BY BillingAssumption
<1>2. BillableTokens(s) \in Nat
  BY <1>1 DEF BillableTokens, Above
<1>3. \A r \in Nat, t \in Nat : r * t \in Nat
  OBVIOUS
<1> QED BY <1>2, <1>3, BillingAssumption DEF CreditsUsed

\* The charge reported by deduct is exactly the rise of token_credit_used,
\* for every quota, also one whose credit was lowered below what is used.
LEMMA ChargeIsRise ==
  ASSUME NEW k \in Nat, NEW x \in Nat, NEW cost \in Nat
  PROVE  Smaller(cost, Above(k, x)) = Above(Smaller(k, x + cost), x)
BY DEF Smaller, Above

\* That charge is exactly what the balance max(0, credit - used) loses.
LEMMA ChargeIsBalanceLoss ==
  ASSUME NEW k \in Nat, NEW x \in Nat, NEW cost \in Nat
  PROVE  Above(Smaller(k, x + cost), x) = Above(k, x) - Above(k, Smaller(k, x + cost))
BY DEF Smaller, Above

-----------------------------------------------------------------------------
(* The inductive invariant *)

\* A call that won the claim and has not debited: at "deduct", or about to
\* save the failure of an attempt no storage fault was part of.
Holder(c) == pc[c] = "deduct" \/ (pc[c] = "fail" /\ JobOf[c] \notin broken)

Started(j) == run[j] \in {"billable", "over"}

\* Live calls belong to jobs whose run has saved its success.
CallsFollowRuns == \A c \in Calls : pc[c] \notin {"idle", "done"} => Started(JobOf[c])

\* A holder's job is claimed and not debited, and has no other holder.
HolderExclusive ==
  /\ \A c \in Calls : Holder(c) => debits[JobOf[c]] = 0 /\ ~Unclaimed(JobOf[c])
  /\ \A c, d \in Calls : Holder(c) /\ Holder(d) /\ JobOf[c] = JobOf[d] => c = d

\* A debited job stays claimed; it is debited once.
DebitedStaysClaimed ==
  \A j \in Jobs : debits[j] > 0 => debits[j] = 1 /\ ~Unclaimed(j)

NoDebitNoCredit == \A j \in Jobs : debits[j] = 0 => debited[j] = 0

\* A call about to save CHARGED carries the job's debit.
SaverCarriesDebit ==
  \A c \in Calls : pc[c] = "save" => debits[JobOf[c]] = 1 /\ charge[c] = debited[JobOf[c]]

IInv ==
  /\ TypeOK
  /\ CallsFollowRuns
  /\ HolderExclusive
  /\ DebitedStaysClaimed
  /\ NoDebitNoCredit
  /\ SaverCarriesDebit
  /\ ChargedRowIsExact
  /\ UnrecordedDebitMeansFault

-----------------------------------------------------------------------------
LEMMA InitIInv == Init => IInv
<1> SUFFICES ASSUME Init PROVE IInv
  OBVIOUS
<1>1. quota \in [Users -> Quota]
  <2>1. \A q \in [credit : Credits, used : {0}, enabled : BOOLEAN] : q \in Quota
    <3> SUFFICES ASSUME NEW k \in Credits, NEW e \in BOOLEAN
                 PROVE  [credit |-> k, used |-> 0, enabled |-> e] \in Quota
      OBVIOUS
    <3>1. k \in Nat
      BY BillingAssumption
    <3> QED BY <3>1 DEF Quota
  <2>2. quota \in [Users -> [credit : Credits, used : {0}, enabled : BOOLEAN]]
    BY DEF Init
  <2>3. \A u \in Users : quota[u] \in Quota
    BY <2>1, <2>2
  <2> QED BY <2>2, <2>3
<1>2. row \in [Jobs -> Row] /\ summary \in [Jobs -> SUBSET Summaries]
  BY DEF Init, NoRow
<1>3. TypeOK
  BY <1>1, <1>2 DEF Init, TypeOK
<1>4. /\ \A c \in Calls : pc[c] = "idle"
      /\ \A j \in Jobs : debits[j] = 0 /\ debited[j] = 0 /\ row[j].billing = "NONE"
  BY DEF Init, NoRow
<1> QED
  BY <1>3, <1>4 DEF IInv, CallsFollowRuns, HolderExclusive, Holder, DebitedStaysClaimed,
     NoDebitNoCredit, SaverCarriesDebit, ChargedRowIsExact, UnrecordedDebitMeansFault

\* A quota write that sets one used credit, or the plan's two fields, keeps the
\* quotas well formed and touches no other subscriber.
LEMMA SetUsed ==
  ASSUME NEW q \in [Users -> Quota], NEW u \in Users, NEW n \in Nat
  PROVE  LET r == [q EXCEPT ![u].used = n] IN
         /\ r \in [Users -> Quota]
         /\ r[u].used = n /\ r[u].credit = q[u].credit
         /\ \A v \in Users \ {u} : r[v] = q[v]
<1>1. q[u] \in Quota
  OBVIOUS
<1>2. [q[u] EXCEPT !.used = n] \in Quota
  BY <1>1 DEF Quota
<1>3. /\ [q[u] EXCEPT !.used = n].used = n
      /\ [q[u] EXCEPT !.used = n].credit = q[u].credit
  BY <1>1 DEF Quota
<1> QED BY <1>2, <1>3

LEMMA SetPlan ==
  ASSUME NEW q \in [Users -> Quota], NEW u \in Users, NEW k \in Nat, NEW e \in BOOLEAN
  PROVE  [q EXCEPT ![u].credit = k, ![u].enabled = e] \in [Users -> Quota]
<1>1. q[u] \in Quota
  OBVIOUS
<1>2. [q[u] EXCEPT !.credit = k, !.enabled = e] \in Quota
  BY <1>1 DEF Quota
<1>3. [q EXCEPT ![u].credit = k, ![u].enabled = e] = [q EXCEPT ![u] = [q[u] EXCEPT !.credit = k, !.enabled = e]]
  BY <1>1
<1> QED BY <1>2, <1>3

LEMMA TypeStep == TypeOK /\ [Next]_vars => TypeOK'
<1> SUFFICES ASSUME TypeOK, [Next]_vars PROVE TypeOK'
  OBVIOUS
<1> USE BillingAssumption DEF TypeOK
<1>1. ASSUME NEW j \in Jobs, StartJob(j) PROVE TypeOK'
  BY <1>1 DEF StartJob
<1>2. ASSUME NEW j \in Jobs, FailJob(j) PROVE TypeOK'
  BY <1>2 DEF FailJob
<1>3. ASSUME NEW j \in Jobs, Preflight(j) PROVE TypeOK'
  BY <1>2, <1>3 DEF Preflight
<1>4. ASSUME NEW j \in Jobs, RunFails(j) PROVE TypeOK'
  BY <1>2, <1>4 DEF RunFails
<1>5. ASSUME NEW j \in Jobs, RunSucceeds(j) PROVE TypeOK'
  <2>1. summary' \in [Jobs -> SUBSET Summaries]
    <3>1. \A s \in Summaries : [summary EXCEPT ![j] = {s}] \in [Jobs -> SUBSET Summaries]
      OBVIOUS
    <3> QED BY <1>5, <3>1 DEF RunSucceeds
  <2>2. run' \in [Jobs -> {"none", "queued", "authorized", "billable", "over"}]
          /\ row' \in [Jobs -> Row] /\ broken' \in SUBSET Jobs
    BY <1>5 DEF RunSucceeds
  <2> QED BY <1>5, <2>1, <2>2 DEF RunSucceeds
<1>6. ASSUME NEW j \in Jobs, DeleteJob(j) PROVE TypeOK'
  BY <1>6 DEF DeleteJob, NoRow
<1>7. ASSUME NEW c \in Calls, CallFinalize(c) PROVE TypeOK'
  BY <1>7 DEF CallFinalize, Goto
<1>8. ASSUME NEW c \in Calls, Claim(c) PROVE TypeOK'
  <2>1. JobOf[c] \in Jobs
    OBVIOUS
  <2>2. row' \in [Jobs -> Row]
    BY <1>8, <2>1 DEF Claim, ClaimedRow
  <2> QED BY <1>8, <2>1, <2>2 DEF Claim, Goto, AfterClaim
<1>9. ASSUME NEW c \in Calls, Refused(c) PROVE TypeOK'
  BY <1>9 DEF Refused, Goto
<1>10. ASSUME NEW c \in Calls, ModelMismatch(c) PROVE TypeOK'
  BY <1>10 DEF ModelMismatch, Goto
<1>11. ASSUME NEW c \in Calls, Deduct(c) PROVE TypeOK'
  <2> DEFINE j == JobOf[c]
             u == OwnerOf[j]
  <2>1. j \in Jobs /\ u \in Users
    OBVIOUS
  <2>2. PICK s \in Summaries :
          /\ quota' = DeductedQuota(u, CreditsUsed(s))
          /\ debited' = [debited EXCEPT ![j] = @ + Above(quota'[u].used, quota[u].used)]
          /\ charge' = [charge EXCEPT ![c] = ActualCharge(u, CreditsUsed(s))]
    BY <1>11, <2>1 DEF Deduct
  <2>3. CreditsUsed(s) \in Nat
    BY CreditsUsedNat
  <2>4. quota' \in [Users -> Quota]
    <3>1. quota[u] \in Quota
      BY <2>1
    <3>2. quota[u].credit \in Nat /\ quota[u].used + CreditsUsed(s) \in Nat
      BY <2>3, <3>1 DEF Quota
    <3>3. Smaller(quota[u].credit, quota[u].used + CreditsUsed(s)) \in Nat
      BY <3>2, NatArith
    <3>4. quota' = [quota EXCEPT ![u].used = Smaller(quota[u].credit, quota[u].used + CreditsUsed(s))]
      BY <2>2 DEF DeductedQuota
    <3> HIDE DEF j, u
    <3> QED BY <2>1, <3>3, <3>4, SetUsed
  <2>5. debited' \in [Jobs -> Nat] /\ charge' \in [Calls -> Nat]
    <3>1. /\ Above(quota'[u].used, quota[u].used) \in Nat
          /\ ActualCharge(u, CreditsUsed(s)) \in Nat
      BY <2>1, <2>3, <2>4, NatArith DEF ActualCharge, Quota
    <3>2. debited[j] + Above(quota'[u].used, quota[u].used) \in Nat
      BY <2>1, <3>1
    <3> QED BY <2>1, <2>2, <3>1, <3>2
  <2>6. debits' \in [Jobs -> Nat]
    <3>1. debits' = [debits EXCEPT ![j] = debits[j] + 1]
      BY <1>11 DEF Deduct
    <3>2. debits[j] + 1 \in Nat
      BY <2>1
    <3> QED BY <2>1, <3>1, <3>2
  <2>7. /\ pc' \in [Calls -> {"idle", "claim", "deduct", "save", "fail", "notify", "done"}]
        /\ broken' \in SUBSET Jobs
    BY <1>11, <2>1 DEF Deduct, Goto
  <2> QED BY <1>11, <2>4, <2>5, <2>6, <2>7 DEF Deduct
<1>12. ASSUME NEW c \in Calls, DeductNoMatch(c) PROVE TypeOK'
  BY <1>12 DEF DeductNoMatch, Goto
<1>13. ASSUME NEW c \in Calls, SaveCharged(c) PROVE TypeOK'
  BY <1>13 DEF SaveCharged, Goto
<1>14. ASSUME NEW c \in Calls, BillingFailure(c) PROVE TypeOK'
  BY <1>14 DEF BillingFailure, Goto
<1>15. ASSUME NEW c \in Calls, Notify(c) PROVE TypeOK'
  BY <1>15 DEF Notify, Goto
<1>16. ASSUME NEW u \in Users, ChatUse(u) PROVE TypeOK'
  <2>1. quota[u].used + 1 \in Nat
    BY DEF Quota
  <2> QED BY <1>16, <2>1, SetUsed DEF ChatUse
<1>17. ASSUME NEW u \in Users, PlanChange(u) PROVE TypeOK'
  <2>1. PICK k \in Credits, e \in BOOLEAN : quota' = [quota EXCEPT ![u].credit = k, ![u].enabled = e]
    BY <1>17 DEF PlanChange
  <2>2. k \in Nat
    OBVIOUS
  <2>3. quota' \in [Users -> Quota]
    BY <2>1, <2>2, SetPlan
  <2> QED BY <1>17, <2>3 DEF PlanChange
<1>18. CASE Crash
  BY <1>18 DEF Crash
<1>19. CASE UNCHANGED vars
  BY <1>19 DEF vars
<1> QED
  BY <1>1, <1>3, <1>4, <1>5, <1>6, <1>7, <1>8, <1>9, <1>10, <1>11, <1>12, <1>13, <1>14,
     <1>15, <1>16, <1>17, <1>18, <1>19 DEF Next, CallStep

THEOREM TypeCorrect == Spec => []TypeOK
<1>1. Init => TypeOK
  BY InitIInv DEF IInv
<1> QED BY <1>1, TypeStep, PTL DEF Spec

\* Every step keeps the invariant. The claim matters at <1>8, the arithmetic of
\* the charge at <1>11, and who may overwrite a charged row at <1>14.
LEMMA IInvStep == IInv /\ [Next]_vars => IInv'
<1> SUFFICES ASSUME IInv, [Next]_vars PROVE IInv'
  OBVIOUS
<1>0. TypeOK'
  BY TypeStep DEF IInv
<1> USE <1>0, BillingAssumption DEF IInv, TypeOK
<1>1. ASSUME NEW j \in Jobs, StartJob(j) PROVE IInv'
  <2>1. CallsFollowRuns' /\ HolderExclusive' /\ DebitedStaysClaimed'
    BY <1>1 DEF StartJob, CallsFollowRuns, Started, HolderExclusive, Holder, DebitedStaysClaimed, Unclaimed
  <2>2. NoDebitNoCredit' /\ SaverCarriesDebit' /\ ChargedRowIsExact' /\ UnrecordedDebitMeansFault'
    BY <1>1 DEF StartJob, CallsFollowRuns, Started, HolderExclusive, Holder, DebitedStaysClaimed, Unclaimed,
       NoDebitNoCredit, SaverCarriesDebit, ChargedRowIsExact, UnrecordedDebitMeansFault
  <2> QED BY <2>1, <2>2
<1>2. ASSUME NEW j \in Jobs, FailJob(j), run[j] \in {"queued", "authorized"} PROVE IInv'
  <2>1. /\ Unclaimed(j) /\ debits[j] = 0
        /\ \A c \in Calls : JobOf[c] = j => pc[c] \in {"idle", "done"}
    <3>1. Unclaimed(j)
      BY <1>2 DEF Unclaimed
    <3>2. debits[j] = 0
      BY <3>1 DEF DebitedStaysClaimed
    <3>3. ~Started(j)
      BY <1>2 DEF Started
    <3>4. \A c \in Calls : JobOf[c] = j => pc[c] \in {"idle", "done"}
      BY <3>3 DEF CallsFollowRuns
    <3> QED BY <3>1, <3>2, <3>4
  <2>2. CallsFollowRuns' /\ HolderExclusive' /\ DebitedStaysClaimed'
    BY <1>2 DEF FailJob, CallsFollowRuns, Started, HolderExclusive, Holder, DebitedStaysClaimed, Unclaimed
  <2>3. NoDebitNoCredit' /\ SaverCarriesDebit'
    BY <1>2, <2>1 DEF FailJob, NoDebitNoCredit, SaverCarriesDebit
  <2>4. /\ row'[j] = row[j] \/ row'[j].billing = "NOT_CHARGED"
        /\ \A i \in Jobs \ {j} : row'[i] = row[i]
        /\ broken \subseteq broken'
        /\ UNCHANGED <<pc, debits, debited>>
    BY <1>2 DEF FailJob
  <2>5. ChargedRowIsExact'
    BY <2>4 DEF ChargedRowIsExact
  <2>6. UnrecordedDebitMeansFault'
    <3>1. ~(debits[j] > 0)
      BY <2>1
    <3> QED BY <2>4, <3>1 DEF UnrecordedDebitMeansFault
  <2> QED BY <2>2, <2>3, <2>5, <2>6
<1>3. ASSUME NEW j \in Jobs, Preflight(j) PROVE IInv'
  <2>1. CASE QuotaOpen(OwnerOf[j])
    <3>1. CallsFollowRuns' /\ HolderExclusive' /\ DebitedStaysClaimed'
      BY <1>3, <2>1 DEF Preflight, CallsFollowRuns, Started, HolderExclusive, Holder, DebitedStaysClaimed, Unclaimed
    <3>2. NoDebitNoCredit' /\ SaverCarriesDebit' /\ ChargedRowIsExact' /\ UnrecordedDebitMeansFault'
      BY <1>3, <2>1 DEF Preflight, CallsFollowRuns, Started, HolderExclusive, Holder, DebitedStaysClaimed, Unclaimed,
         NoDebitNoCredit, SaverCarriesDebit, ChargedRowIsExact, UnrecordedDebitMeansFault
    <3> QED BY <3>1, <3>2
  <2>2. CASE ~QuotaOpen(OwnerOf[j])
    BY <1>2, <1>3, <2>2 DEF Preflight
  <2> QED BY <2>1, <2>2
<1>4. ASSUME NEW j \in Jobs, RunFails(j) PROVE IInv'
  BY <1>2, <1>4 DEF RunFails
<1>5. ASSUME NEW j \in Jobs, RunSucceeds(j) PROVE IInv'
  <2>1. CallsFollowRuns' /\ HolderExclusive' /\ DebitedStaysClaimed'
    BY <1>5 DEF RunSucceeds, CallsFollowRuns, Started, HolderExclusive, Holder, DebitedStaysClaimed, Unclaimed
  <2>2. NoDebitNoCredit' /\ SaverCarriesDebit' /\ ChargedRowIsExact' /\ UnrecordedDebitMeansFault'
    BY <1>5 DEF RunSucceeds, CallsFollowRuns, Started, HolderExclusive, Holder, DebitedStaysClaimed, Unclaimed,
       NoDebitNoCredit, SaverCarriesDebit, ChargedRowIsExact, UnrecordedDebitMeansFault
  <2> QED BY <2>1, <2>2
<1>6. ASSUME NEW j \in Jobs, DeleteJob(j) PROVE IInv'
  <2>1. CallsFollowRuns' /\ HolderExclusive' /\ DebitedStaysClaimed'
    BY <1>6 DEF DeleteJob, NoRow, CallsFollowRuns, Started, HolderExclusive, Holder, DebitedStaysClaimed, Unclaimed
  <2>2. NoDebitNoCredit' /\ SaverCarriesDebit' /\ ChargedRowIsExact' /\ UnrecordedDebitMeansFault'
    BY <1>6 DEF DeleteJob, NoRow, CallsFollowRuns, Started, HolderExclusive, Holder, DebitedStaysClaimed, Unclaimed,
       NoDebitNoCredit, SaverCarriesDebit, ChargedRowIsExact, UnrecordedDebitMeansFault
  <2> QED BY <2>1, <2>2
<1>7. ASSUME NEW c \in Calls, CallFinalize(c) PROVE IInv'
  <2>1. CallsFollowRuns' /\ HolderExclusive' /\ DebitedStaysClaimed'
    BY <1>7 DEF CallFinalize, Goto, CallsFollowRuns, Started, HolderExclusive, Holder, DebitedStaysClaimed, Unclaimed
  <2>2. NoDebitNoCredit' /\ SaverCarriesDebit' /\ ChargedRowIsExact' /\ UnrecordedDebitMeansFault'
    BY <1>7 DEF CallFinalize, Goto, CallsFollowRuns, Started, HolderExclusive, Holder, DebitedStaysClaimed, Unclaimed,
       NoDebitNoCredit, SaverCarriesDebit, ChargedRowIsExact, UnrecordedDebitMeansFault
  <2> QED BY <2>1, <2>2
<1>8. ASSUME NEW c \in Calls, Claim(c) PROVE IInv'
  <2> DEFINE j == JobOf[c]
  <2>1. /\ pc[c] = "claim" /\ Started(j)
        /\ \A d \in Calls \ {c} : pc'[d] = pc[d]
        /\ pc'[c] = AfterClaim(j) \/ (pc'[c] = "fail" /\ j \in broken')
        /\ broken \subseteq broken'
        /\ UNCHANGED <<run, debits, debited, charge>>
    BY <1>8 DEF Claim, Goto, CallsFollowRuns
  <2>2. /\ row'[j].billing # "NOT_CHARGED"
        /\ row[j].billing = "NOT_CHARGED" => row'[j].billing = "IN_PROGRESS"
        /\ row[j].billing # "NOT_CHARGED" => row'[j] = row[j]
        /\ \A i \in Jobs \ {j} : row'[i] = row[i]
    BY <1>8 DEF Claim, ClaimedRow
  <2>3. ~Unclaimed(j)' /\ \A i \in Jobs \ {j} : Unclaimed(i)' <=> Unclaimed(i)
    BY <2>1, <2>2 DEF Unclaimed, Started
  <2>4. CASE row[j].billing = "NOT_CHARGED"      \* the claim is won
    <3>1. Unclaimed(j) /\ debits[j] = 0
      BY <2>4 DEF Unclaimed, DebitedStaysClaimed
    <3>2. \A d \in Calls : Holder(d) => JobOf[d] # j
      BY <3>1 DEF HolderExclusive
    <3>3. \A d \in Calls \ {c} : Holder(d)' => Holder(d)
      BY <2>1 DEF Holder
    <3>4. HolderExclusive'
      BY <2>1, <2>3, <3>1, <3>2, <3>3 DEF HolderExclusive
    <3>5. CallsFollowRuns' /\ DebitedStaysClaimed'
      BY <2>1, <2>3 DEF CallsFollowRuns, Started, DebitedStaysClaimed
    <3>6. pc'[c] # "save" /\ \A i \in Jobs : row'[i].billing = "CHARGED" <=> row[i].billing = "CHARGED"
      BY <2>1, <2>2, <2>4 DEF AfterClaim
    <3>7. NoDebitNoCredit' /\ SaverCarriesDebit'
      BY <2>1, <3>6 DEF NoDebitNoCredit, SaverCarriesDebit
    <3>8. ChargedRowIsExact' /\ UnrecordedDebitMeansFault'
      BY <2>1, <2>2, <3>1, <3>6 DEF ChargedRowIsExact, UnrecordedDebitMeansFault
    <3> QED BY <3>4, <3>5, <3>7, <3>8
  <2>5. CASE row[j].billing # "NOT_CHARGED"
    <3>1. \A d \in Calls : Holder(d)' => Holder(d)
      BY <2>1, <2>5 DEF Holder, AfterClaim
    <3>2. HolderExclusive'
      BY <2>1, <2>3, <3>1 DEF HolderExclusive
    <3>3. CallsFollowRuns' /\ DebitedStaysClaimed'
      BY <2>1, <2>3 DEF CallsFollowRuns, Started, DebitedStaysClaimed
    <3>4. pc'[c] # "save" /\ \A i \in Jobs : row'[i] = row[i]
      BY <2>1, <2>2, <2>5 DEF AfterClaim
    <3>5. NoDebitNoCredit' /\ SaverCarriesDebit'
      BY <2>1, <3>4 DEF NoDebitNoCredit, SaverCarriesDebit
    <3>6. ChargedRowIsExact' /\ UnrecordedDebitMeansFault'
      BY <2>1, <3>4 DEF ChargedRowIsExact, UnrecordedDebitMeansFault
    <3> QED BY <3>2, <3>3, <3>5, <3>6
  <2> QED BY <2>4, <2>5
<1>9. ASSUME NEW c \in Calls, Refused(c) PROVE IInv'
  <2>1. CallsFollowRuns' /\ HolderExclusive' /\ DebitedStaysClaimed'
    BY <1>9 DEF Refused, Goto, CallsFollowRuns, Started, HolderExclusive, Holder, DebitedStaysClaimed, Unclaimed
  <2>2. NoDebitNoCredit' /\ SaverCarriesDebit' /\ ChargedRowIsExact' /\ UnrecordedDebitMeansFault'
    BY <1>9 DEF Refused, Goto, CallsFollowRuns, Started, HolderExclusive, Holder, DebitedStaysClaimed, Unclaimed,
       NoDebitNoCredit, SaverCarriesDebit, ChargedRowIsExact, UnrecordedDebitMeansFault
  <2> QED BY <2>1, <2>2
<1>10. ASSUME NEW c \in Calls, ModelMismatch(c) PROVE IInv'
  <2>1. CallsFollowRuns' /\ HolderExclusive' /\ DebitedStaysClaimed'
    BY <1>10 DEF ModelMismatch, Goto, CallsFollowRuns, Started, HolderExclusive, Holder, DebitedStaysClaimed, Unclaimed
  <2>2. NoDebitNoCredit' /\ SaverCarriesDebit' /\ ChargedRowIsExact' /\ UnrecordedDebitMeansFault'
    BY <1>10 DEF ModelMismatch, Goto, CallsFollowRuns, Started, HolderExclusive, Holder, DebitedStaysClaimed, Unclaimed,
       NoDebitNoCredit, SaverCarriesDebit, ChargedRowIsExact, UnrecordedDebitMeansFault
  <2> QED BY <2>1, <2>2
<1>11. ASSUME NEW c \in Calls, Deduct(c) PROVE IInv'
  <2> DEFINE j == JobOf[c]
             u == OwnerOf[j]
  <2>1. j \in Jobs /\ u \in Users /\ quota[u] \in Quota
    OBVIOUS
  <2>2. Holder(c) /\ debits[j] = 0 /\ debited[j] = 0 /\ ~Unclaimed(j)
    BY <1>11, <2>1 DEF Deduct, Holder, HolderExclusive, NoDebitNoCredit
  <2>3. debits' = [debits EXCEPT ![j] = 1]
    BY <1>11, <2>1, <2>2 DEF Deduct
  <2>4. charge'[c] = debited'[j] /\ \A i \in Jobs \ {j} : debited'[i] = debited[i]
    <3>1. PICK s \in Summaries :
            /\ quota' = DeductedQuota(u, CreditsUsed(s))
            /\ debited' = [debited EXCEPT ![j] = @ + Above(quota'[u].used, quota[u].used)]
            /\ charge' = [charge EXCEPT ![c] = ActualCharge(u, CreditsUsed(s))]
      BY <1>11, <2>1 DEF Deduct
    <3>2. CreditsUsed(s) \in Nat /\ quota[u].credit \in Nat /\ quota[u].used \in Nat
      BY <2>1, CreditsUsedNat DEF Quota
    <3>3. quota'[u].used = Smaller(quota[u].credit, quota[u].used + CreditsUsed(s))
      BY <2>1, <3>1 DEF DeductedQuota
    <3>4. charge'[c] = Above(quota'[u].used, quota[u].used)
      <4>1. charge'[c] = Smaller(CreditsUsed(s), Above(quota[u].credit, quota[u].used))
        BY <3>1 DEF ActualCharge
      <4>2. Smaller(CreditsUsed(s), Above(quota[u].credit, quota[u].used))
              = Above(Smaller(quota[u].credit, quota[u].used + CreditsUsed(s)), quota[u].used)
        BY <3>2, ChargeIsRise
      <4> QED BY <3>3, <4>1, <4>2
    <3>5. debited'[j] = 0 + Above(quota'[u].used, quota[u].used)
      BY <2>1, <2>2, <3>1
    <3>6. Above(quota'[u].used, quota[u].used) \in Nat
      BY <3>2, <3>4, <1>0
    <3> QED BY <2>1, <3>1, <3>4, <3>5, <3>6
  <2>5. /\ pc[c] = "deduct"
        /\ \A d \in Calls \ {c} : pc'[d] = pc[d] /\ charge'[d] = charge[d]
        /\ pc'[c] = "save" \/ (pc'[c] = "fail" /\ j \in broken')
        /\ broken \subseteq broken'
        /\ UNCHANGED <<row, run>>
    BY <1>11 DEF Deduct, Goto
  <2>6. CallsFollowRuns' /\ HolderExclusive' /\ DebitedStaysClaimed'
    <3>1. CallsFollowRuns'
      BY <2>5 DEF CallsFollowRuns, Started
    <3>2. \A d \in Calls : Holder(d)' => Holder(d) /\ d # c
      BY <2>5 DEF Holder
    <3>3. \A d \in Calls : Holder(d)' => JobOf[d] # j
      BY <2>2, <3>2 DEF HolderExclusive
    <3>4. \A i \in Jobs : Unclaimed(i)' <=> Unclaimed(i)
      BY <2>5 DEF Unclaimed
    <3> QED BY <2>1, <2>2, <2>3, <3>1, <3>2, <3>3, <3>4 DEF HolderExclusive, DebitedStaysClaimed
  <2>7. NoDebitNoCredit'
    BY <2>3, <2>4 DEF NoDebitNoCredit
  <2>8. SaverCarriesDebit'
    BY <2>1, <2>2, <2>3, <2>4, <2>5 DEF SaverCarriesDebit
  <2>9. ChargedRowIsExact'
    BY <2>2, <2>3, <2>4, <2>5 DEF ChargedRowIsExact
  <2>10. UnrecordedDebitMeansFault'
    BY <2>1, <2>3, <2>5 DEF UnrecordedDebitMeansFault
  <2> QED BY <2>6, <2>7, <2>8, <2>9, <2>10
<1>12. ASSUME NEW c \in Calls, DeductNoMatch(c) PROVE IInv'
  <2>1. CallsFollowRuns' /\ HolderExclusive' /\ DebitedStaysClaimed'
    BY <1>12 DEF DeductNoMatch, Goto, CallsFollowRuns, Started, HolderExclusive, Holder, DebitedStaysClaimed, Unclaimed
  <2>2. NoDebitNoCredit' /\ SaverCarriesDebit' /\ ChargedRowIsExact' /\ UnrecordedDebitMeansFault'
    BY <1>12 DEF DeductNoMatch, Goto, CallsFollowRuns, Started, HolderExclusive, Holder, DebitedStaysClaimed, Unclaimed,
       NoDebitNoCredit, SaverCarriesDebit, ChargedRowIsExact, UnrecordedDebitMeansFault
  <2> QED BY <2>1, <2>2
<1>13. ASSUME NEW c \in Calls, SaveCharged(c) PROVE IInv'
  <2> DEFINE j == JobOf[c]
  <2>1. /\ j \in Jobs /\ pc[c] = "save" /\ debits[j] = 1 /\ charge[c] = debited[j]
        /\ ~Unclaimed(j) /\ Started(j)
    BY <1>13 DEF SaveCharged, SaverCarriesDebit, DebitedStaysClaimed, CallsFollowRuns
  <2>2. /\ \A d \in Calls \ {c} : pc'[d] = pc[d]
        /\ pc'[c] = "notify" \/ (pc'[c] = "fail" /\ j \in broken')
        /\ row' = [row EXCEPT ![j] = [status |-> "SUCCEEDED", billing |-> "CHARGED", charged |-> debited[j]]]
        /\ broken \subseteq broken'
        /\ UNCHANGED <<run, charge, debits, debited>>
    BY <1>13, <2>1 DEF SaveCharged, Goto
  <2>3. \A i \in Jobs : Unclaimed(i)' <=> Unclaimed(i)
    BY <2>1, <2>2 DEF Unclaimed, Started
  <2>4. \A d \in Calls : Holder(d)' => Holder(d)
    BY <2>2 DEF Holder
  <2>5. CallsFollowRuns' /\ HolderExclusive' /\ DebitedStaysClaimed'
    BY <2>1, <2>2, <2>3, <2>4 DEF CallsFollowRuns, Started, HolderExclusive, DebitedStaysClaimed
  <2>6. NoDebitNoCredit' /\ SaverCarriesDebit' /\ ChargedRowIsExact' /\ UnrecordedDebitMeansFault'
    BY <2>1, <2>2 DEF NoDebitNoCredit, SaverCarriesDebit, ChargedRowIsExact, UnrecordedDebitMeansFault
  <2> QED BY <2>5, <2>6
<1>14. ASSUME NEW c \in Calls, BillingFailure(c) PROVE IInv'
  <2> DEFINE j == JobOf[c]
  <2>1. /\ pc[c] = "fail" /\ j \in Jobs /\ Started(j)
        /\ j \notin broken => debits[j] = 0 /\ ~Unclaimed(j)
    BY <1>14 DEF BillingFailure, CallsFollowRuns, HolderExclusive, Holder
  <2>2. /\ pc' = [pc EXCEPT ![c] = "done"]
        /\ charge' = [charge EXCEPT ![c] = 0]
        /\ broken \subseteq broken'
        /\ \A i \in Jobs \ {j} : row'[i] = row[i]
        /\ row'[j] = row[j] \/ row'[j].billing = "FAILED"
        /\ UNCHANGED <<run, debits, debited>>
    BY <1>14, <2>1 DEF BillingFailure, Goto
  <2>3. \A i \in Jobs : Unclaimed(i)' => Unclaimed(i)
    BY <2>1, <2>2 DEF Unclaimed, Started
  <2>4. \A d \in Calls : Holder(d)' => Holder(d)
    BY <2>2 DEF Holder
  <2>5. CallsFollowRuns' /\ HolderExclusive' /\ DebitedStaysClaimed'
    BY <2>2, <2>3, <2>4 DEF CallsFollowRuns, Started, HolderExclusive, DebitedStaysClaimed
  <2>6. NoDebitNoCredit' /\ SaverCarriesDebit'
    BY <2>2 DEF NoDebitNoCredit, SaverCarriesDebit
  <2>7. ChargedRowIsExact'
    BY <2>2 DEF ChargedRowIsExact
  <2>8. UnrecordedDebitMeansFault'
    <3>1. debits[j] > 0 => j \in broken
      BY <2>1
    <3> QED BY <2>1, <2>2, <3>1 DEF UnrecordedDebitMeansFault
  <2> QED BY <2>5, <2>6, <2>7, <2>8
<1>15. ASSUME NEW c \in Calls, Notify(c) PROVE IInv'
  <2>1. CallsFollowRuns' /\ HolderExclusive' /\ DebitedStaysClaimed'
    BY <1>15 DEF Notify, Goto, CallsFollowRuns, Started, HolderExclusive, Holder, DebitedStaysClaimed, Unclaimed
  <2>2. NoDebitNoCredit' /\ SaverCarriesDebit' /\ ChargedRowIsExact' /\ UnrecordedDebitMeansFault'
    BY <1>15 DEF Notify, Goto, CallsFollowRuns, Started, HolderExclusive, Holder, DebitedStaysClaimed, Unclaimed,
       NoDebitNoCredit, SaverCarriesDebit, ChargedRowIsExact, UnrecordedDebitMeansFault
  <2> QED BY <2>1, <2>2
<1>16. ASSUME NEW u \in Users, ChatUse(u) PROVE IInv'
  <2>1. CallsFollowRuns' /\ HolderExclusive' /\ DebitedStaysClaimed'
    BY <1>16 DEF ChatUse, CallsFollowRuns, Started, HolderExclusive, Holder, DebitedStaysClaimed, Unclaimed
  <2>2. NoDebitNoCredit' /\ SaverCarriesDebit' /\ ChargedRowIsExact' /\ UnrecordedDebitMeansFault'
    BY <1>16 DEF ChatUse, CallsFollowRuns, Started, HolderExclusive, Holder, DebitedStaysClaimed, Unclaimed,
       NoDebitNoCredit, SaverCarriesDebit, ChargedRowIsExact, UnrecordedDebitMeansFault
  <2> QED BY <2>1, <2>2
<1>17. ASSUME NEW u \in Users, PlanChange(u) PROVE IInv'
  <2>1. CallsFollowRuns' /\ HolderExclusive' /\ DebitedStaysClaimed'
    BY <1>17 DEF PlanChange, CallsFollowRuns, Started, HolderExclusive, Holder, DebitedStaysClaimed, Unclaimed
  <2>2. NoDebitNoCredit' /\ SaverCarriesDebit' /\ ChargedRowIsExact' /\ UnrecordedDebitMeansFault'
    BY <1>17 DEF PlanChange, CallsFollowRuns, Started, HolderExclusive, Holder, DebitedStaysClaimed, Unclaimed,
       NoDebitNoCredit, SaverCarriesDebit, ChargedRowIsExact, UnrecordedDebitMeansFault
  <2> QED BY <2>1, <2>2
<1>18. CASE Crash
  <2>1. CallsFollowRuns' /\ HolderExclusive' /\ DebitedStaysClaimed'
    BY <1>18 DEF Crash, CallsFollowRuns, Started, HolderExclusive, Holder, DebitedStaysClaimed, Unclaimed
  <2>2. NoDebitNoCredit' /\ SaverCarriesDebit' /\ ChargedRowIsExact' /\ UnrecordedDebitMeansFault'
    BY <1>18 DEF Crash, CallsFollowRuns, Started, HolderExclusive, Holder, DebitedStaysClaimed, Unclaimed,
       NoDebitNoCredit, SaverCarriesDebit, ChargedRowIsExact, UnrecordedDebitMeansFault
  <2> QED BY <2>1, <2>2
<1>19. CASE UNCHANGED vars
  <2>1. CallsFollowRuns' /\ HolderExclusive' /\ DebitedStaysClaimed'
    BY <1>19 DEF vars, CallsFollowRuns, Started, HolderExclusive, Holder, DebitedStaysClaimed, Unclaimed
  <2>2. NoDebitNoCredit' /\ SaverCarriesDebit' /\ ChargedRowIsExact' /\ UnrecordedDebitMeansFault'
    BY <1>19 DEF vars, CallsFollowRuns, Started, HolderExclusive, Holder, DebitedStaysClaimed, Unclaimed,
       NoDebitNoCredit, SaverCarriesDebit, ChargedRowIsExact, UnrecordedDebitMeansFault
  <2> QED BY <2>1, <2>2
<1> QED BY <1>1, <1>2, <1>3, <1>4, <1>5, <1>6, <1>7, <1>8, <1>9, <1>10,
   <1>11, <1>12, <1>13, <1>14, <1>15, <1>16, <1>17, <1>18, <1>19 DEF Next, CallStep

-----------------------------------------------------------------------------
LEMMA Invariance == Spec => []IInv
BY InitIInv, IInvStep, PTL DEF Spec

\* deduct takes effect at most once for a job, for any number of concurrent or
\* repeated finalizations, storage failures, deletes and crashes.
THEOREM DebitOnce == Spec => []AtMostOneDebit
<1>1. IInv => AtMostOneDebit
  BY DEF IInv, TypeOK, DebitedStaysClaimed, AtMostOneDebit
<1> QED BY <1>1, Invariance, PTL

\* A job stored CHARGED shows the amount by which its owner's used credit rose.
THEOREM ExactCharge == Spec => []ChargedRowIsExact
<1>1. IInv => ChargedRowIsExact
  BY DEF IInv
<1> QED BY <1>1, Invariance, PTL

\* Without a storage failure, delete or crash no debit goes unrecorded.
THEOREM FaultlessDebitRecorded == Spec => []UnrecordedDebitMeansFault
<1>1. IInv => UnrecordedDebitMeansFault
  BY DEF IInv
<1> QED BY <1>1, Invariance, PTL

-----------------------------------------------------------------------------
(* SiteBilling implements ChargeLedger *)

\* A step that claims jobs, or takes the claim from them, and shows no new
\* amount is a Seal of those that were still open.
LEMMA SealStep ==
  ASSUME TypeOK, UNCHANGED <<quota, debits, debited>>,
         \A j \in Jobs : Unclaimed(j)' => Unclaimed(j),
         Receipt' = Receipt
  PROVE  Abstract!LedgerNext
<1> DEFINE S == {j \in Jobs : debits[j] = 0 /\ Unclaimed(j) /\ ~Unclaimed(j)'}
<1>1. \A j \in S : Phase[j] = "open"
  BY DEF Phase
<1>2. Phase' = [j \in Jobs |-> IF j \in S THEN "sealed" ELSE Phase[j]]
  <2>1. \A j \in Jobs : debits[j] \in Nat
    BY DEF TypeOK
  <2> QED BY <2>1 DEF Phase
<1>3. Balance' = Balance
  BY DEF Balance
<1>4. Abstract!Seal(S)
  BY <1>1, <1>2, <1>3 DEF Abstract!Seal
<1> QED BY <1>4 DEF Abstract!LedgerNext

\* A step that rewrites the row of a debited job is a Record.
LEMMA RecordStep ==
  ASSUME NEW j \in Jobs, TypeOK, debits[j] = 1,
         UNCHANGED <<quota, debits, debited>>,
         \A i \in Jobs : Unclaimed(i)' <=> Unclaimed(i),
         \A i \in Jobs \ {j} : row'[i] = row[i],
         Receipt'[j] \in {{}, {debited[j]}}
  PROVE  Abstract!LedgerNext
<1>1. Phase' = Phase /\ Balance' = Balance
  BY DEF Phase, Balance
<1>2. Phase[j] = "debited"
  BY DEF Phase
<1>3. Receipt' = [Receipt EXCEPT ![j] = Receipt'[j]]
  BY DEF Receipt
<1>4. Abstract!Record(j)
  BY <1>1, <1>2, <1>3 DEF Abstract!Record
<1> QED BY <1>4 DEF Abstract!LedgerNext

\* A step that moves the quotas alone belongs to the rest of GetChatly.
LEMMA OutsideStep ==
  ASSUME TypeOK', UNCHANGED <<row, run, debits, debited>>
  PROVE  Abstract!LedgerNext
<1>1. Phase' = Phase /\ Receipt' = Receipt
  BY DEF Phase, Receipt, Unclaimed
<1>2. Balance' \in [Users -> Nat]
  BY NatArith DEF Balance, TypeOK, Quota
<1> QED BY <1>1, <1>2 DEF Abstract!LedgerNext, Abstract!Outside

LEMMA LedgerStep == IInv /\ IInv' /\ [Next]_vars => [Abstract!LedgerNext]_(Abstract!ledgerVars)
<1> SUFFICES ASSUME IInv, IInv', [Next]_vars PROVE [Abstract!LedgerNext]_(Abstract!ledgerVars)
  OBVIOUS
<1> USE BillingAssumption DEF IInv
<1>0. /\ TypeOK /\ TypeOK'
      /\ \A j \in Jobs : row[j].billing = "CHARGED" => debits[j] = 1 /\ ~Unclaimed(j)
  BY DEF ChargedRowIsExact, DebitedStaysClaimed, TypeOK
<1>1. ASSUME NEW j \in Jobs, StartJob(j) PROVE Abstract!LedgerNext
  <2>1. row[j].billing # "CHARGED"
    BY <1>0, <1>1 DEF StartJob, Unclaimed
  <2>2. Receipt' = Receipt
    BY <1>0, <1>1, <2>1 DEF StartJob, Receipt, TypeOK
  <2>3. \A i \in Jobs : Unclaimed(i)' => Unclaimed(i)
    BY <1>0, <1>1 DEF StartJob, Unclaimed, TypeOK
  <2> QED BY <1>0, <1>1, <2>2, <2>3, SealStep DEF StartJob
<1>2. ASSUME NEW j \in Jobs, FailJob(j), run[j] \in {"queued", "authorized"} PROVE Abstract!LedgerNext
  <2>1. row[j].billing # "CHARGED"
    BY <1>0, <1>2 DEF Unclaimed
  <2>2. Receipt' = Receipt
    <3>1. \A i \in Jobs : row'[i] = row[i] \/ (i = j /\ row'[i].billing = "NOT_CHARGED")
      BY <1>0, <1>2 DEF FailJob, TypeOK
    <3> QED BY <2>1, <3>1 DEF Receipt
  <2>3. \A i \in Jobs : Unclaimed(i)' => Unclaimed(i)
    BY <1>0, <1>2 DEF FailJob, Unclaimed, TypeOK
  <2> QED BY <1>0, <1>2, <2>2, <2>3, SealStep DEF FailJob
<1>3. ASSUME NEW j \in Jobs, Preflight(j) PROVE Abstract!LedgerNext
  <2>1. CASE QuotaOpen(OwnerOf[j])
    <3>1. Receipt' = Receipt /\ \A i \in Jobs : Unclaimed(i)' => Unclaimed(i)
      BY <1>0, <1>3, <2>1 DEF Preflight, Receipt, Unclaimed, TypeOK
    <3> QED BY <1>0, <1>3, <2>1, <3>1, SealStep DEF Preflight
  <2>2. CASE ~QuotaOpen(OwnerOf[j])
    BY <1>2, <1>3, <2>2 DEF Preflight
  <2> QED BY <2>1, <2>2
<1>4. ASSUME NEW j \in Jobs, RunFails(j) PROVE Abstract!LedgerNext
  BY <1>2, <1>4 DEF RunFails
<1>5. ASSUME NEW j \in Jobs, RunSucceeds(j) PROVE Abstract!LedgerNext
  <2>1. row[j].billing # "CHARGED"
    BY <1>0, <1>5 DEF RunSucceeds, Unclaimed
  <2>2. Receipt' = Receipt
    BY <1>0, <1>5, <2>1 DEF RunSucceeds, Receipt, TypeOK
  <2>3. \A i \in Jobs : Unclaimed(i)' => Unclaimed(i)
    BY <1>0, <1>5 DEF RunSucceeds, Unclaimed, TypeOK
  <2> QED BY <1>0, <1>5, <2>2, <2>3, SealStep DEF RunSucceeds
<1>6. ASSUME NEW j \in Jobs, DeleteJob(j) PROVE Abstract!LedgerNext
  <2>1. \A i \in Jobs : Unclaimed(i)' => Unclaimed(i)
    BY <1>0, <1>6 DEF DeleteJob, NoRow, Unclaimed, TypeOK
  <2>2. CASE row[j].billing = "CHARGED"
    <3>1. debits[j] = 1 /\ ~Unclaimed(j) /\ Receipt'[j] = {}
      BY <1>0, <1>6, <2>2 DEF DeleteJob, NoRow, Receipt, TypeOK
    <3>2. \A i \in Jobs : Unclaimed(i)' <=> Unclaimed(i)
      BY <1>0, <1>6, <2>1, <3>1 DEF DeleteJob, Unclaimed, TypeOK
    <3>3. \A i \in Jobs \ {j} : row'[i] = row[i]
      BY <1>0, <1>6 DEF DeleteJob, TypeOK
    <3> QED BY <1>0, <1>6, <3>1, <3>2, <3>3, RecordStep DEF DeleteJob
  <2>3. CASE row[j].billing # "CHARGED"
    <3>1. Receipt' = Receipt
      BY <1>0, <1>6, <2>3 DEF DeleteJob, NoRow, Receipt, TypeOK
    <3> QED BY <1>0, <1>6, <2>1, <3>1, SealStep DEF DeleteJob
  <2> QED BY <2>2, <2>3
<1>7. ASSUME NEW c \in Calls, Claim(c) PROVE Abstract!LedgerNext
  <2>1. JobOf[c] \in Jobs /\ row[JobOf[c]] \in Row
    BY <1>0 DEF TypeOK
  <2>2. Receipt' = Receipt
    BY <1>0, <1>7, <2>1 DEF Claim, ClaimedRow, Receipt, TypeOK
  <2>3. \A i \in Jobs : Unclaimed(i)' => Unclaimed(i)
    BY <1>0, <1>7, <2>1 DEF Claim, ClaimedRow, Unclaimed, TypeOK
  <2> QED BY <1>0, <1>7, <2>2, <2>3, SealStep DEF Claim
<1>8. ASSUME NEW c \in Calls,
             CallFinalize(c) \/ Refused(c) \/ ModelMismatch(c) \/ DeductNoMatch(c) \/ Notify(c)
      PROVE  Abstract!LedgerNext
  <2>1. UNCHANGED <<row, run, quota, debits, debited>>
    BY <1>8 DEF CallFinalize, Refused, ModelMismatch, DeductNoMatch, Notify
  <2>2. Receipt' = Receipt /\ \A i \in Jobs : Unclaimed(i)' => Unclaimed(i)
    BY <2>1 DEF Receipt, Unclaimed
  <2> QED BY <1>0, <2>1, <2>2, SealStep
<1>9. ASSUME NEW c \in Calls, Deduct(c) PROVE Abstract!LedgerNext
  <2> DEFINE j == JobOf[c]
             u == OwnerOf[j]
  <2>1. j \in Jobs /\ u \in Users /\ quota[u] \in Quota
    BY <1>0 DEF TypeOK
  <2>2. debits[j] = 0 /\ debited[j] = 0 /\ ~Unclaimed(j)
    BY <1>9, <2>1 DEF Deduct, Holder, HolderExclusive, NoDebitNoCredit
  <2>3. PICK s \in Summaries :
          /\ quota' = DeductedQuota(u, CreditsUsed(s))
          /\ debited' = [debited EXCEPT ![j] = @ + Above(quota'[u].used, quota[u].used)]
    BY <1>0, <1>9, <2>1 DEF Deduct, TypeOK
  <2> DEFINE k == quota[u].credit
             x == quota[u].used
             n == Smaller(k, x + CreditsUsed(s))
  <2>4. k \in Nat /\ x \in Nat /\ CreditsUsed(s) \in Nat /\ n \in Nat
    <3>1. k \in Nat /\ x \in Nat
      BY <2>1 DEF Quota
    <3>2. CreditsUsed(s) \in Nat
      BY CreditsUsedNat
    <3>3. x + CreditsUsed(s) \in Nat
      BY <3>1, <3>2
    <3> HIDE DEF k, x
    <3> QED BY <3>1, <3>2, <3>3, NatArith
  <2>5. quota' = [quota EXCEPT ![u].used = n]
    BY <2>3 DEF DeductedQuota
  <2>6. quota'[u].used = n /\ quota'[u].credit = k /\ \A v \in Users \ {u} : quota'[v] = quota[v]
    <3>1. quota \in [Users -> Quota]
      BY <1>0 DEF TypeOK
    <3> HIDE DEF n, u
    <3> QED BY <2>1, <2>4, <2>5, <3>1, SetUsed
  <2>7. Balance[u] = Above(k, x) /\ Balance'[u] = Above(k, n)
    BY <2>1, <2>6 DEF Balance
  <2>8. debited'[j] = Balance[u] - Balance'[u] /\ Balance'[u] <= Balance[u]
    <3>1. debited'[j] = 0 + Above(n, x)
      BY <1>0, <2>1, <2>2, <2>3, <2>6 DEF TypeOK
    <3>2. Above(n, x) = Above(k, x) - Above(k, n)
      BY <2>4, ChargeIsBalanceLoss
    <3>3. Above(n, x) \in Nat /\ Above(k, x) \in Nat /\ Above(k, n) \in Nat
      BY <2>4, NatArith
    <3> HIDE DEF n, k, x
    <3> QED BY <2>7, <3>1, <3>2, <3>3
  <2>9. debited' = [debited EXCEPT ![j] = Balance[u] - Balance'[u]]
    BY <1>0, <2>1, <2>3, <2>8 DEF TypeOK
  <2>10. /\ Balance' \in [Users -> Nat]
         /\ \A v \in Users \ {u} : Balance'[v] = Balance[v]
    BY <1>0, <2>6, NatArith DEF Balance, TypeOK, Quota
  <2>11. UNCHANGED <<row, run>> /\ debits' = [debits EXCEPT ![j] = 1]
    BY <1>0, <1>9, <2>1, <2>2 DEF Deduct, TypeOK
  <2>12. Receipt' = Receipt /\ Phase[j] = "sealed"
    BY <2>1, <2>2, <2>11 DEF Receipt, Phase
  <2>13. Phase' = [Phase EXCEPT ![j] = "debited"]
    <3>1. \A i \in Jobs : Unclaimed(i)' <=> Unclaimed(i)
      BY <2>11 DEF Unclaimed
    <3>2. \A i \in Jobs : debits'[i] = IF i = j THEN 1 ELSE debits[i]
      BY <1>0, <2>1, <2>11 DEF TypeOK
    <3> HIDE DEF j
    <3>3. \A i \in Jobs : Phase'[i] = IF i = j THEN "debited" ELSE Phase[i]
      BY <2>1, <3>1, <3>2 DEF Phase
    <3> QED BY <2>1, <3>3 DEF Phase
  <2>14. Abstract!Debit(j)
    <3> HIDE DEF j
    <3> QED BY <2>8, <2>9, <2>10, <2>12, <2>13 DEF Abstract!Debit
  <2> QED BY <2>1, <2>14 DEF Abstract!LedgerNext
<1>10. ASSUME NEW c \in Calls, SaveCharged(c) PROVE Abstract!LedgerNext
  <2> DEFINE j == JobOf[c]
  <2>1. /\ j \in Jobs /\ debits[j] = 1 /\ ~Unclaimed(j) /\ run[j] \in {"billable", "over"}
        /\ charge[c] = debited[j]
    BY <1>0, <1>10 DEF SaveCharged, SaverCarriesDebit, DebitedStaysClaimed, CallsFollowRuns, Started, TypeOK
  <2>2. Receipt'[j] = {debited[j]} /\ \A i \in Jobs \ {j} : row'[i] = row[i]
    BY <1>0, <1>10, <2>1 DEF SaveCharged, Receipt, TypeOK
  <2>3. \A i \in Jobs : Unclaimed(i)' <=> Unclaimed(i)
    BY <1>0, <1>10, <2>1 DEF SaveCharged, Unclaimed, TypeOK
  <2> QED BY <1>0, <1>10, <2>1, <2>2, <2>3, RecordStep DEF SaveCharged
<1>11. ASSUME NEW c \in Calls, BillingFailure(c) PROVE Abstract!LedgerNext
  <2> DEFINE j == JobOf[c]
  <2>1. j \in Jobs /\ run[j] \in {"billable", "over"}
    BY <1>0, <1>11 DEF BillingFailure, CallsFollowRuns, Started, TypeOK
  <2>2. /\ row'[j] = row[j] \/ row'[j].billing = "FAILED"
        /\ \A i \in Jobs \ {j} : row'[i] = row[i]
        /\ UNCHANGED <<run, quota, debits, debited>>
    BY <1>0, <1>11, <2>1 DEF BillingFailure, TypeOK
  <2>3. \A i \in Jobs : Unclaimed(i)' => Unclaimed(i)
    BY <2>1, <2>2 DEF Unclaimed
  <2>4. CASE row[j].billing = "CHARGED"
    <3>1. debits[j] = 1 /\ ~Unclaimed(j) /\ row[j].charged = debited[j]
      BY <1>0, <2>1, <2>4 DEF ChargedRowIsExact
    <3>2. \A i \in Jobs : Unclaimed(i)' <=> Unclaimed(i)
      BY <2>2, <2>3, <3>1 DEF Unclaimed
    <3>3. Receipt'[j] \in {{}, {debited[j]}}
      BY <2>1, <2>2, <2>4, <3>1 DEF Receipt
    <3> QED BY <1>0, <2>1, <2>2, <3>1, <3>2, <3>3, RecordStep
  <2>5. CASE row[j].billing # "CHARGED"
    <3>1. Receipt' = Receipt
      BY <2>1, <2>2, <2>5 DEF Receipt
    <3> QED BY <1>0, <2>2, <2>3, <3>1, SealStep
  <2> QED BY <2>4, <2>5
<1>12. ASSUME NEW u \in Users, ChatUse(u) \/ PlanChange(u) PROVE Abstract!LedgerNext
  BY <1>0, <1>12, OutsideStep DEF ChatUse, PlanChange
<1>13. ASSUME Crash PROVE Abstract!LedgerNext
  <2>1. Receipt' = Receipt /\ \A i \in Jobs : Unclaimed(i)' => Unclaimed(i)
    BY <1>13 DEF Crash, Receipt, Unclaimed
  <2> QED BY <1>0, <1>13, <2>1, SealStep DEF Crash
<1>14. ASSUME UNCHANGED vars PROVE UNCHANGED Abstract!ledgerVars
  BY <1>14 DEF vars, Abstract!ledgerVars, Phase, Receipt, Balance, Unclaimed
<1> QED BY <1>1, <1>3, <1>4, <1>5, <1>6, <1>7, <1>8, <1>9, <1>10, <1>11, <1>12, <1>13, <1>14
    DEF Next, CallStep

\* The service implements the ledger: one debit per job at most, of exactly the
\* amount the owner's balance loses, and records that show that amount or nothing.
THEOREM ImplementsLedger == Spec => Ledger
<1>1. Init => Abstract!LedgerInit
  <2> SUFFICES ASSUME Init PROVE Abstract!LedgerInit
    OBVIOUS
  <2>1. TypeOK
    BY InitIInv DEF IInv
  <2>2. Phase = [j \in Jobs |-> "open"] /\ Receipt = [j \in Jobs |-> {}]
    BY DEF Init, NoRow, Phase, Receipt, Unclaimed
  <2>3. Balance \in [Users -> Nat]
    BY <2>1, NatArith DEF Balance, TypeOK, Quota
  <2> QED BY <2>2, <2>3 DEF Init, Abstract!LedgerInit
<1> QED BY <1>1, LedgerStep, Invariance, PTL DEF Spec, Ledger, Abstract!LedgerSpec
=============================================================================
