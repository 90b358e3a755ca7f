--------------------------- MODULE DevJobs_proofs ---------------------------
(***************************************************************************)
(* Proofs about DevJobs: whatever is submitted, retried, dropped from      *)
(* memory or followed, one job runs at a time, a request identity is       *)
(* generated at most once, the memories keep their bounds, and every       *)
(* follower is told the truth about its job. What a follower is shown is a *)
(* function of the events it is called for, one after the other; what      *)
(* holds of every list of events is shown by its least counterexample.     *)
(***************************************************************************)
EXTENDS DevJobs, SequenceTheorems, FiniteSetTheorems, NaturalsInduction,
        WellFoundedInduction, TLAPS

Steps == {"none", "queued", "working", "delivering", "settling", "done"}
Resting(j) == step[j] \in {"none", "done"}
Active(j) == step[j] \in Steps \ {"none", "done"}

\* The part of TypeOK the argument needs.
Shape ==
  /\ kept \in Seq(Jobs)
  /\ status \in [Jobs -> {"none", "QUEUED", "RUNNING"} \cup Ended]
  /\ step \in [Jobs -> Steps]
  /\ busy \in BOOLEAN
  /\ request \in [Jobs -> SUBSET Requests]
  /\ attempt \in [Requests -> [known : BOOLEAN, job : SUBSET Jobs, result : BOOLEAN]]
  /\ made \in [Requests -> Nat]

\* Two jobs that are both under way are one.
Alone == \A j, k \in Jobs : Active(j) /\ Active(k) => j = k

\* A job under way holds the flag, and its record is in memory.
Held == \A j \in Jobs : Active(j) => busy /\ j \in Records

\* A job has no status until it is started.
Fresh == \A j \in Jobs : status[j] = "none" => step[j] = "none"

\* A workflow at work generates for an identity that has no result yet.
WorksForNew ==
  \A j \in Jobs : step[j] = "working" => \A q \in request[j] : ~attempt[q].result

\* What was generated under an identity left its result.
MadeLeavesResult ==
  \A q \in Requests : made[q] <= 1 /\ (made[q] = 1 => attempt[q].result)

IInv ==
  /\ Shape
  /\ Alone
  /\ Held
  /\ Fresh
  /\ WorksForNew
  /\ MadeLeavesResult

-----------------------------------------------------------------------------
(* The memory of records *)

\* Dropping the oldest records and appending one gives a memory that holds it.
LEMMA AppendedIsKept ==
  ASSUME NEW s \in Seq(Jobs), NEW j \in Jobs, NEW old \in 0 .. Len(s)
  PROVE  LET t == Append(SubSeq(s, old + 1, Len(s)), j)
         IN  t \in Seq(Jobs) /\ \E i \in DOMAIN t : t[i] = j
<1> DEFINE rest == SubSeq(s, old + 1, Len(s))
           t == Append(rest, j)
<1>1. rest \in Seq(Jobs)
  <2>1. \A i \in old + 1 .. Len(s) : s[i] \in Jobs  OBVIOUS
  <2> QED  BY <2>1, SubSeqProperties
<1> HIDE DEF rest
<1>2. /\ t \in Seq(Jobs) /\ Len(t) = Len(rest) + 1 /\ t[Len(rest) + 1] = j
  BY <1>1
<1>3. Len(rest) + 1 \in DOMAIN t  BY <1>1
<1> QED  BY <1>2, <1>3 DEF rest

\* What start() does when its guards let it pass, whichever operation calls it.
LEMMA StartKeeps ==
  ASSUME IInv, NEW j \in Jobs, NEW why \in SUBSET Requests, Start(j, why),
         attempt' \in [Requests -> [known : BOOLEAN, job : SUBSET Jobs, result : BOOLEAN]],
         \A q \in Requests : attempt'[q].result = attempt[q].result,
         UNCHANGED made
  PROVE  IInv'
<1> USE DEF IInv
<1>1. /\ ~busy /\ busy' = TRUE
      /\ status' = [status EXCEPT ![j] = "QUEUED"]
      /\ step' = [step EXCEPT ![j] = "queued"]
      /\ request' = [request EXCEPT ![j] = why]
  BY DEF Start, NotBusy
<1>2. kept' \in Seq(Jobs) /\ j \in Records'
  <2>1. PICK old \in Dropped : kept' = Append(SubSeq(kept, old + 1, Len(kept)), j)
    BY DEF Start
  <2>2. kept \in Seq(Jobs) /\ old \in 0 .. Len(kept)  BY <2>1 DEF Dropped, Shape
  <2>3. kept' \in Seq(Jobs) /\ \E i \in DOMAIN kept' : kept'[i] = j
    BY <2>1, <2>2, AppendedIsKept
  <2> QED  BY <2>3 DEF Records
<1>3. Shape'
  BY <1>1, <1>2 DEF Shape, Steps, Ended
<1>4. \A k \in Jobs : ~Active(k)  BY <1>1 DEF Held
<1>5. \A k \in Jobs : Active(k)' => k = j
  BY <1>1, <1>4 DEF Active, Shape, Steps
<1>6. Alone'  BY <1>5 DEF Alone
<1>7. Held'  BY <1>5, <1>1, <1>2 DEF Held
<1>8. Fresh'
  BY <1>1 DEF Fresh, Shape
<1>9. WorksForNew'
  <2> SUFFICES ASSUME NEW k \in Jobs, step'[k] = "working" PROVE FALSE  BY DEF WorksForNew
  <2>1. step[k] = "working"  BY <1>1 DEF Shape
  <2> QED  BY <2>1, <1>4 DEF Active, Steps
<1>10. MadeLeavesResult'  BY DEF MadeLeavesResult
<1> QED  BY <1>3, <1>6, <1>7, <1>8, <1>9, <1>10

-----------------------------------------------------------------------------
(* The invariant *)

LEMMA IInvInit == Init => IInv
<1> SUFFICES ASSUME Init PROVE IInv  OBVIOUS
<1> USE DEF Init
<1>1. Shape
  <2>1. attempt \in [Requests -> [known : BOOLEAN, job : SUBSET Jobs, result : BOOLEAN]]
    OBVIOUS
  <2>2. kept \in Seq(Jobs) /\ busy \in BOOLEAN
    <3>1. kept = << >> /\ busy = FALSE  OBVIOUS
    <3> HIDE DEF Init
    <3>2. << >> \in Seq(Jobs)  OBVIOUS
    <3> QED  BY <3>1, <3>2
  <2>3. /\ status \in [Jobs -> {"none", "QUEUED", "RUNNING"} \cup Ended]
        /\ step \in [Jobs -> Steps]
    BY DEF Steps
  <2>4. request \in [Jobs -> SUBSET Requests] /\ made \in [Requests -> Nat]  OBVIOUS
  <2> QED  BY <2>1, <2>2, <2>3, <2>4 DEF Shape
<1>2. \A j \in Jobs : ~Active(j)  BY DEF Active
<1>3. Alone /\ Held  BY <1>2 DEF Alone, Held
<1>4. Fresh /\ WorksForNew /\ MadeLeavesResult  BY DEF Fresh, WorksForNew, MadeLeavesResult
<1> QED  BY <1>1, <1>3, <1>4 DEF IInv

\* The steps of one job: it moves on or comes to rest, and no other job moves.
LEMMA MovesOn ==
  ASSUME IInv, NEW j \in Jobs, Active(j), UNCHANGED <<kept, request>>, busy' \in BOOLEAN,
         NEW new \in Steps \ {"none"}, step' = [step EXCEPT ![j] = new],
         NEW st \in {"RUNNING"} \cup Ended,
         status' = status \/ status' = [status EXCEPT ![j] = st],
         new = "done" \/ busy' = busy
  PROVE  /\ kept' \in Seq(Jobs) /\ request' \in [Jobs -> SUBSET Requests]
         /\ status' \in [Jobs -> {"none", "QUEUED", "RUNNING"} \cup Ended]
         /\ step' \in [Jobs -> Steps]
         /\ Alone' /\ Held' /\ Fresh'
<1> USE DEF IInv
<1>1. /\ kept' \in Seq(Jobs) /\ request' \in [Jobs -> SUBSET Requests]
      /\ status' \in [Jobs -> {"none", "QUEUED", "RUNNING"} \cup Ended]
      /\ step' \in [Jobs -> Steps]
  BY DEF Shape, Ended
<1>2. \A k \in Jobs : Active(k) => k = j  BY DEF Alone
<1>3. \A k \in Jobs : k # j => step'[k] = step[k]  BY DEF Shape
<1>4. \A k \in Jobs : Active(k)' => k = j  BY <1>2, <1>3 DEF Active
<1>5. Alone'  BY <1>4 DEF Alone
<1>6. Held'
  <2> SUFFICES ASSUME Active(j)' PROVE busy' /\ j \in Records'  BY <1>4 DEF Held
  <2>1. new # "done"  BY DEF Active, Shape
  <2>2. busy /\ j \in Records  BY DEF Held
  <2> QED  BY <2>1, <2>2 DEF Records
<1>7. Fresh'
  <2> SUFFICES ASSUME NEW k \in Jobs, status'[k] = "none" PROVE step'[k] = "none"  BY DEF Fresh
  <2>1. status[j] # "none"  BY DEF Fresh, Active
  <2>2. k # j /\ status[k] = "none"  BY <2>1 DEF Shape, Ended
  <2> QED  BY <2>2, <1>3 DEF Fresh
<1> QED  BY <1>1, <1>5, <1>6, <1>7

LEMMA WorkflowKeeps ==
  ASSUME IInv, NEW j \in Jobs, Workflow(j)
  PROVE  IInv'
<1> USE DEF IInv
<1>1. CASE Run(j)
  <2>1. Active(j)  BY <1>1 DEF Run, Active, Steps
  <2> DEFINE new == IF HasResult(j) THEN "delivering" ELSE "working"
  <2>2. /\ kept' \in Seq(Jobs) /\ request' \in [Jobs -> SUBSET Requests]
        /\ status' \in [Jobs -> {"none", "QUEUED", "RUNNING"} \cup Ended]
        /\ step' \in [Jobs -> Steps]
        /\ Alone' /\ Held' /\ Fresh'
    <3>1. new \in Steps \ {"none"} /\ step' = [step EXCEPT ![j] = new]  BY <1>1 DEF Run, Steps
    <3>2. status' = [status EXCEPT ![j] = "RUNNING"] /\ UNCHANGED <<kept, request, busy>>
      BY <1>1 DEF Run
    <3>3. busy' \in BOOLEAN /\ "RUNNING" \in {"RUNNING"} \cup Ended  BY <3>2 DEF Shape
    <3> HIDE DEF new
    <3> QED  BY <2>1, <3>1, <3>2, <3>3, MovesOn
  <2>3. Shape'  BY <1>1, <2>2 DEF Run, Shape
  <2>4. WorksForNew'
    <3> SUFFICES ASSUME NEW k \in Jobs, step'[k] = "working", NEW q \in request[k]
                 PROVE  ~attempt[q].result
      BY <1>1 DEF WorksForNew, Run
    <3>1. CASE k = j  BY <1>1, <3>1 DEF Run, HasResult, Shape
    <3>2. CASE k # j  BY <1>1, <3>2 DEF Run, WorksForNew, Shape
    <3> QED  BY <3>1, <3>2
  <2>5. MadeLeavesResult'  BY <1>1 DEF Run, MadeLeavesResult
  <2> QED  BY <2>2, <2>3, <2>4, <2>5
<1>2. CASE Update(j)
  <2>1. UNCHANGED <<kept, status, step, busy, request, attempt, made>>  BY <1>2 DEF Update, History
  <2> QED
    BY <2>1 DEF Shape, Alone, Held, Fresh, WorksForNew, MadeLeavesResult, Active, Records
<1>3. CASE WorkflowReturns(j)
  <2>1. Active(j) /\ step[j] = "working"  BY <1>3 DEF WorkflowReturns, Active, Steps
  <2>2. /\ step' = [step EXCEPT ![j] = "delivering"]
        /\ UNCHANGED <<kept, status, busy, request>>
        /\ attempt' = [q \in Requests |-> [attempt[q] EXCEPT !.result = @ \/ q \in request[j]]]
        /\ made' = [q \in Requests |-> IF q \in request[j] THEN made[q] + 1 ELSE made[q]]
    BY <1>3 DEF WorkflowReturns
  <2>3. /\ kept' \in Seq(Jobs) /\ request' \in [Jobs -> SUBSET Requests]
        /\ status' \in [Jobs -> {"none", "QUEUED", "RUNNING"} \cup Ended]
        /\ step' \in [Jobs -> Steps]
        /\ Alone' /\ Held' /\ Fresh'
    <3>1. "delivering" \in Steps \ {"none"} /\ "RUNNING" \in {"RUNNING"} \cup Ended
      BY DEF Steps
    <3>2. busy' \in BOOLEAN  BY <2>2 DEF Shape
    <3> QED  BY <2>1, <2>2, <3>1, <3>2, MovesOn
  <2>4. \A q \in Requests : /\ attempt[q] \in [known : BOOLEAN, job : SUBSET Jobs, result : BOOLEAN]
                            /\ made[q] \in Nat
    BY DEF Shape
  <2>5. \A q \in Requests : attempt'[q] = [attempt[q] EXCEPT !.result = @ \/ q \in request[j]]
    BY <2>2
  <2>6. \A q \in Requests : /\ attempt'[q] \in [known : BOOLEAN, job : SUBSET Jobs, result : BOOLEAN]
                            /\ attempt'[q].result = (attempt[q].result \/ q \in request[j])
    BY <2>4, <2>5
  <2>7. attempt' \in [Requests -> [known : BOOLEAN, job : SUBSET Jobs, result : BOOLEAN]]
    BY <2>2, <2>6
  <2>8. made' \in [Requests -> Nat]  BY <2>2, <2>4
  <2>9. Shape'  BY <2>2, <2>3, <2>7, <2>8 DEF Shape
  <2>10. WorksForNew'
    <3> SUFFICES ASSUME NEW k \in Jobs, step'[k] = "working" PROVE FALSE  BY DEF WorksForNew
    <3>1. k # j /\ step[k] = "working"  BY <2>2 DEF Shape
    <3>2. Active(k)  BY <3>1 DEF Active, Steps
    <3> QED  BY <3>1, <3>2, <2>1 DEF Alone
  <2>11. MadeLeavesResult'
    <3> SUFFICES ASSUME NEW q \in Requests
                 PROVE  made'[q] <= 1 /\ (made'[q] = 1 => attempt'[q].result)
      BY DEF MadeLeavesResult
    <3>1. CASE q \in request[j]
      <4>1. ~attempt[q].result  BY <2>1, <3>1 DEF WorksForNew
      <4>2. made[q] = 0  BY <4>1, <2>4 DEF MadeLeavesResult
      <4>3. made'[q] = 1  BY <4>2, <2>2, <3>1
      <4> QED  BY <4>3, <2>6, <3>1
    <3>2. CASE q \notin request[j]  BY <3>2, <2>2, <2>6 DEF MadeLeavesResult
    <3> QED  BY <3>1, <3>2
  <2> QED  BY <2>3, <2>9, <2>10, <2>11
<1>4. CASE Succeed(j) \/ Fail(j) \/ Settle(j)
  <2>1. Active(j)  BY <1>4 DEF Succeed, Fail, Settle, Active, Steps
  <2>2. PICK new \in {"settling", "done"} : step' = [step EXCEPT ![j] = new] /\ (new = "done" \/ busy' = busy)
    BY <1>4 DEF Succeed, Fail, Settle, History
  <2>3. PICK st \in Ended : status' = status \/ status' = [status EXCEPT ![j] = st]
    BY <1>4 DEF Succeed, Fail, Settle, Ended
  <2>4. UNCHANGED <<kept, request, attempt, made>> /\ busy' \in BOOLEAN
    BY <1>4 DEF Succeed, Fail, Settle, History, StillBusy, Shape
  <2>5. /\ kept' \in Seq(Jobs) /\ request' \in [Jobs -> SUBSET Requests]
        /\ status' \in [Jobs -> {"none", "QUEUED", "RUNNING"} \cup Ended]
        /\ step' \in [Jobs -> Steps]
        /\ Alone' /\ Held' /\ Fresh'
    <3>1. new \in Steps \ {"none"} /\ st \in {"RUNNING"} \cup Ended  BY DEF Steps
    <3> QED  BY <2>1, <2>2, <2>3, <2>4, <3>1, MovesOn
  <2>6. Shape'  BY <2>4, <2>5 DEF Shape
  <2>7. WorksForNew'
    <3> SUFFICES ASSUME NEW k \in Jobs, step'[k] = "working" PROVE step[k] = "working"
      BY <2>4 DEF WorksForNew
    <3> QED  BY <2>2 DEF Shape
  <2>8. MadeLeavesResult'  BY <2>4 DEF MadeLeavesResult
  <2> QED  BY <2>5, <2>6, <2>7, <2>8
<1> QED  BY <1>1, <1>2, <1>3, <1>4 DEF Workflow

LEMMA IInvNext == IInv /\ [Next]_vars => IInv'
<1> SUFFICES ASSUME IInv, [Next]_vars PROVE IInv'  OBVIOUS
<1> DEFINE Same == UNCHANGED <<kept, status, step, busy, request, made>>
<1>1. ASSUME Same,
             attempt' \in [Requests -> [known : BOOLEAN, job : SUBSET Jobs, result : BOOLEAN]],
             \A q \in Requests : attempt'[q].result = attempt[q].result
      PROVE  IInv'
  <2>1. Shape'  BY <1>1 DEF IInv, Shape
  <2>2. Alone' /\ Held' /\ Fresh'
    BY <1>1 DEF IInv, Alone, Held, Fresh, Active, Records
  <2>3. WorksForNew'
    BY <1>1 DEF IInv, WorksForNew, Shape
  <2>4. MadeLeavesResult'  BY <1>1 DEF IInv, MadeLeavesResult
  <2> QED  BY <2>1, <2>2, <2>3, <2>4 DEF IInv
<1>2. ASSUME UNCHANGED attempt PROVE
        /\ attempt' \in [Requests -> [known : BOOLEAN, job : SUBSET Jobs, result : BOOLEAN]]
        /\ \A q \in Requests : attempt'[q].result = attempt[q].result
  BY <1>2 DEF IInv, Shape
<1>3. ASSUME NEW j \in Jobs, Submit(j) PROVE IInv'
  <2>1. Start(j, {}) /\ UNCHANGED <<attempt, made>>  BY <1>3 DEF Submit
  <2> QED  BY <1>2, <2>1, StartKeeps
<1>4. ASSUME NEW q \in Requests, NEW j \in Jobs, Generate(q, j) PROVE IInv'
  <2>1. /\ Start(j, {q}) /\ UNCHANGED made
        /\ attempt' = [attempt EXCEPT ![q].known = TRUE, ![q].job = {j}]
    BY <1>4 DEF Generate
  <2>2. attempt \in [Requests -> [known : BOOLEAN, job : SUBSET Jobs, result : BOOLEAN]]
    BY DEF IInv, Shape
  <2>3. /\ attempt' \in [Requests -> [known : BOOLEAN, job : SUBSET Jobs, result : BOOLEAN]]
        /\ \A p \in Requests : attempt'[p].result = attempt[p].result
    BY <2>1, <2>2
  <2>4. {q} \in SUBSET Requests  OBVIOUS
  <2> QED  BY <2>1, <2>3, <2>4, StartKeeps
<1>5. ASSUME NEW q \in Requests, GenerateBusy(q) PROVE IInv'
  <2>1. Same /\ attempt' = [attempt EXCEPT ![q].known = TRUE]  BY <1>5 DEF GenerateBusy
  <2>2. attempt \in [Requests -> [known : BOOLEAN, job : SUBSET Jobs, result : BOOLEAN]]
    BY DEF IInv, Shape
  <2>3. /\ attempt' \in [Requests -> [known : BOOLEAN, job : SUBSET Jobs, result : BOOLEAN]]
        /\ \A p \in Requests : attempt'[p].result = attempt[p].result
    BY <2>1, <2>2
  <2> QED  BY <1>1, <2>1, <2>3
<1>6. ASSUME NEW c \in Followers, Leave(c) \/ \E j \in Jobs : Follow(c, j) \/ Forward(c, j)
      PROVE  IInv'
  <2>1. Same /\ UNCHANGED attempt  BY <1>6 DEF Leave, Follow, Forward
  <2> QED  BY <1>1, <1>2, <2>1
<1>7. CASE UNCHANGED vars
  <2>1. Same /\ UNCHANGED attempt  BY <1>7 DEF vars
  <2> QED  BY <1>1, <1>2, <2>1
<1> QED  BY <1>3, <1>4, <1>5, <1>6, <1>7, WorkflowKeeps DEF Next

-----------------------------------------------------------------------------
(* The theorems *)

LEMMA Inductive == Spec => []IInv
<1> QED  BY IInvInit, IInvNext, PTL DEF Spec

\* One generation or edit at a time, from its start until its promise has
\* settled, and none is dropped from memory while it runs (dev-job-manager.ts).
THEOREM OneAtATime == Spec => []OneMutation
<1>1. ASSUME IInv PROVE OneMutation
  <2>1. \A j \in Jobs : step[j] \notin {"none", "done"} <=> Active(j)
    BY <1>1 DEF IInv, Shape, Active
  <2>2. \A j, k \in Jobs : {step[j], step[k]} \cap {"none", "done"} = {} => j = k
    <3> SUFFICES ASSUME NEW j \in Jobs, NEW k \in Jobs,
                        {step[j], step[k]} \cap {"none", "done"} = {}
                 PROVE  j = k
      OBVIOUS
    <3>1. step[j] \notin {"none", "done"} /\ step[k] \notin {"none", "done"}  OBVIOUS
    <3> QED  BY <1>1, <2>1, <3>1 DEF IInv, Alone
  <2>3. \A j \in Jobs : step[j] \notin {"none", "done"} => busy /\ j \in Records
    BY <1>1, <2>1 DEF IInv, Held
  <2> QED  BY <2>2, <2>3 DEF OneMutation
<1> QED  BY <1>1, Inductive, PTL

\* However often a client retries a request, and whatever failed before, its
\* site is generated at most once (playground-service.ts).
THEOREM AtMostOnce == Spec => []GeneratedOnce
<1>1. IInv => GeneratedOnce  BY DEF IInv, MadeLeavesResult, GeneratedOnce
<1> QED  BY <1>1, Inductive, PTL

-----------------------------------------------------------------------------
(* What a follower is shown *)

Kinds == {"JOB_STARTED", "task", "stage", "completed"} \cup Terminal
Sink == [job : SUBSET Jobs, open : BOOLEAN, out : Seq(Kinds)]

\* The end of t, the positions counted from the front.
SuffixOf(s, t) ==
  Len(s) <= Len(t) /\ \A i \in 1 .. Len(s) : s[i] = t[Len(t) - Len(s) + i]

\* No terminal event, or one at the very end.
NoEnd(s) == \A i \in 1 .. Len(s) : s[i] \notin Terminal
EndsWith(s, e) ==
  Len(s) > 0 /\ s[Len(s)] = e /\ \A i \in 1 .. Len(s) : i # Len(s) => s[i] \notin Terminal
Once(s) == \A i, k \in 1 .. Len(s) : s[i] = "completed" /\ s[k] = "completed" => i = k

\* A socket that is still told of its job, and one that has been told its end.
Live(s) == s.open /\ NoEnd(s.out) /\ Once(s.out)
Over(s, e) == ~s.open /\ EndsWith(s.out, e) /\ Once(s.out)

\* A sequence that ends another is a suffix of it.
LEMMA SuffixIsSuffix ==
  ASSUME NEW S, NEW s \in Seq(S), NEW t \in Seq(S), SuffixOf(s, t)
  PROVE  IsSuffix(s, t)
<1> DEFINE rs == Reverse(s)
           rt == Reverse(t)
<1>1. /\ Len(s) \in Nat /\ Len(t) \in Nat
      /\ rs \in Seq(S) /\ Len(rs) = Len(s) /\ \A i \in 1 .. Len(s) : rs[i] = s[Len(s) - i + 1]
  <2>1. rs = [i \in 1 .. Len(s) |-> s[(Len(s) - i) + 1]]  BY DEF Reverse
  <2>2. \A i \in 1 .. Len(s) : s[(Len(s) - i) + 1] \in S  OBVIOUS
  <2> HIDE DEF rs
  <2>3. rs \in [1 .. Len(s) -> S]  BY <2>1, <2>2
  <2> QED  BY <2>1, <2>3
<1>2. rt \in Seq(S) /\ Len(rt) = Len(t) /\ \A i \in 1 .. Len(t) : rt[i] = t[Len(t) - i + 1]
  <2>1. rt = [i \in 1 .. Len(t) |-> t[(Len(t) - i) + 1]]  BY DEF Reverse
  <2>2. \A i \in 1 .. Len(t) : t[(Len(t) - i) + 1] \in S  OBVIOUS
  <2> HIDE DEF rt
  <2>3. rt \in [1 .. Len(t) -> S]  BY <2>1, <2>2
  <2> QED  BY <2>1, <2>3
<1> HIDE DEF rs, rt
<1>3. Len(s) <= Len(t)  BY DEF SuffixOf
<1>4. \A i \in 1 .. Len(s) : rs[i] = rt[i]
  <2> TAKE i \in 1 .. Len(s)
  <2>1. Len(s) - i + 1 \in 1 .. Len(s)  BY <1>1
  <2>2. s[Len(s) - i + 1] = t[Len(t) - Len(s) + (Len(s) - i + 1)]  BY <2>1 DEF SuffixOf
  <2>3. Len(t) - Len(s) + (Len(s) - i + 1) = Len(t) - i + 1  BY <1>1
  <2>4. i \in 1 .. Len(t)  BY <1>1, <1>3
  <2> QED  BY <1>1, <1>2, <2>2, <2>3, <2>4
<1>5. SubSeq(rs, 1, Len(rs)) = SubSeq(rt, 1, Len(rs))
  <2>1. SubSeq(rs, 1, Len(rs)) = [i \in 1 .. Len(rs) |-> rs[i]]  BY <1>1
  <2>2. SubSeq(rt, 1, Len(rs)) = [i \in 1 .. Len(rs) |-> rt[i]]  BY <1>1, <1>2, <1>3
  <2> QED  BY <2>1, <2>2, <1>1, <1>4
<1> QED  BY <1>1, <1>2, <1>3, <1>5 DEF IsSuffix, IsPrefix, rs, rt

\* Induction over the positions of a list is an argument about the least position.
LEMMA LeastNatural ==
  ASSUME NEW T, T \subseteq Nat, T # {}
  PROVE  \E x \in T : \A y \in T : x <= y
<1> DEFINE less == {p \in Nat \X Nat : p[1] < p[2]}
<1>1. IsWellFoundedOn(less, Nat)  BY NatLessThanWellFounded DEF OpToRel
<1>2. PICK x \in T : \A y \in T : ~ (<<y, x>> \in less)
  <2> HIDE DEF less
  <2> QED  BY <1>1, WFMin
<1>3. ASSUME NEW y \in T PROVE x <= y
  <2>1. x \in Nat /\ y \in Nat /\ ~ (<<y, x>> \in less)  BY <1>2
  <2>2. y < x => <<y, x>> \in less  BY <2>1
  <2> QED  BY <2>1, <2>2
<1> QED  BY <1>3

\* Calling a follower for each event of a list is a sequence of calls.
LEMMA ShownStepwise ==
  ASSUME NEW c, NEW s, NEW list \in Seq(Kinds)
  PROVE  \E f : /\ f[0] = s
                /\ \A n \in 1 .. Len(list) : f[n] = Delivered(c, f[n - 1], list[n])
                /\ Shown(c, s, list) = f[Len(list)]
<1> DEFINE L == Len(list)
           Calls(f, m) == f = [n \in 0 .. m |-> IF n = 0 THEN s ELSE Delivered(c, f[n - 1], list[n])]
           Without == {m \in 0 .. L : ~ \E f : Calls(f, m)}
<1>1. L \in Nat  OBVIOUS
<1> HIDE DEF L
<1>2. Without = {}
  <2> SUFFICES ASSUME Without # {} PROVE FALSE  OBVIOUS
  <2>1. PICK m \in Without : \A y \in Without : m <= y
    <3>1. Without \subseteq Nat  BY <1>1
    <3> HIDE DEF Without
    <3> QED  BY <3>1, LeastNatural
  <2>2. m \in 0 .. L /\ m \in Nat  BY <1>1
  <2>3. CASE m = 0
    <3> DEFINE g == [n \in 0 .. 0 |-> s]
    <3>1. g = [n \in 0 .. 0 |-> IF n = 0 THEN s ELSE Delivered(c, g[n - 1], list[n])]  OBVIOUS
    <3>2. Calls(g, 0)  BY <3>1
    <3> QED  BY <3>2, <2>3
  <2>4. CASE m # 0
    <3>1. m - 1 \in 0 .. L /\ m - 1 \notin Without  BY <2>1, <2>2, <2>4, <1>1
    <3>2. PICK f : Calls(f, m - 1)  BY <3>1
    <3> DEFINE g == [n \in 0 .. m |-> IF n = m THEN Delivered(c, f[m - 1], list[m]) ELSE f[n]]
    <3>3. \A n \in 0 .. m - 1 : f[n] = IF n = 0 THEN s ELSE Delivered(c, f[n - 1], list[n])
      <4> HIDE DEF g
      <4> QED  BY <3>2
    <3>4. \A n \in 0 .. m : g[n] = IF n = 0 THEN s ELSE Delivered(c, g[n - 1], list[n])
      <4> TAKE n \in 0 .. m
      <4>1. CASE n = 0
        <5>1. g[0] = f[0] /\ 0 \in 0 .. m - 1  BY <2>2, <2>4
        <5> QED  BY <5>1, <3>3, <4>1
      <4>2. CASE n # 0 /\ n # m
        <5>1. n - 1 \in 0 .. m /\ n - 1 # m /\ n \in 0 .. m - 1  BY <4>2, <2>2
        <5>2. g[n] = f[n] /\ g[n - 1] = f[n - 1]  BY <4>2, <5>1
        <5> HIDE DEF g
        <5> QED  BY <5>1, <5>2, <3>3, <4>2
      <4>3. CASE n = m
        <5>1. m - 1 \in 0 .. m /\ m - 1 # m  BY <2>2, <2>4
        <5>2. g[m - 1] = f[m - 1] /\ g[m] = Delivered(c, f[m - 1], list[m])  BY <5>1
        <5> HIDE DEF g
        <5> QED  BY <5>2, <4>3, <2>4
      <4> QED  BY <4>1, <4>2, <4>3
    <3>5. Calls(g, m)
      <4>1. g = [n \in 0 .. m |-> g[n]]  OBVIOUS
      <4> HIDE DEF g
      <4> QED  BY <4>1, <3>4
    <3> QED  BY <3>5
  <2> QED  BY <2>3, <2>4
<1>3. PICK h : Calls(h, L)
  <2>1. L \in 0 .. L  BY <1>1
  <2> QED  BY <1>2, <2>1
<1> DEFINE f == CHOOSE f : Calls(f, L)
<1>4. Calls(f, L)
  <2> HIDE DEF Calls
  <2> QED  BY <1>3
<1>5. Shown(c, s, list) = f[L]  BY DEF Shown, L
<1>6. \A n \in 0 .. L : f[n] = IF n = 0 THEN s ELSE Delivered(c, f[n - 1], list[n])
  <2> HIDE DEF f
  <2> QED  BY <1>4
<1> HIDE DEF f
<1>7. f[0] = s  BY <1>6, <1>1
<1>8. \A n \in 1 .. L : f[n] = Delivered(c, f[n - 1], list[n])  BY <1>6, <1>1
<1> QED  BY <1>5, <1>7, <1>8 DEF L

\* The terminal message, after messages none of which was one.
LEMMA ToldTheEnd ==
  ASSUME NEW s \in Sink, NEW o \in Seq(Kinds), NEW t \in Terminal, NoEnd(o), Once(o)
  PROVE  /\ [s EXCEPT !.out = o \o <<t>>, !.open = FALSE] \in Sink
         /\ [s EXCEPT !.out = o \o <<t>>, !.open = FALSE].job = s.job
         /\ Over([s EXCEPT !.out = o \o <<t>>, !.open = FALSE], t)
<1> DEFINE p == o \o <<t>>
           w == [s EXCEPT !.out = p, !.open = FALSE]
<1>1. t \in Kinds /\ t # "completed"  BY DEF Kinds, Terminal
<1>2. /\ p \in Seq(Kinds) /\ Len(p) = Len(o) + 1 /\ p[Len(o) + 1] = t
      /\ \A i \in 1 .. Len(o) : p[i] = o[i]
  BY <1>1
<1> HIDE DEF p
<1>3. w \in Sink /\ w.job = s.job /\ w.out = p /\ ~w.open  BY <1>2 DEF Sink
<1> HIDE DEF w
<1>4. Len(o) \in Nat  OBVIOUS
<1>5. EndsWith(p, t)  BY <1>2, <1>4 DEF EndsWith, NoEnd
<1>6. Once(p)
  <2>1. \A i \in 1 .. Len(p) : p[i] = "completed" => i \in 1 .. Len(o) /\ o[i] = "completed"
    BY <1>1, <1>2, <1>4
  <2> QED  BY <2>1 DEF Once
<1> QED  BY <1>3, <1>5, <1>6 DEF Over, w, p

\* One event, told to a socket.
LEMMA TellsOne ==
  ASSUME NEW s \in Sink, Live(s), NEW e \in Kinds
  PROVE  LET r == Forwarded(s, e)
         IN  /\ r \in Sink /\ r.job = s.job
             /\ IF e \in Terminal THEN Over(r, e) ELSE Live(r)
<1> DEFINE r == Forwarded(s, e)
           progress == IF Contains(s.out, "completed") THEN << >> ELSE <<"completed">>
<1>1. s.out \in Seq(Kinds) /\ s.open /\ NoEnd(s.out) /\ Once(s.out)  BY DEF Live, Sink
<1>2. progress \in Seq(Kinds) /\ Len(progress) \in {0, 1}
      /\ \A i \in 1 .. Len(progress) :
           progress[i] = "completed" /\ \A k \in 1 .. Len(s.out) : s.out[k] # "completed"
  <2>1. CASE Contains(s.out, "completed")
    <3>1. progress = << >>  BY <2>1
    <3> QED  BY <3>1
  <2>2. CASE ~Contains(s.out, "completed")
    <3>1. progress = <<"completed">> /\ "completed" \in Kinds  BY <2>2 DEF Kinds
    <3>2. \A k \in 1 .. Len(s.out) : s.out[k] # "completed"  BY <2>2 DEF Contains
    <3> QED  BY <3>1, <3>2
  <2> QED  BY <2>1, <2>2
<1> HIDE DEF progress
<1>3. ASSUME NEW m \in Seq(Kinds), NEW o, NoEnd(m),
             \A i \in 1 .. Len(m) : m[i] = "completed" =>
                \A k \in 1 .. Len(s.out) : s.out[k] # "completed",
             Once(m), o = s.out \o m
      PROVE  o \in Seq(Kinds) /\ NoEnd(o) /\ Once(o)
  <2>1. /\ o \in Seq(Kinds) /\ Len(o) = Len(s.out) + Len(m)
        /\ \A i \in 1 .. Len(o) : o[i] = IF i <= Len(s.out) THEN s.out[i] ELSE m[i - Len(s.out)]
    BY <1>1, <1>3
  <2>2. Len(s.out) \in Nat /\ Len(m) \in Nat  BY <1>1, <1>3
  <2>3. \A i \in 1 .. Len(o) : \/ i \in 1 .. Len(s.out) /\ o[i] = s.out[i]
                               \/ i - Len(s.out) \in 1 .. Len(m) /\ o[i] = m[i - Len(s.out)] /\ i > Len(s.out)
    <3> TAKE i \in 1 .. Len(o)
    <3>1. CASE i <= Len(s.out)
      <4>1. i \in 1 .. Len(s.out)  BY <3>1, <2>2
      <4>2. o[i] = s.out[i]  BY <2>1, <3>1
      <4> QED  BY <4>1, <4>2
    <3>2. CASE i > Len(s.out)
      <4>1. i - Len(s.out) \in 1 .. Len(m)  BY <3>2, <2>1, <2>2
      <4>2. o[i] = m[i - Len(s.out)]  BY <3>2, <2>1, <2>2
      <4> QED  BY <4>1, <4>2, <3>2
    <3> QED  BY <3>1, <3>2, <2>2
  <2>4. NoEnd(o)  BY <2>3, <1>1, <1>3 DEF NoEnd
  <2>5. Once(o)
    <3> SUFFICES ASSUME NEW i \in 1 .. Len(o), NEW k \in 1 .. Len(o),
                        o[i] = "completed", o[k] = "completed"
                 PROVE  i = k
      BY DEF Once
    <3>1. CASE i <= Len(s.out) /\ k <= Len(s.out)
      <4>1. i \in 1 .. Len(s.out) /\ k \in 1 .. Len(s.out)  BY <2>2, <3>1
      <4> QED  BY <4>1, <2>1, <1>1, <3>1 DEF Once
    <3>2. CASE i > Len(s.out) /\ k > Len(s.out)
      <4>1. i - Len(s.out) \in 1 .. Len(m) /\ k - Len(s.out) \in 1 .. Len(m)
        BY <2>1, <2>2, <3>2
      <4>2. m[i - Len(s.out)] = "completed" /\ m[k - Len(s.out)] = "completed"
        <5>1. ~(i <= Len(s.out)) /\ ~(k <= Len(s.out))  BY <3>2, <2>2
        <5>2. o[i] = m[i - Len(s.out)] /\ o[k] = m[k - Len(s.out)]  BY <2>1, <5>1
        <5> QED  BY <5>2
      <4>3. i - Len(s.out) = k - Len(s.out)  BY <4>1, <4>2, <1>3 DEF Once
      <4> QED  BY <4>3, <2>2
    <3>3. CASE (i <= Len(s.out) /\ k > Len(s.out)) \/ (k <= Len(s.out) /\ i > Len(s.out))
      <4>1. ASSUME NEW a \in 1 .. Len(o), NEW b \in 1 .. Len(o), a <= Len(s.out), b > Len(s.out),
                   o[a] = "completed", o[b] = "completed"
            PROVE  FALSE
        <5>1. a \in 1 .. Len(s.out) /\ s.out[a] = "completed"  BY <2>1, <2>2, <4>1
        <5>2. b - Len(s.out) \in 1 .. Len(m) /\ m[b - Len(s.out)] = "completed"
          BY <2>1, <2>2, <4>1
        <5> QED  BY <5>1, <5>2, <1>3
      <4> QED  BY <4>1, <3>3
    <3> QED  BY <3>1, <3>2, <3>3, <2>2
  <2> QED  BY <2>1, <2>4, <2>5
<1>5. /\ NoEnd(progress) /\ Once(progress) /\ NoEnd(<< >>) /\ Once(<< >>)
      /\ \A i \in 1 .. Len(progress) : progress[i] = "completed" =>
           \A k \in 1 .. Len(s.out) : s.out[k] # "completed"
  <2>1. "completed" \notin Terminal  BY DEF Terminal
  <2> QED  BY <1>2, <2>1 DEF NoEnd, Once
<1>6. s.out \o progress \in Seq(Kinds) /\ NoEnd(s.out \o progress) /\ Once(s.out \o progress)
  BY <1>2, <1>3, <1>5
<1>7. CASE e = "task"
  <2>1. r = s /\ e \notin Terminal  BY <1>7 DEF Forwarded, Terminal
  <2> QED  BY <2>1
<1>8. CASE e = "JOB_FAILED"
  <2>1. r = [s EXCEPT !.out = s.out \o <<e>>, !.open = FALSE] /\ e \in Terminal
    BY <1>1, <1>8 DEF Forwarded, Forwarding, Closed, Sent, Sink, Terminal
  <2> HIDE DEF r
  <2>2. r \in Sink /\ r.job = s.job /\ Over(r, e)  BY <2>1, <1>1, ToldTheEnd
  <2> QED  BY <2>1, <2>2 DEF r
<1>9. CASE e = "JOB_COMPLETED"
  <2>1. r = [s EXCEPT !.out = (s.out \o progress) \o <<e>>, !.open = FALSE] /\ e \in Terminal
    <3>1. r = Closed(Sent(s, progress \o <<"JOB_COMPLETED">>))
      BY <1>1, <1>9 DEF Forwarded, Forwarding, progress
    <3>2. "JOB_COMPLETED" \in Kinds /\ "JOB_COMPLETED" \in Terminal  BY DEF Kinds, Terminal
    <3>3. s.out \o (progress \o <<"JOB_COMPLETED">>) = (s.out \o progress) \o <<"JOB_COMPLETED">>
      <4>1. <<"JOB_COMPLETED">> \in Seq(Kinds)  BY <3>2
      <4> DEFINE m == <<"JOB_COMPLETED">>
      <4> HIDE DEF m
      <4>2. \A x, y, z \in Seq(Kinds) : x \o (y \o z) = (x \o y) \o z
        BY ConcatAssociative
      <4>3. s.out \o (progress \o m) = (s.out \o progress) \o m
        BY <1>1, <1>2, <4>1, <4>2 DEF m
      <4> QED  BY <4>3 DEF m
    <3> QED  BY <3>1, <3>2, <3>3, <1>9 DEF Closed, Sent, Sink
  <2> HIDE DEF r
  <2>2. r \in Sink /\ r.job = s.job /\ Over(r, e)
    <3> DEFINE o == s.out \o progress
    <3>1. o \in Seq(Kinds) /\ NoEnd(o) /\ Once(o)  BY <1>6
    <3>2. r = [s EXCEPT !.out = o \o <<e>>, !.open = FALSE]  BY <2>1
    <3> HIDE DEF o
    <3>3. e \in Terminal  BY <2>1
    <3>4. /\ [s EXCEPT !.out = o \o <<e>>, !.open = FALSE] \in Sink
          /\ [s EXCEPT !.out = o \o <<e>>, !.open = FALSE].job = s.job
          /\ Over([s EXCEPT !.out = o \o <<e>>, !.open = FALSE], e)
      BY <3>1, <3>3, ToldTheEnd
    <3> QED  BY <3>2, <3>4
  <2> QED  BY <2>1, <2>2 DEF r
<1>10. ASSUME NEW o \in Seq(Kinds), NoEnd(o), Once(o)
       PROVE  [s EXCEPT !.out = o] \in Sink /\ Live([s EXCEPT !.out = o])
  BY <1>1, <1>10 DEF Sink, Live
<1>11. CASE e = "completed"
  <2>1. r = [s EXCEPT !.out = s.out \o progress] /\ e \notin Terminal
    BY <1>1, <1>11 DEF Forwarded, Forwarding, Sent, Terminal, progress
  <2>2. r \in Sink /\ Live(r)  BY <2>1, <1>6, <1>10
  <2> QED  BY <2>1, <2>2 DEF Sink
<1>12. CASE e \in {"JOB_STARTED", "stage"}
  <2>1. r = [s EXCEPT !.out = s.out \o <<e>>] /\ e \notin Terminal
    BY <1>1, <1>12 DEF Forwarded, Forwarding, Sent, Terminal
  <2>2. NoEnd(<<e>>) /\ Once(<<e>>) /\ <<e>> \in Seq(Kinds) /\ <<e>>[1] # "completed" /\ Len(<<e>>) = 1
    BY <2>1, <1>12 DEF NoEnd, Once
  <2>3. s.out \o <<e>> \in Seq(Kinds) /\ NoEnd(s.out \o <<e>>) /\ Once(s.out \o <<e>>)
    <3> DEFINE m == <<e>>
    <3>1. /\ m \in Seq(Kinds) /\ NoEnd(m) /\ Once(m)
          /\ \A i \in 1 .. Len(m) : m[i] # "completed"
      BY <2>2
    <3> HIDE DEF m
    <3>2. s.out \o m \in Seq(Kinds) /\ NoEnd(s.out \o m) /\ Once(s.out \o m)
      BY <3>1, <1>3
    <3> QED  BY <3>2 DEF m
  <2>4. r \in Sink /\ Live(r)  BY <2>1, <2>3, <1>10
  <2> QED  BY <2>1, <2>4 DEF Sink
<1> QED
  BY <1>7, <1>8, <1>9, <1>11, <1>12 DEF Kinds, Terminal

\* A socket that is told of its job stays so through events that are no end, and
\* has been told the end after one.
LEMMA SocketIsTold ==
  ASSUME NEW c \in Sockets, NEW s \in Sink, Live(s), NEW list \in Seq(Kinds),
         \A i \in 1 .. Len(list) : i # Len(list) => list[i] \notin Terminal
  PROVE  LET r == Shown(c, s, list)
         IN  /\ r \in Sink /\ r.job = s.job
             /\ NoEnd(list) => Live(r)
             /\ ~NoEnd(list) => Over(r, list[Len(list)])
<1> DEFINE L == Len(list)
<1>1. L \in Nat  OBVIOUS
<1>2. PICK f : /\ f[0] = s
               /\ \A n \in 1 .. L : f[n] = Delivered(c, f[n - 1], list[n])
               /\ Shown(c, s, list) = f[L]
  BY ShownStepwise
<1> HIDE DEF L
<1> DEFINE Fine(n) == /\ f[n] \in Sink /\ f[n].job = s.job
                      /\ IF n > 0 /\ list[n] \in Terminal THEN Over(f[n], list[n]) ELSE Live(f[n])
           Wrong == {n \in 0 .. L : ~Fine(n)}
<1>3. Wrong = {}
  <2> SUFFICES ASSUME Wrong # {} PROVE FALSE  OBVIOUS
  <2>1. PICK n \in Wrong : \A y \in Wrong : n <= y
    <3>1. Wrong \subseteq Nat  BY <1>1
    <3> HIDE DEF Wrong
    <3> QED  BY <3>1, LeastNatural
  <2>2. n \in 0 .. L /\ n \in Nat /\ ~Fine(n)  BY <1>1
  <2>3. n # 0  BY <1>2, <2>2
  <2>4. n - 1 \in 0 .. L /\ n \in 1 .. L /\ Fine(n - 1)  BY <2>1, <2>2, <2>3, <1>1
  <2>5. n - 1 > 0 => list[n - 1] \notin Terminal
    <3> SUFFICES ASSUME n - 1 > 0 PROVE list[n - 1] \notin Terminal  OBVIOUS
    <3>1. n - 1 \in 1 .. L /\ n - 1 # L  BY <2>2, <1>1
    <3> QED  BY <3>1 DEF L
  <2>6. f[n - 1] \in Sink /\ f[n - 1].job = s.job /\ Live(f[n - 1])  BY <2>4, <2>5
  <2>7. f[n] = Forwarded(f[n - 1], list[n])  BY <1>2, <2>4 DEF Delivered
  <2>8. list[n] \in Kinds  BY <2>4 DEF L
  <2> HIDE DEF Fine, Wrong
  <2>9. Fine(n)
    BY <2>6, <2>7, <2>8, <2>2, <2>3, TellsOne DEF Fine
  <2> QED  BY <2>9, <2>2
<1>4. Fine(L)  BY <1>3, <1>1
<1>5. NoEnd(list) <=> ~ (L > 0 /\ list[L] \in Terminal)  BY <1>1 DEF NoEnd, L
<1> QED  BY <1>2, <1>4, <1>5 DEF L

\* A stream is sent every event of the list, and closes after an end.
LEMMA StreamIsTold ==
  ASSUME NEW c, c \notin Sockets, NEW s \in Sink, NEW list \in Seq(Kinds),
         \A i \in 1 .. Len(list) : i # Len(list) => list[i] \notin Terminal
  PROVE  LET r == Shown(c, s, list)
         IN  /\ r \in Sink /\ r.job = s.job
             /\ r.open <=> s.open /\ NoEnd(list)
             /\ Len(r.out) = Len(s.out) + Len(list)
             /\ \A i \in 1 .. Len(s.out) : r.out[i] = s.out[i]
             /\ \A i \in 1 .. Len(list) : r.out[Len(s.out) + i] = list[i]
<1> DEFINE L == Len(list)
<1>1. L \in Nat /\ s.out \in Seq(Kinds) /\ Len(s.out) \in Nat  BY DEF Sink
<1>2. PICK f : /\ f[0] = s
               /\ \A n \in 1 .. L : f[n] = Delivered(c, f[n - 1], list[n])
               /\ Shown(c, s, list) = f[L]
  BY ShownStepwise
<1> HIDE DEF L
<1> DEFINE Fine(n) == /\ f[n] \in Sink /\ f[n].job = s.job
                      /\ f[n].open <=> s.open /\ ~ (n > 0 /\ list[n] \in Terminal)
                      /\ Len(f[n].out) = Len(s.out) + n
                      /\ \A i \in 1 .. Len(s.out) : f[n].out[i] = s.out[i]
                      /\ \A i \in 1 .. n : f[n].out[Len(s.out) + i] = list[i]
           Wrong == {n \in 0 .. L : ~Fine(n)}
<1>3. Wrong = {}
  <2> SUFFICES ASSUME Wrong # {} PROVE FALSE  OBVIOUS
  <2>1. PICK n \in Wrong : \A y \in Wrong : n <= y
    <3>1. Wrong \subseteq Nat  BY <1>1
    <3> HIDE DEF Wrong
    <3> QED  BY <3>1, LeastNatural
  <2>2. n \in 0 .. L /\ n \in Nat /\ ~Fine(n)  BY <1>1
  <2>3. n # 0
    <3> SUFFICES ASSUME n = 0 PROVE FALSE  OBVIOUS
    <3>1. Fine(0)  BY <1>1, <1>2
    <3> HIDE DEF Fine
    <3> QED  BY <3>1, <2>2
  <2>4. n - 1 \in 0 .. L /\ n \in 1 .. L /\ Fine(n - 1)
    <3>1. n - 1 \in 0 .. L /\ n \in 1 .. L /\ n - 1 < n  BY <2>2, <2>3, <1>1
    <3>2. n - 1 \notin Wrong
      <4> HIDE DEF Wrong
      <4> QED  BY <2>1, <2>2, <3>1
    <3> HIDE DEF Fine
    <3> QED  BY <3>1, <3>2
  <2>5. n - 1 > 0 => list[n - 1] \notin Terminal
    <3> SUFFICES ASSUME n - 1 > 0 PROVE list[n - 1] \notin Terminal  OBVIOUS
    <3>1. n - 1 \in 1 .. L /\ n - 1 # L  BY <2>2, <1>1
    <3> QED  BY <3>1 DEF L
  <2> DEFINE p == f[n - 1]
             e == list[n]
             w == p.out \o <<e>>
  <2>6. /\ p \in Sink /\ p.job = s.job /\ (p.open <=> s.open)
        /\ Len(p.out) = Len(s.out) + (n - 1)
        /\ \A i \in 1 .. Len(s.out) : p.out[i] = s.out[i]
        /\ \A i \in 1 .. n - 1 : p.out[Len(s.out) + i] = list[i]
    BY <2>4, <2>5
  <2>7. f[n] = Streamed(p, e) /\ e \in Kinds  BY <1>2, <2>4 DEF Delivered, L
  <2> HIDE DEF Fine, Wrong, p, e
  <2>8. /\ w \in Seq(Kinds) /\ Len(w) = Len(s.out) + n
        /\ \A i \in 1 .. Len(p.out) : w[i] = p.out[i]
        /\ w[Len(s.out) + n] = e
    <3>1. p.out \in Seq(Kinds)  BY <2>6 DEF Sink
    <3>2. w = Append(p.out, e)  BY <3>1, <2>7 DEF w
    <3>3. Len(p.out) + 1 = Len(s.out) + n  BY <2>6, <2>2, <1>1
    <3> HIDE DEF w
    <3> QED  BY <3>1, <3>2, <3>3, <2>7
  <2> HIDE DEF w
  <2>9. /\ \A i \in 1 .. Len(s.out) : w[i] = s.out[i]
        /\ \A i \in 1 .. n : w[Len(s.out) + i] = list[i]
    <3>1. \A i \in 1 .. Len(s.out) : w[i] = s.out[i]
      <4> TAKE i \in 1 .. Len(s.out)
      <4>1. i \in 1 .. Len(p.out)  BY <2>6, <2>2, <2>3, <1>1
      <4> QED  BY <4>1, <2>6, <2>8
    <3>2. \A i \in 1 .. n : w[Len(s.out) + i] = list[i]
      <4> TAKE i \in 1 .. n
      <4>1. CASE i = n  BY <4>1, <2>8 DEF e
      <4>2. CASE i # n
        <5>1. i \in 1 .. n - 1 /\ Len(s.out) + i \in 1 .. Len(p.out)  BY <4>2, <2>6, <2>2, <1>1
        <5> QED  BY <5>1, <2>6, <2>8
      <4> QED  BY <4>1, <4>2
    <3> QED  BY <3>1, <3>2
  <2>10. f[n] = IF e \in Terminal THEN [p EXCEPT !.out = w, !.open = FALSE] ELSE [p EXCEPT !.out = w]
    BY <2>7, <2>6 DEF Streamed, Sent, Closed, w, Sink
  <2>11. /\ f[n] \in Sink /\ f[n].job = p.job /\ f[n].out = w
         /\ f[n].open <=> p.open /\ e \notin Terminal
    <3>1. CASE e \in Terminal  BY <3>1, <2>6, <2>8, <2>10 DEF Sink
    <3>2. CASE e \notin Terminal  BY <3>2, <2>6, <2>8, <2>10 DEF Sink
    <3> QED  BY <3>1, <3>2
  <2>12. Fine(n)
    BY <2>2, <2>3, <2>6, <2>8, <2>9, <2>11 DEF Fine, e
  <2> QED  BY <2>12, <2>2
<1>4. Fine(L)
  <2>1. L \in 0 .. L  BY <1>1
  <2> HIDE DEF Fine
  <2> QED  BY <1>3, <2>1
<1>5. NoEnd(list) <=> ~ (L > 0 /\ list[L] \in Terminal)  BY <1>1 DEF NoEnd, L
<1> QED  BY <1>2, <1>4, <1>5 DEF L

-----------------------------------------------------------------------------
(* The invariant of histories and followers *)

VerdictOf(st) == IF st = "SUCCEEDED" THEN "JOB_COMPLETED" ELSE "JOB_FAILED"

\* The memories keep their bounds, and a record is of a job that was started.
Bounded ==
  /\ Len(kept) <= MaxJobs
  /\ \A j \in Records : status[j] # "none"
  /\ IsFiniteSet({q \in Requests : attempt[q].known})
  /\ Cardinality({q \in Requests : attempt[q].known}) <= MaxAttempts

\* A job that has not come to its end may still publish.
Undecided == \A j \in Jobs : step[j] \in {"queued", "working", "delivering"} => status[j] \notin Ended

\* The history that is kept is the end of all that was emitted, and the terminal
\* event is the last one, of a job that has ended, and the right one.
Told(j) ==
  /\ Len(events[j]) <= MaxEvents
  /\ SuffixOf(events[j], emitted[j])
  /\ IF status[j] \in Ended THEN EndsWith(emitted[j], VerdictOf(status[j])) ELSE NoEnd(emitted[j])

Histories ==
  /\ emitted \in [Jobs -> Seq(Kinds)]
  /\ events \in [Jobs -> Seq(Kinds)]
  /\ \A j \in Jobs : Told(j)

StreamShows(s, j) ==
  /\ SuffixOf(s.out, emitted[j])
  /\ Len(s.out) >= Len(events[j])
  /\ s.open <=> status[j] \notin Ended

SocketShows(s, j) ==
  IF status[j] \in Ended THEN Over(s, VerdictOf(status[j])) ELSE Live(s)

\* A follower has one job, which was started, and was told of it what it should.
FollowerFine(c) ==
  /\ sink[c] \in Sink
  /\ \A j, k \in sink[c].job : j = k
  /\ \A j \in sink[c].job :
       /\ status[j] # "none"
       /\ c \in Streams => StreamShows(sink[c], j)
       /\ c \in Sockets => SocketShows(sink[c], j)

Served ==
  /\ sink = [c \in Followers |-> sink[c]]
  /\ \A c \in Followers : FollowerFine(c)

FInv == IInv /\ Bounded /\ Undecided /\ Histories /\ Served

\* What #emit does to the history of the job.
LEMMA EmitTells ==
  ASSUME FInv, NEW j \in Jobs, status[j] \notin Ended, NEW new \in Seq(Kinds), Emit(j, new),
         NEW st \in {"QUEUED", "RUNNING"} \cup Ended, status' = [status EXCEPT ![j] = st],
         IF st \in Ended THEN EndsWith(new, VerdictOf(st)) ELSE NoEnd(new)
  PROVE  /\ Histories'
         /\ Len(events'[j]) <= Len(events[j]) + Len(new)
         /\ Len(emitted'[j]) = Len(emitted[j]) + Len(new)
         /\ \A i \in 1 .. Len(emitted[j]) : emitted'[j][i] = emitted[j][i]
         /\ \A i \in 1 .. Len(new) : emitted'[j][Len(emitted[j]) + i] = new[i]
<1> DEFINE old == emitted[j]
           all == old \o new
           held == events[j]
           more == held \o new
           kp == Capped(more)
<1>1. /\ emitted \in [Jobs -> Seq(Kinds)] /\ events \in [Jobs -> Seq(Kinds)]
      /\ status \in [Jobs -> {"none", "QUEUED", "RUNNING"} \cup Ended]
      /\ \A k \in Jobs : Told(k)
  BY DEF FInv, Histories, IInv, Shape
<1>2. /\ old \in Seq(Kinds) /\ held \in Seq(Kinds) /\ Told(j)
      /\ Len(old) \in Nat /\ Len(held) \in Nat /\ Len(new) \in Nat
  BY <1>1
<1>3. MaxEvents \in Nat \ {0}  BY DevJobsAssumption DEF DevJobsAssumption
<1>4. /\ emitted' = [emitted EXCEPT ![j] = all] /\ events' = [events EXCEPT ![j] = kp]
  BY DEF Emit
<1> HIDE DEF old, held
<1>5. /\ all \in Seq(Kinds) /\ Len(all) = Len(old) + Len(new)
      /\ \A i \in 1 .. Len(old) : all[i] = old[i]
      /\ \A i \in 1 .. Len(new) : all[Len(old) + i] = new[i]
  BY <1>2
<1>6. /\ more \in Seq(Kinds) /\ Len(more) = Len(held) + Len(new)
      /\ \A i \in 1 .. Len(held) : more[i] = held[i]
      /\ \A i \in 1 .. Len(new) : more[Len(held) + i] = new[i]
  BY <1>2
<1> HIDE DEF all, more
<1>7. Len(held) <= Len(old) /\ \A i \in 1 .. Len(held) : held[i] = old[Len(old) - Len(held) + i]
  BY <1>2 DEF Told, SuffixOf, old, held
<1>8. SuffixOf(more, all)
  <2> SUFFICES ASSUME NEW i \in 1 .. Len(more) PROVE more[i] = all[Len(all) - Len(more) + i]
    BY <1>2, <1>5, <1>6, <1>7 DEF SuffixOf
  <2>1. Len(all) - Len(more) = Len(old) - Len(held)  BY <1>2, <1>5, <1>6
  <2>2. CASE i \in 1 .. Len(held)
    <3>1. Len(old) - Len(held) + i \in 1 .. Len(old)  BY <1>2, <1>7, <2>2
    <3> QED  BY <2>1, <2>2, <3>1, <1>5, <1>6, <1>7
  <2>3. CASE i \notin 1 .. Len(held)
    <3>1. i - Len(held) \in 1 .. Len(new)  BY <2>3, <1>2, <1>6
    <3>2. more[Len(held) + (i - Len(held))] = new[i - Len(held)]  BY <3>1, <1>6
    <3>3. all[Len(old) + (i - Len(held))] = new[i - Len(held)]  BY <3>1, <1>5
    <3>4. Len(held) + (i - Len(held)) = i /\ Len(old) + (i - Len(held)) = Len(old) - Len(held) + i
      BY <1>2, <1>6
    <3> QED  BY <2>1, <3>2, <3>3, <3>4
  <2> QED  BY <2>2, <2>3
<1>9. /\ kp \in Seq(Kinds) /\ Len(kp) <= MaxEvents /\ Len(kp) <= Len(more)
      /\ \A i \in 1 .. Len(kp) : kp[i] = more[Len(more) - Len(kp) + i]
  <2>1. CASE Len(more) > MaxEvents
    <3> DEFINE a == Len(more) - MaxEvents + 1
    <3>1. kp = SubSeq(more, a, Len(more)) /\ a \in 1 .. Len(more) /\ Len(more) \in Nat
      BY <2>1, <1>3, <1>6, <1>2 DEF Capped
    <3>2. \A i \in a .. Len(more) : more[i] \in Kinds  BY <1>6, <3>1
    <3> HIDE DEF kp
    <3>3. kp \in Seq(Kinds) /\ Len(kp) = MaxEvents
      BY <3>1, <3>2, <1>6, <1>3, SubSeqProperties
    <3>4. \A i \in 1 .. Len(kp) : kp[i] = more[a + i - 1]
      BY <3>1, <3>2, <3>3, <1>6, <1>3, SubSeqProperties
    <3>5. \A i \in 1 .. Len(kp) : a + i - 1 = Len(more) - Len(kp) + i  BY <3>1, <3>3, <1>3
    <3> QED  BY <3>1, <3>3, <3>4, <3>5, <2>1, <1>3
  <2>2. CASE ~ (Len(more) > MaxEvents)
    <3>1. kp = more  BY <2>2 DEF Capped
    <3> HIDE DEF kp
    <3> QED  BY <3>1, <2>2, <1>6, <1>2, <1>3
  <2> QED  BY <2>1, <2>2
<1> HIDE DEF kp
<1>10. SuffixOf(kp, all)
  <2> SUFFICES ASSUME NEW i \in 1 .. Len(kp) PROVE kp[i] = all[Len(all) - Len(kp) + i]
    BY <1>2, <1>5, <1>6, <1>8, <1>9 DEF SuffixOf
  <2>0. Len(kp) \in Nat /\ Len(more) \in Nat /\ Len(all) \in Nat  BY <1>9, <1>6, <1>5
  <2>1. Len(more) - Len(kp) + i \in 1 .. Len(more)  BY <2>0, <1>9
  <2>2. more[Len(more) - Len(kp) + i] = all[Len(all) - Len(more) + (Len(more) - Len(kp) + i)]
    BY <2>1, <1>8 DEF SuffixOf
  <2>3. Len(all) - Len(more) + (Len(more) - Len(kp) + i) = Len(all) - Len(kp) + i  BY <2>0
  <2> QED  BY <1>9, <2>2, <2>3
<1>11. IF st \in Ended THEN EndsWith(all, VerdictOf(st)) ELSE NoEnd(all)
  <2>1. \A i \in 1 .. Len(old) : all[i] \notin Terminal
    BY <1>2, <1>5 DEF Told, NoEnd, old
  <2>2. \A i \in 1 .. Len(all) : i \notin 1 .. Len(old) =>
          i - Len(old) \in 1 .. Len(new) /\ all[i] = new[i - Len(old)]
    <3> SUFFICES ASSUME NEW i \in 1 .. Len(all), i \notin 1 .. Len(old)
                 PROVE  i - Len(old) \in 1 .. Len(new) /\ all[i] = new[i - Len(old)]
      OBVIOUS
    <3>1. i - Len(old) \in 1 .. Len(new)  BY <1>2, <1>5
    <3>2. Len(old) + (i - Len(old)) = i  BY <1>2
    <3> QED  BY <3>1, <3>2, <1>5
  <2>3. CASE st \in Ended
    <3>1. Len(new) > 0 /\ new[Len(new)] = VerdictOf(st)
          /\ \A i \in 1 .. Len(new) : i # Len(new) => new[i] \notin Terminal
      BY <2>3 DEF EndsWith
    <3>2. Len(all) > 0 /\ all[Len(all)] = VerdictOf(st)
      <4>1. Len(new) \in 1 .. Len(new)  BY <3>1, <1>2
      <4> QED  BY <3>1, <4>1, <1>2, <1>5
    <3>3. ASSUME NEW i \in 1 .. Len(all), i # Len(all) PROVE all[i] \notin Terminal
      <4>1. CASE i \in 1 .. Len(old)  BY <2>1, <4>1
      <4>2. CASE i \notin 1 .. Len(old)
        <5>1. i - Len(old) # Len(new)  BY <3>3, <1>2, <1>5
        <5> QED  BY <5>1, <4>2, <2>2, <3>1
      <4> QED  BY <4>1, <4>2
    <3> QED  BY <2>3, <3>2, <3>3 DEF EndsWith
  <2>4. CASE st \notin Ended
    <3>1. \A i \in 1 .. Len(new) : new[i] \notin Terminal  BY <2>4 DEF NoEnd
    <3> QED  BY <2>1, <2>2, <2>4, <3>1 DEF NoEnd
  <2> QED  BY <2>3, <2>4
<1>12. Histories'
  <2>1. emitted' \in [Jobs -> Seq(Kinds)] /\ events' \in [Jobs -> Seq(Kinds)]
    BY <1>1, <1>4, <1>5, <1>9
  <2>2. ASSUME NEW k \in Jobs PROVE Told(k)'
    <3>1. CASE k = j
      <4>1. emitted'[k] = all /\ events'[k] = kp /\ status'[k] = st  BY <3>1, <1>1, <1>4
      <4>2. /\ Len(kp) <= MaxEvents /\ SuffixOf(kp, all)
            /\ IF st \in Ended THEN EndsWith(all, VerdictOf(st)) ELSE NoEnd(all)
        BY <1>9, <1>10, <1>11
      <4> QED  BY <4>1, <4>2 DEF Told
    <3>2. CASE k # j
      <4>1. emitted'[k] = emitted[k] /\ events'[k] = events[k] /\ status'[k] = status[k]
        BY <3>2, <1>1, <1>4
      <4>2. Told(k)  BY <1>1
      <4> QED  BY <4>1, <4>2 DEF Told
    <3> QED  BY <3>1, <3>2
  <2> QED  BY <2>1, <2>2 DEF Histories
<1>13. emitted'[j] = all /\ events'[j] = kp  BY <1>1, <1>4
<1> QED  BY <1>5, <1>6, <1>9, <1>12, <1>13 DEF old, held

\* What #emit shows the followers of the job.
LEMMA EmitServes ==
  ASSUME FInv, NEW j \in Jobs, status[j] \notin Ended, NEW new \in Seq(Kinds), Emit(j, new),
         NEW st \in {"QUEUED", "RUNNING"} \cup Ended, status' = [status EXCEPT ![j] = st],
         IF st \in Ended THEN EndsWith(new, VerdictOf(st)) ELSE NoEnd(new)
  PROVE  Served'
<1>1. /\ Histories'
      /\ Len(events'[j]) <= Len(events[j]) + Len(new)
      /\ Len(emitted'[j]) = Len(emitted[j]) + Len(new)
      /\ \A i \in 1 .. Len(emitted[j]) : emitted'[j][i] = emitted[j][i]
      /\ \A i \in 1 .. Len(new) : emitted'[j][Len(emitted[j]) + i] = new[i]
  BY EmitTells
<1>2. /\ emitted \in [Jobs -> Seq(Kinds)] /\ events \in [Jobs -> Seq(Kinds)]
      /\ status \in [Jobs -> {"none", "QUEUED", "RUNNING"} \cup Ended]
      /\ emitted' \in [Jobs -> Seq(Kinds)] /\ events' \in [Jobs -> Seq(Kinds)]
  BY <1>1 DEF FInv, Histories, IInv, Shape
<1>3. sink' = [c \in Followers |-> IF sink[c].open /\ j \in sink[c].job
                                   THEN Shown(c, sink[c], new) ELSE sink[c]]
  BY DEF Emit
<1>4. \A k \in Jobs : k # j => /\ status'[k] = status[k] /\ emitted'[k] = emitted[k]
                               /\ events'[k] = events[k]
  BY <1>2 DEF Emit
<1>5. status'[j] = st /\ (st \in Ended => ~NoEnd(new)) /\ (st \notin Ended => NoEnd(new))
  <2>1. st \in Ended => VerdictOf(st) \in Terminal  BY DEF VerdictOf, Terminal
  <2>2. Len(new) > 0 => Len(new) \in 1 .. Len(new)  OBVIOUS
  <2> QED  BY <1>2, <2>1, <2>2 DEF EndsWith, NoEnd
<1>6. \A i \in 1 .. Len(new) : i # Len(new) => new[i] \notin Terminal
  BY DEF EndsWith, NoEnd
<1>7. Len(events[j]) \in Nat /\ Len(emitted[j]) \in Nat /\ Len(new) \in Nat
      /\ Len(events'[j]) \in Nat /\ Len(emitted'[j]) \in Nat
  BY <1>2
<1>8. ASSUME NEW c \in Followers PROVE FollowerFine(c)'
  <2> DEFINE s == sink[c]
  <2>1. FollowerFine(c)  BY DEF FInv, Served
  <2>2. s \in Sink /\ \A k, l \in s.job : k = l  BY <2>1 DEF FollowerFine
  <2>3. CASE ~ (s.open /\ j \in s.job)
    <3>1. sink'[c] = s  BY <1>3, <2>3
    <3>2. ASSUME NEW k \in s.job
          PROVE  /\ status'[k] # "none"
                 /\ c \in Streams => StreamShows(s, k)'
                 /\ c \in Sockets => SocketShows(s, k)'
      <4>1. k \in Jobs  BY <2>2 DEF Sink
      <4>2. /\ status[k] # "none"
            /\ c \in Streams => StreamShows(s, k)
            /\ c \in Sockets => SocketShows(s, k)
        BY <2>1 DEF FollowerFine
      <4>3. k # j
        <5> SUFFICES ASSUME k = j PROVE FALSE  OBVIOUS
        <5>1. ~s.open  BY <2>3
        <5>2. c \notin Streams  BY <4>2, <5>1 DEF StreamShows
        <5>3. c \notin Sockets  BY <4>2, <5>1 DEF SocketShows, Live
        <5> QED  BY <5>2, <5>3 DEF Followers
      <4> QED  BY <4>1, <4>2, <4>3, <1>4, <3>1 DEF StreamShows, SocketShows
    <3> QED  BY <2>2, <3>1, <3>2 DEF FollowerFine
  <2>4. CASE s.open /\ j \in s.job
    <3> DEFINE r == Shown(c, s, new)
    <3>1. sink'[c] = r  BY <1>3, <2>4
    <3>2. status[j] # "none" /\ status'[j] # "none"
      BY <2>1, <2>4, <1>5 DEF FollowerFine, Ended
    <3>3. CASE c \in Sockets
      <4>1. c \notin Streams  BY <3>3, DevJobsAssumption DEF DevJobsAssumption
      <4>2. Live(s)  BY <2>1, <2>4, <3>3 DEF FollowerFine, SocketShows
      <4>3. /\ r \in Sink /\ r.job = s.job
            /\ NoEnd(new) => Live(r)
            /\ ~NoEnd(new) => Over(r, new[Len(new)])
        BY <3>3, <2>2, <4>2, <1>6, SocketIsTold
      <4>4. st \in Ended => new[Len(new)] = VerdictOf(st)  BY DEF EndsWith
      <4> HIDE DEF r
      <4>5. SocketShows(sink[c], j)'  BY <3>1, <4>3, <4>4, <1>5 DEF SocketShows
      <4>6. \A k \in r.job : k = j  BY <2>2, <2>4, <4>3
      <4> QED  BY <2>2, <3>1, <3>2, <4>1, <4>3, <4>5, <4>6 DEF FollowerFine
    <3>4. CASE c \notin Sockets
      <4>1. c \in Streams  BY <3>4 DEF Followers
      <4>2. StreamShows(s, j)  BY <2>1, <2>4, <4>1 DEF FollowerFine
      <4>3. /\ r \in Sink /\ r.job = s.job
            /\ r.open <=> s.open /\ NoEnd(new)
            /\ Len(r.out) = Len(s.out) + Len(new)
            /\ \A i \in 1 .. Len(s.out) : r.out[i] = s.out[i]
            /\ \A i \in 1 .. Len(new) : r.out[Len(s.out) + i] = new[i]
        <5>1. s \in Sink /\ c \notin Sockets  BY <2>2, <3>4
        <5>2. \A p \in Sink :
                LET q == Shown(c, p, new)
                IN  /\ q \in Sink /\ q.job = p.job
                    /\ q.open <=> p.open /\ NoEnd(new)
                    /\ Len(q.out) = Len(p.out) + Len(new)
                    /\ \A i \in 1 .. Len(p.out) : q.out[i] = p.out[i]
                    /\ \A i \in 1 .. Len(new) : q.out[Len(p.out) + i] = new[i]
          BY <3>4, <1>6, StreamIsTold
        <5> HIDE DEF s
        <5> QED  BY <5>1, <5>2
      <4> HIDE DEF r
      <4>4. Len(s.out) \in Nat /\ Len(r.out) \in Nat  BY <2>2, <4>3 DEF Sink
      <4>5. Len(r.out) >= Len(events'[j])  BY <4>2, <4>3, <4>4, <1>1, <1>7 DEF StreamShows
      <4>6. SuffixOf(r.out, emitted'[j])
        <5>1. /\ Len(s.out) <= Len(emitted[j])
              /\ \A i \in 1 .. Len(s.out) : s.out[i] = emitted[j][Len(emitted[j]) - Len(s.out) + i]
          BY <4>2 DEF StreamShows, SuffixOf
        <5>2. ASSUME NEW i \in 1 .. Len(r.out)
              PROVE  r.out[i] = emitted'[j][Len(emitted'[j]) - Len(r.out) + i]
          <6>1. Len(emitted'[j]) - Len(r.out) = Len(emitted[j]) - Len(s.out)
            BY <4>3, <4>4, <1>1, <1>7
          <6>2. CASE i \in 1 .. Len(s.out)
            <7> DEFINE d == Len(emitted[j]) - Len(s.out) + i
            <7>1. d \in 1 .. Len(emitted[j])
              <8>1. \A a, b \in Nat : \A n \in 1 .. b : b <= a => a - b + n \in 1 .. a  OBVIOUS
              <8> QED  BY <8>1, <6>2, <5>1, <4>4, <1>7
            <7>2. s.out[i] = emitted[j][d]  BY <6>2, <5>1
            <7>3. Len(emitted'[j]) - Len(r.out) + i = d  BY <6>1
            <7> HIDE DEF d
            <7>4. emitted'[j][d] = emitted[j][d]  BY <7>1, <1>1
            <7>5. r.out[i] = s.out[i]  BY <6>2, <4>3
            <7> QED  BY <7>2, <7>3, <7>4, <7>5
          <6>3. CASE i \notin 1 .. Len(s.out)
            <7> DEFINE d == i - Len(s.out)
            <7>1. d \in 1 .. Len(new) /\ Len(s.out) + d = i
                  /\ Len(emitted[j]) + d = Len(emitted[j]) - Len(s.out) + i
              BY <6>3, <4>3, <4>4, <1>7
            <7> HIDE DEF d
            <7>2. r.out[Len(s.out) + d] = new[d] /\ emitted'[j][Len(emitted[j]) + d] = new[d]
              BY <7>1, <4>3, <1>1
            <7> QED  BY <7>1, <7>2, <6>1
          <6> QED  BY <6>2, <6>3
        <5>3. Len(r.out) <= Len(emitted'[j])
          <6>1. Len(s.out) <= Len(emitted[j]) /\ Len(r.out) = Len(s.out) + Len(new)
                /\ Len(emitted'[j]) = Len(emitted[j]) + Len(new)
            BY <5>1, <4>3, <1>1
          <6> QED  BY <6>1, <4>4, <1>7
        <5> QED  BY <5>2, <5>3 DEF SuffixOf
      <4>7. r.open <=> st \notin Ended  BY <4>3, <2>4, <1>5
      <4>8. StreamShows(sink[c], j)'
        BY <3>1, <4>5, <4>6, <4>7, <1>5 DEF StreamShows
      <4>9. \A k \in r.job : k = j  BY <2>2, <2>4, <4>3
      <4> QED  BY <2>2, <3>1, <3>2, <3>4, <4>3, <4>8, <4>9 DEF FollowerFine
    <3> QED  BY <3>3, <3>4
  <2> QED  BY <2>3, <2>4
<1>9. sink' = [c \in Followers |-> sink'[c]]  BY <1>3
<1> QED  BY <1>8, <1>9 DEF Served

\* A follower of a job is not disturbed when nothing is published and no job ends.
LEMMA QuietServes ==
  ASSUME FInv, UNCHANGED <<events, emitted, sink>>,
         \A j \in Jobs : /\ status'[j] \in Ended \/ status[j] \in Ended => status'[j] = status[j]
                         /\ status[j] # "none" => status'[j] # "none"
  PROVE  Histories' /\ Served'
<1>1. Histories /\ Served  BY DEF FInv
<1>2. \A j \in Jobs : Told(j)'
  <2> TAKE j \in Jobs
  <2>1. Told(j)  BY <1>1 DEF Histories
  <2> QED  BY <2>1 DEF Told
<1>3. \A c \in Followers : FollowerFine(c)'
  <2> TAKE c \in Followers
  <2>1. FollowerFine(c)  BY <1>1 DEF Served
  <2>2. sink'[c] = sink[c] /\ sink[c].job \subseteq Jobs  BY <2>1 DEF FollowerFine, Sink
  <2>3. ASSUME NEW j \in sink[c].job
        PROVE  /\ status'[j] # "none"
               /\ c \in Streams => StreamShows(sink[c], j)'
               /\ c \in Sockets => SocketShows(sink[c], j)'
    <3>1. /\ status[j] # "none"
          /\ c \in Streams => StreamShows(sink[c], j)
          /\ c \in Sockets => SocketShows(sink[c], j)
      BY <2>1 DEF FollowerFine
    <3>2. j \in Jobs  BY <2>2
    <3> QED  BY <2>2, <3>1, <3>2 DEF StreamShows, SocketShows
  <2> QED  BY <2>1, <2>2, <2>3 DEF FollowerFine
<1> QED  BY <1>1, <1>2, <1>3 DEF Histories, Served

LEMMA FInvInit == Init => FInv
<1> SUFFICES ASSUME Init PROVE FInv  OBVIOUS
<1>1. IInv  BY IInvInit
<1>2. Bounded
  <2>1. {q \in Requests : attempt[q].known} = {}  BY DEF Init
  <2>2. Len(kept) = 0 /\ Records = {}  BY DEF Init, Records
  <2>3. MaxJobs \in Nat /\ MaxAttempts \in Nat  BY DevJobsAssumption DEF DevJobsAssumption
  <2> QED  BY <2>1, <2>2, <2>3, FS_EmptySet DEF Bounded
<1>3. Undecided  BY DEF Undecided, Init
<1>4. Histories
  <2>1. /\ \A j \in Jobs : events[j] = << >> /\ emitted[j] = << >> /\ status[j] = "none"
        /\ events = [j \in Jobs |-> << >>] /\ emitted = [j \in Jobs |-> << >>]
    BY DEF Init
  <2>2. MaxEvents \in Nat  BY DevJobsAssumption DEF DevJobsAssumption
  <2>3. << >> \in Seq(Kinds) /\ Len(<< >>) = 0  OBVIOUS
  <2>4. \A j \in Jobs : Told(j)
    BY <2>1, <2>2, <2>3 DEF Told, SuffixOf, NoEnd, Ended
  <2>5. events \in [Jobs -> Seq(Kinds)] /\ emitted \in [Jobs -> Seq(Kinds)]
    BY <2>1, <2>3
  <2> QED  BY <2>4, <2>5 DEF Histories
<1>5. Served
  <2>1. sink = [c \in Followers |-> [job |-> {}, open |-> FALSE, out |-> << >>]]  BY DEF Init
  <2>2. \A c \in Followers : sink[c] = [job |-> {}, open |-> FALSE, out |-> << >>]  BY <2>1
  <2>3. [job |-> {}, open |-> FALSE, out |-> << >>] \in Sink
    <3>1. << >> \in Seq(Kinds)  OBVIOUS
    <3> QED  BY <3>1 DEF Sink
  <2>4. \A c \in Followers : sink[c] \in Sink /\ sink[c].job = {}  BY <2>2, <2>3
  <2> QED  BY <2>1, <2>2, <2>4 DEF Served, FollowerFine
<1> QED  BY <1>1, <1>2, <1>3, <1>4, <1>5 DEF FInv

\* Memories that stay as they are keep their bounds.
LEMMA SameMemories ==
  ASSUME FInv, UNCHANGED kept, \A q \in Requests : attempt'[q].known = attempt[q].known,
         \A j \in Jobs : status[j] # "none" => status'[j] # "none"
  PROVE  Bounded'
<1>1. Records' = Records /\ Records \subseteq Jobs  BY DEF Records, FInv, IInv, Shape
<1>2. {q \in Requests : attempt'[q].known} = {q \in Requests : attempt[q].known}  OBVIOUS
<1> QED  BY <1>1, <1>2 DEF FInv, Bounded

LEMMA StartTells ==
  ASSUME FInv, IInv', NEW j \in Jobs, NEW why, Start(j, why)
  PROVE  /\ Len(kept') <= MaxJobs /\ \A k \in Records' : status'[k] # "none"
         /\ Undecided' /\ Histories' /\ Served'
<1>1. /\ status[j] = "none"
      /\ status' = [status EXCEPT ![j] = "QUEUED"]
      /\ step' = [step EXCEPT ![j] = "queued"]
      /\ Emit(j, <<"JOB_STARTED">>)
  BY DEF Start
<1>2. /\ status \in [Jobs -> {"none", "QUEUED", "RUNNING"} \cup Ended]
      /\ step \in [Jobs -> Steps] /\ kept \in Seq(Jobs)
  BY DEF FInv, IInv, Shape
<1>3. /\ Len(kept') <= MaxJobs
      /\ \A k \in Records' : k = j \/ k \in Records
  <2>1. PICK old \in Dropped : kept' = Append(SubSeq(kept, old + 1, Len(kept)), j)
    BY DEF Start
  <2> DEFINE rest == SubSeq(kept, old + 1, Len(kept))
  <2>2. old \in 0 .. Len(kept) /\ Len(kept) - old < MaxJobs /\ Len(kept) \in Nat /\ MaxJobs \in Nat
    BY <2>1, <1>2, DevJobsAssumption DEF Dropped, DevJobsAssumption
  <2>3. /\ rest \in Seq(Jobs) /\ Len(rest) = Len(kept) - old
        /\ \A i \in 1 .. Len(rest) : rest[i] = kept[old + i]
    <3>1. \A i \in old + 1 .. Len(kept) : kept[i] \in Jobs  BY <1>2, <2>2
    <3>2. \A i \in 1 .. Len(rest) : rest[i] = kept[old + 1 + i - 1]
      BY <3>1, <1>2, <2>2, SubSeqProperties
    <3>3. rest \in Seq(Jobs) /\ Len(rest) = Len(kept) - old
      BY <3>1, <1>2, <2>2, SubSeqProperties
    <3> HIDE DEF rest
    <3> QED  BY <3>2, <3>3, <2>2
  <2> HIDE DEF rest
  <2>4. Len(kept') = Len(rest) + 1 /\ kept' = Append(rest, j)  BY <2>1, <2>3 DEF rest
  <2>5. Len(kept') <= MaxJobs  BY <2>2, <2>3, <2>4
  <2>6. ASSUME NEW i \in DOMAIN kept' PROVE kept'[i] = j \/ kept'[i] \in Records
    <3>1. CASE i \in 1 .. Len(rest)
      <4>1. kept'[i] = kept[old + i]  BY <3>1, <2>3, <2>4
      <4>2. old + i \in DOMAIN kept  BY <3>1, <2>2, <2>3, <1>2
      <4> QED  BY <4>1, <4>2 DEF Records
    <3>2. CASE i \notin 1 .. Len(rest)
      <4>1. i = Len(rest) + 1  BY <3>2, <2>3, <2>4
      <4> QED  BY <4>1, <2>3, <2>4
    <3> QED  BY <3>1, <3>2
  <2> QED  BY <2>5, <2>6 DEF Records
<1>4. \A k \in Records' : status'[k] # "none"
  <2>1. Records \subseteq Jobs  BY <1>2 DEF Records
  <2>2. \A k \in Records : status[k] # "none"  BY DEF FInv, Bounded
  <2> QED  BY <1>1, <1>2, <1>3, <2>1, <2>2
<1>5. Undecided'
  <2> SUFFICES ASSUME NEW k \in Jobs, step'[k] \in {"queued", "working", "delivering"}
               PROVE  status'[k] \notin Ended
    BY DEF Undecided
  <2>1. CASE k = j  BY <2>1, <1>1, <1>2 DEF Ended
  <2>2. CASE k # j  BY <2>2, <1>1, <1>2 DEF FInv, Undecided
  <2> QED  BY <2>1, <2>2
<1>6. Histories' /\ Served'
  <2> DEFINE new == <<"JOB_STARTED">>
  <2>1. new \in Seq(Kinds) /\ NoEnd(new)  BY DEF Kinds, NoEnd, Terminal
  <2>2. status[j] \notin Ended /\ "QUEUED" \notin Ended  BY <1>1 DEF Ended
  <2>3. Emit(j, new)  BY <1>1
  <2> HIDE DEF new
  <2> QED  BY <1>1, <2>1, <2>2, <2>3, EmitTells, EmitServes
<1> QED  BY <1>3, <1>4, <1>5, <1>6

\* A step that publishes, of a job that has not ended.
LEMMA PublishTells ==
  ASSUME FInv, NEW j \in Jobs, step[j] \in {"working", "delivering"},
         NEW new \in Seq(Kinds), Emit(j, new),
         NEW st \in {"QUEUED", "RUNNING"} \cup Ended, status' = [status EXCEPT ![j] = st],
         IF st \in Ended THEN EndsWith(new, VerdictOf(st)) ELSE NoEnd(new),
         NEW to, step' = [step EXCEPT ![j] = to], st \in Ended => to = "settling",
         UNCHANGED kept, \A q \in Requests : attempt'[q].known = attempt[q].known
  PROVE  Bounded' /\ Undecided' /\ Histories' /\ Served'
<1>1. /\ status \in [Jobs -> {"none", "QUEUED", "RUNNING"} \cup Ended] /\ step \in [Jobs -> Steps]
  BY DEF FInv, IInv, Shape
<1>2. status[j] \notin Ended  BY DEF FInv, Undecided
<1>3. Histories' /\ Served'  BY <1>2, EmitTells, EmitServes
<1>4. \A k \in Jobs : status[k] # "none" => status'[k] # "none"  BY <1>1 DEF Ended
<1>5. Bounded'  BY <1>4, SameMemories
<1>6. Undecided'
  <2> SUFFICES ASSUME NEW k \in Jobs, step'[k] \in {"queued", "working", "delivering"}
               PROVE  status'[k] \notin Ended
    BY DEF Undecided
  <2>1. CASE k = j  BY <2>1, <1>1
  <2>2. CASE k # j  BY <2>2, <1>1 DEF FInv, Undecided
  <2> QED  BY <2>1, <2>2
<1> QED  BY <1>3, <1>5, <1>6

LEMMA WorkflowTells ==
  ASSUME FInv, NEW j \in Jobs, Workflow(j)
  PROVE  Bounded' /\ Undecided' /\ Histories' /\ Served'
<1>1. /\ status \in [Jobs -> {"none", "QUEUED", "RUNNING"} \cup Ended] /\ step \in [Jobs -> Steps]
      /\ emitted \in [Jobs -> Seq(Kinds)]
      /\ attempt \in [Requests -> [known : BOOLEAN, job : SUBSET Jobs, result : BOOLEAN]]
  BY DEF FInv, IInv, Shape, Histories
<1>2. CASE Run(j)
  <2>1. /\ step[j] = "queued" /\ status' = [status EXCEPT ![j] = "RUNNING"]
        /\ UNCHANGED <<events, emitted, sink, kept, attempt>>
        /\ \E to \in {"delivering", "working"} : step' = [step EXCEPT ![j] = to]
    BY <1>2 DEF Run
  <2>2. status[j] \notin Ended  BY <2>1 DEF FInv, Undecided
  <2>3. \A k \in Jobs : /\ status'[k] \in Ended \/ status[k] \in Ended => status'[k] = status[k]
                        /\ status[k] # "none" => status'[k] # "none"
    BY <1>1, <2>1, <2>2 DEF Ended
  <2>4. Histories' /\ Served'  BY <2>1, <2>3, QuietServes
  <2>5. Bounded'  BY <2>1, <2>3, SameMemories
  <2>6. Undecided'
    <3> SUFFICES ASSUME NEW k \in Jobs, step'[k] \in {"queued", "working", "delivering"}
                 PROVE  status'[k] \notin Ended
      BY DEF Undecided
    <3>1. CASE k = j  BY <3>1, <2>1, <1>1 DEF Ended
    <3>2. CASE k # j  BY <3>2, <2>1, <1>1 DEF FInv, Undecided
    <3> QED  BY <3>1, <3>2
  <2> QED  BY <2>4, <2>5, <2>6
<1>3. CASE Update(j)
  <2>1. step[j] = "working" /\ UNCHANGED <<status, step, kept, attempt>>  BY <1>3 DEF Update, History
  <2>2. PICK e \in {"task", "stage"} : Emit(j, <<e>>)  BY <1>3 DEF Update
  <2> DEFINE new == <<e>>
  <2>3. new \in Seq(Kinds) /\ NoEnd(new) /\ Emit(j, new)  BY <2>2 DEF Kinds, NoEnd, Terminal
  <2>4. /\ status' = [status EXCEPT ![j] = status[j]] /\ status[j] \notin Ended
        /\ step' = [step EXCEPT ![j] = "working"]
    BY <2>1, <1>1 DEF FInv, Undecided
  <2>5. status[j] \in {"QUEUED", "RUNNING"} \cup Ended
    <3>1. status[j] # "none"  BY <2>1 DEF FInv, IInv, Fresh
    <3> QED  BY <3>1, <1>1
  <2> HIDE DEF new
  <2> QED  BY <2>1, <2>3, <2>4, <2>5, PublishTells
<1>4. CASE WorkflowReturns(j)
  <2> DEFINE new == IF j \in Edits THEN << >> ELSE <<"completed">>
  <2>1. /\ step[j] = "working" /\ Emit(j, new) /\ UNCHANGED <<kept, status>>
        /\ step' = [step EXCEPT ![j] = "delivering"]
        /\ attempt' = [q \in Requests |-> [attempt[q] EXCEPT !.result = @ \/ q \in request[j]]]
    BY <1>4 DEF WorkflowReturns
  <2>2. new \in Seq(Kinds) /\ NoEnd(new)
    <3>1. CASE j \in Edits
      <4>1. new = << >>  BY <3>1
      <4> HIDE DEF new
      <4> QED  BY <4>1 DEF NoEnd
    <3>2. CASE j \notin Edits
      <4>1. new = <<"completed">>  BY <3>2
      <4> HIDE DEF new
      <4> QED  BY <4>1 DEF NoEnd, Kinds, Terminal
    <3> QED  BY <3>1, <3>2
  <2> HIDE DEF new
  <2>3. /\ status' = [status EXCEPT ![j] = status[j]] /\ status[j] \notin Ended
    BY <2>1, <1>1 DEF FInv, Undecided
  <2>4. status[j] \in {"QUEUED", "RUNNING"} \cup Ended
    <3>1. status[j] # "none"  BY <2>1 DEF FInv, IInv, Fresh
    <3> QED  BY <3>1, <1>1
  <2>5. \A q \in Requests : attempt'[q].known = attempt[q].known  BY <2>1, <1>1
  <2> QED  BY <2>1, <2>2, <2>3, <2>4, <2>5, PublishTells
<1>5. CASE Succeed(j)
  <2>1. /\ step[j] = "delivering" /\ status' = [status EXCEPT ![j] = "SUCCEEDED"]
        /\ step' = [step EXCEPT ![j] = "settling"] /\ UNCHANGED <<kept, attempt>>
        /\ Emit(j, <<"JOB_COMPLETED">>)
    BY <1>5 DEF Succeed, History
  <2> DEFINE new == <<"JOB_COMPLETED">>
  <2>2. new \in Seq(Kinds) /\ EndsWith(new, VerdictOf("SUCCEEDED")) /\ Emit(j, new)
    <3>1. new \in Seq(Kinds) /\ Len(new) = 1 /\ new[1] = "JOB_COMPLETED" /\ Emit(j, new)
      BY <2>1 DEF Kinds, Terminal
    <3> HIDE DEF new
    <3> QED  BY <3>1 DEF EndsWith, VerdictOf
  <2>3. "SUCCEEDED" \in Ended  BY DEF Ended
  <2> HIDE DEF new
  <2> QED  BY <2>1, <2>2, <2>3, PublishTells
<1>6. CASE Fail(j)
  <2>1. /\ step[j] \in {"working", "delivering"} /\ status' = [status EXCEPT ![j] = "FAILED"]
        /\ step' = [step EXCEPT ![j] = "settling"] /\ UNCHANGED <<kept, attempt>>
    BY <1>6 DEF Fail, History
  <2>2. PICK unsettled \in {<< >>, <<"task">>} : Emit(j, unsettled \o <<"JOB_FAILED">>)
    BY <1>6 DEF Fail
  <2> DEFINE new == unsettled \o <<"JOB_FAILED">>
  <2>3. new \in Seq(Kinds) /\ EndsWith(new, "JOB_FAILED")
    <3>1. CASE unsettled = << >>
      <4>1. new = <<"JOB_FAILED">>  BY <3>1
      <4> HIDE DEF new
      <4> QED  BY <4>1 DEF EndsWith, Kinds, Terminal
    <3>2. CASE unsettled = <<"task">>
      <4> DEFINE task == <<"task">>
                 end == <<"JOB_FAILED">>
      <4>1. /\ task \in Seq(Kinds) /\ Len(task) = 1 /\ task[1] = "task"
            /\ end \in Seq(Kinds) /\ Len(end) = 1 /\ end[1] = "JOB_FAILED"
            /\ new = task \o end
        BY <3>2 DEF Kinds, Terminal
      <4> HIDE DEF new, task, end
      <4>2. new \in Seq(Kinds) /\ Len(new) = 2 /\ new[1] = "task" /\ new[2] = "JOB_FAILED"
        BY <4>1, ConcatProperties
      <4>3. "task" \notin Terminal  BY DEF Terminal
      <4> QED  BY <4>2, <4>3 DEF EndsWith
    <3> QED  BY <3>1, <3>2
  <2>4. "FAILED" \in Ended /\ VerdictOf("FAILED") = "JOB_FAILED"  BY DEF Ended, VerdictOf
  <2>5. Emit(j, new)  BY <2>2
  <2> HIDE DEF new
  <2> QED  BY <2>1, <2>3, <2>4, <2>5, PublishTells
<1>7. CASE Settle(j)
  <2>1. /\ step' = [step EXCEPT ![j] = "done"]
        /\ UNCHANGED <<kept, status, events, emitted, attempt, sink>>
    BY <1>7 DEF Settle
  <2>2. Histories' /\ Served'  BY <2>1, QuietServes
  <2>3. Bounded'  BY <2>1, SameMemories
  <2>4. Undecided'
    <3> SUFFICES ASSUME NEW k \in Jobs, step'[k] \in {"queued", "working", "delivering"}
                 PROVE  status[k] \notin Ended
      BY <2>1 DEF Undecided
    <3>1. k # j  BY <2>1, <1>1
    <3> QED  BY <3>1, <2>1, <1>1 DEF FInv, Undecided
  <2> QED  BY <2>2, <2>3, <2>4
<1> QED  BY <1>2, <1>3, <1>4, <1>5, <1>6, <1>7 DEF Workflow

\* A follower that joins, concludes or leaves changes only what it was sent.
LEMMA JoinServes ==
  ASSUME FInv, NEW c \in Followers, NEW r \in Sink, sink' = [sink EXCEPT ![c] = r],
         UNCHANGED <<kept, status, step, events, emitted, attempt>>,
         \A j, k \in r.job : j = k,
         \A j \in r.job : /\ status[j] # "none"
                          /\ c \in Streams => StreamShows(r, j)
                          /\ c \in Sockets => SocketShows(r, j)
  PROVE  Bounded' /\ Undecided' /\ Histories' /\ Served'
<1>1. Bounded'  BY SameMemories
<1>2. Undecided'  BY DEF FInv, Undecided
<1>3. Histories'  BY DEF FInv, Histories, Told
<1>4. sink = [d \in Followers |-> sink[d]] /\ \A d \in Followers : FollowerFine(d)
  BY DEF FInv, Served
<1>5. sink'[c] = r /\ \A d \in Followers : d # c => sink'[d] = sink[d]  BY <1>4
<1>6. sink' = [d \in Followers |-> sink'[d]]
  <2>1. sink' = [d \in Followers |-> IF d = c THEN r ELSE sink[d]]  BY <1>4
  <2> QED  BY <2>1
<1>7. FollowerFine(c)'  BY <1>5 DEF FollowerFine, StreamShows, SocketShows
<1>8. ASSUME NEW d \in Followers, d # c PROVE FollowerFine(d)'
  <2>1. FollowerFine(d) /\ sink'[d] = sink[d]  BY <1>4, <1>5, <1>8
  <2> QED  BY <2>1 DEF FollowerFine, StreamShows, SocketShows
<1> QED  BY <1>1, <1>2, <1>3, <1>6, <1>7, <1>8 DEF Served

LEMMA FollowTells ==
  ASSUME FInv, NEW c \in Followers, NEW j \in Jobs, Follow(c, j)
  PROVE  Bounded' /\ Undecided' /\ Histories' /\ Served'
<1> DEFINE r == [job |-> {j}, open |-> status[j] \notin Ended, out |-> events[j]]
<1>1. /\ c \in Streams /\ j \in Records /\ sink' = [sink EXCEPT ![c] = r]
      /\ UNCHANGED <<kept, status, step, events, emitted, attempt>>
  BY DEF Follow, Replayed
<1>2. /\ events[j] \in Seq(Kinds) /\ Told(j) /\ status[j] # "none"
  BY <1>1 DEF FInv, Histories, Bounded
<1>3. /\ r.job = {j} /\ r.out = events[j] /\ (r.open <=> status[j] \notin Ended)  OBVIOUS
<1>4. r \in Sink
  <2>1. (status[j] \notin Ended) \in BOOLEAN /\ {j} \in SUBSET Jobs  OBVIOUS
  <2> QED  BY <2>1, <1>2 DEF Sink
<1>5. c \notin Sockets  BY <1>1, DevJobsAssumption DEF DevJobsAssumption
<1> HIDE DEF r
<1>6. StreamShows(r, j)
  <2>1. Len(events[j]) >= Len(events[j])
    <3>1. Len(events[j]) \in Nat  BY <1>2
    <3> QED  BY <3>1
  <2> QED  BY <1>2, <1>3, <2>1 DEF StreamShows, Told
<1> QED  BY <1>1, <1>2, <1>3, <1>4, <1>5, <1>6, JoinServes

LEMMA LeaveTells ==
  ASSUME FInv, NEW c \in Followers, Leave(c)
  PROVE  Bounded' /\ Undecided' /\ Histories' /\ Served'
<1> DEFINE r == [job |-> {}, open |-> FALSE, out |-> << >>]
<1>1. /\ sink' = [sink EXCEPT ![c] = r]
      /\ UNCHANGED <<kept, status, step, events, emitted, attempt>>
  BY DEF Leave
<1>2. r \in Sink /\ r.job = {}
  <2>1. << >> \in Seq(Kinds)  OBVIOUS
  <2> QED  BY <2>1 DEF Sink
<1> HIDE DEF r
<1> QED  BY <1>1, <1>2, JoinServes

LEMMA ForwardTells ==
  ASSUME FInv, NEW c \in Followers, NEW j \in Jobs, Forward(c, j)
  PROVE  Bounded' /\ Undecided' /\ Histories' /\ Served'
<1> DEFINE s == [job |-> {j}, open |-> TRUE, out |-> << >>]
           list == events[j]
           r == Shown(c, s, list)
           w == Concluded(r, j)
<1>1. /\ c \in Sockets /\ j \in Records /\ sink' = [sink EXCEPT ![c] = w]
      /\ UNCHANGED <<kept, status, step, events, emitted, attempt>>
  BY DEF Forward, Replayed
<1>2. /\ list \in Seq(Kinds) /\ emitted[j] \in Seq(Kinds) /\ Told(j) /\ status[j] # "none"
  BY <1>1 DEF FInv, Histories, Bounded
<1>3. Len(list) \in Nat /\ Len(emitted[j]) \in Nat  BY <1>2
<1>4. s \in Sink /\ Live(s) /\ s.job = {j}
  <2>1. << >> \in Seq(Kinds) /\ TRUE \in BOOLEAN /\ {j} \in SUBSET Jobs  OBVIOUS
  <2>2. s.open = TRUE /\ s.out = << >> /\ s.job = {j}  OBVIOUS
  <2>3. s \in Sink  BY <2>1 DEF Sink
  <2> HIDE DEF s
  <2> QED  BY <2>2, <2>3 DEF Live, NoEnd, Once
<1>5. \A i \in 1 .. Len(list) :
        IF status[j] \in Ended
        THEN IF i = Len(list) THEN list[i] = VerdictOf(status[j]) ELSE list[i] \notin Terminal
        ELSE list[i] \notin Terminal
  <2> TAKE i \in 1 .. Len(list)
  <2> DEFINE d == Len(emitted[j]) - Len(list) + i
  <2>1. list[i] = emitted[j][d] /\ Len(list) <= Len(emitted[j])  BY <1>2 DEF Told, SuffixOf
  <2>2. d \in 1 .. Len(emitted[j]) /\ (d = Len(emitted[j]) <=> i = Len(list))
    <3>1. i \in Nat /\ 1 <= i /\ i <= Len(list)  BY <1>3
    <3> DEFINE a == Len(emitted[j])
               b == Len(list)
    <3>2. a \in Nat /\ b \in Nat /\ b <= a /\ i \in Nat /\ 1 <= i /\ i <= b /\ d = a - b + i
      BY <2>1, <3>1, <1>3
    <3> HIDE DEF a, b, d
    <3>3. d \in 1 .. a /\ (d = a <=> i = b)  BY <3>2
    <3> QED  BY <3>3 DEF a, b
  <2> HIDE DEF d
  <2> QED  BY <2>1, <2>2, <1>2 DEF Told, EndsWith, NoEnd
<1> HIDE DEF s, list
<1>6. /\ r \in Sink /\ r.job = s.job
      /\ NoEnd(list) => Live(r)
      /\ ~NoEnd(list) => Over(r, list[Len(list)])
  <2>1. \A i \in 1 .. Len(list) : i # Len(list) => list[i] \notin Terminal  BY <1>5
  <2> QED  BY <1>1, <1>2, <1>4, <2>1, SocketIsTold
<1> HIDE DEF r
<1>7. w \in Sink /\ w.job = {j} /\ SocketShows(w, j)
  <2>1. CASE status[j] \notin Ended
    <3>1. NoEnd(list)  BY <2>1, <1>5 DEF NoEnd
    <3>2. w = r  BY <2>1 DEF Concluded
    <3> QED  BY <2>1, <3>1, <3>2, <1>4, <1>6 DEF SocketShows
  <2>2. CASE status[j] \in Ended /\ ~NoEnd(list)
    <3>1. list[Len(list)] = VerdictOf(status[j])
      <4>1. PICK i \in 1 .. Len(list) : list[i] \in Terminal  BY <2>2 DEF NoEnd
      <4>2. i = Len(list)  BY <4>1, <2>2, <1>5
      <4> QED  BY <4>1, <4>2, <2>2, <1>5
    <3>2. Over(r, VerdictOf(status[j])) /\ ~r.open  BY <2>2, <3>1, <1>6 DEF Over
    <3>3. w = r  BY <3>2 DEF Concluded, Forwarding
    <3> QED  BY <2>2, <3>2, <3>3, <1>4, <1>6 DEF SocketShows
  <2>3. CASE status[j] \in Ended /\ NoEnd(list)
    <3> DEFINE t == VerdictOf(status[j])
    <3>1. Live(r) /\ r.open /\ t \in Terminal  BY <2>3, <1>6 DEF Live, VerdictOf, Terminal
    <3>2. w = Closed(Sent(r, <<t>>))  BY <2>3, <3>1 DEF Concluded, Forwarding, VerdictOf
    <3> HIDE DEF t, w
    <3>3. w = [r EXCEPT !.out = r.out \o <<t>>, !.open = FALSE]
      BY <3>2, <1>6 DEF Closed, Sent, Sink
    <3>4. r \in Sink /\ r.out \in Seq(Kinds) /\ NoEnd(r.out) /\ Once(r.out)
      BY <3>1, <1>6 DEF Live, Sink
    <3>5. /\ [r EXCEPT !.out = r.out \o <<t>>, !.open = FALSE] \in Sink
          /\ [r EXCEPT !.out = r.out \o <<t>>, !.open = FALSE].job = r.job
          /\ Over([r EXCEPT !.out = r.out \o <<t>>, !.open = FALSE], t)
      BY <3>1, <3>4, ToldTheEnd
    <3>6. w \in Sink /\ w.job = r.job /\ Over(w, t)  BY <3>3, <3>5
    <3> QED  BY <2>3, <3>6, <1>4, <1>6 DEF SocketShows, t
  <2> QED  BY <2>1, <2>2, <2>3
<1>8. c \notin Streams  BY <1>1, DevJobsAssumption DEF DevJobsAssumption
<1> HIDE DEF w
<1>9. /\ \A k, l \in w.job : k = l
      /\ \A k \in w.job : status[k] # "none" /\ SocketShows(w, k)
  <2>1. \A k \in w.job : k = j  BY <1>7
  <2> QED  BY <2>1, <1>2, <1>7
<1>10. w \in Sink  BY <1>7
<1>11. /\ UNCHANGED <<kept, status, step, events, emitted, attempt>>
       /\ sink' = [sink EXCEPT ![c] = w]
  BY <1>1
<1> QED  BY <1>8, <1>9, <1>10, <1>11, JoinServes

LEMMA FInvNext == FInv /\ [Next]_vars => FInv'
<1> SUFFICES ASSUME FInv, [Next]_vars PROVE FInv'  OBVIOUS
<1>1. IInv'  BY IInvNext DEF FInv
<1> SUFFICES Bounded' /\ Undecided' /\ Histories' /\ Served'  BY <1>1 DEF FInv
<1>2. /\ attempt \in [Requests -> [known : BOOLEAN, job : SUBSET Jobs, result : BOOLEAN]]
      /\ \A j \in Records : status[j] # "none"
      /\ IsFiniteSet({p \in Requests : attempt[p].known})
  BY DEF FInv, IInv, Shape, Bounded
<1>3. ASSUME NEW q \in Requests,
             attempt[q].known \/ Cardinality({p \in Requests : attempt[p].known}) < MaxAttempts,
             \A p \in Requests : attempt'[p].known = (attempt[p].known \/ p = q)
      PROVE  /\ IsFiniteSet({p \in Requests : attempt'[p].known})
             /\ Cardinality({p \in Requests : attempt'[p].known}) <= MaxAttempts
  <2> DEFINE known == {p \in Requests : attempt[p].known}
  <2>1. {p \in Requests : attempt'[p].known} = known \cup {q}  BY <1>3
  <2>2. IsFiniteSet(known) /\ Cardinality(known) <= MaxAttempts  BY DEF FInv, Bounded
  <2>3. MaxAttempts \in Nat  BY DevJobsAssumption DEF DevJobsAssumption
  <2>4. CASE attempt[q].known
    <3>1. known \cup {q} = known  BY <2>4
    <3> HIDE DEF known
    <3> QED  BY <2>1, <2>2, <3>1
  <2>5. CASE ~attempt[q].known
    <3>1. q \notin known /\ Cardinality(known) < MaxAttempts  BY <2>5, <1>3
    <3> HIDE DEF known
    <3>2. /\ IsFiniteSet(known \cup {q}) /\ Cardinality(known \cup {q}) = Cardinality(known) + 1
          /\ Cardinality(known) \in Nat
      BY <2>2, <3>1, FS_AddElement, FS_CardinalityType
    <3>3. Cardinality(known) + 1 <= MaxAttempts
      <4> DEFINE n == Cardinality(known)
      <4>1. n \in Nat /\ n < MaxAttempts  BY <3>1, <3>2
      <4> HIDE DEF n
      <4>2. n + 1 <= MaxAttempts  BY <4>1, <2>3
      <4> QED  BY <4>2 DEF n
    <3> QED  BY <2>1, <3>2, <3>3
  <2> QED  BY <2>4, <2>5
<1>4. ASSUME NEW j \in Jobs, Submit(j)
      PROVE  Bounded' /\ Undecided' /\ Histories' /\ Served'
  <2>1. Start(j, {}) /\ attempt' = attempt  BY <1>4 DEF Submit
  <2>2. /\ Len(kept') <= MaxJobs /\ \A k \in Records' : status'[k] # "none"
        /\ Undecided' /\ Histories' /\ Served'
    BY <1>1, <2>1, StartTells
  <2> QED  BY <2>1, <2>2 DEF FInv, Bounded
<1>5. ASSUME NEW q \in Requests, NEW j \in Jobs, Generate(q, j)
      PROVE  Bounded' /\ Undecided' /\ Histories' /\ Served'
  <2>1. /\ Start(j, {q}) /\ attempt' = [attempt EXCEPT ![q].known = TRUE, ![q].job = {j}]
        /\ attempt[q].known \/ Cardinality({p \in Requests : attempt[p].known}) < MaxAttempts
    BY <1>5 DEF Generate
  <2>2. /\ Len(kept') <= MaxJobs /\ \A k \in Records' : status'[k] # "none"
        /\ Undecided' /\ Histories' /\ Served'
    BY <1>1, <2>1, StartTells
  <2>3. \A p \in Requests : attempt'[p].known = (attempt[p].known \/ p = q)
    <3>1. attempt'[q].known = TRUE /\ \A p \in Requests : p # q => attempt'[p] = attempt[p]
      BY <1>2, <2>1
    <3>2. \A p \in Requests : attempt[p].known \in BOOLEAN  BY <1>2, Zenon
    <3> QED  BY <3>1, <3>2, Zenon
  <2> QED  BY <2>1, <2>2, <2>3, <1>3 DEF Bounded
<1>6. ASSUME NEW q \in Requests, GenerateBusy(q)
      PROVE  Bounded' /\ Undecided' /\ Histories' /\ Served'
  <2>1. /\ attempt' = [attempt EXCEPT ![q].known = TRUE]
        /\ UNCHANGED <<kept, status, step, events, emitted, sink>>
        /\ attempt[q].known \/ Cardinality({p \in Requests : attempt[p].known}) < MaxAttempts
    BY <1>6 DEF GenerateBusy
  <2>2. \A p \in Requests : attempt'[p].known = (attempt[p].known \/ p = q)
    <3>1. attempt'[q].known = TRUE /\ \A p \in Requests : p # q => attempt'[p] = attempt[p]
      BY <1>2, <2>1
    <3>2. \A p \in Requests : attempt[p].known \in BOOLEAN  BY <1>2, Zenon
    <3> QED  BY <3>1, <3>2, Zenon
  <2>3. Bounded'
    <3>1. Len(kept') <= MaxJobs /\ Records' = Records  BY <2>1 DEF FInv, Bounded, Records
    <3> QED  BY <2>1, <2>2, <3>1, <1>2, <1>3 DEF Bounded
  <2>4. Histories' /\ Served'  BY <2>1, QuietServes
  <2>5. Undecided'  BY <2>1 DEF FInv, Undecided
  <2> QED  BY <2>3, <2>4, <2>5
<1>7. ASSUME NEW c \in Followers, Leave(c) \/ \E j \in Jobs : Follow(c, j) \/ Forward(c, j)
      PROVE  Bounded' /\ Undecided' /\ Histories' /\ Served'
  BY <1>7, LeaveTells, FollowTells, ForwardTells
<1>8. CASE UNCHANGED vars
  <2>1. UNCHANGED <<kept, status, step, events, emitted, attempt, sink>>  BY <1>8 DEF vars
  <2>2. Histories' /\ Served'  BY <2>1, QuietServes
  <2>3. Bounded'  BY <2>1, SameMemories
  <2>4. Undecided'  BY <2>1 DEF FInv, Undecided
  <2> QED  BY <2>2, <2>3, <2>4
<1> QED  BY <1>4, <1>5, <1>6, <1>7, <1>8, WorkflowTells DEF Next

LEMMA FollowersInductive == Spec => []FInv
<1> QED  BY FInvInit, FInvNext, PTL DEF Spec

\* Every variable keeps its shape and the memories of records, events and request
\* identities their bounds (dev-job-manager.ts, playground-service.ts).
THEOREM TypeCorrect == Spec => []TypeOK
<1>1. ASSUME FInv PROVE TypeOK
  <2> USE <1>1 DEF FInv
  <2>1. \A j \in Jobs : Len(events[j]) <= MaxEvents  BY DEF Histories, Told
  <2>2. \A c \in Followers : sink[c].job \in SUBSET Jobs /\ sink[c].open \in BOOLEAN
    <3> TAKE c \in Followers
    <3>1. sink[c] \in Sink  BY DEF Served, FollowerFine
    <3>2. sink[c].open \in BOOLEAN  BY <3>1, Zenon DEF Sink
    <3> QED  BY <3>1, <3>2 DEF Sink
  <2> QED  BY <2>1, <2>2 DEF TypeOK, IInv, Shape, Bounded, Steps
<1> QED  BY <1>1, FollowersInductive, PTL

\* Whenever a follower joins, and however little of the history is left by then: a
\* stream shows the end of what was emitted without a gap, and a socket is told
\* the right end, once and last (playground-http-server.ts, forwardJob).
THEOREM FollowersToldTheTruth == Spec => []FollowersFaithful
<1>1. ASSUME FInv PROVE FollowersFaithful
  <2> USE <1>1 DEF FInv
  <2>1. StreamFaithful
    <3> SUFFICES ASSUME NEW c \in Streams, NEW j \in sink[c].job
                 PROVE  /\ IsSuffix(sink[c].out, emitted[j])
                        /\ Len(sink[c].out) >= Len(events[j])
                        /\ sink[c].open <=> status[j] \notin Ended
      BY DEF StreamFaithful
    <3>1. FollowerFine(c)  BY DEF Served, Followers
    <3>2. sink[c] \in Sink /\ StreamShows(sink[c], j)  BY <3>1 DEF FollowerFine
    <3>3. sink[c].out \in Seq(Kinds) /\ j \in Jobs  BY <3>2 DEF Sink
    <3>4. emitted[j] \in Seq(Kinds)  BY <3>3 DEF Histories
    <3> QED  BY <3>2, <3>3, <3>4, SuffixIsSuffix DEF StreamShows
  <2>2. ASSUME NEW c \in Sockets, NEW j \in sink[c].job
        PROVE  LET out == sink[c].out
                   ends == {i \in DOMAIN out : out[i] \in Terminal}
               IN  /\ ends = IF status[j] \in Ended THEN {Len(out)} ELSE {}
                   /\ \A i \in ends : out[i] = IF status[j] = "SUCCEEDED" THEN "JOB_COMPLETED"
                                               ELSE "JOB_FAILED"
                   /\ Cardinality({i \in DOMAIN out : out[i] = "completed"}) <= 1
    <3> DEFINE out == sink[c].out
               ends == {i \in DOMAIN out : out[i] \in Terminal}
               shown == {i \in DOMAIN out : out[i] = "completed"}
    <3>1. FollowerFine(c)  BY DEF Served, Followers
    <3>2. sink[c] \in Sink /\ SocketShows(sink[c], j)  BY <3>1 DEF FollowerFine
    <3>3. out \in Seq(Kinds) /\ Len(out) \in Nat /\ DOMAIN out = 1 .. Len(out)  BY <3>2 DEF Sink
    <3>4. VerdictOf(status[j]) \in Terminal  BY DEF VerdictOf, Terminal
    <3>5. IF status[j] \in Ended THEN EndsWith(out, VerdictOf(status[j])) ELSE NoEnd(out)
      BY <3>2 DEF SocketShows, Over, Live
    <3>6. Once(out)  BY <3>2 DEF SocketShows, Over, Live
    <3> HIDE DEF out
    <3>7. ends = IF status[j] \in Ended THEN {Len(out)} ELSE {}
      <4>1. CASE status[j] \in Ended
        <5>0. Len(out) > 0  BY <4>1, <3>5 DEF EndsWith
        <5>1. Len(out) \in 1 .. Len(out)  BY <5>0, <3>3
        <5> QED  BY <4>1, <5>1, <3>3, <3>4, <3>5 DEF EndsWith
      <4>2. CASE status[j] \notin Ended  BY <4>2, <3>3, <3>5 DEF NoEnd
      <4> QED  BY <4>1, <4>2
    <3>8. \A i \in ends : out[i] = VerdictOf(status[j])  BY <3>7, <3>5 DEF EndsWith
    <3>9. Cardinality(shown) <= 1
      <4>1. CASE shown = {}
        <5> HIDE DEF shown
        <5> QED  BY <4>1, FS_EmptySet
      <4>2. CASE shown # {}
        <5>1. PICK i \in shown : TRUE  BY <4>2
        <5>2. shown = {i}  BY <5>1, <3>3, <3>6 DEF Once
        <5> HIDE DEF shown
        <5>3. Cardinality({i}) = 1  BY FS_Singleton
        <5> QED  BY <5>2, <5>3
      <4> QED  BY <4>1, <4>2
    <3> QED  BY <3>7, <3>8, <3>9 DEF VerdictOf, out
  <2> QED  BY <2>1, <2>2 DEF FollowersFaithful
<1> QED  BY <1>1, FollowersInductive, PTL

=============================================================================
