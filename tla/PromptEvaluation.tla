-------------------------- MODULE PromptEvaluation --------------------------
(***************************************************************************)
(* The live comparison of two versions of a prompt                         *)
(* (agents/evaluation/live-prompt-evaluation.ts): a process asks a         *)
(* provider for every case under the baseline, then under the candidate,   *)
(* and keeps each result as a line of a file, so that another process can  *)
(* go on where it stopped. A line that a crash or a full disk cuts short   *)
(* has no end, and the next line is written onto it.                       *)
(***************************************************************************)
EXTENDS Naturals, SequencesExt

CONSTANTS
  Cases,       \* the selected cases, in order; the lists of the repository name none twice
  EvalBudget,  \* maxPhysicalRequests, per version
  MaxProcesses, MaxFaults  \* bounds of the model

ASSUME EvaluationAssumption ==
  /\ Cases \in Seq(Range(Cases)) /\ Cases # <<>>
  /\ \A i, j \in DOMAIN Cases : Cases[i] = Cases[j] => i = j
  /\ {EvalBudget, MaxProcesses, MaxFaults} \subseteq Nat

VARIABLES
  lines,      \* the readable lines of results.jsonl
  tail,       \* its last line: "ended", "cut" or "unended" (whole but for its end)
  evalManifest, summary,
  fresh,      \* the process does not resume
  evalPhase,  \* "off", "next", "waiting", "finished", "blocked" or "summarised"
  place,      \* how many (version, case) pairs are behind the process
  got,        \* the results the process holds: how many, how many pass, their physical requests
  spent,      \* physical requests of the version at hand, reused results included
  processes, faults,
  swallowed   \* history: pairs whose line was overwritten

evaluationVars == <<lines, tail, evalManifest, summary, fresh, evalPhase, place, got, spent,
                    processes, faults, swallowed>>

Pairs ==
  [i \in 1..(2 * Len(Cases)) |->
     IF i <= Len(Cases) THEN [version |-> "baseline", case |-> Cases[i]]
     ELSE [version |-> "candidate", case |-> Cases[i - Len(Cases)]]]
Pair == Pairs[place + 1]
PairOf(result) == [version |-> result.version, case |-> result.case]
Readable(pair) == \E i \in DOMAIN lines : PairOf(lines[i]) = pair

Result(pair, class, physical) ==
  [version |-> pair.version, case |-> pair.case, class |-> class, physical |-> physical]

\* What a summary counts: results, those that pass, and their physical requests
NoCounts == [results |-> 0, passed |-> 0, physical |-> 0]
Plus(some, more) ==
  [results |-> some.results + more.results, passed |-> some.passed + more.passed,
   physical |-> some.physical + more.physical]
CountOf(result) ==
  [results |-> 1, passed |-> IF result.class = "PASS" THEN 1 ELSE 0,
   physical |-> result.physical]
Counted(results) ==
  LET sum[n \in 0..Len(results)] ==
        IF n = 0 THEN NoCounts ELSE Plus(sum[n - 1], CountOf(results[n]))
  IN  sum[Len(results)]

NoSummary == [status |-> "none"]

EvaluationInit ==
  /\ lines = <<>> /\ tail = "ended" /\ evalManifest = "none" /\ summary = NoSummary
  /\ fresh = FALSE /\ evalPhase = "off" /\ place = 0 /\ got = NoCounts /\ spent = 0
  /\ processes = 0 /\ faults = 0 /\ swallowed = {}

-----------------------------------------------------------------------------
(* The file *)

\* A line written onto one without an end is lost with it
Appended(result) ==
  CASE tail = "ended" ->
         lines' = Append(lines, result) /\ swallowed' = swallowed \ {PairOf(result)}
    [] tail = "cut" ->
         lines' = lines /\ swallowed' = swallowed \cup {PairOf(result)}
    [] OTHER ->
         /\ lines' = Front(lines)
         /\ swallowed' = swallowed \cup {PairOf(result), PairOf(Last(lines))}

MutAnyVersion(pair) ==
  {i \in DOMAIN lines : /\ lines[i].case = pair.case
                        /\ \A j \in 1..(i - 1) : lines[j].case # pair.case}

\* getCompletedResult: where the first line of a pair is, if it has one
FirstLine(pair) ==
  {i \in DOMAIN lines : /\ PairOf(lines[i]) = pair
                        /\ \A j \in 1..(i - 1) : PairOf(lines[j]) # pair}

\* persistResult: the first result of a pair is the one that is kept
Persist(result) ==
  IF FirstLine(PairOf(result)) # {} THEN UNCHANGED <<lines, tail, swallowed>>
  ELSE tail' = "ended" /\ Appended(result)

\* The disk takes a part of the line, or all of it but its end; either way nobody reads what
\* an unended line before it held
CutShort(result) ==
  \/ /\ tail' = "cut"
     /\ IF tail = "unended"
        THEN lines' = Front(lines) /\ swallowed' = swallowed \cup {PairOf(Last(lines))}
        ELSE UNCHANGED <<lines, swallowed>>
  \/ tail = "ended" /\ tail' = "unended" /\ Appended(result)

-----------------------------------------------------------------------------
BeginEvaluation ==
  /\ evalPhase = "off" /\ processes < MaxProcesses
  /\ processes' = processes + 1 /\ fresh' \in BOOLEAN
  /\ evalManifest' = "RUNNING" /\ evalPhase' = "next"
  /\ faults' = 0
  /\ UNCHANGED <<lines, tail, summary, place, got, spent, swallowed>>

\* Each version has a count of its own
GoOn(counts, physical) ==
  /\ place' = place + 1
  /\ got' = Plus(got, counts)
  /\ spent' = IF place + 1 = Len(Cases) THEN 0 ELSE spent + physical
  /\ evalPhase' = IF place + 1 = Len(Pairs) THEN "finished" ELSE "next"

Reuse ==
  /\ evalPhase = "next" /\ ~fresh
  /\ \E i \in FirstLine(Pair) : GoOn(CountOf(lines[i]), lines[i].physical)
  /\ UNCHANGED <<lines, tail, evalManifest, summary, fresh, processes, faults, swallowed>>

Ask ==
  /\ evalPhase = "next" /\ (fresh \/ FirstLine(Pair) = {})
  /\ evalPhase' = IF spent >= EvalBudget THEN "blocked" ELSE "waiting"
  /\ UNCHANGED <<lines, tail, evalManifest, summary, fresh, place, got, spent, processes, faults,
                 swallowed>>

\* The provider answers, possibly after a retry that its usage counts, or fails in a way that
\* is not its own: the prompt's failure
Answered ==
  /\ evalPhase = "waiting"
  /\ \E class \in {"PASS", "FAIL"}, physical \in {1, 2} :
       /\ Persist(Result(Pair, class, physical))
       /\ GoOn(CountOf(Result(Pair, class, physical)), physical)
  /\ UNCHANGED <<evalManifest, summary, fresh, processes, faults>>

\* A failure of the provider is no verdict on the prompt, and ends the evaluation
ProviderFails ==
  /\ evalPhase = "waiting"
  /\ Persist(Result(Pair, "INCONCLUSIVE", 1))
  /\ evalPhase' = "blocked"
  /\ UNCHANGED <<evalManifest, summary, fresh, place, got, spent, processes, faults>>

\* An answer that cannot be stored is caught like a failure of the prompt: the same pair gets
\* a second result, which is stored unless the first one is in the file by then
StorageFails ==
  /\ evalPhase = "waiting" /\ FirstLine(Pair) = {} /\ faults < MaxFaults /\ faults' = faults + 1
  /\ LET answer == Result(Pair, "PASS", 1)
         failed == Result(Pair, "FAIL", 1) IN
     /\ GoOn(Plus(CountOf(answer), CountOf(failed)), 2)
     /\ \/ Persist(failed) \/ Persist(answer)
        \/ /\ tail = "ended" /\ swallowed' = swallowed \cup {Pair}
           /\ UNCHANGED <<lines, tail>>
        \/ tail = "ended" /\ tail' = "unended" /\ Appended(answer)
  /\ UNCHANGED <<evalManifest, summary, fresh, processes>>

\* The second result cannot be stored either
DiskIsFull ==
  /\ evalPhase = "waiting" /\ FirstLine(Pair) = {} /\ faults < MaxFaults /\ faults' = faults + 1
  /\ UNCHANGED <<lines, tail, swallowed>> \/ CutShort(Result(Pair, "FAIL", 1))
  /\ evalPhase' = "blocked"
  /\ UNCHANGED <<evalManifest, summary, fresh, place, got, spent, processes>>

-----------------------------------------------------------------------------
(* finalize: the summary, then the manifest *)

WriteSummary ==
  /\ evalPhase \in {"finished", "blocked"} /\ evalPhase' = "summarised"
  /\ summary' = IF evalPhase = "blocked" THEN [status |-> "BLOCKED"]
                ELSE [status |-> "COMPLETED", counts |-> got]
  /\ UNCHANGED <<lines, tail, evalManifest, fresh, place, got, spent, processes, faults,
                 swallowed>>

EvaluationEnds == evalPhase' = "off" /\ place' = 0 /\ got' = NoCounts /\ spent' = 0

MutSaysCompleted ==
  /\ evalPhase = "summarised" /\ EvaluationEnds /\ evalManifest' = "COMPLETED"
  /\ UNCHANGED <<lines, tail, summary, fresh, processes, faults, swallowed>>

WriteManifest ==
  /\ evalPhase = "summarised" /\ EvaluationEnds /\ evalManifest' = summary.status
  /\ UNCHANGED <<lines, tail, summary, fresh, processes, faults, swallowed>>

Crash ==
  /\ evalPhase # "off" /\ EvaluationEnds
  /\ \/ UNCHANGED <<lines, tail, swallowed>>
     \/ evalPhase = "waiting" /\ FirstLine(Pair) = {} /\ CutShort(Result(Pair, "PASS", 1))
  /\ UNCHANGED <<evalManifest, summary, fresh, processes, faults>>

EvaluationNext ==
  \/ BeginEvaluation \/ Reuse \/ Ask \/ Answered \/ ProviderFails \/ StorageFails \/ DiskIsFull
  \/ WriteSummary \/ WriteManifest \/ Crash

EvaluationSpec == EvaluationInit /\ [][EvaluationNext]_evaluationVars

-----------------------------------------------------------------------------
(* Properties *)

\* Lines and counts keep their shape.
EvaluationTypeOK ==
  /\ \A i \in DOMAIN lines :
       /\ PairOf(lines[i]) \in Range(Pairs)
       /\ lines[i].class \in {"PASS", "FAIL", "INCONCLUSIVE"} /\ lines[i].physical \in {1, 2}
  /\ tail \in {"ended", "cut", "unended"}
  /\ evalManifest \in {"none", "RUNNING", "BLOCKED", "COMPLETED"}
  /\ evalPhase \in {"off", "next", "waiting", "finished", "blocked", "summarised"}
  /\ place \in 0..Len(Pairs) /\ swallowed \subseteq Range(Pairs)

\* Whatever process wrote them, a pair has one readable result at most. Once the manifest says
\* COMPLETED the summary is that of the evaluation; and if the process resumed and the disk took
\* every answer, the summary counts each pair once, and the file holds the results it counts,
\* but for those whose line was written onto an unended one.
EvaluationAddsUp ==
  /\ \A i, j \in DOMAIN lines : PairOf(lines[i]) = PairOf(lines[j]) => i = j
  /\ evalManifest = "COMPLETED" =>
       /\ summary.status = "COMPLETED"
       /\ ~fresh /\ faults = 0 =>
            /\ summary.counts.results = Len(Pairs)
            /\ \A pair \in Range(Pairs) \ swallowed : Readable(pair)
            /\ swallowed = {} => summary.counts = Counted(lines)
=============================================================================
