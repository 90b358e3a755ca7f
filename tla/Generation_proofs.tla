------------------------- MODULE Generation_proofs --------------------------
(***************************************************************************)
(* Proofs about a generation: the run itself (GenerationRun), browser QA   *)
(* (BrowserQA), and what the answers of a model become (SitePlanning,      *)
(* AgentLoop, SourcePatches), for any requests, defects, pages, plans,     *)
(* tool calls and patches.                                                 *)
(***************************************************************************)
EXTENDS GenerationRun, BrowserQA, ModelWork, Functions, FiniteSetTheorems,
        SequenceTheorems, NaturalsInduction, WellFoundedInduction, TLAPS

-----------------------------------------------------------------------------
(* GenerationRun: which gates are behind a candidate, by stage *)

Candidate == [src |-> src, by |-> req, repaired |-> repairs > 0]

AfterCommit == {"row", "charge"}
AfterOutcome == AfterCommit \cup {"commit"}
AfterRun == AfterOutcome \cup {"validate", "unchanged"}
AfterSource == AfterRun \cup {"preview", "behaviour", "recheck"}
AfterBuild == AfterSource \cup {"source"}
AfterStatic == AfterBuild \cup {"build", "fix", "rebuild", "repair"}

\* A stage of its own for each kind of run.
KindOfStage ==
  /\ stage = "behaviour" => req.kind = "generate"
  /\ stage \in {"recheck", "unchanged"} => req.kind = "edit"

\* The gates before the build say something until the first model repair.
StaticBehind == stage \in AfterStatic /\ repairs = 0 => Passes(StaticGate(req))

BuiltBehind ==
  stage \in AfterBuild => Passes(Compiler) /\ build = "ok" /\ dist = src

SourceBehind == stage \in AfterSource => Passes(SourceGate(req))

\* What a run itself validates last.
RunBehind ==
  stage \in AfterRun =>
    /\ Passes(EditGate(req))
    /\ req.kind = "generate" => Passes(QAGate(req))

\* What the pipeline validates before it commits.
OutcomeBehind ==
  stage \in AfterOutcome =>
    Passes(UploadGate(req)) /\ Passes(OutcomeGate(req)) /\ Passes(QAGate(req))

\* How far a run got, in what it recorded.
Recorded ==
  /\ committed /\ stage # "idle" =>
       /\ stage \in AfterCommit \cup {"return"}
       /\ current = {Candidate} /\ Gated(Candidate)
       /\ build = "ok" /\ dist = src
  /\ stage \in AfterCommit => committed
  /\ charged => committed /\ row = "SUCCEEDED"
  /\ stage \in {"charge", "return"} => row = "SUCCEEDED"
  /\ stage # "idle" => env \in {"none", "live"}
  /\ outcome = "NO_CHANGES_REQUIRED" =>
       stage \in {"unchanged", "return", "idle"} /\ ~committed /\ ~charged

RunIInv ==
  /\ TypeOK
  /\ KindOfStage
  /\ StaticBehind
  /\ BuiltBehind
  /\ SourceBehind
  /\ RunBehind
  /\ OutcomeBehind
  /\ Recorded
  /\ CurrentIsGated
  /\ EnvironmentOwned

-----------------------------------------------------------------------------
(* Gates and candidates *)

\* A candidate that is behind all of the gates of its run is what CurrentIsGated
\* asks of a version.
LEMMA CandidateGated ==
  ASSUME TypeOK, stage = "commit", StaticBehind, BuiltBehind, SourceBehind, RunBehind, OutcomeBehind
  PROVE  Gated(Candidate)
<1>1. Candidate.src = src /\ Candidate.by = req /\ Candidate.repaired = (repairs > 0)
  BY DEF Candidate
<1>2. stage \in AfterStatic /\ stage \in AfterBuild /\ stage \in AfterSource /\ stage \in AfterRun /\ stage \in AfterOutcome
  BY DEF AfterStatic, AfterBuild, AfterSource, AfterRun, AfterOutcome
<1>3. ~(repairs > 0) => repairs = 0
  BY RepairsAssumption DEF TypeOK
<1>4. /\ src \cap Compiler = {} /\ src \cap SourceGate(req) = {} /\ src \cap EditGate(req) = {}
      /\ src \cap UploadGate(req) = {} /\ src \cap OutcomeGate(req) = {} /\ src \cap QAGate(req) = {}
      /\ ~(repairs > 0) => src \cap StaticGate(req) = {}
  BY <1>2, <1>3 DEF StaticBehind, BuiltBehind, SourceBehind, RunBehind, OutcomeBehind, Passes
<1>5. src \cap Excluded(Candidate) = {}
  BY <1>1, <1>4 DEF Excluded
<1> QED BY <1>1, <1>5 DEF Gated

\* What a version of a candidate's making is.
LEMMA CandidateTyped ==
  ASSUME TypeOK
  PROVE  Candidate \in Version
BY RepairsAssumption DEF TypeOK, Candidate, Version

-----------------------------------------------------------------------------
(* Types *)

\* The type invariant is inductive.
LEMMA RunTypeStep ==
  ASSUME TypeOK, [Next]_vars
  PROVE  TypeOK'
<1> USE RepairsAssumption, RequestsAssumption, ProposalsAssumption DEF TypeOK, Stages
<1>1. ASSUME NEW r \in Requests, Submit(r) PROVE TypeOK'
  BY <1>1 DEF Submit, Advance, Source, Spending, Output, vars
<1>2. CASE GenerateChecks BY <1>2 DEF GenerateChecks, Source, Spending, Output, Result
<1>3. CASE EditChecks BY <1>3 DEF EditChecks, Advance, Source, Spending, Output, Result
<1>4. CASE Plan BY <1>4 DEF Plan, Advance, Source, CallLimit, Output, Result
<1>5. CASE CreateEnvironment BY <1>5 DEF CreateEnvironment, Advance, Source, Spending, Output, Result
<1>6. CASE Seed BY <1>6 DEF Seed, Advance, Spending, Output, Result
<1>a. Restored \subseteq Defects
  BY DEF Restored, Version
<1>7. CASE Restore BY <1>7, <1>a DEF Restore, Advance, Spending, Output, Result
<1>8. CASE BeginRun BY <1>8 DEF BeginRun, Advance, Source, Spending, Output, Result
<1>b. ASSUME Answered PROVE src' \subseteq Defects /\ touched' \subseteq {"model", "autofix"}
  BY <1>a, <1>b DEF Answered
<1>9. CASE PrimaryCall BY <1>9, <1>b DEF PrimaryCall, Advance, CallLimit, Output, Result
<1>10. CASE Materialize BY <1>10 DEF Materialize, Advance, Source, Spending, Output, Result
<1>11. CASE RequirementRepair BY <1>11, <1>b DEF RequirementRepair, Advance, CallLimit, Output, Result
<1>12. CASE RequirementsMet BY <1>12 DEF RequirementsMet, Advance, Source, Spending, Output, Result
<1>13. CASE RuntimeOutcome BY <1>13 DEF RuntimeOutcome, Advance, Source, Spending, Output, Result
<1>14. CASE Autofix BY <1>14 DEF Autofix, Advance, Fixed, Spending, Output, Result
<1>15. CASE StaticChecks BY <1>15 DEF StaticChecks, Advance, Source, Spending, Output, Result
<1>16. CASE Build BY <1>16 DEF Build, Compiled, Source, Spending, Result
<1>17. CASE DeterministicRepair BY <1>17 DEF DeterministicRepair, Fixed, Spending, Output, Result
<1>18. CASE Rebuild BY <1>18 DEF Rebuild, Compiled, Source, Spending, Result
<1>19. CASE ModelRepair BY <1>19, <1>b DEF ModelRepair, Advance, RepairAllowed, RepairSpent, CallLimit, Output, Result
<1>20. CASE SourceChecks BY <1>20 DEF SourceChecks, Advance, Source, Spending, Output, Result
<1>21. CASE StartPreview BY <1>21 DEF StartPreview, Source, Spending, Output, Result
<1>22. CASE Behaviour BY <1>22 DEF Behaviour, Advance, Source, Spending, Output, Result
<1>23. CASE EditRecheck BY <1>23 DEF EditRecheck, Advance, Source, Spending, Output, Result
<1>24. CASE GenerateValidate BY <1>24 DEF GenerateValidate, Advance, Source, Spending, Output, Result
<1>25. CASE EditValidate BY <1>25 DEF EditValidate, EditOutcome, AfterValidation, Source, Spending, Output
<1>26. CASE NoChanges BY <1>26 DEF NoChanges, Advance, Source, Spending, Output
<1>27. ASSUME Committed PROVE TypeOK'
  <2>1. current' = {Candidate}
    BY <1>27 DEF Committed, Candidate
  <2>2. current' \subseteq Version /\ \A v, w \in current' : v = w
    BY <2>1, CandidateTyped
  <2> QED BY <1>27, <2>2 DEF Committed, Advance, Source, Spending, Output
<1>28. CASE SaveRow BY <1>28 DEF SaveRow, Advance, Source, Spending, Output
<1>29. CASE FinalizeBilling BY <1>29 DEF FinalizeBilling, Advance, Source, Spending, Output
<1>30. CASE Return BY <1>30 DEF Return, Over, Destroyed, Result
<1>31. ASSUME NEW k \in BOOLEAN, Failed(k) PROVE TypeOK'
  BY <1>31 DEF Failed, Over, Destroyed
<1>32. CASE FailGenerate BY <1>31, <1>32 DEF FailGenerate, Retained
<1>33. CASE FailEdit BY <1>31, <1>33 DEF FailEdit
<1>34. CASE UNCHANGED vars BY <1>34 DEF vars
<1> QED
  BY <1>1, <1>2, <1>3, <1>4, <1>5, <1>6, <1>7, <1>8, <1>9, <1>10, <1>11, <1>12, <1>13, <1>14, <1>15, <1>16,
     <1>17, <1>18, <1>19, <1>20, <1>21, <1>22, <1>23, <1>24, <1>25, <1>26, <1>27, <1>28, <1>29, <1>30,
     <1>32, <1>33, <1>34
  DEF Next, GenerateCommit, EditCommit

-----------------------------------------------------------------------------
(* The invariant is inductive *)

LEMMA RunStart ==
  ASSUME Init
  PROVE  RunIInv
<1> USE DEF Init
<1>0. None \in Request BY DEF None, Request
<1>1. \A d \in SUBSET AutoFixed : [src |-> d, by |-> Template, repaired |-> FALSE] \in Version
  BY DEF Version, AutoFixed, Defects
<1>2. TypeOK
  <2>1. current \subseteq Version /\ \A v, w \in current : v = w
    <3>1. CASE current = {} BY <3>1
    <3>2. CASE current \in {{[src |-> d, by |-> Template, repaired |-> FALSE]} : d \in SUBSET AutoFixed}
      <4>1. PICK d \in SUBSET AutoFixed : current = {[src |-> d, by |-> Template, repaired |-> FALSE]}
        BY <3>2
      <4>2. [src |-> d, by |-> Template, repaired |-> FALSE] \in Version BY <1>1
      <4> HIDE DEF Init
      <4> QED BY <4>1, <4>2
    <3> QED BY <3>1, <3>2 DEF Init
  <2> HIDE DEF Init
  <2>2. /\ req = None /\ stage = "idle" /\ src = {} /\ touched = {} /\ calls = 0 /\ repairs = 0
        /\ build = "none" /\ dist = {} /\ outcome = "none" /\ env = "none" /\ row = "none"
        /\ committed = FALSE /\ charged = FALSE
    BY DEF Init
  <2>3. req \in Request /\ stage \in Stages /\ calls \in 0..3 /\ repairs \in 0..MaxBuildRepairs
    BY <1>0, <2>2, RepairsAssumption DEF Stages
  <2> QED BY <2>1, <2>2, <2>3 DEF TypeOK
<1>3. KindOfStage /\ StaticBehind /\ BuiltBehind /\ SourceBehind /\ RunBehind /\ OutcomeBehind
  BY DEF KindOfStage, StaticBehind, BuiltBehind, SourceBehind, RunBehind, OutcomeBehind,
         AfterStatic, AfterBuild, AfterSource, AfterRun, AfterOutcome, AfterCommit
<1>4. Recorded
  BY DEF Recorded, AfterCommit
<1>5. CurrentIsGated
  BY DEF CurrentIsGated, Gated, Excluded
<1>6. EnvironmentOwned
  BY DEF EnvironmentOwned
<1> QED BY <1>2, <1>3, <1>4, <1>5, <1>6 DEF RunIInv

\* What is behind a candidate stays so.
Behind == StaticBehind /\ BuiltBehind /\ SourceBehind /\ RunBehind /\ OutcomeBehind

LEMMA BehindStep ==
  ASSUME RunIInv, [Next]_vars
  PROVE  KindOfStage' /\ Behind'
<1> USE RepairsAssumption DEF RunIInv, KindOfStage, Behind, StaticBehind, BuiltBehind, SourceBehind, RunBehind, OutcomeBehind,
        AfterStatic, AfterBuild, AfterSource, AfterRun, AfterOutcome, AfterCommit, Passes, TypeOK
<1>0. \A s, g \in SUBSET Defects : s \cap g = {} => \A t \in SUBSET Defects : (s \ t) \cap g = {}
  OBVIOUS
<1>1. ASSUME NEW r \in Requests, Submit(r) PROVE KindOfStage' /\ Behind'
  BY <1>1 DEF Submit, Advance
<1>2. CASE GenerateChecks BY <1>2 DEF GenerateChecks
<1>3. CASE EditChecks BY <1>3 DEF EditChecks, Advance
<1>4. CASE Plan BY <1>4 DEF Plan, Advance
<1>5. CASE CreateEnvironment BY <1>5 DEF CreateEnvironment, Advance
<1>6. CASE Seed BY <1>6 DEF Seed, Advance
<1>7. CASE Restore BY <1>7 DEF Restore, Advance
<1>8. CASE BeginRun BY <1>8 DEF BeginRun, Advance
<1>9. CASE PrimaryCall BY <1>9 DEF PrimaryCall, Advance
<1>10. CASE Materialize BY <1>10 DEF Materialize, Advance
<1>11. CASE RequirementRepair BY <1>11 DEF RequirementRepair, Advance
<1>12. CASE RequirementsMet BY <1>12 DEF RequirementsMet, Advance
<1>13. CASE RuntimeOutcome BY <1>13 DEF RuntimeOutcome, Advance
<1>14. CASE Autofix BY <1>14 DEF Autofix, Advance
<1>15. CASE StaticChecks BY <1>15 DEF StaticChecks, Advance, Source, Spending
<1>16. CASE Build BY <1>16 DEF Build, Compiled, Source, Spending
<1>17. CASE DeterministicRepair BY <1>17 DEF DeterministicRepair, Fixed, Spending
<1>18. CASE Rebuild BY <1>18 DEF Rebuild, Compiled, Source, Spending
<1>19. CASE ModelRepair BY <1>19 DEF ModelRepair, Advance, RepairSpent
<1>20. CASE SourceChecks BY <1>20 DEF SourceChecks, Advance, Source, Spending, Output
<1>21. CASE StartPreview BY <1>21 DEF StartPreview, Source, Spending, Output, Request
<1>22. CASE Behaviour BY <1>22 DEF Behaviour, Advance, Source, Spending, Output, EditGate
<1>23. CASE EditRecheck BY <1>23 DEF EditRecheck, Advance, Source, Spending, Output
<1>24. CASE GenerateValidate BY <1>24 DEF GenerateValidate, Advance, Source, Spending, Output, UploadGate, OutcomeGate
<1>25. CASE EditValidate BY <1>25 DEF EditValidate, EditOutcome, AfterValidation, Assessed, Source, Spending, Output
<1>26. CASE NoChanges BY <1>26 DEF NoChanges, Advance
<1>27. ASSUME Committed PROVE KindOfStage' /\ Behind'
  BY <1>27 DEF Committed, Advance, Source, Spending, Output
<1>28. CASE SaveRow BY <1>28 DEF SaveRow, Advance, Source, Spending, Output
<1>29. CASE FinalizeBilling BY <1>29 DEF FinalizeBilling, Advance
<1>30. CASE Return BY <1>30 DEF Return, Over
<1>31. ASSUME NEW k \in BOOLEAN, Failed(k) PROVE KindOfStage' /\ Behind'
  BY <1>31 DEF Failed, Over
<1>32. CASE FailGenerate BY <1>31, <1>32 DEF FailGenerate, Retained
<1>33. CASE FailEdit BY <1>31, <1>33 DEF FailEdit
<1>34. CASE UNCHANGED vars BY <1>34 DEF vars
<1> QED
  BY <1>1, <1>2, <1>3, <1>4, <1>5, <1>6, <1>7, <1>8, <1>9, <1>10, <1>11, <1>12, <1>13, <1>14, <1>15, <1>16,
     <1>17, <1>18, <1>19, <1>20, <1>21, <1>22, <1>23, <1>24, <1>25, <1>26, <1>27, <1>28, <1>29, <1>30,
     <1>32, <1>33, <1>34
  DEF Next, GenerateCommit, EditCommit

\* The steps that leave the current version and the record of the run alone.
Underway ==
  /\ stage \notin {"idle"} \cup AfterCommit \cup {"commit", "unchanged", "validate", "return"}
  /\ stage' \notin {"idle"} \cup AfterCommit \cup {"return", "unchanged"}
  /\ env' \in {env, "live"}
  /\ UNCHANGED <<req, current, outcome, row, committed, charged>>

LEMMA UnderwayStep ==
  ASSUME \/ GenerateChecks \/ EditChecks \/ Plan \/ CreateEnvironment \/ Seed \/ Restore \/ BeginRun
         \/ PrimaryCall \/ Materialize \/ RequirementRepair \/ RequirementsMet \/ RuntimeOutcome
         \/ Autofix \/ StaticChecks \/ Build \/ DeterministicRepair \/ Rebuild \/ ModelRepair
         \/ SourceChecks \/ StartPreview \/ Behaviour \/ EditRecheck
  PROVE  Underway /\ UNCHANGED committed
<1> USE DEF Underway, Advance, Result, AfterCommit
<1>1. CASE GenerateChecks \/ EditChecks \/ Plan \/ CreateEnvironment \/ Seed \/ Restore \/ BeginRun
  BY <1>1 DEF GenerateChecks, EditChecks, Plan, CreateEnvironment, Seed, Restore, BeginRun
<1>2. CASE PrimaryCall \/ Materialize \/ RequirementRepair \/ RequirementsMet \/ RuntimeOutcome
  BY <1>2 DEF PrimaryCall, Materialize, RequirementRepair, RequirementsMet, RuntimeOutcome
<1>3. CASE Autofix \/ StaticChecks \/ Build \/ DeterministicRepair \/ Rebuild \/ ModelRepair
  BY <1>3 DEF Autofix, StaticChecks, Build, DeterministicRepair, Rebuild, ModelRepair, Compiled
<1>4. CASE SourceChecks \/ StartPreview \/ Behaviour \/ EditRecheck
  BY <1>4 DEF SourceChecks, StartPreview, Behaviour, EditRecheck
<1> QED BY <1>1, <1>2, <1>3, <1>4

LEMMA UnderwayRecorded ==
  ASSUME RunIInv, Underway
  PROVE  Recorded' /\ CurrentIsGated' /\ EnvironmentOwned'
<1>1. ~committed
  BY DEF Underway, RunIInv, Recorded, AfterCommit
<1>2. Recorded'
  BY <1>1 DEF Underway, RunIInv, Recorded, AfterCommit
<1> QED BY <1>2 DEF Underway, RunIInv, CurrentIsGated, EnvironmentOwned

LEMMA RecordStep ==
  ASSUME RunIInv, TypeOK', [Next]_vars
  PROVE  Recorded' /\ CurrentIsGated' /\ EnvironmentOwned'
<1> DEFINE Goal == Recorded' /\ CurrentIsGated' /\ EnvironmentOwned'
<1> USE DEF RunIInv
<1>1. ASSUME NEW r \in Requests, Submit(r) PROVE Goal
  BY <1>1 DEF Submit, Advance, Recorded, CurrentIsGated, EnvironmentOwned, AfterCommit
<1>2. ASSUME \/ GenerateChecks \/ EditChecks \/ Plan \/ CreateEnvironment \/ Seed \/ Restore \/ BeginRun
             \/ PrimaryCall \/ Materialize \/ RequirementRepair \/ RequirementsMet \/ RuntimeOutcome
             \/ Autofix \/ StaticChecks \/ Build \/ DeterministicRepair \/ Rebuild \/ ModelRepair
             \/ SourceChecks \/ StartPreview \/ Behaviour \/ EditRecheck
      PROVE Goal
  BY <1>2, UnderwayStep, UnderwayRecorded
<1>3. CASE GenerateValidate
  BY <1>3 DEF GenerateValidate, Advance, Result, Recorded, CurrentIsGated, EnvironmentOwned, AfterCommit
<1>4. CASE EditValidate
  BY <1>4 DEF EditValidate, EditOutcome, AfterValidation, Recorded, CurrentIsGated, EnvironmentOwned, AfterCommit
<1>5. CASE NoChanges
  BY <1>5 DEF NoChanges, Advance, Recorded, CurrentIsGated, EnvironmentOwned, AfterCommit
<1>6. ASSUME Committed PROVE Goal
  <2>1. stage = "commit" BY <1>6 DEF Committed, Advance
  <2>2. Gated(Candidate) BY <2>1, CandidateGated
  <2>3. current' = {Candidate} /\ Candidate' = Candidate
    BY <1>6 DEF Committed, Candidate, Source, Spending
  <2>4. CurrentIsGated' BY <2>2, <2>3 DEF CurrentIsGated, Gated, Excluded
  <2>5. Gated(Candidate)' BY <2>2, <2>3 DEF Gated
  <2>6. build = "ok" /\ dist = src /\ ~charged /\ outcome # "NO_CHANGES_REQUIRED"
    BY <2>1 DEF BuiltBehind, AfterBuild, AfterSource, AfterRun, AfterOutcome, Recorded, AfterCommit
  <2>7. Recorded' BY <1>6, <2>3, <2>5, <2>6 DEF Committed, Advance, Recorded, AfterCommit, Output, Source
  <2> QED BY <1>6, <2>4, <2>7 DEF Committed, Advance, EnvironmentOwned
<1>7. CASE SaveRow
  <2>1. Candidate' = Candidate BY <1>7 DEF SaveRow, Candidate, Source, Spending
  <2> QED BY <1>7, <2>1 DEF SaveRow, Advance, Source, Output, Recorded, CurrentIsGated, EnvironmentOwned, AfterCommit, Gated
<1>8. CASE FinalizeBilling
  <2>1. Candidate' = Candidate BY <1>8 DEF FinalizeBilling, Candidate, Source, Spending
  <2> QED BY <1>8, <2>1 DEF FinalizeBilling, Advance, Source, Output, Recorded, CurrentIsGated, EnvironmentOwned, AfterCommit, Gated
<1>9. CASE Return
  BY <1>9 DEF Return, Over, Destroyed, Result, Recorded, CurrentIsGated, EnvironmentOwned, AfterCommit
<1>10. ASSUME NEW k \in BOOLEAN, Failed(k), k => Retained PROVE Goal
  <2>1. Recorded' BY <1>10 DEF Failed, Over, Recorded, AfterCommit
  <2>2. EnvironmentOwned' BY <1>10 DEF Failed, Destroyed, Retained, EnvironmentOwned, Recorded, AfterCommit, TypeOK
  <2> QED BY <1>10, <2>1, <2>2 DEF Failed, CurrentIsGated
<1>11. CASE FailGenerate BY <1>10, <1>11 DEF FailGenerate, Retained
<1>12. CASE FailEdit BY <1>10, <1>12 DEF FailEdit
<1>13. CASE UNCHANGED vars
  BY <1>13 DEF vars, Recorded, Candidate, CurrentIsGated, EnvironmentOwned
<1> QED BY <1>1, <1>2, <1>3, <1>4, <1>5, <1>6, <1>7, <1>8, <1>9, <1>11, <1>12, <1>13
  DEF Next, GenerateCommit, EditCommit

\* The inductive invariant holds of every run.
THEOREM RunInductive == Spec => []RunIInv
<1>1. Init => RunIInv BY RunStart
<1>2. RunIInv /\ [Next]_vars => RunIInv'
  BY RunTypeStep, BehindStep, RecordStep DEF RunIInv, Behind
<1> QED BY <1>1, <1>2, PTL DEF Spec

\* The fields of every state are of their types, whatever the requests, the
\* proposals and the allowance.
THEOREM RunTypesCorrect == Spec => []TypeOK
BY RunInductive, PTL DEF RunIInv

\* Whatever is proposed, repaired and rebuilt, the current version has nothing
\* that the gates of the run behind it reject.
THEOREM CurrentAlwaysGated == Spec => []CurrentIsGated
BY RunInductive, PTL DEF RunIInv

\* A committed version is the source its environment built last.
THEOREM CommitsWhatWasBuilt == Spec => []CommittedAsBuilt
<1>1. RunIInv => CommittedAsBuilt
  <2> SUFFICES ASSUME RunIInv, committed, stage # "idle"
               PROVE  build = "ok" /\ \A v \in current : v.src = dist
    BY DEF CommittedAsBuilt
  <2>1. current = {Candidate} /\ build = "ok" /\ dist = src
    BY DEF RunIInv, Recorded
  <2> QED BY <2>1 DEF Candidate
<1> QED BY <1>1, RunInductive, PTL

\* A charge implies a committed version and a saved row.
THEOREM ChargesFollowCommits == Spec => []ChargeFollowsCommit
<1>1. RunIInv => ChargeFollowsCommit
  BY DEF RunIInv, Recorded, ChargeFollowsCommit
<1> QED BY <1>1, RunInductive, PTL

\* An environment outlives its run only in the caller's hands, with a job that
\* succeeded, because destroying it threw, or in generate's window between the
\* commit and the charge.
THEOREM EnvironmentsOwned == Spec => []EnvironmentOwned
BY RunInductive, PTL DEF RunIInv

-----------------------------------------------------------------------------
(* The run implements CurrentSource *)

Verdict == IF stage = "idle" THEN "none" ELSE IF committed THEN "accepted" ELSE "open"

LEMMA RefinesInit ==
  ASSUME Init
  PROVE  CurrentOnly!Init
<1>1. TypeOK /\ CurrentIsGated
  BY RunStart DEF RunIInv
<1>2. current \subseteq {v \in Version : Gated(v)} /\ \A v, w \in current : v = w
  BY <1>1 DEF TypeOK, CurrentIsGated
<1>3. stage = "idle" BY DEF Init
<1> QED BY <1>1, <1>2, <1>3, CandidateTyped DEF CurrentOnly!Init, Candidate

\* While the run has not committed, whatever it does to its candidate is a
\* rework, or invisible.
LEMMA RefinesOpen ==
  ASSUME Candidate' \in Version, ~committed, ~committed', stage # "idle", stage' # "idle", UNCHANGED current
  PROVE  CurrentOnly!Next
BY DEF CurrentOnly!Next, CurrentOnly!Rework, Candidate

LEMMA RefinesStep ==
  ASSUME RunIInv, RunIInv', [Next]_vars
  PROVE  [CurrentOnly!Next]_(CurrentOnly!vars)
<1> DEFINE Goal == [CurrentOnly!Next]_(CurrentOnly!vars)
<1>0. TypeOK /\ TypeOK' /\ Candidate \in Version /\ Candidate' \in Version
  <2>1. TypeOK /\ TypeOK' BY DEF RunIInv
  <2>2. TypeOK => Candidate \in Version BY CandidateTyped
  <2>3. TypeOK' => Candidate' \in Version BY <2>2, RepairsAssumption DEF TypeOK, Candidate, Version
  <2> QED BY <2>1, <2>2, <2>3
<1>1. ASSUME NEW r \in Requests, Submit(r) PROVE CurrentOnly!Open
  BY <1>0, <1>1 DEF Submit, Advance, CurrentOnly!Open, Candidate
<1>2. ASSUME Underway, UNCHANGED committed PROVE Goal
  <2>1. ~committed /\ stage # "idle" /\ stage' # "idle"
    BY <1>2 DEF Underway, RunIInv, Recorded, AfterCommit
  <2> QED BY <1>0, <1>2, <2>1, RefinesOpen DEF Underway
<1>3. ASSUME \/ GenerateChecks \/ EditChecks \/ Plan \/ CreateEnvironment \/ Seed \/ Restore \/ BeginRun
             \/ PrimaryCall \/ Materialize \/ RequirementRepair \/ RequirementsMet \/ RuntimeOutcome
             \/ Autofix \/ StaticChecks \/ Build \/ DeterministicRepair \/ Rebuild \/ ModelRepair
             \/ SourceChecks \/ StartPreview \/ Behaviour \/ EditRecheck
      PROVE Goal
  <2>1. Underway /\ UNCHANGED committed BY <1>3, UnderwayStep
  <2> QED BY <1>2, <2>1
<1>4. ASSUME GenerateValidate \/ EditValidate \/ NoChanges PROVE Goal
  <2>1. ~committed /\ stage # "idle"
    BY <1>4 DEF GenerateValidate, EditValidate, NoChanges, Advance, RunIInv, Recorded, AfterCommit
  <2>2. ~committed' /\ stage' # "idle" /\ UNCHANGED current
    BY <1>4, <2>1 DEF GenerateValidate, EditValidate, NoChanges, Advance, AfterValidation, Result
  <2> QED BY <1>0, <2>1, <2>2, RefinesOpen
<1>5. ASSUME Committed PROVE CurrentOnly!Accept
  <2>1. stage = "commit" /\ Gated(Candidate) /\ ~committed
    BY <1>5, CandidateGated DEF Committed, Advance, RunIInv, Recorded, AfterCommit
  <2>2. current' = {Candidate} /\ Candidate' = Candidate /\ stage' # "idle" /\ committed'
    BY <1>5 DEF Committed, Advance, Candidate, Source, Spending
  <2> QED BY <1>0, <2>1, <2>2 DEF CurrentOnly!Accept, Candidate
<1>6. ASSUME SaveRow \/ FinalizeBilling PROVE UNCHANGED CurrentOnly!vars
  BY <1>6 DEF SaveRow, FinalizeBilling, Advance, Source, Spending, CurrentOnly!vars
<1>7. ASSUME stage # "idle", stage' = "idle", UNCHANGED current PROVE CurrentOnly!Close
  BY <1>0, <1>7 DEF CurrentOnly!Close, Candidate
<1>8. ASSUME Return \/ FailGenerate \/ FailEdit PROVE CurrentOnly!Close
  BY <1>7, <1>8 DEF Return, FailGenerate, FailEdit, Failed, Over, Result
<1>9. CASE UNCHANGED vars
  BY <1>9 DEF vars, CurrentOnly!vars
<1> QED BY <1>1, <1>3, <1>4, <1>5, <1>6, <1>8, <1>9
  DEF Next, GenerateCommit, EditCommit, CurrentOnly!Next

\* Every run implements the promise: the current source is only ever replaced
\* by a candidate that passed the gates, and at most once.
THEOREM Refinement == Spec => ReplacesOnlyWhenAccepted
<1>1. Init => CurrentOnly!Init BY RefinesInit
<1>2. RunIInv /\ RunIInv' /\ [Next]_vars => [CurrentOnly!Next]_(CurrentOnly!vars) BY RefinesStep
<1> QED BY <1>1, <1>2, RunInductive, PTL DEF Spec, ReplacesOnlyWhenAccepted, CurrentOnly!Spec

-----------------------------------------------------------------------------
(* BrowserQA: the list of checks *)

AllChecks ==
  {PageError, ConsoleError, FailedRequest, RouteLoad, InternalLinks,
   Overflow, InteractionSmoke, MobileNav, FormSmoke, SafetyEvents,
   BrokenImages, Accessibility, MeaningfulContent, PrimaryNavigation,
   Controls, RequirementAdvisories, SeriousConsole, LocalResources, TemplateContent,
   BlockingOverflow, LocalImages, BlockingInteraction, PreviewCapture}

Has(list, c) == \E k \in DOMAIN list : list[k] = c

\* Joining two lists of checks loses none of them.
LEMMA Joined ==
  ASSUME NEW S, NEW s \in Seq(S), NEW t \in Seq(S)
  PROVE  s \o t \in Seq(S) /\ \A c : Has(s, c) \/ Has(t, c) => Has(s \o t, c)
<1>1. s \o t \in Seq(S) /\ Len(s \o t) = Len(s) + Len(t)
  OBVIOUS
<1>2. ASSUME NEW c, NEW k \in DOMAIN s, s[k] = c
      PROVE  Has(s \o t, c)
  <2>1. k \in DOMAIN (s \o t) /\ (s \o t)[k] = c BY <1>1, <1>2
  <2>2. QED BY <2>1 DEF Has
<1>3. ASSUME NEW c, NEW k \in DOMAIN t, t[k] = c
      PROVE  Has(s \o t, c)
  <2>1. k + Len(s) \in DOMAIN (s \o t) /\ (s \o t)[k + Len(s)] = c BY <1>1, <1>3
  <2>2. QED BY <2>1 DEF Has
<1>4. QED BY <1>1, <1>2, <1>3 DEF Has

LEMMA ListParts ==
  /\ CoreChecks \in Seq(AllChecks) /\ Has(CoreChecks, PageError)
  /\ InteractionChecks \in Seq(AllChecks) /\ Has(InteractionChecks, SafetyEvents)
  /\ RuntimeChecks \in Seq(AllChecks)
<1> DEFINE A == AllChecks
<1>1. /\ PageError \in A /\ ConsoleError \in A /\ FailedRequest \in A /\ RouteLoad \in A
      /\ InternalLinks \in A /\ Overflow \in A /\ InteractionSmoke \in A /\ MobileNav \in A
      /\ FormSmoke \in A /\ SafetyEvents \in A /\ BrokenImages \in A /\ Accessibility \in A
  BY Zenon DEF AllChecks
<1> HIDE DEF A
<1>2. CoreChecks \in Seq(A) /\ 1 \in DOMAIN CoreChecks /\ CoreChecks[1] = PageError
  BY <1>1 DEF CoreChecks
<1>3. InteractionChecks \in Seq(A) /\ 5 \in DOMAIN InteractionChecks
      /\ InteractionChecks[5] = SafetyEvents
  BY <1>1 DEF InteractionChecks
<1>4. RuntimeChecks \in Seq(A)
  <2>1. CASE HasAssets
    <3>1. <<BrokenImages>> \in Seq(A) /\ <<Accessibility>> \in Seq(A) BY <1>1
    <3>2. RuntimeChecks = <<BrokenImages>> \o <<Accessibility>> BY <2>1 DEF RuntimeChecks
    <3>3. QED BY <3>1, <3>2, Joined
  <2>2. CASE ~HasAssets
    <3>1. << >> \in Seq(A) /\ <<Accessibility>> \in Seq(A) BY <1>1
    <3>2. RuntimeChecks = << >> \o <<Accessibility>> BY <2>2 DEF RuntimeChecks
    <3>3. QED BY <3>1, <3>2, Joined
  <2>3. QED BY <2>1, <2>2
<1>5. QED
  BY <1>2, <1>3, <1>4 DEF A, Has

\* Every list of checks is made of the checks above and has the two that judge
\* page errors and popups.
LEMMA ListedChecks ==
  Checks \in Seq(AllChecks) /\ Has(Checks, PageError) /\ Has(Checks, SafetyEvents)
<1>1. MeaningfulContent \in AllChecks /\ PrimaryNavigation \in AllChecks
      /\ Controls \in AllChecks /\ RequirementAdvisories \in AllChecks
  BY Zenon DEF AllChecks
<1> DEFINE more == <<MeaningfulContent, PrimaryNavigation>>
           last == <<Controls, RequirementAdvisories>>
<1>2. more \in Seq(AllChecks) /\ last \in Seq(AllChecks)
  BY <1>1
<1> HIDE DEF more, last
<1>3. CASE acceptance = "STRICT"
  <2>1. Checks = (CoreChecks \o InteractionChecks) \o RuntimeChecks
    BY <1>3 DEF Checks, StrictChecks
  <2> DEFINE l1 == CoreChecks \o InteractionChecks
  <2>2. l1 \in Seq(AllChecks) /\ Has(l1, PageError) /\ Has(l1, SafetyEvents)
    BY ListParts, Joined
  <2> HIDE DEF l1
  <2>3. l1 \o RuntimeChecks \in Seq(AllChecks) /\ Has(l1 \o RuntimeChecks, PageError)
        /\ Has(l1 \o RuntimeChecks, SafetyEvents)
    BY <2>2, ListParts, Joined
  <2>4. QED BY <2>1, <2>3 DEF l1
<1>4. CASE acceptance \notin {"STRICT", "TEMPLATE"}
  <2>1. Checks = (((CoreChecks \o more) \o InteractionChecks) \o RuntimeChecks) \o last
    BY <1>4 DEF Checks, GenerationChecks, more, last
  <2> DEFINE l1 == CoreChecks \o more
             l2 == l1 \o InteractionChecks
             l3 == l2 \o RuntimeChecks
             l4 == l3 \o last
  <2>2. l1 \in Seq(AllChecks) /\ Has(l1, PageError)
    BY <1>2, ListParts, Joined
  <2> HIDE DEF l1
  <2>3. l2 \in Seq(AllChecks) /\ Has(l2, PageError) /\ Has(l2, SafetyEvents)
    BY <2>2, ListParts, Joined
  <2> HIDE DEF l2
  <2>4. l3 \in Seq(AllChecks) /\ Has(l3, PageError) /\ Has(l3, SafetyEvents)
    BY <2>3, ListParts, Joined
  <2> HIDE DEF l3
  <2>5. l4 \in Seq(AllChecks) /\ Has(l4, PageError) /\ Has(l4, SafetyEvents)
    BY <2>4, <1>2, Joined
  <2>6. QED BY <2>1, <2>5 DEF l1, l2, l3, l4
<1>5. CASE acceptance = "TEMPLATE"
  <2>1. TemplateChecks \in Seq(AllChecks)
    <3>1. /\ PageError \in AllChecks /\ SeriousConsole \in AllChecks /\ LocalResources \in AllChecks
          /\ RouteLoad \in AllChecks /\ TemplateContent \in AllChecks
          /\ BlockingOverflow \in AllChecks /\ LocalImages \in AllChecks
          /\ BlockingInteraction \in AllChecks /\ SafetyEvents \in AllChecks
          /\ PreviewCapture \in AllChecks
      BY Zenon DEF AllChecks
    <3>2. QED BY <3>1 DEF TemplateChecks
  <2>2. /\ 1 \in DOMAIN TemplateChecks /\ TemplateChecks[1] = PageError
        /\ 9 \in DOMAIN TemplateChecks /\ TemplateChecks[9] = SafetyEvents
    BY DEF TemplateChecks
  <2>3. QED BY <1>5, <2>1, <2>2 DEF Checks, Has
<1>6. QED BY <1>3, <1>4, <1>5

\* The three fields of every check that the proof reads.
Is(c, id, own, home) == c.id = id /\ c.own = own /\ c.home = home

LEMMA FieldsOfChecks ==
  /\ Is(PageError, "runtime.page-error", FALSE, FALSE)
  /\ Is(ConsoleError, "runtime.console-error", FALSE, FALSE)
  /\ Is(FailedRequest, "network.failed-request", FALSE, FALSE)
  /\ Is(RouteLoad, "route.load", FALSE, FALSE)
  /\ Is(InternalLinks, "internal-links", FALSE, FALSE)
  /\ Is(Overflow, "responsive-overflow", FALSE, FALSE)
  /\ Is(InteractionSmoke, "interaction-smoke", TRUE, FALSE)
  /\ Is(MobileNav, "interaction.mobile-nav", TRUE, FALSE)
  /\ Is(FormSmoke, "form-smoke", TRUE, FALSE)
  /\ Is(SafetyEvents, "browser-safety-events", TRUE, FALSE)
  /\ Is(BrokenImages, "broken-images", FALSE, FALSE)
  /\ Is(Accessibility, "accessibility-smoke", FALSE, FALSE)
  /\ Is(MeaningfulContent, "generation.meaningful-content", FALSE, FALSE)
  /\ Is(PrimaryNavigation, "generation.primary-navigation", TRUE, TRUE)
  /\ Is(Controls, "functional.controls", TRUE, FALSE)
  /\ Is(RequirementAdvisories, "generation.requirement-advisories", TRUE, TRUE)
  /\ Is(SeriousConsole, "template.console-error", FALSE, FALSE)
  /\ Is(LocalResources, "template.local-resources", FALSE, FALSE)
  /\ Is(TemplateContent, "template.meaningful-content", FALSE, FALSE)
  /\ Is(BlockingOverflow, "responsive-overflow", FALSE, FALSE)
  /\ Is(LocalImages, "template.broken-images", FALSE, FALSE)
  /\ Is(BlockingInteraction, "interaction-smoke", TRUE, FALSE)
  /\ Is(PreviewCapture, "template.preview-capture", FALSE, FALSE)
<1>1. Is(PageError, "runtime.page-error", FALSE, FALSE) BY DEF Is, PageError, Check
<1>2. Is(ConsoleError, "runtime.console-error", FALSE, FALSE) BY DEF Is, ConsoleError, Check
<1>3. Is(FailedRequest, "network.failed-request", FALSE, FALSE) BY DEF Is, FailedRequest, Check
<1>4. Is(RouteLoad, "route.load", FALSE, FALSE) BY DEF Is, RouteLoad, Check
<1>5. Is(InternalLinks, "internal-links", FALSE, FALSE) BY DEF Is, InternalLinks, Check
<1>6. Is(Overflow, "responsive-overflow", FALSE, FALSE) BY DEF Is, Overflow, Check
<1>7. Is(InteractionSmoke, "interaction-smoke", TRUE, FALSE) BY DEF Is, InteractionSmoke, Check, Interaction
<1>8. Is(MobileNav, "interaction.mobile-nav", TRUE, FALSE) BY DEF Is, MobileNav, Check, Interaction
<1>9. Is(FormSmoke, "form-smoke", TRUE, FALSE) BY DEF Is, FormSmoke, Check, Interaction
<1>10. Is(SafetyEvents, "browser-safety-events", TRUE, FALSE) BY DEF Is, SafetyEvents, Check, Interaction
<1>11. Is(BrokenImages, "broken-images", FALSE, FALSE) BY DEF Is, BrokenImages, Check
<1>12. Is(Accessibility, "accessibility-smoke", FALSE, FALSE) BY DEF Is, Accessibility, Check
<1>13. Is(MeaningfulContent, "generation.meaningful-content", FALSE, FALSE) BY DEF Is, MeaningfulContent, Check
<1>14. Is(PrimaryNavigation, "generation.primary-navigation", TRUE, TRUE) BY DEF Is, PrimaryNavigation, Check, Interaction
<1>15. Is(Controls, "functional.controls", TRUE, FALSE) BY DEF Is, Controls, Check, Interaction
<1>16. Is(RequirementAdvisories, "generation.requirement-advisories", TRUE, TRUE) BY DEF Is, RequirementAdvisories, Check, Interaction
<1>17. Is(SeriousConsole, "template.console-error", FALSE, FALSE) BY DEF Is, SeriousConsole, Check
<1>18. Is(LocalResources, "template.local-resources", FALSE, FALSE) BY DEF Is, LocalResources, Check
<1>19. Is(TemplateContent, "template.meaningful-content", FALSE, FALSE) BY DEF Is, TemplateContent, Check
<1>20. Is(BlockingOverflow, "responsive-overflow", FALSE, FALSE) BY DEF Is, BlockingOverflow, Check, Overflow
<1>21. Is(LocalImages, "template.broken-images", FALSE, FALSE) BY DEF Is, LocalImages, Check
<1>22. Is(BlockingInteraction, "interaction-smoke", TRUE, FALSE) BY DEF Is, BlockingInteraction, Check, Interaction, InteractionSmoke
<1>23. Is(PreviewCapture, "template.preview-capture", FALSE, FALSE) BY DEF Is, PreviewCapture, Check
<1>24. QED BY <1>1, <1>2, <1>3, <1>4, <1>5, <1>6, <1>7, <1>8, <1>9, <1>10, <1>11, <1>12, <1>13, <1>14, <1>15, <1>16, <1>17, <1>18, <1>19, <1>20, <1>21, <1>22, <1>23

LEMMA KindsOfChecks ==
  ASSUME NEW c \in AllChecks
  PROVE  /\ c.id \in Finals => ~c.own /\ c.id \in Readers
         /\ c.id \in {FailedRequest.id, SafetyEvents.id} => c.id \in Readers
         /\ c.id = FailedRequest.id => ~c.own
         /\ c.id \in {PageError.id, SafetyEvents.id} => ~c.home
         /\ c.id = SafetyEvents.id => c.id \notin Finals \cup AdvisoryChecks
<1>1. c.id \in Finals => ~c.own /\ c.id \in Readers
  BY FieldsOfChecks DEF AllChecks, Is, Finals, Readers
<1>2. c.id \in {FailedRequest.id, SafetyEvents.id} => c.id \in Readers
  BY DEF Readers
<1>3. c.id = FailedRequest.id => ~c.own
  BY FieldsOfChecks DEF AllChecks, Is
<1>4. c.id \in {PageError.id, SafetyEvents.id} => ~c.home
  BY FieldsOfChecks DEF AllChecks, Is
<1>5. c.id = SafetyEvents.id => c.id \notin Finals \cup AdvisoryChecks
  BY FieldsOfChecks DEF Is, Finals, AdvisoryChecks
<1>6. QED BY <1>1, <1>2, <1>3, <1>4, <1>5

-----------------------------------------------------------------------------
(* The inductive invariant *)

InPage == qaPhase \in {"loading", "checking", "probing"}
Looking == qaPhase \in {"checking", "probing"}
Covered(p) == \A k \in DOMAIN Checks : <<p, Checks[k].id>> \in checked
Pending(id) == \E k \in todo : Checks[k].id = id

PageInRange == (InPage => page \in Pages) /\ (qaPhase = "next" => page >= 1)

\* While nothing blocks, no check of a page that was left is missing.
PagesBehind ==
  (qaPhase = "next" \/ InPage) /\ ~blocking => \A p \in Pages : p < page => Covered(p)
ChecksBehind ==
  Looking /\ ~blocking =>
    \A k \in DOMAIN Checks : k \in todo \/ <<page, Checks[k].id>> \in checked
AllBehind ==
  qaPhase \in {"closing", "over"} /\ ~blocking => \A p \in Pages : Covered(p)

\* A deadline that passed is in the report, or its flag will be read.
OverrunKnown == overrun => blocking \/ (expired /\ InPage)

\* Once the check that judges errors ran, only readers of events are left; and
\* so for popups in a generation.
ErrorsLast == Looking /\ ~Pending(PageError.id) => \A k \in todo : Checks[k].id \in Finals
PopupsLast ==
  Looking /\ acceptance = "USABLE_GENERATION" /\ ~Pending(SafetyEvents.id) =>
    \A k \in todo : Checks[k].id \in Finals \cup {FailedRequest.id, SafetyEvents.id}

\* What was raised is in the report, or will be judged.
ErrorsKnown ==
  "error" \in raised => blocking \/ (Looking /\ "error" \in events /\ Pending(PageError.id))
PopupsKnown ==
  acceptance = "USABLE_GENERATION" /\ "popup" \in raised =>
    blocking \/ (Looking /\ "popup" \in events /\ Pending(SafetyEvents.id))

QAReported == Accepted => qaPhase = "over" /\ ~blocking

QAIInv ==
  /\ QATypeOK /\ PageInRange
  /\ PagesBehind /\ ChecksBehind /\ AllBehind
  /\ OverrunKnown
  /\ ErrorsLast /\ PopupsLast /\ ErrorsKnown /\ PopupsKnown
  /\ QAReported

LEMMA QAStart ==
  ASSUME QAAssumption, QAInit
  PROVE  QAIInv
<1>a. launches \in 0 .. LaunchRetries /\ page \in Nat BY DEF QAInit, QAAssumption
<1>b. todo \subseteq DOMAIN Checks BY DEF QAInit
<1>c. checked \subseteq Pages \X Ids BY DEF QAInit
<1>d. events \subseteq raised /\ raised \subseteq Kinds BY DEF QAInit
<1>1. QATypeOK BY <1>a, <1>b, <1>c, <1>d DEF QAInit, QATypeOK
<1>2. QED BY <1>1 DEF QAInit, QAIInv, PageInRange, PagesBehind, ChecksBehind, AllBehind,
  OverrunKnown, ErrorsLast, PopupsLast, ErrorsKnown, PopupsKnown, QAReported, InPage, Looking, Accepted

-----------------------------------------------------------------------------
(* What the steps rest on *)

LEMMA PageNumbers ==
  ASSUME QAAssumption
  PROVE  /\ Pages \subseteq Nat \ {0}
         /\ \A q \in Nat : q >= 1 /\ q \notin Pages => \A p \in Pages : p < q
<1> DEFINE n == Len(Viewports) * Len(Routes)
<1>1. n \in Nat
  <2>1. Len(Viewports) \in Nat /\ Len(Routes) \in Nat BY DEF QAAssumption
  <2>2. QED BY <2>1
<1>2. Pages = 1 .. n BY DEF Pages
<1> HIDE DEF n
<1>3. QED BY <1>1, <1>2

LEMMA SameChecks ==
  ASSUME acceptance' = acceptance
  PROVE  Checks' = Checks /\ Ids' = Ids /\ Pages' = Pages
BY DEF Checks, Ids, Pages

LEMMA Listed ==
  ASSUME NEW k \in DOMAIN Checks
  PROVE  Checks[k] \in AllChecks
BY ListedChecks

LEMMA OnlyReadersFollow ==
  ASSUME NEW k \in DOMAIN Checks, NextUp(k), NEW j \in todo \ {k}
  PROVE  /\ Checks[k].id = PageError.id => Checks[j].id \in Finals
         /\ acceptance = "USABLE_GENERATION" /\ Checks[k].id = SafetyEvents.id =>
              Checks[j].id \in Finals \cup {FailedRequest.id, SafetyEvents.id}
<1>1. Before(k, j) BY DEF NextUp
<1>2. Checks[k].id = PageError.id => Checks[j].id \in Finals
  BY <1>1 DEF Before, Rank, Finals
<1>3. acceptance = "USABLE_GENERATION" /\ Checks[k].id = SafetyEvents.id =>
        Checks[j].id \in Finals \cup {FailedRequest.id, SafetyEvents.id}
  BY <1>1, KindsOfChecks, Listed DEF Before, Rank, LateChecks
<1>4. QED BY <1>2, <1>3

\* A page that is cut short leaves a failure in the report.
LEMMA CutStep ==
  ASSUME QAAssumption, QAIInv, InPage, CutShort, overrun' \in BOOLEAN
  PROVE  QAIInv'
<1>1. Checks' = Checks /\ Ids' = Ids /\ Pages' = Pages
  BY SameChecks DEF CutShort
<1>2. page \in Nat /\ page >= 1 /\ page + 1 \in Nat
  BY PageNumbers DEF QAIInv, PageInRange
<1>3. /\ blocking' /\ page' \in Nat /\ page' >= 1 /\ todo' = {} /\ qaPhase' \in {"closing", "next"}
      /\ context' = "none" /\ probe' = FALSE
  BY <1>2 DEF CutShort, LeavePage
<1>4. UNCHANGED <<acceptance, launches, browser, limit, expired, events, warned, checked, raised, report>>
  BY DEF CutShort
<1>5. blocking' \in BOOLEAN BY DEF CutShort
<1>6. QATypeOK' BY <1>1, <1>3, <1>4, <1>5 DEF QAIInv, QATypeOK
<1>7. QAReported' BY <1>4 DEF QAIInv, QAReported, InPage, Accepted
<1>8. QED BY <1>1, <1>3, <1>4, <1>6, <1>7 DEF QAIInv, PageInRange, PagesBehind, ChecksBehind, AllBehind, OverrunKnown, ErrorsLast, PopupsLast, ErrorsKnown, PopupsKnown, QAReported, InPage, Looking, Covered, Pending

\* The actions outside the checks of a page.
LEMMA FrameStep ==
  ASSUME QAAssumption, QAIInv,
         \/ Launched \/ LaunchTimesOut \/ LaunchFails
         \/ OutOfTime \/ OpenPage \/ AllVisited
         \/ DeadlineFires \/ PageThrows \/ Loads
         \/ StopAtDeadline \/ EndOfPage \/ CloseBrowser
  PROVE  QAIInv'
<1> USE DEF QAIInv, PageInRange, PagesBehind, ChecksBehind, AllBehind, OverrunKnown, ErrorsLast, PopupsLast, ErrorsKnown, PopupsKnown, QAReported, InPage, Looking, Covered, Pending, Accepted
<1>1. acceptance' = acceptance
  BY DEF Launched, LaunchTimesOut, LaunchFails, OutOfTime, OpenPage, AllVisited, DeadlineFires,
    PageThrows, Loads, StopAtDeadline, EndOfPage, CloseBrowser, CutShort
<1>2. Checks' = Checks /\ Ids' = Ids /\ Pages' = Pages
  BY <1>1, SameChecks
<1>b. (qaPhase = "next" \/ InPage) => page \in Nat /\ page >= 1 /\ page + 1 \in Nat
  BY PageNumbers DEF QATypeOK
<1>3. CASE Launched BY <1>2, <1>3, PageNumbers DEF Launched, QATypeOK, PageVars, ResultVars, History
<1>4. CASE LaunchTimesOut BY <1>2, <1>4 DEF LaunchTimesOut, QATypeOK, PageVars, ResultVars, History, QAAssumption
<1>5. CASE LaunchFails BY <1>2, <1>5 DEF LaunchFails, QATypeOK, PageVars, History
<1>6. CASE OutOfTime BY <1>2, <1>6 DEF OutOfTime, QATypeOK, PageVars
<1>7. CASE OpenPage BY <1>2, <1>7 DEF OpenPage, QATypeOK, ResultVars, History
<1>8. CASE AllVisited BY <1>2, <1>8, PageNumbers DEF AllVisited, QATypeOK, PageVars, ResultVars, History
<1>9. CASE DeadlineFires BY <1>2, <1>9 DEF DeadlineFires, QATypeOK, ResultVars
<1>10. CASE PageThrows
  <2>1. CASE DeadlinePassed
    <3>1. CutShort /\ UNCHANGED overrun /\ InPage BY <1>10, <2>1 DEF PageThrows
    <3>2. QED BY <3>1, CutStep DEF QATypeOK
  <2>2. CASE ~DeadlinePassed BY <1>2, <1>10, <2>2, <1>b DEF PageThrows, QATypeOK
  <2>3. QED BY <2>1, <2>2
<1>11. CASE Loads BY <1>2, <1>11, ListedChecks DEF Loads, QATypeOK, Has
<1>12. CASE StopAtDeadline
  <2>1. CutShort /\ UNCHANGED overrun /\ InPage BY <1>12 DEF StopAtDeadline
  <2>2. QED BY <2>1, CutStep DEF QATypeOK
<1>13. CASE EndOfPage
  <2>1. \A p \in Pages : p < page + 1 => p < page \/ p = page BY <1>13, <1>b, PageNumbers DEF EndOfPage
  <2>2. page' = page + 1 /\ qaPhase' = "next" /\ todo = {} /\ todo' = {} /\ ~expired
        /\ qaPhase = "checking" /\ context' = "none" /\ probe' = FALSE
    BY <1>13 DEF EndOfPage, LeavePage, DeadlinePassed
  <2>3. UNCHANGED <<acceptance, launches, browser, limit, expired, events, blocking, warned,
                    checked, raised, overrun, report>>
    BY <1>13 DEF EndOfPage, ResultVars, History
  <2>4. QATypeOK' BY <1>2, <1>b, <2>2, <2>3 DEF QATypeOK
  <2>5. PagesBehind' BY <1>2, <2>1, <2>2, <2>3
  <2>6. QED BY <1>2, <1>b, <2>2, <2>3, <2>4, <2>5
<1>14. CASE CloseBrowser BY <1>2, <1>14 DEF CloseBrowser, StatusOf, QATypeOK, PageVars, ResultVars, History
<1>15. QED BY <1>3, <1>4, <1>5, <1>6, <1>7, <1>8, <1>9, <1>10, <1>11, <1>12, <1>13, <1>14

\* A check that is done: it has a result, what it raised is among the events of
\* the page, and when it was the one that judges them it blocks.
PageJudged(k, seen) ==
  /\ Looking /\ NextUp(k)
  /\ checked' = checked \cup {<<page, Checks[k].id>>}
  /\ todo' = todo \ {k} /\ qaPhase' = "checking"
  /\ seen \subseteq Kinds /\ events' = events \cup seen /\ raised' = raised \cup seen
  /\ ~Checks[k].own /\ Checks[k].id \in Readers => seen = {}
  /\ Checks[k].id = PageError.id /\ "error" \in events' => blocking'
  /\ Checks[k].id = SafetyEvents.id /\ "popup" \in events' => blocking'
  /\ (blocking => blocking') /\ blocking' \in BOOLEAN /\ warned' \in BOOLEAN
  /\ (expired => expired') /\ expired' \in BOOLEAN /\ overrun' \in BOOLEAN
  /\ overrun' => overrun \/ expired'
  /\ probe' \in BOOLEAN
  /\ UNCHANGED <<acceptance, launches, browser, page, limit, context, report>>

LEMMA PageJudgedStep ==
  ASSUME QAAssumption, QAIInv, NEW k \in DOMAIN Checks, NEW seen, PageJudged(k, seen)
  PROVE  QAIInv'
<1> USE DEF QAIInv, PageJudged
<1>1. Checks' = Checks /\ Ids' = Ids /\ Pages' = Pages
  BY SameChecks
<1>2. k \in todo /\ page \in Pages /\ <<page, Checks[k].id>> \in Pages \X Ids
  BY DEF NextUp, PageInRange, InPage, Looking, Ids
<1>3. QATypeOK'
  <2>1. checked' \subseteq Pages \X Ids BY <1>2 DEF QATypeOK
  <2>2. QED BY <1>1, <2>1 DEF QATypeOK
<1>4. PageInRange' BY <1>1 DEF PageInRange, InPage, Looking
<1>5. PagesBehind' BY <1>1 DEF PagesBehind, InPage, Looking, Covered
<1>6. ChecksBehind' BY <1>1 DEF ChecksBehind, Looking
<1>7. AllBehind' BY DEF AllBehind
<1>8. OverrunKnown' BY DEF OverrunKnown, InPage, Looking
<1>9. ErrorsLast'
  <2>1. CASE Pending(PageError.id) /\ ~Pending(PageError.id)'
    <3>1. Checks[k].id = PageError.id BY <1>1, <2>1 DEF Pending
    <3>2. QED BY <1>1, <3>1, OnlyReadersFollow DEF ErrorsLast
  <2>2. QED BY <1>1, <2>1 DEF ErrorsLast, Pending, Looking
<1>10. PopupsLast'
  <2>1. CASE acceptance = "USABLE_GENERATION" /\ Pending(SafetyEvents.id) /\ ~Pending(SafetyEvents.id)'
    <3>1. Checks[k].id = SafetyEvents.id BY <1>1, <2>1 DEF Pending
    <3>2. QED BY <1>1, <2>1, <3>1, OnlyReadersFollow DEF PopupsLast
  <2>2. QED BY <1>1, <2>1 DEF PopupsLast, Pending, Looking
<1>11. ErrorsKnown'
  <2>1. Checks[k].id = PageError.id \/ (Pending(PageError.id) => Pending(PageError.id)')
    BY <1>1 DEF Pending
  <2>2. "error" \in seen => Pending(PageError.id)
    BY <1>2, Listed, KindsOfChecks DEF ErrorsLast
  <2>3. QED BY <2>1, <2>2 DEF ErrorsKnown, Looking
<1>12. PopupsKnown'
  <2>1. Checks[k].id = SafetyEvents.id \/ (Pending(SafetyEvents.id) => Pending(SafetyEvents.id)')
    BY <1>1 DEF Pending
  <2>2. acceptance = "USABLE_GENERATION" /\ "popup" \in seen => Pending(SafetyEvents.id)
    <3>1. SUFFICES ASSUME acceptance = "USABLE_GENERATION", "popup" \in seen, ~Pending(SafetyEvents.id)
                   PROVE  FALSE
      OBVIOUS
    <3>2. Checks[k].id \in Finals \cup {FailedRequest.id}
      BY <1>2, <3>1 DEF PopupsLast, Pending
    <3>3. QED BY <3>1, <3>2, Listed, KindsOfChecks
  <2>3. QED BY <2>1, <2>2 DEF PopupsKnown, Looking
<1>13. QAReported' BY DEF QAReported, Accepted, Looking
<1>14. QED BY <1>3, <1>4, <1>5, <1>6, <1>7, <1>8, <1>9, <1>10, <1>11, <1>12, <1>13

\* The actions of the check loop.
LEMMA CheckStep ==
  ASSUME QAAssumption, QAIInv, NEW k \in DOMAIN Checks,
         \/ SkipCheck(k) \/ OpenProbe(k) \/ NoTimeForCheck(k)
         \/ CheckReturns(k) \/ CheckThrows(k)
  PROVE  QAIInv'
<1>1. CASE SkipCheck(k)
  <2>1. Checks[k].id \notin {PageError.id, SafetyEvents.id}
    BY <1>1, Listed, KindsOfChecks DEF SkipCheck, Applies
  <2>2. PageJudged(k, {})
    BY <1>1, <2>1 DEF SkipCheck, PageJudged, Turn, ResultStored, Looking, History, QAIInv, QATypeOK
  <2>3. QED BY <2>2, PageJudgedStep
<1>2. CASE OpenProbe(k)
  <2>1. Checks' = Checks /\ Ids' = Ids /\ Pages' = Pages BY <1>2, SameChecks DEF OpenProbe
  <2>2. QED BY <1>2, <2>1 DEF OpenProbe, Turn, ResultVars, History, QATypeOK, QAIInv, PageInRange, PagesBehind, ChecksBehind, AllBehind, OverrunKnown, ErrorsLast, PopupsLast, ErrorsKnown, PopupsKnown, QAReported,
      InPage, Looking, Covered, Pending, Accepted
<1>3. CASE NoTimeForCheck(k)
  <2>1. InPage /\ CutShort /\ overrun' BY <1>3 DEF NoTimeForCheck, Running, Turn, InPage
  <2>2. QED BY <2>1, CutStep
<1>4. CASE CheckReturns(k)
  <2>1. PICK seen \in SUBSET Kinds, said \in Checks[k].verdicts :
          /\ ~Checks[k].own /\ Checks[k].id \in Readers => seen = {}
          /\ Checks[k].id = PageError.id =>
               said = IF "error" \in events THEN "BLOCKS" ELSE "PASS"
          /\ Checks[k].id = SafetyEvents.id /\ "popup" \in events \cup seen =>
               said = "BLOCKS"
          /\ events' = events \cup seen
          /\ raised' = raised \cup seen
          /\ blocking' = (blocking \/ Blocks(said))
          /\ warned' = (warned \/ Warns(said))
          /\ ResultStored(Checks[k])
    BY <1>4 DEF CheckReturns
  <2>2. Looking /\ NextUp(k) BY <1>4 DEF CheckReturns, Running, Turn, Looking
  <2>3. Checks[k].id = PageError.id => seen = {}
    BY <2>1, Listed, KindsOfChecks DEF Finals
  <2>4. said = "BLOCKS" => blocking' BY <2>1 DEF Blocks
  <2>5. PageJudged(k, seen)
    <3>1. Checks[k].id = PageError.id /\ "error" \in events' => blocking'
      BY <2>1, <2>3, <2>4
    <3>2. Checks[k].id = SafetyEvents.id /\ "popup" \in events' => blocking'
      BY <2>1, <2>4
    <3>3. checked' = checked \cup {<<page, Checks[k].id>>} BY <2>1 DEF ResultStored
    <3>4. blocking' \in BOOLEAN /\ warned' \in BOOLEAN /\ (blocking => blocking') BY <2>1
    <3>5. QED BY <1>4, <2>1, <2>2, <3>1, <3>2, <3>3, <3>4 DEF CheckReturns, PageJudged, QAIInv, QATypeOK
  <2>6. QED BY <2>5, PageJudgedStep
<1>5. CASE CheckThrows(k)
  <2>1. PICK seen \in SUBSET Kinds, cut \in BOOLEAN :
          /\ Checks[k].own \/ Checks[k].id \notin Readers
          /\ events' = events \cup seen
          /\ raised' = raised \cup seen
          /\ expired' = (expired \/ cut)
          /\ overrun' = (overrun \/ cut)
          /\ blocking' = (blocking \/ Blocks(Thrown(Checks[k])))
          /\ warned' = (warned \/ Warns(Thrown(Checks[k])))
          /\ ResultStored(Checks[k])
    BY <1>5 DEF CheckThrows
  <2>2. Looking /\ NextUp(k) BY <1>5 DEF CheckThrows, Running, Turn, Looking
  <2>3. Checks[k].id # PageError.id
    BY <2>1, Listed, KindsOfChecks DEF Finals
  <2>4. Checks[k].id = SafetyEvents.id => blocking'
    BY <2>1, Listed, KindsOfChecks DEF Thrown, Blocks
  <2>5. PageJudged(k, seen)
    <3>1. checked' = checked \cup {<<page, Checks[k].id>>} BY <2>1 DEF ResultStored
    <3>2. blocking' \in BOOLEAN /\ warned' \in BOOLEAN /\ (blocking => blocking') BY <2>1
    <3>3. /\ expired' \in BOOLEAN /\ overrun' \in BOOLEAN /\ (expired => expired')
          /\ overrun' => overrun \/ expired'
      BY <2>1 DEF QAIInv, QATypeOK
    <3>4. QED BY <1>5, <2>1, <2>2, <2>3, <2>4, <3>1, <3>2, <3>3 DEF CheckThrows, PageJudged, QAIInv, QATypeOK
  <2>6. QED BY <2>5, PageJudgedStep
<1>6. QED BY <1>1, <1>2, <1>3, <1>4, <1>5

LEMMA QAStutters ==
  ASSUME QAIInv, UNCHANGED qaVars
  PROVE  QAIInv'
<1>1. Checks' = Checks /\ Ids' = Ids /\ Pages' = Pages
  BY SameChecks DEF qaVars
<1>2. QED BY <1>1 DEF qaVars, QATypeOK, QAIInv, PageInRange, PagesBehind, ChecksBehind, AllBehind, OverrunKnown, ErrorsLast, PopupsLast, ErrorsKnown, PopupsKnown, QAReported, InPage, Looking, Covered, Pending, Accepted

LEMMA QAStep ==
  ASSUME QAAssumption, QAIInv, [QANext]_qaVars
  PROVE  QAIInv'
BY FrameStep, CheckStep, QAStutters DEF QANext

LEMMA QAInvariance ==
  ASSUME QAAssumption
  PROVE  QASpec => []QAIInv
<1>1. QAInit => QAIInv BY QAStart
<1>2. QAIInv /\ [QANext]_qaVars => QAIInv' BY QAStep
<1>3. QED BY <1>1, <1>2, PTL DEF QASpec

-----------------------------------------------------------------------------
\* Every variable of a QA run keeps its shape, and only checks of the list are
\* recorded, for any viewports and routes (QATypeOK).
THEOREM QATypeCorrect ==
  ASSUME QAAssumption
  PROVE  QASpec => []QATypeOK
<1>1. QAIInv => QATypeOK BY DEF QAIInv
<1>2. QED BY <1>1, QAInvariance, PTL

\* A report the pipeline accepts covers every check of every page, no deadline cut
\* a page short, and no uncaught error, and in a generation no popup, went
\* unjudged (AcceptedIsChecked, which the runs check on two pages).
THEOREM AcceptedChecked ==
  ASSUME QAAssumption
  PROVE  QASpec => []AcceptedIsChecked
<1>1. QAIInv => AcceptedIsChecked
  <2>1. SUFFICES ASSUME QAIInv, Accepted
                 PROVE  /\ ~overrun /\ checked = Pages \X Ids /\ "error" \notin raised
                        /\ acceptance = "USABLE_GENERATION" => "popup" \notin raised
    BY DEF AcceptedIsChecked
  <2>2. qaPhase = "over" /\ ~blocking BY <2>1 DEF QAIInv, QAReported
  <2>3. \A p \in Pages, i \in Ids : <<p, i>> \in checked
    BY <2>1, <2>2 DEF QAIInv, AllBehind, Covered, Ids
  <2>4. checked = Pages \X Ids BY <2>1, <2>3 DEF QAIInv, QATypeOK
  <2>5. QED BY <2>1, <2>2, <2>4 DEF QAIInv, OverrunKnown, ErrorsKnown, PopupsKnown, InPage, Looking
<1>2. QED BY <1>1, QAInvariance, PTL

-----------------------------------------------------------------------------
(* SitePlanning *)

\* What the calls can rely on: a site can be made of whatever was validated, a call waits for a
\* model only if its mode asks one, and has no SiteSpec before it has a plan
Accounts ==
  /\ \A pair \in validated : ValidSpec(pair[2])
  /\ \A c \in Plannings : stand[c] = Waiting => mode[c] # "DETERMINISTIC" /\ tasks[c] < 7
  /\ \A c \in Plannings : stand[c] = "idle" => tasks[c] = 0
  /\ \A c \in Plannings : stand[c] # "done" => spec[c] = "none"

PlanningIInv == PlanningTypeOK /\ Accounts /\ CacheIsChecked /\ \A c \in Plannings : PlanIsAccounted(c)

\* RemoveAt leaves out one element
LEMMA RemoveAtIsSeq ==
  ASSUME NEW S, NEW s \in Seq(S), NEW n \in 1..Len(s)
  PROVE  /\ RemoveAt(s, n) \in Seq(S) /\ Len(RemoveAt(s, n)) = Len(s) - 1
         /\ DOMAIN RemoveAt(s, n) = 1..(Len(s) - 1)
         /\ \A i \in 1..(Len(s) - 1) : RemoveAt(s, n)[i] = IF i < n THEN s[i] ELSE s[i + 1]
  <1> DEFINE before == SubSeq(s, 1, n - 1)
             after == SubSeq(s, n + 1, Len(s))
  <1>1. Len(s) \in Nat /\ n \in Nat /\ \A i \in 1..Len(s) : s[i] \in S
    BY LenProperties, ElementOfSeq
  <1>2. /\ before \in Seq(S) /\ Len(before) = n - 1
        /\ \A i \in 1..(n - 1) : before[i] = s[i]
    BY <1>1
  <1>3. /\ after \in Seq(S) /\ Len(after) = Len(s) - n
        /\ \A i \in 1..(Len(s) - n) : after[i] = s[n + i]
    BY <1>1
  <1> HIDE DEF before, after
  <1>4. /\ before \o after \in Seq(S) /\ Len(before \o after) = Len(before) + Len(after)
        /\ \A i \in 1..(Len(before) + Len(after)) :
             (before \o after)[i] = IF i <= Len(before) THEN before[i] ELSE after[i - Len(before)]
    BY <1>2, <1>3, ConcatProperties, Zenon
  <1>5. RemoveAt(s, n) = before \o after
    BY DEF RemoveAt, before, after
  <1>6. Len(before) + Len(after) = Len(s) - 1
    BY <1>1, <1>2, <1>3
  <1>7. ASSUME NEW i \in 1..(Len(s) - 1)
        PROVE  RemoveAt(s, n)[i] = IF i < n THEN s[i] ELSE s[i + 1]
    <2>1. CASE i < n
      BY <1>1, <1>2, <1>4, <1>5, <1>6, <2>1
    <2>2. CASE ~(i < n)
      <3>1. i - (n - 1) \in 1..(Len(s) - n) /\ n + (i - (n - 1)) = i + 1 /\ ~(i <= n - 1)
        BY <1>1, <2>2
      <3>2. (before \o after)[i] = after[i - (n - 1)]
        BY <1>2, <1>4, <1>6, <3>1
      <3> QED
        BY <1>3, <1>5, <2>2, <3>1, <3>2
    <2> QED
      BY <2>1, <2>2
  <1>8. DOMAIN RemoveAt(s, n) = 1..(Len(s) - 1)
    BY <1>4, <1>5, <1>6, LenProperties
  <1> QED
    BY <1>4, <1>5, <1>6, <1>7, <1>8

\* Removing an entry leaves entries that were there, each key at most once
LEMMA WithoutIsPart ==
  ASSUME PlanningTypeOK, NEW key
  PROVE  /\ Without(key) \in Seq(Entries) /\ Len(Without(key)) <= Len(cache)
         /\ \A i \in DOMAIN Without(key) : \E j \in DOMAIN cache : Without(key)[i] = cache[j]
         /\ \A i, j \in DOMAIN Without(key) : Without(key)[i].key = Without(key)[j].key => i = j
  <1>0. /\ cache \in Seq(Entries) /\ Len(cache) \in Nat /\ DOMAIN cache = 1..Len(cache)
        /\ \A i, j \in DOMAIN cache : cache[i].key = cache[j].key => i = j
    BY DEF PlanningTypeOK
  <1>1. CASE EntriesOf(key) = {}
    BY <1>0, <1>1 DEF Without
  <1>2. CASE EntriesOf(key) # {}
    <2>1. PICK n \in 1..Len(cache) : Without(key) = RemoveAt(cache, n)
      BY <1>0, <1>2 DEF Without, EntriesOf
    <2>a. /\ RemoveAt(cache, n) \in Seq(Entries) /\ Len(RemoveAt(cache, n)) = Len(cache) - 1
          /\ DOMAIN RemoveAt(cache, n) = 1..(Len(cache) - 1)
          /\ \A i \in 1..(Len(cache) - 1) :
               RemoveAt(cache, n)[i] = IF i < n THEN cache[i] ELSE cache[i + 1]
      BY <1>0, RemoveAtIsSeq, Zenon
    <2> DEFINE at(k) == IF k < n THEN k ELSE k + 1
    <2>2. /\ Without(key) \in Seq(Entries) /\ Len(Without(key)) = Len(cache) - 1
          /\ DOMAIN Without(key) = 1..(Len(cache) - 1)
      BY <1>0, <2>1, <2>a
    <2>3. \A k \in DOMAIN Without(key) : Without(key)[k] = cache[at(k)] /\ at(k) \in DOMAIN cache
      <3>1. \A k \in 1..(Len(cache) - 1) : Without(key)[k] = IF k < n THEN cache[k] ELSE cache[k + 1]
        BY <1>0, <2>1, <2>a
      <3> QED
        BY <1>0, <2>2, <3>1
    <2>4. \A i, j \in DOMAIN Without(key) : at(i) = at(j) => i = j
      BY <1>0, <2>2
    <2> HIDE DEF at
    <2> QED
      BY <1>0, <2>2, <2>3, <2>4
  <1> QED
    BY <1>1, <1>2

\* Storing an entry drops entries or replaces one, and the cache keeps its size
LEMMA StoredIsPart ==
  ASSUME PlanningTypeOK, CacheIsChecked, NEW key \in {KeyOf[p] : p \in Prompts}, NEW value \in AgentPlans
  PROVE  /\ Stored(key, value) \in Seq(Entries) /\ Len(Stored(key, value)) <= MaxEntries
         /\ \A i \in DOMAIN Stored(key, value) :
              \/ \E j \in DOMAIN cache : Stored(key, value)[i] = cache[j]
              \/ Stored(key, value)[i] = [key |-> key, plan |-> value, fresh |-> TRUE]
         /\ \A i, j \in DOMAIN Stored(key, value) :
              Stored(key, value)[i].key = Stored(key, value)[j].key => i = j
  <1> USE PlanningAssumption DEF PlanningTypeOK, CacheIsChecked
  <1> DEFINE kept == IF Len(cache) >= MaxEntries THEN Tail(cache) ELSE cache
             new == [key |-> key, plan |-> value, fresh |-> TRUE]
  <1>1. new \in Entries /\ new.key = key
    BY DEF Entries
  <1>2. /\ kept \in Seq(Entries) /\ Len(kept) < MaxEntries
        /\ \A i \in DOMAIN kept : \E j \in DOMAIN cache : kept[i] = cache[j]
        /\ \A i, j \in DOMAIN kept : kept[i].key = kept[j].key => i = j
    <2>1. CASE Len(cache) >= MaxEntries
      <3>1. /\ kept \in Seq(Entries) /\ Len(kept) = Len(cache) - 1
            /\ \A i \in 1..Len(kept) : kept[i] = cache[i + 1]
        BY <2>1
      <3>2. DOMAIN kept = 1..(Len(cache) - 1) /\ DOMAIN cache = 1..Len(cache) /\ Len(cache) \in Nat
        BY <3>1
      <3> HIDE DEF kept
      <3>3. \A i \in DOMAIN kept : kept[i] = cache[i + 1] /\ i + 1 \in DOMAIN cache
        BY <3>1, <3>2
      <3>4. \A i, j \in DOMAIN kept : kept[i].key = kept[j].key => i = j
        <4> TAKE i, j \in DOMAIN kept
        <4> HAVE kept[i].key = kept[j].key
        <4>1. i + 1 = j + 1
          BY <3>3
        <4> QED
          BY <3>2, <4>1
      <3> QED
        BY <2>1, <3>1, <3>2, <3>3, <3>4
    <2>2. CASE ~(Len(cache) >= MaxEntries)
      BY <2>2
    <2> QED
      BY <2>1, <2>2
  <1>3. Stored(key, value) = IF \E i \in DOMAIN kept : kept[i].key = key
                             THEN [i \in DOMAIN kept |-> IF kept[i].key = key THEN new ELSE kept[i]]
                             ELSE Append(kept, new)
    BY DEF Stored
  <1> HIDE DEF kept, new
  <1>4. CASE \E i \in DOMAIN kept : kept[i].key = key
    <2> DEFINE s == [i \in DOMAIN kept |-> IF kept[i].key = key THEN new ELSE kept[i]]
    <2>1. Stored(key, value) = s
      BY <1>3, <1>4
    <2>2. DOMAIN kept = 1..Len(kept) /\ Len(kept) \in Nat
      BY <1>2
    <2>3. s \in Seq(Entries) /\ Len(s) = Len(kept) /\ DOMAIN s = DOMAIN kept
      BY <1>1, <1>2, <2>2
    <2>4. \A i \in DOMAIN s : s[i].key = kept[i].key /\ (s[i] = new \/ s[i] = kept[i])
      BY <1>1
    <2> HIDE DEF s
    <2>5. \A i, j \in DOMAIN s : s[i].key = s[j].key => i = j
      BY <1>2, <2>3, <2>4
    <2>6. \A i \in DOMAIN s : (\E j \in DOMAIN cache : s[i] = cache[j]) \/ s[i] = new
      BY <1>2, <2>3, <2>4
    <2> QED
      BY <1>2, <2>1, <2>2, <2>3, <2>5, <2>6 DEF new
  <1>5. CASE ~\E i \in DOMAIN kept : kept[i].key = key
    <2> DEFINE s == Append(kept, new)
    <2>1. Stored(key, value) = s
      BY <1>3, <1>5
    <2>2. /\ s \in Seq(Entries) /\ Len(s) = Len(kept) + 1 /\ s[Len(kept) + 1] = new
          /\ \A i \in 1..Len(kept) : s[i] = kept[i]
      BY <1>1, <1>2
    <2>3. DOMAIN kept = 1..Len(kept) /\ Len(kept) \in Nat /\ DOMAIN s = 1..(Len(kept) + 1)
      BY <1>2, <2>2
    <2> HIDE DEF s
    <2>4. \A i \in DOMAIN s : i \in DOMAIN kept \/ i = Len(kept) + 1
      BY <2>3
    <2>5. Len(s) <= MaxEntries
      BY <1>2, <2>2, <2>3
    <2>6. \A i, j \in DOMAIN s : s[i].key = s[j].key => i = j
      BY <1>1, <1>2, <1>5, <2>2, <2>3, <2>4
    <2>7. \A i \in DOMAIN s : (\E j \in DOMAIN cache : s[i] = cache[j]) \/ s[i] = new
      BY <1>2, <2>2, <2>3, <2>4
    <2> QED
      BY <2>1, <2>2, <2>5, <2>6, <2>7 DEF new
  <1> QED
    BY <1>4, <1>5

LEMMA PlanningHolds == PlanningIInv => PlansAreChecked
  BY DEF PlanningIInv, PlansAreChecked

\* The two halves of the type invariant
CallsTyped ==
  /\ mode \in [Plannings -> Modes] /\ separate \in [Plannings -> BOOLEAN]
  /\ asked \in [Plannings -> Prompts] /\ tasks \in [Plannings -> 0..7]
  /\ stand \in [Plannings -> {"idle", Waiting, "done", "failed"}]
  /\ DOMAIN parts = Plannings /\ DOMAIN plan = Plannings
  /\ \A c \in Plannings : plan[c].by \in {"none", "agent", "rules"}
  /\ flagged \in [Plannings -> BOOLEAN] /\ spec \in [Plannings -> {"none", "valid", "invalid"}]
  /\ cancelled \subseteq Plannings
CacheTyped ==
  /\ cache \in Seq(Entries)
  /\ \A i, j \in DOMAIN cache : cache[i].key = cache[j].key => i = j

LEMMA TypedInHalves == PlanningTypeOK <=> CallsTyped /\ CacheTyped
  BY DEF PlanningTypeOK, CallsTyped, CacheTyped

LEMMA PlanningStart == PlanningInit => PlanningIInv
  <1> SUFFICES ASSUME PlanningInit PROVE PlanningIInv
    OBVIOUS
  <1> USE PlanningAssumption DEF PlanningInit
  <1>1. CallsTyped
    BY DEF CallsTyped, Modes, NoPlan, Waiting
  <1>2. CacheTyped /\ CacheIsChecked
    BY DEF CacheTyped, CacheIsChecked
  <1>3. Accounts /\ \A c \in Plannings : PlanIsAccounted(c)
    BY DEF Accounts, PlanIsAccounted, Waiting
  <1> QED
    BY <1>1, <1>2, <1>3, TypedInHalves DEF PlanningIInv

\* What a call keeps of its books
CallAccounts(c) ==
  /\ stand[c] = Waiting => mode[c] # "DETERMINISTIC" /\ tasks[c] < 7
  /\ stand[c] = "idle" => tasks[c] = 0
  /\ stand[c] # "done" => spec[c] = "none"
  /\ PlanIsAccounted(c)

\* A step of one call leaves the others alone, and what was validated stays validated
OthersKeep(c) ==
  /\ UNCHANGED <<mode, separate, asked>> /\ validated \subseteq validated'
  /\ \A d \in Plannings \ {c} :
       /\ stand'[d] = stand[d] /\ tasks'[d] = tasks[d] /\ plan'[d] = plan[d]
       /\ flagged'[d] = flagged[d] /\ spec'[d] = spec[d]

LEMMA OneCallPlans ==
  ASSUME PlanningIInv, NEW c \in Plannings, OthersKeep(c), CallAccounts(c)',
         CallsTyped', CacheTyped', CacheIsChecked', \A pair \in validated' : ValidSpec(pair[2])
  PROVE  PlanningIInv'
  <1>1. ASSUME NEW d \in Plannings PROVE CallAccounts(d)'
    <2>1. CASE d = c
      BY <2>1
    <2>2. CASE d # c
      <3>1. CallAccounts(d)
        BY DEF PlanningIInv, Accounts, CallAccounts
      <3>2. /\ stand'[d] = stand[d] /\ tasks'[d] = tasks[d] /\ plan'[d] = plan[d]
            /\ flagged'[d] = flagged[d] /\ spec'[d] = spec[d] /\ mode'[d] = mode[d]
            /\ separate'[d] = separate[d] /\ asked'[d] = asked[d] /\ Key(d)' = Key(d)
        BY <2>2 DEF OthersKeep, Key
      <3>3. <<Key(d), plan[d]>> \in validated => <<Key(d)', plan'[d]>> \in validated'
        BY <3>2 DEF OthersKeep
      <3> QED
        BY <3>1, <3>2, <3>3 DEF CallAccounts, PlanIsAccounted
    <2> QED
      BY <2>1, <2>2
  <1>2. Accounts' /\ \A d \in Plannings : PlanIsAccounted(d)'
    BY <1>1 DEF Accounts, CallAccounts
  <1>3. PlanningTypeOK'
    BY TypedInHalves DEF PlanningTypeOK, CallsTyped, CacheTyped
  <1> QED
    BY <1>2, <1>3 DEF PlanningIInv

\* Entries that were there, or a part of them, are entries that were validated
LEMMA CacheKept ==
  ASSUME PlanningIInv, validated \subseteq validated',
         \/ UNCHANGED cache
         \/ \E key : cache' = Without(key)
  PROVE  CacheTyped' /\ CacheIsChecked'
  <1>1. CASE UNCHANGED cache
    BY <1>1 DEF PlanningIInv, PlanningTypeOK, CacheTyped, CacheIsChecked
  <1>2. ASSUME NEW key, cache' = Without(key) PROVE CacheTyped' /\ CacheIsChecked'
    <2>1. /\ cache' \in Seq(Entries) /\ Len(cache') <= Len(cache)
          /\ \A i \in DOMAIN cache' : \E j \in DOMAIN cache : cache'[i] = cache[j]
          /\ \A i, j \in DOMAIN cache' : cache'[i].key = cache'[j].key => i = j
      BY <1>2, WithoutIsPart DEF PlanningIInv
    <2>2. Len(cache') <= MaxEntries
      BY <2>1, PlanningAssumption DEF PlanningIInv, PlanningTypeOK, CacheIsChecked
    <2> QED
      BY <2>1, <2>2 DEF PlanningIInv, CacheTyped, CacheIsChecked
  <1> QED
    BY <1>1, <1>2

\* A fallback is the rules' own plan, in a mode that has one
LEMMA FailsAccounted ==
  ASSUME PlanningIInv, NEW c \in Plannings, Fails(c), mode[c] # "DETERMINISTIC",
         UNCHANGED <<mode, separate, asked, tasks, parts, spec>>, cancelled' \subseteq Plannings,
         validated \subseteq validated', stand[c] # "done"
  PROVE  OthersKeep(c) /\ CallAccounts(c)' /\ CallsTyped'
  <1> USE DEF PlanningIInv, PlanningTypeOK
  <1>1. \/ Throws(c)
        \/ ~separate[c] /\ mode[c] # "AGENT" /\ Returns(c, RulesPlan(asked[c]), TRUE)
    BY DEF Fails
  <1>2. OthersKeep(c)
    BY <1>1 DEF OthersKeep, Throws, Returns
  <1>3. CallsTyped'
    <2>1. CASE Throws(c)
      BY <2>1 DEF CallsTyped, Throws
    <2>2. CASE Returns(c, RulesPlan(asked[c]), TRUE)
      <3>1. \A d \in Plannings : plan'[d].by \in {"none", "agent", "rules"}
        BY <2>2 DEF Returns, RulesPlan
      <3>2. DOMAIN plan' = Plannings
        BY <2>2 DEF Returns
      <3>3. flagged' \in [Plannings -> BOOLEAN]
        BY <2>2 DEF Returns
      <3> QED
        BY <2>2, <3>1, <3>2, <3>3 DEF CallsTyped, Returns
    <2> QED
      BY <1>1, <2>1, <2>2
  <1>4. mode[c] \in Modes
    OBVIOUS
  <1>5. CallAccounts(c)'
    BY <1>1, <1>4 DEF CallAccounts, PlanIsAccounted, Accounts, Throws, Returns, Modes, Waiting
  <1> QED
    BY <1>2, <1>3, <1>5

LEMMA PlanningStep == PlanningIInv /\ [PlanningNext]_planningVars => PlanningIInv'
  <1> SUFFICES ASSUME PlanningIInv, [PlanningNext]_planningVars PROVE PlanningIInv'
    OBVIOUS
  <1>a. PlanningTypeOK /\ Accounts /\ CacheIsChecked /\ \A c \in Plannings : PlanIsAccounted(c)
    BY DEF PlanningIInv
  <1>b. CallsTyped /\ CacheTyped
    BY <1>a, TypedInHalves
  <1>c. \A c \in Plannings : Key(c) \in {KeyOf[p] : p \in Prompts}
    BY <1>a DEF PlanningTypeOK, Key
  <1>1. CASE Expire
    <2>1. PICK i \in DOMAIN cache : cache' = [cache EXCEPT ![i].fresh = FALSE]
      BY <1>1 DEF Expire
    <2>2. cache[i] \in Entries
      BY <1>b DEF CacheTyped
    <2> DEFINE e == [cache[i] EXCEPT !.fresh = FALSE]
    <2>3. e \in Entries /\ e.key = cache[i].key /\ e.plan = cache[i].plan
      BY <2>2 DEF Entries
    <2>4. cache' = [cache EXCEPT ![i] = e]
      BY <2>1
    <2> HIDE DEF e
    <2>5. /\ cache' \in Seq(Entries) /\ DOMAIN cache' = DOMAIN cache /\ Len(cache') = Len(cache)
          /\ \A j \in DOMAIN cache : cache'[j].key = cache[j].key /\ cache'[j].plan = cache[j].plan
      BY <1>b, <2>3, <2>4 DEF CacheTyped
    <2>6. CacheTyped'
      BY <1>b, <2>5 DEF CacheTyped
    <2>7. CacheIsChecked'
      BY <1>1, <1>a, <2>5 DEF CacheIsChecked, Expire
    <2>8. CallsTyped' /\ Accounts' /\ \A c \in Plannings : PlanIsAccounted(c)'
      BY <1>1, <1>a, <1>b DEF Expire, CallsTyped, Accounts, PlanIsAccounted, Key
    <2>9. PlanningTypeOK'
      BY <2>6, <2>8 DEF PlanningTypeOK, CallsTyped, CacheTyped
    <2> QED
      BY <2>7, <2>8, <2>9 DEF PlanningIInv
  <1>2. ASSUME NEW c \in Plannings, CacheAnswers(c) PROVE PlanningIInv'
    <2>1. PICK i \in EntriesOf(Key(c)) : Returns(c, cache[i].plan, FALSE)
      BY <1>2 DEF CacheAnswers
    <2>2. i \in DOMAIN cache /\ cache[i] \in Entries /\ cache[i].key = Key(c)
      BY <1>b, <2>1 DEF EntriesOf, CacheTyped
    <2>3. cache[i].plan.by = "agent" /\ <<Key(c), cache[i].plan>> \in validated
      BY <1>a, <2>2 DEF Entries, AgentPlans, PlanOf, CacheIsChecked
    <2>4. OthersKeep(c)
      BY <1>2, <1>b, <2>1 DEF CacheAnswers, Returns, OthersKeep, CallsTyped
    <2>5. CallsTyped'
      BY <1>2, <1>b, <2>1, <2>3 DEF CacheAnswers, Returns, CallsTyped
    <2>6. CallAccounts(c)'
      BY <1>2, <1>a, <1>b, <2>1, <2>3
      DEF CacheAnswers, Returns, CallsTyped, CallAccounts, Accounts, PlanIsAccounted, Key, Waiting
    <2>7. CacheTyped' /\ CacheIsChecked' /\ \A pair \in validated' : ValidSpec(pair[2])
      BY <1>2, <1>a, <1>b DEF CacheAnswers, CacheTyped, CacheIsChecked, Accounts
    <2> QED
      BY <2>4, <2>5, <2>6, <2>7, OneCallPlans
  <1>3. ASSUME NEW c \in Plannings, RulesAnswer(c) PROVE PlanningIInv'
    <2>1. OthersKeep(c)
      BY <1>3, <1>b DEF RulesAnswer, Returns, OthersKeep, CallsTyped
    <2>2. CallsTyped'
      BY <1>3, <1>b DEF RulesAnswer, Returns, RulesPlan, CallsTyped
    <2>3. CallAccounts(c)'
      BY <1>3, <1>a, <1>b
      DEF RulesAnswer, Returns, CallsTyped, CallAccounts, Accounts, PlanIsAccounted, Waiting
    <2>4. CacheTyped' /\ CacheIsChecked' /\ \A pair \in validated' : ValidSpec(pair[2])
      BY <1>3, <1>a, CacheKept DEF RulesAnswer, Looked, Accounts
    <2> QED
      BY <2>1, <2>2, <2>3, <2>4, OneCallPlans
  <1>4. ASSUME NEW c \in Plannings, AskPlanner(c) PROVE PlanningIInv'
    <2>1. CacheTyped' /\ CacheIsChecked' /\ \A pair \in validated' : ValidSpec(pair[2])
      BY <1>4, <1>a, CacheKept DEF AskPlanner, Looked, Accounts
    <2>2. OthersKeep(c) /\ CallAccounts(c)' /\ CallsTyped'
      <3>1. CASE c \in cancelled
        <4>1. Fails(c) /\ mode[c] # "DETERMINISTIC" /\ stand[c] # "done" /\ cancelled' \subseteq Plannings
          BY <1>4, <1>b, <3>1 DEF AskPlanner, CallsTyped
        <4> QED
          BY <1>4, <4>1, FailsAccounted DEF AskPlanner
      <3>2. CASE c \notin cancelled
        <4>1. OthersKeep(c)
          BY <1>4, <1>b, <3>2 DEF AskPlanner, OthersKeep, CallsTyped
        <4>2. CallsTyped'
          BY <1>4, <1>b, <3>2 DEF AskPlanner, CallsTyped
        <4>3. CallAccounts(c)'
          BY <1>4, <1>a, <1>b, <3>2
          DEF AskPlanner, CallsTyped, CallAccounts, Accounts, PlanIsAccounted, Waiting
        <4> QED
          BY <4>1, <4>2, <4>3
      <3> QED
        BY <3>1, <3>2
    <2> QED
      BY <2>1, <2>2, OneCallPlans
  <1>5. ASSUME NEW c \in Plannings, NEW value \in Answers, TakePlan(c, value) PROVE PlanningIInv'
    <2>1. CASE Validated(value)
      <3>1. /\ Returns(c, PlanOf(value), FALSE) /\ cache' = Stored(Key(c), PlanOf(value))
            /\ validated' = validated \cup {<<Key(c), PlanOf(value)>>}
            /\ PlanOf(value).by = "agent" /\ PlanOf(value) \in AgentPlans
        BY <1>5, <2>1 DEF TakePlan, AgentPlans, PlanOf
      <3>2. ValidSpec(PlanOf(value))
        BY <2>1 DEF Validated, ValidSitePlan, ValidBundle, PagesFit, Safe, ValidSpec, PlanOf
      <3>3. \A pair \in validated' : ValidSpec(pair[2])
        BY <1>a, <3>1, <3>2 DEF Accounts
      <3>4. CacheTyped' /\ CacheIsChecked'
        <4>1. /\ cache' \in Seq(Entries) /\ Len(cache') <= MaxEntries
              /\ \A i \in DOMAIN cache' :
                   \/ \E j \in DOMAIN cache : cache'[i] = cache[j]
                   \/ cache'[i] = [key |-> Key(c), plan |-> PlanOf(value), fresh |-> TRUE]
              /\ \A i, j \in DOMAIN cache' : cache'[i].key = cache'[j].key => i = j
          BY <1>a, <1>c, <3>1, StoredIsPart
        <4> QED
          BY <1>a, <3>1, <4>1 DEF CacheTyped, CacheIsChecked
      <3>5. OthersKeep(c)
        BY <1>5, <1>b, <3>1 DEF TakePlan, Returns, OthersKeep, CallsTyped
      <3>6. CallsTyped'
        BY <1>5, <1>b, <3>1 DEF TakePlan, Returns, CallsTyped
      <3>7. CallAccounts(c)'
        BY <1>5, <1>a, <1>b, <3>1
        DEF TakePlan, Returns, CallsTyped, CallAccounts, Accounts, PlanIsAccounted, Key, Waiting
      <3> QED
        BY <3>3, <3>4, <3>5, <3>6, <3>7, OneCallPlans
    <2>2. CASE ~Validated(value)
      <3>1. /\ Fails(c) /\ mode[c] # "DETERMINISTIC" /\ stand[c] # "done" /\ cancelled' \subseteq Plannings
            /\ UNCHANGED <<cache, validated>>
        BY <1>5, <1>a, <1>b, <2>2 DEF TakePlan, Accounts, CallsTyped, Waiting
      <3>2. OthersKeep(c) /\ CallAccounts(c)' /\ CallsTyped'
        BY <1>5, <3>1, FailsAccounted DEF TakePlan
      <3>3. CacheTyped' /\ CacheIsChecked' /\ \A pair \in validated' : ValidSpec(pair[2])
        BY <1>a, <1>b, <3>1 DEF CacheTyped, CacheIsChecked, Accounts
      <3> QED
        BY <3>2, <3>3, OneCallPlans
    <2> QED
      BY <2>1, <2>2
  <1>6. ASSUME NEW c \in Plannings, NEW value \in Answers, TakePart(c, value) PROVE PlanningIInv'
    <2>0. /\ stand[c] = Waiting /\ separate[c] /\ mode[c] # "DETERMINISTIC" /\ tasks[c] \in 0..6
          /\ spec[c] = "none"
          /\ UNCHANGED <<mode, separate, asked, spec, cancelled, cache, validated>>
      BY <1>6, <1>a, <1>b DEF TakePart, Accounts, CallsTyped, Waiting
    <2>1. CacheTyped' /\ CacheIsChecked' /\ \A pair \in validated' : ValidSpec(pair[2])
      BY <1>a, <1>b, <2>0 DEF CacheTyped, CacheIsChecked, Accounts
    <2>2. \/ /\ tasks' = [tasks EXCEPT ![c] = tasks[c] + 1] /\ DOMAIN parts' = Plannings
             /\ \E merged : /\ merged.by = "agent"
                            /\ \/ Returns(c, merged, FALSE)
                               \/ Throws(c)
                               \/ tasks[c] + 1 # 7 /\ UNCHANGED <<stand, plan, flagged>>
          \/ Throws(c) /\ UNCHANGED <<tasks, parts>>
      <3>1. CASE Parsed(value) /\ ValidBundle(value)
        <4> DEFINE n == tasks[c] + 1
                   merged == [by |-> "agent",
                              pages |-> IF n = 1 THEN value.pages ELSE parts[c].pages,
                              owns |-> IF n = 5 THEN value.owns ELSE parts[c].owns,
                              enforced |-> IF n = 4 THEN value.enforced ELSE parts[c].enforced]
        <4>1. /\ tasks' = [tasks EXCEPT ![c] = n] /\ parts' = [parts EXCEPT ![c] = merged]
              /\ IF n = 7 THEN Returns(c, merged, FALSE)
                 ELSE IF c \in cancelled THEN Throws(c)
                 ELSE UNCHANGED <<stand, plan, flagged>>
          BY <1>6, <3>1 DEF TakePart
        <4>2. merged.by = "agent"
          OBVIOUS
        <4> HIDE DEF merged
        <4>3. DOMAIN parts' = Plannings
          BY <1>b, <4>1 DEF CallsTyped
        <4> QED
          BY <4>1, <4>2, <4>3
      <3>2. CASE ~(Parsed(value) /\ ValidBundle(value))
        BY <1>6, <3>2 DEF TakePart
      <3> QED
        BY <3>1, <3>2
    <2>3. OthersKeep(c)
      BY <1>b, <2>0, <2>2 DEF OthersKeep, CallsTyped, Returns, Throws
    <2>4. CallsTyped'
      <3>1. DOMAIN plan' = Plannings /\ DOMAIN parts' = Plannings
        BY <1>b, <2>2 DEF CallsTyped, Returns, Throws
      <3>2. \A d \in Plannings : plan'[d].by \in {"none", "agent", "rules"}
        BY <1>b, <2>2 DEF CallsTyped, Returns, Throws
      <3>3. flagged' \in [Plannings -> BOOLEAN]
        BY <1>b, <2>2 DEF CallsTyped, Returns, Throws
      <3>4. stand' \in [Plannings -> {"idle", Waiting, "done", "failed"}]
        BY <1>b, <2>2 DEF CallsTyped, Returns, Throws
      <3>5. tasks' \in [Plannings -> 0..7]
        <4>1. tasks[c] + 1 \in 0..7
          BY <2>0
        <4>2. tasks' = [tasks EXCEPT ![c] = tasks[c] + 1] \/ tasks' = tasks
          BY <2>2
        <4> QED
          BY <1>b, <4>1, <4>2 DEF CallsTyped
      <3> QED
        BY <1>b, <2>0, <3>1, <3>2, <3>3, <3>4, <3>5 DEF CallsTyped
    <2>5. CallAccounts(c)'
      BY <1>b, <2>0, <2>2 DEF CallsTyped, Returns, Throws, CallAccounts, PlanIsAccounted, Waiting
    <2> QED
      BY <2>1, <2>3, <2>4, <2>5, OneCallPlans
  <1>7. ASSUME NEW c \in Plannings, ModelFails(c) PROVE PlanningIInv'
    <2>1. /\ Fails(c) /\ mode[c] # "DETERMINISTIC" /\ stand[c] # "done" /\ cancelled' \subseteq Plannings
          /\ UNCHANGED <<cache, validated>>
      BY <1>7, <1>a, <1>b DEF ModelFails, Accounts, CallsTyped, Waiting
    <2>2. OthersKeep(c) /\ CallAccounts(c)' /\ CallsTyped'
      BY <1>7, <2>1, FailsAccounted DEF ModelFails
    <2>3. CacheTyped' /\ CacheIsChecked' /\ \A pair \in validated' : ValidSpec(pair[2])
      BY <1>a, <1>b, <2>1 DEF CacheTyped, CacheIsChecked, Accounts
    <2> QED
      BY <2>2, <2>3, OneCallPlans
  <1>8. ASSUME NEW c \in Plannings, AbortPlanning(c) PROVE PlanningIInv'
    <2>1. CallsTyped' /\ CacheTyped' /\ CacheIsChecked' /\ Accounts'
      BY <1>8, <1>a, <1>b DEF AbortPlanning, CallsTyped, CacheTyped, CacheIsChecked, Accounts
    <2>2. \A d \in Plannings : PlanIsAccounted(d)'
      BY <1>8, <1>a DEF AbortPlanning, PlanIsAccounted, Key
    <2> QED
      BY <2>1, <2>2 DEF PlanningIInv, PlanningTypeOK, CallsTyped, CacheTyped
  <1>9. ASSUME NEW c \in Plannings, MakeSpec(c) PROVE PlanningIInv'
    <2>1. OthersKeep(c)
      BY <1>9, <1>b DEF MakeSpec, OthersKeep, CallsTyped
    <2>2. CallsTyped'
      BY <1>9, <1>b DEF MakeSpec, CallsTyped
    <2>3. spec'[c] = IF ValidSpec(plan[c]) THEN "valid" ELSE "invalid"
      BY <1>9, <1>b DEF MakeSpec, CallsTyped
    <2>4. <<Key(c), plan[c]>> \in validated => ValidSpec(plan[c])
      BY <1>a DEF Accounts
    <2>5. CallAccounts(c)'
      BY <1>9, <1>a, <2>3, <2>4 DEF MakeSpec, CallAccounts, Accounts, PlanIsAccounted, Key, Waiting
    <2>6. CacheTyped' /\ CacheIsChecked' /\ \A pair \in validated' : ValidSpec(pair[2])
      BY <1>9, <1>a, <1>b DEF MakeSpec, CacheTyped, CacheIsChecked, Accounts
    <2> QED
      BY <2>1, <2>2, <2>5, <2>6, OneCallPlans
  <1>10. CASE UNCHANGED planningVars
    <2>1. CallsTyped' /\ CacheTyped' /\ CacheIsChecked' /\ Accounts'
      BY <1>10, <1>a, <1>b DEF planningVars, CallsTyped, CacheTyped, CacheIsChecked, Accounts
    <2>2. \A d \in Plannings : PlanIsAccounted(d)'
      BY <1>10, <1>a DEF planningVars, PlanIsAccounted, Key
    <2> QED
      BY <2>1, <2>2 DEF PlanningIInv, PlanningTypeOK, CallsTyped, CacheTyped
  <1> QED
    BY <1>1, <1>2, <1>3, <1>4, <1>5, <1>6, <1>7, <1>8, <1>9, <1>10 DEF PlanningNext

-----------------------------------------------------------------------------
(* AgentLoop *)

\* Calls that were executed, and those still to be, were counted before the first of them ran
Counted ==
  /\ IsFiniteSet(outstanding) /\ executed <= MaxToolCalls
  /\ phase # "over" => executed <= toolCalls /\ toolCalls <= MaxToolCalls
  /\ phase = "calls" => executed + Cardinality(outstanding) <= toolCalls

\* An accepted claim was the last call of its response, and the workspace has not changed since
Judged ==
  /\ \A next \in outstanding : IsFinalize(next.call) => claimed
  /\ accepted => /\ outstanding = {} /\ claimed /\ phase \in {"calls", "over"}
                 /\ "requirements" \in opts => IsFinalize(claim) /\ Issues(claim) = {}

\* What run() reports
Reported ==
  /\ (result # "none") <=> (phase = "over")
  /\ result = "accepted" => accepted
  /\ result = "wrote" => written > 0

Unmanaged == \A p \in (Managed \cap Paths) \ misnamed : files[p] = "scaffold"

LoopIInv == LoopTypeOK /\ Counted /\ Judged /\ Reported /\ Unmanaged

\* A response has no more calls to run than it makes
LEMMA ToRunIsBounded ==
  ASSUME NEW reply \in Responses
  PROVE  /\ IsFiniteSet(ToRun(reply)) /\ Len(reply) \in Nat
         /\ Cardinality(ToRun(reply)) \in Nat /\ Cardinality(ToRun(reply)) <= Len(reply)
         /\ \A next \in ToRun(reply) : \E i \in DOMAIN reply : next.call = reply[i]
  <1> DEFINE kept == {n \in DOMAIN reply :
               IsFinalize(reply[n]) => \A j \in DOMAIN reply : n < j => ~IsFinalize(reply[j])}
             pair(i) == [at |-> i, call |-> reply[i]]
  <1>1. Len(reply) \in Nat /\ DOMAIN reply = 1..Len(reply)
    BY LoopAssumption
  <1>2. kept \subseteq 1..Len(reply) /\ ToRun(reply) = {pair(i) : i \in kept}
    BY <1>1 DEF ToRun
  <1>3. \A next \in ToRun(reply) : \E i \in DOMAIN reply : next.call = reply[i]
    BY <1>1, <1>2
  <1> HIDE DEF kept, pair
  <1>4. IsFiniteSet(1..Len(reply)) /\ Cardinality(1..Len(reply)) = Len(reply)
    <2>1. 1 \in Int /\ Len(reply) \in Int /\ Len(reply) - 1 + 1 = Len(reply) /\ (1 <= Len(reply) \/ Len(reply) = 0)
      BY <1>1
    <2> QED
      BY <1>1, <2>1, FS_Interval
  <1>5. IsFiniteSet(kept) /\ Cardinality(kept) <= Len(reply)
    BY <1>2, <1>4, FS_Subset
  <1>6. IsFiniteSet(ToRun(reply)) /\ Cardinality(ToRun(reply)) <= Cardinality(kept)
    <2> DEFINE f == [i \in kept |-> pair(i)]
    <2>1. f \in [kept -> ToRun(reply)] /\ \A next \in ToRun(reply) : \E i \in kept : f[i] = next
      BY <1>2
    <2>2. f \in Surjection(kept, ToRun(reply))
      BY <2>1 DEF Surjection
    <2> HIDE DEF f
    <2> QED
      BY <1>5, <2>2, FS_Surjection
  <1> QED
    BY <1>1, <1>3, <1>5, <1>6, FS_CardinalityType

LEMMA LoopStart == LoopInit => LoopIInv
  <1> SUFFICES ASSUME LoopInit PROVE LoopIInv
    OBVIOUS
  <1> USE LoopAssumption DEF LoopInit
  <1>1. LoopTypeOK
    <2>1. opts \subseteq Options /\ outstanding \subseteq UNION {ToRun(reply) : reply \in Responses}
      OBVIOUS
    <2>2. turn \in 0..MaxTurns /\ written \in 0..MaxFilesWritten
      OBVIOUS
    <2>3. files \in [Paths -> Contents \cup {"absent"}]
      BY DEF Contents
    <2> QED
      BY <2>1, <2>2, <2>3 DEF LoopTypeOK
  <1>2. Counted
    BY FS_EmptySet DEF Counted
  <1>3. Judged /\ Reported /\ Unmanaged
    BY DEF Judged, Reported, Unmanaged
  <1> QED
    BY <1>1, <1>2, <1>3 DEF LoopIInv

\* Whether a claim fulfils the requirements depends on the files alone
LEMMA IssuesKept ==
  ASSUME UNCHANGED <<files, claim>>
  PROVE  Issues(claim)' = Issues(claim)
  BY DEF Issues, FileIssues, Present, Evidence

LEMMA LoopStep == LoopIInv /\ [LoopNext]_loopVars => LoopIInv'
  <1> SUFFICES ASSUME LoopIInv, [LoopNext]_loopVars PROVE LoopIInv'
    OBVIOUS
  <1> USE LoopAssumption DEF LoopIInv
  <1>1. CASE AskModel
    <2>1. LoopTypeOK'
      BY <1>1 DEF AskModel, LoopTypeOK, answer, workspace, verdict, Ends
    <2>2. Counted'
      BY <1>1 DEF AskModel, Counted, answer, Ends
    <2>3. Issues(claim)' = Issues(claim)
      BY <1>1, IssuesKept DEF AskModel, workspace, verdict
    <2>4. Judged' /\ Reported' /\ Unmanaged'
      BY <1>1, <2>3 DEF AskModel, Judged, Reported, Unmanaged, answer, workspace, verdict, Ends
    <2> QED
      BY <2>1, <2>2, <2>4
  <1>2. CASE ModelThrows
    <2>1. LoopTypeOK'
      BY <1>2 DEF ModelThrows, LoopTypeOK, answer, workspace, verdict, Ends
    <2>2. Counted'
      BY <1>2 DEF ModelThrows, Counted, answer, Ends
    <2>3. Issues(claim)' = Issues(claim)
      BY <1>2, IssuesKept DEF ModelThrows, workspace, verdict
    <2>4. Judged' /\ Reported' /\ Unmanaged'
      BY <1>2, <2>3 DEF ModelThrows, Judged, Reported, Unmanaged, answer, workspace, verdict, Ends
    <2> QED
      BY <2>1, <2>2, <2>4
  <1>3. CASE Silent
    <2>1. LoopTypeOK'
      BY <1>3 DEF Silent, LoopTypeOK, answer, workspace, verdict, Ends
    <2>2. Counted'
      BY <1>3 DEF Silent, Counted, answer, Ends
    <2>3. Issues(claim)' = Issues(claim)
      BY <1>3, IssuesKept DEF Silent, workspace, verdict
    <2>4. Judged' /\ Reported' /\ Unmanaged'
      BY <1>3, <2>3 DEF Silent, Judged, Reported, Unmanaged, answer, workspace, verdict, Ends
    <2> QED
      BY <2>1, <2>2, <2>4
  <1>4. ASSUME NEW reply \in Responses, Respond(reply) PROVE LoopIInv'
    <2>0. /\ IsFiniteSet(ToRun(reply)) /\ Len(reply) \in Nat
          /\ Cardinality(ToRun(reply)) \in Nat /\ Cardinality(ToRun(reply)) <= Len(reply)
          /\ \A next \in ToRun(reply) : \E i \in DOMAIN reply : next.call = reply[i]
      BY ToRunIsBounded
    <2>a. \/ /\ toolCalls' > MaxToolCalls /\ phase' = "over" /\ result' = "failed"
             /\ UNCHANGED <<outstanding, claimed>>
          \/ /\ ~(toolCalls' > MaxToolCalls)
             /\ phase' = "calls" /\ outstanding' = ToRun(reply) /\ UNCHANGED result
             /\ claimed' = \E i \in DOMAIN reply : IsFinalize(reply[i])
      BY <1>4, Zenon DEF Respond, Ends, answer
    <2>b. /\ toolCalls' = toolCalls + Len(reply) /\ phase = "model"
          /\ UNCHANGED <<opts, turn, workspace, verdict, aborted, executed>>
      BY <1>4 DEF Respond
    <2>1. LoopTypeOK'
      <3>1. claimed' \in BOOLEAN
        BY <2>a, Zenon DEF LoopTypeOK
      <3>2. outstanding' \subseteq UNION {ToRun(c) : c \in Responses}
        BY <2>a DEF LoopTypeOK, answer
      <3>3. toolCalls' \in Nat
        BY <2>b, <2>0 DEF LoopTypeOK
      <3>4. phase' \in {"ask", "model", "calls", "over"}
            /\ result' \in {"none", "accepted", "wrote", "stopped", "limit", "failed", "cancelled"}
        BY <2>a DEF LoopTypeOK, Ends
      <3> QED
        BY <2>b, <3>1, <3>2, <3>3, <3>4 DEF LoopTypeOK, workspace, verdict
    <2>2. Counted'
      <3>1. executed \in Nat /\ toolCalls \in Nat /\ executed <= toolCalls /\ toolCalls <= MaxToolCalls
            /\ IsFiniteSet(outstanding)
        BY <2>b DEF Counted, LoopTypeOK
      <3>2. executed' = executed /\ toolCalls' = toolCalls + Len(reply)
        BY <2>b
      <3>3. CASE phase' = "over"
        <4>1. outstanding' = outstanding
          BY <2>a, <3>3
        <4> QED
          BY <3>1, <3>2, <3>3, <4>1 DEF Counted
      <3>4. CASE phase' = "calls"
        <4>1. outstanding' = ToRun(reply) /\ ~(toolCalls' > MaxToolCalls)
          BY <2>a, <3>4
        <4> QED
          BY <2>0, <3>1, <3>2, <3>4, <4>1 DEF Counted
      <3> QED
        BY <2>a, <3>3, <3>4
    <2>3. ~accepted /\ ~accepted'
      BY <2>b DEF Judged, verdict
    <2>4. Judged'
      <3>1. ASSUME NEW next \in outstanding', IsFinalize(next.call) PROVE claimed'
        <4>1. CASE UNCHANGED <<outstanding, claimed>>
          BY <3>1, <4>1 DEF Judged
        <4>2. CASE /\ outstanding' = ToRun(reply)
                   /\ claimed' = \E i \in DOMAIN reply : IsFinalize(reply[i])
          <5>1. \E i \in DOMAIN reply : IsFinalize(reply[i])
            BY <2>0, <3>1, <4>2
          <5> QED
            BY <4>2, <5>1, Zenon
        <4> QED
          BY <2>a, <4>1, <4>2, Zenon
      <3> QED
        BY <2>3, <3>1 DEF Judged
    <2>5. Reported' /\ Unmanaged'
      BY <2>a, <2>b, <2>3 DEF Reported, Unmanaged, workspace, Ends
    <2> QED
      BY <2>1, <2>2, <2>4, <2>5
  <1>5. CASE RunCall
    <2>1. PICK next \in outstanding :
            /\ \A other \in outstanding \ {next} : Precedes(next, other)
            /\ outstanding' = outstanding \ {next}
            /\ IF IsFinalize(next.call) THEN Judge(next.call) /\ UNCHANGED workspace
               ELSE Execute(next.call) /\ UNCHANGED verdict
      BY <1>5 DEF RunCall
    <2>2. /\ phase = "calls" /\ executed' = executed + 1
          /\ UNCHANGED <<opts, turn, phase, claimed, toolCalls, aborted, result>>
      BY <1>5, <2>1 DEF RunCall, LoopTypeOK
    <2>3. ~accepted
      BY <2>1 DEF Judged
    <2>4. /\ IsFiniteSet(outstanding') /\ Cardinality(outstanding') = Cardinality(outstanding) - 1
          /\ Cardinality(outstanding) \in Nat /\ Cardinality(outstanding) >= 1
      <3>1. IsFiniteSet(outstanding)
        BY DEF Counted
      <3>2. /\ IsFiniteSet(outstanding') /\ Cardinality(outstanding') = Cardinality(outstanding) - 1
        BY <2>1, <3>1, FS_RemoveElement
      <3>3. Cardinality(outstanding) \in Nat /\ Cardinality(outstanding') \in Nat
        BY <3>1, <3>2, FS_CardinalityType
      <3> QED
        BY <3>2, <3>3
    <2>5. Counted'
      BY <2>2, <2>4 DEF Counted, LoopTypeOK
    <2>6. CASE IsFinalize(next.call)
      <3>1. outstanding' = {}
        BY <2>1, <2>6 DEF Precedes
      <3>2. /\ claim' = next.call /\ accepted' \in BOOLEAN /\ UNCHANGED <<written, files, misnamed>>
            /\ accepted' /\ "requirements" \in opts => Issues(next.call) = {}
        BY <2>1, <2>6 DEF Judge, workspace
      <3>3. Issues(claim)' = Issues(next.call)
        BY <3>2 DEF Issues, FileIssues, Present, Evidence
      <3>4. Judged'
        BY <2>2, <2>6, <3>1, <3>2, <3>3 DEF Judged
      <3>5. LoopTypeOK'
        BY <2>2, <3>1, <3>2 DEF LoopTypeOK
      <3>6. Reported' /\ Unmanaged'
        BY <2>2, <2>3, <3>2 DEF Reported, Unmanaged
      <3> QED
        BY <2>5, <3>4, <3>5, <3>6
    <2>7. CASE ~IsFinalize(next.call)
      <3>1. UNCHANGED <<claim, accepted>>
        BY <2>1, <2>7 DEF verdict
      <3>2. Judged'
        BY <2>1, <2>2, <2>3, <3>1 DEF Judged
      <3>3. \/ UNCHANGED <<written, files, misnamed>>
            \/ /\ Writes(next.call) /\ next.call.path \notin Managed
               /\ written < MaxFilesWritten /\ written' = written + 1
               /\ \/ /\ files' = [files EXCEPT ![FileAt[next.call.path]] = next.call.content]
                     /\ misnamed' = IF next.call.path = FileAt[next.call.path] THEN misnamed
                                    ELSE misnamed \cup {FileAt[next.call.path]}
                  \/ UNCHANGED <<files, misnamed>>
        BY <2>1, <2>7 DEF Execute, Put, MayWrite, workspace
      <3>4. Writes(next.call) => /\ next.call.path \in DOMAIN FileAt /\ next.call.content \in Contents
                                 /\ FileAt[next.call.path] \in Paths
        <4>1. PICK reply \in Responses : next \in ToRun(reply)
          BY DEF LoopTypeOK
        <4> QED
          BY <4>1, ToRunIsBounded
      <3>5. files' \in [Paths -> Contents \cup {"absent"}] /\ misnamed' \subseteq Paths
        BY <3>3, <3>4 DEF LoopTypeOK
      <3>6. written' \in 0..MaxFilesWritten /\ written' >= written
        BY <3>3 DEF LoopTypeOK
      <3>7. LoopTypeOK'
        BY <2>1, <2>2, <3>1, <3>5, <3>6 DEF LoopTypeOK
      <3>8. Unmanaged'
        BY <3>3, <3>4 DEF Unmanaged, LoopTypeOK
      <3>9. Reported'
        BY <2>2, <3>1, <3>6 DEF Reported, LoopTypeOK
      <3> QED
        BY <2>5, <3>2, <3>7, <3>8, <3>9
    <2> QED
      BY <2>6, <2>7
  <1>6. CASE Assemble
    <2>1. LoopTypeOK'
      BY <1>6 DEF Assemble, LoopTypeOK, answer, workspace, verdict, Ends
    <2>2. Counted'
      BY <1>6 DEF Assemble, Counted, LoopTypeOK, answer, Ends
    <2>3. Issues(claim)' = Issues(claim)
      BY <1>6, IssuesKept DEF Assemble, workspace, verdict
    <2>4. Judged' /\ Reported' /\ Unmanaged'
      BY <1>6, <2>3 DEF Assemble, Judged, Reported, Unmanaged, answer, workspace, verdict, Ends
    <2> QED
      BY <2>1, <2>2, <2>4
  <1>7. CASE Abort
    <2>1. Issues(claim)' = Issues(claim)
      BY <1>7, IssuesKept DEF Abort, workspace, verdict
    <2> QED
      BY <1>7, <2>1
      DEF Abort, LoopTypeOK, Counted, Judged, Reported, Unmanaged, answer, workspace, verdict
  <1>8. CASE UNCHANGED loopVars
    <2>1. Issues(claim)' = Issues(claim)
      BY <1>8, IssuesKept DEF loopVars, workspace, verdict
    <2> QED
      BY <1>8, <2>1
      DEF loopVars, LoopTypeOK, Counted, Judged, Reported, Unmanaged, answer, workspace, verdict
  <1> QED
    BY <1>1, <1>2, <1>3, <1>4, <1>5, <1>6, <1>7, <1>8 DEF LoopNext

LEMMA LoopHolds == LoopIInv => AcceptedIsThere
  <1> SUFFICES ASSUME LoopIInv PROVE AcceptedIsThere
    OBVIOUS
  <1>1. IsFinalize(claim) => claim # NoClaim
    BY DEF IsFinalize, NoClaim
  <1> QED
    BY <1>1 DEF LoopIInv, Counted, Judged, Reported, Unmanaged, AcceptedIsThere

-----------------------------------------------------------------------------
(* SourcePatches: texts and where a text is found in another *)

Letters == [ch : Characters, at : Nat]
Ranges == {r \in [start : Nat, end : Nat] : r.start <= r.end}

\* A non-empty set of natural numbers has a least element
LEMMA LeastNatural ==
  ASSUME NEW T, T \subseteq Nat, T # {}
  PROVE  \E x \in T : \A y \in T : x <= y
  <1> DEFINE less == {p \in Nat \X Nat : p[1] < p[2]}
  <1>1. IsWellFoundedOn(less, Nat)
    BY NatLessThanWellFounded DEF OpToRel
  <1>2. PICK x \in T : \A y \in T : ~ (<<y, x>> \in less)
    <2> HIDE DEF less
    <2> QED
      BY <1>1, WFMin
  <1>3. ASSUME NEW y \in T PROVE x <= y
    <2>1. x \in Nat /\ y \in Nat /\ ~ (<<y, x>> \in less)
      BY <1>2
    <2>2. y < x => <<y, x>> \in less
      BY <2>1
    <2> QED
      BY <2>1, <2>2
  <1> QED
    BY <1>2, <1>3

\* The letters of a part of a sequence
LEMMA SliceLetters ==
  ASSUME NEW S, NEW w \in Seq(S), NEW from \in Nat, NEW to \in Nat,
         from <= to, to <= Len(w)
  PROVE  /\ Slice(w, from, to) \in Seq(S) /\ Len(Slice(w, from, to)) = to - from
         /\ DOMAIN Slice(w, from, to) = 1..(to - from)
         /\ \A i \in 1..(to - from) : Slice(w, from, to)[i] = w[from + i]
  <1>1. Len(w) \in Nat /\ from + 1 \in 1..(Len(w) + 1) /\ to \in 0..Len(w)
    OBVIOUS
  <1>2. /\ SubSeq(w, from + 1, to) \in Seq(S) /\ Len(SubSeq(w, from + 1, to)) = to - from
        /\ \A i \in 1..(to - from) : SubSeq(w, from + 1, to)[i] = w[from + i]
    BY <1>1
  <1> QED
    BY <1>2, LenProperties DEF Slice

Sliced(part, w, from, to) ==
  DOMAIN part = 1..(to - from) /\ \A i \in 1..(to - from) : part[i] = w[from + i]

LEMMA LettersSliced ==
  ASSUME NEW w \in Seq(Letters), NEW from \in Nat, NEW to \in Nat, from <= to, to <= Len(w)
  PROVE  Sliced(Slice(w, from, to), w, from, to)
  BY SliceLetters, Zenon DEF Sliced

\* The letters of a sequence in which a part was replaced
Spliced(new, w, from, to, text) ==
  /\ new \in Seq(Letters) /\ Len(new) = from + Len(text) + (Len(w) - to)
  /\ DOMAIN new = 1..(from + Len(text) + (Len(w) - to))
  /\ \A i \in 1..from : new[i] = w[i]
  /\ \A i \in 1..Len(text) : new[from + i] = text[i]
  /\ \A i \in 1..(Len(w) - to) : new[from + Len(text) + i] = w[to + i]

LEMMA SpliceLetters ==
  ASSUME NEW w \in Seq(Letters), NEW text \in Seq(Letters), NEW from \in Nat, NEW to \in Nat,
         from <= to, to <= Len(w)
  PROVE  Spliced(Splice(w, from, to, text), w, from, to, text)
  <1> DEFINE before == Slice(w, 0, from)
             after == Slice(w, to, Len(w))
  <1>1. Len(w) \in Nat /\ Len(text) \in Nat /\ from <= Len(w) /\ to <= Len(w) /\ 0 <= from /\ 0 \in Nat
    OBVIOUS
  <1>2. /\ before \in Seq(Letters) /\ Len(before) = from
        /\ \A i \in 1..from : before[i] = w[i]
    <2>1. /\ Slice(w, 0, from) \in Seq(Letters) /\ Len(Slice(w, 0, from)) = from - 0
          /\ \A i \in 1..(from - 0) : Slice(w, 0, from)[i] = w[0 + i]
      <3>1. 0 \in Nat /\ 0 <= from /\ from <= Len(w)
        BY <1>1
      <3> QED
        BY ONLY <3>1, SliceLetters, w \in Seq(Letters), from \in Nat
    <2> HIDE DEF before
    <2> QED
      BY <2>1, <1>1 DEF before
  <1>3. /\ after \in Seq(Letters) /\ Len(after) = Len(w) - to
        /\ \A i \in 1..(Len(w) - to) : after[i] = w[to + i]
    <2> DEFINE n == Len(w)
    <2>1. to <= n /\ n <= Len(w) /\ n \in Nat /\ after = Slice(w, to, n)
      BY <1>1
    <2> HIDE DEF n, after
    <2>2. /\ Slice(w, to, n) \in Seq(Letters) /\ Len(Slice(w, to, n)) = n - to
          /\ \A i \in 1..(n - to) : Slice(w, to, n)[i] = w[to + i]
      BY ONLY <2>1, SliceLetters, w \in Seq(Letters), to \in Nat, ZenonT(60)
    <2> QED
      BY <2>1, <2>2 DEF n
  <1> HIDE DEF before, after
  <1>4. /\ before \o text \in Seq(Letters) /\ Len(before \o text) = from + Len(text)
        /\ \A i \in 1..(from + Len(text)) :
             (before \o text)[i] = IF i <= from THEN before[i] ELSE text[i - from]
    BY <1>2, ConcatProperties
  <1> DEFINE first == before \o text
  <1>a. first \in Seq(Letters) /\ Len(first) = from + Len(text)
    BY <1>4
  <1>5. /\ (before \o text) \o after \in Seq(Letters)
        /\ Len((before \o text) \o after) = (from + Len(text)) + (Len(w) - to)
        /\ \A i \in 1..((from + Len(text)) + (Len(w) - to)) :
             ((before \o text) \o after)[i] =
               IF i <= from + Len(text) THEN (before \o text)[i] ELSE after[i - (from + Len(text))]
    <2> HIDE DEF first
    <2>1. /\ first \o after \in Seq(Letters) /\ Len(first \o after) = Len(first) + Len(after)
          /\ \A i \in 1..(Len(first) + Len(after)) :
               (first \o after)[i] = IF i <= Len(first) THEN first[i] ELSE after[i - Len(first)]
      <3>1. first \in Seq(Letters) /\ after \in Seq(Letters)
        BY <1>3, <1>a
      <3> QED
        BY ONLY <3>1, ConcatProperties, Zenon
    <2> QED
      BY <2>1, <1>3, <1>a DEF first
  <1>6. Splice(w, from, to, text) = (before \o text) \o after
    BY DEF Splice, before, after
  <1> DEFINE new == (before \o text) \o after
  <1>7. ASSUME NEW i \in 1..from PROVE new[i] = w[i]
    BY <1>1, <1>2, <1>4, <1>5
  <1>8. ASSUME NEW i \in 1..Len(text) PROVE new[from + i] = text[i]
    <2>1. from + i \in 1..(from + Len(text)) /\ ~(from + i <= from) /\ (from + i) - from = i
          /\ from + i \in 1..((from + Len(text)) + (Len(w) - to)) /\ from + i <= from + Len(text)
      BY <1>1
    <2> QED
      BY <2>1, <1>4, <1>5
  <1>9. ASSUME NEW i \in 1..(Len(w) - to) PROVE new[from + Len(text) + i] = w[to + i]
    <2>1. /\ (from + Len(text)) + i \in 1..((from + Len(text)) + (Len(w) - to))
          /\ ~((from + Len(text)) + i <= from + Len(text))
          /\ ((from + Len(text)) + i) - (from + Len(text)) = i
      BY <1>1
    <2> QED
      BY <2>1, <1>3, <1>5
  <1>10. DOMAIN new = 1..(from + Len(text) + (Len(w) - to))
    BY <1>5, LenProperties
  <1> HIDE DEF new
  <1>11. /\ new \in Seq(Letters) /\ Len(new) = from + Len(text) + (Len(w) - to)
    BY <1>5 DEF new
  <1> QED
    BY <1>6, <1>7, <1>8, <1>9, <1>10, <1>11 DEF new, Spliced

\* A search from the left takes places that do not overlap
LEMMA TakenOnce ==
  ASSUME NEW w, NEW find, NEW T, NEW V, Len(w) \in Nat, Len(find) \in Nat,
         T \subseteq Occurrences(w, find), V \subseteq Occurrences(w, find),
         FromTheLeft(Occurrences(w, find), find, T), FromTheLeft(Occurrences(w, find), find, V)
  PROVE  T = V
  <1> SUFFICES ASSUME T # V PROVE FALSE
    OBVIOUS
  <1> DEFINE D == {o \in Occurrences(w, find) : ~(o \in T <=> o \in V)}
  <1>1. D \subseteq Nat /\ D # {}
    <2>1. D \subseteq Occurrences(w, find) /\ Occurrences(w, find) \subseteq Nat
      BY DEF Occurrences
    <2>2. D # {}
      <3>1. PICK o : ~(o \in T <=> o \in V)
        BY Zenon
      <3> QED
        BY <3>1
    <2> QED
      BY <2>1, <2>2
  <1>2. PICK o \in D : \A p \in D : o <= p
    <2> HIDE DEF D
    <2> QED
      BY <1>1, LeastNatural
  <1>3. ASSUME NEW p \in Occurrences(w, find), p < o PROVE p \in T <=> p \in V
    BY <1>1, <1>2, <1>3
  <1> QED
    BY <1>2, <1>3 DEF FromTheLeft

LEMMA OffsetsApart ==
  ASSUME NEW w \in Texts, NEW find, find # <<>>, NEW o \in Offsets(w, find)
  PROVE  /\ find \in Texts /\ Len(find) \in Nat /\ Len(find) > 0
         /\ o \in Nat /\ o + Len(find) <= Len(w) /\ Slice(w, o, o + Len(find)) = find
         /\ \A p \in Offsets(w, find) : o = p \/ o + Len(find) <= p \/ p + Len(find) <= o
  <1>1. PICK T \in SUBSET Occurrences(w, find) : o \in T /\ FromTheLeft(Occurrences(w, find), find, T)
    BY DEF Offsets
  <1>2. PICK end \in o..Len(w) : o \in 0..Len(w) /\ Slice(w, o, end) = find
    BY <1>1 DEF Occurrences
  <1>3. Len(w) \in Nat /\ w \in Seq(Characters)
    BY DEF Texts
  <1>4. find \in Texts /\ Len(find) = end - o
    <2>1. o \in Nat /\ end \in Nat /\ o <= end /\ end <= Len(w)
      BY <1>2, <1>3
    <2>2. Slice(w, o, end) \in Seq(Characters) /\ Len(Slice(w, o, end)) = end - o
      BY <1>3, <2>1, SliceLetters, Zenon
    <2> QED
      BY <1>2, <2>2 DEF Texts
  <1>5. Len(find) > 0 /\ Len(find) \in Nat
    BY <1>4 DEF Texts
  <1>6. o + Len(find) = end
    BY <1>2, <1>3, <1>4, <1>5
  <1>7. ASSUME NEW p \in Offsets(w, find) PROVE o = p \/ o + Len(find) <= p \/ p + Len(find) <= o
    <2>1. PICK V \in SUBSET Occurrences(w, find) : p \in V /\ FromTheLeft(Occurrences(w, find), find, V)
      BY DEF Offsets
    <2>2. p \in T
      BY <1>1, <1>3, <1>5, <2>1, TakenOnce
    <2>3. o \in Nat /\ p \in Nat
      BY <1>1, <2>2 DEF Occurrences
    <2> QED
      BY <1>1, <1>5, <2>2, <2>3 DEF FromTheLeft
  <1> QED
    BY <1>2, <1>3, <1>4, <1>5, <1>6, <1>7


LEMMA WordsAndLetters ==
  /\ \A w \in Texts : Len(w) \in Nat /\ DOMAIN w = 1..Len(w) /\ Normal(w) \in Texts
  /\ \A w \in Texts : /\ AsShown(w) \in Seq(Letters) /\ Len(AsShown(w)) = Len(w)
                       /\ \A i \in 1..Len(w) : AsShown(w)[i].at = i /\ AsShown(w)[i].ch = w[i]
  /\ \A w \in Texts : /\ Brought(w) \in Seq(Letters) /\ Len(Brought(w)) = Len(w)
                       /\ \A i \in 1..Len(w) : Brought(w)[i].at = 0
  /\ \A s \in Seq(Letters) : /\ Word(s) \in Texts /\ Len(Word(s)) = Len(s)
                              /\ \A i \in 1..Len(s) : Word(s)[i] = s[i].ch /\ s[i] \in Letters
  <1>1. ASSUME NEW w \in Texts
        PROVE  /\ Len(w) \in Nat /\ DOMAIN w = 1..Len(w)
               /\ \A i \in 1..Len(w) : w[i] \in Characters
    BY DEF Texts
  <1>2. ASSUME NEW w \in Texts PROVE Normal(w) \in Texts
    <2>1. \A i \in 1..Len(w) : LineEnd[w[i]] \in Characters
      BY <1>1, PatchAssumption
    <2> QED
      BY <1>1, <2>1, IsASeq DEF Normal, Texts
  <1>3. ASSUME NEW w \in Texts
        PROVE  /\ AsShown(w) \in Seq(Letters) /\ Len(AsShown(w)) = Len(w)
               /\ \A i \in 1..Len(w) : AsShown(w)[i].at = i /\ AsShown(w)[i].ch = w[i]
    <2>1. \A i \in 1..Len(w) : [ch |-> w[i], at |-> i] \in Letters
      BY <1>1 DEF Letters
    <2>2. AsShown(w) = [i \in 1..Len(w) |-> [ch |-> w[i], at |-> i]]
      BY <1>1 DEF AsShown
    <2>3. AsShown(w) \in Seq(Letters)
      BY <1>1, <2>1, <2>2, IsASeq
    <2> QED
      BY <1>1, <2>2, <2>3, LenProperties
  <1>4. ASSUME NEW w \in Texts
        PROVE  /\ Brought(w) \in Seq(Letters) /\ Len(Brought(w)) = Len(w)
               /\ \A i \in 1..Len(w) : Brought(w)[i].at = 0
    <2>1. \A i \in 1..Len(w) : [ch |-> w[i], at |-> 0] \in Letters
      BY <1>1 DEF Letters
    <2>2. Brought(w) = [i \in 1..Len(w) |-> [ch |-> w[i], at |-> 0]]
      BY <1>1 DEF Brought
    <2>3. Brought(w) \in Seq(Letters)
      BY <1>1, <2>1, <2>2, IsASeq
    <2> QED
      BY <1>1, <2>2, <2>3, LenProperties
  <1>5. ASSUME NEW s \in Seq(Letters)
        PROVE  /\ Word(s) \in Texts /\ Len(Word(s)) = Len(s)
               /\ \A i \in 1..Len(s) : Word(s)[i] = s[i].ch /\ s[i] \in Letters
    <2>1. Len(s) \in Nat /\ DOMAIN s = 1..Len(s) /\ \A i \in 1..Len(s) : s[i] \in Letters
      OBVIOUS
    <2>2. \A i \in 1..Len(s) : s[i].ch \in Characters
      BY <2>1 DEF Letters
    <2>3. Word(s) = [i \in 1..Len(s) |-> s[i].ch]
      BY <2>1 DEF Word
    <2>4. Word(s) \in Texts
      BY <2>1, <2>2, <2>3, IsASeq DEF Texts
    <2> QED
      BY <2>1, <2>3, <2>4, LenProperties DEF Texts
  <1> QED
    BY <1>1, <1>2, <1>3, <1>4, <1>5

\* The word of a part of the letters
LEMMA SliceOfWord ==
  ASSUME NEW s \in Seq(Letters), NEW from \in Nat, NEW to \in Nat, from <= to, to <= Len(s)
  PROVE  Word(Slice(s, from, to)) = Slice(Word(s), from, to)
  <1>1. /\ Slice(s, from, to) \in Seq(Letters) /\ Len(Slice(s, from, to)) = to - from
        /\ \A i \in 1..(to - from) : Slice(s, from, to)[i] = s[from + i]
    BY SliceLetters, Zenon
  <1>2. /\ Word(s) \in Seq(Characters) /\ Len(Word(s)) = Len(s)
        /\ \A i \in 1..Len(s) : Word(s)[i] = s[i].ch
    BY WordsAndLetters DEF Texts
  <1>3. to <= Len(Word(s))
    BY <1>2
  <1>4. /\ Slice(Word(s), from, to) \in Seq(Characters) /\ Len(Slice(Word(s), from, to)) = to - from
        /\ \A i \in 1..(to - from) : Slice(Word(s), from, to)[i] = Word(s)[from + i]
    BY <1>2, <1>3, SliceLetters, Zenon
  <1>5. /\ Word(Slice(s, from, to)) \in Seq(Characters)
        /\ Len(Word(Slice(s, from, to))) = to - from
        /\ \A i \in 1..(to - from) : Word(Slice(s, from, to))[i] = Slice(s, from, to)[i].ch
    BY <1>1, WordsAndLetters DEF Texts
  <1>6. ASSUME NEW i \in 1..(to - from)
        PROVE  Word(Slice(s, from, to))[i] = Slice(Word(s), from, to)[i]
    <2>1. from + i \in 1..Len(s)
      BY <1>1
    <2> QED
      BY <1>1, <1>2, <1>4, <1>5, <2>1
  <1> QED
    BY <1>4, <1>5, <1>6, SeqEqual

\* A splice leaves what stands before it
LEMMA SliceBeforeSplice ==
  ASSUME NEW w \in Seq(Letters), NEW text \in Seq(Letters), NEW from \in Nat, NEW to \in Nat,
         from <= to, to <= Len(w), NEW start \in Nat, NEW end \in Nat, start <= end, end <= from
  PROVE  /\ end <= Len(Splice(w, from, to, text))
         /\ Slice(Splice(w, from, to, text), start, end) = Slice(w, start, end)
  <1> DEFINE new == Splice(w, from, to, text)
  <1>1. /\ new \in Seq(Letters) /\ Len(new) = from + Len(text) + (Len(w) - to)
        /\ \A i \in 1..from : new[i] = w[i]
    <2>1. Spliced(new, w, from, to, text)
      BY SpliceLetters, Zenon
    <2> HIDE DEF new
    <2> QED
      BY <2>1 DEF Spliced
  <1> HIDE DEF new
  <1>2. Len(text) \in Nat /\ Len(w) \in Nat
    OBVIOUS
  <1>3. end <= Len(new) /\ end <= Len(w)
    BY <1>1, <1>2
  <1>4. /\ Slice(w, start, end) \in Seq(Letters) /\ Len(Slice(w, start, end)) = end - start
        /\ \A i \in 1..(end - start) : Slice(w, start, end)[i] = w[start + i]
    <2>1. end <= Len(w)
      BY <1>3
    <2> QED
      BY <1>2, <2>1 DEF Slice
  <1>5. /\ Slice(new, start, end) \in Seq(Letters) /\ Len(Slice(new, start, end)) = end - start
        /\ \A i \in 1..(end - start) : Slice(new, start, end)[i] = new[start + i]
    <2>1. new \in Seq(Letters) /\ end <= Len(new)
      BY <1>1, <1>3
    <2> QED
      BY <1>2, <2>1 DEF Slice
  <1>6. \A i \in 1..(end - start) : Slice(new, start, end)[i] = Slice(w, start, end)[i]
    BY <1>1, <1>4, <1>5
  <1>7. Slice(new, start, end) = Slice(w, start, end)
    BY <1>4, <1>5, <1>6, SeqEqual
  <1> QED
    BY <1>3, <1>7 DEF new

-----------------------------------------------------------------------------
(* SourcePatches: the ranges that were brought *)

\* Every letter that a patch brought lies in a range, and where a patch took letters away
\* there is an empty one.
Marked(s, ranges) ==
  /\ \A i \in 1..Len(s) : s[i].at = 0 => \E r \in ranges : r.start < i /\ i <= r.end
  /\ \A i \in 1..Len(s) :
       i > 1 /\ s[i].at # 0 /\ s[i - 1].at # 0 /\ s[i].at # s[i - 1].at + 1 =>
         \E r \in ranges : r.start = i - 1 /\ r.end = i - 1

Cuts(c, s) ==
  /\ c.start \in Nat /\ c.end \in Nat /\ c.start < c.end /\ c.end <= Len(s)
  /\ c.by \in Seq(Letters) /\ \A i \in 1..Len(c.by) : c.by[i].at = 0

\* What becomes of a range r when d letters replace those from a to b
BecomesOf(r, ranges, a, b, d) ==
  LET moved(i) == (i + d) - (b - a)
  IN /\ r.start \in Nat /\ r.end \in Nat /\ r.start <= r.end
     /\ r.end <= a => r \in ranges
     /\ r.start >= b => /\ moved(r.start) \in Nat /\ moved(r.end) \in Nat
                        /\ Span(moved(r.start), moved(r.end)) \in ranges
     /\ r.end > a /\ r.start < a => Span(r.start, a) \in ranges
     /\ r.start < b /\ r.end > b => /\ moved(r.end) \in Nat
                                    /\ Span(a + d, moved(r.end)) \in ranges

LEMMA RangeCut ==
  ASSUME NEW s \in Seq(Letters), NEW R, R \subseteq Ranges, NEW c, Cuts(c, s), NEW r \in R
  PROVE  BecomesOf(r, RangesAfter(R, c), c.start, c.end, Len(c.by))
  <1> DEFINE d == Len(c.by)
             Moved(i) == (i + d) - (c.end - c.start)
             Left(q) == IF q.start < c.start THEN {Span(q.start, c.start)} ELSE {}
             Right(q) == IF q.end > c.end THEN {Span(c.start + d, Moved(q.end))} ELSE {}
             After(q) == IF q.end <= c.start THEN {q}
                         ELSE IF q.start >= c.end THEN {Span(Moved(q.start), Moved(q.end))}
                         ELSE Left(q) \cup Right(q)
  <1>1. d \in Nat /\ r.start \in Nat /\ r.end \in Nat /\ r.start <= r.end
    BY DEF Ranges, Cuts
  <1>2. c.start \in Nat /\ c.end \in Nat /\ c.start < c.end
    BY DEF Cuts
  <1>3. After(r) \subseteq RangesAfter(R, c)
    <2>1. RangesAfter(R, c) = (UNION {After(q) : q \in R})
                                \cup IF c.same THEN {} ELSE {Span(c.start, c.start + d)}
      BY DEF RangesAfter
    <2> HIDE DEF After
    <2> QED
      BY <2>1
  <1>4. r.end <= c.start => r \in After(r)
    OBVIOUS
  <1>5. r.start >= c.end => Moved(r.start) \in Nat /\ Moved(r.end) \in Nat
    BY <1>1, <1>2
  <1>6. r.start >= c.end => Span(Moved(r.start), Moved(r.end)) \in After(r)
    <2>1. r.start >= c.end => ~(r.end <= c.start)
      BY <1>1, <1>2
    <2> HIDE DEF Moved, Left, Right
    <2> QED
      BY <2>1
  <1>7. r.end > c.start /\ r.start < c.start => Span(r.start, c.start) \in After(r)
    <2>1. r.end > c.start /\ r.start < c.start => ~(r.end <= c.start) /\ ~(r.start >= c.end)
      BY <1>1, <1>2
    <2> HIDE DEF Moved, Right
    <2> QED
      BY <2>1
  <1>8. r.end > c.end => Moved(r.end) \in Nat
    BY <1>1, <1>2
  <1>9. r.start < c.end /\ r.end > c.end => Span(c.start + d, Moved(r.end)) \in After(r)
    <2>1. r.start < c.end /\ r.end > c.end => ~(r.end <= c.start) /\ ~(r.start >= c.end)
      BY <1>1, <1>2
    <2> HIDE DEF Moved, Left
    <2> QED
      BY <2>1
  <1> HIDE DEF After
  <1> QED
    BY <1>1, <1>3, <1>4, <1>5, <1>6, <1>7, <1>8, <1>9 DEF Moved, d, BecomesOf

\* What stands behind a cut moves with it
LEMMA MovesBehind ==
  ASSUME NEW a \in Nat, NEW b \in Nat, NEW d \in Nat, NEW i \in Nat, NEW j \in Nat,
         a < b, b <= i, i <= j
  PROVE  /\ (i + d) - (b - a) \in Nat /\ (j + d) - (b - a) \in Nat
         /\ (i + d) - (b - a) <= (j + d) - (b - a) /\ a + d <= (j + d) - (b - a)
  OBVIOUS

LEMMA RangesStay ==
  ASSUME NEW s \in Seq(Letters), NEW R, R \subseteq Ranges, NEW c, Cuts(c, s)
  PROVE  /\ RangesAfter(R, c) \subseteq Ranges
         /\ ~c.same => Span(c.start, c.start + Len(c.by)) \in RangesAfter(R, c)
  <1> DEFINE d == Len(c.by)
             Moved(i) == (i + d) - (c.end - c.start)
             Left(q) == IF q.start < c.start THEN {Span(q.start, c.start)} ELSE {}
             Right(q) == IF q.end > c.end THEN {Span(c.start + d, Moved(q.end))} ELSE {}
             After(q) == IF q.end <= c.start THEN {q}
                         ELSE IF q.start >= c.end THEN {Span(Moved(q.start), Moved(q.end))}
                         ELSE Left(q) \cup Right(q)
  <1>1. c.start \in Nat /\ c.end \in Nat /\ c.start < c.end /\ d \in Nat
    BY DEF Cuts
  <1>2. \A i, j \in Nat : i <= j => Span(i, j) \in Ranges
    BY DEF Span, Ranges
  <1>3. ASSUME NEW r \in R PROVE After(r) \subseteq Ranges
    <2>1. r.start \in Nat /\ r.end \in Nat /\ r.start <= r.end /\ r \in Ranges
      BY DEF Ranges
    <2>2. r.start >= c.end => Span(Moved(r.start), Moved(r.end)) \in Ranges
      <3>1. r.start >= c.end =>
              /\ Moved(r.start) \in Nat /\ Moved(r.end) \in Nat /\ Moved(r.start) <= Moved(r.end)
        BY <1>1, <2>1, MovesBehind
      <3> HIDE DEF Moved
      <3> QED
        BY <1>2, <3>1
    <2>3. Left(r) \subseteq Ranges
      BY <1>1, <1>2, <2>1
    <2>4. Right(r) \subseteq Ranges
      <3>1. r.end > c.end =>
              c.start + d \in Nat /\ Moved(r.end) \in Nat /\ c.start + d <= Moved(r.end)
        BY <1>1, <2>1, MovesBehind
      <3> HIDE DEF Moved
      <3> QED
        BY <1>2, <3>1
    <2> HIDE DEF Left, Right, Moved
    <2> QED
      BY <2>1, <2>2, <2>3, <2>4
  <1>4. Span(c.start, c.start + d) \in Ranges
    BY <1>1, <1>2
  <1>5. RangesAfter(R, c) = (UNION {After(q) : q \in R})
                              \cup IF c.same THEN {} ELSE {Span(c.start, c.start + d)}
    BY DEF RangesAfter
  <1> HIDE DEF After
  <1>6. ASSUME NEW x \in RangesAfter(R, c) PROVE x \in Ranges
    <2>1. CASE \E r \in R : x \in After(r)
      BY <1>3, <2>1
    <2>2. CASE x = Span(c.start, c.start + d)
      BY <1>4, <2>2
    <2>3. x \in UNION {After(q) : q \in R} \/ x = Span(c.start, c.start + d)
      <3> DEFINE U == UNION {After(q) : q \in R}
      <3>1. RangesAfter(R, c) = U \cup IF c.same THEN {} ELSE {Span(c.start, c.start + d)}
        BY <1>5, Zenon
      <3> HIDE DEF U
      <3>2. x \in U \/ x = Span(c.start, c.start + d)
        BY <3>1
      <3> QED
        BY <3>2 DEF U
    <2> QED
      BY <2>1, <2>2, <2>3
  <1>7. ~c.same => Span(c.start, c.start + d) \in RangesAfter(R, c)
    <2> DEFINE U == UNION {After(q) : q \in R}
    <2>1. RangesAfter(R, c) = U \cup IF c.same THEN {} ELSE {Span(c.start, c.start + d)}
      BY <1>5, Zenon
    <2> HIDE DEF U
    <2> QED
      BY <2>1
  <1> QED
    BY <1>6, <1>7

LEMMA CutMarks ==
  ASSUME NEW s \in Seq(Letters), NEW R, R \subseteq Ranges, NEW c, Cuts(c, s), Marked(s, R), ~c.same
  PROVE  Marked(Splice(s, c.start, c.end, c.by), RangesAfter(R, c))
  <1> DEFINE a == c.start
             b == c.end
             d == Len(c.by)
             n == Len(s)
             Moved(i) == (i + d) - (b - a)
             new == Splice(s, c.start, c.end, c.by)
             after == RangesAfter(R, c)
  <1>1. /\ a \in Nat /\ b \in Nat /\ a < b /\ b <= n /\ d \in Nat /\ n \in Nat
        /\ c.start \in Nat /\ c.end \in Nat /\ c.start <= c.end /\ c.end <= Len(s)
        /\ c.by \in Seq(Letters) /\ \A i \in 1..d : c.by[i].at = 0
    BY DEF Cuts
  <1>2. Spliced(new, s, c.start, c.end, c.by)
    BY <1>1, SpliceLetters, Zenon
  <1>3. Span(a, a + d) \in after
    BY RangesStay
  <1>4. /\ Len(new) = a + d + (n - b)
        /\ \A i \in 1..a : new[i] = s[i]
        /\ \A i \in 1..d : new[a + i].at = 0
        /\ \A i \in 1..(n - b) : new[a + d + i] = s[b + i]
    <2> HIDE DEF new
    <2> QED
      BY <1>1, <1>2 DEF Spliced
  <1>r. \A r \in R : BecomesOf(r, after, a, b, d)
    BY RangeCut, Zenon
  <1> HIDE DEF a, b, d, n, new, after
  <1>n. a \in Nat /\ b \in Nat /\ d \in Nat /\ n \in Nat /\ a < b /\ b <= n
    BY <1>1
  <1>l. Len(new) = a + d + (n - b)
    BY <1>4
  <1>5. ASSUME NEW i \in 1..Len(new), i <= a PROVE i \in 1..n /\ new[i] = s[i]
    <2>1. i \in 1..a /\ i \in 1..n
      BY <1>n, <1>l, <1>5
    <2> QED
      BY <1>4, <2>1
  <1>6. ASSUME NEW i \in 1..Len(new), i > a + d
        PROVE  LET j == i - (a + d) + b
               IN j \in 1..n /\ j > b /\ new[i] = s[j] /\ Moved(j) = i /\ i - 1 = Moved(j - 1)
    <2> DEFINE k == i - (a + d)
    <2>1. k \in 1..(n - b) /\ a + d + k = i /\ k + b = b + k
      BY <1>n, <1>l, <1>6
    <2>2. new[i] = s[b + k]
      BY <1>4, <2>1
    <2>3. i \in Nat /\ i <= a + d + (n - b)
      BY <1>n, <1>l
    <2>4. /\ k + b \in 1..n /\ k + b > b /\ Moved(k + b) = i /\ i - 1 = Moved((k + b) - 1)
      BY <1>n, <1>6, <2>1, <2>3
    <2> QED
      BY <2>1, <2>2, <2>4
  <1>7. ASSUME NEW i \in 1..Len(new), i > a, i <= a + d PROVE new[i].at = 0
    <2>1. i - a \in 1..d /\ a + (i - a) = i
      BY <1>1, <1>4, <1>7
    <2> QED
      BY <1>4, <2>1
  <1> DEFINE Holds(i) == \E r \in after : r.start < i /\ i <= r.end
             Joins(i) == \E r \in after : r.start = i /\ r.end = i
  <1>8. \A i, j : Span(i, j).start = i /\ Span(i, j).end = j
    BY DEF Span
  <1>9. ASSUME NEW i \in 1..Len(new), new[i].at = 0 PROVE Holds(i)
    <2>1. CASE i <= a
      <3>1. PICK r \in R : r.start < i /\ i <= r.end
        BY <1>5, <1>9, <2>1 DEF Marked, n
      <3>2. r.start \in Nat /\ r.end \in Nat /\ r.start < a
        BY <1>1, <2>1, <3>1, <1>r DEF BecomesOf
      <3>3. CASE r.end <= a
        BY <3>1, <3>3, <1>r DEF BecomesOf
      <3>4. CASE ~(r.end <= a)
        <4>1. Span(r.start, a) \in after
          BY <1>1, <3>2, <3>4, <1>r DEF BecomesOf
        <4> QED
          BY <1>8, <2>1, <3>1, <4>1
      <3> QED
        BY <3>3, <3>4
    <2>2. CASE i > a /\ i <= a + d
      BY <1>3, <1>8, <2>2
    <2>3. CASE i > a + d
      <3> DEFINE j == i - (a + d) + b
      <3>1. j \in 1..n /\ j > b /\ new[i] = s[j] /\ Moved(j) = i
        BY <1>6, <2>3
      <3> HIDE DEF j
      <3>2. PICK r \in R : r.start < j /\ j <= r.end
        BY <1>9, <3>1 DEF Marked, n
      <3>c. BecomesOf(r, after, a, b, d)
        BY <1>r
      <3> DEFINE from == r.start
                 to == r.end
      <3>d. /\ from \in Nat /\ to \in Nat /\ from < j /\ j <= to
            /\ from >= b => Span(Moved(from), Moved(to)) \in after
            /\ from < b /\ to > b => Span(a + d, Moved(to)) \in after
        BY <3>2, <3>c DEF BecomesOf
      <3> HIDE DEF from, to
      <3>3. j \in Nat /\ i \in Nat /\ to > b
        <4>1. j \in Nat /\ i \in Nat
          BY <1>n, <1>l, <3>1
        <4> QED
          BY <1>n, <3>1, <3>d, <4>1
      <3>4. CASE from >= b
        <4>1. Span(Moved(from), Moved(to)) \in after
          BY <3>4, <3>d
        <4>2. Moved(from) < i /\ i <= Moved(to)
          BY <1>1, <3>1, <3>d, <3>3
        <4> HIDE DEF Moved
        <4> QED
          BY <1>8, <4>1, <4>2
      <3>5. CASE ~(from >= b)
        <4>1. Span(a + d, Moved(to)) \in after
          BY <1>1, <3>d, <3>3, <3>5
        <4>2. a + d < i /\ i <= Moved(to)
          BY <1>1, <2>3, <3>1, <3>d, <3>3
        <4> HIDE DEF Moved
        <4> QED
          BY <1>8, <4>1, <4>2
      <3> QED
        BY <3>4, <3>5
    <2> QED
      BY <1>1, <1>4, <2>1, <2>2, <2>3
  <1>10. ASSUME NEW i \in 1..Len(new), i > 1, new[i].at # 0, new[i - 1].at # 0,
                new[i].at # new[i - 1].at + 1
         PROVE  Joins(i - 1)
    <2>0. i - 1 \in 1..Len(new)
      BY <1>1, <1>4, <1>10
    <2>1. CASE i <= a
      <3>1. new[i] = s[i] /\ new[i - 1] = s[i - 1] /\ i \in 1..n
        <4>1. i - 1 <= a /\ i \in 1..n
          BY <1>1, <1>5, <2>1
        <4> QED
          BY <1>5, <2>0, <2>1, <4>1
      <3>2. PICK r \in R : r.start = i - 1 /\ r.end = i - 1
        BY <1>10, <3>1 DEF Marked, n
      <3> QED
        BY <1>1, <2>1, <3>2, <1>r DEF BecomesOf
    <2>2. CASE i > a /\ i <= a + d
      BY <1>7, <1>10, <2>2
    <2>3. CASE i > a + d
      <3>1. CASE d > 0 /\ i - 1 = a + d
        <4>1. i - 1 > a /\ i - 1 <= a + d
          BY <1>1, <3>1
        <4> QED
          BY <1>7, <1>10, <2>0, <4>1
      <3>2. CASE d = 0 /\ i - 1 = a + d
        <4>1. a = i - 1 /\ a + d = i - 1
          BY <1>1, <3>2
        <4> QED
          BY <1>3, <1>8, <4>1
      <3>3. CASE i - 1 > a + d
        <4> DEFINE j == i - (a + d) + b
        <4>1. j \in 1..n /\ j > b /\ new[i] = s[j] /\ i - 1 = Moved(j - 1)
          BY <1>6, <2>3
        <4>2. (i - 1) - (a + d) + b = j - 1
          BY <1>1
        <4>3. new[i - 1] = s[j - 1] /\ j - 1 > b
          BY <1>6, <2>0, <3>3, <4>2
        <4>4. j > 1 /\ s[j].at # 0 /\ s[j - 1].at # 0 /\ s[j].at # s[j - 1].at + 1
          BY <1>1, <1>10, <4>1, <4>3
        <4>5. PICK r \in R : r.start = j - 1 /\ r.end = j - 1
          BY <4>1, <4>4 DEF Marked, n
        <4>6. r.start >= b
          BY <1>1, <4>1, <4>3, <4>5
        <4>7. Span(Moved(r.start), Moved(r.end)) \in after
          BY <4>6, <1>r DEF BecomesOf
        <4> HIDE DEF Moved
        <4> QED
          BY <1>8, <4>1, <4>5, <4>7
      <3> QED
        BY <1>1, <1>4, <2>3, <3>1, <3>2, <3>3
    <2> QED
      BY <1>1, <1>4, <2>1, <2>2, <2>3
  <1> HIDE DEF Holds, Joins
  <1>11. Marked(new, after)
    BY <1>9, <1>10 DEF Marked, Holds, Joins
  <1> QED
    BY <1>11 DEF new, after

-----------------------------------------------------------------------------
(* SourcePatches: the files *)

\* The files whose last check must pass before anything is written
ToCheck == IF kind = "edit" THEN DOMAIN staged ELSE Shown
ChangedLate(f) == \E r \in late : r.file = f
Checked == {"writing", "undoing", "done", "failed"}

\* The files of the workspace and of the bundle
Named ==
  /\ DOMAIN original = Files /\ DOMAIN snapshot = Files
  /\ patchPhase = "asking" => original = snapshot /\ DOMAIN created = {}
  /\ DOMAIN staged \subseteq paths \/ kind = "repair"
  /\ kind = "repair" => DOMAIN created = {} /\ DOMAIN staged \subseteq Shown
  /\ \A f \in DOMAIN created : original[f] = Absent
  /\ applied \in Seq({applied[i] : i \in DOMAIN applied})
  /\ kind = "repair" => \A i \in DOMAIN applied : applied[i].file \in Shown

\* What another writer has changed of what the bundle read, before the last check
Noticed ==
  /\ patchPhase = "asking" => rewritten = {f \in Shown : disk[f] # original[f]}
  /\ patchPhase \in {"resolving", "cutting"} =>
       /\ disk = original /\ paths \cap rewritten = {}
       /\ kind = "repair" => /\ Shown \cap rewritten = {}
                             /\ \A f \in Shown : original[f] = snapshot[f]
                             /\ patchPhase = "cutting" => pending = Shown
  /\ patchPhase = "rechecking" =>
       /\ pending \subseteq ToCheck
       /\ \A f \in pending : f \in rewritten <=> disk[f] # original[f]
       /\ \A f \in ToCheck \ pending : f \notin rewritten /\ (disk[f] = original[f] \/ ChangedLate(f))
  /\ patchPhase \in Checked => ToCheck \cap rewritten = {}
  /\ kind = "repair" /\ patchPhase \in {"rechecking"} \cup Checked =>
       \A f \in Shown : original[f] = snapshot[f]

\* What is on the disk while the files are written, and while a repair is undone
OnDisk ==
  /\ begun # {} => patchPhase \in Checked
  /\ patchPhase = "writing" =>
       /\ pending \subseteq DOMAIN staged /\ pending \cap begun = {}
       /\ \A f \in DOMAIN staged :
            IF f \in begun THEN disk[f] = Word(staged[f]) \/ ChangedLate(f)
            ELSE disk[f] = original[f] \/ ChangedLate(f)
  /\ patchPhase = "undoing" =>
       /\ kind = "repair" /\ pending \subseteq begun
       /\ \A f \in begun : \/ f \in torn \/ ChangedLate(f) \/ disk[f] = snapshot[f]
                           \/ f \in pending /\ disk[f] = Word(staged[f])
  /\ patchPhase = "failed" /\ kind = "repair" =>
       \A f \in begun : f \in torn \/ ChangedLate(f) \/ disk[f] = snapshot[f]

\* What another writer put in place of a file that was written
Stays ==
  /\ late # {} => patchPhase \notin {"asking", "resolving", "cutting"}
  /\ \A r \in late : r.after => r.file \in begun
  /\ \A r \in late : (r.after /\ r.text # Word(staged[r.file])) =>
       \E s \in late : s.file = r.file /\ s.text \in {disk[r.file], Word(staged[r.file])}

PatchIInv == PatchTypeOK /\ Named /\ Noticed /\ OnDisk /\ Stays

\* A sequence, over its own elements, and one more element
LEMMA AppendOne ==
  ASSUME NEW s, s \in Seq({s[i] : i \in DOMAIN s}), NEW e
  PROVE  /\ Append(s, e) \in Seq({Append(s, e)[i] : i \in DOMAIN Append(s, e)})
         /\ \A i \in DOMAIN Append(s, e) : Append(s, e)[i] = e \/ \E j \in DOMAIN s : Append(s, e)[i] = s[j]
         /\ Len(s) \in Nat /\ DOMAIN s = 1..Len(s) /\ DOMAIN Append(s, e) = 1..(Len(s) + 1)
         /\ Append(s, e)[Len(s) + 1] = e /\ \A i \in 1..Len(s) : Append(s, e)[i] = s[i]
  <1> DEFINE t == Append(s, e)
             S == {s[i] : i \in DOMAIN s} \cup {e}
  <1>1. s \in Seq(S)
    BY SeqMonotonic
  <1>2. /\ t \in Seq(S) /\ Len(t) = Len(s) + 1 /\ Len(s) \in Nat
        /\ t[Len(s) + 1] = e /\ \A i \in 1..Len(s) : t[i] = s[i]
    BY <1>1
  <1>3. DOMAIN t = 1..(Len(s) + 1) /\ DOMAIN s = 1..Len(s)
    BY <1>1, <1>2, LenProperties
  <1> HIDE DEF t
  <1>4. S \subseteq {t[i] : i \in DOMAIN t}
    BY <1>2, <1>3
  <1>5. t \in Seq({t[i] : i \in DOMAIN t})
    BY <1>2, <1>4, SeqMonotonic
  <1>6. \A i \in DOMAIN t : t[i] = e \/ \E j \in DOMAIN s : t[i] = s[j]
    BY <1>2, <1>3
  <1> QED
    BY <1>2, <1>3, <1>5, <1>6 DEF t

LEMMA PatchStart == PatchInit => PatchIInv
  <1> SUFFICES ASSUME PatchInit PROVE PatchIInv
    OBVIOUS
  <1>1. DOMAIN disk = Files
    BY DEF PatchInit
  <1>2. PatchTypeOK
    BY <1>1, PatchAssumption DEF PatchInit, PatchTypeOK
  <1>3. Named
    BY <1>1 DEF PatchInit, Named
  <1>4. Noticed /\ OnDisk /\ Stays
    BY DEF PatchInit, Noticed, OnDisk, Stays, Checked
  <1> QED
    BY <1>2, <1>3, <1>4 DEF PatchIInv

\* A bundle is refused before anything is written
LEMMA RejectKeeps ==
  ASSUME PatchIInv, Reject, patchPhase \notin Checked
  PROVE  PatchIInv'
  <1>1. begun = {}
    BY DEF PatchIInv, OnDisk
  <1> QED
    BY <1>1 DEF PatchIInv, Reject, PatchTypeOK, Named, Noticed, OnDisk, Stays, Checked,
                Input, Work, Writing, PatchHistory, Shown

\* The last check compares with what was read, of a file that is created as well
LEMMA LastCheckCompares ==
  ASSUME PatchIInv, NEW f
  PROVE  LastCheck(f) <=> disk[f] = original[f]
  BY DEF PatchIInv, Named, LastCheck

LEMMA PatchStep == PatchIInv /\ [PatchNext]_patchVars => PatchIInv'
  <1> SUFFICES ASSUME PatchIInv, [PatchNext]_patchVars PROVE PatchIInv'
    OBVIOUS
  <1>a. PatchTypeOK /\ Named /\ Noticed /\ OnDisk /\ Stays
    BY DEF PatchIInv
  <1>1. ASSUME NEW named \in SUBSET Files, NEW new \in SUBSET named, Arrive(named, new) PROVE PatchIInv'
    <2>1. CASE Reject
      BY <1>1, <2>1, RejectKeeps DEF Arrive, Checked
    <2>2. CASE ~Reject
      <3>a. /\ patchPhase = "asking" /\ (kind = "repair" => named = Shown /\ new = {})
            /\ IF kind = "repair" THEN \A f \in Shown : disk[f] = snapshot[f]
               ELSE \A f \in named : IF f \in new THEN f \notin Shown
                                     ELSE f \in Shown => disk[f] = snapshot[f]
            /\ patchPhase' = "resolving" /\ paths' = named /\ original' = disk
            /\ DOMAIN staged' = named \ new
            /\ UNCHANGED <<Input, Writing, PatchHistory, disk, cutting, applied, created, hits>>
        BY <1>1, <2>2 DEF Arrive
      <3>b. begun = {} /\ late = {} /\ created' = created /\ original = snapshot /\ DOMAIN disk = Files
        BY <1>a, <3>a DEF OnDisk, Stays, Named, Checked, PatchTypeOK
      <3>1. PatchTypeOK'
        BY <1>a, <3>a, <3>b, PatchAssumption
        DEF PatchTypeOK, Named, Arrive, Input, Work, Writing, PatchHistory, Shown, Files
      <3>2. Named'
        BY <1>a, <3>a, <3>b
        DEF PatchTypeOK, Named, Arrive, Input, Work, Writing, PatchHistory, Shown, Files
      <3>3. Noticed'
        BY <1>a, <3>a, <3>b
        DEF PatchTypeOK, Named, Noticed, ToCheck, ChangedLate, Checked, Arrive, Input, Work,
            Writing, PatchHistory, Shown, Files
      <3>4. OnDisk'
        BY <1>a, <3>a, <3>b
        DEF PatchTypeOK, Named, Noticed, OnDisk, ToCheck, ChangedLate, Checked, Arrive, Input, Work,
            Writing, PatchHistory, Shown, Files
      <3>5. Stays'
        BY <1>a, <3>a, <3>b
        DEF PatchTypeOK, OnDisk, Stays, Checked, Arrive, Input, Work, Writing, PatchHistory, Shown,
            Files
      <3> QED
        BY <3>1, <3>2, <3>3, <3>4, <3>5 DEF PatchIInv
    <2> QED
      BY <2>1, <2>2
  <1>2. ASSUME NEW f \in Files, NEW find \in Finds, NEW by \in Replacements, NEW how \in {"unique", "all"},
               EditPatch(f, find, by, how)
        PROVE  PatchIInv'
    <2>a. \/ Reject
          \/ /\ patchPhase' = "hung" /\ UNCHANGED <<Input, Work, Writing, PatchHistory, disk>>
          \/ /\ \E e : applied' = Append(applied, e)
             /\ patchPhase' = "cutting"
             /\ UNCHANGED <<Input, Writing, PatchHistory, disk, paths, original, staged, created>>
      BY <1>2 DEF EditPatch
    <2>b. patchPhase = "resolving" /\ kind = "edit" /\ begun = {} /\ late = {}
      BY <1>2, <1>a DEF EditPatch, OnDisk, Stays, Checked
    <2>1. PatchTypeOK'
      BY <1>a, <2>a, <2>b, PatchAssumption
      DEF PatchTypeOK, Named, Reject, Input, Work, Writing, PatchHistory, Shown, Files
    <2>2. Named'
      BY <1>a, <2>a, <2>b
      DEF PatchTypeOK, Named, Reject, Input, Work, Writing, PatchHistory, Shown, Files
    <2>3. Noticed'
      BY <1>a, <2>a, <2>b
      DEF PatchTypeOK, Named, Noticed, ToCheck, ChangedLate, Checked, Reject, Input, Work, Writing,
          PatchHistory, Shown, Files
    <2>4. OnDisk'
      BY <1>a, <2>a, <2>b
      DEF PatchTypeOK, Named, Noticed, OnDisk, ToCheck, ChangedLate, Checked, Reject, Input, Work,
          Writing, PatchHistory, Shown, Files
    <2>5. Stays'
      BY <1>a, <2>a, <2>b
      DEF PatchTypeOK, OnDisk, Stays, Checked, Reject, Input, Work, Writing, PatchHistory, Shown,
          Files
    <2> QED
      BY <2>1, <2>2, <2>3, <2>4, <2>5 DEF PatchIInv
  <1>3. ASSUME NEW f \in Files, NEW find \in Finds, NEW by \in Replacements, RepairPatch(f, find, by)
        PROVE  PatchIInv'
    <2>1. CASE Reject
      BY <1>3, <2>1, RejectKeeps DEF RepairPatch, Checked
    <2>2. CASE ~Reject
      <3>a. /\ f \in Shown
            /\ \E e : e.file = f /\ applied' = Append(applied, e)
            /\ UNCHANGED <<Input, Writing, PatchHistory, disk, patchPhase, paths, original, staged,
                           inserted, cutting, created, hits>>
        BY <1>3, <2>2 DEF RepairPatch
      <3>b. patchPhase = "resolving" /\ kind = "repair" /\ begun = {} /\ late = {}
        BY <1>3, <1>a DEF RepairPatch, OnDisk, Stays, Checked
      <3>1. PatchTypeOK'
        BY <1>a, <3>a, <3>b, PatchAssumption
        DEF PatchTypeOK, Named, Reject, Input, Work, Writing, PatchHistory, Shown, Files
      <3>2. Named'
        BY <1>a, <3>a, <3>b
        DEF PatchTypeOK, Named, Reject, Input, Work, Writing, PatchHistory, Shown, Files
      <3>3. Noticed'
        BY <1>a, <3>a, <3>b
        DEF PatchTypeOK, Named, Noticed, ToCheck, ChangedLate, Checked, Reject, Input, Work,
            Writing, PatchHistory, Shown, Files
      <3>4. OnDisk'
        BY <1>a, <3>a, <3>b
        DEF PatchTypeOK, Named, Noticed, OnDisk, ToCheck, ChangedLate, Checked, Reject, Input, Work,
            Writing, PatchHistory, Shown, Files
      <3>5. Stays'
        BY <1>a, <3>a, <3>b
        DEF PatchTypeOK, OnDisk, Stays, Checked, Reject, Input, Work, Writing, PatchHistory, Shown,
            Files
      <3> QED
        BY <3>1, <3>2, <3>3, <3>4, <3>5 DEF PatchIInv
    <2> QED
      BY <2>1, <2>2
  <1>4. ASSUME NEW f \in Files, NEW source \in Replacements \ {<<>>}, CreateFile(f, source) PROVE PatchIInv'
    <2>1. CASE Reject
      BY <1>4, <2>1, RejectKeeps DEF CreateFile, Checked
    <2>2. CASE ~Reject
      <3>a. /\ DOMAIN staged' = DOMAIN staged \cup {f} /\ DOMAIN created' = DOMAIN created \cup {f}
            /\ f \in paths /\ original[f] = Absent
            /\ UNCHANGED <<Input, Writing, PatchHistory, disk, patchPhase, paths, original, cutting,
                           applied, hits>>
        BY <1>4, <2>2 DEF CreateFile
      <3>b. patchPhase = "resolving" /\ kind = "edit" /\ begun = {} /\ late = {}
        BY <1>4, <1>a DEF CreateFile, OnDisk, Stays, Checked
      <3>1. PatchTypeOK'
        BY <1>a, <3>a, <3>b, PatchAssumption
        DEF PatchTypeOK, Named, Reject, Input, Work, Writing, PatchHistory, Shown, Files
      <3>2. Named'
        BY <1>a, <3>a, <3>b
        DEF PatchTypeOK, Named, Reject, Input, Work, Writing, PatchHistory, Shown, Files
      <3>3. Noticed'
        BY <1>a, <3>a, <3>b
        DEF PatchTypeOK, Named, Noticed, ToCheck, ChangedLate, Checked, Reject, Input, Work,
            Writing, PatchHistory, Shown, Files
      <3>4. OnDisk'
        BY <1>a, <3>a, <3>b
        DEF PatchTypeOK, Named, Noticed, OnDisk, ToCheck, ChangedLate, Checked, Reject, Input, Work,
            Writing, PatchHistory, Shown, Files
      <3>5. Stays'
        BY <1>a, <3>a, <3>b
        DEF PatchTypeOK, OnDisk, Stays, Checked, Reject, Input, Work, Writing, PatchHistory, Shown,
            Files
      <3> QED
        BY <3>1, <3>2, <3>3, <3>4, <3>5 DEF PatchIInv
    <2> QED
      BY <2>1, <2>2
  <1>5. CASE Resolved
    <2>1. CASE Reject
      BY <1>5, <2>1, RejectKeeps DEF Resolved, Checked
    <2>2. CASE ~Reject
      <3>a. /\ \/ /\ kind = "edit" /\ pending' = DOMAIN staged /\ staged' = staged
                  /\ patchPhase' = "rechecking"
               \/ /\ kind = "repair" /\ pending' = Shown /\ DOMAIN staged' = {g \in Files : Patches(g)}
                  /\ patchPhase' = "cutting"
            /\ UNCHANGED <<Input, PatchHistory, disk, begun, paths, original, applied, created>>
        BY <1>5, <2>2 DEF Resolved, Work
      <3>b. patchPhase = "resolving" /\ begun = {} /\ late = {} /\ disk = original
        BY <1>5, <1>a DEF Resolved, OnDisk, Stays, Noticed, Checked
      <3>c. kind = "repair" => {g \in Files : Patches(g)} \subseteq Shown
        BY <1>a DEF Named, Patches
      <3>1. PatchTypeOK'
        BY <1>a, <3>a, <3>b, <3>c, PatchAssumption
        DEF PatchTypeOK, Named, Reject, Input, Work, Writing, PatchHistory, Shown, Files
      <3>2. Named'
        BY <1>a, <3>a, <3>b, <3>c
        DEF PatchTypeOK, Named, Reject, Input, Work, Writing, PatchHistory, Shown, Files
      <3>3. Noticed'
        BY <1>a, <3>a, <3>b, <3>c
        DEF PatchTypeOK, Named, Noticed, ToCheck, ChangedLate, Checked, Reject, Input, Work,
            Writing, PatchHistory, Shown, Files
      <3>4. OnDisk'
        BY <1>a, <3>a, <3>b, <3>c
        DEF PatchTypeOK, Named, Noticed, OnDisk, ToCheck, ChangedLate, Checked, Reject, Input, Work,
            Writing, PatchHistory, Shown, Files
      <3>5. Stays'
        BY <1>a, <3>a, <3>b, <3>c
        DEF PatchTypeOK, OnDisk, Stays, Checked, Reject, Input, Work, Writing, PatchHistory, Shown,
            Files
      <3> QED
        BY <3>1, <3>2, <3>3, <3>4, <3>5 DEF PatchIInv
    <2> QED
      BY <2>1, <2>2
  <1>6. ASSUME NEW f \in Files, Recheck(f) PROVE PatchIInv'
    <2>1. CASE Reject
      BY <1>6, <2>1, RejectKeeps DEF Recheck, Checked
    <2>2. CASE ~Reject
      <3>a. /\ f \in pending /\ disk[f] = original[f]
            /\ pending' = IF pending = {f} THEN DOMAIN staged ELSE pending \ {f}
            /\ patchPhase' = IF pending = {f} THEN "writing" ELSE patchPhase
            /\ UNCHANGED <<Input, Work, PatchHistory, disk, begun>>
        BY <1>6, <2>2, LastCheckCompares DEF Recheck
      <3>b. patchPhase = "rechecking" /\ begun = {} /\ f \notin rewritten
        BY <1>6, <1>a, <2>2, <3>a DEF Recheck, OnDisk, Noticed, Checked
      <3>1. PatchTypeOK'
        BY <1>a, <3>a, <3>b, PatchAssumption
        DEF PatchTypeOK, Named, Reject, Input, Work, Writing, PatchHistory, Shown, Files
      <3>2. Named'
        BY <1>a, <3>a, <3>b
        DEF PatchTypeOK, Named, Reject, Input, Work, Writing, PatchHistory, Shown, Files
      <3>3. Noticed'
        BY <1>a, <3>a, <3>b
        DEF PatchTypeOK, Named, Noticed, ToCheck, ChangedLate, Checked, Reject, Input, Work,
            Writing, PatchHistory, Shown, Files
      <3>4. OnDisk'
        BY <1>a, <3>a, <3>b
        DEF PatchTypeOK, Named, Noticed, OnDisk, ToCheck, ChangedLate, Checked, Reject, Input, Work,
            Writing, PatchHistory, Shown, Files
      <3>5. Stays'
        BY <1>a, <3>a, <3>b
        DEF PatchTypeOK, OnDisk, Stays, Checked, Reject, Input, Work, Writing, PatchHistory, Shown,
            Files
      <3> QED
        BY <3>1, <3>2, <3>3, <3>4, <3>5 DEF PatchIInv
    <2> QED
      BY <2>1, <2>2
  <1>7. ASSUME NEW f \in Files, Write(f) PROVE PatchIInv'
    <2>a. /\ patchPhase = "writing" /\ f \in pending /\ f \notin begun /\ f \in DOMAIN staged
          /\ DOMAIN disk' = Files /\ disk'[f] = Word(staged[f])
          /\ \A g \in Files \ {f} : disk'[g] = disk[g]
          /\ begun' = begun \cup {f} /\ pending' = pending \ {f}
          /\ patchPhase' = IF pending = {f} THEN "done" ELSE patchPhase
          /\ UNCHANGED <<Input, Work, PatchHistory>>
      BY <1>7, <1>a DEF Write, OnDisk, PatchTypeOK
    <2>b. Word(staged[f])' = Word(staged[f])
      BY <2>a DEF Work
    <2>1. PatchTypeOK'
      BY <1>a, <2>a, <2>b, PatchAssumption
      DEF PatchTypeOK, Named, Write, Input, Work, Writing, PatchHistory, Shown, Files
    <2>2. Named'
      BY <1>a, <2>a, <2>b
      DEF PatchTypeOK, Named, Write, Input, Work, Writing, PatchHistory, Shown, Files
    <2>3. Noticed'
      BY <1>a, <2>a, <2>b
      DEF PatchTypeOK, Named, Noticed, ToCheck, ChangedLate, Checked, Write, Input, Work, Writing,
          PatchHistory, Shown, Files
    <2>4. OnDisk'
      BY <1>a, <2>a, <2>b
      DEF PatchTypeOK, Named, Noticed, OnDisk, ToCheck, ChangedLate, Checked, Write, Input, Work,
          Writing, PatchHistory, Shown, Files
    <2>5. Stays'
      BY <1>a, <2>a, <2>b
      DEF PatchTypeOK, OnDisk, Stays, Checked, Write, Input, Work, Writing, PatchHistory, Shown,
          Files
    <2> QED
      BY <2>1, <2>2, <2>3, <2>4, <2>5 DEF PatchIInv
  <1>8. ASSUME NEW f \in Files, NEW left, WriteFails(f, left) PROVE PatchIInv'
    <2>a. /\ patchPhase = "writing" /\ f \in pending /\ f \notin begun /\ f \in DOMAIN staged
          /\ faults < MaxFaults /\ faults' = faults + 1
          /\ DOMAIN disk' = Files /\ disk'[f] = left
          /\ \A g \in Files \ {f} : disk'[g] = disk[g]
          /\ torn' = IF left \in {disk[f], Word(staged[f])} THEN torn ELSE torn \cup {f}
          /\ begun' = begun \cup {f}
          /\ \/ kind = "edit" /\ patchPhase' = "failed" /\ pending' = {}
             \/ kind # "edit" /\ patchPhase' = "undoing" /\ pending' = begun \cup {f}
          /\ UNCHANGED <<Input, Work, rewritten, late>>
      BY <1>8, <1>a DEF WriteFails, Restorable, OnDisk, PatchTypeOK
    <2>1. PatchTypeOK'
      BY <1>a, <2>a, PatchAssumption
      DEF PatchTypeOK, Named, WriteFails, Input, Work, Writing, PatchHistory, Shown, Files
    <2>2. Named'
      BY <1>a, <2>a
      DEF PatchTypeOK, Named, WriteFails, Input, Work, Writing, PatchHistory, Shown, Files
    <2>3. Noticed'
      BY <1>a, <2>a
      DEF PatchTypeOK, Named, Noticed, ToCheck, ChangedLate, Checked, WriteFails, Input, Work,
          Writing, PatchHistory, Shown, Files
    <2>4. OnDisk'
      BY <1>a, <2>a
      DEF PatchTypeOK, Named, Noticed, OnDisk, ToCheck, ChangedLate, Checked, WriteFails, Input,
          Work, Writing, PatchHistory, Shown, Files
    <2>5. Stays'
      BY <1>a, <2>a
      DEF PatchTypeOK, OnDisk, Stays, Checked, WriteFails, Input, Work, Writing, PatchHistory,
          Shown, Files
    <2> QED
      BY <2>1, <2>2, <2>3, <2>4, <2>5 DEF PatchIInv
  <1>9. ASSUME NEW f \in Files, Undo(f) PROVE PatchIInv'
    <2>a. /\ patchPhase = "undoing" /\ f \in pending
          /\ \/ /\ DOMAIN disk' = Files
                /\ disk'[f] = IF disk[f] = Word(staged[f]) THEN snapshot[f] ELSE disk[f]
                /\ \A g \in Files \ {f} : disk'[g] = disk[g]
                /\ pending' = pending \ {f}
                /\ patchPhase' = IF pending = {f} THEN "failed" ELSE patchPhase
                /\ UNCHANGED <<torn, faults>>
             \/ /\ faults < MaxFaults /\ faults' = faults + 1
                /\ torn' = torn \cup pending /\ pending' = {} /\ patchPhase' = "failed"
                /\ UNCHANGED disk
          /\ UNCHANGED <<Input, Work, begun, rewritten, late>>
      BY <1>9, <1>a DEF Undo, StillOurs, PatchTypeOK
    <2>1. PatchTypeOK'
      BY <1>a, <2>a, PatchAssumption
      DEF PatchTypeOK, Named, Undo, Input, Work, Writing, PatchHistory, Shown, Files
    <2>2. Named'
      BY <1>a, <2>a DEF PatchTypeOK, Named, Undo, Input, Work, Writing, PatchHistory, Shown, Files
    <2>3. Noticed'
      BY <1>a, <2>a
      DEF PatchTypeOK, Named, Noticed, ToCheck, ChangedLate, Checked, Undo, Input, Work, Writing,
          PatchHistory, Shown, Files
    <2>4. OnDisk'
      BY <1>a, <2>a
      DEF PatchTypeOK, Named, Noticed, OnDisk, ToCheck, ChangedLate, Checked, Undo, Input, Work,
          Writing, PatchHistory, Shown, Files
    <2>5. Stays'
      BY <1>a, <2>a
      DEF PatchTypeOK, OnDisk, Stays, Checked, Undo, Input, Work, Writing, PatchHistory, Shown,
          Files
    <2> QED
      BY <2>1, <2>2, <2>3, <2>4, <2>5 DEF PatchIInv
  <1>10. ASSUME NEW f \in Files, NEW text \in Foreign, ChangedElsewhere(f, text) PROVE PatchIInv'
    <2>a. /\ faults < MaxFaults /\ faults' = faults + 1
          /\ DOMAIN disk' = Files /\ disk'[f] = text
          /\ \A g \in Files \ {f} : disk'[g] = disk[g]
          /\ UNCHANGED <<Input, Work, Writing, patchPhase, torn>>
      BY <1>10, <1>a DEF ChangedElsewhere, PatchTypeOK
    <2>b. /\ patchPhase \in {"asking", "rechecking", "writing", "undoing"}
          /\ rewritten' = IF \/ patchPhase = "asking" /\ f \in Shown
                             \/ patchPhase = "rechecking" /\ f \in pending
                          THEN IF text = original[f] THEN rewritten \ {f} ELSE rewritten \cup {f}
                          ELSE rewritten
      BY <1>10 DEF ChangedElsewhere
    <2>c. PICK r : /\ r.file = f /\ r.text = text /\ (r.after <=> f \in begun)
                   /\ late' = IF \/ patchPhase \in {"writing", "undoing"}
                                 \/ patchPhase = "rechecking" /\ f \notin pending
                              THEN late \cup {r} ELSE late
      <3> DEFINE new == [file |-> f, text |-> text, after |-> f \in begun]
      <3>1. new.file = f /\ new.text = text /\ (new.after <=> f \in begun)
        BY Zenon
      <3>2. late' = IF \/ patchPhase \in {"writing", "undoing"}
                       \/ patchPhase = "rechecking" /\ f \notin pending
                    THEN late \cup {new} ELSE late
        BY <1>10 DEF ChangedElsewhere
      <3> QED
        BY <3>1, <3>2, Zenon
    <2>d. /\ \A g : ChangedLate(g) => ChangedLate(g)'
          /\ patchPhase \in {"writing", "undoing"} => ChangedLate(f)'
          /\ patchPhase = "rechecking" /\ f \notin pending => ChangedLate(f)'
      BY <2>c DEF ChangedLate
    <2>e. /\ patchPhase' = patchPhase /\ kind' = kind /\ begun' = begun /\ pending' = pending
          /\ staged' = staged /\ original' = original /\ snapshot' = snapshot /\ torn' = torn
          /\ paths' = paths /\ Shown' = Shown /\ ToCheck' = ToCheck
          /\ \A g : Word(staged[g])' = Word(staged[g])
      BY <2>a DEF Input, Work, Writing, Shown, ToCheck, Files
    <2>f. pending \subseteq Files /\ begun \subseteq DOMAIN staged /\ DOMAIN staged \subseteq Files
          /\ ToCheck \subseteq Files
      BY <1>a DEF PatchTypeOK, ToCheck, Shown
    <2>1. PatchTypeOK'
      BY <1>a, <2>a, <2>b, <2>c, PatchAssumption
      DEF PatchTypeOK, Named, ChangedElsewhere, Input, Work, Writing, PatchHistory, Shown, Files
    <2>2. Named'
      BY <1>a, <2>a, <2>b, <2>c
      DEF PatchTypeOK, Named, ChangedElsewhere, Input, Work, Writing, PatchHistory, Shown, Files
    <2>3. Noticed'
      <3>1. CASE patchPhase = "asking"
        BY <1>a, <2>a, <2>b, <2>e, <3>1 DEF Noticed, Named, Checked, Shown
      <3>2. CASE patchPhase = "rechecking"
        BY <1>a, <2>a, <2>b, <2>d, <2>e, <2>f, <3>2 DEF Noticed, Checked
      <3>3. CASE patchPhase \in {"writing", "undoing"}
        BY <1>a, <2>b, <2>e, <3>3 DEF Noticed, Checked
      <3> QED
        BY <2>b, <3>1, <3>2, <3>3
    <2>4. OnDisk'
      <3>1. CASE patchPhase \in {"asking", "rechecking"}
        BY <1>a, <2>e, <3>1 DEF OnDisk, Checked
      <3>2. CASE patchPhase = "writing"
        BY <1>a, <2>a, <2>d, <2>e, <2>f, <3>2 DEF OnDisk, Checked
      <3>3. CASE patchPhase = "undoing"
        BY <1>a, <2>a, <2>d, <2>e, <2>f, <3>3 DEF OnDisk, Checked
      <3> QED
        BY <2>b, <3>1, <3>2, <3>3
    <2>5. Stays'
      BY <1>a, <2>a, <2>b, <2>c
      DEF PatchTypeOK, OnDisk, Stays, Checked, ChangedElsewhere, Input, Work, Writing, PatchHistory,
          Shown, Files
    <2> QED
      BY <2>1, <2>2, <2>3, <2>4, <2>5 DEF PatchIInv
  <1>12. ASSUME NEW c \in cutting, Cut(c) PROVE PatchIInv'
    <2>a. /\ patchPhase = "cutting" /\ DOMAIN staged' = DOMAIN staged
          /\ patchPhase' \in {"cutting", IF kind = "edit" THEN "resolving" ELSE "rechecking"}
          /\ UNCHANGED <<Input, Writing, PatchHistory, disk, paths, original, applied, created>>
      BY <1>12 DEF Cut
    <2>b. begun = {} /\ late = {} /\ disk = original
      BY <1>12, <1>a DEF Cut, OnDisk, Stays, Noticed, Checked
    <2>c. kind \in {"edit", "repair"}
      BY <1>a DEF PatchTypeOK
    <2>1. PatchTypeOK'
      BY <1>a, <2>a, <2>b, PatchAssumption
      DEF PatchTypeOK, Named, Input, Work, Writing, PatchHistory, Shown
    <2>2. Named'
      BY <1>a, <2>a, <2>b DEF PatchTypeOK, Named, Input, Work, Writing, PatchHistory, Shown
    <2>3. Noticed'
      BY <1>a, <2>a, <2>b, <2>c
      DEF PatchTypeOK, Named, Noticed, ToCheck, ChangedLate, Checked, Input, Work, Writing,
          PatchHistory, Shown
    <2>4. OnDisk'
      BY <1>a, <2>a, <2>b, <2>c
      DEF PatchTypeOK, Named, Noticed, OnDisk, ToCheck, ChangedLate, Checked, Input, Work, Writing,
          PatchHistory, Shown
    <2>5. Stays'
      BY <1>a, <2>a, <2>b, <2>c
      DEF PatchTypeOK, OnDisk, Stays, Checked, Input, Work, Writing, PatchHistory, Shown
    <2> QED
      BY <2>1, <2>2, <2>3, <2>4, <2>5 DEF PatchIInv
  <1>11. CASE UNCHANGED patchVars
    BY <1>11, <1>a
    DEF patchVars, PatchIInv, PatchTypeOK, Named, Noticed, OnDisk, Stays, ToCheck, ChangedLate,
       Checked,
        Input, Work, Writing, PatchHistory, Shown
  <1> QED
    BY <1>1, <1>2, <1>3, <1>4, <1>5, <1>6, <1>7, <1>8, <1>9, <1>10, <1>11, <1>12 DEF PatchNext

LEMMA PatchHolds == PatchIInv => NothingHalfDone
  <1> SUFFICES ASSUME PatchIInv PROVE NothingHalfDone
    OBVIOUS
  <1> USE DEF PatchIInv
  <1>1. begun # {} => begun \cap rewritten = {} /\ (kind = "repair" => rewritten \cap Shown = {})
    BY DEF PatchTypeOK, Named, Noticed, OnDisk, ToCheck, Checked
  <1> QED
    BY <1>1 DEF OnDisk, Stays, ChangedLate, NothingHalfDone

-----------------------------------------------------------------------------
(* SourcePatches: the cuts *)

Echoed(f) == \E i \in DOMAIN applied : applied[i].file = f /\ applied[i].same
Apart(r, t) == r.end <= t.start \/ t.end <= r.start

\* What the files hold, in letters
Written ==
  /\ disk \in [Files -> Texts \cup {Absent}]
  /\ original \in [Files -> Texts \cup {Absent}] /\ snapshot \in [Files -> Texts \cup {Absent}]
  /\ \A f \in DOMAIN staged : staged[f] \in Seq(Letters)
  /\ kind = "edit" => /\ DOMAIN inserted = DOMAIN staged
                     /\ \A f \in DOMAIN staged : inserted[f] \subseteq Ranges
  /\ patchPhase = "asking" => applied = <<>>

\* A cut that still has to be made finds what it looks for
FitsIn(c, s) ==
  /\ Cuts(c, s)
  /\ LookedFor(c, Word(Slice(s, c.start, c.end)))
  /\ c.asked /\ c.marked => Whole(Slice(s, c.start, c.end))

Ready ==
  /\ cutting # {} => patchPhase = "cutting"
  /\ \A c \in cutting : /\ c.file \in DOMAIN staged /\ FitsIn(c, staged[c.file])
                        /\ c.same => kind = "edit" /\ Echoed(c.file)
  /\ \A c, e \in cutting : c.file = e.file => c = e \/ c.end <= e.start \/ e.end <= c.start

\* Brought letters and seams are marked, until a patch puts back what it matched
Seams ==
  kind = "edit" => \A f \in DOMAIN staged : Marked(staged[f], inserted[f]) \/ Echoed(f)

\* The patches of a repair fit the source that was shown, and do not overlap
Fits(f, word, find, r) ==
  \/ Normal(word) = Normal(find)
  \/ Unindented(word) = Unindented(find) /\ SafeIndentation(f, original[f], r.start, r.end)
FitsShown(p) ==
  /\ p.file \in Shown /\ p.by \in Texts /\ p.start \in Nat /\ p.end \in Nat
  /\ p.start < p.end /\ p.end <= Len(original[p.file])
  /\ Fits(p.file, Slice(original[p.file], p.start, p.end), p.find, p)

Planned ==
  kind = "repair" /\ patchPhase = "resolving" =>
    /\ \A i \in DOMAIN applied : FitsShown(applied[i])
    /\ \A i, j \in DOMAIN applied :
         \/ i = j \/ applied[i].file # applied[j].file
         \/ Apart(applied[i], applied[j])

CutIInv == Written /\ Ready /\ Seams /\ Planned /\ ReplacedAsShown

LEMMA FreshSource ==
  ASSUME NEW w \in Texts
  PROVE  /\ AsShown(w) \in Seq(Letters) /\ Marked(AsShown(w), {}) /\ Word(AsShown(w)) = w
         /\ \A from \in Nat, to \in Nat : from <= to /\ to <= Len(w) => Whole(Slice(AsShown(w), from, to))
  <1>1. /\ AsShown(w) \in Seq(Letters) /\ Len(AsShown(w)) = Len(w) /\ Len(w) \in Nat
        /\ \A i \in 1..Len(w) : AsShown(w)[i].at = i /\ AsShown(w)[i].ch = w[i]
    BY WordsAndLetters
  <1>2. Marked(AsShown(w), {})
    BY <1>1 DEF Marked
  <1>3. Word(AsShown(w)) = w
    <2>1. /\ Word(AsShown(w)) \in Texts /\ Len(Word(AsShown(w))) = Len(w)
          /\ \A i \in 1..Len(w) : Word(AsShown(w))[i] = AsShown(w)[i].ch
      BY <1>1, WordsAndLetters
    <2> QED
      BY <1>1, <2>1, SeqEqual DEF Texts
  <1>4. ASSUME NEW from \in Nat, NEW to \in Nat, from <= to, to <= Len(w)
        PROVE  Whole(Slice(AsShown(w), from, to))
    <2> DEFINE s == AsShown(w)
               part == Slice(s, from, to)
    <2>1. s \in Seq(Letters) /\ to <= Len(s) /\ Len(s) = Len(w) /\ \A i \in 1..Len(w) : s[i].at = i
      BY <1>1, <1>4
    <2> HIDE DEF s
    <2>2. DOMAIN part = 1..(to - from) /\ \A i \in 1..(to - from) : part[i] = s[from + i]
      <3>1. Sliced(part, s, from, to)
        BY <1>4, <2>1, LettersSliced, Zenon
      <3> HIDE DEF part
      <3> QED
        BY <3>1 DEF Sliced
    <2> HIDE DEF part
    <2>3. \A i \in DOMAIN part : part[i].at = from + i
      BY <1>1, <1>4, <2>1, <2>2
    <2>4. ASSUME NEW i \in DOMAIN part
          PROVE  part[i].at # 0 /\ (i > 1 => part[i].at = part[i - 1].at + 1)
      <3>1. i \in Nat /\ i > 0 /\ (i > 1 => i - 1 \in DOMAIN part)
        BY <1>4, <2>2
      <3> QED
        BY <2>3, <3>1
    <2>5. Whole(part)
      BY <2>4 DEF Whole
    <2> QED
      BY <2>5 DEF part, s
  <1> QED
    BY <1>1, <1>2, <1>3, <1>4

\* A match that holds no brought text and no seam stands in one piece in the source shown
LEMMA WholeMatch ==
  ASSUME NEW s \in Seq(Letters), NEW R, R \subseteq Ranges, Marked(s, R), NEW find, NEW offsets,
         ~Cascades(R, offsets, find), NEW o \in offsets, o \in Nat, Len(find) \in Nat, Len(find) > 0,
         o + Len(find) <= Len(s)
  PROVE  Whole(Slice(s, o, o + Len(find)))
  <1> DEFINE len == Len(find)
             part == Slice(s, o, o + len)
  <1>1. o \in Nat /\ len \in Nat /\ o + len \in Nat /\ o <= o + len /\ o + len <= Len(s) /\ len > 0
    OBVIOUS
  <1>2. \A r \in R : IF r.start = r.end THEN ~(o < r.start /\ r.start < o + len)
                     ELSE ~(r.start < o + len /\ o < r.end)
    BY Zenon DEF Cascades
  <1> HIDE DEF len
  <1>3. DOMAIN part = 1..((o + len) - o) /\ \A i \in 1..((o + len) - o) : part[i] = s[o + i]
    <2>1. Sliced(part, s, o, o + len)
      BY <1>1, LettersSliced, Zenon
    <2> HIDE DEF part
    <2> QED
      BY <2>1 DEF Sliced
  <1>4. DOMAIN part = 1..len /\ \A i \in 1..len : part[i] = s[o + i] /\ o + i \in 1..Len(s)
    BY <1>1, <1>3
  <1> HIDE DEF part
  <1>5. ASSUME NEW i \in 1..len PROVE s[o + i].at # 0
    <2> SUFFICES ASSUME s[o + i].at = 0 PROVE FALSE
      OBVIOUS
    <2>1. PICK r \in R : r.start < o + i /\ o + i <= r.end
      BY <1>4 DEF Marked
    <2>2. r.start \in Nat /\ r.end \in Nat
      BY DEF Ranges
    <2> DEFINE from == r.start
               to == r.end
    <2>a. from \in Nat /\ to \in Nat /\ from < o + i /\ o + i <= to
      BY <2>1, <2>2
    <2> HIDE DEF from, to
    <2>b. from # to /\ from < o + len /\ o < to
      BY <1>1, <2>a
    <2>3. r.start # r.end /\ r.start < o + len /\ o < r.end
      BY <2>b DEF from, to
    <2> QED
      BY <1>2, <2>3
  <1>6. ASSUME NEW i \in 1..len, i > 1 PROVE s[o + i].at = s[(o + i) - 1].at + 1
    <2> SUFFICES ASSUME s[o + i].at # s[(o + i) - 1].at + 1 PROVE FALSE
      OBVIOUS
    <2>1. i - 1 \in 1..len /\ (o + i) - 1 = o + (i - 1) /\ o + i > 1 /\ o + i \in 1..Len(s)
      BY <1>1, <1>4, <1>6
    <2>2. s[o + i].at # 0 /\ s[(o + i) - 1].at # 0
      BY <1>5, <2>1
    <2>3. PICK r \in R : r.start = (o + i) - 1 /\ r.end = (o + i) - 1
      BY <2>1, <2>2 DEF Marked
    <2>4. o < (o + i) - 1 /\ (o + i) - 1 < o + len
      BY <1>1, <1>6
    <2> QED
      BY <1>2, <2>3, <2>4
  <1>7. ASSUME NEW i \in DOMAIN part
        PROVE  part[i].at # 0 /\ (i > 1 => part[i].at = part[i - 1].at + 1)
    <2>1. i \in 1..len /\ part[i] = s[o + i] /\ part[i].at # 0
      BY <1>4, <1>5
    <2>2. ASSUME i > 1 PROVE part[i].at = part[i - 1].at + 1
      <3>0. i \in 1..len
        BY <2>1
      <3>1. i - 1 \in 1..len /\ (o + i) - 1 = o + (i - 1)
        BY <1>1, <2>2, <3>0
      <3>2. part[i - 1] = s[(o + i) - 1]
        BY <1>4, <3>1
      <3> QED
        BY <1>6, <2>1, <2>2, <3>2
    <2> QED
      BY <2>1, <2>2
  <1>8. Whole(part)
    BY <1>7 DEF Whole
  <1> QED
    BY <1>8 DEF part, len

LEMMA CutStart == PatchInit => CutIInv
  <1> SUFFICES ASSUME PatchInit PROVE CutIInv
    OBVIOUS
  <1>1. disk \in [Files -> Texts \cup {Absent}]
    BY PatchAssumption DEF PatchInit
  <1>2. Written
    BY <1>1 DEF PatchInit, Written
  <1>3. Ready /\ Seams /\ Planned /\ ReplacedAsShown
    BY DEF PatchInit, Ready, Seams, Planned, ReplacedAsShown
  <1> QED
    BY <1>2, <1>3 DEF CutIInv

\* Where nothing is cut, nothing but the disk and the phase matters
LEMMA NoCutKeeps ==
  ASSUME PatchIInv, CutIInv, disk' \in [Files -> Texts \cup {Absent}],
         UNCHANGED <<Input, Work>>, cutting = {},
         patchPhase' # "asking" \/ patchPhase' = patchPhase,
         patchPhase' # "resolving" \/ patchPhase' = patchPhase
  PROVE  CutIInv'
  <1>1. Written'
    BY DEF CutIInv, Written, Input, Work
  <1>2. Ready'
    BY DEF CutIInv, Ready, Work
  <1>3. Seams'
    BY DEF CutIInv, Seams, Input, Work, Echoed
  <1>4. Planned'
    BY DEF CutIInv, Planned, Input, Work, FitsShown, Fits, Shown
  <1>5. ReplacedAsShown'
    BY DEF CutIInv, ReplacedAsShown, Work
  <1> QED
    BY <1>1, <1>2, <1>3, <1>4, <1>5 DEF CutIInv

LEMMA ArriveCuts ==
  ASSUME PatchIInv, CutIInv, NEW named \in SUBSET Files, NEW new \in SUBSET named, Arrive(named, new),
         ~Reject
  PROVE  CutIInv'
  <1>1. /\ patchPhase = "asking" /\ patchPhase' = "resolving" /\ original' = disk
        /\ staged' = [f \in named \ new |-> AsShown(disk[f])]
        /\ inserted' = [f \in named \ new |-> {}]
        /\ UNCHANGED <<Input, disk, cutting, applied, hits>>
    BY DEF Arrive
  <1>2. \A f \in named \ new : disk[f] # Absent
    BY DEF Arrive, Shown
  <1>3. applied = <<>> /\ cutting = {} /\ disk \in [Files -> Texts \cup {Absent}]
    BY <1>1 DEF CutIInv, Written, Ready
  <1>4. \A f \in named \ new : disk[f] \in Texts
    BY <1>2, <1>3
  <1>5. /\ DOMAIN staged' = named \ new /\ DOMAIN inserted' = named \ new
        /\ \A f \in named \ new : /\ staged'[f] \in Seq(Letters) /\ inserted'[f] = {}
                                 /\ Marked(staged'[f], inserted'[f])
    BY <1>1, <1>4, FreshSource
  <1>6. Written'
    BY <1>1, <1>3, <1>5 DEF CutIInv, Written, Input
  <1>7. Ready'
    BY <1>1, <1>3 DEF Ready
  <1>8. Seams'
    BY <1>5 DEF Seams
  <1>9. Planned'
    BY <1>1, <1>3 DEF Planned
  <1>10. ReplacedAsShown'
    BY <1>1 DEF CutIInv, ReplacedAsShown
  <1> QED
    BY <1>6, <1>7, <1>8, <1>9, <1>10 DEF CutIInv

LEMMA CreateCuts ==
  ASSUME PatchIInv, CutIInv, NEW f \in Files, NEW source \in Replacements \ {<<>>},
         CreateFile(f, source), ~Reject
  PROVE  CutIInv'
  <1>1. /\ patchPhase = "resolving" /\ patchPhase' = patchPhase /\ kind = "edit"
        /\ staged' = [g \in DOMAIN staged \cup {f} |-> IF g = f THEN AsShown(source) ELSE staged[g]]
        /\ inserted' = [g \in DOMAIN staged \cup {f} |-> IF g = f THEN {} ELSE inserted[g]]
        /\ UNCHANGED <<Input, disk, original, cutting, applied, hits>>
    BY DEF CreateFile
  <1>2. source \in Texts
    BY PatchAssumption
  <1>3. cutting = {} /\ kind' = "edit"
    BY <1>1 DEF CutIInv, Ready, Input
  <1>4. /\ DOMAIN staged' = DOMAIN staged \cup {f} /\ DOMAIN inserted' = DOMAIN staged \cup {f}
        /\ staged'[f] = AsShown(source) /\ inserted'[f] = {}
        /\ \A g \in DOMAIN staged \ {f} : staged'[g] = staged[g] /\ inserted'[g] = inserted[g]
    BY <1>1
  <1>5. staged'[f] \in Seq(Letters) /\ Marked(staged'[f], inserted'[f])
    BY <1>2, <1>4, FreshSource
  <1>6. Written'
    BY <1>1, <1>4, <1>5 DEF CutIInv, Written, Input
  <1>7. Ready'
    BY <1>1, <1>3 DEF Ready
  <1>8. Seams'
    <2>1. \A g : Echoed(g) => Echoed(g)'
      BY <1>1 DEF Echoed
    <2> QED
      BY <1>1, <1>4, <1>5, <2>1 DEF CutIInv, Seams
  <1>9. Planned'
    BY <1>3 DEF Planned
  <1>10. ReplacedAsShown'
    BY <1>1 DEF CutIInv, ReplacedAsShown
  <1> QED
    BY <1>6, <1>7, <1>8, <1>9, <1>10 DEF CutIInv

\* The one match of a repair's find text is what the patch will replace
LEMMA MatchFits ==
  ASSUME NEW f, original[f] \in Texts, NEW find, NEW r \in Matches(f, find)
  PROVE  /\ r.start \in Nat /\ r.end \in Nat /\ r.start < r.end /\ r.end <= Len(original[f])
         /\ Fits(f, Slice(original[f], r.start, r.end), find, r)
  <1> DEFINE w == original[f]
             exact == {q \in Parts(w) : Part(w, q) = find}
             lines == {q \in Parts(w) : Normal(Part(w, q)) = Normal(find)}
             loose == {q \in Parts(w) : /\ {q.start + 1, q.end} \cap Indentation(w) = {}
                                         /\ Unindented(Part(w, q)) = Unindented(find)}
  <1>1. \/ r \in OnlyOne(exact) \/ r \in OnlyOne(lines)
        \/ r \in OnlyOne(loose) /\ Verified(f, r)
    BY Zenon DEF Matches
  <1>2. r \in exact \/ r \in lines \/ (r \in loose /\ Verified(f, r))
    BY <1>1, Zenon DEF OnlyOne
  <1>3. r \in Parts(w)
    BY <1>2, Zenon
  <1>4. r.start \in Nat /\ r.end \in Nat /\ r.start < r.end /\ r.end <= Len(w)
    <2>1. Len(w) \in Nat
      BY DEF Texts
    <2> HIDE DEF w
    <2> QED
      BY <1>3, <2>1 DEF Parts
  <1>5. Fits(f, Part(w, r), find, r)
    BY <1>2, Zenon DEF Fits, Verified
  <1> QED
    BY <1>4, <1>5 DEF Part

LEMMA RepairPatchCuts ==
  ASSUME PatchIInv, CutIInv, NEW f \in Files, NEW find \in Finds, NEW by \in Replacements,
         RepairPatch(f, find, by), ~Reject
  PROVE  CutIInv'
  <1>1. PICK r \in Matches(f, find) :
          /\ ~Overlaps(f, r)
          /\ applied' = Append(applied, [file |-> f, find |-> find, by |-> by,
                                        start |-> r.start, end |-> r.end])
    BY DEF RepairPatch
  <1>2. /\ patchPhase = "resolving" /\ patchPhase' = patchPhase /\ kind = "repair" /\ f \in Shown
        /\ UNCHANGED <<Input, disk, original, staged, inserted, cutting, hits>>
    BY DEF RepairPatch
  <1>3. original[f] \in Texts
    BY <1>2 DEF PatchIInv, Noticed, CutIInv, Written, Shown
  <1>4. /\ r.start \in Nat /\ r.end \in Nat /\ r.start < r.end /\ r.end <= Len(original[f])
        /\ Fits(f, Slice(original[f], r.start, r.end), find, r)
    BY <1>3, MatchFits
  <1> DEFINE p == [file |-> f, find |-> find, by |-> by, start |-> r.start, end |-> r.end]
             n == Len(applied)
  <1>5. p.file = f /\ p.find = find /\ p.by = by /\ p.start = r.start /\ p.end = r.end
    OBVIOUS
  <1>6. applied \in Seq({applied[i] : i \in DOMAIN applied})
    BY DEF PatchIInv, Named
  <1>7. applied' = Append(applied, p)
    BY <1>1
  <1>8. /\ n \in Nat /\ DOMAIN applied = 1..n /\ DOMAIN applied' = 1..(n + 1)
        /\ applied'[n + 1] = p /\ \A i \in 1..n : applied'[i] = applied[i]
    <2> HIDE DEF p
    <2> QED
      BY <1>6, <1>7, AppendOne
  <1>9. by \in Texts
    BY PatchAssumption
  <1> HIDE DEF p, n
  <1>10. FitsShown(p)'
    BY <1>2, <1>4, <1>5, <1>9 DEF FitsShown, Fits, Shown, Input
  <1>11. \A i \in 1..n : applied[i].file = f => Apart(applied[i], r)
    <2>1. ASSUME NEW i \in 1..n, applied[i].file = f
          PROVE  ~(applied[i].start < r.end /\ r.start < applied[i].end)
      BY <1>1, <1>8, <2>1 DEF Overlaps
    <2>2. ASSUME NEW i \in 1..n, applied[i].file = f
          PROVE  Apart(applied[i], r)
      <3>1. FitsShown(applied[i])
        BY <1>2, <1>8 DEF CutIInv, Planned
      <3>2. applied[i].start \in Nat /\ applied[i].end \in Nat
        BY <3>1 DEF FitsShown
      <3> QED
        BY <1>4, <2>1, <2>2, <3>2 DEF Apart
    <2> QED
      BY <2>2
  <1>12. Planned'
    <2>1. ASSUME NEW i \in 1..(n + 1) PROVE FitsShown(applied[i])'
      <3>1. CASE i = n + 1
        BY <1>8, <1>10, <3>1
      <3>2. CASE i # n + 1
        <4>1. i \in 1..n
          BY <1>8, <3>2
        <4>2. FitsShown(applied[i])
          BY <1>2, <1>8, <4>1 DEF CutIInv, Planned
        <4> QED
          BY <1>2, <1>8, <4>1, <4>2 DEF FitsShown, Fits, Shown, Input
      <3> QED
        BY <3>1, <3>2
    <2>2. ASSUME NEW i \in 1..(n + 1), NEW j \in 1..(n + 1), i # j,
                 applied'[i].file = applied'[j].file
          PROVE  Apart(applied'[i], applied'[j])
      <3>1. CASE i = n + 1
        <4>1. j \in 1..n /\ applied'[j] = applied[j] /\ applied'[i] = p
          BY <1>8, <2>2, <3>1
        <4>2. Apart(applied[j], r)
          BY <1>5, <1>11, <2>2, <4>1
        <4> QED
          BY <1>5, <4>1, <4>2 DEF Apart
      <3>2. CASE j = n + 1
        <4>1. i \in 1..n /\ applied'[i] = applied[i] /\ applied'[j] = p
          BY <1>8, <2>2, <3>2
        <4> QED
          BY <1>5, <1>11, <2>2, <4>1 DEF Apart
      <3>3. CASE i # n + 1 /\ j # n + 1
        <4>1. i \in 1..n /\ j \in 1..n
          BY <1>8, <3>3
        <4> QED
          BY <1>2, <1>8, <2>2, <4>1 DEF CutIInv, Planned
      <3> QED
        BY <3>1, <3>2, <3>3
    <2> QED
      BY <1>8, <2>1, <2>2, Zenon DEF Planned
  <1>13. cutting = {}
    BY <1>2 DEF CutIInv, Ready
  <1>14. Written'
    BY <1>2 DEF CutIInv, Written, Input
  <1>15. Ready' /\ Seams'
    BY <1>2, <1>13 DEF Ready, Seams, Input
  <1>16. ReplacedAsShown'
    BY <1>2 DEF CutIInv, ReplacedAsShown
  <1> QED
    BY <1>12, <1>14, <1>15, <1>16 DEF CutIInv

LEMMA FitsThen ==
  ASSUME UNCHANGED Input
  PROVE  \A c, s : FitsIn(c, s) => FitsIn(c, s)'
  BY DEF FitsIn, LookedFor, Input

LEMMA CutFields ==
  ASSUME NEW f, NEW r, NEW find, NEW by, NEW same, NEW sought, NEW marked
  PROVE  LET c == CutAt(f, r, find, by, same, sought, marked)
         IN /\ c.file = f /\ c.start = r.start /\ c.end = r.end /\ c.find = find
            /\ c.by = Brought(by) /\ c.same = same /\ c.asked = sought /\ c.marked = marked
  BY DEF CutAt

LEMMA EditPatchCuts ==
  ASSUME PatchIInv, CutIInv, NEW f \in Files, NEW find \in Finds, NEW by \in Replacements,
         NEW how \in {"unique", "all"}, EditPatch(f, find, by, how),
         patchPhase' = "cutting"
  PROVE  CutIInv'
  <1> DEFINE shown == IF f \in DOMAIN created THEN created[f] ELSE original[f]
             source == Word(staged[f])
             shownMatches == Count(shown, find)
             lost == Offsets(source, find) = {}
                       /\ IF how = "all" THEN shownMatches > 0 ELSE shownMatches = 1
             text == IF lost THEN Rebased(f, find) ELSE find
             offsets == Offsets(source, text)
             sought == text = find /\ shownMatches > 0
             cascade == sought /\ Cascades(inserted[f], offsets, text)
             marked == ~Echoed(f)
             same == by = text
  <1>1. /\ patchPhase = "resolving" /\ kind = "edit" /\ f \in DOMAIN staged
        /\ text # <<>> /\ ~cascade
        /\ UNCHANGED <<Input, disk, original, staged, inserted, hits>>
        /\ \E targets \in (SUBSET offsets) \ {{}} :
             /\ cutting' = {CutAt(f, Span(o, o + Len(text)), text, by, same, sought, marked) : o \in targets}
             /\ \E mode1 : applied' = Append(applied, [file |-> f, find |-> find, by |-> by,
                                                      same |-> same, mode |-> mode1])
    BY DEF EditPatch, Reject, Echoed
  <1> HIDE DEF shownMatches, lost, text
  <1>2. PICK targets \in SUBSET offsets :
          cutting' = {CutAt(f, Span(o, o + Len(text)), text, by, same, sought, marked) : o \in targets}
    BY <1>1
  <1>3. PICK p : p.file = f /\ p.same = same /\ applied' = Append(applied, p)
    <2>1. PICK mode1 : applied' = Append(applied, [file |-> f, find |-> find, by |-> by,
                                                  same |-> same, mode |-> mode1])
      BY <1>1
    <2> DEFINE p == [file |-> f, find |-> find, by |-> by, same |-> same, mode |-> mode1]
    <2>2. p.file = f /\ p.same = same
      BY Zenon
    <2> QED
      BY <2>1, <2>2, Zenon
  <1> DEFINE n == Len(applied)
  <1>4. /\ n \in Nat /\ DOMAIN applied = 1..n /\ DOMAIN applied' = 1..(n + 1)
        /\ applied'[n + 1] = p /\ \A i \in 1..n : applied'[i] = applied[i]
    BY <1>3, AppendOne DEF PatchIInv, Named
  <1>5. \A g : Echoed(g) => Echoed(g)'
    BY <1>4 DEF Echoed
  <1>6. same => Echoed(f)'
    <2>1. n + 1 \in DOMAIN applied'
      BY <1>4
    <2> HIDE DEF same, n
    <2> QED
      BY <1>3, <1>4, <2>1 DEF Echoed
  <1>7. staged[f] \in Seq(Letters) /\ inserted[f] \subseteq Ranges
    BY <1>1 DEF CutIInv, Written
  <1>8. source \in Texts /\ Len(source) = Len(staged[f])
    BY <1>7, WordsAndLetters
  <1>9. Brought(by) \in Seq(Letters) /\ \A i \in 1..Len(Brought(by)) : Brought(by)[i].at = 0
    BY PatchAssumption, WordsAndLetters
  <1>10. ASSUME NEW o \in targets
         PROVE  /\ FitsIn(CutAt(f, Span(o, o + Len(text)), text, by, same, sought, marked), staged[f])
                /\ \A q \in targets : o = q \/ o + Len(text) <= q \/ q + Len(text) <= o
    <2> DEFINE c == CutAt(f, Span(o, o + Len(text)), text, by, same, sought, marked)
    <2>1. /\ c.start = o /\ c.end = o + Len(text) /\ c.find = text /\ c.by = Brought(by)
          /\ (c.asked <=> sought) /\ (c.marked <=> marked)
      <3> HIDE DEF text, sought, marked, same
      <3> QED
        BY Zenon DEF CutAt, Span
    <2>2. /\ Len(text) \in Nat /\ Len(text) > 0 /\ o \in Nat /\ o + Len(text) <= Len(source)
          /\ Slice(source, o, o + Len(text)) = text
          /\ \A q \in offsets : o = q \/ o + Len(text) <= q \/ q + Len(text) <= o
      <3>1. o \in offsets /\ text # <<>>
        BY <1>1, <1>2
      <3> HIDE DEF source
      <3> QED
        BY <1>8, <3>1, OffsetsApart
    <2> HIDE DEF c, source, sought, marked
    <2>3. o + Len(text) \in Nat /\ o <= o + Len(text) /\ o < o + Len(text) /\ o + Len(text) <= Len(staged[f])
      BY <1>8, <2>2
    <2>4. Word(Slice(staged[f], o, o + Len(text))) = text
      <3>1. Word(Slice(staged[f], o, o + Len(text))) = Slice(source, o, o + Len(text))
        BY <1>7, <2>2, <2>3, SliceOfWord DEF source
      <3> QED
        BY <2>2, <3>1
    <2>5. sought /\ marked => Whole(Slice(staged[f], o, o + Len(text)))
      <3> SUFFICES ASSUME sought, marked PROVE Whole(Slice(staged[f], o, o + Len(text)))
        OBVIOUS
      <3>1. ~Cascades(inserted[f], offsets, text)
        BY <1>1
      <3>2. Marked(staged[f], inserted[f])
        BY <1>1 DEF marked, CutIInv, Seams
      <3>3. o \in offsets
        BY <1>2
      <3> HIDE DEF offsets
      <3> QED
        BY <1>7, <2>2, <2>3, <3>1, <3>2, <3>3, WholeMatch
    <2>6. Cuts(c, staged[f])
      BY <1>9, <2>1, <2>2, <2>3 DEF Cuts
    <2>7. FitsIn(c, staged[f])
      BY <2>1, <2>4, <2>5, <2>6 DEF FitsIn, LookedFor
    <2> QED
      BY <1>2, <2>2, <2>7 DEF c
  <1>11. ASSUME NEW c \in cutting'
         PROVE  /\ \E o \in targets : c = CutAt(f, Span(o, o + Len(text)), text, by, same, sought, marked)
                /\ c.file = f /\ (c.same <=> same) /\ FitsIn(c, staged[f])
    <2>1. PICK o \in targets : c = CutAt(f, Span(o, o + Len(text)), text, by, same, sought, marked)
      BY <1>2
    <2> HIDE DEF same, sought, marked
    <2>2. c.file = f /\ c.same = same
      BY <2>1, CutFields
    <2> QED
      BY <1>10, <2>1, <2>2
  <1> HIDE DEF same, sought, marked
  <1>12. ASSUME NEW c \in cutting', NEW e \in cutting'
         PROVE  c = e \/ c.end <= e.start \/ e.end <= c.start
    <2>1. PICK o \in targets : c = CutAt(f, Span(o, o + Len(text)), text, by, same, sought, marked)
      BY <1>11
    <2>2. PICK q \in targets : e = CutAt(f, Span(q, q + Len(text)), text, by, same, sought, marked)
      BY <1>11
    <2>3. c.start = o /\ c.end = o + Len(text) /\ e.start = q /\ e.end = q + Len(text)
      BY <2>1, <2>2, CutFields DEF Span
    <2> QED
      BY <1>10, <2>1, <2>2, <2>3
  <1>13. Ready'
    BY <1>1, <1>5, <1>6, <1>11, <1>12, FitsThen DEF Ready, Input
  <1>14. Written'
    BY <1>1 DEF CutIInv, Written, Input
  <1>15. Seams'
    BY <1>1, <1>5 DEF CutIInv, Seams, Input
  <1>16. Planned'
    BY DEF Planned
  <1>17. ReplacedAsShown'
    BY <1>1 DEF CutIInv, ReplacedAsShown
  <1> QED
    BY <1>13, <1>14, <1>15, <1>16, <1>17 DEF CutIInv

LEMMA ResolvedCuts ==
  ASSUME PatchIInv, CutIInv, Resolved, ~Reject, kind = "repair"
  PROVE  CutIInv'
  <1>1. /\ patchPhase = "resolving" /\ patchPhase' = "cutting"
        /\ staged' = [f \in {g \in Files : Patches(g)} |-> AsShown(original[f])]
        /\ cutting' = {CutAt(applied[i].file, applied[i], applied[i].find, applied[i].by,
                             FALSE, TRUE, TRUE) : i \in DOMAIN applied}
        /\ UNCHANGED <<Input, disk, original, inserted, applied, hits>>
    BY DEF Resolved
  <1>2. /\ \A i \in DOMAIN applied : FitsShown(applied[i])
        /\ \A i, j \in DOMAIN applied :
             \/ i = j \/ applied[i].file # applied[j].file
             \/ Apart(applied[i], applied[j])
    BY <1>1 DEF CutIInv, Planned
  <1>3. \A f \in Shown : f \in Files /\ original[f] \in Texts
    BY <1>1 DEF PatchIInv, Noticed, CutIInv, Written, Shown
  <1>4. ASSUME NEW f \in DOMAIN staged' PROVE staged'[f] = AsShown(original[f]) /\ original[f] \in Texts
    <2>1. PICK i \in DOMAIN applied : applied[i].file = f
      BY <1>1, <1>4 DEF Patches
    <2> QED
      BY <1>1, <1>2, <1>3, <2>1 DEF FitsShown
  <1>5. ASSUME NEW i \in DOMAIN applied,
               NEW c, c = CutAt(applied[i].file, applied[i], applied[i].find, applied[i].by,
                                FALSE, TRUE, TRUE)
        PROVE  /\ c.file \in DOMAIN staged' /\ ~c.same /\ FitsIn(c, staged'[c.file])
               /\ c.file = applied[i].file /\ c.start = applied[i].start
               /\ c.end = applied[i].end
    <2> DEFINE p == applied[i]
               w == original[p.file]
               s == AsShown(w)
    <2>1. /\ c.file = p.file /\ c.start = p.start /\ c.end = p.end /\ c.find = p.find
          /\ c.by = Brought(p.by) /\ c.same = FALSE /\ c.asked = TRUE /\ c.marked = TRUE
      <3> HIDE DEF p
      <3>1. c = CutAt(p.file, p, p.find, p.by, FALSE, TRUE, TRUE)
        BY <1>5 DEF p
      <3> QED
        BY <3>1, Zenon DEF CutAt
    <2>2. FitsShown(p)
      BY <1>2
    <2>3. p.file \in DOMAIN staged' /\ staged'[p.file] = s /\ w \in Texts
      <3>1. p.file \in Files /\ Patches(p.file)
        BY <1>3, <2>2 DEF FitsShown, Patches
      <3> QED
        BY <1>1, <1>4, <3>1
    <2> HIDE DEF p
    <2>4. /\ p.start \in Nat /\ p.end \in Nat /\ p.start < p.end /\ p.by \in Texts
          /\ p.end <= Len(w) /\ Fits(p.file, Slice(w, p.start, p.end), p.find, p)
      BY <2>2 DEF FitsShown
    <2>5. w = snapshot[p.file]
      BY <1>1, <2>2 DEF PatchIInv, Noticed, FitsShown
    <2> HIDE DEF s
    <2>6. /\ s \in Seq(Letters) /\ Len(s) = Len(w) /\ Word(s) = w
          /\ \A from \in Nat, to \in Nat : from <= to /\ to <= Len(w) => Whole(Slice(s, from, to))
      BY <2>3, FreshSource, WordsAndLetters DEF s
    <2>7. p.start <= p.end
      BY <2>4
    <2>8. Word(Slice(s, p.start, p.end)) = Slice(w, p.start, p.end)
      BY <2>4, <2>6, <2>7, SliceOfWord
    <2>9. Brought(p.by) \in Seq(Letters) /\ \A k \in 1..Len(Brought(p.by)) : Brought(p.by)[k].at = 0
      BY <2>4, WordsAndLetters
    <2>10. Cuts(c, s)
      BY <2>1, <2>4, <2>6, <2>7, <2>9 DEF Cuts
    <2>13. LookedFor(c, Word(Slice(s, p.start, p.end)))
      BY <2>1, <2>4, <2>5, <2>8, kind = "repair" DEF Fits, LookedFor
    <2>11. Whole(Slice(s, p.start, p.end))
      BY <2>4, <2>6, <2>7
    <2>12. FitsIn(c, s)
      BY <2>1, <2>10, <2>11, <2>13 DEF FitsIn
    <2> QED
      BY <2>1, <2>3, <2>12 DEF p
  <1>6. ASSUME NEW c \in cutting' PROVE c.file \in DOMAIN staged' /\ ~c.same /\ FitsIn(c, staged'[c.file])
    <2>1. PICK i \in DOMAIN applied :
            c = CutAt(applied[i].file, applied[i], applied[i].find, applied[i].by, FALSE, TRUE, TRUE)
      BY <1>1
    <2> QED
      BY <1>5, <2>1
  <1>7. ASSUME NEW c \in cutting', NEW e \in cutting', c.file = e.file
        PROVE  c = e \/ c.end <= e.start \/ e.end <= c.start
    <2>1. PICK i \in DOMAIN applied :
            c = CutAt(applied[i].file, applied[i], applied[i].find, applied[i].by, FALSE, TRUE, TRUE)
      BY <1>1
    <2>2. PICK j \in DOMAIN applied :
            e = CutAt(applied[j].file, applied[j], applied[j].find, applied[j].by, FALSE, TRUE, TRUE)
      BY <1>1
    <2>3. /\ c.file = applied[i].file /\ c.start = applied[i].start
          /\ c.end = applied[i].end
          /\ e.file = applied[j].file /\ e.start = applied[j].start
          /\ e.end = applied[j].end
      BY <1>5, <2>1, <2>2
    <2>4. CASE i = j
      BY <2>1, <2>2, <2>4
    <2>5. CASE i # j
      BY <1>2, <1>7, <2>3, <2>5 DEF Apart
    <2> QED
      BY <2>4, <2>5
  <1>8. kind' = "repair"
    BY <1>1 DEF Input
  <1>9. Written'
    <2>1. \A f \in DOMAIN staged' : staged'[f] \in Seq(Letters)
      BY <1>4, FreshSource
    <2> QED
      BY <1>1, <1>8, <2>1 DEF CutIInv, Written, Input
  <1>10. Ready'
    BY <1>1, <1>6, <1>7, FitsThen DEF Ready
  <1>11. Seams' /\ Planned'
    BY <1>1, <1>8 DEF Seams, Planned
  <1>12. ReplacedAsShown'
    BY <1>1 DEF CutIInv, ReplacedAsShown
  <1> QED
    BY <1>9, <1>10, <1>11, <1>12 DEF CutIInv

\* A cut leaves the cuts before it as they were
LEMMA FitsStill ==
  ASSUME NEW s \in Seq(Letters), NEW c, Cuts(c, s), NEW e, FitsIn(e, s), e.end <= c.start
  PROVE  FitsIn(e, Splice(s, c.start, c.end, c.by))
  <1> DEFINE new == Splice(s, c.start, c.end, c.by)
  <1>1. /\ c.by \in Seq(Letters) /\ c.start \in Nat /\ c.end \in Nat /\ c.start <= c.end
        /\ c.end <= Len(s)
    BY DEF Cuts
  <1>2. /\ e.start \in Nat /\ e.end \in Nat /\ e.start <= e.end /\ e.end <= c.start
        /\ Cuts(e, s)
    BY DEF Cuts, FitsIn
  <1>3. e.end <= Len(new) /\ Slice(new, e.start, e.end) = Slice(s, e.start, e.end)
    BY <1>1, <1>2, SliceBeforeSplice
  <1> HIDE DEF new
  <1>4. Cuts(e, new)
    BY <1>2, <1>3 DEF Cuts
  <1>5. FitsIn(e, new)
    BY <1>3, <1>4 DEF FitsIn
  <1> QED
    BY <1>5 DEF new

LEMMA CutIsReady ==
  ASSUME Ready, NEW c \in cutting
  PROVE  /\ c.file \in DOMAIN staged /\ FitsIn(c, staged[c.file])
         /\ c.same => kind = "edit" /\ Echoed(c.file)
  <1>1. c.file \in DOMAIN staged
    BY Zenon DEF Ready
  <1>2. FitsIn(c, staged[c.file])
    BY Zenon DEF Ready
  <1>3. c.same => kind = "edit" /\ Echoed(c.file)
    BY Zenon DEF Ready
  <1> QED
    BY <1>1, <1>2, <1>3

LEMMA OneCut ==
  ASSUME PatchIInv, CutIInv, NEW c \in cutting, Cut(c)
  PROVE  CutIInv'
  <1> DEFINE f == c.file
             s == staged[f]
             new == Splice(s, c.start, c.end, c.by)
  <1>1. /\ patchPhase = "cutting" /\ LastOfFile(c)
        /\ staged' = [staged EXCEPT ![f] = IF c.same THEN @ ELSE new]
        /\ inserted' = IF kind = "edit" THEN [inserted EXCEPT ![f] = RangesAfter(@, c)] ELSE inserted
        /\ hits' = hits \cup {Hit(c, Slice(s, c.start, c.end))}
        /\ cutting' = cutting \ {c}
        /\ patchPhase' = IF cutting # {c} THEN patchPhase
                         ELSE IF kind = "edit" THEN "resolving" ELSE "rechecking"
        /\ UNCHANGED <<Input, disk, original, applied>>
    BY DEF Cut
  <1>2. f \in DOMAIN staged /\ FitsIn(c, s) /\ (c.same => kind = "edit" /\ Echoed(f))
    BY CutIsReady DEF CutIInv
  <1>3. s \in Seq(Letters) /\ Cuts(c, s) /\ kind \in {"edit", "repair"}
    BY <1>2 DEF CutIInv, Written, FitsIn, PatchIInv, PatchTypeOK
  <1>4. new \in Seq(Letters)
    <2>1. /\ c.by \in Seq(Letters) /\ c.start \in Nat /\ c.end \in Nat /\ c.start <= c.end
          /\ c.end <= Len(s)
      BY <1>3 DEF Cuts
    <2>2. Spliced(new, s, c.start, c.end, c.by)
      BY <1>3, <2>1, SpliceLetters
    <2> HIDE DEF new
    <2> QED
      BY <2>2 DEF Spliced
  <1> HIDE DEF new
  <1>5. /\ DOMAIN staged' = DOMAIN staged /\ staged'[f] = (IF c.same THEN s ELSE new)
        /\ \A g \in DOMAIN staged \ {f} : staged'[g] = staged[g]
    <2> HIDE DEF f
    <2> QED
      BY <1>1, <1>2 DEF s
  <1>6. \A g : Echoed(g) <=> Echoed(g)'
    BY <1>1 DEF Echoed
  <1>7. kind = "edit" =>
          /\ inserted[f] \subseteq Ranges /\ DOMAIN inserted' = DOMAIN staged
          /\ inserted'[f] = RangesAfter(inserted[f], c)
          /\ \A g \in DOMAIN staged \ {f} : inserted'[g] = inserted[g]
    <2> HIDE DEF f
    <2>1. kind = "edit" => DOMAIN inserted = DOMAIN staged /\ inserted[f] \subseteq Ranges
      BY <1>2 DEF CutIInv, Written
    <2> QED
      BY <1>1, <1>2, <2>1
  <1>8. ASSUME NEW e \in cutting'
        PROVE  /\ e.file \in DOMAIN staged' /\ FitsIn(e, staged'[e.file])
               /\ e.same => kind = "edit" /\ Echoed(e.file)
    <2>0. e \in cutting /\ e # c
      BY <1>1
    <2>1. /\ e \in cutting /\ e # c /\ e.file \in DOMAIN staged /\ FitsIn(e, staged[e.file])
          /\ e.same => kind = "edit" /\ Echoed(e.file)
      BY <2>0, CutIsReady DEF CutIInv
    <2>2. CASE e.file # f
      BY <1>5, <2>1, <2>2
    <2>3. CASE e.file = f
      <3>1. e.start <= c.start
        BY <1>1, <2>1, <2>3 DEF LastOfFile
      <3>2. c.end <= e.start \/ e.end <= c.start
        BY <2>1, <2>3 DEF CutIInv, Ready
      <3>3. FitsIn(e, s)
        BY <2>1, <2>3
      <3>4. e.end <= c.start
        <4>1. c.start \in Nat /\ c.end \in Nat /\ c.start < c.end /\ e.start \in Nat
          BY <1>3, <3>3 DEF Cuts, FitsIn
        <4> QED
          BY <3>1, <3>2, <4>1
      <3>5. FitsIn(e, new)
        BY <1>3, <3>3, <3>4, FitsStill DEF new
      <3> HIDE DEF s
      <3> QED
        BY <1>5, <2>1, <2>3, <3>3, <3>5
    <2> QED
      BY <2>2, <2>3
  <1>9. Ready'
    <2>1. cutting' # {} => patchPhase' = "cutting"
      BY <1>1
    <2>2. \A e, g \in cutting' : e.file = g.file => e = g \/ e.end <= g.start \/ g.end <= e.start
      BY <1>1 DEF CutIInv, Ready
    <2> QED
      BY <1>1, <1>6, <1>8, <2>1, <2>2, FitsThen DEF Ready, Input
  <1>10. Written'
    <2>1. \A g \in DOMAIN staged' : staged'[g] \in Seq(Letters)
      BY <1>3, <1>4, <1>5 DEF CutIInv, Written
    <2>2. kind = "edit" => \A g \in DOMAIN staged : inserted'[g] \subseteq Ranges
      <3>1. kind = "edit" => RangesAfter(inserted[f], c) \subseteq Ranges
        BY <1>3, <1>7, RangesStay
      <3> QED
        BY <1>2, <1>7, <3>1 DEF CutIInv, Written
    <2>3. patchPhase' # "asking"
      BY <1>1, <1>3
    <2> QED
      BY <1>1, <1>5, <1>7, <2>1, <2>2, <2>3 DEF CutIInv, Written, Input
  <1>11. Seams'
    <2> SUFFICES ASSUME kind = "edit", NEW g \in DOMAIN staged
                 PROVE  Marked(staged'[g], inserted'[g]) \/ Echoed(g)
      BY <1>1, <1>5, <1>6 DEF Seams, Input
    <2>1. Marked(staged[g], inserted[g]) \/ Echoed(g)
      BY DEF CutIInv, Seams
    <2>2. CASE g # f
      BY <1>5, <1>7, <2>1, <2>2
    <2>3. CASE g = f /\ ~Echoed(f)
      <3>1. Marked(s, inserted[f]) /\ ~c.same
        BY <1>2, <2>1, <2>3
      <3>2. Marked(new, RangesAfter(inserted[f], c))
        BY <1>3, <1>7, <3>1, CutMarks DEF new
      <3> QED
        BY <1>5, <1>7, <2>3, <3>1, <3>2
    <2> QED
      BY <2>2, <2>3
  <1>12. Planned'
    BY <1>1, <1>3 DEF Planned, Input
  <1>13. ReplacedAsShown'
    <2> DEFINE h == Hit(c, Slice(s, c.start, c.end))
    <2>1. h.exact /\ (h.asked /\ h.marked => h.whole)
      <3> DEFINE part == Slice(s, c.start, c.end)
                 ex == LookedFor(c, Word(part))
      <3>1. ex /\ (c.asked /\ c.marked => Whole(part))
        BY <1>2 DEF FitsIn
      <3> HIDE DEF part, ex
      <3>2. h = [asked |-> c.asked, marked |-> c.marked, whole |-> Whole(part), exact |-> ex]
        BY DEF Hit, part, ex
      <3> HIDE DEF h
      <3> QED
        BY <3>1, <3>2, Zenon
    <2> HIDE DEF h
    <2> QED
      BY <1>1, <2>1 DEF CutIInv, ReplacedAsShown, h
  <1> QED
    BY <1>9, <1>10, <1>11, <1>12, <1>13 DEF CutIInv

LEMMA DiskTexts ==
  ASSUME PatchIInv, CutIInv, NEW f \in Files, NEW text, text \in Texts \cup {Absent},
         disk' = [disk EXCEPT ![f] = text]
  PROVE  disk' \in [Files -> Texts \cup {Absent}]
  BY DEF CutIInv, Written

LEMMA CutStepKept == PatchIInv /\ CutIInv /\ [PatchNext]_patchVars => CutIInv'
  <1> SUFFICES ASSUME PatchIInv, CutIInv, [PatchNext]_patchVars PROVE CutIInv'
    OBVIOUS
  <1>a. disk \in [Files -> Texts \cup {Absent}] /\ (patchPhase # "cutting" => cutting = {})
    BY DEF CutIInv, Written, Ready
  <1>b. \A f \in DOMAIN staged : Word(staged[f]) \in Texts
    BY WordsAndLetters DEF CutIInv, Written
  <1>c. ASSUME Reject, patchPhase # "cutting" PROVE CutIInv'
    BY <1>a, <1>c, NoCutKeeps DEF Reject
  <1>1. ASSUME NEW named \in SUBSET Files, NEW new \in SUBSET named, Arrive(named, new) PROVE CutIInv'
    BY <1>1, <1>c, ArriveCuts DEF Arrive
  <1>2. ASSUME NEW f \in Files, NEW find \in Finds, NEW by \in Replacements, NEW how \in {"unique", "all"},
               EditPatch(f, find, by, how)
        PROVE  CutIInv'
    <2>1. \/ Reject
          \/ patchPhase' = "hung" /\ UNCHANGED <<Input, Work, Writing, PatchHistory, disk>>
          \/ patchPhase' = "cutting"
      BY <1>2 DEF EditPatch
    <2>2. patchPhase = "resolving"
      BY <1>2 DEF EditPatch
    <2>3. CASE patchPhase' = "hung" /\ UNCHANGED <<Input, Work, Writing, PatchHistory, disk>>
      BY <1>a, <2>2, <2>3, NoCutKeeps
    <2>4. CASE patchPhase' = "cutting"
      BY <1>2, <2>4, EditPatchCuts
    <2> QED
      BY <1>c, <2>1, <2>2, <2>3, <2>4
  <1>3. ASSUME NEW f \in Files, NEW find \in Finds, NEW by \in Replacements, RepairPatch(f, find, by)
        PROVE  CutIInv'
    BY <1>3, <1>c, RepairPatchCuts DEF RepairPatch
  <1>4. ASSUME NEW f \in Files, NEW source \in Replacements \ {<<>>}, CreateFile(f, source) PROVE CutIInv'
    BY <1>4, <1>c, CreateCuts DEF CreateFile
  <1>5. CASE Resolved
    <2>1. patchPhase = "resolving"
      BY <1>5 DEF Resolved
    <2>2. CASE kind = "edit" /\ ~Reject
      <3>1. patchPhase' = "rechecking" /\ UNCHANGED <<Input, Work, disk>>
        BY <1>5, <2>2 DEF Resolved
      <3> QED
        BY <1>a, <2>1, <3>1, NoCutKeeps
    <2>3. CASE kind # "edit" /\ ~Reject
      <3>1. kind = "repair"
        BY <2>3 DEF PatchIInv, PatchTypeOK
      <3> QED
        BY <1>5, <2>3, <3>1, ResolvedCuts
    <2> QED
      BY <1>c, <2>1, <2>2, <2>3
  <1>6. ASSUME NEW c \in cutting, Cut(c) PROVE CutIInv'
    BY <1>6, OneCut
  <1>7. ASSUME NEW f \in Files, Recheck(f) PROVE CutIInv'
    <2>1. patchPhase = "rechecking"
      BY <1>7 DEF Recheck
    <2>2. \/ Reject
          \/ patchPhase' \in {"writing", "rechecking"} /\ UNCHANGED <<Input, Work, disk>>
      BY <1>7, <2>1 DEF Recheck
    <2> QED
      BY <1>a, <1>c, <2>1, <2>2, NoCutKeeps
  <1>8. ASSUME NEW f \in Files, Write(f) PROVE CutIInv'
    <2>1. /\ patchPhase = "writing" /\ patchPhase' \in {"writing", "done"}
          /\ f \in DOMAIN staged /\ disk' = [disk EXCEPT ![f] = Word(staged[f])]
          /\ UNCHANGED <<Input, Work>>
      BY <1>8 DEF Write, PatchIInv, OnDisk
    <2>2. disk' \in [Files -> Texts \cup {Absent}]
      BY <1>b, <2>1, DiskTexts
    <2> QED
      BY <1>a, <2>1, <2>2, NoCutKeeps
  <1>9. ASSUME NEW f \in Files, NEW left \in Foreign \cup {<<>>, disk[f]}, WriteFails(f, left) PROVE CutIInv'
    <2>1. /\ patchPhase = "writing" /\ patchPhase' \in {"failed", "undoing"}
          /\ disk' = [disk EXCEPT ![f] = left]
          /\ UNCHANGED <<Input, Work>>
      BY <1>9 DEF WriteFails
    <2>2. <<>> \in Texts
      BY DEF Texts
    <2>3. left \in Texts \cup {Absent}
      BY <1>a, <2>2, PatchAssumption
    <2>4. disk' \in [Files -> Texts \cup {Absent}]
      BY <2>1, <2>3, DiskTexts
    <2> QED
      BY <1>a, <2>1, <2>4, NoCutKeeps
  <1>10. ASSUME NEW f \in Files, Undo(f) PROVE CutIInv'
    <2>1. /\ patchPhase = "undoing" /\ patchPhase' \in {"failed", "undoing"}
          /\ \/ disk' = [disk EXCEPT ![f] = IF StillOurs(f) THEN snapshot[f] ELSE @]
             \/ UNCHANGED disk
          /\ UNCHANGED <<Input, Work>>
      BY <1>10 DEF Undo
    <2>2. disk' \in [Files -> Texts \cup {Absent}]
      BY <1>a, <2>1 DEF CutIInv, Written
    <2> QED
      BY <1>a, <2>1, <2>2, NoCutKeeps
  <1>11. ASSUME NEW f \in Files, NEW text \in Foreign, ChangedElsewhere(f, text) PROVE CutIInv'
    <2>1. /\ patchPhase \in {"asking", "rechecking", "writing", "undoing"}
          /\ disk' = [disk EXCEPT ![f] = text] /\ patchPhase' = patchPhase
          /\ UNCHANGED <<Input, Work>>
      BY <1>11 DEF ChangedElsewhere
    <2>2. text \in Texts \cup {Absent}
      BY PatchAssumption
    <2>3. disk' \in [Files -> Texts \cup {Absent}]
      BY <2>1, <2>2, DiskTexts
    <2> QED
      BY <1>a, <2>1, <2>3, NoCutKeeps
  <1>12. CASE UNCHANGED patchVars
    <2>1. UNCHANGED <<Input, Work, disk, patchPhase>>
      BY <1>12 DEF patchVars
    <2>2. Written' /\ Planned' /\ ReplacedAsShown'
      BY <2>1 DEF CutIInv, Written, Planned, ReplacedAsShown, Input, Work, FitsShown, Fits, Shown
    <2>a. UNCHANGED Input
      BY <2>1
    <2>3. Ready' /\ Seams'
      BY <2>1, <2>a, FitsThen DEF CutIInv, Ready, Seams, Input, Work, Echoed
    <2> QED
      BY <2>2, <2>3 DEF CutIInv
  <1> QED
    BY <1>1, <1>2, <1>3, <1>4, <1>5, <1>6, <1>7, <1>8, <1>9, <1>10, <1>11, <1>12 DEF PatchNext

-----------------------------------------------------------------------------
(* The answers of a model *)

\* The parts of a planning call and its cache keep their shapes, and no two entries of the
\* cache have one key.
THEOREM PlanningTypeCorrect == PlanningSpec => []PlanningTypeOK
<1>1. PlanningIInv => PlanningTypeOK
  BY DEF PlanningIInv
<1> QED
  BY <1>1, PlanningStart, PlanningStep, PTL DEF PlanningSpec

\* The parts of a tool loop keep their shapes.
THEOREM LoopTypeCorrect == LoopSpec => []LoopTypeOK
<1>1. LoopIInv => LoopTypeOK
  BY DEF LoopIInv
<1> QED
  BY <1>1, LoopStart, LoopStep, PTL DEF LoopSpec

\* The parts of a bundle of patches and the files it changes keep their shapes.
THEOREM PatchTypeCorrect == PatchSpec => []PatchTypeOK
<1>1. PatchIInv => PatchTypeOK
  BY DEF PatchIInv
<1> QED
  BY <1>1, PatchStart, PatchStep, PTL DEF PatchSpec

\* A patch replaces the text that was looked for; and text that was asked for as it was
\* shown stood in one piece in the source that was shown, unless an earlier patch of the
\* file put back what it matched, for any files, texts, patches and line endings
\* (ReplacedAsShown, which the generation run checks for three patches).
THEOREM ReplacesWhatWasShown == PatchSpec => []ReplacedAsShown
<1>1. PatchInit => PatchIInv /\ CutIInv
  BY PatchStart, CutStart
<1>2. PatchIInv /\ CutIInv /\ [PatchNext]_patchVars => PatchIInv' /\ CutIInv'
  BY PatchStep, CutStepKept
<1>3. CutIInv => ReplacedAsShown
  BY DEF CutIInv
<1> QED
  BY <1>1, <1>2, <1>3, PTL DEF PatchSpec

\* A plan is a validated answer to its own prompt or the rules' own and said to be, a
\* completion that was accepted is in the workspace, and no write loses another writer's
\* change or leaves a repair half done, for any prompts, cache, tools, rounds, files,
\* patches and faults (ModelWorkChecked, which the generation run checks for small ones).
THEOREM ModelWorkSound == PlanningSpec /\ LoopSpec /\ PatchSpec => []ModelWorkChecked
<1>1. PlanningSpec => []PlansAreChecked
  BY PlanningStart, PlanningStep, PlanningHolds, PTL DEF PlanningSpec
<1>2. LoopSpec => []AcceptedIsThere
  BY LoopStart, LoopStep, LoopHolds, PTL DEF LoopSpec
<1>3. PatchSpec => []NothingHalfDone
  BY PatchStart, PatchStep, PatchHolds, PTL DEF PatchSpec
<1> QED
  BY <1>1, <1>2, <1>3, PTL DEF ModelWorkChecked
=============================================================================
