\* The generation pipeline and its parts, one at a time.
SPECIFICATION GenerationSpec
CONSTANTS
  Proposals <- MCProposals
  MaxBuildRepairs = 1
  Requests <- MCRequests
  Viewports <- MCViewports
  Routes <- MCRoutes
  HasAssets = TRUE
  LaunchRetries = 1
  A = A
  B = B
  Absent = Absent
  Sources <- MCSources
  Foreign <- MCForeign
  Finds <- MCFinds
  Replacements <- MCReplacements
  LineEnd <- MCLineEnd
  NewLine = "b"
  Blanks = {"s"}
  Quotes = {"q"}
  Code <- MCCode
  MaxPatches = 3
  MaxFaults = 2
  Paths = {app, page1, pkg}
  Required = {app}
  FileAt <- MCFileAt
  Managed = {pkg}
  Responses <- MCResponses
  MaxTurns = 2
  MaxToolCalls = 3
  MaxFilesWritten = 2
  Plannings = {n1, n2}
  Prompts = {"P", "p", "q"}
  KeyOf <- MCKeyOf
  Requested <- MCRequested
  Answers <- MCAnswers
  MaxBundlePages = 1
  MaxPlanPages = 2
  MaxEntries = 1
  app = app
  page1 = page1
  pkg = pkg
  pkg2 = pkg2
  n1 = n1
  n2 = n2
CONSTRAINT GenerationBound
INVARIANTS CurrentIsGated CommittedAsBuilt ChargeFollowsCommit EnvironmentOwned
  AcceptedIsChecked ReplacedAsShown ModelWorkChecked
PROPERTIES RunEnds ReplacesOnlyWhenAccepted
CHECK_DEADLOCK FALSE
