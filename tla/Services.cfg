\* Components that share no state, one at a time.
SPECIFICATION ServicesSpec
CONSTANTS
  r1 = r1
  r2 = r2
  r3 = r3
  shared = shared
  openai = openai
  Runs = {r1, r2, r3}
  Providers = {shared, openai}
  ProviderOf <- MCProviderOf
  SelfRetrying = {openai}
  Timed = {shared}
  MaxRetries <- MCMaxRetries
  MaxLogical = 2
  MaxPhysical = 3
  MaxTokens = 2
  MinSafe = 2
  Usages = {0, 1, 3}
  m1 = m1
  m2 = m2
  m3 = m3
  m4 = m4
  c1 = c1
  c2 = c2
  p1 = p1
  Publishes = {p1, p2}
  Rollbacks = {p3}
  Unpublishes = {u1}
  Slugs = {s1}
  Hosts = {h1}
  Activations = {a1, a2}
  MaxVersion = 2
  MaxChallenge = 2
  MaxDeletions = 1
  MaxRestarts = 1
  p2 = p2
  p3 = p3
  u1 = u1
  s1 = s1
  h1 = h1
  a1 = a1
  a2 = a2
  d1 = d1
  d2 = d2
  d3 = d3
  src = src
  Commands = {m1, m2, m3, m4}
  CommandOf <- MCCommandOf
  Contents = {c1, c2}
  BytesOf <- MCBytesOf
  Parts <- MCParts
  Queries = {cq1, cq2}
  MaxGeneration = 2
  Files = {mf, src}
  Manifest = mf
  MaxEdits = 1
  Instantiations = {taker}
  title = title
  price = price
  Fields = {title, price}
  Records = {x}
  Users = {user}
  q1 = q1
  q2 = q2
  Requests = {q1, q2}
  Accesses <- MCAccesses
  MaxSchema = 2
  MaxBytes = 2
  MaxCalls = 1
  Envs = {here}
  LocalCalls = {d1, d2, d3}
  Ports = {port}
  KeepWorkspace = FALSE
  Sandboxes = {remote}
  DaytonaCalls = {k1, k2}
  MaxAttempts = 3
  PromptVersions = {1, 2}
  ContractVersions = {1, 2}
  PromptDefs <- MCPromptDefs
  ContractDefs <- MCContractDefs
  MaxReleases = 2
  Cases <- MCCases
  EvalBudget = 2
  MaxProcesses = 2
  MaxFaults = 1
  EvalCases <- MCEvalCases
  Observed <- MCObserved
  Values <- MCValues
  Assertions <- MCAssertions
  Sites = {sA, sB}
  Openings = {o1, o2}
  MaxSiteVersion = 2
  MaxEvents = 3
CONSTRAINT Bounds
INVARIANTS BooksBalance ActiveIsComplete FreshOnceAnnounced PublishedIsServable
  OnTheAirByRight RecordsStayValid EnvironmentsAccounted TemplatesAsTested
  PromptsHold EvaluationsHold PageIsConsistent
PROPERTIES SpentIsFinal OpenCircuitIsFree
CHECK_DEADLOCK FALSE
