SPECIFICATION FairSpec
CONSTANTS
  g1 = g1
  g2 = g2
  e1 = e1
  Jobs <- MCJobs
  Edits <- MCEdits
  Requests = {q1, q2}
  Streams = {s1}
  Sockets = {c1}
  MaxJobs = 1
  MaxEvents = 2
  MaxAttempts = 1
  MaxUpdates = 1
CHECK_DEADLOCK FALSE
INVARIANTS TypeOK OneMutation GeneratedOnce FollowersFaithful
PROPERTIES JobsSettle
