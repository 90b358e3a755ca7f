\* Duplicate finalization, storage failures, deletes, crashes; fair calls.
SPECIFICATION FairSpec
CONSTANTS
  u1 = u1
  j1 = j1
  j2 = j2
  c1 = c1
  c2 = c2
  c3 = c3
  Users <- MCUsers
  Jobs <- MCJobs
  Calls <- MCCalls
  OwnerOf <- MCOwnerOf
  JobOf <- MCJobOf
  Summaries <- MCSummaries
  Rate = 1
  Credits <- MCCredits
INVARIANTS ChargedRowIsExact UnrecordedDebitMeansFault
PROPERTIES Ledger EventuallySettled
CHECK_DEADLOCK FALSE
