SPECIFICATION Spec
CONSTANTS
  s1 = s1
  s2 = s2
  s3 = s3
  g = g
  e1 = e1
  e2 = e2
  r1 = r1
  r2 = r2
  e3 = e3
  t = t
  e4 = e4
  p1 = p1
  p2 = p2
  ren = ren
  del2 = del2
  del3 = del3
  Sites <- MCSites
  Jobs <- MCJobs
  KindOf <- MCKindOf
  SiteOf <- MCSiteOf
  ServerOf <- MCServerOf
  Renames <- MCRenames
  Deletes <- MCDeletes
  SiteAt <- MCSiteAt
  Servers <- MCServers
CONSTRAINT OneSiteMoves
INVARIANTS FailedNeverCurrent
CHECK_DEADLOCK FALSE
