CONSTANTS
  Proposals <- MCProposals
  MaxBuildRepairs = 1
  Requests <- MCRequests
SPECIFICATION Spec
INVARIANT
  ReviewCommitsNothing
