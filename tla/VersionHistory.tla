--------------------------- MODULE VersionHistory ---------------------------
(***************************************************************************)
(* What the version store promises: the versions of a site form one line,  *)
(* in which every candidate was built from the version it replaces, so no  *)
(* accepted work is lost. Deleting a site erases its line; a line that was *)
(* erased and started again under the same site id gives no such promise.  *)
(* SiteProjects implements this module (SiteProjects!HistoryKept).             *)
(***************************************************************************)
EXTENDS Sequences, FiniteSets

CONSTANTS Sites, Candidates

VARIABLES line,     \* line[s]: the candidates accepted as versions 1, 2, ... of s
          base,     \* base[c]: {} or {the version c was built from}
          erased    \* sites whose versions were deleted

historyVars == <<line, base, erased>>

\* {} or {the current version}
Tip(q) == IF q = <<>> THEN {} ELSE {q[Len(q)]}

Accepted == UNION {{line[s][i] : i \in DOMAIN line[s]} : s \in Sites}

HistoryInit ==
  /\ line = [s \in Sites |-> <<>>]
  /\ base = [c \in Candidates |-> {}]
  /\ erased = {}

\* Until it is accepted a candidate may be built from anything.
Build(c) ==
  /\ c \notin Accepted
  /\ base' \in [Candidates -> SUBSET Candidates]
  /\ \A d \in Candidates \ {c} : base'[d] = base[d]
  /\ UNCHANGED <<line, erased>>

Accept(s, c) ==
  /\ c \notin Accepted
  /\ base[c] = Tip(line[s]) \/ s \in erased
  /\ line' = [line EXCEPT ![s] = Append(@, c)]
  /\ UNCHANGED <<base, erased>>

Erase(s) ==
  /\ line' = [line EXCEPT ![s] = <<>>]
  /\ erased' = erased \cup {s}
  /\ UNCHANGED base

HistoryNext ==
  \/ \E c \in Candidates : Build(c) \/ \E s \in Sites : Accept(s, c)
  \/ \E s \in Sites : Erase(s)

HistorySpec == HistoryInit /\ [][HistoryNext]_historyVars
=============================================================================
