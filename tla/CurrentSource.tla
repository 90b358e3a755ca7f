--------------------------- MODULE CurrentSource ---------------------------
(***************************************************************************)
(* What the product promises of a site's current source (README.md:7): an  *)
(* edit or a generation works on a disposable candidate, and the current   *)
(* source is replaced, at most once per run, by a candidate that passed    *)
(* the gates; a run that does not get there leaves it alone.               *)
(***************************************************************************)
CONSTANTS
  Candidates,    \* the sources a run may work on
  Acceptable     \* those of them that pass the gates

VARIABLES
  current,    \* {} or {the accepted source}
  candidate,  \* the source of the run under way
  verdict     \* "none" (no run), "open" or "accepted"

vars == <<current, candidate, verdict>>

Init ==
  /\ current \subseteq Acceptable
  /\ \A c, d \in current : c = d
  /\ candidate \in Candidates
  /\ verdict = "none"

Open ==
  /\ verdict = "none"
  /\ verdict' = "open"
  /\ candidate' \in Candidates
  /\ UNCHANGED current

Rework ==
  /\ verdict = "open"
  /\ candidate' \in Candidates
  /\ UNCHANGED <<current, verdict>>

Accept ==
  /\ verdict = "open"
  /\ candidate \in Acceptable
  /\ current' = {candidate}
  /\ verdict' = "accepted"
  /\ UNCHANGED candidate

\* Accepted or not, the run is over and its candidate gone.
Close ==
  /\ verdict \in {"open", "accepted"}
  /\ verdict' = "none"
  /\ candidate' \in Candidates
  /\ UNCHANGED current

Next == Open \/ Rework \/ Accept \/ Close

Spec == Init /\ [][Next]_vars
============================================================================
