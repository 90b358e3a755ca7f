----------------------------- MODULE MCDevJobs -----------------------------
(***************************************************************************)
(* Two generations and an edit, with room for one record and two events:   *)
(* every history is trimmed, a finished job is dropped before its request  *)
(* is retried, and an event stream and a socket join a job before and      *)
(* after it ends. Two request identities compete for one place.            *)
(***************************************************************************)
EXTENDS DevJobs

CONSTANTS g1, g2, e1

MCJobs == {g1, g2, e1}
MCEdits == {e1}

=============================================================================
