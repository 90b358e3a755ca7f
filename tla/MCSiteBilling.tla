---------------------------- MODULE MCSiteBilling ----------------------------
(***************************************************************************)
(* Two jobs of one user that can overdraw the quota together; the first is *)
(* finalized by two calls at once. One summary costs more than the quota   *)
(* and reports more cached than input tokens, the other ran another model  *)
(* than was authorized. A plan change can set the quota below its use.     *)
(***************************************************************************)
EXTENDS SiteBilling

CONSTANTS u1, j1, j2, c1, c2, c3

MCUsers == {u1}
MCJobs == {j1, j2}
MCCalls == {c1, c2, c3}
MCOwnerOf == [j \in MCJobs |-> u1]
MCJobOf == [c \in MCCalls |-> IF c = c3 THEN j2 ELSE j1]

Usage(in, hit, out, ok) ==
  [cacheBilled |-> FALSE, input |-> in, cached |-> hit, output |-> out, matches |-> ok]
MCSummaries == {Usage(0, 1, 2, TRUE), Usage(1, 0, 0, FALSE)}
MCCredits == {0, 1}

=============================================================================
