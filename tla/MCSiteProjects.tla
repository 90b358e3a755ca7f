--------------------------- MODULE MCSiteProjects ---------------------------
(***************************************************************************)
(* A small instance of SiteProjects with three sites, of which one moves:  *)
(* a generated site (g) edited by two processes at once (e1, e2); a        *)
(* reference generation retried under the same site id (r1, r2), with an   *)
(* edit in a second process (e3) and a delete; and a template (t) with an  *)
(* edit (e4), a rename and a delete.                                       *)
(***************************************************************************)
EXTENDS SiteProjects

CONSTANTS s1, s2, s3, g, e1, e2, r1, r2, e3, t, e4, p1, p2, ren, del2, del3

MCSites == {s1, s2, s3}
MCJobs == {g, e1, e2, r1, r2, e3, t, e4}
MCKindOf == [j \in MCJobs |-> CASE j = g -> "generate" [] j \in {r1, r2} -> "reference"
                                [] j = t -> "template" [] OTHER -> "edit"]
MCSiteOf == [j \in MCJobs |-> CASE j \in {g, e1, e2} -> s1 [] j \in {r1, r2, e3} -> s2 [] OTHER -> s3]
MCRenames == {ren}
MCDeletes == {del2, del3}
MCSiteAt == [x \in MCRenames \cup MCDeletes |-> IF x = del2 THEN s2 ELSE s3]
MCServers == {p1, p2}
MCServerOf == [x \in MCJobs \cup MCDeletes |-> IF x \in {e2, e3} THEN p2 ELSE p1]

\* The sites share nothing: all but one of them rest, so that their state
\* spaces add up instead of multiplying.
OneSiteMoves == \E s \in Sites : \A j \in Jobs : SiteOf[j] # s => run[j] = "idle"
=============================================================================
