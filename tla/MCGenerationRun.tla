--------------------------- MODULE MCGenerationRun ---------------------------
(***************************************************************************)
(* Generations and edits of one site, one after the other, without a bound *)
(* on their number; the model proposes few defects at once.                   *)
(***************************************************************************)
EXTENDS GenerationRun

\* Bound: one defect at a time, and the pairs of which a fix removes one.
MCProposals ==
  {{}} \cup {{d} : d \in Defects}
    \cup {{"closing", "fixable"}, {"closing", "syntax"}, {"fixable", "inert"}}

Plain == [None EXCEPT !.retain = TRUE]
MCRequests ==
  {Plain,
   [Plain EXCEPT !.complex = TRUE, !.reference = TRUE],
   [Plain EXCEPT !.kind = "edit"],
   [None EXCEPT !.kind = "edit", !.demanding = TRUE],
   [Plain EXCEPT !.kind = "edit", !.review = TRUE]}
==============================================================================
