-------------------------- MODULE MCPreviewManager --------------------------
(***************************************************************************)
(* A small instance of PreviewManager: two sites, two environments that    *)
(* may resist their destruction, one sweep and close().                    *)
(***************************************************************************)
EXTENDS PreviewManager

CONSTANTS a, b, e1, e2, w1

\* e1 is made by a reference generation of site a.
MCRetried == [e \in {e1, e2} |-> IF e = e1 THEN {a} ELSE {}]
=============================================================================
