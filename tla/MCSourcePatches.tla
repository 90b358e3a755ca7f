--------------------------- MODULE MCSourcePatches ---------------------------
(* One file, "a", and patches that look for "a" or delete it. *)
EXTENDS SourcePatches

CONSTANTS A, B

MCSources == [file \in {A, B} |-> IF file = A THEN {<<"a", "b">>, <<"a", "a", "b">>} ELSE {Absent}]
MCForeign == {}
MCFinds == {<<"a">>, <<"b">>}
MCReplacements == {<<>>, <<"b">>}
MCLineEnd == [ch \in {"a", "b", "s", "q"} |-> ch]
MCCode == {}
=============================================================================
