\* A patch replaces text that an earlier one brought: violated.
SPECIFICATION PatchSpec
CONSTANTS
  A = A
  B = B
  Absent = Absent
  Sources <- MCSources
  Foreign <- MCForeign
  Finds <- MCFinds
  Replacements <- MCReplacements
  LineEnd <- MCLineEnd
  NewLine = "b"
  Blanks = {"s"}
  Quotes = {"q"}
  Code <- MCCode
  MaxPatches = 3
  MaxFaults = 0
INVARIANT NoTargetsMade
CHECK_DEADLOCK FALSE
