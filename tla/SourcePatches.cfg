\* A find text rebased to nothing: violated.
SPECIFICATION PatchSpec
CONSTANTS
  A = A
  B = B
  Absent = Absent
  Sources <- MCSources
  Foreign <- MCForeign
  Finds <- MCFinds
  Replacements <- MCReplacements
  LineEnd <- MCLineEnd
  NewLine = "b"
  Blanks = {"s"}
  Quotes = {"q"}
  Code <- MCCode
  MaxPatches = 2
  MaxFaults = 0
INVARIANT RebasedIsMatched
CHECK_DEADLOCK FALSE
