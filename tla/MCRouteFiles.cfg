SPECIFICATION MCSpec
CONSTANTS
  a = a
  b = b
  Files = {a, b}
  Dirs = {"ok", "err"}
  Names = {"a", "b"}
  Base <- BaseInjective
  NoPath = NoPath
  MaxList = 2
  MaxCalls = 2
INVARIANTS
  NoFileLost
  NilMeansDone
PROPERTIES
  MovedIsStable
CHECK_DEADLOCK FALSE
