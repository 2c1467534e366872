SPECIFICATION MCSpec
CONSTANTS
  a = a
  b = b
  Files = {a, b}
  Dirs = {"ok", "err"}
  Names = {"r"}
  Base <- BaseClash
  NoPath = NoPath
  MaxList = 2
  MaxCalls = 2
INVARIANT NoFileLost
CHECK_DEADLOCK FALSE
