SPECIFICATION SoundSpec
CONSTANTS
  body = body
  a = a
  b = b
  Files = {body, a, b}
  Dirs = {"ok", "err"}
  Names = {"body.html", "a.pdf", "b.pdf"}
  Base <- BaseOf
  NoPath = NoPath
  Recipients = {"r"}
  DefaultMaxRecipients = 2
  Configs <- AllConfigs
  MaxVanished = 1
  MaxLost = 1
  MaxCrashes = 0
INVARIANT FailureMovesRest
CHECK_DEADLOCK FALSE
