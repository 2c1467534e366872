SPECIFICATION Spec
CONSTANTS
  body = body
  a = a
  Files = {body, a}
  Dirs = {"ok", "err"}
  Names = {"body.html", "a.pdf"}
  Base <- BaseOf
  NoPath = NoPath
  Recipients = {"x", "y"}
  DefaultMaxRecipients = 3
  Configs <- FaultConfigs
  MaxVanished = 1
  MaxLost = 1
  MaxCrashes = 1
INVARIANTS
  ReportTruth
  OneCopyEach
  InputsSurvive
PROPERTIES
  Advances
CHECK_DEADLOCK FALSE
