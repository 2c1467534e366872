SPECIFICATION FairSpec
CONSTANTS
  body = body
  a = a
  b = b
  Files = {body, a, b}
  Dirs = {"ok", "err"}
  Names = {"body.html", "a.pdf", "b.pdf"}
  Base <- BaseOf
  NoPath = NoPath
  Recipients = {"r"}
  DefaultMaxRecipients = 2
  Configs <- FaultConfigs
  MaxVanished = 1
  MaxLost = 1
  MaxCrashes = 1
INVARIANTS
  FiledWhenAcknowledged
  BodyFiledLast
  AnswerCounts
  OneCopyEach
  InputsSurvive
PROPERTIES
  Returns
  Advances
CHECK_DEADLOCK FALSE
