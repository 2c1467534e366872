SPECIFICATION FairSpec
CONSTANTS
  body = body
  att = att
  Files = {body, att}
  Dirs = {"ok", "err"}
  Names = {"body.html", "att.pdf"}
  Base <- BaseOf
  NoPath = NoPath
  Configs <- AllConfigs
  MaxInt <- Largest
  DefaultMaxRecipients = 2
  MaxCrashes = 1
INVARIANTS
  TypeOK
  AnswerTruth
  CopiesAccounted
  WholeBudget
  Inert
  ReadsBeforeRouting
  SuccessDirMeansSent
  InputsSurvive
  CancelPrompt
PROPERTIES
  NoAttemptAfterCancel
  Advances
  Implements
CHECK_DEADLOCK FALSE
