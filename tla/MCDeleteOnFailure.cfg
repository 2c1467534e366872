SPECIFICATION Spec
CONSTANTS
  body = body
  att = att
  Files = {body, att}
  Dirs = {"ok", "err"}
  Names = {"body.html", "att.pdf"}
  Base <- BaseOf
  NoPath = NoPath
  Configs <- FileConfigs
  MaxInt <- Largest
  DefaultMaxRecipients = 2
  MaxCrashes = 1
INVARIANT DeletedOnlyWhenSent
CHECK_DEADLOCK FALSE
