SPECIFICATION WillingSpec
CONSTANTS
  body = body
  a = a
  Files = {body, a}
  Dirs = {"ok", "err"}
  Names = {"body.html", "a.pdf"}
  Base <- BaseOf
  NoPath = NoPath
  Recipients = {"x", "y"}
  DefaultMaxRecipients = 3
  Configs <- AllConfigs
  MaxVanished = 1
  MaxLost = 0
  MaxCrashes = 0
INVARIANT OneEmailPerRecipient
CHECK_DEADLOCK FALSE
