SPECIFICATION Spec
CONSTANTS
  Minute = 8
  Rates = {0, 1, 2, 3, 4, 9}
  MaxMails = 6
  MaxTime = 14
INVARIANTS TwoApart MinuteBound CancelCost
CHECK_DEADLOCK FALSE
