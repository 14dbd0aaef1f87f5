SPECIFICATION FairSpec
CONSTANTS
  Requests = {r1}
  MaxHandlers = 1
  MaxMsgs = 2
PROPERTY RunAlwaysReturns
CHECK_DEADLOCK FALSE
