SPECIFICATION FairSpec
CONSTANTS
  Requests = {r1}
  MaxHandlers = 2
  MaxMsgs = 3
INVARIANT MetricsOutliveRequests
PROPERTIES RunReturns MessengerProceeds
CHECK_DEADLOCK FALSE
