SPECIFICATION FairSpec
CONSTANTS
  None = None
  Msgs = {m1, m2}
  Handlers = {h1, h2}
  Nackable = {m1}
  MaxRestartAttempts = 0
  MaxFailures = 1
  MaxExpiries = 1
  MaxStops = 1
INVARIANTS AckedIsAnswered ActiveIsExact
PROPERTY EveryMessageIsAcked
CHECK_DEADLOCK FALSE
