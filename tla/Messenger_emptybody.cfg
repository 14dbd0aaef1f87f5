SPECIFICATION Spec
CONSTANTS
  None = None
  Msgs = {m1}
  Handlers = {h1, h2}
  Nackable = {m1}
  MaxRestartAttempts = 1
  MaxFailures = 0
  MaxExpiries = 0
  MaxStops = 0
INVARIANT AckedHasBody
CHECK_DEADLOCK FALSE
