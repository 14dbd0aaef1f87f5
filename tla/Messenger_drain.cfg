SPECIFICATION Spec
CONSTANTS
  None = None
  Msgs = {m1, m2}
  Handlers = {h1, h2}
  Nackable = {m1}
  MaxRestartAttempts = 1
  MaxFailures = 0
  MaxExpiries = 0
  MaxStops = 1
INVARIANT DrainedAtReturn
CHECK_DEADLOCK FALSE
