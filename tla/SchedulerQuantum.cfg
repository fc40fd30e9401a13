SPECIFICATION Spec
CONSTANTS
  MaxPid = 2
  MaxToken = 1
  MaxClock = 1
  Quantum = 1
  MaxSteps = 3
  MaxFired = 1
  BackgroundOk = FALSE
  Values = {0}
  Codes = {0}
  Delays = {1}
  Fds = {4}
  Commands = {"set", "async", "yield"}
  Null = Null
INVARIANTS SliceWithinQuantum
