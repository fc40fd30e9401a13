SPECIFICATION Spec
CONSTANTS
  MaxPid = 3
  MaxToken = 2
  MaxClock = 1
  Quantum = 1
  MaxSteps = 3
  MaxFired = 1
  BackgroundOk = TRUE
  Values = {0}
  Codes = {0}
  Delays = {1}
  Fds = {4}
  Commands = {"async", "await", "sleep", "wait_readable", "eval", "try", "fail", "yield"}
  Null = Null
INVARIANTS NoLostWakeup RunQueueExact
PROPERTIES WakeHasCause KeepsPromise
