SPECIFICATION FairSpec
CONSTANTS
  MaxPid = 3
  MaxToken = 1
  MaxClock = 1
  Quantum = 1
  MaxSteps = 3
  MaxFired = 1
  BackgroundOk = FALSE
  Values = {0, 1}
  Codes = {1}
  Delays = {1}
  Fds = {4}
  Commands = {"set", "async", "yield", "sleep", "await", "external", "fail"}
  Null = Null
INVARIANTS DeadlockIsReal DeliveredValue ResumeAtCommand
PROPERTIES SleeperWakes ScriptEnds
