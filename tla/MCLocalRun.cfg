SPECIFICATION LocalSpec
CONSTANTS
  MaxCommands = 2
  MaxRuns = 2
  t1 = t1
  t2 = t2
  Targets <- MCTargets
  MaxTries = 3
INVARIANTS
  ExitEarned
  PreflightRight
PROPERTIES
  KeyLostForReason
