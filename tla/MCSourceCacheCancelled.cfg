SPECIFICATION CacheSpec
CONSTANTS
  Procs = {p1, p2}
  None = None
  MaxPush = 1
INVARIANT
  FailureLeavesNoWorktree
