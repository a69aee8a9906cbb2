SPECIFICATION ScSpec
CONSTANTS
  Ops = {"commit", "ready", "plugin"}
  Retry = 2
  MinCommits = 1
  MinExtracted = 2
  MaxCommits = 2
  MaxYield = 2
INVARIANTS
  CommitAccounted
PROPERTIES
  NoCommitMissed
  NoHastyRefusal
  PollEnds
