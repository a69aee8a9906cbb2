SPECIFICATION TurnSpec
CONSTANTS
  Harnesses = {"codex", "claude", "opencode", "openclaw", "hermes", "pi"}
  MaxCalls = 2
  OvTools = {"search", "forget"}
  OtherTools = {"clarify"}
  Overrides <- MCOverrides
  Policies <- MCPolicies
  MaxLog = 5
INVARIANTS
  EvidenceExact
  OkIsEarned
  NothingLeftRunning
PROPERTY
  TurnEnds
