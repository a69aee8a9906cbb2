SPECIFICATION CaseSpec
CONSTANTS
  Nodes <- MCNodes
  Position <- MCPosition
  Inputs <- MCInputs
  Conditions <- MCConditions
  Values <- MCValues
  TruthyValues <- MCTruthy
  Nil = "nil"
  Absent = "absent"
  None = "none"
  Concurrency = 3
  Gate = "judge"
  Critical = {"judge"}
  GateConfig <- MCGateConfig
  Observe = FALSE
  Claimants = {"seed", "find"}
  Plain = "Plain"
  Softened = "Softened"
  Passing = "Passing"
  Failing = "Failing"
INVARIANTS
  NothingHidden
  EvidenceKept
  JudgeOnlyAfterSuccess
