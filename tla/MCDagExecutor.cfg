SPECIFICATION Spec
CONSTANTS
  Nodes <- MCNodes
  Position <- MCPosition
  Inputs <- MCInputs
  Conditions <- MCConditions
  Values <- MCValues
  TruthyValues <- MCTruthyValues
  Nil = Nil
  Absent = Absent
  None = None
  Concurrency = 2
INVARIANTS
  InputsFinal
  DecisionsFinal
  ConcurrencyBound
  RootCause
  NothingLeftBehind
  VerdictJustified
PROPERTIES
  Termination
  EveryNodeSettles
  ImplementsDagRun
