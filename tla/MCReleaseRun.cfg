SPECIFICATION RelSpec
CONSTANTS
  Selected <- MCSelected
  Runs = 2
  External = FALSE
  HasBaseline = TRUE
  KeepSuccessEvidence = FALSE
INVARIANTS
  ClassificationJustified
  QualifiedMeansClean
  SummaryHonest
  DiskMatchesOutcome
  FreshServer
PROPERTY
  RunEnds
