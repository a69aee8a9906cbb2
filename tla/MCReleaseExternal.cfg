SPECIFICATION RelSpec
CONSTANTS
  Selected <- MCSelected
  Runs = 1
  External = TRUE
  HasBaseline = FALSE
  KeepSuccessEvidence = FALSE
INVARIANT
  CleanupReported
