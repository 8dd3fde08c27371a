CONSTANTS
  Types <- MCTypes
  Programs <- MCPrograms
SPECIFICATION Spec
INVARIANTS
  NeverReadsMoved
  EndsRegularly
  VerifiesWhatItAccepts
  RefusalsAreEarned
CHECK_DEADLOCK FALSE
