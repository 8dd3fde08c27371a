CONSTANTS
  Texts <- MCTexts
  MAX_NESTING = 2
SPECIFICATION TextSpec
INVARIANT LoweredWhole
CHECK_DEADLOCK FALSE
