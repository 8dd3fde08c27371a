CONSTANTS
  Types <- MCTypes
  Programs <- MCPrograms
SPECIFICATION Spec
INVARIANT NoVerifierDefect
CHECK_DEADLOCK FALSE
