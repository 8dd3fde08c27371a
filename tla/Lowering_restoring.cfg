CONSTANTS
  Types <- MCTypes
  Programs <- MCPrograms
SPECIFICATION Spec
INVARIANT RestoredIsReadable
CHECK_DEADLOCK FALSE
