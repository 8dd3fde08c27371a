CONSTANTS
  Types <- MCTypes
  Programs <- MCPrograms
SPECIFICATION Spec
INVARIANT SourceIsUnreadable
CHECK_DEADLOCK FALSE
