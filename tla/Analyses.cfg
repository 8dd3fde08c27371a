CONSTANTS
  Node <- MCNode
  Fact = {f1, f2}
  First = f1
  Second = f2
  Vertex <- MCNode
  Digraphs <- MCGraphs
  Callable <- MCFunction
  Greatest = 20
  LoweredPrograms <- MCLowered
  GreatestInteger = 1
  BodyNesting = 3
  Revisions <- MCRevisions
  TypeNesting = 3
  CallGraphs <- MCCallGraphs
  DemandPrograms <- MCDemandPrograms
  TypeDepth = 2
  Installations <- MCInstallations
  Constructors <- MCConstructors
  ProgramTests <- MCTests
  Texts <- MCTexts
  MAX_NESTING = 2
SPECIFICATION MCSpec
INVARIANTS
  TypeOK WorklistCovers LayoutExact AcceptanceExact
  ComponentsExact CostsExact
  FactsCover CyclesEnd
  ErrorsInferred PropagationsChecked
  DemandExact
  SelectionStable IdentitiesUnique SealExact SealedIsSound
PROPERTIES SolvesLeast AnalysesEnd
