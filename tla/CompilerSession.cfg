CONSTANTS
  Call <- MCCall
  Workloads <- MCWorkloads
  Distribution <- MCDistribution
SPECIFICATION FairSpec
INVARIANTS TypeOK OutcomeCanonical ClosureExact SyntaxWhole PoisonedRefuses OutcomeExplained
PROPERTY Terminates
CHECK_DEADLOCK FALSE
