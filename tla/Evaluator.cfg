CONSTANTS Workloads <- EvaluationWorkloads
          Code <- EvaluationCode
          Identities = {}
SPECIFICATION FairSpec
INVARIANTS AgreesWithReference MemoryConserved CallStackAgrees NoDefect LimitsEnforced
PROPERTY Terminates
