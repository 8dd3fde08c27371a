CONSTANTS Workloads <- MCWorkloads
          Code <- MCCode
          Identities <- Ids
SPECIFICATION EngineSpec
INVARIANT DependenciesNamed
CHECK_DEADLOCK FALSE
