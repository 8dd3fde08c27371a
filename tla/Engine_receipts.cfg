CONSTANTS Workloads <- MCWorkloads
          Code <- MCCode
          Identities <- Ids
SPECIFICATION EngineSpec
INVARIANTS CycleStackAgrees ChargeReproduced CyclesRejected
           DependenciesNeeded CeilingsStick RetentionCapped
CHECK_DEADLOCK FALSE
