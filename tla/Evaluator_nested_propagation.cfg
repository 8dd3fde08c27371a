CONSTANTS Workloads <- NestedPropagation
          Code <- NestedCode
          Identities = {}
SPECIFICATION FairSpec
PROPERTY PropagatesEarly
CHECK_DEADLOCK FALSE
