CONSTANTS Workloads <- LoopBindings
          Code <- LoopCode
          Identities = {}
SPECIFICATION Spec
INVARIANT NoDefect
CHECK_DEADLOCK FALSE
