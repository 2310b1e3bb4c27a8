SPECIFICATION Spec
CONSTANTS
  Settings <- WideDeep
  Faults <- NoFaults
INVARIANT
  EveryThesisReported
