SPECIFICATION Spec
CONSTANTS
  MaxAddr = 7
  Configs <- MCCorrelatedConfigs
INVARIANT CorrelatedHaveConns
CHECK_DEADLOCK FALSE
