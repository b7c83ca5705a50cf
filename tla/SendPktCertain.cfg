SPECIFICATION Spec
CONSTANTS
  Methods <- MCMethods
  Intfs <- MCIntfs
  Outputs <- MCOutputs
  Headers <- MCHeaders
  MaxInj = 2
  MaxTap = 1
INVARIANT DropCertain
CHECK_DEADLOCK FALSE
