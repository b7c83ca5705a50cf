SPECIFICATION Spec
CONSTANTS
  Methods <- MCMethods
  Intfs <- MCIntfs
  Outputs <- MCOutputs
  Headers <- MCHeaders
  MaxInj = 2
  MaxTap = 1
PROPERTY Completes
CHECK_DEADLOCK FALSE
