SPECIFICATION Spec
CONSTANTS
  Methods <- MCMethods
  Intfs <- MCIntfs
  Outputs <- MCOutputs
  Headers <- MCHeaders
  MaxInj = 2
  MaxTap = 1
INVARIANTS TypeOK HashesMatchPackets ThreadsJoined DropMatchesTarget TimedOnce
PROPERTIES ReceiveLoopEnds CompletesUnlessLost
CHECK_DEADLOCK FALSE
