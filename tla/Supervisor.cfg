SPECIFICATION Spec
CONSTANTS
  MaxAddr = 7
  Configs <- MCConfigs
INVARIANTS TypeOK CoarsestEcs OwnedEcsAreAddresses EveryCombinationForked
INVARIANTS JobsBounded NothingLeftToKill NoneKilledByAnother ViolationNoticed FailureHalts
PROPERTIES EndsUnlessRaced
CHECK_DEADLOCK FALSE
