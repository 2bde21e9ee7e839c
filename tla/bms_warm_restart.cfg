SPECIFICATION Spec
CONSTANTS
  AppCalls <- NoCalls
  PowerOn <- ZeroPowerOn
  NvmContents <- UsedNvm
  MaxFailed = 0
  WarmRestarts = TRUE
  MaxResets = 1
INVARIANTS
  SetupWritesWhileStopped
CHECK_DEADLOCK FALSE
