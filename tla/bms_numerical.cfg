SPECIFICATION Spec
CONSTANTS
  AppCalls <- NoCalls
  PowerOn <- ZeroPowerOn
  NvmContents <- UsedNvm
  MaxFailed = 0
  WarmRestarts = FALSE
  MaxResets = 0
INVARIANTS
  NumericalApplied
CHECK_DEADLOCK FALSE
