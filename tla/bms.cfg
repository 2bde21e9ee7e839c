SPECIFICATION Spec
CONSTANTS
  AppCalls <- MixedCalls
  PowerOn <- ZeroPowerOn
  NvmContents <- UsedNvm
  MaxFailed = 1
  WarmRestarts = TRUE
  MaxResets = 2
INVARIANTS
  TypeOK
  FlagFollowsChip
  WritesWhileStopped
  WithinMax
  SetupReconfigures
PROPERTIES
  IdentityNeverZeroed
  StoredIdentityKept
  ConversionStarts
