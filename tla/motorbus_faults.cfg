SPECIFICATION Spec
CONSTANTS
  Drivers = {0, 7}
  Lines <- MixedLines
  PowerOn <- ThePowerOn
  Lossy = TRUE
  MaxResets = 1
INVARIANTS
  NeverBothDirections
  AtMostOneChannel
