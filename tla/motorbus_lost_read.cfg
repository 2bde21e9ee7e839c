SPECIFICATION Spec
CONSTANTS
  Drivers = {0, 7}
  Lines <- ReadLines
  PowerOn <- ThePowerOn
  Lossy = TRUE
  MaxResets = 0
PROPERTIES
  EveryCallReturns
