SPECIFICATION Spec
CONSTANTS
  Drivers = {0, 7}
  Lines <- ValidLines
  PowerOn <- ThePowerOn
  Lossy = FALSE
  MaxResets = 1
INVARIANTS
  TypeOK
  MuxFollowsShadow
  JobEffect
  SetupRestoresBoard
PROPERTIES
  ServedChannelOnly
  ImplementsActuators
  EveryCallReturns
