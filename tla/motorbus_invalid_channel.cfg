SPECIFICATION Spec
CONSTANTS
  Drivers = {0, 7}
  Lines <- InvalidChannelLines
  PowerOn <- ThePowerOn
  Lossy = FALSE
  MaxResets = 0
PROPERTIES
  ServedChannelOnly
