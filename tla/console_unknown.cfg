SPECIFICATION Spec
CONSTANTS
  Drivers = {0, 7}
  PowerOn <- ThePowerOn
  Lossy = FALSE
  TypedLines <- TheTypedLines
  FullTurn = 2
  Fitted = {15}
  NoAnswer = 0
  EncCalls <- NoCalls
  BmsPowerOn <- TheBmsPowerOn
  NvmContents <- TheNvm
  MaxFailed = 0
  WarmRestarts = TRUE
  PackSamples = {258, 259}
  Capacitors = 1
  PowerCalls <- NoCalls
  MaxResets = 0
PROPERTIES
  UnknownIsTold
