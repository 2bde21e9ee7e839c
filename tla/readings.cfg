SPECIFICATION Spec
CONSTANTS
  Wrap = 10
  MeasureCycle = 4
  CellFilter = 1
  Cells = 2
  Slack = 1
  SetupTime = 3
  Delay = 1
  Charges <- TheCharges
  MaxCharge = 301
  Hundredth = 4
  MaxSamples = 2
  MaxLost = 1
INVARIANTS
  TypeOK
  ValidIsYoung
  YoungIsValid
  LedgerBalanced
