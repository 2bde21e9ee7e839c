SPECIFICATION Spec
CONSTANTS
  FullTurn = 4
  Fitted = {0, 15}
  NoAnswer = 0
  EncCalls <- TheCalls
  MaxResets = 1
INVARIANTS
  TypeOK
  SelectedIsServed
  PositionIsTravel
  OffsetsAccount
