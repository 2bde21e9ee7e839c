SPECIFICATION Spec
CONSTANTS
  Numbers <- TheNumbers
INVARIANTS
  NearestCode
  
PROPERTIES
  HigherAskedHigherSet
