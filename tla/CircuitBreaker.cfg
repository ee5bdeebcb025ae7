CONSTANTS
  n1 = n1
  n2 = n2
  n3 = n3
  Nodes <- MCNodes
  FailureThreshold = 2
  ResetTimeout = 1
  MaxBreakers = 2
  MaxInFlight = 2
SPECIFICATION Spec
INVARIANTS
  TypeOK
  ClosedIffBelow
  NoFalseTrip
  TableBounded
PROPERTIES
  OpenStaysOpen
  OpenIsLeft
