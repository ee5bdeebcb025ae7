CONSTANTS
  k1 = k1
  k2 = k2
  Keys <- MCKeys
  MaxPackets = 2
  Window = 2
SPECIFICATION Spec
INVARIANTS
  TypeOK
  AtMostTwice
  DropsAreEarned
PROPERTIES
  BlockedIsLetIn
  ImplementsFixedWindow
