\* MAX_RECONNECT_ATTEMPTS is 10 in the code.
CONSTANTS
  p1 = p1
  p2 = p2
  l1 = l1
  l2 = l2
  l3 = l3
  i1 = i1
  i2 = i2
  NoSocket = NoSocket
  NoPeer = NoPeer
  Peers <- MCPeers
  Lines <- MCLines
  Inbound <- MCInbound
  Remote <- MCRemote
  MaxAttempts = 2
SPECIFICATION Spec
INVARIANTS
  TypeOK
  OnlyOldIdsDangle
PROPERTIES
  RetryEnds
  DisconnectReturns
