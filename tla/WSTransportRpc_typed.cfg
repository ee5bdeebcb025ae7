\* Error answers shaped as RPCErrorResponse declares them.
CONSTANTS
  c1 = c1
  c2 = c2
  p1 = p1
  Calls <- MCCalls
  Peers <- MCPeers
  Dest <- MCDest
  AnswerKinds = {"RESPONSE", "ERROR_TYPED"}
  MaxAnswers = 1
SPECIFICATION Spec
PROPERTY
  EveryCallSettles
