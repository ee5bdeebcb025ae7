\* Answers as the receiving code expects them.
CONSTANTS
  c1 = c1
  c2 = c2
  p1 = p1
  Calls <- MCCalls
  Peers <- MCPeers
  Dest <- MCDest
  AnswerKinds = {"RESPONSE", "ERROR_DATA", "OTHER"}
  MaxAnswers = 2
SPECIFICATION Spec
INVARIANTS
  TypeOK
  TableMatchesPromises
  NothingSentOnceDraining
  WireMatchesPromises
PROPERTIES
  EveryCallSettles
  ImplementsPromise
