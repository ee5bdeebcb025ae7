\* Requests kept while a node cannot be reached.
CONSTANTS
  c1 = c1
  c2 = c2
  p1 = p1
  p2 = p2
  l1 = l1
  l2 = l2
  Calls <- MCCalls
  Peers <- MCPeers
  Dest <- MCDest
  Lines <- MCLines
  To <- MCTo
  AnswerKinds = {"RESPONSE", "ERROR_DATA"}
  MaxAttempts = 1
  MaxOps = 2
  MaxReloads = 1
SPECIFICATION Spec
INVARIANTS
  TypeOK
  TableMatchesPromises
  SentIsBeingRemoved
PROPERTIES
  ImplementsQueue
  EveryCallSettles
  QueuedIsSent
\* Every line may have given up and every call settled.
CHECK_DEADLOCK FALSE
