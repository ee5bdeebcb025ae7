\* NetworkPlugin everywhere; senderNodeID is preserved.
CONSTANTS
  o = o
  h = h
  w = w
  r1 = r1
  r2 = r2
  NoNode = NoNode
  Nodes <- MCNodes
  Requests <- MCRequests
  Routes <- MCRoutes
  Plugin <- MCNodes
  WorkerOf <- HubWorker
  RewriteSender = FALSE
  DefaultTtl = 5
  MaxPackets = 1
  MaxCrashes = 1
SPECIFICATION Spec
INVARIANTS
  TypeOK
  ExecutedOnceAtDestination
  RelayedOnce
  NoStorm
  ExecutionAccountedFor
PROPERTY ImplementsPath
SYMMETRY Symmetry
