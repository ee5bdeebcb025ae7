\* The WebSocket transport, which rewrites senderNodeID.
CONSTANTS
  o = o
  h = h
  w = w
  r1 = r1
  r2 = r2
  NoNode = NoNode
  Nodes <- MCNodes
  Requests <- MCRequests
  Routes <- MCRoutes
  Plugin <- MCNodes
  WorkerOf <- HubWorker
  RewriteSender = TRUE
  DefaultTtl = 5
  MaxPackets = 1
  MaxCrashes = 0
SPECIFICATION Spec
INVARIANT
  WithdrawnNotHandled
