\* Direct requests only: nothing is relayed.
CONSTANTS
  o = o
  h = h
  w = w
  r1 = r1
  r2 = r2
  NoNode = NoNode
  Nodes <- MCNodes
  Requests <- MCRequests
  Routes <- Direct
  Plugin <- MCNodes
  WorkerOf <- HubWorker
  RewriteSender = FALSE
  DefaultTtl = 5
  MaxPackets = 1
  MaxCrashes = 0
SPECIFICATION Spec
INVARIANT
  NoUnhandledRejection
