\* Two starts of a node, each stopped by up to two callers.
CONSTANTS
  c1 = c1
  self = self
  n1 = n1
  module = module
  plugin = plugin
  Conns = {c1}
  Streams <- MCStreams
  Response <- MCResponse
  Ignored <- MCIgnored
  MaxFrame = 3
  Slack = 3
  N = 2
  Tcp = 1
  Stoppers = {module, plugin}
  Self = self
  Nodes = {self, n1}
  Inbound <- MCInbound
  MaxStarts = 2
SPECIFICATION Spec
INVARIANTS
  TypeOK
  StopReleases
  BufferBounded
  NoNodeAuthenticates
PROPERTIES
  QuietAfterStop
  StopReturns
