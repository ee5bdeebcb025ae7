# Verification of isomorphic-mesh

TLA+ specifications of the parts of isomorphic-mesh in which the order of events
matters, the TLC runs that check them on small instances, and TLAPS proofs of
their main properties for every value of the constants. Paths such as
`WSTransport.ts:150` are below `src/src/` of the repository (`transports/node/`
unless said otherwise); `PROJECT.json` maps every definition to its lines.

## 1. The system

A node is a `MeshNetwork`: a `TransportManager` over one or more transports, a
pipeline of interceptors, a `NetworkDispatcher` with handlers by topic, a
`NetworkController` for the `$node.*` and `$rpc.*` topics and a
`MeshOrchestrator` for gossip. `NetworkPlugin` joins it to a service broker,
which is not part of the repository. Everything runs on one event loop:
concurrency comes from the callbacks of sockets and timers, and from code that
awaits and goes on with what it read before.

| Component | State | Operations | Interacts by | What is hard |
|---|---|---|---|---|
| Node `WSTransport` | `pendingRPCs` and timers, `peers`, `isDraining`, `reconnectAttempts` | `call`, `send`, `connectToPeer`, `disconnect`, message and close handlers | `packet` events, sockets | timeouts against late answers, backpressure sleeps, draining, reconnection, stale close events |
| `MeshNetwork` with its pipelines | interceptors, handlers | `send`, listener of `packet` | calls interceptors in order (outbound) and in reverse (inbound), then the dispatcher | the order, rejections nobody awaits |
| `RoutingInterceptor`, `WorkerProxyInterceptor` | none; `ttl`, `path`, `finalDestinationID` travel in the packet | `onInbound`, `onOutbound` | relays through `TransportManager.send` | loops, relayed packets that continue locally |
| `NetworkPlugin` | requests the broker executes | handler of `*` | broker, `MeshNetwork.send` | replies to nodes that are gone, replies taken for requests |
| `CircuitBreakerInterceptor` | one breaker per node, bounded table | `onOutbound`, `recordFailure`, `recordSuccess` | driven by `MeshNetwork` | answers out of order, the full table |
| `RateLimitInterceptor` | one window per tenant and sender | `onInbound`, `cleanup`, `stop` | inbound pipeline, interval | window boundaries, cleanup |
| `TCPTransport`, `TCPAuthHandler`, `TCPFrameCodec` | buffers per peer, `peers`, authentication | `processData`, `dispatchFrame`, `send`, `handleAuth`, `connect`, `disconnect` | sockets | frames over chunk boundaries, a counter beside the buffer, closing with clients connected |
| Browser `WSTransport`, `OfflineStorageEngine` | `pendingRPCs` and timers, `peers`, `reconnectAttempts`, a queue in IndexedDB | `send`, `call`, `replayQueuedRPCs` | IndexedDB callbacks | replays that overlap or find no socket, failing transactions, a page that closes |
| `BrowserWebSocketTransport` | socket, attempts, `isManuallyClosed` | `connect`, `disconnect` | timers | an old timer after a new connect |
| `MeshOrchestrator`, `NetworkController`, `DHTDiscovery` | the registry (external) | gossip, `handlePEX`, `handleAnnounce` | `publish`, registry | nodes that come back, overwritten addresses |
| `NetworkModule`, `UnifiedServer`, start and stop | listening sockets, gossip interval, handlers | `start`, `stop` | each other, through two callers of `stop` | partial start, restart, packets under way |

What makes each of them correct: calls settle exactly once, and a transport that
drains sends nothing new; a request runs at its destination only and once, a
relay cannot circulate, an execution is answered; a breaker trips on the
failures of its own node and is left again; a limiter neither lets a sender
exceed a known bound nor cuts it off early; a client cannot make the node hold
more than a frame; a node gets past the handshake of another; a queued request is sent, and
removed only afterwards; a transport that was closed stays closed; a node that
was stopped has let go of everything it started and stays silent. The hazards in `PROJECT.json` say at
which line each of these could go wrong, and which property would show it.

## 2. Modules

| Module | Models | Checked with | Proofs |
|---|---|---|---|
| `RpcPromise` | what the caller of `call()` is promised | | |
| `WSTransportRpc` | `WSTransport`: calls, sends, answers, draining; implements `RpcPromise` | `MCWSTransportRpc` | `WSTransportRpcProofs` |
| `WSTransportPeers` | `WSTransport`: sockets, `peers`, reconnection, closing | `MCWSTransportPeers` | `WSTransportPeersProofs` |
| `RequestPath` | how far each request may come, without packets | | |
| `MeshRpc` | `MeshNetwork`, dispatcher, routing, worker proxy, limiter and `NetworkPlugin`, composed over several nodes; implements `RequestPath` | `MCMeshRpc` | `MeshRpcProofs` |
| `CircuitBreaker` | `CircuitBreakerInterceptor` as `MeshNetwork` drives it | `MCCircuitBreaker` | `CircuitBreakerProofs` |
| `FixedWindow` | what the limiter decides, without its table | | |
| `RateLimit` | `RateLimitInterceptor`; implements `FixedWindow` | `MCRateLimit` | `RateLimitProofs` |
| `AtLeastOnceQueue` | what a queue for unreachable nodes promises | | |
| `OfflineQueue` | browser `WSTransport` with `OfflineStorageEngine`; implements `AtLeastOnceQueue` | `MCOfflineQueue` | `OfflineQueueProofs` |
| `TCPConnection` | `TCPTransport`: inbound connections, framing, handshake | through `MeshNode` | through `MeshNode` |
| `MeshNode` | `MeshNetwork.start` and `stop` with server, transports, gossip and handlers; extends `TCPConnection` | `MCMeshNode` | `MeshNodeProofs` |

**One action is one turn of the event loop.** The code between two points at
which it really waits (a timer, a socket event, the broker) runs without
interruption, and awaiting settled promises only defers it within the turn.
Time is not counted where only the order of a timer and other events matters:
an armed timer fires at any later moment. The breaker and the limiter compare
times, so there a `Tick` ages their entries, and an age stops growing where no
comparison tells it apart any more.

### WSTransportRpc

`promise`, `pending` and `timer` are the promise of `call()`, the keys of
`pendingRPCs` and the armed timeouts. They are kept apart because the code
updates them in different statements. `sendPc` is the progress of a `send()`
that may sleep on a congested socket (`choked`), holding on to a socket
that is closed meanwhile (`stale`). `link` is the entry in `peers` by the
`readyState` of its socket. Calls are made by three actions, one per way that
`call()` and the `send()` inside it can go: `CallRefused`, `CallSent`,
`CallQueued`. The remote node is external: it answers zero to `MaxAnswers` times,
with packets of the kinds in `AnswerKinds`. `LinkDown` loses what was in flight
on the socket; calls on a second socket to the same node (which the transport
no longer has an entry for) go on, so their answers may still arrive.
`FinishDisconnect` may come at any time after `BeginDisconnect`, which covers a
table that empties as well as the 5 s limit; the wait for `server.close()` is not
a state of its own, and a second `disconnect()` during the first is left out.

### WSTransportPeers

A call of `connectToPeer()` starts a *line*: one socket, or the timer for the next
one. The close event of a socket sets the timer and the timer opens the next
socket, so a line is never two of them at once, and a line and its present
socket share a name. `accepted` are the sockets of the server and `peerId` the id that each of
them gave last: every message with a `senderNodeID` may give another one
(`Identify`). Both kinds write `peers`: `Enter` overwrites an entry, `Forget`
deletes it by node id, whichever socket is there. The close event of an inbound
socket forgets its last id only, so that entries under earlier ids stay behind;
`OnlyOldIdsDangle` says that no others do. `disconnect()` is split where it
waits: `BeginDisconnect`, `CloseSockets` after the drain loop, and `Stopped`, the
callback of `server.close()`, which needs every inbound connection to have ended.
`WSTransportRpc` sees of all this one link per remote node, which comes and goes
at any time.

### MeshRpc

Nodes are joined by connections that open and break. `Receive` takes a packet
through the whole inbound pipeline in the order in which it really runs, the
reverse of registration: trace (no state), routing, worker proxy, rate limiter,
dispatcher. Its cases are the branches of `RoutingInterceptor` (`ReceiveOwn`,
`ReceiveExpired`, `Relay`, `RelayFails`), and all but the last, which throws,
continue with `Dispatch`. `executing` holds the requests the broker works on,
`Finish` is the reply. `RewriteSender` tells a transport that puts its own id into
`senderNodeID` (`WSTransport`) from one that does not (`TCPTransport`). The
history variables only remember what happened, for the properties.

`RequestPath` is what all this amounts to for one request: `new`, on its way to the
first hop, on its way to the final node, and then `executed` or `lost`. `StageOf`
reads it off the packets in flight. A packet that is executed under a topic by
which it was withdrawn counts as lost here (`mesh_withdrawn` shows these).

The registry is a constant here (`WorkerOf`), and the circuit breaker is not
in this module: `MeshNetwork.send()` sets no `targetNodeID`, so the breaker is
consulted only if the caller puts one into `meta`, and a WebSocket transport
keeps RESPONSE packets to itself. `CircuitBreaker` covers it, for packets that do
carry a target.

### CircuitBreaker, RateLimit

`breakers` and `rateLimits` are the two maps of the code, as functions whose
domain grows and shrinks. `Store` is a write through `getBreaker`, which drops a
full table on its way. `streak` and `recent` are history: the failures since the
last success of a node, and for each age up to the window length the packets
accepted since then (a running count, which needs no sum). In HALF_OPEN the
breaker lets any number of requests through (`Admit` asks only that it is not
OPEN), as the code does.

### OfflineQueue

The calls, lines and entries are those of the transport modules above, as the browser
has them: no draining and no backpressure, the same throw at an error answer
without data (`Outcome`, for the kinds in `AnswerKinds`), and a request that finds no open
socket goes to the store. A *line* is again one `connectToPeer()` with its
sockets and timers. Unlike in the Node transport the close event of a line may
delete the entry of another line to the same node, which the model keeps.

`store` is the object store, and `ops` the transactions that wait to run on it.
IndexedDB runs them in the order in which they were created, so `ops` is a
sequence. A transaction either commits (`Stored`, `Replay`, `Requeued`,
`Removed`) or fails (`StoreRefused`, `ReplayFails`, `RequeueRefused`,
`RemoveFails`). `Replay` is the loop of `replayQueuedRPCs()` in one turn: it looks
for a socket when the entries have been read, not when the socket opened, and
with none it puts every entry through `send()`, which queues it a second time.
`Batches` leaves the order of one replay open. `Connect` opens the database or
finds none (`db`), and then a request is dropped where it would be queued.
`Disconnect` closes the registered sockets only. `Reload` is the page that goes
away: the store is all that is left, transactions that have not run are lost.

`AtLeastOnceQueue` says what one may expect of it: an entry leaves the store
only when its request was sent to its own node. It is sent at least once, not
exactly once. `wire` and `orphaned` (entries whose replay or removal failed or
was cut off) are history.

### TCPConnection, MeshNode

`TCPConnection` abstracts bytes to cells: a cell for each field of the header
that the code looks at, and at least as many cells in a payload that is not
empty. `held` is `bufferList`, flattened, and `pot` the counter `bufferPotSize`
beside it. `Flat` and `Rest` are the two results of `flattenBufferList()`: what
it returns, filled up with zeros, and what it leaves. `processData()` is split
into its outcomes: `Overrun` and `Oversize` destroy the connection, `Await` and
`Partial` wait for more, `Torn` ends the loop in `decode()`, `DispatchFrame`
hands a frame on and lets the loop go on (`looping`). One chunk is any number of the
cells that are still to come, so a stream is cut in every possible way. Streams may
be any cells at all, and `BufferBounded` and the types are proved for any. Which of
them a node of this repository can send is another matter, and what
`NoNodeAuthenticates` supposes (`ClientsAreNodes`): frames of any type and length, in
any order, with payloads that are empty or text, as `JSON.stringify` and the
serializers write them (`SentByNode`). `encode()` itself takes any bytes, so that
nothing is said about streams that other programs put together. The registry has the
key of every client and a response is good when its text is; the wait for the
verification of the signature is left out. Payloads in `Ignored` are those that
`handleAuth()` answers or passes over: they leave the connection as it is.

`MeshNode` follows `start()` and `stop()` from one await to the next: `startPc` and
`stopPc` name what is waited for, the HTTP server as 0 and the transports as
`1..N`. `ListenFails` is a listen that fails at any of these points and leaves what
was started as it is. A transport whose `connect()` replaced a listener that still
listens has `leaked` it. `stop()` may begin while `start()` waits (`overlapped`),
and has two callers, `NetworkModule.onStop` and `NetworkPlugin.onStop`, which go
through the transports independently. `Closed` is the callback of
`server.close()`: for TCP it comes only when every connection is over, of which
`disconnect()` has destroyed the authenticated ones. `intervals` counts the
intervals that tick and `armed` tells whether `gossipInterval` names one. A packet
spends a turn or more in the inbound interceptors (`inbox`) before it is
dispatched, with or without handlers. Of the registry only the ids it knows are
kept. The limiter that `stop()` also stops is module `RateLimit`.

## 3. Runs

| Run | Bounds | States | Shows |
|---|---|---|---|
| `ws_rpc` | 2 calls, 1 peer, 2 answers per call | 22 359 | table, timers, promises and wire agree; nothing is sent once draining; each call settles, exactly once (refinement of `RpcPromise`) |
| `ws_peers` | 2 nodes, 3 outbound lines, 2 inbound sockets, 2 attempts | 345 310 | an entry of `peers` outlives its socket only under an id that the socket gave before another; attempts end or one succeeds; `disconnect()` returns unless an unregistered inbound socket stays open |
| `mesh` | 3 nodes, 2 requests, 4 kinds of route, window of 1 packet, 1 crash | about 352 000 | requests run at their destination and once; packets are relayed at most once; at most 4 packets per request; executions are answered or end in a reported rejection; lost or executed requests never come back (refinement of `RequestPath`) |
| `breaker` | 3 nodes, table of 2, threshold 2, timeout 1 tick, 2 in flight | 57 835 | state and count agree, no false trip, bounded table, open breakers stay open and are left again |
| `rate_limit` | 2 senders, 2 packets per window of 2 ticks | 2 564 | at most twice the maximum in a window length; drops are earned; a blocked sender is let in again; cleanup is invisible (refinement of `FixedWindow`) |
| `offline` | 2 calls to 2 nodes, 2 lines to one of them, 1 attempt, sockets open while at most 2 transactions wait, 1 reload | 189 603 | table and promises agree; an entry leaves the store only after it was sent (refinement of `AtLeastOnceQueue`) and is removed once it was; each call settles; what is queued is sent when connections stay up |
| `node` | HTTP, TCP and one other transport, 2 callers of `stop`, 2 starts, 1 TCP client with 2 streams of up to 9 cells, limit of 3 + 3 cells | 159 436 | `stop()` returns unless a client stays, leaves nothing running and nobody talking; buffers stay within the limit; no client that is a node of this repository authenticates |
| `ws_rpc_typed` | as `ws_rpc`, 1 answer | | violated: section 4 |
| `ws_peers_closed` | as `ws_peers` | | violated: section 4 |
| `mesh_boundary`, `mesh_withdrawn`, `mesh_proxy` | as `mesh`, no crash | | violated: section 4 |

Why the bounds are enough: the calls of one transport interact only through
the socket and the draining flag, so two of them on one socket show every
interaction of a pair, and two answers are what it takes to have one that is late
or duplicated. A relay takes three nodes; two requests exhaust a window of one
packet. Three sockets of one node are what it takes to overwrite an entry and have it
deleted by a third; the other node shares the budget of attempts and gives an
inbound socket a second id. A table of two with three nodes is full while two breakers compete, and
two failures in flight at a threshold of two make one that is late. Windows of
two ticks have an inside and two boundaries. Counters that no test tells apart
beyond a limit stop there (`failures` at the threshold, `count` one above the
maximum, ages one above the timeout). In `offline` two lines to one node are what
it takes for replays to overlap and for a close event to delete another line's
entry, and the second call is an entry that a replay has to pass over; one
reload cuts off what waits. In `node` the second start meets what the first has
left, in each of the ways in which it can end; the streams hold a good handshake
with a frame behind it, and one with a ping before it, and exceed the limit of the
buffer. `MaxAnswers`, `MaxInFlight`, `MaxCrashes`, `MaxOps`, `MaxReloads`,
`MaxStarts` and the sets `Requests`, `Calls`, `Lines`, `Conns` and `Streams` are the
only bounds that the code does not have.

`offline` switches deadlock checking off: when every line has given up and every
call has settled the transport really does nothing more. All other runs check it. `mesh` uses the symmetry of its two
requests, which no property of it distinguishes; it checks no liveness, and the
refinement it checks is a safety property.

**Fairness.** In `WSTransportRpc` only the RPC timers are fair: `setTimeout`
needs nothing but a running event loop. Nothing is assumed of the network, the
remote node or the callers. In `WSTransportPeers`
timers fire, an attempt to connect succeeds or fails, a socket that is being closed
ends and the server calls back; open sockets need not close. In `CircuitBreaker` the clock is fair, a request in
flight is some time answered or given up, and somebody keeps sending to a node
whose breaker could probe: without traffic no breaker is looked at. In
`RateLimit` the clock and, while it is set, the cleanup interval are fair.
In `OfflineQueue` timers fire, transactions run, and a socket that is
opening or closing gets there; `QueuedIsSent` itself supposes that connections
stay up from some time on. In `MeshNode` the callbacks of listening and closing
are called; `StopReturns` itself supposes that a client does not stay connected
for ever. `MeshRpc` has no fairness, and no liveness property.

Every property has a mutant, a definition of the code changed the way a bug would
change it (`..._KeepsTimer`, `..._OffByOne`), under which the property fails.
Mutants stand beside what they replace and nothing else uses them.

## 4. Where code and documentation disagree

- `ws_rpc_typed`: an error answer as `RPCErrorResponse` declares it has no
  `data`; `WSTransport.ts:150` reads `data.message` after timer and entry are gone,
  and the call never settles. The browser transport does the same at
  `transports/browser/WSTransport.ts:158`: run `offline` supposes that such answers do not
  come (`AnswerKinds` of `OfflineQueue.cfg`), and `EveryCallSettles` is violated as soon
  as ERROR_TYPED is added to them.
- `interceptors/RoutingInterceptor.ts:6` and `:50` speak of multi-hop routing, by way
  of the next closest node. The code hands a packet to its destination or to nobody
  (line 52): one hop more than the first, and a rejection when the relay has no
  connection to the destination. `RelayedOnce` and `ImplementsPath` of run `mesh`
  state what the code does; with routing as the comments have it they would fail.
- `ws_peers_closed`: the close handler of an outbound socket always sets a
  reconnection timer, which neither `disconnect()` clears nor anything in it checks
  (`WSTransport.ts:303`); "Gracefully close the connection"
  (`transports/BaseTransport.ts:25`).
- `WSTransport.ts:309`: one counter of attempts for all nodes, reported as that of a
  node.
- `mesh_boundary`: the error boundary of `NetworkPlugin` sends inside its catch
  block; when the requester has disconnected, that send throws as well and the
  rejection is nobody's (`NetworkPlugin.ts:45`, `core/MeshNetwork.ts:83`).
- `mesh_withdrawn`: packets renamed to `__dropped` or `__forwarded` reach the `*`
  handler and are given to the broker (`core/NetworkDispatcher.ts:64`).
- `mesh_proxy`: the reversed inbound pipeline routes before it proxies, so a
  proxied packet is not relayed (`core/MeshNetwork.ts:94`).
- `interceptors/RateLimitInterceptor.ts:9` speaks of a sliding window; the windows
  are fixed, and the bound that holds is twice the maximum (`AtMostTwice`).
- `TCPTransport.ts:206` looks at a header by taking it out of the buffer, where the
  comment at line 212 believes to have a full frame; a node of this repository never
  gets past the handshake (`NoNodeAuthenticates` of run `node`, which holds and is
  proved).
- `core/NetworkDispatcher.ts:74`: `stop()` clears handlers that only constructors
  register, so that a node started again handles nothing.
- `core/MeshNetwork.ts:52` gives one port to two servers; the quick start
  (`README.md:29` of the repository) and the defaults of `NetworkModule` fail to start.
- `discovery/DHTDiscovery.ts:36` publishes `$node.info`, which nobody handles, and
  nobody publishes `$node.announce`, which is handled.
- `utils/OfflineStorageEngine.ts:44`: without a database a request that is to be
  queued is dropped, and `send()` reports success.

## 5. Proofs

All proofs hold for any values of the constants that satisfy the named ASSUME of
the module, for any number of calls, nodes and answers.

`WSTransportRpcProofs`. `TypeCorrect` is inductive as it stands.
`TableMatchesPromises` is inductive together with the types, under the hypothesis
that no answer is of kind ERROR_TYPED: with it the statement is false, which is
the finding of `ws_rpc_typed`. `NothingSentOnceDraining` is not inductive: a send
that sleeps when draining begins is allowed to go out, so one has to know that
its call was made before. `WireMatchesPromises` says so: whatever sleeps, travels
or was served belongs to a call that was accepted (`InFlightAccepted`), and calls
made later were all refused (`LateRefused`). It also carries that an answer
belongs to a request that was served (`AnswersServed`), which `PromiseKept` needs
to map `Receive` to `Resolve`. `PromiseKept` maps every action to a step of
`RpcPromise` or to a stutter.

`CircuitBreakerProofs`. The lemmas say what a lookup keeps of the table
(`StoreEntries`) and that writing a consistent entry keeps the invariant
(`StoreKeepsInv`). `ClosedIffBelow` and `NoFalseTrip` are proved together, one
step per action. `TableBounded` needs that the table is finite, and uses the
library's facts on cardinality. `OpenStaysOpen` is an action property that
follows from the types and a case for each action: with the breaker of another
node, `Store` keeps the entry or drops a full table.

`WSTransportPeersProofs`. `OnlyOldIdsDangle` is inductive with the types and needs no
assumption about the ids that inbound sockets give. What it says of an inbound
socket depends on `peerId`: a close event deletes the entry under the last id, and
what the socket leaves under others is excepted. That an accepted socket takes a
name no entry holds (`Accept`) keeps the exception from being forgotten. Two
lemmas separate the steps that only delete entries (`EntriesKept`) from those that
write one (`EntryWritten`).

`MeshRpcProofs`. Lemmas give the fields of the packets that `send()`, the relay and
the plugin build. `RelayedOnce` is inductive because a packet with a path is on the
connection to its destination, where it is no longer `Elsewhere`.
`ExecutionAccountedFor` follows from `DispatchAccounts`: handing a request to the
broker and recording the requester is one step.

`ExecutedOnceAtDestination` and `NoStorm` need to know all packets in flight for a
request. `Flight` says that there is at most one request packet, on its way to the
first hop or, with a path, to the final node, and only for a request that was sent;
that all others are replies, which nobody relays. `Trace` adds
where the request may have run and been relayed meanwhile, so that once its packet
is gone nothing brings it back. `Wired` takes the number on the wire apart into four
bits, exactly: sent, relayed, answered by the final node, answered by the node that
relayed it; `NoStorm` is then their sum. An exact count is needed because a step
that puts a packet on the wire must be shown to turn one of the bits. `Effect` and
the lemma `DispatchEffect` say once what the dispatcher does to a packet, and
`Consumes`, `Relays`, `Takes` and `OtherFlights` what it means for the request it
belongs to and for the others; the ways to receive a packet are instances.
`PathFollowed` maps every step to one of `RequestPath` under the same invariant: a
request packet in flight is the only one of its request and tells its stage
(`StageInFlight`), and a step that adds no request packet loses those whose packet is
gone (`Drops`), which covers replies, broken connections and crashes alike.

`RateLimitProofs`. `Mapped` says what the table means for one sender in the terms of
`FixedWindow`, `SenderKept` and `OthersKept` that this depends on the sender's own
entry alone; `WindowsKept` then maps every action to a step or a stutter. `Cleanup`
stutters since a passed window and a missing one mean the same.
`LimitKept` and `DropsCorrect` compare what a sender was granted with its window at
every age (`HistoryInv`): since the window began exactly its count was accepted,
before it at most one full window that can still matter, and a window that was
deleted leaves at most the maximum behind. The statement about the window length
alone is not inductive: a `Tick` turns the count at one age into that at the next.

`OfflineQueueProofs`. Types and `TableMatchesPromises` are inductive as they stand, the
latter under the hypothesis that no answer is of kind ERROR_TYPED, as above; the
other theorems hold for all kinds.
`SentIsBeingRemoved` is not: that an entry which was sent waits for its removal
survives the queueing of further transactions only if the entries that wait to be
removed were sent, that what waits to be stored belongs to a call that was not
sent, and that nothing waits to be stored twice. `QueueInv` says so of the
sequence `ops`; lemmas on sequences of transactions (`Popped`, `PoppedBatch`,
`Pushed`) separate running the first one from adding others, so that each action
is a few lines. `NothingLost` then maps `Removed` to a `Release` of an entry that
was sent, `Replay` to a `Forward`, and the rest to a step or a stutter.

`MeshNodeProofs`. `BufferBounded` is inductive with the types of the buffers: each
outcome of `processData()` takes at least as much from the list as from the
counter (`ProcessDataInOrder`). `StopReleases` speaks of the moment when all calls
have returned; `ReleaseInv` says what holds on the way there, one conjunct for
what the `stop()` of each caller has already released (`Released`), one for what
`start()` has not yet started (`StartProgress`), and one for the single interval.
It is inductive because without overlap starts and stops take turns: while
`start()` waits nobody has called `stop()`, and while a `stop()` runs nothing is
started. `QuietAfterStop` follows from the same invariant: there is neither an
interval nor a handler left to publish or to learn.
`NoNodeAuthenticates` is proved under the hypothesis `ClientsAreNodes` (`Handshakes`): it
is not true of arbitrary streams. In whatever is held
or still to come, a cell that reads as a type is preceded by an empty length or by
the text of a payload, unless it is the first (`Sound`); to cut something off at the
front or to regroup it keeps this (`RestIsSound`, `Regrouped`). What `decode()` takes
for a header is therefore a payload, a zero that filled up the list, or the first
type of a stream behind a length that announced more than the limit, and none of
them begins an AUTH frame with a payload (`NoAuthPayload`).

Only model-checked: the liveness properties (`EveryCallSettles`, `RetryEnds`,
`DisconnectReturns`, `OpenIsLeft`, `BlockedIsLetIn`, `QueuedIsSent`,
`StopReturns`) and the liveness half of the refinement of `RpcPromise`, since TLAPS
does not prove liveness under fairness. Every invariant and every action property
that a run checks is proved.

## 6. Plan

Done, most important first: the calls of `WSTransport`, its sockets, the request path
across the mesh, the breaker, the limiter, the browser transport with its queue, and
the life of a node with its TCP connections and gossip; the proofs above.

Next proofs: the replies of `MeshRpc`, as a continuation of `RequestPath`; of
`WSTransportPeers` what is left over when `disconnect()` has returned.

Modules that would follow a change of the code: authentication in `TCPConnection` with
frames that arrive during the verification, `drain` and heartbeats, once nodes can
authenticate.

## 7. Not modelled

What a `TCPTransport` does with authenticated peers (`send()` and its wait for
`drain`, `publish()`, heartbeats) is not modelled: no node of this repository becomes
one, as long as the framing is what it is, and clients that are other programs are
not considered there. That a transport refuses every call after `disconnect()` and
`connect()` (`isDraining` is never reset), and that a success sent before a breaker
tripped closes it, is in the models as it is in the code; no property objects.
Its outbound `connectToPeer()` enters nothing in `peers`. `BrowserWebSocketTransport`
is exported for applications and used by no other part of the repository; its one
hazard is listed. The registry decides what a gossiped entry holds, and
`DHTDiscovery` is constructed by nothing.

Serializers, the packet schema, `Crypto` and `Env` are pure conversions. HTTP, IPC,
NATS, WebRTC, worker and mock transports are thin wrappers or stubs. Trace, log and
compression interceptors keep no state. The broker, the service registry, sockets
and IndexedDB are outside the repository: where a module needs them they are
actions without assumptions, marked external in the map.
