------------------------------ MODULE MeshNode ------------------------------
(***************************************************************************)
(* The life of one mesh node: MeshNetwork.start() and stop()               *)
(* (src/src/core/MeshNetwork.ts) with what they start and stop: the HTTP   *)
(* server (UnifiedServer.ts), the transports in their order                *)
(* (TransportManager.ts), the gossip timer (MeshOrchestrator.ts) and the   *)
(* handlers of the dispatcher (NetworkDispatcher.ts, NetworkController.ts).*)
(* One of the transports is the TCP transport of module TCPConnection; the *)
(* other ones listen, stop listening and deliver packets.                  *)
(*                                                                         *)
(* stop() has two callers, NetworkModule.onStop and NetworkPlugin.onStop,  *)
(* which do not wait for each other.  The application calls start() when   *)
(* no start() or stop() of its own is in progress and, from the second     *)
(* time on, when it has called stop() since; it may call stop() while      *)
(* start() waits.                                                          *)
(***************************************************************************)
EXTENDS TCPConnection

CONSTANTS N,          \* number of transports, connected in the order 1..N
          Tcp,        \* which of them is the TCP transport
          Stoppers,   \* the callers of stop()
          Self,       \* this node
          Nodes,      \* node ids that appear in packets
          Inbound,    \* control packets other nodes send
          MaxStarts   \* bound: calls of start()

ASSUME NodeAssumption == /\ N \in Nat \ {0}
                         /\ Tcp \in 1..N
                         /\ IsFiniteSet(Stoppers)
                         /\ MaxStarts \in Nat

\* announce  $node.announce: the sender presents itself
\* ping      $node.ping
\* pex       $node.pex: the sender's peers
PacketSet == [kind : {"announce", "ping"}, from : Nodes]
             \cup [kind : {"pex"}, list : SUBSET Nodes]

NoPacket == [kind |-> "none"]

ASSUME InboundAssumption == Inbound \subseteq PacketSet

Http == 0
Idle == N + 1

VARIABLES
    startPc,    \* what start() waits for: Http, a transport, or Idle
    stopPc,     \* what each stop() waits for: a transport, Http, or Idle
    bound,      \* the HTTP server and the transports that listen
    listening,  \* UnifiedServer.listening
    leaked,     \* listeners the transport holds no reference to any more
    intervals,  \* gossip intervals that tick
    armed,      \* gossipInterval names one of them
    handlers,   \* the dispatcher has its handlers
    known,      \* nodes in the registry, available
    inbox,      \* a packet on its way through the inbound interceptors
    published,  \* packets published, modulo 2
    starts,     \* calls of start()
    stopped,    \* callers that have called stop() since the last start()
    overlapped  \* history: a stop() began while start() was waiting

lifeVars == <<startPc, stopPc, starts, stopped, overlapped>>
serverVars == <<bound, listening, leaked>>
gossipVars == <<intervals, armed>>
meshVars == <<handlers, known, inbox, published>>
vars == <<startPc, stopPc, starts, stopped, overlapped, bound, listening, leaked,
          intervals, armed, handlers, known, inbox, published,
          conn, left, held, pot, looping, peers>>

Init == /\ TcpInit
        /\ startPc = Idle
        /\ stopPc = [s \in Stoppers |-> Idle]
        /\ bound = {}
        /\ listening = FALSE
        /\ leaked = {}
        /\ intervals = 0
        /\ armed = FALSE
        /\ handlers = TRUE
        /\ known = {}
        /\ inbox = NoPacket
        /\ published = 0
        /\ starts = 0
        /\ stopped = {}
        /\ overlapped = FALSE

-----------------------------------------------------------------------------
(* start() *)

AllReturned == startPc = Idle /\ \A s \in Stoppers : stopPc[s] = Idle

Start == /\ AllReturned
         /\ starts = 0 \/ stopped # {}
         /\ starts < MaxStarts
         /\ starts' = starts + 1
         /\ stopped' = {}
         /\ startPc' = Http
         /\ UNCHANGED <<stopPc, overlapped, serverVars, gossipVars, meshVars,
                        tcpVars>>

\* UnifiedServer.listen() is done, at once if the server listens already.
HttpListens == /\ startPc = Http
               /\ bound' = IF listening THEN bound ELSE bound \cup {Http}
               /\ listening' = TRUE
               /\ startPc' = 1
               /\ UNCHANGED <<stopPc, starts, stopped, overlapped, leaked,
                              gossipVars, meshVars, tcpVars>>

\* connect() of transport k is done; after the last one the orchestrator sets
\* its interval, whatever stop() has done meanwhile.
TransportConnects(k) ==
    /\ startPc = k
    /\ k \notin bound
    /\ bound' = bound \cup {k}
    /\ startPc' = k + 1
    /\ IF k = N THEN intervals' = intervals + 1 /\ armed' = TRUE
                ELSE UNCHANGED gossipVars
    /\ UNCHANGED <<stopPc, starts, stopped, overlapped, listening, leaked,
                   meshVars, tcpVars>>

\* The port is taken, by another process or by the transport's own earlier
\* listener, which connect() has replaced by then: start() rejects and leaves
\* what it has started as it is.
ListenFails == /\ startPc \in 0..N
               /\ startPc = Http => ~listening
               /\ leaked' = leaked \cup (({startPc} \cap bound) \ {Http})
               /\ startPc' = Idle
               /\ UNCHANGED <<stopPc, starts, stopped, overlapped, bound,
                              listening, gossipVars, meshVars, tcpVars>>

-----------------------------------------------------------------------------
(* stop() *)

\* disconnect() of the TCP transport stops listening at once, that of another
\* transport when it is done.
AtOnce(k) == {k} \cap {Tcp}
WhenDone(k) == {k} \ {Tcp}

\* A transport closes its listener unless it has lost the reference to it.
StopListening(ks) == bound' = bound \ (ks \ leaked)

\* disconnect() of transport k begins.
Disconnect(k) == IF k = Tcp THEN DestroyPeers ELSE UNCHANGED tcpVars

\* Mutant: stop() leaves the gossip interval alone.
StopGossip_Keeps == UNCHANGED gossipVars

\* MeshOrchestrator.stop().
StopGossip == /\ intervals' = IF armed THEN intervals - 1 ELSE intervals
              /\ armed' = FALSE

Stop(s) == /\ stopPc[s] = Idle
           /\ s \notin stopped
           /\ stopped' = stopped \cup {s}
           /\ overlapped' = (overlapped \/ startPc # Idle)
           /\ StopGossip
           /\ stopPc' = [stopPc EXCEPT ![s] = 1]
           /\ StopListening(AtOnce(1))
           /\ Disconnect(1)
           /\ UNCHANGED <<startPc, starts, listening, leaked, meshVars>>

\* Mutant: the TCP transport waits for the client to end its stream.
Closed_Never(k) == k = Tcp => \A c \in Conns : conn[c] = "none"

\* disconnect() of transport k is done: a server is closed once all of its
\* connections are, the ones that never authenticated too.
Closed(k) == k = Tcp /\ k \notin leaked => \A c \in Conns : conn[c] # "open"

\* One transport after the other.
NextTransport(s) == LET k == stopPc[s] IN
    /\ k \in 1..(N - 1)
    /\ Closed(k)
    /\ stopPc' = [stopPc EXCEPT ![s] = k + 1]
    /\ StopListening(WhenDone(k) \cup AtOnce(k + 1))
    /\ Disconnect(k + 1)
    /\ UNCHANGED <<startPc, starts, stopped, overlapped, listening, leaked,
                   gossipVars, meshVars>>

\* Mutant: the handlers survive.
StopDispatcher_Keeps == UNCHANGED handlers

\* NetworkDispatcher.stop().
StopDispatcher == handlers' = FALSE

\* After the last transport: the rate limiter, the dispatcher, and the HTTP
\* server if it listens.
LastTransport(s) ==
    /\ stopPc[s] = N
    /\ Closed(N)
    /\ StopDispatcher
    /\ StopListening(WhenDone(N) \cup (IF listening THEN {Http} ELSE {}))
    /\ stopPc' = [stopPc EXCEPT ![s] = IF listening THEN Http ELSE Idle]
    /\ UNCHANGED <<startPc, starts, stopped, overlapped, listening, leaked,
                   gossipVars, known, inbox, published, tcpVars>>

\* The HTTP server is closed.
HttpClosed(s) == /\ stopPc[s] = Http
                 /\ listening' = FALSE
                 /\ stopPc' = [stopPc EXCEPT ![s] = Idle]
                 /\ UNCHANGED <<startPc, starts, stopped, overlapped, bound, leaked,
                                gossipVars, meshVars, tcpVars>>

-----------------------------------------------------------------------------
(* Gossip and control packets *)

\* A packet goes out to whatever is connected.
Publish == published' = 1 - published

\* gossipRound() of an interval: nothing to say when nobody is known.
GossipRound == /\ intervals > 0
               /\ known # {}
               /\ Publish
               /\ UNCHANGED <<lifeVars, serverVars, gossipVars, handlers, known,
                              inbox, tcpVars>>

\* A transport emits 'packet'.
Arrive(m) == /\ starts > 0
             /\ inbox = NoPacket
             /\ inbox' = m
             /\ UNCHANGED <<lifeVars, serverVars, gossipVars, handlers, known,
                            published, tcpVars>>

\* Mutant: this node learns about itself from its peers' lists.
Names_Self(m) == CASE m.kind = "announce" -> {m.from} \ {Self}
                   [] m.kind = "pex" -> m.list
                   [] m.kind = "ping" -> {}

\* The nodes a packet makes the registry know: handleAnnounce, handlePEX.
Names(m) == (CASE m.kind = "announce" -> {m.from}
               [] m.kind = "pex" -> m.list
               [] m.kind = "ping" -> {}) \ {Self}

\* The packet has passed the interceptors and is dispatched.
Dispatch == /\ inbox # NoPacket
            /\ inbox' = NoPacket
            /\ known' = IF handlers THEN known \cup Names(inbox) ELSE known
            /\ IF handlers /\ inbox.kind = "ping" /\ inbox.from # Self
               THEN Publish ELSE UNCHANGED published
            /\ UNCHANGED <<lifeVars, serverVars, gossipVars, handlers, tcpVars>>

\* The registry drops a node.
Forget(n) == /\ n \in known
             /\ known' = known \ {n}
             /\ UNCHANGED <<lifeVars, serverVars, gossipVars, handlers, inbox,
                            published, tcpVars>>

-----------------------------------------------------------------------------
\* A TCP client connects.
Connects(c) == /\ Tcp \in bound
               /\ Accept(c)
               /\ UNCHANGED <<lifeVars, serverVars, gossipVars, meshVars>>

StartStep == HttpListens \/ (\E k \in 1..N : TransportConnects(k)) \/ ListenFails

StopStep(s) == NextTransport(s) \/ LastTransport(s) \/ HttpClosed(s)

MeshStep == \/ GossipRound
            \/ \E m \in Inbound : Arrive(m)
            \/ Dispatch
            \/ \E n \in known : Forget(n)

Next == \/ Start
        \/ StartStep
        \/ \E s \in Stoppers : Stop(s) \/ StopStep(s)
        \/ MeshStep
        \/ \E c \in Conns : Connects(c)
        \/ TcpStep /\ UNCHANGED <<lifeVars, serverVars, gossipVars, meshVars>>

\* Listening and closing come to an end: the callbacks are called.  Nothing
\* is assumed of the clients, of other nodes or of the application.
Fairness == /\ WF_vars(StartStep)
            /\ \A s \in Stoppers : WF_vars(StopStep(s))

Safe == Init /\ [][Next]_vars

Spec == Safe /\ Fairness

-----------------------------------------------------------------------------
(* Properties *)

\* The variables take the values the code gives them.
TypeOK == /\ TcpTypeOK
          /\ startPc \in 0..Idle
          /\ stopPc \in [Stoppers -> 0..Idle]
          /\ bound \subseteq 0..N
          /\ listening \in BOOLEAN
          /\ leaked \subseteq 1..N
          /\ intervals \in 0..MaxStarts
          /\ armed \in BOOLEAN
          /\ armed => intervals > 0
          /\ handlers \in BOOLEAN
          /\ known \subseteq Nodes \ {Self}
          /\ inbox \in PacketSet \cup {NoPacket}
          /\ published \in 0..1
          /\ starts \in 0..MaxStarts
          /\ stopped \subseteq Stoppers
          /\ overlapped \in BOOLEAN

\* stop() was called after the last start() and every call has returned, none
\* of them made while start() was waiting.
Down == AllReturned /\ stopped # {} /\ ~overlapped

\* A stop() that returned leaves nothing running: no listener and no gossip
\* interval, whatever start() had managed to start before it failed and
\* however the two callers of stop() interleave (MeshNetwork.ts:116-134,
\* TransportManager.ts:36-57, UnifiedServer.ts:30-52).
StopReleases == Down => /\ bound = {}
                        /\ ~listening
                        /\ intervals = 0

\* A stopped node says nothing and learns nothing, also from a packet that
\* was on its way when it stopped (MeshOrchestrator.ts:33-35 and 51-77,
\* NetworkDispatcher.ts:73-76).
QuietAfterStop == [][Down => published' = published /\ known' \subseteq known]_vars

\* stop() returns, unless a client keeps a connection open for ever
\* (TCPTransport.ts:77-88): disconnect() does not close the connections that
\* never authenticated.
StopReturns == (\A c \in Conns : []<>(conn[c] # "open")) =>
                   \A s \in Stoppers : stopPc[s] # Idle ~> stopPc[s] = Idle

=============================================================================
