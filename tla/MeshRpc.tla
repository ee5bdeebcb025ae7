------------------------------ MODULE MeshRpc ------------------------------
(***************************************************************************)
(* Requests across a mesh of nodes: MeshNetwork.send() with its outbound   *)
(* pipeline, the inbound pipeline of the node that a packet reaches        *)
(* (trace, routing, worker proxy, rate limit, dispatcher), the relaying of *)
(* packets for other nodes and the handler by which NetworkPlugin executes *)
(* requests and replies to them.                                           *)
(*                                                                         *)
(* Nodes are joined by connections of a stream transport, on which send()  *)
(* throws when there is no connection.  The inbound pipeline of a packet   *)
(* only awaits settled promises up to the broker's work, so that one       *)
(* action takes a packet from the transport to its handler.                *)
(***************************************************************************)
EXTENDS Naturals, Sequences, FiniteSets, FiniteSetsExt

CONSTANTS
    Nodes,
    NoNode,
    Requests,       \* bound: requests that are sent
    Routes,         \* how applications address requests: see RouteSet
    Plugin,         \* nodes on which NetworkPlugin is registered
    WorkerOf,       \* WorkerOf[n]: a worker in the registry of n whose parent
                    \* is n and which offers the action, or NoNode
    RewriteSender,  \* the transport puts its own node id into senderNodeID
                    \* (WSTransport), or leaves the packet's (TCPTransport)
    DefaultTtl,     \* ttl of a packet that is given none
    MaxPackets,     \* MAX_PACKETS_PER_WINDOW
    MaxCrashes      \* bound: processes that end, each at most once

\* origin calls send(to, ...) with meta.finalDestinationID and meta.ttl; a
\* missing field is NoNode or 0.
RouteSet == [origin : Nodes, to : Nodes, final : Nodes \cup {NoNode}, ttl : Nat]

ASSUME MeshAssumption ==
    /\ NoNode \notin Nodes
    /\ Routes \subseteq RouteSet
    /\ \A e \in Routes : e.origin # e.to
    /\ Plugin \subseteq Nodes
    /\ WorkerOf \in [Nodes -> Nodes \cup {NoNode}]
    /\ RewriteSender \in BOOLEAN
    /\ DefaultTtl \in Nat \ {0}
    /\ MaxPackets \in Nat \ {0}
    /\ MaxCrashes \in Nat

VARIABLES
    links,      \* connections that are open, as sets of two nodes
    alive,      \* node processes that run
    net,        \* packets in flight
    count,      \* count[n][s]: packets from s in the current window of n
    executing,  \* requests NetworkPlugin has handed to the broker
    route,      \* history: the route of each request that was sent
    runs,       \* history: executions of each request under its own topic
    misfired,   \* history: dropped or relayed packets handed to a handler
    wire,       \* history: packets put on the wire for each request
    replied,    \* history: <<r, n>>, n has replied to r
    relayed,    \* history: <<r, n>>, n has relayed r
    proxied,    \* history: <<r, n>>, n has marked r for one of its workers
    unhandled,  \* history: <<r, n>>, r ended in an unhandled rejection on n
    crashed     \* history: nodes whose process has ended at some time

history == <<route, runs, misfired, wire, replied, relayed, proxied, unhandled,
             crashed>>
vars == <<links, alive, net, count, executing, history>>

Work == "work"
Reply == "$rpc.response"
Dropped == "__dropped"
Forwarded == "__forwarded"

NoRoute == [origin |-> NoNode, to |-> NoNode, final |-> NoNode, ttl |-> 0]

\* Packets are requests of type REQUEST with topic Work and the replies of
\* NetworkPlugin, of type EVENT; id names the request in both.  from and to
\* are the ends of the connection the packet travels on.
PacketSet == [id : Requests, topic : {Work, Reply}, sender : Nodes, from : Nodes,
              to : Nodes, final : Nodes \cup {NoNode}, ttl : Nat, path : Seq(Nodes)]

Init == /\ links = {}
        /\ alive = Nodes
        /\ net = {}
        /\ count = [n \in Nodes |-> [s \in Nodes |-> 0]]
        /\ executing = {}
        /\ route = [r \in Requests |-> NoRoute]
        /\ runs = [r \in Requests |-> [n \in Nodes |-> 0]]
        /\ misfired = {}
        /\ wire = [r \in Requests |-> 0]
        /\ replied = {}
        /\ relayed = {}
        /\ proxied = {}
        /\ unhandled = {}
        /\ crashed = {}

-----------------------------------------------------------------------------
(* Sending *)

Connected(n, m) == {n, m} \in links

\* What the transport of n puts on its connection to m.
OnWire(n, m, p) == [p EXCEPT !.from = n, !.to = m,
                             !.sender = IF RewriteSender THEN n ELSE @]

\* RoutingInterceptor.onOutbound: a ttl of 0 counts as missing.
Outbound(e) == IF e.final # NoNode /\ e.ttl = 0 THEN DefaultTtl ELSE e.ttl

\* Mutant: the packet is addressed to the final destination it may not have.
SendRequest_ToFinal(r, e) ==
    /\ route[r] = NoRoute
    /\ e.origin \in alive
    /\ Connected(e.origin, e.to)
    /\ route' = [route EXCEPT ![r] = e]
    /\ net' = net \cup {OnWire(e.origin, e.final,
                 [id |-> r, topic |-> Work, sender |-> e.origin, from |-> e.origin,
                  to |-> e.to, final |-> e.final, ttl |-> Outbound(e), path |-> <<>>])}
    /\ wire' = [wire EXCEPT ![r] = @ + 1]
    /\ UNCHANGED <<links, alive, count, executing, runs, misfired, replied,
                   relayed, proxied, unhandled, crashed>>

\* MeshNetwork.send(); without a connection it throws to its caller.
SendRequest(r, e) ==
    /\ route[r] = NoRoute
    /\ e.origin \in alive
    /\ Connected(e.origin, e.to)
    /\ route' = [route EXCEPT ![r] = e]
    /\ net' = net \cup {OnWire(e.origin, e.to,
                 [id |-> r, topic |-> Work, sender |-> e.origin, from |-> e.origin,
                  to |-> e.to, final |-> e.final, ttl |-> Outbound(e), path |-> <<>>])}
    /\ wire' = [wire EXCEPT ![r] = @ + 1]
    /\ UNCHANGED <<links, alive, count, executing, runs, misfired, replied,
                   relayed, proxied, unhandled, crashed>>

-----------------------------------------------------------------------------
(* The end of the inbound pipeline *)

\* NetworkDispatcher.hasHandler: the exact handlers of NetworkController come first; the
\* pattern '*' of NetworkPlugin is the empty prefix and matches every topic.
HasHandler(n, topic) == topic = Reply \/ n \in Plugin

\* WorkerProxyInterceptor marks a packet that no local handler takes.
Proxies(n, topic) == /\ ~HasHandler(n, topic)
                     /\ topic = Work
                     /\ WorkerOf[n] # NoNode

\* RateLimitInterceptor: the topic that is left of a packet's topic.
Limited(n, p, topic) == IF count[n][p.sender] >= MaxPackets THEN Dropped ELSE topic

\* Mutant: the handler of NetworkPlugin does not look at the packet's type.
Executes_AnyType(n, p, topic) == /\ n \in Plugin
                                 /\ topic # Reply
                                 /\ p.sender # n

\* The handler of NetworkPlugin gets what no exact handler takes, and executes
\* the requests of other nodes.
Executes(n, p, topic) == /\ n \in Plugin
                         /\ topic # Reply
                         /\ p.topic = Work
                         /\ p.sender # n

\* Worker proxy, rate limit, dispatch, for packet p which routing has left
\* with the given topic.
Dispatch(n, p, topic) ==
    LET t == Limited(n, p, topic)
    IN  /\ count' = [count EXCEPT ![n][p.sender] = IF @ <= MaxPackets THEN @ + 1 ELSE @]
        /\ proxied' = IF Proxies(n, topic) THEN proxied \cup {<<p.id, n>>} ELSE proxied
        /\ IF Executes(n, p, t)
           THEN /\ executing' = executing \cup {[node |-> n, id |-> p.id, sender |-> p.sender]}
                /\ runs' = IF t = Work THEN [runs EXCEPT ![p.id][n] = @ + 1] ELSE runs
                /\ misfired' = IF t = Work THEN misfired ELSE misfired \cup {<<p.id, n>>}
           ELSE UNCHANGED <<executing, runs, misfired>>

-----------------------------------------------------------------------------
(* RoutingInterceptor.onInbound and what follows *)

Arrives(n, p) == p \in net /\ p.to = n /\ n \in alive

Elsewhere(n, p) == p.final \notin {NoNode, n}

\* The packet is for this node, or says nothing.
ReceiveOwn(n, p) ==
    /\ Arrives(n, p)
    /\ ~Elsewhere(n, p)
    /\ net' = net \ {p}
    /\ Dispatch(n, p, p.topic)
    /\ UNCHANGED <<links, alive, route, wire, replied, relayed, unhandled, crashed>>

\* Its ttl does not allow another hop.
ReceiveExpired(n, p) ==
    /\ Arrives(n, p)
    /\ Elsewhere(n, p)
    /\ p.ttl <= 1
    /\ net' = net \ {p}
    /\ Dispatch(n, p, Dropped)
    /\ UNCHANGED <<links, alive, route, wire, replied, relayed, unhandled, crashed>>

NextHop(n, p) == OnWire(n, p.final, [p EXCEPT !.ttl = @ - 1, !.path = Append(@, n)])

\* Mutant: the relayed packet keeps its topic on its way to the dispatcher.
Relay_KeepsTopic(n, p) ==
    /\ Arrives(n, p)
    /\ Elsewhere(n, p)
    /\ p.ttl > 1
    /\ Connected(n, p.final)
    /\ net' = (net \ {p}) \cup {NextHop(n, p)}
    /\ wire' = [wire EXCEPT ![p.id] = @ + 1]
    /\ relayed' = relayed \cup {<<p.id, n>>}
    /\ Dispatch(n, p, p.topic)
    /\ UNCHANGED <<links, alive, route, replied, unhandled, crashed>>

\* Mutant: the packet is handed to every neighbour.
Relay_Floods(n, p) ==
    LET next == {m \in Nodes : Connected(n, m) /\ m # p.from}
    IN  /\ Arrives(n, p)
        /\ Elsewhere(n, p)
        /\ p.ttl > 1
        /\ Connected(n, p.final)
        /\ net' = (net \ {p}) \cup {[NextHop(n, p) EXCEPT !.to = m] : m \in next}
        /\ wire' = [wire EXCEPT ![p.id] = @ + Cardinality(next)]
        /\ relayed' = relayed \cup {<<p.id, n>>}
        /\ Dispatch(n, p, Forwarded)
        /\ UNCHANGED <<links, alive, route, replied, unhandled, crashed>>

\* It is sent on to the final destination over a direct connection.
Relay(n, p) ==
    /\ Arrives(n, p)
    /\ Elsewhere(n, p)
    /\ p.ttl > 1
    /\ Connected(n, p.final)
    /\ net' = (net \ {p}) \cup {NextHop(n, p)}
    /\ wire' = [wire EXCEPT ![p.id] = @ + 1]
    /\ relayed' = relayed \cup {<<p.id, n>>}
    /\ Dispatch(n, p, Forwarded)
    /\ UNCHANGED <<links, alive, route, replied, unhandled, crashed>>

\* Mutant: the send is not awaited, and the packet goes on as it is.
RelayFails_Continues(n, p) ==
    /\ Arrives(n, p)
    /\ Elsewhere(n, p)
    /\ p.ttl > 1
    /\ ~Connected(n, p.final)
    /\ net' = net \ {p}
    /\ unhandled' = unhandled \cup {<<p.id, n>>}
    /\ Dispatch(n, p, p.topic)
    /\ UNCHANGED <<links, alive, route, wire, replied, relayed, crashed>>

\* No such connection: send() throws out of the pipeline, and nothing awaits
\* the listener of the packet event.
RelayFails(n, p) ==
    /\ Arrives(n, p)
    /\ Elsewhere(n, p)
    /\ p.ttl > 1
    /\ ~Connected(n, p.final)
    /\ net' = net \ {p}
    /\ unhandled' = unhandled \cup {<<p.id, n>>}
    /\ UNCHANGED <<links, alive, count, executing, route, runs, misfired, wire,
                   replied, relayed, proxied, crashed>>

-----------------------------------------------------------------------------
(* NetworkPlugin *)

\* The broker is done and the plugin replies to senderNodeID, with the
\* result, or with the error of the broker or of the first attempt to reply.
Respond(x) ==
    /\ x \in executing
    /\ Connected(x.node, x.sender)
    /\ executing' = executing \ {x}
    /\ net' = net \cup {[id |-> x.id, topic |-> Reply, sender |-> x.node,
                         from |-> x.node, to |-> x.sender, final |-> NoNode,
                         ttl |-> 0, path |-> <<>>]}
    /\ wire' = [wire EXCEPT ![x.id] = @ + 1]
    /\ replied' = replied \cup {<<x.id, x.node>>}
    /\ UNCHANGED <<links, alive, count, route, runs, misfired, relayed, proxied,
                   unhandled, crashed>>

\* Mutant: without a connection the handler gives up silently.
RespondFails_Silently(x) ==
    /\ x \in executing
    /\ ~Connected(x.node, x.sender)
    /\ executing' = executing \ {x}
    /\ UNCHANGED <<links, alive, net, count, history>>

\* The reply has no connection to go out on: send() throws, and so does the
\* send() in the handler of that error.
RespondFails(x) ==
    /\ x \in executing
    /\ ~Connected(x.node, x.sender)
    /\ executing' = executing \ {x}
    /\ unhandled' = unhandled \cup {<<x.id, x.node>>}
    /\ UNCHANGED <<links, alive, net, count, route, runs, misfired, wire,
                   replied, relayed, proxied, crashed>>

-----------------------------------------------------------------------------
(* Time, connections and processes *)

\* A packet from s after resetAt starts a new window.
WindowEnds(n, s) ==
    /\ count[n][s] > 0
    /\ count' = [count EXCEPT ![n][s] = 0]
    /\ UNCHANGED <<links, alive, net, executing, history>>

LinkUp(n, m) ==
    /\ n # m
    /\ {n, m} \subseteq alive
    /\ ~Connected(n, m)
    /\ links' = links \cup {{n, m}}
    /\ UNCHANGED <<alive, net, count, executing, history>>

\* What travels on the connection is lost with it.
LinkDown(l) ==
    /\ links' = links \ {l}
    /\ net' = {p \in net : {p.from, p.to} # l}
    /\ UNCHANGED <<alive, count, executing, history>>

\* A process ends, by itself or because Node.js ends it for an unhandled
\* rejection; its table of windows and its pending executions go with it.
Crash(n) ==
    /\ n \in alive \ crashed
    /\ Cardinality(crashed) < MaxCrashes
    /\ alive' = alive \ {n}
    /\ links' = {l \in links : n \notin l}
    /\ net' = {p \in net : n \notin {p.from, p.to}}
    /\ executing' = {x \in executing : x.node # n}
    /\ count' = [count EXCEPT ![n] = [s \in Nodes |-> 0]]
    /\ crashed' = crashed \cup {n}
    /\ UNCHANGED <<route, runs, misfired, wire, replied, relayed, proxied, unhandled>>

Restart(n) ==
    /\ n \notin alive
    /\ alive' = alive \cup {n}
    /\ UNCHANGED <<links, net, count, executing, history>>

Receive(n, p) == \/ ReceiveOwn(n, p) \/ ReceiveExpired(n, p)
                 \/ Relay(n, p) \/ RelayFails(n, p)

Finish(x) == Respond(x) \/ RespondFails(x)

Next == \/ \E r \in Requests, e \in Routes : SendRequest(r, e)
        \/ \E n \in Nodes, p \in net : Receive(n, p)
        \/ \E x \in executing : Finish(x)
        \/ \E n, s \in Nodes : WindowEnds(n, s)
        \/ \E n, m \in Nodes : LinkUp(n, m)
        \/ \E l \in links : LinkDown(l)
        \/ \E n \in Nodes : Crash(n) \/ Restart(n)

Spec == Init /\ [][Next]_vars

-----------------------------------------------------------------------------
(* Properties *)

\* The variables take the values the code gives them.
TypeOK == /\ links \subseteq {l \in SUBSET Nodes : Cardinality(l) = 2}
          /\ alive \subseteq Nodes
          /\ \A p \in net : p \in PacketSet
          /\ count \in [Nodes -> [Nodes -> 0..(MaxPackets + 1)]]
          /\ executing \subseteq [node : Nodes, id : Requests, sender : Nodes]
          /\ route \in [Requests -> Routes \cup {NoRoute}]
          /\ runs \in [Requests -> [Nodes -> Nat]]
          /\ wire \in [Requests -> Nat]
          /\ misfired \cup replied \cup relayed \cup proxied \cup unhandled
                \subseteq Requests \X Nodes
          /\ crashed \subseteq Nodes

Destination(r) == IF route[r].final = NoNode THEN route[r].to ELSE route[r].final

\* A request is executed under its topic by the node it is meant for, not by
\* a node that relays it, and only once, although the relaying node runs the
\* whole inbound pipeline on it as well (RoutingInterceptor.ts:26-58,
\* MeshNetwork.ts:94-100).
ExecutedOnceAtDestination ==
    \A r \in Requests, n \in Nodes :
        runs[r][n] <= IF n = Destination(r) THEN 1 ELSE 0

\* A packet is relayed at most once, so that it cannot circulate whatever its
\* ttl: the next hop is always its destination, and a node that has no
\* connection to it gives the packet up (RoutingInterceptor.ts:39-52).  This
\* is what the code does.  Its comments promise more, multi-hop routing by way
\* of the next closest node (RoutingInterceptor.ts:6 and 50): with routing of
\* that kind a packet could be relayed again and the property would not hold.
RelayedOnce == \A p \in net : p.path # <<>> => p.to = p.final /\ Len(p.path) = 1

\* A request causes a bounded number of packets: itself, a relayed copy, and
\* a reply from each of the two nodes whose handlers see it; replies cause no
\* packets, even when the limiter drops them (NetworkPlugin.ts:23-53).
NoStorm == \A r \in Requests : wire[r] <= 4

\* An execution is never abandoned in silence: as long as the broker is not
\* done with it the node knows whom to reply to, and then it has replied, or
\* reported a rejection, unless its process has ended (NetworkPlugin.ts:27-52).
ExecutionAccountedFor ==
    \A r \in Requests, n \in Nodes :
        runs[r][n] > 0 => \/ \E x \in executing : x.node = n /\ x.id = r
                          \/ <<r, n>> \in replied \cup unhandled
                          \/ n \in crashed

\* The packets that routing or the rate limiter withdraw by renaming their
\* topic reach no handler (RoutingInterceptor.ts:34 and 54).
WithdrawnNotHandled == misfired = {}

\* The error boundary of NetworkPlugin holds: no rejection leaves its handler
\* (NetworkPlugin.ts:22).
NoUnhandledRejection == unhandled = {}

\* A request for an action of a local worker is passed on to that worker
\* (WorkerProxyInterceptor.ts:4-5).
ProxiedIsRelayed == proxied \subseteq relayed

\* Every request follows its path: whatever the order of packets, connections
\* and crashes, it is forwarded at most once and by the node it was sent to,
\* executed only where it has arrived, and once it is lost or executed no
\* packet of it comes back (RoutingInterceptor.ts:26-58, MeshNetwork.ts:94-100).
\* The single hop is what the code does, not what its comments say of it (see
\* RelayedOnce).
UnderWay(r) == {p \in net : p.topic = Work /\ p.id = r}
StageOf(r) == IF route[r] = NoRoute THEN "new"
              ELSE IF \E p \in UnderWay(r) : p.path = <<>> THEN "hop"
              ELSE IF UnderWay(r) # {} THEN "final"
              ELSE IF \E n \in Nodes : runs[r][n] > 0 THEN "executed" ELSE "lost"
Path == INSTANCE RequestPath WITH stage <- [r \in Requests |-> StageOf(r)]
ImplementsPath == Path!Spec

=============================================================================
