--------------------------- MODULE MeshRpcProofs ---------------------------
(***************************************************************************)
(* For any mesh: the types of MeshRpc, that a packet is relayed at most    *)
(* once, whatever its ttl, that no execution is abandoned in silence, that *)
(* a request is executed once, by the node it is meant for, and that it    *)
(* causes four packets at most.                                            *)
(***************************************************************************)
EXTENDS MeshRpc, FiniteSetTheorems, TLAPS

\* A connection joins two nodes.
LEMMA PairHasTwo ==
    ASSUME NEW n, NEW m, n # m
    PROVE  Cardinality({n, m}) = 2
<1>1. IsFiniteSet({n}) /\ Cardinality({n}) = 1
  BY FS_Singleton
<1>2. Cardinality({n} \cup {m}) = Cardinality({n}) + 1
  BY <1>1, FS_AddElement
<1>3. {n, m} = {n} \cup {m}
  OBVIOUS
<1> QED BY <1>1, <1>2, <1>3

\* The transport sets the ends of a packet and perhaps its sender.
LEMMA OnWireFields ==
    ASSUME NEW n \in Nodes, NEW m \in Nodes, NEW p \in PacketSet
    PROVE  /\ OnWire(n, m, p) \in PacketSet
           /\ OnWire(n, m, p).to = m
           /\ OnWire(n, m, p).final = p.final
           /\ OnWire(n, m, p).path = p.path
           /\ OnWire(n, m, p).id = p.id
           /\ OnWire(n, m, p).topic = p.topic
  BY DEF OnWire, PacketSet

\* The next hop of a packet is its destination, and its path grows by one.
LEMMA NextHopFields ==
    ASSUME NEW n \in Nodes, NEW p \in PacketSet, p.final \in Nodes, p.ttl > 1
    PROVE  /\ NextHop(n, p) \in PacketSet
           /\ NextHop(n, p).to = p.final
           /\ NextHop(n, p).final = p.final
           /\ NextHop(n, p).path = Append(p.path, n)
           /\ NextHop(n, p).id = p.id
           /\ NextHop(n, p).topic = p.topic
<1> DEFINE q == [p EXCEPT !.ttl = @ - 1, !.path = Append(@, n)]
<1>1. /\ q \in PacketSet /\ q.final = p.final /\ q.path = Append(p.path, n)
      /\ q.id = p.id /\ q.topic = p.topic
  <2>1. p.ttl - 1 \in Nat
    BY DEF PacketSet
  <2>2. Append(p.path, n) \in Seq(Nodes)
    BY DEF PacketSet
  <2> QED BY <2>1, <2>2, Zenon DEF PacketSet
<1>2. NextHop(n, p) = OnWire(n, p.final, q)
  BY DEF NextHop
<1> HIDE DEF q
<1> QED BY <1>1, <1>2, OnWireFields

\* The packet that send() builds.
Built(r, e) == [id |-> r, topic |-> Work, sender |-> e.origin, from |-> e.origin,
                to |-> e.to, final |-> e.final, ttl |-> Outbound(e), path |-> <<>>]

LEMMA BuiltFields ==
    ASSUME NEW r \in Requests, NEW e \in Routes
    PROVE  Built(r, e) \in PacketSet /\ e.origin \in Nodes /\ e.to \in Nodes
  BY MeshAssumption DEF Built, PacketSet, RouteSet, Outbound

\* The reply that NetworkPlugin builds.
Answer(x) == [id |-> x.id, topic |-> Reply, sender |-> x.node, from |-> x.node,
              to |-> x.sender, final |-> NoNode, ttl |-> 0, path |-> <<>>]

LEMMA AnswerFields ==
    ASSUME NEW x \in [node : Nodes, id : Requests, sender : Nodes]
    PROVE  Answer(x) \in PacketSet
  BY DEF Answer, PacketSet

\* The dispatcher and the interceptors before it keep the types of what they
\* write.
LEMMA DispatchType ==
    ASSUME TypeOK, NEW n \in Nodes, NEW p \in PacketSet, NEW topic,
           Dispatch(n, p, topic)
    PROVE  /\ count' \in [Nodes -> [Nodes -> 0..(MaxPackets + 1)]]
           /\ executing' \subseteq [node : Nodes, id : Requests, sender : Nodes]
           /\ runs' \in [Requests -> [Nodes -> Nat]]
           /\ misfired' \subseteq Requests \X Nodes
           /\ proxied' \subseteq Requests \X Nodes
<1>1. p.id \in Requests /\ p.sender \in Nodes
  BY DEF PacketSet
<1>2. count' \in [Nodes -> [Nodes -> 0..(MaxPackets + 1)]]
  BY <1>1, MeshAssumption DEF TypeOK, Dispatch
<1>3. proxied' \subseteq Requests \X Nodes
  BY <1>1 DEF TypeOK, Dispatch
<1>4. /\ executing' \subseteq [node : Nodes, id : Requests, sender : Nodes]
      /\ runs' \in [Requests -> [Nodes -> Nat]]
      /\ misfired' \subseteq Requests \X Nodes
  <2> DEFINE t == Limited(n, p, topic)
  <2>1. CASE Executes(n, p, t)
    <3>1. executing' = executing \cup {[node |-> n, id |-> p.id, sender |-> p.sender]}
      BY <2>1 DEF Dispatch
    <3>2. runs' = IF t = Work THEN [runs EXCEPT ![p.id][n] = @ + 1] ELSE runs
      BY <2>1 DEF Dispatch
    <3>3. misfired' = IF t = Work THEN misfired ELSE misfired \cup {<<p.id, n>>}
      BY <2>1 DEF Dispatch
    <3>4. executing' \subseteq [node : Nodes, id : Requests, sender : Nodes]
      BY <1>1, <3>1 DEF TypeOK
    <3>5. runs' \in [Requests -> [Nodes -> Nat]]
      BY <1>1, <3>2 DEF TypeOK
    <3> QED BY <1>1, <3>3, <3>4, <3>5 DEF TypeOK
  <2>2. CASE ~Executes(n, p, t)
    BY <2>2 DEF TypeOK, Dispatch
  <2> QED BY <2>1, <2>2
<1> QED BY <1>2, <1>3, <1>4

\* The state of every node, and everything in flight, has the shape the code
\* gives it.
THEOREM TypeCorrect == Spec => []TypeOK
<1>1. Init => TypeOK
  BY MeshAssumption DEF Init, TypeOK
<1>2. TypeOK /\ [Next]_vars => TypeOK'
  <2> SUFFICES ASSUME TypeOK, [Next]_vars PROVE TypeOK'
    OBVIOUS
  <2>1. ASSUME NEW r \in Requests, NEW e \in Routes, SendRequest(r, e) PROVE TypeOK'
    <3>1. net' = net \cup {OnWire(e.origin, e.to, Built(r, e))}
      BY <2>1 DEF SendRequest, Built
    <3>2. OnWire(e.origin, e.to, Built(r, e)) \in PacketSet
      BY BuiltFields, OnWireFields
    <3>3. \A p \in net' : p \in PacketSet
      BY <3>1, <3>2 DEF TypeOK
    <3> QED BY <2>1, <3>3 DEF SendRequest, TypeOK
  <2>2. ASSUME NEW n \in Nodes, NEW p \in net, ReceiveOwn(n, p) \/ ReceiveExpired(n, p)
        PROVE  TypeOK'
    <3>1. p \in PacketSet
      BY DEF TypeOK
    <3>2. PICK t : Dispatch(n, p, t)
      BY <2>2 DEF ReceiveOwn, ReceiveExpired
    <3> QED BY <2>2, <3>1, <3>2, DispatchType DEF ReceiveOwn, ReceiveExpired, TypeOK
  <2>3. ASSUME NEW n \in Nodes, NEW p \in net, Relay(n, p) PROVE TypeOK'
    <3>1. p \in PacketSet
      BY DEF TypeOK
    <3>2. p.final \in Nodes /\ p.id \in Requests /\ p.ttl > 1
      BY <2>3, <3>1 DEF Relay, Elsewhere, PacketSet
    <3>3. \A q \in net' : q \in PacketSet
      BY <2>3, <3>1, <3>2, NextHopFields DEF Relay, TypeOK
    <3>4. wire' \in [Requests -> Nat] /\ relayed' \subseteq Requests \X Nodes
      BY <2>3, <3>2 DEF Relay, TypeOK
    <3>5. Dispatch(n, p, Forwarded)
      BY <2>3 DEF Relay
    <3> QED BY <2>3, <3>1, <3>3, <3>4, <3>5, DispatchType DEF Relay, TypeOK
  <2>4. ASSUME NEW n \in Nodes, NEW p \in net, RelayFails(n, p) PROVE TypeOK'
    <3>1. p.id \in Requests
      BY DEF TypeOK, PacketSet
    <3> QED BY <2>4, <3>1 DEF RelayFails, TypeOK
  <2>5. ASSUME NEW x \in executing, Respond(x) PROVE TypeOK'
    <3>1. x \in [node : Nodes, id : Requests, sender : Nodes]
      BY DEF TypeOK
    <3>2. \A q \in net' : q \in PacketSet
      BY <2>5, <3>1, AnswerFields DEF Respond, Answer, TypeOK
    <3>3. x.id \in Requests /\ x.node \in Nodes
      BY <3>1
    <3>4. wire' \in [Requests -> Nat] /\ replied' \subseteq Requests \X Nodes
      BY <2>5, <3>3 DEF Respond, TypeOK
    <3>5. executing' \subseteq executing
      BY <2>5 DEF Respond
    <3> QED BY <2>5, <3>2, <3>4, <3>5 DEF Respond, TypeOK
  <2>6. ASSUME NEW x \in executing, RespondFails(x) PROVE TypeOK'
    <3>1. x \in [node : Nodes, id : Requests, sender : Nodes]
      BY DEF TypeOK
    <3> QED BY <2>6, <3>1 DEF RespondFails, TypeOK
  <2>7. ASSUME NEW n \in Nodes, NEW s \in Nodes, WindowEnds(n, s) PROVE TypeOK'
    BY <2>7, MeshAssumption DEF WindowEnds, history, TypeOK
  <2>8. ASSUME NEW n \in Nodes, NEW m \in Nodes, LinkUp(n, m) PROVE TypeOK'
    <3>1. {n, m} \subseteq Nodes /\ Cardinality({n, m}) = 2
      BY <2>8, PairHasTwo DEF LinkUp
    <3>2. links' \subseteq {l \in SUBSET Nodes : Cardinality(l) = 2}
      BY <2>8, <3>1 DEF LinkUp, TypeOK
    <3> QED BY <2>8, <3>2 DEF LinkUp, history, TypeOK
  <2>9. ASSUME NEW l \in links, LinkDown(l) PROVE TypeOK'
    BY <2>9 DEF LinkDown, history, TypeOK
  <2>10. ASSUME NEW n \in Nodes, Crash(n) PROVE TypeOK'
    BY <2>10, MeshAssumption DEF Crash, TypeOK
  <2>11. ASSUME NEW n \in Nodes, Restart(n) PROVE TypeOK'
    BY <2>11 DEF Restart, history, TypeOK
  <2>12. CASE UNCHANGED vars
    BY <2>12 DEF vars, history, TypeOK
  <2> QED BY <2>1, <2>2, <2>3, <2>4, <2>5, <2>6, <2>7, <2>8, <2>9, <2>10, <2>11,
             <2>12 DEF Next, Receive, Finish
<1> QED BY <1>1, <1>2, PTL DEF Spec

\* A relayed packet goes to its destination and was relayed once: no packet
\* circulates, whatever ttl it starts with (RoutingInterceptor.ts:39-52).
THEOREM RelayCorrect == Spec => []RelayedOnce
<1>1. Init => RelayedOnce
  BY DEF Init, RelayedOnce
<1>2. TypeOK /\ RelayedOnce /\ [Next]_vars => RelayedOnce'
  <2> SUFFICES ASSUME TypeOK, RelayedOnce, [Next]_vars PROVE RelayedOnce'
    OBVIOUS
  <2>1. ASSUME NEW r \in Requests, NEW e \in Routes, SendRequest(r, e) PROVE RelayedOnce'
    <3>1. net' = net \cup {OnWire(e.origin, e.to, Built(r, e))}
      BY <2>1 DEF SendRequest, Built
    <3>2. Built(r, e).path = <<>>
      BY DEF Built
    <3>3. OnWire(e.origin, e.to, Built(r, e)).path = <<>>
      BY <3>2, BuiltFields, OnWireFields
    <3> QED BY <3>1, <3>3 DEF RelayedOnce
  <2>2. ASSUME NEW n \in Nodes, NEW p \in net, Relay(n, p) PROVE RelayedOnce'
    <3>1. p \in PacketSet
      BY DEF TypeOK
    <3>2. p.final \in Nodes /\ p.ttl > 1 /\ p.to # p.final
      BY <2>2, <3>1 DEF Relay, Arrives, Elsewhere, PacketSet
    <3>3. p.path = <<>>
      BY <3>2 DEF RelayedOnce
    <3>4. Len(Append(p.path, n)) = 1
      BY <3>3
    <3>5. NextHop(n, p).to = NextHop(n, p).final /\ Len(NextHop(n, p).path) = 1
      BY <3>1, <3>2, <3>4, NextHopFields
    <3>6. net' \subseteq net \cup {NextHop(n, p)}
      BY <2>2 DEF Relay
    <3> QED BY <3>5, <3>6 DEF RelayedOnce
  <2>3. ASSUME NEW x \in executing, Respond(x) PROVE RelayedOnce'
    <3>1. net' = net \cup {Answer(x)}
      BY <2>3 DEF Respond, Answer
    <3>2. Answer(x).path = <<>>
      BY DEF Answer
    <3> QED BY <3>1, <3>2 DEF RelayedOnce
  <2>4. CASE net' \subseteq net
    BY <2>4 DEF RelayedOnce
  <2>5. ASSUME NEW n \in Nodes, NEW p \in net, Receive(n, p) PROVE RelayedOnce'
    BY <2>2, <2>4, <2>5 DEF Receive, ReceiveOwn, ReceiveExpired, RelayFails
  <2>6. ASSUME NEW x \in executing, Finish(x) PROVE RelayedOnce'
    BY <2>3, <2>4, <2>6 DEF Finish, RespondFails
  <2>7. CASE \/ \E n, s \in Nodes : WindowEnds(n, s)
             \/ \E n, m \in Nodes : LinkUp(n, m)
             \/ \E l \in links : LinkDown(l)
             \/ \E n \in Nodes : Crash(n) \/ Restart(n)
             \/ UNCHANGED vars
    <3>1. net' \subseteq net
      BY <2>7 DEF WindowEnds, LinkUp, LinkDown, Crash, Restart, vars
    <3> QED BY <3>1, <2>4
  <2> QED BY <2>1, <2>5, <2>6, <2>7 DEF Next
<1> QED BY <1>1, <1>2, TypeCorrect, PTL DEF Spec

\* Handing a request to the broker records whom to reply to.
LEMMA DispatchAccounts ==
    ASSUME TypeOK, ExecutionAccountedFor, NEW n \in Nodes, NEW p \in PacketSet,
           NEW topic, Dispatch(n, p, topic),
           UNCHANGED <<replied, unhandled, crashed>>
    PROVE  ExecutionAccountedFor'
<1>1. p.id \in Requests
  BY DEF PacketSet
<1>2. executing \subseteq executing'
  BY DEF Dispatch
<1>3. ASSUME NEW r \in Requests, NEW m \in Nodes, runs'[r][m] > 0, runs[r][m] # runs'[r][m]
      PROVE  \E x \in executing' : x.node = m /\ x.id = r
  <2> DEFINE t == Limited(n, p, topic)
             y == [node |-> n, id |-> p.id, sender |-> p.sender]
  <2>1. Executes(n, p, t) /\ t = Work
    BY <1>3 DEF Dispatch
  <2>2. runs' = [runs EXCEPT ![p.id][n] = @ + 1] /\ y \in executing'
    BY <2>1 DEF Dispatch
  <2>3. r = p.id /\ m = n
    BY <1>1, <1>3, <2>2 DEF TypeOK
  <2>4. y.node = m /\ y.id = r
    BY <2>3
  <2> QED BY <2>2, <2>4
<1>4. ASSUME NEW r \in Requests, NEW m \in Nodes, runs'[r][m] > 0
      PROVE  \/ \E x \in executing' : x.node = m /\ x.id = r
             \/ <<r, m>> \in replied' \cup unhandled'
             \/ m \in crashed'
  <2>1. CASE runs[r][m] = runs'[r][m]
    BY <1>2, <1>4, <2>1 DEF ExecutionAccountedFor
  <2>2. CASE runs[r][m] # runs'[r][m]
    BY <1>3, <1>4, <2>2
  <2> QED BY <2>1, <2>2
<1> QED BY <1>4 DEF ExecutionAccountedFor

\* A finished execution has been replied to, has failed visibly, or its process
\* has ended (NetworkPlugin.ts:27-52).
THEOREM ExecutionCorrect == Spec => []ExecutionAccountedFor
<1>1. Init => ExecutionAccountedFor
  BY DEF Init, ExecutionAccountedFor
<1>2. TypeOK /\ ExecutionAccountedFor /\ [Next]_vars => ExecutionAccountedFor'
  <2> SUFFICES ASSUME TypeOK, ExecutionAccountedFor, [Next]_vars
               PROVE  ExecutionAccountedFor'
    OBVIOUS
  <2>1. CASE UNCHANGED <<executing, runs, replied, crashed>> /\ unhandled \subseteq unhandled'
    BY <2>1 DEF ExecutionAccountedFor
  <2>2. ASSUME NEW r \in Requests, NEW e \in Routes, SendRequest(r, e)
        PROVE  ExecutionAccountedFor'
    BY <2>1, <2>2 DEF SendRequest
  <2>3. ASSUME NEW n \in Nodes, NEW p \in net, Receive(n, p)
        PROVE  ExecutionAccountedFor'
    <3>1. p \in PacketSet
      BY DEF TypeOK
    <3>2. CASE RelayFails(n, p)
      BY <2>1, <3>2 DEF RelayFails
    <3>3. CASE ReceiveOwn(n, p) \/ ReceiveExpired(n, p) \/ Relay(n, p)
      <4>1. PICK t : Dispatch(n, p, t)
        BY <3>3 DEF ReceiveOwn, ReceiveExpired, Relay
      <4>2. UNCHANGED <<replied, unhandled, crashed>>
        BY <3>3 DEF ReceiveOwn, ReceiveExpired, Relay
      <4> QED BY <3>1, <4>1, <4>2, DispatchAccounts
    <3> QED BY <2>3, <3>2, <3>3 DEF Receive
  <2>4. ASSUME NEW x \in executing, Finish(x) PROVE ExecutionAccountedFor'
    <3>1. /\ executing' = executing \ {x}
          /\ replied' \cup unhandled' = replied \cup unhandled \cup {<<x.id, x.node>>}
          /\ UNCHANGED <<runs, crashed>>
      BY <2>4 DEF Finish, Respond, RespondFails
    <3> QED BY <3>1 DEF ExecutionAccountedFor
  <2>5. ASSUME NEW n \in Nodes, Crash(n) PROVE ExecutionAccountedFor'
    BY <2>5 DEF Crash, ExecutionAccountedFor
  <2>6. CASE \/ \E n, s \in Nodes : WindowEnds(n, s)
             \/ \E n, m \in Nodes : LinkUp(n, m)
             \/ \E l \in links : LinkDown(l)
             \/ \E n \in Nodes : Restart(n)
             \/ UNCHANGED vars
    BY <2>1, <2>6 DEF WindowEnds, LinkUp, LinkDown, Restart, history, vars
  <2> QED BY <2>2, <2>3, <2>4, <2>5, <2>6 DEF Next
<1> QED BY <1>1, <1>2, TypeCorrect, PTL DEF Spec

-----------------------------------------------------------------------------
(* Where a request has been *)

Sent(r) == route[r] # NoRoute

\* The broker of node n is at work on request r.
Handling(r, n) == \E x \in executing : x.id = r /\ x.node = n

Touched(r, n) == Handling(r, n) \/ <<r, n>> \in replied \cup relayed

\* A request in flight is the only copy of it, still under way along its route
\* and executed by nobody; the only node that has seen it is the one that has
\* relayed it.  A reply is not for relaying.
FlightOf(p) ==
    /\ p.topic = Reply => p.final = NoNode
    /\ p.topic = Work =>
         /\ Sent(p.id)
         /\ p.final = route[p.id].final
         /\ p.path = <<>> => p.to = route[p.id].to
         /\ \A q \in net : q.topic = Work /\ q.id = p.id => q = p
         /\ \A n \in Nodes :
              /\ runs[p.id][n] = 0
              /\ Touched(p.id, n) =>
                    p.path # <<>> /\ n = route[p.id].to /\ n # p.final

Flight == \A p \in net : FlightOf(p)

\* A request touches the nodes of its route only; who has replied is done.
Trace(r, n) ==
    /\ Touched(r, n) \/ runs[r][n] > 0 => Sent(r)
    /\ Touched(r, n) => n \in {route[r].to, route[r].final}
    /\ <<r, n>> \in relayed => n = route[r].to
    /\ <<r, n>> \in replied => ~Handling(r, n)

Traces == \A r \in Requests, n \in Nodes : Trace(r, n)

OneExecution == \A x, y \in executing : x.id = y.id /\ x.node = y.node => x = y

\* The packets of a request: itself, its relayed copy, and the replies.
Bit(b) == IF b THEN 1 ELSE 0

Wired(r) ==
    wire[r] = Bit(Sent(r)) + Bit(<<r, route[r].to>> \in relayed)
               + Bit(<<r, route[r].to>> \in replied)
               + Bit(route[r].final # route[r].to /\ <<r, route[r].final>> \in replied)

AllWired == \A r \in Requests : Wired(r)

RouteInv == /\ Flight
            /\ Traces
            /\ OneExecution
            /\ AllWired
            /\ ExecutedOnceAtDestination

MeshInv == TypeOK /\ RelayedOnce /\ RouteInv

\* No application addresses a request as a missing route does.
LEMMA RoutesAreRoutes == NoRoute \notin Routes
  BY MeshAssumption DEF NoRoute, RouteSet

\* A step that only loses packets and executions.
LEMMA Loses ==
    ASSUME MeshInv, net' \subseteq net, executing' \subseteq executing,
           UNCHANGED <<route, runs, wire, replied, relayed>>
    PROVE  RouteInv'
<1>1. ASSUME NEW r, NEW n
      PROVE  (Handling(r, n)' => Handling(r, n)) /\ (Touched(r, n)' => Touched(r, n))
  BY DEF Handling, Touched
<1>2. Flight'
  BY <1>1 DEF MeshInv, RouteInv, Flight, FlightOf, Sent
<1>3. Traces'
  BY <1>1 DEF MeshInv, RouteInv, Traces, Trace, Sent
<1>4. OneExecution'
  BY DEF MeshInv, RouteInv, OneExecution
<1>5. AllWired'
  BY DEF MeshInv, RouteInv, AllWired, Wired, Sent, Bit
<1>6. ExecutedOnceAtDestination'
  BY DEF MeshInv, RouteInv, ExecutedOnceAtDestination, Destination
<1> QED BY <1>2, <1>3, <1>4, <1>5, <1>6 DEF RouteInv

\* A request that is sent has been nowhere before.
LEMMA SendsNew ==
    ASSUME MeshInv, NEW r \in Requests, NEW e \in Routes, SendRequest(r, e)
    PROVE  RouteInv'
<1> DEFINE p == OnWire(e.origin, e.to, Built(r, e))
<1>1. net' = net \cup {p}
  BY DEF SendRequest, Built
<1>2. /\ route[r] = NoRoute
      /\ route' = [route EXCEPT ![r] = e]
      /\ wire' = [wire EXCEPT ![r] = @ + 1]
      /\ UNCHANGED <<executing, runs, replied, relayed>>
  BY DEF SendRequest
<1>3. /\ p.id = r /\ p.topic = Work /\ p.final = e.final /\ p.to = e.to
      /\ p.path = <<>>
  BY BuiltFields, OnWireFields DEF Built
<1> HIDE DEF p
<1>4. route'[r] = e /\ \A s \in Requests : s # r => route'[s] = route[s]
  BY <1>2 DEF MeshInv, TypeOK
<1>5. ~Sent(r) /\ Sent(r)'
  BY <1>2, <1>4, RoutesAreRoutes DEF Sent
<1>6. \A s, n : (Touched(s, n)' <=> Touched(s, n)) /\ (Handling(s, n)' <=> Handling(s, n))
  BY <1>2 DEF Touched, Handling
<1>7. \A n \in Nodes : ~Touched(r, n) /\ ~(runs[r][n] > 0)
  BY <1>5 DEF MeshInv, RouteInv, Traces, Trace
<1>8. \A n \in Nodes : runs[r][n] = 0
  BY <1>7 DEF MeshInv, TypeOK
<1>9. \A q \in net : q.topic = Work => q.id # r /\ q.id \in Requests
  BY <1>5 DEF MeshInv, RouteInv, Flight, FlightOf, TypeOK, PacketSet
<1>10. Flight'
  <2>1. FlightOf(p)'
    <3>1. p.topic # Reply
      BY <1>3 DEF Work, Reply
    <3>2. \A q \in net' : q.topic = Work /\ q.id = p.id => q = p
      BY <1>1, <1>3, <1>9
    <3> QED BY <1>2, <1>3, <1>4, <1>5, <1>6, <1>7, <1>8, <3>1, <3>2 DEF FlightOf
  <2>2. ASSUME NEW q \in net PROVE FlightOf(q)'
    <3>1. FlightOf(q)
      BY DEF MeshInv, RouteInv, Flight
    <3>2. CASE q.topic = Work
      <4>1. q.id # r /\ q.id \in Requests
        BY <1>9, <3>2
      <4>2. route'[q.id] = route[q.id] /\ Sent(q.id)'
        BY <1>4, <3>1, <3>2, <4>1 DEF FlightOf, Sent
      <4>3. \A z \in net' : z.topic = Work /\ z.id = q.id => z = q
        BY <1>1, <1>3, <3>1, <3>2, <4>1 DEF FlightOf
      <4> QED BY <1>2, <1>6, <3>1, <3>2, <4>2, <4>3 DEF FlightOf, Work, Reply
    <3>3. CASE q.topic # Work
      BY <3>1, <3>3 DEF FlightOf
    <3> QED BY <3>2, <3>3
  <2> QED BY <1>1, <2>1, <2>2 DEF Flight
<1>11. Traces'
  <2>1. ASSUME NEW s \in Requests, NEW n \in Nodes PROVE Trace(s, n)'
    <3>1. Trace(s, n)
      BY DEF MeshInv, RouteInv, Traces
    <3>2. CASE s = r
      BY <1>2, <1>6, <1>7, <3>2 DEF Trace, Touched
    <3>3. CASE s # r
      BY <1>2, <1>4, <1>6, <3>1, <3>3 DEF Trace, Sent
    <3> QED BY <3>2, <3>3
  <2> QED BY <2>1 DEF Traces
<1>12. OneExecution'
  BY <1>2 DEF MeshInv, RouteInv, OneExecution
<1>13. AllWired'
  <2>1. ASSUME NEW s \in Requests, s # r PROVE Wired(s)'
    <3>1. wire'[s] = wire[s] /\ route'[s] = route[s] /\ Wired(s)
      BY <1>2, <1>4, <2>1 DEF MeshInv, RouteInv, AllWired, TypeOK
    <3> QED BY <1>2, <3>1 DEF Wired, Sent
  <2>2. Wired(r)'
    <3>1. \A n : <<r, n>> \notin relayed /\ <<r, n>> \notin replied
      BY <1>7 DEF Touched, MeshInv, TypeOK
    <3>2. wire[r] = 0
      <4>1. Wired(r)
        BY DEF MeshInv, RouteInv, AllWired
      <4> QED BY <1>5, <3>1, <4>1 DEF Wired, Bit
    <3>3. wire'[r] = 1
      BY <1>2, <3>2 DEF MeshInv, TypeOK
    <3> QED BY <1>2, <1>5, <3>1, <3>3 DEF Wired, Bit
  <2> QED BY <2>1, <2>2 DEF AllWired
<1>14. ExecutedOnceAtDestination'
  <2>1. ASSUME NEW s \in Requests, NEW n \in Nodes
        PROVE  runs'[s][n] <= IF n = Destination(s)' THEN 1 ELSE 0
    <3>1. CASE s = r
      BY <1>2, <1>8, <3>1
    <3>2. CASE s # r
      BY <1>2, <1>4, <3>2
         DEF MeshInv, RouteInv, ExecutedOnceAtDestination, Destination
    <3> QED BY <3>1, <3>2
  <2> QED BY <2>1 DEF ExecutedOnceAtDestination
<1> QED BY <1>10, <1>11, <1>12, <1>13, <1>14 DEF RouteInv

\* Who answers has not answered before, and has handled the request.
LEMMA Answers ==
    ASSUME MeshInv, NEW x \in executing, Respond(x)
    PROVE  RouteInv'
<1> DEFINE r == x.id
           m == x.node
<1>0. x \in [node : Nodes, id : Requests, sender : Nodes]
  BY DEF MeshInv, TypeOK
<1>1. /\ net' = net \cup {Answer(x)}
      /\ executing' = executing \ {x}
      /\ wire' = [wire EXCEPT ![r] = @ + 1]
      /\ replied' = replied \cup {<<r, m>>}
      /\ UNCHANGED <<route, runs, relayed>>
  BY DEF Respond, Answer
<1>2. r \in Requests /\ m \in Nodes /\ Handling(r, m)
  BY <1>0 DEF Handling
<1>3. <<r, m>> \notin replied /\ m \in {route[r].to, route[r].final} /\ Sent(r)
  BY <1>2 DEF MeshInv, RouteInv, Traces, Trace, Touched
<1>4. ~Handling(r, m)'
  BY <1>1 DEF Handling, MeshInv, RouteInv, OneExecution
<1>5. \A s, n : Handling(s, n)' => Handling(s, n)
  BY <1>1 DEF Handling
<1>6. \A s, n : Touched(s, n)' => Touched(s, n)
  BY <1>1, <1>2, <1>5 DEF Touched
<1> HIDE DEF r, m
<1>7. Flight'
  <2>1. Answer(x).topic = Reply /\ Answer(x).final = NoNode
    BY DEF Answer
  <2>2. FlightOf(Answer(x))'
    BY <2>1 DEF FlightOf, Work, Reply
  <2>3. ASSUME NEW q \in net PROVE FlightOf(q)'
    <3>1. FlightOf(q)
      BY DEF MeshInv, RouteInv, Flight
    <3>2. \A z \in net' : z.topic = Work => z \in net
      BY <1>1, <2>1 DEF Work, Reply
    <3> QED BY <1>1, <1>6, <3>1, <3>2 DEF FlightOf, Sent
  <2> QED BY <1>1, <2>2, <2>3 DEF Flight
<1>8. Traces'
  BY <1>1, <1>4, <1>5, <1>6 DEF MeshInv, RouteInv, Traces, Trace, Sent
<1>9. OneExecution'
  BY <1>1 DEF MeshInv, RouteInv, OneExecution
<1>10. AllWired'
  <2>1. ASSUME NEW s \in Requests, s # r PROVE Wired(s)'
    <3>1. wire'[s] = wire[s] /\ Wired(s)
      BY <1>1, <2>1 DEF MeshInv, RouteInv, AllWired, TypeOK
    <3>2. \A n : <<s, n>> \in replied' <=> <<s, n>> \in replied
      BY <1>1, <2>1
    <3> QED BY <1>1, <3>1, <3>2 DEF Wired, Sent
  <2>2. Wired(r)'
    <3>1. Wired(r) /\ wire[r] \in Nat /\ wire'[r] = wire[r] + 1
      BY <1>1, <1>2 DEF MeshInv, RouteInv, AllWired, TypeOK
    <3>2. CASE m = route[r].to
      BY <1>1, <1>3, <3>1, <3>2 DEF Wired, Sent, Bit
    <3>3. CASE m = route[r].final /\ m # route[r].to
      BY <1>1, <1>3, <3>1, <3>3 DEF Wired, Sent, Bit
    <3> QED BY <1>3, <3>2, <3>3
  <2> QED BY <2>1, <2>2 DEF AllWired
<1>11. ExecutedOnceAtDestination'
  BY <1>1 DEF MeshInv, RouteInv, ExecutedOnceAtDestination, Destination
<1> QED BY <1>7, <1>8, <1>9, <1>10, <1>11 DEF RouteInv

-----------------------------------------------------------------------------
(* Receiving *)

\* A request that arrives is at a node of its route that has not seen it.
LEMMA ArrivesNew ==
    ASSUME MeshInv, NEW p \in net, p.topic = Work
    PROVE  /\ p.id \in Requests /\ p.to \in Nodes
           /\ Sent(p.id)
           /\ p.to \in {route[p.id].to, route[p.id].final}
           /\ ~Touched(p.id, p.to)
           /\ runs[p.id] \in [Nodes -> {0}]
           /\ p.to # p.final => p.path = <<>> /\ p.to = route[p.id].to
           /\ \A q \in net : q.topic = Work /\ q.id = p.id => q = p
<1>1. p.id \in Requests /\ p.to \in Nodes /\ FlightOf(p)
  BY DEF MeshInv, RouteInv, Flight, TypeOK, PacketSet
<1>2. p.path # <<>> => p.to = p.final
  BY DEF MeshInv, RelayedOnce
<1>3. runs[p.id] \in [Nodes -> Nat]
  BY <1>1 DEF MeshInv, TypeOK
<1> QED BY <1>1, <1>2, <1>3 DEF FlightOf

\* What the dispatcher does with a packet.
Effect(n, p, topic) ==
    /\ \/ executing' = executing
       \/ /\ p.topic = Work
          /\ executing' =
               executing \cup {[node |-> n, id |-> p.id, sender |-> p.sender]}
    /\ \/ runs' = runs
       \/ /\ p.topic = Work /\ topic = Work
          /\ runs' = [runs EXCEPT ![p.id][n] = @ + 1]

LEMMA DispatchEffect ==
    ASSUME NEW n, NEW p, NEW topic, Dispatch(n, p, topic)
    PROVE  Effect(n, p, topic)
<1> DEFINE t == Limited(n, p, topic)
<1>1. t = Work => topic = Work
  BY DEF Limited, Dropped, Work
<1>2. CASE Executes(n, p, t)
  <2>1. p.topic = Work
    BY <1>2 DEF Executes
  <2>2. executing' = executing \cup {[node |-> n, id |-> p.id, sender |-> p.sender]}
    BY <1>2 DEF Dispatch
  <2>3. runs' = IF t = Work THEN [runs EXCEPT ![p.id][n] = @ + 1] ELSE runs
    BY <1>2 DEF Dispatch
  <2> QED BY <1>1, <2>1, <2>2, <2>3 DEF Effect
<1>3. CASE ~Executes(n, p, t)
  BY <1>3 DEF Dispatch, Effect
<1> QED BY <1>2, <1>3

\* A node that takes a packet, and perhaps relays it, touches that request only.
LEMMA Takes ==
    ASSUME MeshInv, NEW n, NEW p \in net, NEW topic, p.to = n,
           Dispatch(n, p, topic), UNCHANGED <<route, replied>>,
           \/ relayed' = relayed
           \/ /\ p.topic = Work /\ n = route[p.id].to
              /\ relayed' = relayed \cup {<<p.id, n>>}
    PROVE  /\ \A s, m : Touched(s, m)' =>
                  Touched(s, m) \/ (p.topic = Work /\ s = p.id /\ m = n)
           /\ \A s \in Requests : s # p.id => runs'[s] = runs[s]
           /\ Traces'
           /\ OneExecution'
<1>0. Effect(n, p, topic)
  BY DispatchEffect
<1>1. p.id \in Requests /\ n \in Nodes
  BY DEF MeshInv, TypeOK, PacketSet
<1>2. ASSUME NEW s, NEW m, Handling(s, m)'
      PROVE  Handling(s, m) \/ (p.topic = Work /\ s = p.id /\ m = n)
  BY <1>0, <1>2 DEF Effect, Handling
<1>3. ASSUME NEW s, NEW m, Touched(s, m)'
      PROVE  Touched(s, m) \/ (p.topic = Work /\ s = p.id /\ m = n)
  BY <1>2, <1>3 DEF Touched
<1>4. ASSUME NEW s \in Requests, NEW m \in Nodes, runs'[s][m] # runs[s][m]
      PROVE  p.topic = Work /\ s = p.id /\ m = n
  BY <1>0, <1>1, <1>4 DEF Effect, MeshInv, TypeOK
<1>5. ASSUME NEW s \in Requests, s # p.id PROVE runs'[s] = runs[s]
  BY <1>0, <1>1, <1>5 DEF Effect, MeshInv, TypeOK
<1>6. ASSUME NEW s \in Requests, NEW m \in Nodes PROVE Trace(s, m)'
  <2>1. Trace(s, m)
    BY DEF MeshInv, RouteInv, Traces
  <2>2. CASE p.topic = Work /\ s = p.id /\ m = n
    <3>1. /\ Sent(s) /\ m \in {route[s].to, route[s].final}
          /\ <<s, m>> \notin replied /\ <<s, m>> \notin relayed
      BY <2>2, ArrivesNew DEF Touched
    <3>2. <<s, m>> \in relayed' => m = route[s].to
      BY <2>2, <3>1
    <3> QED BY <3>1, <3>2 DEF Trace, Sent
  <2>3. CASE ~(p.topic = Work /\ s = p.id /\ m = n)
    <3>1. /\ Touched(s, m)' => Touched(s, m)
          /\ Handling(s, m)' => Handling(s, m)
          /\ runs'[s][m] = runs[s][m]
      BY <1>2, <1>3, <1>4, <2>3
    <3>2. <<s, m>> \in relayed' => <<s, m>> \in relayed
      BY <2>3
    <3> QED BY <2>1, <3>1, <3>2 DEF Trace, Sent
  <2> QED BY <2>2, <2>3
<1>7. OneExecution'
  <2> DEFINE y == [node |-> n, id |-> p.id, sender |-> p.sender]
  <2>1. CASE executing' = executing
    BY <2>1 DEF MeshInv, RouteInv, OneExecution
  <2>2. CASE p.topic = Work /\ executing' = executing \cup {y}
    <3>1. y.id = p.id /\ y.node = n
      OBVIOUS
    <3>2. \A z \in executing : ~(z.id = y.id /\ z.node = y.node)
      BY <2>2, <3>1, ArrivesNew DEF Touched, Handling
    <3> HIDE DEF y
    <3> QED BY <2>2, <3>2 DEF MeshInv, RouteInv, OneExecution
  <2> QED BY <1>0, <2>1, <2>2 DEF Effect
<1> QED BY <1>3, <1>5, <1>6, <1>7 DEF Traces

\* The other packets in flight are not affected.
LEMMA OtherFlights ==
    ASSUME MeshInv, NEW n, NEW p \in net, UNCHANGED route,
           \A s, m : Touched(s, m)' =>
                  Touched(s, m) \/ (p.topic = Work /\ s = p.id /\ m = n),
           \A s \in Requests : s # p.id => runs'[s] = runs[s],
           p.topic # Work => runs' = runs,
           \A z \in net' : z.topic = Work => z \in net \/ (p.topic = Work /\ z.id = p.id),
           NEW q \in net, q # p
    PROVE  FlightOf(q)'
<1>1. FlightOf(q) /\ FlightOf(p) /\ q.id \in Requests
  BY DEF MeshInv, RouteInv, Flight, TypeOK, PacketSet
<1>2. CASE q.topic # Work
  BY <1>1, <1>2 DEF FlightOf
<1>3. CASE q.topic = Work
  <2>1. p.topic = Work => q.id # p.id
    BY <1>1, <1>3 DEF FlightOf
  <2>2. \A m : Touched(q.id, m)' => Touched(q.id, m)
    BY <2>1
  <2>3. runs'[q.id] = runs[q.id]
    BY <1>1, <2>1
  <2>4. \A z \in net' : z.topic = Work /\ z.id = q.id => z = q
    BY <1>1, <1>3, <2>1 DEF FlightOf
  <2> QED BY <1>1, <1>3, <2>2, <2>3, <2>4 DEF FlightOf, Sent, Work, Reply
<1> QED BY <1>2, <1>3

\* A packet that ends at a node is executed only if that is its destination.
LEMMA Consumes ==
    ASSUME MeshInv, NEW n, NEW p \in net, NEW topic, p.to = n,
           Dispatch(n, p, topic), net' = net \ {p},
           topic = Work => ~Elsewhere(n, p),
           UNCHANGED <<route, wire, replied, relayed>>
    PROVE  RouteInv'
<1>0. Effect(n, p, topic)
  BY DispatchEffect
<1>1. p.id \in Requests /\ n \in Nodes
  BY DEF MeshInv, TypeOK, PacketSet
<1>2. p.topic # Work => runs' = runs
  BY <1>0 DEF Effect
<1>3. Flight'
  BY <1>2, Takes, OtherFlights DEF Flight
<1>4. AllWired'
  BY DEF MeshInv, RouteInv, AllWired, Wired, Sent
<1>5. ExecutedOnceAtDestination'
  <2>1. CASE runs' = runs
    BY <2>1 DEF MeshInv, RouteInv, ExecutedOnceAtDestination, Destination
  <2>2. CASE p.topic = Work /\ topic = Work /\ runs' = [runs EXCEPT ![p.id][n] = @ + 1]
    <3>1. n = Destination(p.id)
      <4>1. FlightOf(p) /\ p.final \in {NoNode, n}
        BY <2>2 DEF MeshInv, RouteInv, Flight, Elsewhere
      <4>2. p.final = NoNode => n = route[p.id].to
        BY <1>1, <2>2, ArrivesNew, MeshAssumption
      <4> QED BY <1>1, <2>2, <4>1, <4>2, MeshAssumption DEF Destination, FlightOf
    <3>2. runs[p.id] \in [Nodes -> {0}] /\ runs \in [Requests -> [Nodes -> Nat]]
      BY <2>2, ArrivesNew DEF MeshInv, TypeOK
    <3>3. ASSUME NEW s \in Requests, NEW m \in Nodes
          PROVE  runs'[s][m] <= IF m = Destination(s)' THEN 1 ELSE 0
      <4>1. Destination(s)' = Destination(s)
        BY DEF Destination
      <4>2. CASE s = p.id
        BY <1>1, <2>2, <3>1, <3>2, <4>1, <4>2
      <4>3. CASE s # p.id
        BY <1>1, <2>2, <3>2, <4>1, <4>3
           DEF MeshInv, RouteInv, ExecutedOnceAtDestination
      <4> QED BY <4>2, <4>3
    <3> QED BY <3>3 DEF ExecutedOnceAtDestination
  <2> QED BY <1>0, <2>1, <2>2 DEF Effect
<1> QED BY <1>3, <1>4, <1>5, Takes DEF RouteInv

\* A packet that is relayed is on the way to its destination from then on.
LEMMA Relays ==
    ASSUME MeshInv, NEW n \in Nodes, NEW p \in net, Relay(n, p)
    PROVE  RouteInv'
<1> DEFINE q == NextHop(n, p)
<1>1. p \in PacketSet /\ p.id \in Requests /\ FlightOf(p)
  BY DEF MeshInv, RouteInv, Flight, TypeOK, PacketSet
<1>2. /\ p.to = n /\ p.final \in Nodes /\ p.final # n /\ p.ttl > 1
      /\ net' = (net \ {p}) \cup {q}
      /\ wire' = [wire EXCEPT ![p.id] = @ + 1]
      /\ relayed' = relayed \cup {<<p.id, n>>}
      /\ Dispatch(n, p, Forwarded)
      /\ UNCHANGED <<route, replied>>
  BY <1>1 DEF Relay, Arrives, Elsewhere, PacketSet
<1>3. p.topic = Work
  BY <1>1, <1>2, MeshAssumption DEF FlightOf, PacketSet
<1>4. /\ p.path = <<>> /\ n = route[p.id].to /\ ~Touched(p.id, n)
      /\ Sent(p.id) /\ runs[p.id] \in [Nodes -> {0}]
      /\ \A z \in net : z.topic = Work /\ z.id = p.id => z = p
  BY <1>2, <1>3, ArrivesNew
<1>5. /\ q.to = p.final /\ q.final = p.final /\ q.id = p.id /\ q.topic = Work
      /\ q.path # <<>>
  <2>1. q.path = Append(p.path, n) /\ q.to = p.final /\ q.final = p.final
        /\ q.id = p.id /\ q.topic = Work
    BY <1>1, <1>2, <1>3, NextHopFields
  <2>2. Append(p.path, n) # <<>>
    BY <1>4
  <2> QED BY <2>1, <2>2
<1> HIDE DEF q
<1>6. runs' = runs
  <2>1. Effect(n, p, Forwarded)
    BY <1>2, DispatchEffect
  <2> QED BY <2>1 DEF Effect, Forwarded, Work
<1>7. /\ \A s, m : Touched(s, m)' =>
             Touched(s, m) \/ (p.topic = Work /\ s = p.id /\ m = n)
      /\ Traces' /\ OneExecution'
  BY <1>2, <1>3, <1>4, Takes
<1>8. Flight'
  <2>1. FlightOf(q)'
    <3>1. \A z \in net' : z.topic = Work /\ z.id = q.id => z = q
      BY <1>2, <1>4, <1>5
    <3>2. ASSUME NEW m \in Nodes, Touched(p.id, m)'
          PROVE  m = n
      BY <1>1, <1>3, <1>4, <1>7, <3>2 DEF FlightOf
    <3>3. \A m \in Nodes : runs'[q.id][m] = 0
      BY <1>4, <1>5, <1>6
    <3> QED BY <1>1, <1>2, <1>3, <1>4, <1>5, <3>1, <3>2, <3>3
            DEF FlightOf, Sent, Work, Reply
  <2>2. ASSUME NEW z \in net, z # p PROVE FlightOf(z)'
    <3>1. \A w \in net' :
             w.topic = Work => w \in net \/ (p.topic = Work /\ w.id = p.id)
      BY <1>2, <1>3, <1>5
    <3>2. \A s \in Requests : s # p.id => runs'[s] = runs[s]
      BY <1>6
    <3>3. UNCHANGED route /\ (p.topic # Work => runs' = runs)
      BY <1>2, <1>6
    <3> QED BY <1>7, <2>2, <3>1, <3>2, <3>3, OtherFlights
  <2> QED BY <1>2, <2>1, <2>2 DEF Flight
<1>9. AllWired'
  <2>1. ASSUME NEW s \in Requests, s # p.id PROVE Wired(s)'
    <3>1. wire'[s] = wire[s] /\ Wired(s)
      BY <1>2, <2>1 DEF MeshInv, RouteInv, AllWired, TypeOK
    <3>2. \A m : <<s, m>> \in relayed' <=> <<s, m>> \in relayed
      BY <1>2, <2>1
    <3> QED BY <1>2, <3>1, <3>2 DEF Wired, Sent
  <2>2. Wired(p.id)'
    <3>1. Wired(p.id) /\ wire[p.id] \in Nat /\ wire'[p.id] = wire[p.id] + 1
      BY <1>1, <1>2 DEF MeshInv, RouteInv, AllWired, TypeOK
    <3>2. <<p.id, n>> \notin relayed /\ <<p.id, n>> \in relayed'
      BY <1>2, <1>4 DEF Touched
    <3> QED BY <1>2, <1>4, <3>1, <3>2 DEF Wired, Sent, Bit
  <2> QED BY <2>1, <2>2 DEF AllWired
<1>10. ExecutedOnceAtDestination'
  BY <1>2, <1>6 DEF MeshInv, RouteInv, ExecutedOnceAtDestination, Destination
<1> QED BY <1>7, <1>8, <1>9, <1>10 DEF RouteInv

\* Every step of the mesh keeps its requests on their routes.
LEMMA RouteInvKept == MeshInv /\ [Next]_vars => RouteInv'
<1> SUFFICES ASSUME MeshInv, [Next]_vars PROVE RouteInv'
  OBVIOUS
<1>1. ASSUME NEW r \in Requests, NEW e \in Routes, SendRequest(r, e) PROVE RouteInv'
  BY <1>1, SendsNew
<1>2. ASSUME NEW n \in Nodes, NEW p \in net, ReceiveOwn(n, p) PROVE RouteInv'
  <2>1. /\ p.to = n /\ Dispatch(n, p, p.topic) /\ net' = net \ {p} /\ ~Elsewhere(n, p)
        /\ UNCHANGED <<route, wire, replied, relayed>>
    BY <1>2 DEF ReceiveOwn, Arrives
  <2> QED BY <2>1, Consumes
<1>3. ASSUME NEW n \in Nodes, NEW p \in net, ReceiveExpired(n, p) PROVE RouteInv'
  <2>1. /\ p.to = n /\ Dispatch(n, p, Dropped) /\ net' = net \ {p}
        /\ UNCHANGED <<route, wire, replied, relayed>>
    BY <1>3 DEF ReceiveExpired, Arrives
  <2>2. Dropped # Work
    BY DEF Dropped, Work
  <2> QED BY <2>1, <2>2, Consumes
<1>4. ASSUME NEW n \in Nodes, NEW p \in net, Relay(n, p) PROVE RouteInv'
  BY <1>4, Relays
<1>5. ASSUME NEW x \in executing, Respond(x) PROVE RouteInv'
  BY <1>5, Answers
<1>6. CASE \/ \E n \in Nodes, p \in net : RelayFails(n, p)
           \/ \E x \in executing : RespondFails(x)
           \/ \E n, s \in Nodes : WindowEnds(n, s)
           \/ \E n, m \in Nodes : LinkUp(n, m)
           \/ \E l \in links : LinkDown(l)
           \/ \E n \in Nodes : Crash(n) \/ Restart(n)
           \/ UNCHANGED vars
  <2>1. /\ net' \subseteq net /\ executing' \subseteq executing
        /\ UNCHANGED <<route, runs, wire, replied, relayed>>
    BY <1>6 DEF RelayFails, RespondFails, WindowEnds, LinkUp, LinkDown, Crash,
                Restart, history, vars
  <2> QED BY <2>1, Loses
<1> QED BY <1>1, <1>2, <1>3, <1>4, <1>5, <1>6 DEF Next, Receive, Finish

LEMMA MeshCorrect == Spec => []MeshInv
<1>1. Init => RouteInv
  <2> SUFFICES ASSUME Init PROVE RouteInv
    OBVIOUS
  <2>1. \A r, n : ~Touched(r, n)
    BY DEF Init, Touched, Handling
  <2>2. \A r \in Requests, n \in Nodes : runs[r][n] = 0
    BY DEF Init
  <2>3. Flight /\ OneExecution
    BY DEF Init, Flight, OneExecution
  <2>4. Traces
    BY <2>1, <2>2 DEF Init, Traces, Trace, Touched
  <2>5. AllWired
    BY DEF Init, AllWired, Wired, Sent, Bit
  <2>6. ExecutedOnceAtDestination
    BY <2>2 DEF ExecutedOnceAtDestination
  <2> QED BY <2>3, <2>4, <2>5, <2>6 DEF RouteInv
<1>2. TypeOK /\ RelayedOnce /\ RouteInv /\ [Next]_vars => RouteInv'
  BY RouteInvKept DEF MeshInv
<1> QED BY <1>1, <1>2, TypeCorrect, RelayCorrect, PTL DEF Spec, MeshInv

\* A request is executed under its topic once at most, and by nobody but the
\* node it is meant for (RoutingInterceptor.ts:26-58, MeshNetwork.ts:94-100).
THEOREM DestinationCorrect == Spec => []ExecutedOnceAtDestination
<1>1. MeshInv => ExecutedOnceAtDestination
  BY DEF MeshInv, RouteInv
<1> QED BY <1>1, MeshCorrect, PTL

\* A request causes four packets at most (NetworkPlugin.ts:23-53).
THEOREM StormCorrect == Spec => []NoStorm
<1>1. MeshInv => NoStorm
  <2> SUFFICES ASSUME MeshInv, NEW r \in Requests PROVE wire[r] <= 4
    BY DEF NoStorm
  <2>1. Wired(r)
    BY DEF MeshInv, RouteInv, AllWired
  <2> QED BY <2>1 DEF Wired, Bit
<1> QED BY <1>1, MeshCorrect, PTL

-----------------------------------------------------------------------------
(* The path of a request *)

Stage == [r \in Requests |-> StageOf(r)]

\* How far a request is depends on its own packets only.
LEMMA StageKept ==
    ASSUME NEW r, route'[r] = route[r], runs'[r] = runs[r], UnderWay(r)' = UnderWay(r)
    PROVE  StageOf(r)' = StageOf(r)
  BY DEF StageOf

\* A request in flight has one packet, which tells how far it is.
LEMMA StageInFlight ==
    ASSUME MeshInv, NEW p \in net, p.topic = Work
    PROVE  /\ p.id \in Requests
           /\ UnderWay(p.id) = {p}
           /\ StageOf(p.id) = IF p.path = <<>> THEN "hop" ELSE "final"
<1>1. p.id \in Requests /\ FlightOf(p)
  BY DEF MeshInv, RouteInv, Flight, TypeOK, PacketSet
<1>2. UnderWay(p.id) = {p} /\ route[p.id] # NoRoute
  BY <1>1 DEF FlightOf, UnderWay, Sent
<1> QED BY <1>1, <1>2 DEF StageOf

\* A step that brings no request on its way loses those whose packet is gone.
LEMMA Drops ==
    ASSUME MeshInv, \A z \in net' : z.topic = Work => z \in net,
           UNCHANGED <<route, runs>>
    PROVE  Path!Next
<1> DEFINE lost == {r \in Requests : UnderWay(r) # {} /\ UnderWay(r) \cap net' = {}}
<1>1. ASSUME NEW r \in lost
      PROVE  StageOf(r) \in {"hop", "final"} /\ StageOf(r)' = "lost"
  <2>1. PICK p \in net : p.topic = Work /\ p.id = r
    BY DEF UnderWay
  <2>2. FlightOf(p) /\ StageOf(r) \in {"hop", "final"}
    BY <2>1, StageInFlight DEF MeshInv, RouteInv, Flight
  <2>3. route'[r] # NoRoute /\ \A n \in Nodes : ~(runs'[r][n] > 0)
    BY <2>1, <2>2 DEF FlightOf, Sent
  <2>4. UnderWay(r)' = {}
    BY DEF UnderWay
  <2> QED BY <2>2, <2>3, <2>4 DEF StageOf
<1>2. ASSUME NEW r \in Requests, r \notin lost
      PROVE  StageOf(r)' = StageOf(r)
  <2>1. UnderWay(r)' \subseteq UnderWay(r)
    BY DEF UnderWay
  <2>2. UnderWay(r)' = UnderWay(r)
    <3>1. CASE UnderWay(r) = {}
      BY <2>1, <3>1
    <3>2. CASE UnderWay(r) \cap net' # {}
      <4>1. PICK p \in net : p \in net' /\ p.topic = Work /\ p.id = r
        BY <3>2 DEF UnderWay
      <4>2. UnderWay(r) = {p}
        BY <4>1, StageInFlight
      <4>3. p \in UnderWay(r)'
        BY <4>1 DEF UnderWay
      <4> QED BY <2>1, <4>2, <4>3
    <3> QED BY <1>2, <3>1, <3>2
  <2> QED BY <2>2, StageKept
<1>3. Stage' = [r \in Requests |-> IF r \in lost THEN "lost" ELSE Stage[r]]
  BY <1>1, <1>2 DEF Stage
<1>4. \A r \in lost : Stage[r] \in {"hop", "final"}
  BY <1>1 DEF Stage
<1>5. lost \in SUBSET Requests
  OBVIOUS
<1> HIDE DEF lost
<1> QED BY <1>3, <1>4, <1>5 DEF Stage, Path!Next, Path!Lose

\* A packet that ends at a node is lost, or executed where it has arrived.
LEMMA Ends ==
    ASSUME MeshInv, NEW n, NEW p \in net, NEW topic, p.to = n,
           Dispatch(n, p, topic), net' = net \ {p},
           topic = Work => ~Elsewhere(n, p),
           UNCHANGED route
    PROVE  Path!Next
<1>1. Effect(n, p, topic)
  BY DispatchEffect
<1>2. n \in Nodes
  BY DEF MeshInv, TypeOK, PacketSet
<1>3. CASE runs' = runs
  BY <1>3, Drops
<1>4. CASE p.topic = Work /\ topic = Work /\ runs' = [runs EXCEPT ![p.id][n] = @ + 1]
  <2>1. /\ FlightOf(p) /\ p.final \in {NoNode, n} /\ p.id \in Requests
        /\ UnderWay(p.id) = {p}
        /\ StageOf(p.id) = IF p.path = <<>> THEN "hop" ELSE "final"
    BY <1>4, StageInFlight DEF MeshInv, RouteInv, Flight, Elsewhere
  <2>2. \/ /\ Stage[p.id] = "hop" /\ n = route[p.id].to
           /\ route[p.id].final \in {NoNode, route[p.id].to}
        \/ Stage[p.id] = "final" /\ n = route[p.id].final
    <3>1. CASE p.path = <<>>
      BY <1>4, <2>1, <3>1 DEF FlightOf, Stage
    <3>2. CASE p.path # <<>>
      BY <1>4, <2>1, <3>2 DEF MeshInv, RelayedOnce, FlightOf, Stage
    <3> QED BY <3>1, <3>2
  <2>3. StageOf(p.id)' = "executed"
    <3>1. UnderWay(p.id)' = {} /\ route'[p.id] # NoRoute
      BY <2>1 DEF UnderWay, FlightOf, Sent
    <3>2. runs'[p.id][n] > 0
      BY <1>2, <1>4, <2>1 DEF MeshInv, TypeOK
    <3> QED BY <1>2, <3>1, <3>2 DEF StageOf
  <2>4. ASSUME NEW s \in Requests, s # p.id PROVE StageOf(s)' = StageOf(s)
    <3>1. runs'[s] = runs[s]
      BY <1>4, <2>1, <2>4 DEF MeshInv, TypeOK
    <3>2. UnderWay(s)' = UnderWay(s)
      BY <2>4 DEF UnderWay
    <3> QED BY <3>1, <3>2, StageKept
  <2>5. Stage' = [Stage EXCEPT ![p.id] = "executed"]
    BY <2>1, <2>3, <2>4 DEF Stage
  <2> QED BY <1>2, <1>4, <2>1, <2>2, <2>5
          DEF Stage, Path!Next, Path!ExecuteAt, Path!IsDirect
<1> QED BY <1>1, <1>3, <1>4 DEF Effect

\* A packet is relayed by the node it was sent to, and meant for another one.
LEMMA Forwards ==
    ASSUME MeshInv, NEW n \in Nodes, NEW p \in net, Relay(n, p)
    PROVE  Path!Next
<1> DEFINE q == NextHop(n, p)
<1>1. p \in PacketSet /\ p.id \in Requests /\ FlightOf(p)
  BY DEF MeshInv, RouteInv, Flight, TypeOK, PacketSet
<1>2. /\ p.to = n /\ p.final \in Nodes /\ p.final # n /\ p.ttl > 1
      /\ net' = (net \ {p}) \cup {q}
      /\ Dispatch(n, p, Forwarded)
      /\ UNCHANGED route
  BY <1>1 DEF Relay, Arrives, Elsewhere, PacketSet
<1>3. p.topic = Work
  BY <1>1, <1>2, MeshAssumption DEF FlightOf, PacketSet
<1>4. p.path = <<>> /\ n = route[p.id].to /\ p.final = route[p.id].final /\ Sent(p.id)
  BY <1>1, <1>2, <1>3, ArrivesNew DEF FlightOf
<1>5. q.id = p.id /\ q.topic = Work /\ q.path # <<>>
  <2>1. q.path = Append(p.path, n) /\ q.id = p.id /\ q.topic = Work
    BY <1>1, <1>2, <1>3, NextHopFields
  <2>2. Append(p.path, n) # <<>>
    BY <1>4
  <2> QED BY <2>1, <2>2
<1> HIDE DEF q
<1>6. runs' = runs
  <2>1. Effect(n, p, Forwarded)
    BY <1>2, DispatchEffect
  <2> QED BY <2>1 DEF Effect, Forwarded, Work
<1>7. UnderWay(p.id) = {p} /\ StageOf(p.id) = "hop"
  BY <1>3, <1>4, StageInFlight
<1>8. StageOf(p.id)' = "final"
  <2>1. UnderWay(p.id)' = {q}
    BY <1>2, <1>5, <1>7 DEF UnderWay
  <2> QED BY <1>2, <1>4, <1>5, <2>1 DEF StageOf, Sent
<1>9. ASSUME NEW s \in Requests, s # p.id PROVE StageOf(s)' = StageOf(s)
  <2>1. UnderWay(s)' = UnderWay(s)
    BY <1>2, <1>5, <1>9 DEF UnderWay
  <2> QED BY <1>2, <1>6, <2>1, StageKept
<1>10. Stage' = [Stage EXCEPT ![p.id] = "final"]
  BY <1>1, <1>8, <1>9 DEF Stage
<1>11. Stage[p.id] = "hop" /\ route[p.id].final \notin {NoNode, route[p.id].to}
  BY <1>1, <1>2, <1>4, <1>7, MeshAssumption DEF Stage
<1> QED BY <1>1, <1>2, <1>6, <1>10, <1>11
        DEF Stage, Path!Next, Path!Forward, Path!IsDirect

\* A request that is sent is on its way to its first hop.
LEMMA Starts ==
    ASSUME MeshInv, NEW r \in Requests, NEW e \in Routes, SendRequest(r, e)
    PROVE  Path!Next
<1> DEFINE p == OnWire(e.origin, e.to, Built(r, e))
<1>1. /\ net' = net \cup {p}
      /\ route[r] = NoRoute
      /\ route' = [route EXCEPT ![r] = e]
      /\ runs' = runs
  BY DEF SendRequest, Built
<1>2. p.id = r /\ p.topic = Work /\ p.path = <<>>
  BY BuiltFields, OnWireFields DEF Built
<1> HIDE DEF p
<1>3. route'[r] = e /\ e # NoRoute
  BY <1>1, RoutesAreRoutes DEF MeshInv, TypeOK
<1>4. StageOf(r) = "new" /\ StageOf(r)' = "hop"
  <2>1. p \in UnderWay(r)'
    BY <1>1, <1>2 DEF UnderWay
  <2> QED BY <1>1, <1>2, <1>3, <2>1 DEF StageOf
<1>5. ASSUME NEW s \in Requests, s # r PROVE StageOf(s)' = StageOf(s)
  <2>1. UnderWay(s)' = UnderWay(s) /\ route'[s] = route[s]
    BY <1>1, <1>2, <1>5 DEF UnderWay, MeshInv, TypeOK
  <2> QED BY <1>1, <2>1, StageKept
<1>6. Stage' = [Stage EXCEPT ![r] = "hop"]
  BY <1>4, <1>5 DEF Stage
<1> QED BY <1>1, <1>4, <1>6 DEF Stage, Path!Next, Path!Send

\* In any mesh a request follows its path: MeshRpc implements RequestPath
\* (RoutingInterceptor.ts:26-58, MeshNetwork.ts:94-100).
THEOREM PathFollowed == Spec => ImplementsPath
<1>1. Init => Path!Init
  BY DEF Init, Path!Init, StageOf
<1>2. MeshInv /\ [Next]_vars => [Path!Next]_(Path!pvars)
  <2> SUFFICES ASSUME MeshInv, [Next]_vars PROVE Path!Next
    OBVIOUS
  <2>1. ASSUME NEW r \in Requests, NEW e \in Routes, SendRequest(r, e) PROVE Path!Next
    BY <2>1, Starts
  <2>2. ASSUME NEW n \in Nodes, NEW p \in net, ReceiveOwn(n, p) PROVE Path!Next
    <3>1. /\ p.to = n /\ Dispatch(n, p, p.topic) /\ net' = net \ {p} /\ ~Elsewhere(n, p)
          /\ UNCHANGED route
      BY <2>2 DEF ReceiveOwn, Arrives
    <3> QED BY <3>1, Ends
  <2>3. ASSUME NEW n \in Nodes, NEW p \in net, ReceiveExpired(n, p) PROVE Path!Next
    <3>1. p.to = n /\ Dispatch(n, p, Dropped) /\ net' = net \ {p} /\ UNCHANGED route
      BY <2>3 DEF ReceiveExpired, Arrives
    <3>2. Dropped # Work
      BY DEF Dropped, Work
    <3> QED BY <3>1, <3>2, Ends
  <2>4. ASSUME NEW n \in Nodes, NEW p \in net, Relay(n, p) PROVE Path!Next
    BY <2>4, Forwards
  <2>5. ASSUME NEW x \in executing, Respond(x) PROVE Path!Next
    <3>1. net' = net \cup {Answer(x)} /\ UNCHANGED <<route, runs>>
      BY <2>5 DEF Respond, Answer
    <3>2. Answer(x).topic # Work
      BY DEF Answer, Work, Reply
    <3> QED BY <3>1, <3>2, Drops
  <2>6. CASE \/ \E n \in Nodes, p \in net : RelayFails(n, p)
             \/ \E x \in executing : RespondFails(x)
             \/ \E n, s \in Nodes : WindowEnds(n, s)
             \/ \E n, m \in Nodes : LinkUp(n, m)
             \/ \E l \in links : LinkDown(l)
             \/ \E n \in Nodes : Crash(n) \/ Restart(n)
             \/ UNCHANGED vars
    <3>1. net' \subseteq net /\ UNCHANGED <<route, runs>>
      BY <2>6 DEF RelayFails, RespondFails, WindowEnds, LinkUp, LinkDown, Crash,
                  Restart, history, vars
    <3> QED BY <3>1, Drops
  <2> QED BY <2>1, <2>2, <2>3, <2>4, <2>5, <2>6 DEF Next, Receive, Finish
<1> QED BY <1>1, <1>2, MeshCorrect, PTL DEF Spec, ImplementsPath, Path!Spec

=============================================================================
