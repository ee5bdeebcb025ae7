-------------------------- MODULE WSTransportPeers --------------------------
(***************************************************************************)
(* The sockets of the Node.js WebSocket transport                          *)
(* (src/src/transports/node/WSTransport.ts): the peers map, which inbound  *)
(* and outbound sockets write to, the reconnection of outbound sockets     *)
(* with its shared budget of attempts, and the closing of it all.          *)
(*                                                                         *)
(* A call of connectToPeer() starts a line of sockets, of which one exists *)
(* at a time: the next is opened by the timer that the close event of the  *)
(* last one set.  A line and its present socket go by one name.            *)
(***************************************************************************)
EXTENDS Naturals

CONSTANTS Peers,        \* remote nodes
          Lines,        \* calls of connectToPeer()
          Inbound,      \* sockets accepted by the server; a name that no entry
                        \* of peers holds may stand for a later one again
          Remote,       \* Remote[l]: the node id that line l was called with
          NoSocket, NoPeer,
          MaxAttempts   \* MAX_RECONNECT_ATTEMPTS

Sockets == Lines \cup Inbound

ASSUME PeersAssumption == /\ Lines \cap Inbound = {}
                          /\ NoSocket \notin Sockets
                          /\ NoPeer \notin Peers
                          /\ Remote \in [Lines -> Peers]
                          /\ MaxAttempts \in Nat

VARIABLES
    line,       \* state of the present socket of each line, or its timer
    accepted,   \* state of each inbound socket
    peerId,     \* the id that an inbound socket gave last
    peers,      \* the map from node id to socket
    reconnectAttempts,
    phase       \* progress of connect() and disconnect()

vars == <<line, accepted, peerId, peers, reconnectAttempts, phase>>

LineStates == {"idle", "connecting", "open", "closing", "waiting", "given_up"}
InboundStates == {"none", "open", "closing"}
Phases == {"up", "draining", "stopping", "closed"}

Init == /\ line = [l \in Lines |-> "idle"]
        /\ accepted = [i \in Inbound |-> "none"]
        /\ peerId = [i \in Inbound |-> NoPeer]
        /\ peers = [p \in Peers |-> NoSocket]
        /\ reconnectAttempts = 0
        /\ phase = "up"

Registered == {peers[p] : p \in Peers}

Enter(p, s) == peers' = [peers EXCEPT ![p] = s]

\* delete by node id, whichever socket is registered there.
Forget(p) == peers' = [peers EXCEPT ![p] = NoSocket]

-----------------------------------------------------------------------------
(* Outbound sockets *)

\* connectToPeer() looks at nothing: neither at the phase nor at peers.
ConnectToPeer(l) ==
    /\ line[l] = "idle"
    /\ line' = [line EXCEPT ![l] = "connecting"]
    /\ UNCHANGED <<accepted, peerId, peers, reconnectAttempts, phase>>

\* The open event.
Opened(l) ==
    /\ line[l] = "connecting"
    /\ line' = [line EXCEPT ![l] = "open"]
    /\ Enter(Remote[l], l)
    /\ reconnectAttempts' = 0
    /\ UNCHANGED <<accepted, peerId, phase>>

\* Mutant: one attempt more than the maximum is made.
HandleReconnection_OneMore(l) ==
    IF reconnectAttempts > MaxAttempts
    THEN /\ line' = [line EXCEPT ![l] = "given_up"]
         /\ UNCHANGED reconnectAttempts
    ELSE /\ line' = [line EXCEPT ![l] = "waiting"]
         /\ reconnectAttempts' = reconnectAttempts + 1

\* Mutant: the attempts are not counted.
HandleReconnection_Uncounted(l) ==
    /\ line' = [line EXCEPT ![l] =
                  IF reconnectAttempts >= MaxAttempts THEN "given_up" ELSE "waiting"]
    /\ UNCHANGED reconnectAttempts

\* handleReconnection(): the budget is common to all lines.
HandleReconnection(l) ==
    IF reconnectAttempts >= MaxAttempts
    THEN /\ line' = [line EXCEPT ![l] = "given_up"]
         /\ UNCHANGED reconnectAttempts
    ELSE /\ line' = [line EXCEPT ![l] = "waiting"]
         /\ reconnectAttempts' = reconnectAttempts + 1

\* The close event, of a socket that was open or never opened.
Closed(l) ==
    /\ line[l] \in {"connecting", "open", "closing"}
    /\ Forget(Remote[l])
    /\ HandleReconnection(l)
    /\ UNCHANGED <<accepted, peerId, phase>>

\* The reconnection timer.
Retry(l) ==
    /\ line[l] = "waiting"
    /\ line' = [line EXCEPT ![l] = "connecting"]
    /\ UNCHANGED <<accepted, peerId, peers, reconnectAttempts, phase>>

-----------------------------------------------------------------------------
(* Inbound sockets *)

Accept(i) ==
    /\ phase \in {"up", "draining"}
    /\ accepted[i] = "none" /\ i \notin Registered
    /\ accepted' = [accepted EXCEPT ![i] = "open"]
    /\ peerId' = [peerId EXCEPT ![i] = NoPeer]
    /\ UNCHANGED <<line, peers, reconnectAttempts, phase>>

\* Each message with a senderNodeID p, whatever id the socket gave before,
\* also one that arrives while the socket is being closed.
Identify(i, p) ==
    /\ accepted[i] # "none"
    /\ peerId' = [peerId EXCEPT ![i] = p]
    /\ Enter(p, i)
    /\ UNCHANGED <<line, accepted, reconnectAttempts, phase>>

\* Mutant: the entry of a socket that disconnect() closes is left behind.
InboundClosed_KeepsEntry(i) ==
    /\ accepted[i] # "none"
    /\ accepted' = [accepted EXCEPT ![i] = "none"]
    /\ IF peerId[i] # NoPeer /\ accepted[i] = "open"
       THEN Forget(peerId[i]) ELSE UNCHANGED peers
    /\ UNCHANGED <<line, peerId, reconnectAttempts, phase>>

\* The close event deletes the last id only: an entry under an earlier one
\* stays.
InboundClosed(i) ==
    /\ accepted[i] # "none"
    /\ accepted' = [accepted EXCEPT ![i] = "none"]
    /\ IF peerId[i] # NoPeer THEN Forget(peerId[i]) ELSE UNCHANGED peers
    /\ UNCHANGED <<line, peerId, reconnectAttempts, phase>>

-----------------------------------------------------------------------------
(* connect() and disconnect() *)

BeginDisconnect ==
    /\ phase = "up"
    /\ phase' = "draining"
    /\ UNCHANGED <<line, accepted, peerId, peers, reconnectAttempts>>

\* The drain loop has ended: the sockets of peers are closed, the map is
\* cleared and the server stops accepting.  A socket that has ended already,
\* under an entry left behind, is not affected.
CloseSockets ==
    /\ phase = "draining"
    /\ phase' = "stopping"
    /\ line' = [l \in Lines |-> IF l \in Registered THEN "closing" ELSE line[l]]
    /\ accepted' = [i \in Inbound |-> IF i \in Registered /\ accepted[i] # "none"
                                     THEN "closing" ELSE accepted[i]]
    /\ peers' = [p \in Peers |-> NoSocket]
    /\ UNCHANGED <<peerId, reconnectAttempts>>

\* Mutant: the server waits for outbound sockets too.
Stopped_Outbound ==
    /\ phase = "stopping"
    /\ \A i \in Inbound : accepted[i] = "none"
    /\ \A l \in Lines : line[l] \notin {"connecting", "open", "closing"}
    /\ phase' = "closed"
    /\ UNCHANGED <<line, accepted, peerId, peers, reconnectAttempts>>

\* server.close() calls back when the last inbound connection has ended.
Stopped ==
    /\ phase = "stopping"
    /\ \A i \in Inbound : accepted[i] = "none"
    /\ phase' = "closed"
    /\ UNCHANGED <<line, accepted, peerId, peers, reconnectAttempts>>

\* connect() with a new server.
Connect ==
    /\ phase = "closed"
    /\ phase' = "up"
    /\ UNCHANGED <<line, accepted, peerId, peers, reconnectAttempts>>

LineStep(l) == ConnectToPeer(l) \/ Opened(l) \/ Closed(l) \/ Retry(l)

InboundStep(i) == Accept(i) \/ (\E p \in Peers : Identify(i, p)) \/ InboundClosed(i)

Next == \/ \E l \in Lines : LineStep(l)
        \/ \E i \in Inbound : InboundStep(i)
        \/ BeginDisconnect \/ CloseSockets \/ Stopped \/ Connect

\* Timers fire, an attempt to connect succeeds or fails, a socket that is
\* being closed ends (ws gives up waiting for the other side), and the server
\* calls back.  Open sockets need not close and remote nodes need not speak.
Fairness ==
    /\ \A l \in Lines : /\ WF_vars(Retry(l))
                        /\ WF_vars(Opened(l) \/ (line[l] # "open" /\ Closed(l)))
    /\ \A i \in Inbound : WF_vars(accepted[i] = "closing" /\ InboundClosed(i))
    /\ WF_vars(Stopped)

Safe == Init /\ [][Next]_vars

Spec == Safe /\ Fairness

-----------------------------------------------------------------------------
(* Properties *)

\* The variables take the values the code gives them.
TypeOK == /\ line \in [Lines -> LineStates]
          /\ accepted \in [Inbound -> InboundStates]
          /\ peerId \in [Inbound -> Peers \cup {NoPeer}]
          /\ peers \in [Peers -> Sockets \cup {NoSocket}]
          /\ reconnectAttempts \in 0..MaxAttempts
          /\ phase \in Phases

\* An entry of peers names a socket that still exists, so that nothing is sent
\* to a socket whose close event has passed, with one exception: an entry
\* whose inbound socket gave another id afterwards, since the close handler
\* deletes the last id only.  Several sockets of a node overwrite and delete
\* each other's entries, and messages on closing sockets write entries after
\* disconnect() has cleared the map (WSTransport.ts:104-121, 137-142, 192-195,
\* 287 and 301).
OpenLine(l, p) == Remote[l] = p /\ line[l] \in {"open", "closing"}
Identified(i, p) == IF peerId[i] = p THEN accepted[i] # "none"
                                     ELSE peerId[i] # NoPeer
OnlyOldIdsDangle ==
    \A p \in Peers : LET s == peers[p] IN
        s # NoSocket => \/ s \in Lines /\ OpenLine(s, p)
                        \/ s \in Inbound /\ Identified(s, p)

\* Nobody is retried for ever in vain: the attempts to reconnect end, or one
\* of them opens a socket, although the lines share the counter and connect
\* and fail in any order (WSTransport.ts:286 and 308-323).
Trying == \E l \in Lines : line[l] \in {"connecting", "waiting"}
RetryEnds == Trying ~> ~Trying \/ \E l \in Lines : line[l] = "open"

\* disconnect() returns, unless an inbound socket is open that had no entry
\* in peers and that therefore nobody closes; lines that reconnect meanwhile
\* do not hold it up (WSTransport.ts:192-204).
Stray == \E i \in Inbound : accepted[i] = "open"
DisconnectReturns == phase = "stopping" ~> phase = "closed" \/ Stray

\* A transport that has been closed opens no connections by itself
\* (BaseTransport.ts:25: disconnect() closes the connection gracefully).
ClosedStaysClosed ==
    [][phase = "closed" => ~ \E l \in Lines : Retry(l)]_vars

=============================================================================
