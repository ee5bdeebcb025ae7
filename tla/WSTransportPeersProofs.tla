----------------------- MODULE WSTransportPeersProofs -----------------------
(***************************************************************************)
(* For any nodes, lines, inbound sockets and number of attempts: the types *)
(* of WSTransportPeers, and that the peers map names no socket that has    *)
(* ended, but under ids the socket gave before its last.                   *)
(***************************************************************************)
EXTENDS WSTransportPeers, TLAPS

\* The variables of the transport keep to the values the code gives them.
THEOREM TypeCorrect == Spec => []TypeOK
<1>1. Init => TypeOK
  BY PeersAssumption DEF Init, TypeOK, LineStates, InboundStates, Phases
<1>2. TypeOK /\ [Next]_vars => TypeOK'
  <2> SUFFICES ASSUME TypeOK, [Next]_vars PROVE TypeOK'
    OBVIOUS
  <2> USE PeersAssumption DEF TypeOK, LineStates, InboundStates, Phases
  <2>1. ASSUME NEW l \in Lines, ConnectToPeer(l) PROVE TypeOK'
    BY <2>1 DEF ConnectToPeer
  <2>2. ASSUME NEW l \in Lines, Opened(l) PROVE TypeOK'
    BY <2>2 DEF Opened, Enter, Sockets
  <2>3. ASSUME NEW l \in Lines, Closed(l) PROVE TypeOK'
    BY <2>3 DEF Closed, Forget, HandleReconnection, Sockets
  <2>4. ASSUME NEW l \in Lines, Retry(l) PROVE TypeOK'
    BY <2>4 DEF Retry
  <2>5. ASSUME NEW i \in Inbound, Accept(i) PROVE TypeOK'
    BY <2>5 DEF Accept
  <2>6. ASSUME NEW i \in Inbound, NEW p \in Peers, Identify(i, p) PROVE TypeOK'
    BY <2>6 DEF Identify, Enter, Sockets
  <2>7. ASSUME NEW i \in Inbound, InboundClosed(i) PROVE TypeOK'
    BY <2>7 DEF InboundClosed, Forget, Sockets
  <2>8. CASE BeginDisconnect
    BY <2>8 DEF BeginDisconnect
  <2>9. CASE CloseSockets
    BY <2>9 DEF CloseSockets
  <2>10. CASE Stopped
    BY <2>10 DEF Stopped
  <2>11. CASE Connect
    BY <2>11 DEF Connect
  <2>12. CASE UNCHANGED vars
    BY <2>12 DEF vars
  <2> QED BY <2>1, <2>2, <2>3, <2>4, <2>5, <2>6, <2>7, <2>8, <2>9, <2>10, <2>11,
             <2>12 DEF Next, LineStep, InboundStep
<1> QED BY <1>1, <1>2, PTL DEF Spec, Safe

\* An entry for node p that names socket s is in order.
Good(p, s) == \/ s \in Lines /\ OpenLine(s, p)
              \/ s \in Inbound /\ Identified(s, p)

\* A step that changes entries only to NoSocket, and leaves those it keeps in
\* order, keeps OnlyOldIdsDangle.
LEMMA EntriesKept ==
    ASSUME OnlyOldIdsDangle,
           \A p \in Peers : peers'[p] \in {peers[p], NoSocket},
           \A p \in Peers, s \in Sockets :
              peers'[p] = s /\ Good(p, s) => Good(p, s)',
           TypeOK
    PROVE  OnlyOldIdsDangle'
  BY DEF OnlyOldIdsDangle, Good, TypeOK

\* A step that enters a socket in order, and disturbs none of the entries,
\* keeps OnlyOldIdsDangle.
LEMMA EntryWritten ==
    ASSUME OnlyOldIdsDangle, TypeOK, NEW s \in Sockets, NEW q \in Peers,
           Enter(q, s), Good(q, s)',
           \A p \in Peers, t \in Sockets : Good(p, t) => Good(p, t)'
    PROVE  OnlyOldIdsDangle'
  BY PeersAssumption DEF OnlyOldIdsDangle, Good, TypeOK, Enter

\* An entry of peers outlives its socket only under an id that the socket
\* gave before another, whichever sockets overwrite and delete each other's
\* entries (WSTransport.ts:104-121 and 285-304).
THEOREM EntriesCorrect == Spec => []OnlyOldIdsDangle
<1>1. Init => OnlyOldIdsDangle
  BY DEF Init, OnlyOldIdsDangle
<1>2. TypeOK /\ OnlyOldIdsDangle /\ [Next]_vars => OnlyOldIdsDangle'
  <2> SUFFICES ASSUME TypeOK, OnlyOldIdsDangle, [Next]_vars
               PROVE OnlyOldIdsDangle'
    OBVIOUS
  <2> USE PeersAssumption DEF Good, OpenLine, Identified
  <2>1. ASSUME NEW l \in Lines, ConnectToPeer(l) PROVE OnlyOldIdsDangle'
    BY <2>1, EntriesKept DEF ConnectToPeer, Sockets, TypeOK
  <2>2. ASSUME NEW l \in Lines, Opened(l) PROVE OnlyOldIdsDangle'
    <3>1. Good(Remote[l], l)'
      BY <2>2 DEF Opened, TypeOK
    <3>2. \A p \in Peers, t \in Sockets : Good(p, t) => Good(p, t)'
      BY <2>2 DEF Opened, Sockets, TypeOK
    <3> QED BY <2>2, <3>1, <3>2, EntryWritten DEF Opened, Sockets
  <2>3. ASSUME NEW l \in Lines, Closed(l) PROVE OnlyOldIdsDangle'
    <3>1. \A p \in Peers : peers'[p] \in {peers[p], NoSocket}
      BY <2>3 DEF Closed, Forget, TypeOK
    <3>2. \A p \in Peers, s \in Sockets :
             peers'[p] = s /\ Good(p, s) => Good(p, s)'
      BY <2>3 DEF Closed, Forget, HandleReconnection, Sockets, TypeOK
    <3> QED BY <3>1, <3>2, EntriesKept
  <2>4. ASSUME NEW l \in Lines, Retry(l) PROVE OnlyOldIdsDangle'
    BY <2>4, EntriesKept DEF Retry, Sockets, TypeOK
  <2>5. ASSUME NEW i \in Inbound, Accept(i) PROVE OnlyOldIdsDangle'
    BY <2>5, EntriesKept DEF Accept, Registered, Sockets, TypeOK
  <2>6. ASSUME NEW i \in Inbound, NEW p \in Peers, Identify(i, p)
        PROVE OnlyOldIdsDangle'
    <3>1. Good(p, i)'
      BY <2>6 DEF Identify, TypeOK
    <3>2. \A q \in Peers, t \in Sockets : Good(q, t) => Good(q, t)'
      BY <2>6 DEF Identify, Sockets, TypeOK
    <3> QED BY <2>6, <3>1, <3>2, EntryWritten DEF Identify, Sockets
  <2>7. ASSUME NEW i \in Inbound, InboundClosed(i) PROVE OnlyOldIdsDangle'
    <3>1. \A p \in Peers : peers'[p] \in {peers[p], NoSocket}
      BY <2>7 DEF InboundClosed, Forget, TypeOK
    <3>2. \A p \in Peers, s \in Sockets :
             peers'[p] = s /\ Good(p, s) => Good(p, s)'
      BY <2>7 DEF InboundClosed, Forget, Sockets, TypeOK
    <3> QED BY <3>1, <3>2, EntriesKept
  <2>8. CASE BeginDisconnect
    BY <2>8 DEF BeginDisconnect, OnlyOldIdsDangle
  <2>9. CASE CloseSockets
    BY <2>9 DEF CloseSockets, OnlyOldIdsDangle
  <2>10. CASE Stopped
    BY <2>10 DEF Stopped, OnlyOldIdsDangle
  <2>11. CASE Connect
    BY <2>11 DEF Connect, OnlyOldIdsDangle
  <2>12. CASE UNCHANGED vars
    BY <2>12 DEF vars, OnlyOldIdsDangle
  <2> QED BY <2>1, <2>2, <2>3, <2>4, <2>5, <2>6, <2>7, <2>8, <2>9, <2>10, <2>11,
             <2>12 DEF Next, LineStep, InboundStep
<1> QED BY <1>1, <1>2, TypeCorrect, PTL DEF Spec, Safe

=============================================================================
