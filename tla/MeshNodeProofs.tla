--------------------------- MODULE MeshNodeProofs ---------------------------
(***************************************************************************)
(* For any number of transports, callers of stop(), connections, clients   *)
(* and starts: the types of MeshNode, that no client makes the TCP         *)
(* transport hold more than its limit, that no client that is a node of    *)
(* this repository gets past the handshake, and that a stop() that was not *)
(* called while start() waited leaves nothing running.                     *)
(***************************************************************************)
EXTENDS MeshNode, SequenceTheorems, TLAPS

-----------------------------------------------------------------------------
(* The buffer of a connection *)

Buffers == TcpTypeOK /\ BufferBounded

\* flattenBufferList() returns as many cells as it is asked for.
LEMMA FlatTyped ==
    ASSUME NEW h \in Seq(Nat), NEW n \in Nat
    PROVE  Flat(h, n) \in Seq(Nat) /\ Len(Flat(h, n)) = n
<1>1. \A i \in 1..n : (IF i <= Len(h) THEN h[i] ELSE 0) \in Nat
  OBVIOUS
<1> QED BY <1>1 DEF Flat

\* It leaves no more behind than there was.
LEMMA RestTyped ==
    ASSUME NEW h \in Seq(Nat), NEW n \in Nat
    PROVE  Rest(h, n) \in Seq(Nat) /\ Len(Rest(h, n)) <= Len(h)
<1>1. CASE n <= Len(h)
  <2>1. Rest(h, n) = SubSeq(h, n + 1, Len(h))
    BY <1>1 DEF Rest
  <2>2. Rest(h, n) \in Seq(Nat) /\ Len(Rest(h, n)) = Len(h) - n
    BY <1>1, <2>1
  <2> QED BY <2>2
<1>2. CASE ~(n <= Len(h))
  BY <1>2 DEF Rest
<1> QED BY <1>1, <1>2

\* The lengths read from a buffer are natural numbers.
LEMMA LengthsTyped ==
    ASSUME NEW h \in Seq(Nat)
    PROVE  /\ Total(h) \in Nat
           /\ Total(h) >= HeaderLen
           /\ Full(h) \in Seq(Nat)
           /\ Len(Full(h)) = Total(h)
           /\ Payload(h) \in Nat
<1>1. Flat(h, HeaderLen)[2] \in Nat
  <2>1. Flat(h, 2) \in Seq(Nat) /\ Len(Flat(h, 2)) = 2
    BY FlatTyped
  <2> QED BY <2>1 DEF HeaderLen
<1>2. Total(h) \in Nat /\ Total(h) >= HeaderLen
  BY <1>1 DEF Total, HeaderLen
<1>3. Rest(h, HeaderLen) \in Seq(Nat)
  BY RestTyped DEF HeaderLen
<1>4. Full(h) \in Seq(Nat) /\ Len(Full(h)) = Total(h)
  BY <1>2, <1>3, FlatTyped DEF Full
<1>5. Payload(h) \in Nat
  BY <1>2, <1>4 DEF Payload, HeaderLen
<1> QED BY <1>2, <1>4, <1>5

\* A chunk is added to what is held.
LEMMA FilledTyped ==
    ASSUME Buffers, NEW c \in Conns, NEW n, Sends(c, n)
    PROVE  /\ n \in Nat
           /\ Filled(c, n) \in Seq(Nat)
           /\ Len(Filled(c, n)) = Len(held[c]) + n
           /\ SubSeq(left[c], n + 1, Len(left[c])) \in Seq(Nat)
<1>1. left[c] \in Seq(Nat) /\ held[c] \in Seq(Nat) /\ n \in 0..Len(left[c])
  BY DEF Buffers, TcpTypeOK, Sends
<1>2. SubSeq(left[c], 1, n) \in Seq(Nat) /\ Len(SubSeq(left[c], 1, n)) = n
  BY <1>1, SubSeqProperties
<1>3. SubSeq(left[c], n + 1, Len(left[c])) \in Seq(Nat)
  BY <1>1, SubSeqProperties
<1>4. PICK x \in Seq(Nat) : x = SubSeq(left[c], 1, n)
  BY <1>2
<1>5. held[c] \o x \in Seq(Nat) /\ Len(held[c] \o x) = Len(held[c]) + Len(x)
  BY <1>1, ConcatProperties
<1>6. n \in Nat
  BY <1>1
<1>7. Filled(c, n) = held[c] \o x /\ Len(x) = n
  BY <1>2, <1>4 DEF Filled
<1> QED BY <1>3, <1>5, <1>6, <1>7

\* A step that keeps h and counts p leaves the buffers in order.
LEMMA KeepInOrder ==
    ASSUME Buffers, NEW c \in Conns, NEW n, Sends(c, n),
           NEW h \in Seq(Nat), NEW p \in Nat, Len(h) <= p, p <= Limit,
           Keep(c, n, h, p), peers' \subseteq Conns
    PROVE  Buffers'
<1>1. SubSeq(left[c], n + 1, Len(left[c])) \in Seq(Nat)
  BY FilledTyped
<1>2. TcpTypeOK'
  BY <1>1 DEF Keep, Buffers, TcpTypeOK
<1>3. BufferBounded'
  BY DEF Keep, Buffers, TcpTypeOK, BufferBounded
<1> QED BY <1>2, <1>3 DEF Buffers

\* The buffer of a connection that is over is empty.
LEMMA GoneInOrder ==
    ASSUME Buffers, NEW c \in Conns, Gone(c), peers' \subseteq Conns
    PROVE  Buffers'
<1>1. TcpTypeOK'
  BY DEF Gone, Buffers, TcpTypeOK
<1>2. BufferBounded'
  BY FramingAssumption DEF Gone, Buffers, TcpTypeOK, BufferBounded, Limit
<1> QED BY <1>1, <1>2 DEF Buffers

\* Whatever processData() makes of a chunk, it keeps the buffers in order.
LEMMA ProcessDataInOrder ==
    ASSUME Buffers, NEW c \in Conns, NEW n, ProcessData(c, n)
    PROVE  Buffers'
<1> DEFINE h == Filled(c, n)
<1>1. Sends(c, n)
  BY DEF ProcessData, Overrun, Await, Partial, Oversize, Torn, DispatchFrame,
         Complete
<1>2. n \in Nat /\ h \in Seq(Nat) /\ Len(h) = Len(held[c]) + n
  BY <1>1, FilledTyped
<1>3. pot[c] \in Nat /\ Len(held[c]) <= pot[c] /\ peers \subseteq Conns
      /\ Len(held[c]) \in Nat
  BY DEF Buffers, TcpTypeOK, BufferBounded
<1>4. pot[c] + n \in Nat /\ Len(h) <= pot[c] + n
  BY <1>2, <1>3
<1>5. Total(h) \in Nat /\ Full(h) \in Seq(Nat) /\ Len(Full(h)) = Total(h)
      /\ Payload(h) \in Nat
  BY <1>2, LengthsTyped
<1> HIDE DEF h
<1>6. CASE Overrun(c, n)
  BY <1>3, <1>6, GoneInOrder DEF Overrun, Destroy
<1>7. CASE Oversize(c, n)
  BY <1>3, <1>7, GoneInOrder DEF Oversize, Destroy
<1>8. CASE Await(c, n)
  <2>1. Keep(c, n, h, pot[c] + n) /\ pot[c] + n <= Limit /\ peers' = peers
    BY <1>8 DEF Await, Fits, h
  <2> QED BY <1>1, <1>2, <1>3, <1>4, <2>1, KeepInOrder
<1>9. CASE Partial(c, n)
  <2>1. Keep(c, n, Rest(h, HeaderLen), pot[c] + n) /\ pot[c] + n <= Limit
        /\ peers' = peers
    BY <1>9 DEF Partial, Fits, h
  <2>2. Rest(h, HeaderLen) \in Seq(Nat) /\ Len(Rest(h, HeaderLen)) <= Len(h)
    BY <1>2, RestTyped DEF HeaderLen
  <2>3. Len(Rest(h, HeaderLen)) <= pot[c] + n
    BY <1>2, <1>3, <1>4, <2>2
  <2> QED BY <1>1, <1>3, <1>4, <2>1, <2>2, <2>3, KeepInOrder
<1>10. CASE Torn(c, n)
  <2> DEFINE r == Rest(Rest(h, HeaderLen), Total(h))
  <2>1. Keep(c, n, r, pot[c] + n) /\ pot[c] + n <= Limit /\ peers' = peers
    BY <1>10 DEF Torn, Complete, Fits, h
  <2>2. Rest(h, HeaderLen) \in Seq(Nat) /\ Len(Rest(h, HeaderLen)) <= Len(h)
    BY <1>2, RestTyped DEF HeaderLen
  <2>3. r \in Seq(Nat) /\ Len(r) <= Len(Rest(h, HeaderLen))
    BY <1>5, <2>2, RestTyped
  <2> HIDE DEF r
  <2>4. Len(r) <= pot[c] + n
    BY <1>2, <1>3, <1>4, <2>2, <2>3
  <2> QED BY <1>1, <1>3, <1>4, <2>1, <2>3, <2>4, KeepInOrder
<1>11. CASE DispatchFrame(c, n)
  <2> DEFINE r == SubSeq(Full(h), HeaderLen + Payload(h) + 1, Total(h))
  <2>1. HeaderLen + Payload(h) <= Total(h) /\ Total(h) <= pot[c] + n
        /\ pot[c] + n <= Limit
    BY <1>2, <1>3, <1>5, <1>11 DEF DispatchFrame, Complete, Fits, h
  <2>2. /\ held' = [held EXCEPT ![c] = r] /\ pot' = [pot EXCEPT ![c] = Len(r)]
        /\ looping' = looping \cup {c} /\ peers' \in {peers, peers \cup {c}}
        /\ conn' \in {conn, [conn EXCEPT ![c] = "gone"]}
        /\ \/ left' = [left EXCEPT ![c] = SubSeq(@, n + 1, Len(@))]
           \/ left' = [left EXCEPT ![c] = <<>>]
    BY <1>11 DEF DispatchFrame, h
  <2>3. r \in Seq(Nat) /\ Len(r) = Total(h) - (HeaderLen + Payload(h))
    BY <1>5, <2>1, SubSeqProperties DEF HeaderLen
  <2> HIDE DEF r
  <2>4. Len(r) \in Nat /\ Len(r) <= Limit
    <3>1. Limit \in Nat
      BY FramingAssumption DEF Limit
    <3>2. Len(r) \in Nat /\ Len(r) <= Total(h)
      BY <1>5, <2>1, <2>3 DEF HeaderLen
    <3> QED BY <1>4, <1>5, <2>1, <3>1, <3>2
  <2>5. left' \in [Conns -> Seq(Nat)]
    <3>1. SubSeq(left[c], n + 1, Len(left[c])) \in Seq(Nat) /\ <<>> \in Seq(Nat)
      BY <1>1, FilledTyped
    <3>2. left \in [Conns -> Seq(Nat)]
      BY DEF Buffers, TcpTypeOK
    <3> QED BY <2>2, <3>1, <3>2
  <2>6. TcpTypeOK'
    BY <1>3, <2>2, <2>3, <2>4, <2>5 DEF Buffers, TcpTypeOK
  <2>7. BufferBounded'
    BY <2>2, <2>3, <2>4 DEF Buffers, TcpTypeOK, BufferBounded
  <2> QED BY <2>6, <2>7 DEF Buffers
<1> QED BY <1>6, <1>7, <1>8, <1>9, <1>10, <1>11 DEF ProcessData

\* Nothing a client does brings the buffers out of order.
LEMMA TcpInOrder == Buffers /\ TcpStep => Buffers'
<1> SUFFICES ASSUME Buffers, TcpStep PROVE Buffers'
  OBVIOUS
<1>1. ASSUME NEW c \in Conns, End(c) PROVE Buffers'
  <2>1. peers' \subseteq Conns /\ Gone(c)
    BY <1>1 DEF End, Buffers, TcpTypeOK
  <2> QED BY <2>1, GoneInOrder
<1>2. ASSUME NEW c \in Conns, NEW n \in 0..Len(left[c]), ProcessData(c, n)
      PROVE  Buffers'
  BY <1>2, ProcessDataInOrder
<1> QED BY <1>1, <1>2 DEF TcpStep

\* disconnect() does not touch them.
LEMMA DisconnectInOrder ==
    ASSUME Buffers, NEW k, Disconnect(k) PROVE Buffers'
<1>1. CASE DestroyPeers
  <2>1. TcpTypeOK'
    BY <1>1 DEF DestroyPeers, Buffers, TcpTypeOK
  <2>2. BufferBounded'
    BY <1>1 DEF DestroyPeers, Buffers, BufferBounded
  <2> QED BY <2>1, <2>2 DEF Buffers
<1>2. CASE UNCHANGED tcpVars
  BY <1>2 DEF tcpVars, Buffers, TcpTypeOK, BufferBounded
<1> QED BY <1>1, <1>2 DEF Disconnect

\* A client that connects has an empty buffer.
LEMMA AcceptInOrder ==
    ASSUME Buffers, NEW c \in Conns, Accept(c) PROVE Buffers'
<1>1. TcpTypeOK'
  BY FramingAssumption DEF Accept, Buffers, TcpTypeOK
<1>2. BufferBounded'
  BY DEF Accept, Buffers, BufferBounded
<1> QED BY <1>1, <1>2 DEF Buffers

\* Each step of the node is one of its own or one of a client.
LEMMA NodeBuffers == Buffers /\ [Next]_vars => Buffers'
<1> SUFFICES ASSUME Buffers, [Next]_vars PROVE Buffers'
  OBVIOUS
<1>1. CASE UNCHANGED tcpVars
  BY <1>1 DEF tcpVars, Buffers, TcpTypeOK, BufferBounded
<1>2. CASE TcpStep
  BY <1>2, TcpInOrder
<1>3. ASSUME NEW c \in Conns, Connects(c) PROVE Buffers'
  BY <1>3, AcceptInOrder DEF Connects
<1>4. ASSUME NEW s \in Stoppers, Stop(s) \/ StopStep(s) PROVE Buffers'
  <2>1. UNCHANGED tcpVars \/ \E k \in Nat : Disconnect(k)
    BY <1>4, NodeAssumption
       DEF Stop, StopStep, NextTransport, LastTransport, HttpClosed
  <2> QED BY <1>1, <2>1, DisconnectInOrder
<1>5. Start \/ StartStep \/ MeshStep \/ UNCHANGED vars => UNCHANGED tcpVars
  BY DEF Start, StartStep, HttpListens, TransportConnects, ListenFails, MeshStep,
         GossipRound, Arrive, Dispatch, Forget, vars, tcpVars
<1> QED BY <1>1, <1>2, <1>3, <1>4, <1>5 DEF Next

\* Whatever clients send and however it is cut into chunks, the TCP transport
\* never holds more than its limit (TCPTransport.ts:188-224).
THEOREM BuffersCorrect == Spec => []BufferBounded
<1>1. Init => Buffers
  BY FramingAssumption DEF Init, TcpInit, Buffers, TcpTypeOK, BufferBounded, Limit
<1>2. Buffers => BufferBounded
  BY DEF Buffers
<1> QED BY <1>1, <1>2, NodeBuffers, PTL DEF Spec, Safe

-----------------------------------------------------------------------------
(* The handshake *)

\* A type is found at the beginning, behind an empty frame or behind a payload.
Sound(q) == \A i \in 2..Len(q) : q[i] = AUTH => q[i - 1] \in {0, Text}

Handshakes ==
    /\ peers = {}
    /\ \A c \in Conns : /\ Sound(held[c] \o left[c])
                        /\ conn[c] = "none" => held[c] = <<>> /\ c \notin looping

\* What a node sends is sound.
LEMMA SentIsSound ==
    ASSUME NEW s \in Seq(Nat), SentByNode(s)
    PROVE  Sound(s)
<1>1. PICK types \in SUBSET DOMAIN s :
        /\ \A j \in types : j + 1 \in DOMAIN s /\ (s[j + 1] = 0 \/ s[j + 1] >= HeaderLen)
        /\ \A j \in types : \A k \in (j + 1)..(j + 1 + s[j + 1]) : k \in DOMAIN s \ types
        /\ \A j \in types : j = 1 \/ \E i \in types : j = i + HeaderLen + s[i + 1]
        /\ \A k \in DOMAIN s \ types : k - 1 \in types \/ s[k] = Text
  BY DEF SentByNode
<1>2. SUFFICES ASSUME NEW i \in 2..Len(s), s[i] = AUTH PROVE s[i - 1] \in {0, Text}
  BY DEF Sound
<1>3. i \in types
  <2> SUFFICES ASSUME i \notin types PROVE FALSE
    OBVIOUS
  <2>1. i \in DOMAIN s \ types /\ s[i] # Text
    BY <1>2, FramingAssumption DEF Text, Limit, AUTH, HeaderLen
  <2>2. i - 1 \in types
    BY <1>1, <2>1
  <2>3. s[i - 1 + 1] = 0 \/ s[i - 1 + 1] >= HeaderLen
    BY <1>1, <2>2
  <2>4. i - 1 + 1 = i
    OBVIOUS
  <2> QED BY <1>2, <2>3, <2>4 DEF AUTH, HeaderLen
<1>4. PICK j \in types : i = j + HeaderLen + s[j + 1]
  BY <1>1, <1>3
<1>5. /\ j \in Nat /\ s[j + 1] \in Nat
      /\ s[j + 1] = 0 \/ s[j + 1] >= HeaderLen
      /\ \A k \in (j + 1)..(j + 1 + s[j + 1]) : k \in DOMAIN s \ types
  BY <1>1
<1>6. CASE s[j + 1] = 0
  BY <1>4, <1>5, <1>6 DEF HeaderLen
<1>7. CASE s[j + 1] >= HeaderLen
  <2> DEFINE n == s[j + 1]
  <2>1. n \in Nat /\ n >= 2 /\ i = j + 2 + n /\ j \in Nat
    BY <1>4, <1>5, <1>7 DEF HeaderLen
  <2>2. \A k \in (j + 1)..(j + 1 + n) : k \in DOMAIN s \ types
    BY <1>5
  <2> HIDE DEF n
  <2>3. i - 1 \in (j + 1)..(j + 1 + n) /\ i - 1 - 1 \in (j + 1)..(j + 1 + n)
    BY <2>1
  <2>4. i - 1 \in DOMAIN s \ types /\ i - 1 - 1 \notin types
    BY <2>2, <2>3
  <2> QED BY <1>1, <2>4
<1> QED BY <1>5, <1>6, <1>7

\* A sequence without its first n cells.
LEMMA TailCells ==
    ASSUME NEW q \in Seq(Nat), NEW n \in Nat, n <= Len(q)
    PROVE  /\ SubSeq(q, n + 1, Len(q)) \in Seq(Nat)
           /\ Len(SubSeq(q, n + 1, Len(q))) = Len(q) - n
           /\ \A i \in 1..(Len(q) - n) : SubSeq(q, n + 1, Len(q))[i] = q[i + n]
  OBVIOUS

\* What is left of it is sound, whatever is cut off at the beginning of the
\* part that has arrived.
LEMMA RestIsSound ==
    ASSUME NEW a \in Seq(Nat), NEW b \in Seq(Nat), NEW n \in Nat, Sound(a \o b)
    PROVE  Sound(Rest(a, n) \o b)
<1>1. CASE n <= Len(a)
  <2> DEFINE r == SubSeq(a, n + 1, Len(a))
  <2>1. Rest(a, n) = r
    BY <1>1 DEF Rest
  <2>2. /\ r \in Seq(Nat) /\ Len(r) = Len(a) - n
        /\ \A i \in 1..Len(r) : r[i] = a[i + n]
    BY <1>1, TailCells
  <2> HIDE DEF r
  <2>3. Len(r \o b) = Len(a \o b) - n
    <3>1. Len(r \o b) = Len(r) + Len(b) /\ Len(a \o b) = Len(a) + Len(b)
      BY <2>2, ConcatProperties
    <3> QED BY <2>2, <3>1
  <2>4. ASSUME NEW i \in 1..Len(r \o b) PROVE (r \o b)[i] = (a \o b)[i + n]
    <3>1. i \in 1..(Len(r) + Len(b)) /\ i + n \in 1..(Len(a) + Len(b))
      BY <1>1, <2>2, ConcatProperties
    <3>2. (r \o b)[i] = IF i <= Len(r) THEN r[i] ELSE b[i - Len(r)]
      BY <2>2, <3>1, ConcatProperties
    <3>3. (a \o b)[i + n] = IF i + n <= Len(a) THEN a[i + n] ELSE b[i + n - Len(a)]
      BY <3>1, ConcatProperties
    <3>4. CASE i <= Len(r)
      BY <2>2, <3>1, <3>2, <3>3, <3>4
    <3>5. CASE ~(i <= Len(r))
      <4>1. i + n - Len(a) = i - Len(r) /\ ~(i + n <= Len(a))
        BY <2>2, <3>1, <3>5
      <4> QED BY <3>2, <3>3, <3>5, <4>1
    <3> QED BY <3>4, <3>5
  <2>5. ASSUME NEW i \in 2..Len(r \o b), (r \o b)[i] = AUTH
        PROVE  (r \o b)[i - 1] \in {0, Text}
    <3>1. /\ i + n \in 2..Len(a \o b)
          /\ i \in 1..Len(r \o b) /\ i - 1 \in 1..Len(r \o b)
      BY <2>2, <2>3
    <3>2. (a \o b)[i + n] = AUTH /\ (r \o b)[i - 1] = (a \o b)[i - 1 + n]
      BY <2>4, <2>5, <3>1, Zenon
    <3>3. PICK k \in 2..Len(a \o b) : k = i + n
      BY <3>1
    <3>4. (a \o b)[k] = AUTH
      BY <3>2, <3>3
    <3>5. (a \o b)[k - 1] \in {0, Text}
      BY <3>4 DEF Sound
    <3>6. k - 1 = i - 1 + n
      BY <3>3
    <3> QED BY <3>2, <3>5, <3>6
  <2> QED BY <2>1, <2>5 DEF Sound
<1>2. CASE ~(n <= Len(a))
  BY <1>2 DEF Rest
<1> QED BY <1>1, <1>2

\* The parts of a stream can be put together in any order.
LEMMA Regrouped ==
    ASSUME NEW a \in Seq(Nat), NEW x \in Seq(Nat), NEW y \in Seq(Nat)
    PROVE  (a \o x) \o y = a \o (x \o y)
  BY SMTT(30)

\* A chunk moves from what is not sent yet to what is held.
LEMMA ChunkMoves ==
    ASSUME NEW a \in Seq(Nat), NEW b \in Seq(Nat), NEW n \in 0..Len(b)
    PROVE  (a \o SubSeq(b, 1, n)) \o SubSeq(b, n + 1, Len(b)) = a \o b
<1>1. SubSeq(b, 1, n) \in Seq(Nat) /\ SubSeq(b, n + 1, Len(b)) \in Seq(Nat)
  BY SubSeqProperties
<1>2. PICK x \in Seq(Nat), y \in Seq(Nat) :
        x = SubSeq(b, 1, n) /\ y = SubSeq(b, n + 1, Len(b))
  BY <1>1
<1>3. x \o y = b
  <2>1. CASE n = 0
    <3>1. x = <<>> /\ y = b
      BY <1>2, <2>1
    <3> QED BY <3>1, ConcatEmptySeq
  <2>2. CASE n # 0
    <3>1. PICK k \in 1..Len(b) : k = n
      BY <2>2
    <3>2. x = SubSeq(b, 1, k) /\ y = SubSeq(b, k + 1, Len(b))
      BY <1>2, <3>1
    <3> QED BY <3>2
  <2> QED BY <2>1, <2>2
<1>4. (a \o x) \o y = a \o (x \o y)
  BY Regrouped
<1> QED BY <1>2, <1>3, <1>4

\* No frame of type AUTH that is found in a sound stream has a payload: the
\* header in front of it would have to announce more than the limit.
LEMMA NoAuthPayload ==
    ASSUME NEW h \in Seq(Nat), Sound(h), Total(h) <= Limit,
           HeaderLen + Payload(h) <= Total(h)
    PROVE  LET f == SubSeq(Full(h), 1, HeaderLen + Payload(h))
           IN  f[1] = AUTH => AuthPayload(f) = <<>>
<1> DEFINE f == SubSeq(Full(h), 1, HeaderLen + Payload(h))
<1> SUFFICES ASSUME f[1] = AUTH PROVE AuthPayload(f) = <<>>
  OBVIOUS
<1>1. /\ Total(h) \in Nat /\ Full(h) \in Seq(Nat) /\ Len(Full(h)) = Total(h)
      /\ Payload(h) \in Nat
  BY LengthsTyped
<1>2. f \in Seq(Nat) /\ Len(f) = HeaderLen + Payload(h) /\ f[1] = Full(h)[1]
  BY <1>1 DEF HeaderLen
<1> HIDE DEF f
<1>3. Payload(h) = 0 => AuthPayload(f) = <<>>
  BY <1>2 DEF AuthPayload, HeaderLen
<1> SUFFICES ASSUME Payload(h) >= 1 PROVE FALSE
  BY <1>1, <1>3
<1>4. Len(h) >= 2 /\ Total(h) = HeaderLen + h[2] /\ h[2] >= 1
  <2>1. Total(h) = HeaderLen + IF 2 <= Len(h) THEN h[2] ELSE 0
    BY DEF Total, Flat, HeaderLen
  <2> QED BY <1>1, <2>1 DEF HeaderLen
<1>5. Len(h) >= 3 /\ h[3] = AUTH
  <2> DEFINE g == SubSeq(h, HeaderLen + 1, Len(h))
  <2>1. Rest(h, HeaderLen) = g
    BY <1>4 DEF Rest, HeaderLen
  <2>2. /\ g \in Seq(Nat) /\ Len(g) = Len(h) - 2
        /\ \A i \in 1..(Len(h) - 2) : g[i] = h[i + 2]
    BY <1>4, TailCells DEF HeaderLen
  <2> HIDE DEF g
  <2>3. Full(h)[1] = IF 1 <= Len(g) THEN g[1] ELSE 0
    BY <1>1, <1>4, <2>1 DEF Full, Flat, HeaderLen
  <2> QED BY <1>2, <2>2, <2>3 DEF AUTH
<1>6. h[2] \in {0, Text}
  <2>1. 3 \in 2..Len(h) /\ 3 - 1 = 2
    BY <1>5
  <2> QED BY <1>5, <2>1 DEF Sound
<1> QED BY <1>4, <1>6, FramingAssumption DEF Text, Limit, HeaderLen

\* The first part of a sound stream is sound.
LEMMA PrefixIsSound ==
    ASSUME NEW a \in Seq(Nat), NEW b \in Seq(Nat), Sound(a \o b)
    PROVE  Sound(a)
<1>1. Len(a \o b) = Len(a) + Len(b) /\ \A i \in 1..Len(a) : (a \o b)[i] = a[i]
  BY ConcatProperties
<1>2. ASSUME NEW i \in 2..Len(a), a[i] = AUTH PROVE a[i - 1] \in {0, Text}
  <2>1. i \in 2..Len(a \o b) /\ i \in 1..Len(a) /\ i - 1 \in 1..Len(a)
    BY <1>1
  <2> QED BY <1>1, <1>2, <2>1 DEF Sound
<1> QED BY <1>2 DEF Sound

\* The cells taken for a frame are sound, and so is what remains of them: the
\* zeros they are filled up with are no types.
LEMMA RemainderIsSound ==
    ASSUME NEW h \in Seq(Nat), Sound(h), HeaderLen + Payload(h) <= Total(h)
    PROVE  LET r == SubSeq(Full(h), HeaderLen + Payload(h) + 1, Total(h))
           IN  r \in Seq(Nat) /\ Sound(r)
<1> DEFINE g == Rest(h, HeaderLen)
           m == HeaderLen + Payload(h)
           t == Total(h)
           q == Full(h)
           r == SubSeq(q, m + 1, t)
<1>1. t \in Nat /\ q \in Seq(Nat) /\ Len(q) = t /\ m \in Nat /\ m <= t
  BY LengthsTyped DEF HeaderLen
<1>2. g \in Seq(Nat) /\ Sound(g)
  <2>1. <<>> \in Seq(Nat) /\ HeaderLen \in Nat
    BY DEF HeaderLen
  <2>2. h \o <<>> = h
    BY ConcatEmptySeq
  <2>3. g \in Seq(Nat)
    BY <2>1, RestTyped
  <2>4. g \o <<>> = g
    BY <2>3, ConcatEmptySeq
  <2>5. Sound(g \o <<>>)
    BY <2>1, <2>2, RestIsSound
  <2> QED BY <2>3, <2>4, <2>5
<1>3. \A i \in 1..t : q[i] = IF i <= Len(g) THEN g[i] ELSE 0
  BY <1>1 DEF Full, Flat
<1> HIDE DEF g, m, t, q
<1>4. /\ r \in Seq(Nat) /\ Len(r) = t - m
      /\ \A i \in 1..(t - m) : r[i] = q[i + m]
  BY <1>1, TailCells
<1> HIDE DEF r
<1>5. ASSUME NEW i \in 2..Len(r), r[i] = AUTH PROVE r[i - 1] \in {0, Text}
  <2>1. /\ i \in 1..(t - m) /\ i - 1 \in 1..(t - m)
        /\ i + m \in 1..t /\ i - 1 + m \in 1..t
    BY <1>1, <1>4
  <2>2. q[i + m] = AUTH /\ r[i - 1] = q[i - 1 + m]
    BY <1>4, <1>5, <2>1, Zenon
  <2>3. i + m <= Len(g) /\ g[i + m] = AUTH
    BY <1>3, <2>1, <2>2 DEF AUTH
  <2>4. PICK k \in 2..Len(g) : k = i + m
    BY <1>1, <2>1, <2>3
  <2>5. g[k - 1] \in {0, Text}
    BY <1>2, <2>3, <2>4 DEF Sound
  <2>6. k - 1 = i - 1 + m /\ i - 1 + m <= Len(g)
    BY <1>1, <1>2, <2>4
  <2> QED BY <1>3, <2>1, <2>2, <2>5, <2>6
<1> QED BY <1>4, <1>5 DEF Sound, q, m, t, r

\* A connection that keeps a sound rest is as far from authenticated as before.
LEMMA KeepSound ==
    ASSUME Buffers, Handshakes, NEW c \in Conns, NEW n, NEW h, NEW p,
           conn[c] # "none", Keep(c, n, h, p), UNCHANGED peers,
           Sound(h \o SubSeq(left[c], n + 1, Len(left[c])))
    PROVE  Handshakes'
<1>1. /\ left' = [left EXCEPT ![c] = SubSeq(@, n + 1, Len(@))]
      /\ held' = [held EXCEPT ![c] = h]
      /\ conn' = conn
      /\ looping' = looping \ {c}
  BY DEF Keep
<1>2. \A d \in Conns : d # c => held'[d] = held[d] /\ left'[d] = left[d]
  BY <1>1 DEF Buffers, TcpTypeOK
<1>3. held'[c] = h /\ left'[c] = SubSeq(left[c], n + 1, Len(left[c]))
  BY <1>1 DEF Buffers, TcpTypeOK
<1>4. ASSUME NEW d \in Conns
      PROVE  /\ Sound(held'[d] \o left'[d])
             /\ conn'[d] = "none" => held'[d] = <<>> /\ d \notin looping'
  <2>1. CASE d = c
    BY <1>1, <1>3, <2>1
  <2>2. CASE d # c
    BY <1>1, <1>2, <2>2 DEF Handshakes
  <2> QED BY <2>1, <2>2
<1> QED BY <1>4 DEF Handshakes, Sound

\* A connection that is over has nothing left.
LEMMA GoneSound ==
    ASSUME Buffers, Handshakes, NEW c \in Conns, Gone(c), peers' = {}
    PROVE  Handshakes'
<1>1. /\ conn' = [conn EXCEPT ![c] = "gone"]
      /\ left' = [left EXCEPT ![c] = <<>>]
      /\ held' = [held EXCEPT ![c] = <<>>]
      /\ looping' = looping \ {c}
  BY DEF Gone
<1>2. ASSUME NEW d \in Conns
      PROVE  /\ Sound(held'[d] \o left'[d])
             /\ conn'[d] = "none" => held'[d] = <<>> /\ d \notin looping'
  <2>1. CASE d = c
    <3>1. held'[d] = <<>> /\ left'[d] = <<>> /\ d \notin looping'
      BY <1>1, <2>1 DEF Buffers, TcpTypeOK
    <3>2. Len(<<>> \o <<>>) = 0
      OBVIOUS
    <3> QED BY <3>1, <3>2 DEF Sound
  <2>2. CASE d # c
    <3>1. held'[d] = held[d] /\ left'[d] = left[d] /\ conn'[d] = conn[d]
      BY <1>1, <2>2 DEF Buffers, TcpTypeOK
    <3> QED BY <1>1, <3>1 DEF Handshakes
  <2> QED BY <2>1, <2>2
<1> QED BY <1>2 DEF Handshakes, Sound

\* Whatever processData() makes of a chunk, it authenticates no node.
LEMMA ProcessDataSound ==
    ASSUME Buffers, Handshakes, NEW c \in Conns, NEW n, ProcessData(c, n)
    PROVE  Handshakes'
<1> DEFINE h == Filled(c, n)
           z == SubSeq(left[c], n + 1, Len(left[c]))
<1>1. Sends(c, n)
  BY DEF ProcessData, Overrun, Await, Partial, Oversize, Torn, DispatchFrame,
         Complete
<1>2. /\ n \in Nat /\ h \in Seq(Nat) /\ z \in Seq(Nat)
      /\ conn[c] # "none" /\ n \in 0..Len(left[c])
  BY <1>1, FilledTyped DEF Sends, Handshakes, Buffers, TcpTypeOK
<1>3. left[c] \in Seq(Nat) /\ held[c] \in Seq(Nat) /\ pot[c] \in Nat
  BY DEF Buffers, TcpTypeOK
<1>4. Sound(h \o z)
  BY <1>2, <1>3, ChunkMoves DEF Handshakes, Filled
<1>5. Total(h) \in Nat /\ HeaderLen \in Nat
  BY <1>2, LengthsTyped DEF HeaderLen
<1> HIDE DEF h
<1>6. peers = {}
  BY DEF Handshakes
<1>7. CASE Overrun(c, n) \/ Oversize(c, n)
  BY <1>6, <1>7, GoneSound DEF Overrun, Oversize, Destroy
<1>8. CASE Await(c, n)
  BY <1>2, <1>4, <1>8, KeepSound DEF Await, h
<1>9. CASE Partial(c, n)
  <2>1. Keep(c, n, Rest(h, HeaderLen), pot[c] + n) /\ UNCHANGED peers
    BY <1>9 DEF Partial, h
  <2>2. Sound(Rest(h, HeaderLen) \o z)
    BY <1>2, <1>4, <1>5, RestIsSound
  <2> QED BY <1>2, <2>1, <2>2, KeepSound
<1>10. CASE Torn(c, n)
  <2>1. /\ Keep(c, n, Rest(Rest(h, HeaderLen), Total(h)), pot[c] + n)
        /\ UNCHANGED peers
    BY <1>10 DEF Torn, h
  <2>2. Sound(Rest(h, HeaderLen) \o z) /\ Rest(h, HeaderLen) \in Seq(Nat)
    BY <1>2, <1>4, <1>5, RestIsSound, RestTyped
  <2>3. Sound(Rest(Rest(h, HeaderLen), Total(h)) \o z)
    BY <1>2, <1>5, <2>2, RestIsSound
  <2> QED BY <1>2, <2>1, <2>3, KeepSound
<1>11. CASE DispatchFrame(c, n)
  <2> DEFINE f == SubSeq(Full(h), 1, HeaderLen + Payload(h))
             r == SubSeq(Full(h), HeaderLen + Payload(h) + 1, Total(h))
  <2>1. /\ HeaderLen + Payload(h) <= Total(h) /\ Total(h) <= pot[c] + n
        /\ pot[c] + n <= Limit
    BY <1>2, <1>3, <1>5, <1>11 DEF DispatchFrame, Complete, Fits, h
  <2>2. Sound(h)
    BY <1>2, <1>4, PrefixIsSound
  <2>3. Total(h) <= Limit
    BY <1>2, <1>3, <1>5, <2>1, FramingAssumption DEF Limit
  <2>4. f[1] = AUTH => AuthPayload(f) = <<>>
    BY <1>2, <2>1, <2>2, <2>3, NoAuthPayload
  <2>5. ~Authenticates(f) /\ ~Tolerated(c, f)
    BY <1>6, <2>4, FramingAssumption DEF Authenticates, Tolerated
  <2>6. /\ held' = [held EXCEPT ![c] = r] /\ left' = [left EXCEPT ![c] = <<>>]
        /\ conn' = [conn EXCEPT ![c] = "gone"]
        /\ looping' = looping \cup {c} /\ peers' = peers
    BY <1>11, <2>5 DEF DispatchFrame, h
  <2>7. r \in Seq(Nat) /\ Sound(r)
    BY <1>2, <2>1, <2>2, RemainderIsSound
  <2> HIDE DEF f, r
  <2>8. r \o <<>> = r
    BY <2>7, ConcatEmptySeq
  <2>9. ASSUME NEW d \in Conns
        PROVE  /\ Sound(held'[d] \o left'[d])
               /\ conn'[d] = "none" => held'[d] = <<>> /\ d \notin looping'
    <3>1. CASE d = c
      <4>1. held'[d] = r /\ left'[d] = <<>> /\ conn'[d] = "gone"
        BY <2>6, <3>1 DEF Buffers, TcpTypeOK
      <4> QED BY <2>7, <2>8, <4>1
    <3>2. CASE d # c
      <4>1. held'[d] = held[d] /\ left'[d] = left[d] /\ conn'[d] = conn[d]
        BY <2>6, <3>2 DEF Buffers, TcpTypeOK
      <4> QED BY <2>6, <3>2, <4>1 DEF Handshakes
    <3> QED BY <3>1, <3>2
  <2> QED BY <1>6, <2>6, <2>9 DEF Handshakes, Sound
<1> QED BY <1>7, <1>8, <1>9, <1>10, <1>11 DEF ProcessData

\* Each step of the node leaves every client short of the handshake.
LEMMA NodeHandshakes ==
    ASSUME ClientsAreNodes
    PROVE  Buffers /\ Handshakes /\ [Next]_vars => Handshakes'
<1> SUFFICES ASSUME Buffers, Handshakes, [Next]_vars PROVE Handshakes'
  OBVIOUS
<1>1. CASE UNCHANGED tcpVars
  BY <1>1 DEF tcpVars, Handshakes, Sound
<1>2. CASE TcpStep
  <2>1. ASSUME NEW c \in Conns, End(c) PROVE Handshakes'
    BY <2>1, GoneSound DEF End, Handshakes
  <2> QED BY <1>2, <2>1, ProcessDataSound DEF TcpStep
<1>3. ASSUME NEW c \in Conns, Connects(c) PROVE Handshakes'
  <2>1. PICK s \in Streams : left' = [left EXCEPT ![c] = s]
    BY <1>3 DEF Connects, Accept
  <2>2. /\ conn[c] = "none" /\ conn' = [conn EXCEPT ![c] = "open"]
        /\ UNCHANGED <<held, looping, peers>>
    BY <1>3 DEF Connects, Accept
  <2>3. s \in Seq(Nat) /\ Sound(s)
    BY SentIsSound, FramingAssumption DEF ClientsAreNodes
  <2>4. ASSUME NEW d \in Conns
        PROVE  /\ Sound(held'[d] \o left'[d])
               /\ conn'[d] = "none" => held'[d] = <<>> /\ d \notin looping'
    <3>1. CASE d = c
      <4>1. held'[d] = <<>> /\ left'[d] = s /\ conn'[d] = "open"
        BY <2>1, <2>2, <3>1 DEF Handshakes, Buffers, TcpTypeOK
      <4>2. <<>> \o s = s
        BY <2>3, ConcatEmptySeq
      <4> QED BY <2>3, <4>1, <4>2
    <3>2. CASE d # c
      <4>1. held'[d] = held[d] /\ left'[d] = left[d] /\ conn'[d] = conn[d]
        BY <2>1, <2>2, <3>2 DEF Buffers, TcpTypeOK
      <4> QED BY <2>2, <4>1 DEF Handshakes
    <3> QED BY <3>1, <3>2
  <2> QED BY <2>2, <2>4 DEF Handshakes, Sound
<1>4. ASSUME NEW s \in Stoppers, Stop(s) \/ StopStep(s) PROVE Handshakes'
  <2>1. UNCHANGED tcpVars \/ \E k \in Nat : Disconnect(k)
    BY <1>4, NodeAssumption
       DEF Stop, StopStep, NextTransport, LastTransport, HttpClosed
  <2>2. CASE DestroyPeers
    <3>1. conn' = conn /\ peers' = {} /\ UNCHANGED <<left, held, looping>>
      BY <2>2 DEF DestroyPeers, Handshakes, Buffers, TcpTypeOK
    <3> QED BY <3>1 DEF Handshakes, Sound
  <2> QED BY <1>1, <2>1, <2>2 DEF Disconnect
<1>5. Start \/ StartStep \/ MeshStep \/ UNCHANGED vars => UNCHANGED tcpVars
  BY DEF Start, StartStep, HttpListens, TransportConnects, ListenFails, MeshStep,
         GossipRound, Arrive, Dispatch, Forget, vars, tcpVars
<1> QED BY <1>1, <1>2, <1>3, <1>4, <1>5 DEF Next

\* A server that only nodes of this repository connect to authenticates none
\* of them, however what they send is cut into chunks (TCPTransport.ts:206 and
\* 231-254, TCPAuthHandler.ts:68-79).
THEOREM HandshakesCorrect ==
    ASSUME ClientsAreNodes
    PROVE  Spec => []NoNodeAuthenticates
<1>1. Init => Buffers /\ Handshakes
  <2> SUFFICES ASSUME Init PROVE Buffers /\ Handshakes
    OBVIOUS
  <2>1. Buffers
    BY FramingAssumption DEF Init, TcpInit, Buffers, TcpTypeOK, BufferBounded, Limit
  <2>2. ASSUME NEW c \in Conns PROVE held[c] = <<>> /\ left[c] = <<>>
    BY DEF Init, TcpInit
  <2>3. Len(<<>> \o <<>>) = 0
    OBVIOUS
  <2> QED BY <2>1, <2>2, <2>3 DEF Init, TcpInit, Handshakes, Sound
<1>2. Buffers /\ Handshakes /\ [Next]_vars => (Buffers /\ Handshakes)'
  BY NodeBuffers, NodeHandshakes
<1>3. Handshakes => NoNodeAuthenticates
  BY DEF Handshakes, NoNodeAuthenticates
<1> QED BY <1>1, <1>2, <1>3, PTL DEF Spec, Safe

-----------------------------------------------------------------------------
(* Types *)

\* Each start() sets one interval at most.
IntervalsCounted == /\ intervals <= starts
                    /\ startPc # Idle => intervals < starts

NodeTypes == /\ startPc \in 0..Idle
             /\ stopPc \in [Stoppers -> 0..Idle]
             /\ bound \subseteq 0..N
             /\ listening \in BOOLEAN
             /\ leaked \subseteq 1..N
             /\ intervals \in Nat
             /\ armed \in BOOLEAN
             /\ armed => intervals > 0
             /\ handlers \in BOOLEAN
             /\ starts \in 0..MaxStarts
             /\ stopped \subseteq Stoppers
             /\ overlapped \in BOOLEAN

PacketTypes == /\ known \subseteq Nodes \ {Self}
               /\ inbox \in PacketSet \cup {NoPacket}
               /\ published \in 0..1

\* The steps of start() and stop() keep their types.
LEMMA NodeTyped == NodeTypes /\ IntervalsCounted /\ [Next]_vars
                       => NodeTypes' /\ IntervalsCounted'
<1> SUFFICES ASSUME NodeTypes, IntervalsCounted, [Next]_vars
             PROVE  NodeTypes' /\ IntervalsCounted'
  OBVIOUS
<1>0. /\ Http \in 0..Idle /\ Idle \in 0..Idle /\ Http \notin 1..N
      /\ \A k \in 0..N : k # Idle /\ k + 1 \in 0..Idle
      /\ 1 \in 0..Idle /\ Http # Idle /\ 1..N \subseteq 0..N /\ Http \in 0..N
      /\ 1..(N - 1) \subseteq 1..N
  BY NodeAssumption DEF Idle, Http
<1> USE DEF NodeTypes, IntervalsCounted
<1>1. CASE UNCHANGED <<lifeVars, serverVars, gossipVars, handlers>>
  BY <1>1 DEF lifeVars, serverVars, gossipVars
<1>2. CASE Start
  BY <1>0, <1>2, NodeAssumption
     DEF Start, AllReturned, serverVars, gossipVars, meshVars
<1>3. CASE HttpListens
  BY <1>0, <1>3 DEF HttpListens, gossipVars, meshVars
<1>4. ASSUME NEW k \in 1..N, TransportConnects(k)
      PROVE  NodeTypes' /\ IntervalsCounted'
  <2>1. CASE k = N
    <3>1. intervals' = intervals + 1 /\ armed' = TRUE /\ startPc' = Idle
          /\ starts' = starts /\ intervals < starts
      BY <1>0, <1>4, <2>1 DEF TransportConnects, Idle
    <3>2. intervals' \in Nat /\ intervals' <= starts' /\ intervals' > 0
      BY <3>1
    <3> QED BY <1>0, <1>4, <3>1, <3>2 DEF TransportConnects, meshVars
  <2>2. CASE k # N
    BY <1>0, <1>4, <2>2 DEF TransportConnects, gossipVars, meshVars
  <2> QED BY <2>1, <2>2
<1>5. CASE ListenFails
  BY <1>0, <1>5 DEF ListenFails, gossipVars, meshVars
<1>6. ASSUME NEW s \in Stoppers, Stop(s)
      PROVE  NodeTypes' /\ IntervalsCounted'
  <2>1. intervals' \in Nat /\ intervals' <= intervals /\ armed' = FALSE
    BY <1>6 DEF Stop, StopGossip
  <2>2. startPc # Idle => intervals' < starts
    BY <2>1
  <2>3. intervals' <= starts
    BY <2>1
  <2>4. /\ stopPc' \in [Stoppers -> 0..Idle]
        /\ bound' \subseteq 0..N
        /\ stopped' \subseteq Stoppers
        /\ overlapped' \in BOOLEAN
    BY <1>0, <1>6 DEF Stop, StopListening
  <2>5. UNCHANGED <<startPc, starts, listening, leaked, handlers>>
    BY <1>6 DEF Stop, meshVars
  <2> QED BY <2>1, <2>2, <2>3, <2>4, <2>5
<1>7. ASSUME NEW s \in Stoppers, NextTransport(s)
      PROVE  NodeTypes' /\ IntervalsCounted'
  BY <1>0, <1>7 DEF NextTransport, StopListening, gossipVars, meshVars
<1>8. ASSUME NEW s \in Stoppers, LastTransport(s)
      PROVE  NodeTypes' /\ IntervalsCounted'
  BY <1>0, <1>8 DEF LastTransport, StopListening, StopDispatcher, gossipVars
<1>9. ASSUME NEW s \in Stoppers, HttpClosed(s)
      PROVE  NodeTypes' /\ IntervalsCounted'
  BY <1>0, <1>9 DEF HttpClosed, gossipVars, meshVars
<1>10. MeshStep \/ (\E c \in Conns : Connects(c)) \/ UNCHANGED vars
       \/ (TcpStep /\ UNCHANGED <<lifeVars, serverVars, gossipVars, meshVars>>)
           => UNCHANGED <<lifeVars, serverVars, gossipVars, handlers>>
  BY DEF MeshStep, GossipRound, Arrive, Dispatch, Forget, Connects, vars, meshVars,
         lifeVars, serverVars, gossipVars
<1> QED BY <1>1, <1>2, <1>3, <1>4, <1>5, <1>6, <1>7, <1>8, <1>9, <1>10
        DEF Next, StartStep, StopStep

\* Gossip and control packets keep theirs.
LEMMA PacketsTyped == PacketTypes /\ [Next]_vars => PacketTypes'
<1> SUFFICES ASSUME PacketTypes, [Next]_vars PROVE PacketTypes'
  OBVIOUS
<1> USE DEF PacketTypes
<1>1. CASE UNCHANGED <<known, inbox, published>>
  BY <1>1
<1>2. CASE GossipRound
  BY <1>2 DEF GossipRound, Publish
<1>3. ASSUME NEW m \in Inbound, Arrive(m) PROVE PacketTypes'
  BY <1>3, InboundAssumption DEF Arrive
<1>4. CASE Dispatch
  <2>1. inbox \in PacketSet => Names(inbox) \subseteq Nodes \ {Self}
    BY DEF PacketSet, Names
  <2>2. known' \subseteq Nodes \ {Self}
    BY <1>4, <2>1 DEF Dispatch
  <2>3. inbox' \in PacketSet \cup {NoPacket} /\ published' \in 0..1
    BY <1>4 DEF Dispatch, Publish
  <2> QED BY <2>2, <2>3
<1>5. ASSUME NEW n \in known, Forget(n) PROVE PacketTypes'
  BY <1>5 DEF Forget
<1>6. ASSUME NEW s \in Stoppers, Stop(s) \/ StopStep(s)
      PROVE  UNCHANGED <<known, inbox, published>>
  BY <1>6 DEF Stop, StopStep, NextTransport, LastTransport, HttpClosed, meshVars
<1>7. Start \/ StartStep \/ (\E c \in Conns : Connects(c)) \/ UNCHANGED vars
      \/ (TcpStep /\ UNCHANGED <<lifeVars, serverVars, gossipVars, meshVars>>)
          => UNCHANGED <<known, inbox, published>>
  BY DEF Start, StartStep, HttpListens, TransportConnects, ListenFails, Connects,
         vars, meshVars
<1> QED BY <1>1, <1>2, <1>3, <1>4, <1>5, <1>6, <1>7 DEF Next, MeshStep

\* The initial values have the types, too.
LEMMA InitTyped == Init => NodeTypes /\ IntervalsCounted /\ PacketTypes
<1> SUFFICES ASSUME Init PROVE NodeTypes /\ IntervalsCounted /\ PacketTypes
  OBVIOUS
<1>1. Idle \in 0..Idle /\ 0 \in 0..MaxStarts
  BY NodeAssumption DEF Idle
<1>2. armed = FALSE /\ listening = FALSE /\ handlers = TRUE /\ overlapped = FALSE
  BY DEF Init
<1>3. startPc = Idle /\ stopPc = [s \in Stoppers |-> Idle] /\ bound = {}
      /\ leaked = {} /\ intervals = 0 /\ starts = 0 /\ stopped = {}
  BY DEF Init
<1>4. startPc \in 0..Idle /\ stopPc \in [Stoppers -> 0..Idle]
  BY <1>1, <1>3
<1>5. NodeTypes
  BY <1>1, <1>2, <1>3, <1>4 DEF NodeTypes
<1>6. IntervalsCounted
  BY <1>3 DEF IntervalsCounted
<1>7. PacketTypes
  BY DEF Init, PacketTypes
<1> QED BY <1>5, <1>6, <1>7

\* The variables of the node take the values the code gives them.
THEOREM TypeCorrect == Spec => []TypeOK
<1> DEFINE Types == Buffers /\ NodeTypes /\ IntervalsCounted /\ PacketTypes
<1>1. Init => Types
  BY FramingAssumption, InitTyped
     DEF Init, TcpInit, Buffers, TcpTypeOK, BufferBounded, Limit
<1>2. Types /\ [Next]_vars => Types'
  BY NodeBuffers, NodeTyped, PacketsTyped
<1>3. Types => TypeOK
  BY NodeAssumption
     DEF TypeOK, Buffers, NodeTypes, IntervalsCounted, PacketTypes
<1> QED BY <1>1, <1>2, <1>3, PTL DEF Spec, Safe

-----------------------------------------------------------------------------
(* What stop() releases *)

\* The transports that the stop() of s has disconnected.
Past(s) == IF stopPc[s] = Http THEN 1..N ELSE 1..(stopPc[s] - 1)

\* What the stop() of s has released so far: nothing is started since.
Released(s) == /\ intervals = 0
               /\ bound \cap Past(s) = {}
               /\ stopPc[s] = Tcp => Tcp \notin bound
               /\ stopPc[s] \in {Http, Idle} => Http \notin bound /\ ~handlers
               /\ stopPc[s] = Idle => ~listening

StopProgress == \A s \in stopped : Released(s)

\* What start() has not started yet.
StartProgress ==
    /\ startPc # Idle => stopped = {} /\ intervals = 0 /\ bound \cap (startPc..N) = {}
    /\ starts = 0 => bound = {} /\ ~listening /\ intervals = 0

\* One interval at most, and gossipInterval names it.
OneInterval == (armed => intervals = 1) /\ (~armed => intervals = 0)

\* Inductive as long as no stop() is called while start() waits: start() and
\* the calls of stop() then take turns.
ReleaseInv ==
    ~overlapped => /\ leaked = {}
                   /\ OneInterval
                   /\ Http \in bound => listening
                   /\ \A s \in Stoppers : stopPc[s] # Idle => s \in stopped
                   /\ StartProgress
                   /\ StopProgress

\* A step that leaves alone what it is about keeps ReleaseInv.
LEMMA ReleaseUnchanged ==
    ASSUME ReleaseInv, UNCHANGED <<lifeVars, serverVars, gossipVars, handlers>>
    PROVE  ReleaseInv'
  BY DEF ReleaseInv, OneInterval, StartProgress, StopProgress, Released, Past,
         lifeVars, serverVars, gossipVars

\* When nothing is in progress and start() may be called, nothing is running.
LEMMA NothingRuns ==
    ASSUME NodeTypes, ReleaseInv, ~overlapped, AllReturned,
           starts = 0 \/ stopped # {}
    PROVE  bound = {} /\ ~listening /\ intervals = 0
<1>1. CASE starts = 0
  BY <1>1 DEF ReleaseInv, StartProgress
<1>2. CASE stopped # {}
  <2>1. PICK s \in stopped : stopPc[s] = Idle
    BY <1>2 DEF NodeTypes, AllReturned
  <2>2. /\ intervals = 0
        /\ bound \cap Past(s) = {}
        /\ Http \notin bound
        /\ ~listening
    BY <2>1 DEF ReleaseInv, StopProgress, Released
  <2>3. Past(s) = 1..N
    BY <2>1, NodeAssumption DEF Past, Idle, Http
  <2>4. bound \subseteq 0..N /\ 0 \notin bound /\ bound \cap (1..N) = {}
    BY <2>2, <2>3 DEF NodeTypes, Http
  <2>5. 0..N = {0} \cup (1..N)
    BY NodeAssumption
  <2> QED BY <2>2, <2>4, <2>5
<1> QED BY <1>1, <1>2

\* While start() waits, nothing is stopped and nothing is left to start twice.
LEMMA Starting ==
    ASSUME NodeTypes, IntervalsCounted, ReleaseInv, ~overlapped, startPc # Idle
    PROVE  /\ stopped = {} /\ intervals = 0 /\ ~armed /\ leaked = {}
           /\ starts # 0
           /\ \A s \in Stoppers : stopPc[s] = Idle
           /\ \A k \in startPc..N : k \notin bound
<1>1. stopped = {} /\ intervals = 0 /\ leaked = {} /\ bound \cap (startPc..N) = {}
  BY DEF ReleaseInv, StartProgress
<1>2. ~armed
  BY <1>1 DEF NodeTypes
<1>3. starts # 0
  BY <1>1 DEF IntervalsCounted
<1>4. \A s \in Stoppers : stopPc[s] = Idle
  BY <1>1 DEF ReleaseInv
<1> QED BY <1>1, <1>2, <1>3, <1>4

\* Each step of start() keeps ReleaseInv.
LEMMA StartReleases ==
    NodeTypes /\ IntervalsCounted /\ ReleaseInv /\ (Start \/ StartStep) => ReleaseInv'
<1>1. Start \/ StartStep => overlapped' = overlapped
  BY DEF Start, StartStep, HttpListens, TransportConnects, ListenFails
<1> SUFFICES ASSUME NodeTypes, IntervalsCounted, ReleaseInv, Start \/ StartStep,
                    ~overlapped
             PROVE  ReleaseInv'
  BY <1>1 DEF ReleaseInv
<1>2. CASE Start
  <2>1. bound = {} /\ ~listening /\ intervals = 0
    BY <1>2, NothingRuns DEF Start
  <2>2. /\ stopped' = {} /\ \A s \in Stoppers : stopPc'[s] = Idle
        /\ UNCHANGED <<overlapped, bound, listening, leaked, intervals, armed>>
    BY <1>2 DEF Start, AllReturned, serverVars, gossipVars, NodeTypes
  <2>3. starts' # 0
    BY <1>2 DEF Start, NodeTypes
  <2>4. StartProgress' /\ StopProgress'
    BY <2>1, <2>2, <2>3 DEF StartProgress, StopProgress
  <2> QED BY <2>1, <2>2, <2>4 DEF ReleaseInv, OneInterval
<1>3. CASE HttpListens
  <2>1. startPc = Http /\ startPc # Idle
    BY <1>3, NodeAssumption DEF HttpListens, Http, Idle
  <2>2. /\ startPc' = 1 /\ listening' = TRUE /\ bound' \subseteq bound \cup {Http}
        /\ UNCHANGED <<stopPc, starts, stopped, overlapped, leaked, intervals, armed>>
    BY <1>3 DEF HttpListens, gossipVars
  <2>3. bound' \cap (1..N) = {}
    BY <2>1, <2>2, Starting, NodeAssumption DEF Http
  <2>4. StartProgress' /\ StopProgress'
    BY <2>1, <2>2, <2>3, Starting DEF StartProgress, StopProgress
  <2> QED BY <2>1, <2>2, <2>4, Starting DEF ReleaseInv, OneInterval
<1>4. ASSUME NEW k \in 1..N, TransportConnects(k) PROVE ReleaseInv'
  <2>1. startPc = k /\ startPc # Idle /\ k # Http
    BY <1>4, NodeAssumption DEF TransportConnects, Http, Idle
  <2>2. /\ startPc' = k + 1 /\ bound' = bound \cup {k}
        /\ UNCHANGED <<stopPc, starts, stopped, overlapped, listening, leaked>>
    BY <1>4 DEF TransportConnects
  <2>3. bound' \cap ((k + 1)..N) = {}
    BY <2>1, <2>2, Starting, NodeAssumption
  <2>4. OneInterval' /\ (startPc' # Idle => intervals' = 0)
    <3>1. CASE k = N
      BY <1>4, <2>1, <2>2, <3>1, Starting DEF TransportConnects, OneInterval, Idle
    <3>2. CASE k # N
      BY <1>4, <2>1, <3>2, Starting DEF TransportConnects, OneInterval, gossipVars
    <3> QED BY <3>1, <3>2
  <2>5. StartProgress' /\ StopProgress'
    BY <2>1, <2>2, <2>3, <2>4, Starting DEF StartProgress, StopProgress
  <2>6. Http \in bound' => listening'
    BY <2>1, <2>2 DEF ReleaseInv
  <2> QED BY <2>1, <2>2, <2>4, <2>5, <2>6, Starting DEF ReleaseInv
<1>5. CASE ListenFails
  <2>1. startPc \in 0..N /\ startPc # Idle /\ startPc \in startPc..N
    BY <1>5, NodeAssumption DEF ListenFails, Idle
  <2>2. startPc \notin bound
    BY <2>1, Starting
  <2>3. /\ startPc' = Idle /\ leaked' = {}
        /\ UNCHANGED <<stopPc, starts, stopped, overlapped, bound, listening,
                       intervals, armed>>
    BY <1>5, <2>1, <2>2, Starting DEF ListenFails, gossipVars
  <2>4. StartProgress' /\ StopProgress'
    BY <2>1, <2>3, Starting DEF StartProgress, StopProgress
  <2> QED BY <2>1, <2>3, <2>4, Starting DEF ReleaseInv, OneInterval
<1> QED BY <1>2, <1>3, <1>4, <1>5 DEF StartStep

\* A step of stop(): nothing is started, and the other calls of stop() stay
\* where they are.
StopEffect(s) ==
    /\ startPc = Idle /\ startPc' = Idle /\ starts' = starts
    /\ stopped' = stopped \cup {s}
    /\ overlapped' = overlapped /\ leaked' = leaked
    /\ bound' \subseteq bound
    /\ listening' => listening
    /\ handlers' => handlers
    /\ intervals' = 0 /\ ~armed'
    /\ \A t \in Stoppers : t # s => stopPc'[t] = stopPc[t]

\* Such a step keeps ReleaseInv if the stop() that takes it does its part.
LEMMA StopInTurn ==
    ASSUME NodeTypes, ReleaseInv, ~overlapped, NEW s \in Stoppers, StopEffect(s),
           Released(s)', Http \in bound' => listening'
    PROVE  ReleaseInv'
<1>1. ASSUME NEW t \in stopped', t # s PROVE Released(t)'
  <2>1. t \in stopped /\ t \in Stoppers /\ stopPc'[t] = stopPc[t]
    BY <1>1 DEF StopEffect, NodeTypes
  <2>2. Released(t) /\ Past(t)' = Past(t)
    BY <2>1 DEF ReleaseInv, StopProgress, Past
  <2> QED BY <2>1, <2>2 DEF Released, StopEffect
<1>2. StopProgress'
  BY <1>1 DEF StopProgress
<1>3. StartProgress'
  BY DEF StopEffect, ReleaseInv, StartProgress
<1>4. \A t \in Stoppers : stopPc'[t] # Idle => t \in stopped'
  BY DEF StopEffect, ReleaseInv
<1> QED BY <1>2, <1>3, <1>4 DEF StopEffect, ReleaseInv, OneInterval

\* While a stop() is in progress, nothing is started.
LEMMA Stopping ==
    ASSUME NodeTypes, ReleaseInv, ~overlapped, NEW s \in Stoppers, stopPc[s] # Idle
    PROVE  /\ s \in stopped /\ Released(s) /\ startPc = Idle /\ leaked = {}
           /\ intervals = 0 /\ ~armed
           /\ Http \in bound => listening
<1>1. s \in stopped
  BY DEF ReleaseInv
<1>2. Released(s)
  BY <1>1 DEF ReleaseInv, StopProgress
<1>3. startPc = Idle
  BY <1>1 DEF ReleaseInv, StartProgress
<1>4. intervals = 0 /\ ~armed
  BY <1>2 DEF Released, NodeTypes
<1> QED BY <1>1, <1>2, <1>3, <1>4 DEF ReleaseInv

\* Each step of stop() keeps ReleaseInv.
LEMMA StopReleasesInTurn ==
    ASSUME NodeTypes, ReleaseInv, NEW s \in Stoppers, Stop(s) \/ StopStep(s)
    PROVE  ReleaseInv'
<1>1. ~overlapped' => ~overlapped
  BY DEF Stop, StopStep, NextTransport, LastTransport, HttpClosed, NodeTypes
<1> SUFFICES ASSUME ~overlapped, ~overlapped' PROVE ReleaseInv'
  BY <1>1 DEF ReleaseInv
<1>2. leaked = {} /\ (Http \in bound => listening)
  BY DEF ReleaseInv
<1>3. CASE Stop(s)
  <2>1. startPc = Idle /\ overlapped' = overlapped
    BY <1>3 DEF Stop, NodeTypes
  <2>2. intervals' = 0 /\ ~armed'
    BY <1>3 DEF Stop, StopGossip, ReleaseInv, OneInterval, NodeTypes
  <2>3. bound' = bound \ AtOnce(1) /\ stopPc' = [stopPc EXCEPT ![s] = 1]
        /\ stopped' = stopped \cup {s}
        /\ UNCHANGED <<startPc, starts, listening, leaked, handlers>>
    BY <1>2, <1>3 DEF Stop, StopListening, meshVars
  <2>4. StopEffect(s)
    BY <2>1, <2>2, <2>3 DEF StopEffect, NodeTypes
  <2>5. stopPc'[s] = 1 /\ 1 \notin {Http, Idle}
    BY <2>3, NodeAssumption DEF NodeTypes, Http, Idle
  <2>6. Past(s)' = {}
    BY <2>5 DEF Past
  <2>7. Released(s)'
    BY <2>2, <2>3, <2>5, <2>6 DEF Released, AtOnce
  <2> QED BY <1>2, <2>3, <2>4, <2>7, StopInTurn
<1>4. CASE NextTransport(s)
  <2> DEFINE k == stopPc[s]
  <2>1. k \in 1..(N - 1) /\ k # Idle /\ k # Http
    BY <1>4, NodeAssumption DEF NextTransport, Idle, Http
  <2>2. /\ bound' = bound \ (WhenDone(k) \cup AtOnce(k + 1))
        /\ stopPc' = [stopPc EXCEPT ![s] = k + 1]
        /\ UNCHANGED <<startPc, starts, stopped, overlapped, listening, leaked,
                       handlers, intervals, armed>>
    BY <1>2, <1>4 DEF NextTransport, StopListening, gossipVars, meshVars
  <2>3. StopEffect(s)
    BY <2>1, <2>2, Stopping DEF StopEffect, NodeTypes
  <2>4. stopPc'[s] = k + 1 /\ k + 1 \notin {Http, Idle}
    BY <2>1, <2>2, NodeAssumption DEF NodeTypes, Http, Idle
  <2>5. Past(s)' = 1..k /\ Past(s) = 1..(k - 1)
    BY <2>1, <2>4 DEF Past
  <2>6. k \notin bound'
    BY <2>1, <2>2, Stopping DEF Released, WhenDone
  <2>7. bound' \cap Past(s)' = {}
    BY <2>1, <2>2, <2>5, <2>6, Stopping DEF Released
  <2>8. Released(s)'
    BY <2>1, <2>2, <2>4, <2>7, Stopping DEF Released, AtOnce
  <2> QED BY <1>2, <2>2, <2>3, <2>8, StopInTurn
<1>5. CASE LastTransport(s)
  <2>1. stopPc[s] = N /\ N # Idle /\ N # Http /\ Tcp # Http /\ Tcp # Idle
    BY <1>5, NodeAssumption DEF LastTransport, Idle, Http
  <2>2. /\ bound' = bound \ (WhenDone(N) \cup (IF listening THEN {Http} ELSE {}))
        /\ stopPc' = [stopPc EXCEPT ![s] = IF listening THEN Http ELSE Idle]
        /\ ~handlers'
        /\ UNCHANGED <<startPc, starts, stopped, overlapped, listening, leaked,
                       intervals, armed>>
    BY <1>2, <1>5 DEF LastTransport, StopListening, StopDispatcher, gossipVars
  <2>3. StopEffect(s)
    BY <2>1, <2>2, Stopping DEF StopEffect, NodeTypes
  <2>4. stopPc'[s] \in {Http, Idle} /\ (stopPc'[s] = Idle => ~listening)
    BY <2>2, NodeAssumption DEF NodeTypes, Http, Idle
  <2>5. Past(s)' = 1..N /\ Past(s) = 1..(N - 1)
    BY <2>1, <2>4, NodeAssumption DEF Past, Http, Idle
  <2>6. N \notin bound' /\ Http \notin bound'
    BY <1>2, <2>1, <2>2, Stopping DEF Released, WhenDone
  <2>7. bound' \cap Past(s)' = {}
    BY <2>1, <2>2, <2>5, <2>6, Stopping, NodeAssumption DEF Released
  <2>8. Released(s)'
    BY <2>1, <2>2, <2>4, <2>6, <2>7, Stopping DEF Released
  <2> QED BY <2>3, <2>6, <2>8, StopInTurn
<1>6. CASE HttpClosed(s)
  <2>1. stopPc[s] = Http /\ Http # Idle /\ Tcp # Idle
    BY <1>6, NodeAssumption DEF HttpClosed, Http, Idle
  <2>2. /\ ~listening' /\ stopPc' = [stopPc EXCEPT ![s] = Idle]
        /\ UNCHANGED <<startPc, starts, stopped, overlapped, bound, leaked,
                       intervals, armed, handlers>>
    BY <1>6 DEF HttpClosed, gossipVars, meshVars
  <2>3. StopEffect(s)
    BY <2>1, <2>2, Stopping DEF StopEffect, NodeTypes
  <2>4. stopPc'[s] = Idle
    BY <2>2 DEF NodeTypes
  <2>5. Past(s)' = 1..N /\ Past(s) = 1..N
    BY <2>1, <2>4, NodeAssumption DEF Past, Http, Idle
  <2>6. Http \notin bound
    BY <2>1, Stopping DEF Released
  <2>7. Released(s)'
    BY <2>1, <2>2, <2>4, <2>5, <2>6, Stopping DEF Released
  <2> QED BY <2>2, <2>3, <2>6, <2>7, StopInTurn
<1> QED BY <1>3, <1>4, <1>5, <1>6 DEF StopStep

NodeInv == NodeTypes /\ IntervalsCounted /\ ReleaseInv

\* Every step of the node keeps NodeInv.
LEMMA NodeInvKept == NodeInv /\ [Next]_vars => NodeInv'
<1> SUFFICES ASSUME NodeInv, [Next]_vars PROVE ReleaseInv'
  BY NodeTyped DEF NodeInv
<1>1. CASE Start \/ StartStep
  BY <1>1, StartReleases DEF NodeInv
<1>2. ASSUME NEW s \in Stoppers, Stop(s) \/ StopStep(s) PROVE ReleaseInv'
  BY <1>2, StopReleasesInTurn DEF NodeInv
<1>3. MeshStep \/ (\E c \in Conns : Connects(c)) \/ UNCHANGED vars
      \/ (TcpStep /\ UNCHANGED <<lifeVars, serverVars, gossipVars, meshVars>>)
          => UNCHANGED <<lifeVars, serverVars, gossipVars, handlers>>
  BY DEF MeshStep, GossipRound, Arrive, Dispatch, Forget, Connects, vars, meshVars,
         lifeVars, serverVars, gossipVars
<1> QED BY <1>1, <1>2, <1>3, ReleaseUnchanged DEF NodeInv, Next

\* When every call has returned after a stop(), nothing runs any more.
LEMMA NothingLeft ==
    ASSUME NodeInv, Down
    PROVE  bound = {} /\ ~listening /\ intervals = 0 /\ ~handlers
<1>1. bound = {} /\ ~listening /\ intervals = 0
  BY NothingRuns DEF NodeInv, Down
<1>2. PICK s \in stopped : stopPc[s] = Idle
  BY DEF NodeInv, NodeTypes, Down, AllReturned
<1>3. ~handlers
  BY <1>2 DEF NodeInv, Down, ReleaseInv, StopProgress, Released
<1> QED BY <1>1, <1>3

\* The initial state of a node: nothing runs.
LEMMA NodeInitially == Init => NodeInv
<1> SUFFICES ASSUME Init PROVE NodeInv
  OBVIOUS
<1>1. NodeTypes /\ IntervalsCounted
  BY InitTyped
<1>2. /\ armed = FALSE /\ intervals = 0 /\ bound = {} /\ listening = FALSE
      /\ leaked = {} /\ startPc = Idle /\ stopped = {}
      /\ \A s \in Stoppers : stopPc[s] = Idle
  BY DEF Init
<1>3. ReleaseInv
  BY <1>2 DEF ReleaseInv, OneInterval, StartProgress, StopProgress
<1> QED BY <1>1, <1>3 DEF NodeInv

\* A stop() that returned has released every listener and the gossip interval,
\* however start() had failed and the callers of stop() interleave
\* (MeshNetwork.ts:116-134).
THEOREM StopCorrect == Spec => []StopReleases
<1>1. NodeInv => StopReleases
  BY NothingLeft DEF StopReleases
<1> QED BY <1>1, NodeInitially, NodeInvKept, PTL DEF Spec, Safe

\* A stopped node publishes nothing and learns of no node
\* (NetworkDispatcher.ts:73-76, MeshOrchestrator.ts:33-35).
THEOREM QuietCorrect == Spec => QuietAfterStop
<1>1. NodeInv /\ [Next]_vars
          => [Down => published' = published /\ known' \subseteq known]_vars
  <2> SUFFICES ASSUME NodeInv, [Next]_vars, Down
               PROVE  published' = published /\ known' \subseteq known
    OBVIOUS
  <2>1. intervals = 0 /\ ~handlers
    BY NothingLeft
  <2>2. ~GossipRound
    BY <2>1 DEF GossipRound
  <2>3. CASE UNCHANGED <<known, published>>
    BY <2>3
  <2>4. CASE Dispatch
    BY <2>1, <2>4 DEF Dispatch
  <2>5. ASSUME NEW n \in known, Forget(n)
        PROVE  published' = published /\ known' \subseteq known
    BY <2>5 DEF Forget
  <2>6. ASSUME NEW s \in Stoppers, Stop(s) \/ StopStep(s)
        PROVE  UNCHANGED <<known, published>>
    BY <2>6 DEF Stop, StopStep, NextTransport, LastTransport, HttpClosed, meshVars
  <2>7. Start \/ StartStep \/ (\E c \in Conns : Connects(c)) \/ UNCHANGED vars
        \/ (\E m \in Inbound : Arrive(m))
        \/ (TcpStep /\ UNCHANGED <<lifeVars, serverVars, gossipVars, meshVars>>)
            => UNCHANGED <<known, published>>
    BY DEF Start, StartStep, HttpListens, TransportConnects, ListenFails, Connects,
           Arrive, vars, meshVars
  <2> QED BY <2>2, <2>3, <2>4, <2>5, <2>6, <2>7 DEF Next, MeshStep
<1> QED BY <1>1, NodeInitially, NodeInvKept, PTL DEF QuietAfterStop, Spec, Safe

=============================================================================
