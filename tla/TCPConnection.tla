---------------------------- MODULE TCPConnection ----------------------------
(***************************************************************************)
(* The inbound connections of the TCP transport                            *)
(* (src/src/transports/node/TCPTransport.ts) and the framing of what       *)
(* arrives on them (src/src/transports/helpers/TCPFrameCodec.ts), up to    *)
(* the handshake (src/src/transports/helpers/TCPAuthHandler.ts).           *)
(*                                                                         *)
(* A stream is a sequence of cells.  A cell of the header stands for a     *)
(* field of it: the type, then the length (21 bytes in the code, where the *)
(* message id between them is looked at by nobody).  A cell Text stands    *)
(* for printable text: read as a length it exceeds every limit, as any     *)
(* four characters do, and read as a type it is none.                      *)
(*                                                                         *)
(* The chunks of a connection are put together in held: where one chunk    *)
(* ends and the next begins makes no difference to flattenBufferList().    *)
(***************************************************************************)
EXTENDS Naturals, Sequences, FiniteSets

CONSTANTS Conns,      \* inbound connections
          Streams,    \* what a client may send
          Response,   \* payload of a handshake response that is verified
          Ignored,    \* payloads that handleAuth() answers or passes over: a
                      \* challenge it can sign, or of a type it does not know
          MaxFrame,   \* MAX_FRAME_SIZE, in cells
          Slack       \* the 64 bytes a buffer may hold beyond it, in cells

HeaderLen == 2

ASSUME FramingAssumption == /\ Streams \subseteq Seq(Nat)
                            /\ MaxFrame \in Nat
                            /\ Slack \in Nat
                            /\ HeaderLen <= Slack
                            /\ Response \in Seq(Nat) \ {<<>>}
                            /\ Ignored \subseteq Seq(Nat) \ {<<>>, Response}

AUTH == 1
PING == 5

Limit == MaxFrame + Slack
Text == Limit + 1

\* What a node of this repository writes to a socket.  It encode()s frames,
\* with a printable message id, and their payloads are empty (PING) or JSON
\* text that is longer than a header: a challenge, a response, or a packet
\* that a serializer, all of which are JSON, has made.  encode() itself takes
\* any bytes: nothing is said here of streams that other programs make.
SentByNode(s) == \E types \in SUBSET DOMAIN s :
    /\ s = <<>> \/ 1 \in types
    /\ \A j \in types : j + 1 \in DOMAIN s /\ (s[j + 1] = 0 \/ s[j + 1] >= HeaderLen)
    /\ \A j \in types : \A k \in (j + 1)..(j + 1 + s[j + 1]) : k \in DOMAIN s \ types
    /\ \A j \in types : j = 1 \/ \E i \in types : j = i + HeaderLen + s[i + 1]
    /\ \A k \in DOMAIN s \ types : k - 1 \in types \/ s[k] = Text

ClientsAreNodes == \A s \in Streams : SentByNode(s)

VARIABLES
    conn,   \* conn[c]: not accepted yet, open, or gone
    left,   \* left[c]: what the client has not sent yet
    held,   \* held[c]: the cells of bufferList
    pot,    \* pot[c]: bufferPotSize
    looping, \* connections for which the loop of processData() goes on
    peers   \* authenticated connections, under different node ids

tcpVars == <<conn, left, held, pot, looping, peers>>

TcpInit == /\ conn = [c \in Conns |-> "none"]
           /\ left = [c \in Conns |-> <<>>]
           /\ held = [c \in Conns |-> <<>>]
           /\ pot = [c \in Conns |-> 0]
           /\ looping = {}
           /\ peers = {}

-----------------------------------------------------------------------------
(* flattenBufferList(list, n) *)

\* The n cells it returns: zeros where the list has no more.
Flat(h, n) == [i \in 1..n |-> IF i <= Len(h) THEN h[i] ELSE 0]

\* Mutant: what was looked at stays in the list.
Rest_Peek(h, n) == h

\* The list it leaves behind: the cells are gone, unless there were too few.
Rest(h, n) == IF n <= Len(h) THEN SubSeq(h, n + 1, Len(h)) ELSE h

-----------------------------------------------------------------------------
\* handleConnection() of an authorized client: it is sent a challenge.
Accept(c) == /\ conn[c] = "none"
             /\ conn' = [conn EXCEPT ![c] = "open"]
             /\ \E s \in Streams : left' = [left EXCEPT ![c] = s]
             /\ UNCHANGED <<held, pot, looping, peers>>

\* The connection is over and its buffer with it.
Gone(c) == /\ conn' = [conn EXCEPT ![c] = "gone"]
           /\ left' = [left EXCEPT ![c] = <<>>]
           /\ held' = [held EXCEPT ![c] = <<>>]
           /\ pot' = [pot EXCEPT ![c] = 0]
           /\ looping' = looping \ {c}

\* The client ends the connection: its entry goes too.
End(c) == /\ conn[c] = "open" /\ c \notin looping
          /\ Gone(c)
          /\ peers' = peers \ {c}

\* The server destroys the connection: there is no 'end' event.
Destroy(c) == Gone(c) /\ UNCHANGED peers

\* h and p are what is held and counted from now on; the loop ends.
Keep(c, n, h, p) == /\ left' = [left EXCEPT ![c] = SubSeq(@, n + 1, Len(@))]
                    /\ held' = [held EXCEPT ![c] = h]
                    /\ pot' = [pot EXCEPT ![c] = p]
                    /\ looping' = looping \ {c}
                    /\ UNCHANGED conn

\* Mutant: only the chunk is compared with the limit.
Fits_ChunkOnly(c, n) == n <= Limit

\* The first check of processData().
Fits(c, n) == pot[c] + n <= Limit

\* The next n cells arrive, or, with n = 0, the loop goes on with what is held,
\* also when the connection has been destroyed in it.
Sends(c, n) == IF c \in looping THEN n = 0
                                ELSE conn[c] = "open" /\ n \in 1..Len(left[c])

\* The buffer with the chunk added.
Filled(c, n) == held[c] \o SubSeq(left[c], 1, n)

\* The length of the next frame, read from a header that is taken out of the
\* buffer by the look at it.
Total(h) == HeaderLen + Flat(h, HeaderLen)[2]

\* What is then taken for the frame, and for the length of its payload.
Full(h) == Flat(Rest(h, HeaderLen), Total(h))
Payload(h) == Full(h)[2]

\* More than a frame may be: the connection is destroyed.
Overrun(c, n) == /\ Sends(c, n)
                 /\ ~Fits(c, n)
                 /\ Destroy(c)

\* Not enough for a header.
Await(c, n) == /\ Sends(c, n)
               /\ Fits(c, n)
               /\ pot[c] + n < HeaderLen
               /\ Keep(c, n, Filled(c, n), pot[c] + n)
               /\ UNCHANGED peers

\* Not enough for the frame; the header is lost all the same.
Partial(c, n) == LET h == Filled(c, n) IN
    /\ Sends(c, n)
    /\ Fits(c, n)
    /\ pot[c] + n >= HeaderLen
    /\ pot[c] + n < Total(h)
    /\ Keep(c, n, Rest(h, HeaderLen), pot[c] + n)
    /\ UNCHANGED peers

\* As many cells as the frame needs have arrived.
Complete(c, n) == /\ Sends(c, n)
                  /\ Fits(c, n)
                  /\ pot[c] + n >= HeaderLen
                  /\ pot[c] + n >= Total(Filled(c, n))

\* decode() throws at the length it reads.
Oversize(c, n) == /\ Complete(c, n)
                  /\ Payload(Filled(c, n)) > MaxFrame
                  /\ Destroy(c)

\* decode() finds the frame too short for the length it reads: the loop ends
\* with the cells taken out and the counter as it was.
Torn(c, n) == LET h == Filled(c, n) IN
    /\ Complete(c, n)
    /\ Payload(h) <= MaxFrame
    /\ HeaderLen + Payload(h) > Total(h)
    /\ Keep(c, n, Rest(Rest(h, HeaderLen), Total(h)), pot[c] + n)
    /\ UNCHANGED peers

AuthPayload(f) == SubSeq(f, HeaderLen + 1, Len(f))

\* handleAuth() verifies the signature of a response.  The wait for it is not
\* modelled.
Authenticates(f) == f[1] = AUTH /\ AuthPayload(f) = Response

\* Frames that do not end the connection: before authentication those only
\* that handleAuth() does not object to, after it all but AUTH ones too.
Tolerated(c, f) == IF f[1] = AUTH THEN AuthPayload(f) \in Ignored \cup {Response}
                                  ELSE c \in peers

\* dispatchFrame(), and the loop goes on with what remains of the cells taken
\* for the frame, also after destroy(), which returns at once.
DispatchFrame(c, n) ==
    LET h == Filled(c, n)
        f == SubSeq(Full(h), 1, HeaderLen + Payload(h))
        r == SubSeq(Full(h), HeaderLen + Payload(h) + 1, Total(h))
    IN  /\ Complete(c, n)
        /\ Payload(h) <= MaxFrame
        /\ HeaderLen + Payload(h) <= Total(h)
        /\ held' = [held EXCEPT ![c] = r]
        /\ pot' = [pot EXCEPT ![c] = Len(r)]
        /\ looping' = looping \cup {c}
        /\ peers' = IF Authenticates(f) THEN peers \cup {c} ELSE peers
        /\ conn' = IF Tolerated(c, f) THEN conn ELSE [conn EXCEPT ![c] = "gone"]
        /\ left' = [left EXCEPT ![c] = IF Tolerated(c, f)
                                       THEN SubSeq(@, n + 1, Len(@)) ELSE <<>>]

ProcessData(c, n) == \/ Overrun(c, n) \/ Await(c, n) \/ Partial(c, n)
                     \/ Oversize(c, n) \/ Torn(c, n) \/ DispatchFrame(c, n)

\* disconnect() destroys the authenticated connections, no other.
DestroyPeers ==
    /\ conn' = [c \in Conns |-> IF c \in peers THEN "gone" ELSE conn[c]]
    /\ peers' = {}
    /\ UNCHANGED <<left, held, pot, looping>>

TcpStep == \E c \in Conns : \/ End(c)
                            \/ \E n \in 0..Len(left[c]) : ProcessData(c, n)

-----------------------------------------------------------------------------
(* Properties *)

TcpTypeOK == /\ conn \in [Conns -> {"none", "open", "gone"}]
             /\ left \in [Conns -> Seq(Nat)]
             /\ held \in [Conns -> Seq(Nat)]
             /\ pot \in [Conns -> Nat]
             /\ looping \subseteq Conns
             /\ peers \subseteq Conns

\* A client makes the transport hold no more than the limit, whatever the
\* chunks it sends and however the counter and the buffer drift apart: the
\* counter never falls behind what is held (TCPTransport.ts:188-224).
BufferBounded == \A c \in Conns : Len(held[c]) <= pot[c] /\ pot[c] <= Limit

\* If the clients are nodes of this repository (ClientsAreNodes), none of them
\* gets past the handshake.  Its response loses the header that is looked at,
\* in one chunk or in several, and nothing else that such a node sends stands
\* in for it (TCPTransport.ts:206 and 231-254, TCPAuthHandler.ts:68-79).
NoNodeAuthenticates == peers = {}

=============================================================================
